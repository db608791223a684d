------------------------------ MODULE Heartbeat ------------------------------
(***************************************************************************)
(* The failure detector of the replication layer (internal/replication's   *)
(* MSP, msp.go): every node times the heartbeats of its peers, considers a *)
(* silent one subjectively down (SDOWN), gossips a down-vote once, counts  *)
(* the votes of others, and reports the peer objectively down (ODOWN) once *)
(* per episode, which starts the failover election when the peer leads.    *)
(*                                                                         *)
(* The votes about different peers do not meet, so the module follows one  *)
(* peer, Target, watched by all the others.  A heartbeat of a live target  *)
(* may reach any watcher at any time or, across a partition, never.        *)
(***************************************************************************)
EXTENDS Naturals, FiniteSets

CONSTANTS
    Watcher,    \* the other nodes
    Observer,   \* those that do not vote
    Steady,     \* those that are assumed to keep running; the others may stop
    Missed      \* missedThreshold: beats of silence before SDOWN

Voter == Watcher \ Observer

ASSUME HeartbeatAssumption ==
    /\ IsFiniteSet(Watcher) /\ Observer \subseteq Watcher /\ Steady \subseteq Watcher
    /\ Missed \in Nat

VARIABLES
    up,        \* the target runs
    late,      \* watchers to whom a heartbeat sent before the crash is in flight
    miss,      \* beats since the target was heard, up to the threshold and one
    sdown,     \* PeerState.SDown
    fired,     \* PeerState.odownFired: OnODown was called in this episode
    votes,     \* votedDown[target]: the senders of down-votes
    gossip,    \* down-votes in flight, <<sender, receiver>>
    suspected, \* history: the voters that ever considered the target down
    voteLost   \* history: a down-vote was lost

vars == <<up, late, miss, sdown, fired, votes, gossip, suspected, voteLost>>

TypeOK ==
    /\ up \in BOOLEAN /\ late \subseteq Watcher
    /\ miss \in [Watcher -> 0 .. Missed + 1]
    /\ sdown \in [Watcher -> BOOLEAN] /\ fired \in [Watcher -> BOOLEAN]
    /\ votes \in [Watcher -> SUBSET Voter]
    /\ gossip \subseteq Watcher \X Watcher
    /\ suspected \subseteq Watcher /\ voteLost \in BOOLEAN

Init ==
    /\ up = TRUE /\ late = {}
    /\ miss = [n \in Watcher |-> 0]
    /\ sdown = [n \in Watcher |-> FALSE] /\ fired = [n \in Watcher |-> FALSE]
    /\ votes = [n \in Watcher |-> {}]
    /\ gossip = {} /\ suspected = {} /\ voteLost = FALSE

-----------------------------------------------------------------------------
\* nonObserverQuorumLocked: half of the node itself, which counts even where it
\* is an observer, the target and the other voters, and one.
Quorum(n) == (Cardinality(Voter \cup {n}) + 1) \div 2 + 1

\* The node's own vote and those of others.
Agreed(n, V) == Cardinality(V) + 1 >= Quorum(n)

\* Mutant of HandleHeartbeat: the latch stays set after the target has come back.
StickyLatch(n) ==
    /\ (up \/ n \in late)
    /\ late' = late \ {n}
    /\ miss' = [miss EXCEPT ![n] = 0]
    /\ sdown' = [sdown EXCEPT ![n] = FALSE]
    /\ votes' = [votes EXCEPT ![n] = IF sdown[n] THEN {} ELSE @]
    /\ UNCHANGED <<up, fired, gossip, suspected, voteLost>>

\* A heartbeat: the clock starts again, and at the end of an episode the latch and
\* the collected votes go.
HandleHeartbeat(n) ==
    /\ (up \/ n \in late)
    /\ late' = late \ {n}
    /\ miss' = [miss EXCEPT ![n] = 0]
    /\ sdown' = [sdown EXCEPT ![n] = FALSE]
    /\ fired' = [fired EXCEPT ![n] = @ /\ ~sdown[n]]
    /\ votes' = [votes EXCEPT ![n] = IF sdown[n] THEN {} ELSE @]
    /\ UNCHANGED <<up, gossip, suspected, voteLost>>

\* A rejoin registers the peer again (AddPeer): a new PeerState, with the votes
\* collected before still there.
Rejoin(n) ==
    /\ up
    /\ miss' = [miss EXCEPT ![n] = 0]
    /\ sdown' = [sdown EXCEPT ![n] = FALSE] /\ fired' = [fired EXCEPT ![n] = FALSE]
    /\ UNCHANGED <<up, late, votes, gossip, suspected, voteLost>>

\* Mutant of Tick: nothing is gossiped (as before #522).
QuietTick(n) ==
    /\ miss' = [miss EXCEPT ![n] = IF @ > Missed THEN @ ELSE @ + 1]
    /\ sdown' = [sdown EXCEPT ![n] = miss'[n] > Missed]
    /\ LET new == sdown'[n] /\ ~sdown[n]
       IN  /\ gossip' = gossip
           /\ fired' = [fired EXCEPT ![n] = @ \/ (new /\ Agreed(n, votes[n]))]
           /\ suspected' = IF new THEN suspected \cup {n} ELSE suspected
    /\ UNCHANGED <<up, late, votes, voteLost>>

\* tick: a beat has passed.  Past the threshold the target is down for this node,
\* which gossips that once, and looks at the votes that came before its own.
Tick(n) ==
    /\ miss' = [miss EXCEPT ![n] = IF @ > Missed THEN @ ELSE @ + 1]
    /\ sdown' = [sdown EXCEPT ![n] = miss'[n] > Missed]
    /\ LET new == sdown'[n] /\ ~sdown[n]
       IN  /\ gossip' = IF new THEN gossip \cup ({n} \X (Watcher \ {n})) ELSE gossip
           /\ fired' = [fired EXCEPT ![n] = @ \/ (new /\ Agreed(n, votes[n]))]
           /\ suspected' = IF new THEN suspected \cup {n} ELSE suspected
    /\ UNCHANGED <<up, late, votes, voteLost>>

\* Mutant of Counted: an observer's vote counts.
Anybody(s) == TRUE

Counted(s) == s \notin Observer

\* A vote is kept until the next recovery, whatever its sender sees later, and
\* completes the count only of a node that has the target down itself.
RecordDownVote(n, s) ==
    /\ <<s, n>> \in gossip
    /\ gossip' = gossip \ {<<s, n>>}
    /\ votes' = [votes EXCEPT ![n] = IF Counted(s) THEN @ \cup {s} ELSE @]
    /\ fired' = [fired EXCEPT ![n] = @ \/ (Counted(s) /\ sdown[n] /\ Agreed(n, votes'[n]))]
    /\ UNCHANGED <<up, late, miss, sdown, suspected, voteLost>>

\* A connection breaks with the vote on it; nobody sends it again.
LoseVote(g) ==
    /\ g \in gossip
    /\ gossip' = gossip \ {g} /\ voteLost' = TRUE
    /\ UNCHANGED <<up, late, miss, sdown, fired, votes, suspected>>

\* The target stops; some of its heartbeats may still be on their way.
TargetCrash ==
    /\ up /\ up' = FALSE /\ late' \in SUBSET Watcher
    /\ UNCHANGED <<miss, sdown, fired, votes, gossip, suspected, voteLost>>

TargetRestart ==
    /\ ~up /\ up' = TRUE /\ late' = {}
    /\ UNCHANGED <<miss, sdown, fired, votes, gossip, suspected, voteLost>>

Next ==
    \/ \E n \in Watcher : \/ HandleHeartbeat(n) \/ Rejoin(n) \/ Tick(n)
                           \/ \E s \in Watcher : RecordDownVote(n, s)
    \/ \E g \in gossip : LoseVote(g)
    \/ TargetCrash \/ TargetRestart

\* A node that keeps running ticks, and reads a frame on a connection that stays.
Fairness ==
    \A n \in Steady : /\ WF_vars(Tick(n))
                       /\ \A s \in Watcher : WF_vars(RecordDownVote(n, s))

Spec == Init /\ [][Next]_vars /\ Fairness

-----------------------------------------------------------------------------
\* A node declares the target down, and so starts a failover, only after a quorum
\* of voters, itself included, have found it down: no vote is counted twice,
\* made up, or an observer's (RecordDownVote).
ODownHasQuorum ==
    \A n \in Watcher :
        fired[n] => Cardinality(suspected \cap (Voter \cup {n})) >= Quorum(n)

\* ODOWN is over when the target is back, so the next failure is reported anew.
LatchEndsWithEpisode == \A n \in Watcher : fired[n] => sdown[n]

\* A crash that enough voters survive is declared by one of them, in whatever
\* order their own verdicts, late heartbeats and each other's votes arrive, if no
\* down-vote is lost: a recovery throws votes away, but the voter whose last
\* recovery was the earliest keeps the last votes of all the others.
CanAgree == \E n \in Steady \cap Voter : Agreed(n, (Steady \cap Voter) \ {n})
CrashIsDeclared ==
    CanAgree /\ ~up ~> up \/ voteLost \/ \E n \in Steady : fired[n]
=============================================================================
