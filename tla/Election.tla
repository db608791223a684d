------------------------------- MODULE Election -------------------------------
(***************************************************************************)
(* Leader election of the replication layer: internal/replication's        *)
(* Election (election.go) over the durable EpochStore (epoch.go), the      *)
(* coordinator's promotion and demotion callbacks, its start-up            *)
(* (runAsCortex), and the side paths that carry epochs, claims and         *)
(* leadership between nodes: the join handshake, PeerHello and the planned *)
(* handoff with its persisted role.                                        *)
(*                                                                         *)
(* One action is one critical section of Election.mu.  Where the code      *)
(* releases the mutex and re-takes it (a quorum counted, then tryPromote;  *)
(* a claim accepted, then handleDemotion) the model has two actions, with  *)
(* the pending call kept in `promoting' or `callbacks'.  A failure         *)
(* detector may suspect anybody at any time, so the actions it triggers    *)
(* are enabled whenever the code's own guards allow them.                  *)
(***************************************************************************)
EXTENDS Naturals, FiniteSets

CONSTANTS
    Node,       \* node ids; claims are tie-broken by their order
    Sentinel,   \* nodes that vote but never campaign
    Observer,   \* nodes that neither vote nor campaign
    Primary,    \* nodes configured role=primary
    Lobe,       \* nodes configured role=replica
    Crashing,   \* bound: the nodes that may crash and restart
    Draining,   \* bound: the nodes on which GracefulFailover may be called
    None,       \* no node: an unknown leader, a vote not given
    MaxEpoch,   \* bound on the epochs campaigned for and handed over to
    MaxClaims   \* bound: a connection announces a Cortex, or a join is accepted,
                \* only while fewer claims and join responses are in flight

ASSUME ElectionAssumption ==
    /\ Node \subseteq Nat /\ IsFiniteSet(Node)
    /\ Sentinel \subseteq Node /\ Observer \subseteq Node /\ Primary \subseteq Node
    /\ Crashing \subseteq Node /\ Draining \subseteq Node
    /\ Lobe \subseteq Node
    /\ Primary \cap (Sentinel \cup Observer \cup Lobe) = {}
    /\ None \notin Node
    /\ MaxEpoch \in Nat \ {0}
    /\ MaxClaims \in Nat

Epoch  == 0 .. MaxEpoch
Voter  == Node \ Observer

\* Mutant of Quorum: half of an odd number of voters suffices.
HalfQuorum == Cardinality(Voter) \div 2

Quorum == Cardinality(Voter) \div 2 + 1

VARIABLES
    epoch,           \* EpochStore.current, on disk
    estate,          \* Election.state
    leader,          \* Election.currentLeader
    candidateEpoch,  \* Election.candidateEpoch
    votes,           \* Election.votes: epoch -> voters counted
    votedFor,        \* Election.votedFor: epoch -> candidate; memory only
    promoting,       \* tryPromote calls between the count and the lock
    role,            \* ClusterCoordinator.role
    callbacks,       \* OnPromoted/OnDemoted calls that have not run yet
    boot,            \* where a designated primary is in runAsCortex
    msgs,            \* frames in flight; one that is never read is lost
    crumbs,          \* the nodes whose EpochStore holds the role "cortex", on disk
    failover,        \* where a node is in GracefulFailover
    takeovers,       \* the calls of HandleHandoff, and the recovery at the start
    cast,            \* history: <<v, e, n>> when v voted for n in epoch e
    elected,         \* history: <<n, e>> when n won epoch e by votes
    handed           \* history: <<n, t, e>> when n handed its epoch e over to t

ballotVars  == <<candidateEpoch, votes, votedFor, promoting, callbacks, boot, cast, elected>>
handoffVars == <<crumbs, failover, takeovers, handed>>
vars == <<epoch, estate, leader, candidateEpoch, votes, votedFor, promoting,
          role, callbacks, boot, msgs, cast, elected, handoffVars>>

Message == [type : {"VoteRequest", "VoteGranted", "CortexClaim", "JoinResponse",
                    "Handoff", "HandoffAck"},
            src : Node, dst : Node, epoch : Epoch]

\* A takeover is of a handoff from another node, or a node's recovery of its own.
Takeover == [src : Node, epoch : Epoch,
             at : {"advanced", "persisted", "leading", "promoted"}]
Taking(s, e, at) == [src |-> s, epoch |-> e, at |-> at]

TypeOK ==
    /\ epoch \in [Node -> Epoch]
    /\ estate \in [Node -> {"Idle", "Candidate", "Leader", "Follower"}]
    /\ leader \in [Node -> Node \cup {None}]
    /\ candidateEpoch \in [Node -> Epoch]
    /\ votes \in [Node -> [Epoch -> SUBSET Node]]
    /\ votedFor \in [Node -> [Epoch -> Node \cup {None}]]
    /\ promoting \in [Node -> SUBSET Epoch]
    /\ role \in [Node -> {"Unknown", "Primary", "Replica"}]
    /\ callbacks \in [Node -> SUBSET {"promote", "demote"}]
    /\ boot \in [Node -> {"start", "assert", "done"}]
    /\ msgs \subseteq Message
    /\ cast \subseteq Node \X Epoch \X Node
    /\ elected \subseteq Node \X Epoch
    /\ crumbs \subseteq Node
    /\ failover \in [Node -> {"idle", "drain", "await", "acked"}]
    /\ takeovers \in [Node -> SUBSET Takeover]
    /\ handed \subseteq Node \X Node \X Epoch

Init ==
    /\ epoch = [n \in Node |-> 0]
    /\ estate = [n \in Node |-> "Idle"]
    /\ leader = [n \in Node |-> None]
    /\ candidateEpoch = [n \in Node |-> 0]
    /\ votes = [n \in Node |-> [e \in Epoch |-> {}]]
    /\ votedFor = [n \in Node |-> [e \in Epoch |-> None]]
    /\ promoting = [n \in Node |-> {}]
    /\ role = [n \in Node |-> "Unknown"]
    /\ callbacks = [n \in Node |-> {}]
    /\ boot = [n \in Node |-> IF n \in Primary THEN "start" ELSE "done"]
    /\ msgs = {}
    /\ crumbs = {}
    /\ failover = [n \in Node |-> "idle"]
    /\ takeovers = [n \in Node |-> {}]
    /\ cast = {} /\ elected = {} /\ handed = {}

-----------------------------------------------------------------------------
Msg(t, n, d, e) == [type |-> t, src |-> n, dst |-> d, epoch |-> e]

\* ConnManager.Broadcast: one frame to every other node.
Broadcast(t, n, e) == {Msg(t, n, d, e) : d \in Node \ {n}}

\* EpochStore.Advance: a value that does not move the epoch forward is refused.
Advance(n, e) == epoch' = [epoch EXCEPT ![n] = IF e > @ THEN e ELSE @]

\* The clean-up of votes and votedFor below epoch e.
CleanedVotes(n, e)    == [x \in Epoch |-> IF x < e THEN {} ELSE votes[n][x]]
CleanedVotedFor(n, e) == [x \in Epoch |-> IF x < e THEN None ELSE votedFor[n][x]]
Cleanup(n, e) ==
    /\ votes' = [votes EXCEPT ![n] = CleanedVotes(n, e)]
    /\ votedFor' = [votedFor EXCEPT ![n] = CleanedVotedFor(n, e)]

\* Record v's vote for n in e; a full quorum leads to a tryPromote call.
ReachesQuorum(S) == Cardinality(S) >= Quorum
CountVote(n, v, e) ==
    /\ votes' = [votes EXCEPT ![n][e] = @ \cup {v}]
    /\ promoting' = [promoting EXCEPT ![n] =
                        IF ReachesQuorum(votes[n][e] \cup {v}) THEN @ \cup {e} ELSE @]

-----------------------------------------------------------------------------
(* Mutants: slips that a change of the actions below could make.  No action *)
(* uses them; each run is shown to detect the ones of its properties.      *)

\* A first vote that is not recorded in votedFor.
ForgetfulGrantVote(n, m) ==
    /\ m \in msgs /\ m.type = "VoteRequest" /\ m.dst = n
    /\ n \notin Observer /\ m.epoch >= epoch[n]
    /\ Advance(n, m.epoch)
    /\ msgs' = (msgs \ {m}) \cup {Msg("VoteGranted", n, m.src, m.epoch)}
    /\ cast' = cast \cup {<<n, m.epoch, m.src>>}
    /\ UNCHANGED <<estate, leader, candidateEpoch, votes, votedFor, promoting,
                   role, callbacks, boot, elected, handoffVars>>

\* A first vote whose epoch is not persisted before it is sent.
VolatileGrantVote(n, m) ==
    /\ m \in msgs /\ m.type = "VoteRequest" /\ m.dst = n
    /\ n \notin Observer /\ m.epoch >= epoch[n]
    /\ votedFor[n][m.epoch] = None
    /\ votedFor' = [votedFor EXCEPT ![n][m.epoch] = m.src]
    /\ msgs' = (msgs \ {m}) \cup {Msg("VoteGranted", n, m.src, m.epoch)}
    /\ cast' = cast \cup {<<n, m.epoch, m.src>>}
    /\ UNCHANGED <<epoch, estate, leader, candidateEpoch, votes, promoting, role,
                   callbacks, boot, elected, handoffVars>>

\* A late response counted for whatever epoch the candidate is in now.
LateHandleVoteResponse(n, m) ==
    /\ m \in msgs /\ m.type = "VoteGranted" /\ m.dst = n
    /\ IF estate[n] = "Candidate"
         THEN CountVote(n, m.src, candidateEpoch[n])
         ELSE UNCHANGED <<votes, promoting>>
    /\ msgs' = msgs \ {m}
    /\ UNCHANGED <<epoch, estate, leader, candidateEpoch, votedFor, role,
                   callbacks, boot, cast, elected, handoffVars>>

\* No tie-break between leaders of one epoch.
NeverWinsTie(n, m) == FALSE

\* The join adopts an epoch backwards.
ForcedJoinConn(n, m) ==
    /\ m \in msgs /\ m.type = "JoinResponse" /\ m.dst = n
    /\ epoch' = [epoch EXCEPT ![n] = m.epoch]
    /\ msgs' = (msgs \ {m}) \cup {Msg("CortexClaim", m.src, n, m.epoch)}
    /\ UNCHANGED <<estate, leader, candidateEpoch, votes, votedFor, promoting,
                   role, callbacks, boot, cast, elected, handoffVars>>

\* handlePromotion without its second look at the election state.
BlindRunPromotion(n) ==
    /\ "promote" \in callbacks[n]
    /\ callbacks' = [callbacks EXCEPT ![n] = @ \ {"promote"}]
    /\ role' = [role EXCEPT ![n] = "Primary"]
    /\ UNCHANGED <<epoch, estate, leader, candidateEpoch, votes, votedFor,
                   promoting, boot, msgs, cast, elected, handoffVars>>

\* handleDemotion writes an election state into the role.
MistypedRunDemotion(n) ==
    /\ "demote" \in callbacks[n]
    /\ callbacks' = [callbacks EXCEPT ![n] = @ \ {"demote"}]
    /\ role' = [role EXCEPT ![n] = "Follower"]
    /\ UNCHANGED <<epoch, estate, leader, candidateEpoch, votes, votedFor,
                   promoting, boot, msgs, cast, elected, handoffVars>>

\* A restart recovers on a non-zero epoch, whatever role was persisted.
RecoversOnEpoch(n) == n \notin Sentinel \cup Observer \cup Lobe /\ epoch[n] > 0

-----------------------------------------------------------------------------
(* Campaigning *)

Elect(n) ==
    LET e == epoch[n] + 1 IN
    /\ n \notin Sentinel \cup Observer
    /\ estate[n] \notin {"Candidate", "Leader"}
    /\ epoch[n] < MaxEpoch
    /\ epoch' = [epoch EXCEPT ![n] = e]
    /\ estate' = [estate EXCEPT ![n] = "Candidate"]
    /\ candidateEpoch' = [candidateEpoch EXCEPT ![n] = e]
    /\ votedFor' = [votedFor EXCEPT ![n][e] = n]
    /\ CountVote(n, n, e)
    /\ msgs' = msgs \cup Broadcast("VoteRequest", n, e)
    /\ cast' = cast \cup {<<n, e, n>>}
    /\ UNCHANGED <<leader, role, callbacks, elected, handoffVars>>

\* Started by the failover driver or by the supervisor, neither of which
\* campaigns while the node acts as Cortex.
StartElection(n) == role[n] # "Primary" /\ Elect(n) /\ UNCHANGED boot

\* The failover driver gives up a split candidacy before it starts the next.
ResetCandidate(n) ==
    /\ role[n] # "Primary" /\ estate[n] = "Candidate"
    /\ estate' = [estate EXCEPT ![n] = "Idle"]
    /\ UNCHANGED <<epoch, leader, candidateEpoch, votes, votedFor, promoting,
                   role, callbacks, boot, msgs, cast, elected, handoffVars>>

\* OnODown(d): the suspected node is forgotten, a follower becomes idle.
ClearLeader(n, d) ==
    /\ n \notin Sentinel /\ n # d
    /\ leader[n] = d \/ estate[n] = "Follower"
    /\ leader' = [leader EXCEPT ![n] = IF @ = d THEN None ELSE @]
    /\ estate' = [estate EXCEPT ![n] = IF @ = "Follower" THEN "Idle" ELSE @]
    /\ UNCHANGED <<epoch, candidateEpoch, votes, votedFor, promoting, role,
                   callbacks, boot, msgs, cast, elected, handoffVars>>

\* checkQuorumHealth: a Cortex that lost its quorum steps down, then runs
\* handleDemotion outside Election.mu.
StepDown(n) ==
    /\ role[n] = "Primary"
    /\ estate' = [estate EXCEPT ![n] = IF @ = "Leader" THEN "Idle" ELSE @]
    /\ leader' = [leader EXCEPT ![n] = IF @ = n THEN None ELSE @]
    /\ callbacks' = [callbacks EXCEPT ![n] = @ \cup {"demote"}]
    /\ UNCHANGED <<epoch, candidateEpoch, votes, votedFor, promoting, role,
                   boot, msgs, cast, elected, handoffVars>>

-----------------------------------------------------------------------------
(* Votes.  A denied response changes nothing at its receiver, so only      *)
(* granted ones are put in flight.                                         *)

RejectVoteRequest(n, m) ==
    /\ m \in msgs /\ m.type = "VoteRequest" /\ m.dst = n
    /\ n \in Observer \/ m.epoch < epoch[n]
    /\ msgs' = msgs \ {m}
    /\ UNCHANGED <<epoch, estate, leader, candidateEpoch, votes, votedFor,
                   promoting, role, callbacks, boot, cast, elected, handoffVars>>

\* Already voted in this epoch: granted again only to the same candidate.
RepeatVote(n, m) ==
    LET again == votedFor[n][m.epoch] = m.src IN
    /\ m \in msgs /\ m.type = "VoteRequest" /\ m.dst = n
    /\ n \notin Observer /\ m.epoch >= epoch[n]
    /\ votedFor[n][m.epoch] # None
    /\ Advance(n, m.epoch)
    /\ msgs' = (msgs \ {m}) \cup
                 (IF again THEN {Msg("VoteGranted", n, m.src, m.epoch)} ELSE {})
    /\ UNCHANGED <<estate, leader, candidateEpoch, votes, votedFor, promoting,
                   role, callbacks, boot, cast, elected, handoffVars>>

\* A first vote.  An older candidacy is given up; a leader stays leader.
GrantVote(n, m) ==
    /\ m \in msgs /\ m.type = "VoteRequest" /\ m.dst = n
    /\ n \notin Observer /\ m.epoch >= epoch[n]
    /\ votedFor[n][m.epoch] = None
    /\ Advance(n, m.epoch)
    /\ votedFor' = [votedFor EXCEPT ![n][m.epoch] = m.src]
    /\ estate' = [estate EXCEPT ![n] =
                    IF @ = "Candidate" /\ candidateEpoch[n] < m.epoch THEN "Idle" ELSE @]
    /\ msgs' = (msgs \ {m}) \cup {Msg("VoteGranted", n, m.src, m.epoch)}
    /\ cast' = cast \cup {<<n, m.epoch, m.src>>}
    /\ UNCHANGED <<leader, candidateEpoch, votes, promoting, role, callbacks,
                   boot, elected, handoffVars>>

Counts(n, m) == /\ estate[n] = "Candidate"
                /\ m.epoch = candidateEpoch[n]
                /\ m.src \in Voter

HandleVoteResponse(n, m) ==
    /\ m \in msgs /\ m.type = "VoteGranted" /\ m.dst = n
    /\ IF Counts(n, m)
         THEN CountVote(n, m.src, m.epoch)
         ELSE UNCHANGED <<votes, promoting>>
    /\ msgs' = msgs \ {m}
    /\ UNCHANGED <<epoch, estate, leader, candidateEpoch, votedFor, role,
                   callbacks, boot, cast, elected, handoffVars>>

-----------------------------------------------------------------------------
(* tryPromote, its three outcomes *)

StillCandidate(n, e) == estate[n] = "Candidate" /\ candidateEpoch[n] = e

Promote(n, e) ==
    /\ e \in promoting[n]
    /\ StillCandidate(n, e) /\ epoch[n] = e
    /\ promoting' = [promoting EXCEPT ![n] = @ \ {e}]
    /\ estate' = [estate EXCEPT ![n] = "Leader"]
    /\ leader' = [leader EXCEPT ![n] = n]
    /\ Cleanup(n, e)
    /\ msgs' = msgs \cup Broadcast("CortexClaim", n, e)
    /\ callbacks' = [callbacks EXCEPT ![n] = @ \cup {"promote"}]
    /\ elected' = elected \cup {<<n, e>>}
    /\ UNCHANGED <<epoch, candidateEpoch, role, boot, cast, handoffVars>>

\* The confirming CompareAndSet fails: the epoch moved on meanwhile.
LoseRace(n, e) ==
    /\ e \in promoting[n]
    /\ StillCandidate(n, e) /\ epoch[n] # e
    /\ promoting' = [promoting EXCEPT ![n] = @ \ {e}]
    /\ estate' = [estate EXCEPT ![n] = "Idle"]
    /\ UNCHANGED <<epoch, leader, candidateEpoch, votes, votedFor, role,
                   callbacks, boot, msgs, cast, elected, handoffVars>>

AbandonPromotion(n, e) ==
    /\ e \in promoting[n]
    /\ ~StillCandidate(n, e)
    /\ promoting' = [promoting EXCEPT ![n] = @ \ {e}]
    /\ UNCHANGED <<epoch, estate, leader, candidateEpoch, votes, votedFor, role,
                   callbacks, boot, msgs, cast, elected, handoffVars>>

-----------------------------------------------------------------------------
(* Claims of leadership *)

IgnoreClaim(n, m) ==
    /\ m \in msgs /\ m.type = "CortexClaim" /\ m.dst = n
    /\ m.epoch < epoch[n]
    /\ msgs' = msgs \ {m}
    /\ UNCHANGED <<epoch, estate, leader, candidateEpoch, votes, votedFor,
                   promoting, role, callbacks, boot, cast, elected, handoffVars>>

\* Two leaders at one epoch: the lower node id stays and claims again.
WinsTie(n, m) == /\ m.epoch = epoch[n]
                 /\ estate[n] = "Leader"
                 /\ n < m.src

ReassertClaim(n, m) ==
    /\ m \in msgs /\ m.type = "CortexClaim" /\ m.dst = n
    /\ m.epoch >= epoch[n] /\ WinsTie(n, m)
    /\ msgs' = (msgs \ {m}) \cup Broadcast("CortexClaim", n, m.epoch)
    /\ UNCHANGED <<epoch, estate, leader, candidateEpoch, votes, votedFor,
                   promoting, role, callbacks, boot, cast, elected, handoffVars>>

FollowClaim(n, m) ==
    /\ m \in msgs /\ m.type = "CortexClaim" /\ m.dst = n
    /\ m.epoch >= epoch[n] /\ ~WinsTie(n, m)
    /\ Advance(n, m.epoch)
    /\ estate' = [estate EXCEPT ![n] = "Follower"]
    /\ leader' = [leader EXCEPT ![n] = m.src]
    /\ Cleanup(n, m.epoch)
    /\ callbacks' = [callbacks EXCEPT ![n] =
                        IF estate[n] = "Leader" THEN @ \cup {"demote"} ELSE @]
    /\ msgs' = msgs \ {m}
    /\ UNCHANGED <<candidateEpoch, promoting, role, boot, cast, elected, handoffVars>>

Claims == {m \in msgs : m.type \in {"CortexClaim", "JoinResponse"}}

\* adoptHelloPeer: a Cortex announces itself on a new connection, with
\* whatever epoch its store holds at that moment.
HelloClaim(n, d) ==
    /\ n # d /\ role[n] = "Primary"
    /\ Cardinality(Claims) < MaxClaims
    /\ msgs' = msgs \cup {Msg("CortexClaim", n, d, epoch[n])}
    /\ UNCHANGED <<epoch, estate, leader, candidateEpoch, votes, votedFor,
                   promoting, role, callbacks, boot, cast, elected, handoffVars>>

-----------------------------------------------------------------------------
(* The join handshake, as far as epochs and leadership are concerned *)

\* The Cortex l accepts n's JoinRequest.
AcceptJoin(l, n) ==
    /\ l # n /\ role[l] = "Primary" /\ epoch[l] # 0
    /\ role[n] # "Primary"
    /\ Cardinality(Claims) < MaxClaims
    /\ msgs' = msgs \cup {Msg("JoinResponse", l, n, epoch[l])}
    /\ UNCHANGED <<epoch, estate, leader, candidateEpoch, votes, votedFor,
                   promoting, role, callbacks, boot, cast, elected, handoffVars>>

\* joinConn adopts the Cortex's epoch without holding Election.mu, or refuses a
\* lower one; streamReplication then feeds the response to HandleCortexClaim.
JoinConn(n, m) ==
    /\ m \in msgs /\ m.type = "JoinResponse" /\ m.dst = n
    /\ Advance(n, m.epoch)
    /\ msgs' = (msgs \ {m}) \cup
                 (IF m.epoch >= epoch[n]
                    THEN {Msg("CortexClaim", m.src, n, m.epoch)} ELSE {})
    /\ UNCHANGED <<estate, leader, candidateEpoch, votes, votedFor, promoting,
                   role, callbacks, boot, cast, elected, handoffVars>>

-----------------------------------------------------------------------------
(* The coordinator's callbacks, run after Election.mu is released *)

\* handlePromotion re-checks the election state under Election.mu.
RunPromotion(n) ==
    /\ "promote" \in callbacks[n]
    /\ callbacks' = [callbacks EXCEPT ![n] = @ \ {"promote"}]
    /\ role' = [role EXCEPT ![n] = IF estate[n] = "Leader" THEN "Primary" ELSE @]
    /\ UNCHANGED <<epoch, estate, leader, candidateEpoch, votes, votedFor,
                   promoting, boot, msgs, cast, elected, handoffVars>>

\* handleDemotion checks nothing.
RunDemotion(n) ==
    /\ "demote" \in callbacks[n]
    /\ callbacks' = [callbacks EXCEPT ![n] = @ \ {"demote"}]
    /\ role' = [role EXCEPT ![n] = "Replica"]
    /\ UNCHANGED <<epoch, estate, leader, candidateEpoch, votes, votedFor,
                   promoting, boot, msgs, cast, elected, handoffVars>>

-----------------------------------------------------------------------------
(* Start-up of a designated primary (runAsCortex) *)

\* The probe found a Cortex whose epoch is not behind: follow it.
BootDefer(n, l) ==
    /\ boot[n] = "start" /\ l # n
    /\ role[l] = "Primary" /\ epoch[l] # 0 /\ epoch[l] >= epoch[n]
    /\ boot' = [boot EXCEPT ![n] = "done"]
    /\ role' = [role EXCEPT ![n] = "Replica"]
    /\ msgs' = msgs \cup {Msg("CortexClaim", l, n, epoch[l])}
    /\ UNCHANGED <<epoch, estate, leader, candidateEpoch, votes, votedFor,
                   promoting, callbacks, cast, elected, handoffVars>>

\* No such Cortex answered: campaign, and assert afterwards unless a peer was
\* seen at a higher epoch.
BootElect(n) ==
    /\ boot[n] = "start"
    /\ \E next \in {"assert", "done"} :
         /\ next = "done" => \E p \in Node : epoch[p] > epoch[n]
         /\ boot' = [boot EXCEPT ![n] = next]
    /\ Elect(n)

\* bootstrapPromoteIfDesignatedPrimary: leadership on the self-vote alone.
BootAssert(n) ==
    /\ boot[n] = "assert"
    /\ boot' = [boot EXCEPT ![n] = "done"]
    /\ IF role[n] # "Primary" /\ estate[n] = "Candidate"
         THEN /\ estate' = [estate EXCEPT ![n] = "Leader"]
              /\ leader' = [leader EXCEPT ![n] = n]
              /\ callbacks' = [callbacks EXCEPT ![n] = @ \cup {"promote"}]
              /\ msgs' = msgs \cup Broadcast("CortexClaim", n, candidateEpoch[n])
         ELSE UNCHANGED <<estate, leader, callbacks, msgs>>
    /\ UNCHANGED <<epoch, candidateEpoch, votes, votedFor, promoting, role, cast, elected,
                   handoffVars>>

-----------------------------------------------------------------------------
(* GracefulFailover; whom it hands over to is chosen by its caller          *)

\* Draining and waiting for the replicas to converge.
Drain(n) ==
    /\ role[n] = "Primary" /\ failover[n] = "idle" /\ epoch[n] < MaxEpoch
    /\ failover' = [failover EXCEPT ![n] = "drain"]
    /\ UNCHANGED <<ballotVars, epoch, estate, leader, role, msgs, crumbs, takeovers, handed>>

\* The epoch is the one of the moment; whether the node still acts as Cortex is
\* not asked again.
SendHandoff(n, t) ==
    /\ failover[n] = "drain" /\ t # n /\ epoch[n] < MaxEpoch
    /\ failover' = [failover EXCEPT ![n] = "await"]
    /\ msgs' = msgs \cup {Msg("Handoff", n, t, epoch[n])}
    /\ handed' = handed \cup {<<n, t, epoch[n]>>}
    /\ UNCHANGED <<ballotVars, epoch, estate, leader, role, crumbs, takeovers>>

\* No convergence, no connection, no ack in time, or the caller has left.
GiveUp(n) ==
    /\ failover[n] # "idle"
    /\ failover' = [failover EXCEPT ![n] = "idle"]
    /\ UNCHANGED <<ballotVars, epoch, estate, leader, role, msgs, crumbs, takeovers, handed>>

\* Whoever waits gets the ack, whichever handoff it answers.
HandleHandoffAck(n, m) ==
    /\ m \in msgs /\ m.type = "HandoffAck" /\ m.dst = n
    /\ failover' = [failover EXCEPT ![n] = IF @ = "await" THEN "acked" ELSE @]
    /\ msgs' = msgs \ {m}
    /\ UNCHANGED <<ballotVars, epoch, estate, leader, role, crumbs, takeovers, handed>>

\* handleDemotion: the election state stays Leader until a claim comes.
Retire(n) ==
    /\ failover[n] = "acked"
    /\ failover' = [failover EXCEPT ![n] = "idle"]
    /\ role' = [role EXCEPT ![n] = "Replica"]
    /\ UNCHANGED <<ballotVars, epoch, estate, leader, msgs, crumbs, takeovers, handed>>

-----------------------------------------------------------------------------
(* HandleHandoff, and the recovery at the start, which joins it after the   *)
(* role is persisted                                                        *)

\* One call per sender; an epoch that does not advance this node's is refused.
HandleHandoff(n, m) ==
    LET e == m.epoch + 1 IN
    /\ m \in msgs /\ m.type = "Handoff" /\ m.dst = n
    /\ e <= MaxEpoch
    /\ \A h \in takeovers[n] : h.src # m.src
    /\ Advance(n, e)
    /\ takeovers' = [takeovers EXCEPT ![n] = @ \cup
          (IF e > epoch[n] THEN {Taking(m.src, e, "advanced")} ELSE {})]
    /\ msgs' = msgs \ {m}
    /\ UNCHANGED <<ballotVars, estate, leader, role, crumbs, failover, handed>>

Moves(n, h, at) ==
    takeovers' = [takeovers EXCEPT ![n] = (@ \ {h}) \cup {[h EXCEPT !.at = at]}]
Leaves(n, h) == takeovers' = [takeovers EXCEPT ![n] = @ \ {h}]

\* The role is persisted before the claim is broadcast.
PersistRole(n, h) ==
    /\ h \in takeovers[n] /\ h.at = "advanced" /\ h.epoch = epoch[n]
    /\ Moves(n, h, "persisted")
    /\ crumbs' = crumbs \cup {n}
    /\ msgs' = msgs \cup Broadcast("CortexClaim", n, h.epoch)
    /\ UNCHANGED <<ballotVars, epoch, estate, leader, role, failover, handed>>

\* The epoch has moved on since, or the role cannot be persisted.
AbortHandoff(n, h) ==
    /\ h \in takeovers[n] /\ h.at = "advanced"
    /\ Leaves(n, h)
    /\ UNCHANGED <<ballotVars, epoch, estate, leader, role, msgs, crumbs, failover, handed>>

\* Without votes, and without a look at the claims handled meanwhile.
TakeLead(n, h) ==
    /\ h \in takeovers[n] /\ h.at = "persisted"
    /\ Moves(n, h, "leading")
    /\ estate' = [estate EXCEPT ![n] = "Leader"]
    /\ leader' = [leader EXCEPT ![n] = n]
    /\ UNCHANGED <<ballotVars, epoch, role, msgs, crumbs, failover, handed>>

\* handlePromotion, called directly; the ack follows where it backs out, too.
PromoteTaker(n, h) ==
    /\ h \in takeovers[n] /\ h.at = "leading"
    /\ Moves(n, h, "promoted")
    /\ role' = [role EXCEPT ![n] = IF estate[n] = "Leader" THEN "Primary" ELSE @]
    /\ UNCHANGED <<ballotVars, epoch, estate, leader, msgs, crumbs, failover, handed>>

\* The ack, or a recovering node's claim.  The role stays persisted when clearing
\* it fails, when the ack cannot be sent (it is lost then), and when the node dies
\* in between.
FinishTakeover(n, h) ==
    /\ h \in takeovers[n] /\ h.at = "promoted"
    /\ Leaves(n, h)
    /\ msgs' = msgs \cup (IF h.src = n THEN Broadcast("CortexClaim", n, h.epoch)
                          ELSE {Msg("HandoffAck", n, h.src, h.epoch)})
    /\ crumbs' \in {crumbs, crumbs \ {n}}
    /\ UNCHANGED <<ballotVars, epoch, estate, leader, role, failover, handed>>

-----------------------------------------------------------------------------
\* runAsCortex reads the persisted role; lobes, sentinels and observers do not.
Recovers(n) == /\ n \notin Sentinel \cup Observer \cup Lobe
               /\ n \in crumbs /\ epoch[n] > 0

\* The process dies and starts again: only the EpochStore survives, and frames
\* addressed to the old process are gone with its connections.  A node whose
\* persisted role is "cortex" takes the lead again, another designated primary
\* goes through its boot sequence.
Restart(n) ==
    /\ estate' = [estate EXCEPT ![n] = "Idle"]
    /\ leader' = [leader EXCEPT ![n] = None]
    /\ candidateEpoch' = [candidateEpoch EXCEPT ![n] = 0]
    /\ votes' = [votes EXCEPT ![n] = [e \in Epoch |-> {}]]
    /\ votedFor' = [votedFor EXCEPT ![n] = [e \in Epoch |-> None]]
    /\ promoting' = [promoting EXCEPT ![n] = {}]
    /\ role' = [role EXCEPT ![n] = "Unknown"]
    /\ callbacks' = [callbacks EXCEPT ![n] = {}]
    /\ boot' = [boot EXCEPT ![n] =
                  IF n \in Primary /\ ~Recovers(n) THEN "start" ELSE "done"]
    /\ failover' = [failover EXCEPT ![n] = "idle"]
    /\ takeovers' = [takeovers EXCEPT ![n] =
                       IF Recovers(n) THEN {Taking(n, epoch[n], "persisted")} ELSE {}]
    /\ msgs' = {m \in msgs : m.dst # n}
    /\ UNCHANGED <<epoch, cast, elected, crumbs, handed>>

-----------------------------------------------------------------------------
Deliver(n, m) ==
    \/ RejectVoteRequest(n, m) \/ RepeatVote(n, m) \/ GrantVote(n, m)
    \/ HandleVoteResponse(n, m)
    \/ IgnoreClaim(n, m) \/ ReassertClaim(n, m) \/ FollowClaim(n, m)
    \/ JoinConn(n, m)
    \/ HandleHandoff(n, m) \/ HandleHandoffAck(n, m)

TryPromote(n, e) == Promote(n, e) \/ LoseRace(n, e) \/ AbandonPromotion(n, e)

Suspect(n) ==
    \/ StartElection(n) \/ ResetCandidate(n) \/ StepDown(n)
    \/ \E d \in Node : ClearLeader(n, d)

Boot(n) == BootElect(n) \/ BootAssert(n) \/ \E l \in Node : BootDefer(n, l)

\* GracefulFailover is called by an operator.
Failover(n) ==
    \/ n \in Draining /\ Drain(n)
    \/ \E t \in Node : SendHandoff(n, t)
    \/ GiveUp(n) \/ Retire(n)

TakeOver(n, h) ==
    \/ PersistRole(n, h) \/ AbortHandoff(n, h)
    \/ TakeLead(n, h) \/ PromoteTaker(n, h) \/ FinishTakeover(n, h)

Callback(n) == RunPromotion(n) \/ RunDemotion(n)

Announce(n) == \E d \in Node : HelloClaim(n, d) \/ AcceptJoin(n, d)

\* What a node does of its own accord or on a frame, suspicions apart.
Settle(n) ==
    \/ \E m \in msgs : Deliver(n, m)
    \/ \E e \in Epoch : TryPromote(n, e)
    \/ Callback(n)
    \/ Boot(n)
    \/ \E h \in takeovers[n] : TakeOver(n, h)

Next == \E n \in Node : Settle(n) \/ Suspect(n) \/ Announce(n) \/ Failover(n)

CrashNext == Next \/ \E n \in Crashing : Restart(n)

Spec == Init /\ [][Next]_vars

CrashSpec == Init /\ [][CrashNext]_vars

\* Start-up with nobody suspected: connections stay up, so every frame is read,
\* every pending call runs and every primary goes through its boot sequence.
SettleSpec == /\ Init /\ [][\E n \in Node : Settle(n)]_vars
              /\ \A n \in Node : WF_vars(Settle(n))

-----------------------------------------------------------------------------
(* Safety *)

\* No node ever votes for two candidates in one epoch, however often its votes
\* are cleaned up and its epoch is moved by joins and claims (HandleVoteRequest,
\* StartElection; election.go states this of votedFor).
VoteOnce == \A v, n, c \in Node, e \in Epoch :
                <<v, e, n>> \in cast /\ <<v, e, c>> \in cast => n = c

\* A vote in a candidate's tally was really cast for it by a registered voter
\* (HandleVoteResponse counts by the responder's id, in the epoch it is told).
CountedVotesWereCast ==
    \A n \in Node, e \in Epoch : \A v \in votes[n][e] :
        v \in Voter /\ <<v, e, n>> \in cast

\* At most one node wins an epoch by votes (the safety invariant Election's
\* comment claims), whatever the order of votes, claims, joins and retries.
ElectedOnce == \A x, y \in elected : x[2] = y[2] => x[1] = y[1]

\* Leadership without votes is only ever passed on: a leader is a designated
\* primary, or won an epoch it has not fallen behind of, or was handed one by a node
\* of which the same holds, through retried handoffs, persisted roles and restarts
\* (tryPromote, bootstrapPromoteIfDesignatedPrimary, HandleHandoff, runAsCortex).
Mandated(n, e) ==
    \/ n \in Primary
    \/ \E x \in elected : x[1] = n /\ x[2] <= e
    \/ \E x \in handed : x[2] = n /\ x[3] < e
LeaderIsBacked ==
    /\ \A n \in Node : estate[n] = "Leader" => Mandated(n, epoch[n])
    /\ \A x \in handed : Mandated(x[1], x[3])

\* Once its callbacks have run, a node that acts as Cortex is Leader in its
\* election state: no claim or step-down slips in between tryPromote and
\* handlePromotion and leaves role Primary behind.
PrimaryIsLeader ==
    \A n \in Node : role[n] = "Primary" /\ callbacks[n] = {} => estate[n] = "Leader"

\* A majority of the voters durably knows every epoch that was won: the epochs a
\* quorum voted in outlive any crash (Advance persists before the vote).
QuorumRemembers ==
    \A x \in elected : Cardinality({v \in Voter : epoch[v] >= x[2]}) >= Quorum

\* A node never campaigns in an epoch in which it has already voted, crashes
\* included (epoch.go: a restarted node never proposes an epoch it has seen).
NeverReproposes ==
    [][\A n \in Node : candidateEpoch'[n] \notin {candidateEpoch[n], 0} =>
          \A c \in Node : <<n, candidateEpoch'[n], c>> \notin cast]_vars

-----------------------------------------------------------------------------
(* Properties of the comments that the code does not have *)

\* Two leaders at one epoch need two nodes misconfigured role=primary
\* (HandleCortexClaim's comment on the equal-epoch tie-break).
NoDuelWithoutTwoPrimaries ==
    Cardinality(Primary) <= 1 =>
        \A n, c \in Node : estate[n] = "Leader" /\ estate[c] = "Leader" /\ n # c
                              => epoch[n] # epoch[c]

\* A node is never left parked as a leader whose role is Replica once its
\* callbacks have run (supervise and leadTerm).
NoZombieLeader ==
    \A n \in Node : estate[n] = "Leader" /\ callbacks[n] = {} => role[n] = "Primary"

-----------------------------------------------------------------------------
(* Liveness *)

\* Several nodes configured role=primary start together: in the end exactly one
\* of them leads (the tie-break of HandleCortexClaim; without it equal-epoch
\* leaders demote each other).
DuelResolved == <>[](Cardinality({n \in Node : estate[n] = "Leader"}) = 1)
=============================================================================
