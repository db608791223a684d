---------------------------- MODULE RoleSupervisor ----------------------------
(***************************************************************************)
(* One node of the cluster after its start (internal/replication): the     *)
(* supervisor loop that leads, follows or waits for a quorum               *)
(* (coordinator.go), the promotion and demotion calls that set the role    *)
(* and push events to the loop, the periodic check of the voter quorum     *)
(* that makes a Cortex step down, and the failover driver (hello.go).  The *)
(* loop, the driver, the checks and the handlers of frames are goroutines. *)
(*                                                                         *)
(* The other nodes are the environment: claims of another leader arrive,   *)
(* candidacies succeed or fail, and peers go down and come back at any     *)
(* time.  Election holds the protocol between the nodes.                   *)
(***************************************************************************)
EXTENDS Naturals, Sequences

CONSTANTS
    Calls,   \* bound on the calls and checks in progress
    Buffer   \* capacity of roleCh

ASSUME SupervisorAssumption == Calls \in Nat \ {0} /\ Buffer \in Nat \ {0}

VARIABLES
    role,       \* ClusterCoordinator.role
    estate,     \* Election.state; "Split" is a candidate that will not get its votes
    leader,     \* Election.currentLeader
    alive,      \* aliveVoters() reaches the quorum
    mode,       \* the term the supervisor is in
    pc,         \* where it is in that term
    events,     \* roleCh
    calls,      \* how many goroutines are at each stage of a call
    hadQuorum,  \* a live quorum was seen in this term
    lost,       \* quorumLostSince is set
    driver,     \* startElectionWithJitter
    seen        \* history: a check has found a live quorum

vars == <<role, estate, leader, alive, mode, pc, events, calls, hadQuorum, lost,
          driver, seen>>
election   == <<role, estate, leader>>
supervisor == <<mode, pc, events>>
health     == <<hadQuorum, lost, seen>>

Stage == {"free",
          "promote", "promoted",                   \* handlePromotion
          "claimed", "claimLatch", "claimPush",    \* handleDemotion(causeClaim)
          "healthy", "missing", "stepDown",        \* checkQuorumHealth
          "lossRole", "lossLatch", "lossPush"}     \* handleDemotion(causeQuorumLoss)

TypeOK ==
    /\ role \in {"Primary", "Replica"}
    /\ estate \in {"Idle", "Candidate", "Split", "Leader", "Follower"}
    /\ leader \in {"none", "self", "other"}
    /\ alive \in BOOLEAN
    /\ mode \in {"leading", "following", "waiting"}
    /\ pc \in {"select", "lookup", "elect"}
    /\ events \in Seq({"promoted", "claim", "loss"}) /\ Len(events) <= Buffer
    /\ calls \in [Stage -> 0 .. Calls]
    /\ hadQuorum \in BOOLEAN /\ lost \in BOOLEAN /\ seen \in BOOLEAN
    /\ driver \in {"off", "round", "start"}

\* How the start of a process leaves the node: leading (a quorum of its own, or a
\* designated primary), a candidate, a lobe, or a primary that found a leader.  A
\* role that is not known yet is as good as a replica's here.
Init ==
    /\ \/ /\ role = "Primary" /\ estate = "Leader" /\ leader = "self"
          /\ mode = "leading" /\ events = <<"promoted">>
       \/ /\ role = "Replica" /\ events = <<>>
          /\ \/ estate = "Candidate" /\ leader = "none" /\ mode = "waiting"
             \/ estate = "Idle" /\ leader = "none" /\ mode = "following"
             \/ estate = "Follower" /\ leader = "other" /\ mode = "following"
    /\ alive \in BOOLEAN
    /\ pc = "select" /\ driver = "off"
    /\ calls = [s \in Stage |-> IF s = "free" THEN Calls ELSE 0]
    /\ hadQuorum = FALSE /\ lost = FALSE /\ seen = FALSE

-----------------------------------------------------------------------------
\* A goroutine passes from stage s to stage t.
Move(s, t) == calls[s] > 0 /\ calls' = [calls EXCEPT ![s] = @ - 1, ![t] = @ + 1]

\* pushRoleEvent: a full channel loses the event.
Push(e) == events' = IF Len(events) < Buffer THEN Append(events, e) ELSE events

(* The election, as this node sees it *)

\* HandleCortexClaim of another node; a leader's callback follows.
OtherClaims ==
    /\ estate' = "Follower" /\ leader' = "other"
    /\ IF estate = "Leader" THEN Move("free", "claimed") ELSE UNCHANGED calls
    /\ UNCHANGED <<role, alive, supervisor, health, driver>>

\* tryPromote with a quorum of votes.
Win ==
    /\ estate = "Candidate"
    /\ estate' = "Leader" /\ leader' = "self"
    /\ Move("free", "promote")
    /\ UNCHANGED <<role, alive, supervisor, health, driver>>

\* Votes are refused or lost, and nobody asks for them again.
SplitVote ==
    /\ estate = "Candidate" /\ estate' = "Split"
    /\ UNCHANGED <<role, leader, alive, supervisor, calls, health, driver>>

\* HandleVoteRequest of a higher epoch ends the candidacy.
Candidate == {"Candidate", "Split"}
GiveWay ==
    /\ estate \in Candidate /\ estate' = "Idle"
    /\ UNCHANGED <<role, leader, alive, supervisor, calls, health, driver>>

\* StartElection, refused to a candidate and a leader.
Campaign == estate' = IF estate \in {"Idle", "Follower"} THEN "Candidate" ELSE estate

PeersChange ==
    /\ alive' = ~alive
    /\ UNCHANGED <<election, supervisor, calls, health, driver>>

-----------------------------------------------------------------------------
(* Promotion and demotion *)

\* Mutant of Promote: the role is set without a look at the election.
TrustingPromote ==
    /\ role' = "Primary" /\ Move("promote", "promoted")
    /\ UNCHANGED <<estate, leader, alive, supervisor, health, driver>>

\* handlePromotion, under Election.mu.
Promote ==
    /\ IF estate = "Leader"
         THEN role' = "Primary" /\ Move("promote", "promoted")
         ELSE role' = role /\ Move("promote", "free")
    /\ UNCHANGED <<estate, leader, alive, supervisor, health, driver>>

PushPromotion ==
    /\ Move("promoted", "free") /\ Push("promoted")
    /\ UNCHANGED <<election, alive, mode, pc, health, driver>>

\* handleDemotion: the role, the quorum latch, the event.
Demote(from, to) ==
    /\ Move(from, to) /\ role' = "Replica"
    /\ UNCHANGED <<estate, leader, alive, supervisor, health, driver>>

ResetLatch(from, to) ==
    /\ Move(from, to) /\ hadQuorum' = FALSE /\ lost' = FALSE
    /\ UNCHANGED <<election, alive, supervisor, driver, seen>>

PushDemotion(from, cause) ==
    /\ Move(from, "free") /\ Push(cause)
    /\ UNCHANGED <<election, alive, mode, pc, health, driver>>

-----------------------------------------------------------------------------
(* checkQuorumHealth: a look, then the latch and the timer under quorumMu *)

Look ==
    /\ role = "Primary"
    /\ Move("free", IF alive THEN "healthy" ELSE "missing")
    /\ UNCHANGED <<election, alive, supervisor, health, driver>>

NoteQuorum ==
    /\ Move("healthy", "free")
    /\ hadQuorum' = TRUE /\ lost' = FALSE /\ seen' = TRUE
    /\ UNCHANGED <<election, alive, supervisor, driver>>

\* Mutant of NoteLoss: a term that never had a quorum is torn down too.
HastyNoteLoss ==
    /\ \/ lost' = TRUE /\ Move("missing", "free")
       \/ lost /\ lost' = FALSE /\ Move("missing", "stepDown")
    /\ UNCHANGED <<election, alive, supervisor, driver, hadQuorum, seen>>

\* The timer is set, it has not run out, or it has.
NoteLoss ==
    /\ \/ ~hadQuorum /\ lost' = lost /\ Move("missing", "free")
       \/ hadQuorum /\ lost' = TRUE /\ Move("missing", "free")
       \/ hadQuorum /\ lost /\ lost' = FALSE /\ Move("missing", "stepDown")
    /\ UNCHANGED <<election, alive, supervisor, driver, hadQuorum, seen>>

StepDown ==
    /\ Move("stepDown", "lossRole")
    /\ estate' = IF estate = "Leader" THEN "Idle" ELSE estate
    /\ leader' = IF leader = "self" THEN "none" ELSE leader
    /\ UNCHANGED <<role, alive, supervisor, health, driver>>

-----------------------------------------------------------------------------
(* OnODown and the failover driver (startElectionWithJitter) *)

\* A peer is objectively down: unless another leader lives, forget the leader it
\* was and start the driver, of which there is one.  Whether the other leader is
\* SDOWN is left open, here and in the driver.
ODown(peer) ==
    /\ leader # "self"
    /\ leader' = IF leader = peer THEN "none" ELSE leader
    /\ estate' = IF estate = "Follower" THEN "Idle" ELSE estate
    /\ driver' = IF driver = "off" THEN "round" ELSE driver
    /\ UNCHANGED <<role, alive, supervisor, calls, health>>

\* Mutant of DriverRound: a split vote leaves the candidate stuck.
StuckDriverRound ==
    /\ driver = "round"
    /\ \/ /\ role = "Primary" \/ leader = "other"
          /\ driver' = "off"
       \/ /\ role # "Primary" /\ alive
          /\ driver' = "start"
    /\ UNCHANGED <<election, alive, supervisor, calls, health>>

\* The driver ends with a leader, this node or another that lives; else it frees a
\* candidate of a split vote and starts again.  A round without a live quorum does
\* nothing and is left out.
DriverRound ==
    /\ driver = "round"
    /\ \/ /\ role = "Primary" \/ leader = "other"
          /\ driver' = "off" /\ UNCHANGED estate
       \/ /\ role # "Primary" /\ alive
          /\ driver' = "start"
          /\ estate' = IF estate \in Candidate THEN "Idle" ELSE estate
    /\ UNCHANGED <<role, leader, alive, supervisor, calls, health>>

DriverStart ==
    /\ driver = "start" /\ driver' = "round" /\ Campaign
    /\ UNCHANGED <<role, leader, alive, supervisor, calls, health>>

-----------------------------------------------------------------------------
(* The supervisor *)

\* A tick of the term's ticker; a follower has none.
Tick ==
    /\ pc = "select"
    /\ \/ mode = "leading" /\ role # "Primary" /\ pc' = "lookup" /\ UNCHANGED mode
       \/ mode = "waiting" /\ role = "Primary" /\ mode' = "leading" /\ UNCHANGED pc
       \/ mode = "waiting" /\ role # "Primary" /\ pc' = "lookup" /\ UNCHANGED mode
    /\ UNCHANGED <<election, alive, events, calls, health, driver>>

Receive ==
    /\ pc = "select" /\ events # <<>> /\ events' = Tail(events)
    /\ LET promoted == Head(events) = "promoted"
       IN  \/ /\ promoted \/ (mode = "waiting" /\ role = "Primary")
              /\ mode' = "leading" /\ UNCHANGED pc
           \/ /\ mode = "leading" /\ ~promoted
              /\ mode' = IF Head(events) = "loss" THEN "waiting" ELSE "following"
              /\ UNCHANGED pc
           \/ /\ ~promoted
              /\ mode = "following" \/ (mode = "waiting" /\ role # "Primary")
              /\ pc' = "lookup" /\ UNCHANGED mode
    /\ UNCHANGED <<election, alive, calls, health, driver>>

\* Mutant of Lookup: a waiting node does not look for a leader.
BlindLookup ==
    /\ pc = "lookup"
    /\ IF mode = "waiting" THEN pc' = "elect" /\ UNCHANGED mode
       ELSE /\ pc' = "select"
            /\ mode' = IF leader = "other" THEN "following" ELSE "waiting"
    /\ UNCHANGED <<election, alive, events, calls, health, driver>>

\* CurrentLeader: another leader is followed; without one the node waits, and a
\* node that waits already goes on to elect.
Lookup ==
    /\ pc = "lookup"
    /\ mode' = IF leader = "other" THEN "following" ELSE "waiting"
    /\ pc' = IF mode = "waiting" /\ leader # "other" THEN "elect" ELSE "select"
    /\ UNCHANGED <<election, alive, events, calls, health, driver>>

\* waitQuorumTerm's election, left to the driver while that runs.  The ticks that
\* its back-off lets pass are left out.
ReElect ==
    /\ pc = "elect" /\ pc' = "select"
    /\ IF driver = "off" /\ alive THEN Campaign ELSE UNCHANGED estate
    /\ UNCHANGED <<role, leader, alive, mode, events, calls, health, driver>>

-----------------------------------------------------------------------------
ClaimDemotion ==
    \/ Demote("claimed", "claimLatch")
    \/ ResetLatch("claimLatch", "claimPush")
    \/ PushDemotion("claimPush", "claim")

LossDemotion ==
    \/ StepDown
    \/ Demote("lossRole", "lossLatch")
    \/ ResetLatch("lossLatch", "lossPush")
    \/ PushDemotion("lossPush", "loss")

Proceed == Promote \/ PushPromotion \/ ClaimDemotion \/ LossDemotion

Check == NoteQuorum \/ NoteLoss

Driver == DriverRound \/ DriverStart

Supervise == Tick \/ Lookup \/ ReElect

Next ==
    \/ OtherClaims \/ Win \/ SplitVote \/ GiveWay \/ PeersChange
    \/ \E p \in {"other", "lobe"} : ODown(p)
    \/ Proceed \/ Look \/ Check \/ Driver \/ Supervise \/ Receive

\* The loop and the driver run, as do the calls and the checks; select does not
\* starve a ready case; and of ever new candidacies with random timeouts one is won
\* in the end (hello.go:258).
Fairness ==
    /\ WF_vars(Proceed) /\ WF_vars(Check) /\ WF_vars(Driver) /\ WF_vars(Supervise)
    /\ SF_vars(Receive) /\ SF_vars(Win)

Spec == Init /\ [][Next]_vars /\ Fairness

-----------------------------------------------------------------------------
\* A node whose role is Cortex leads in its Election too, or the demotion that
\* takes the role away is on its way (handlePromotion's check under Election.mu):
\* a claim between tryPromote and handlePromotion never splits the two for good.
PrimaryLeads ==
    role = "Primary" => estate = "Leader" \/ calls["claimed"] + calls["lossRole"] > 0

\* A Cortex that has not yet seen a quorum since its start is not torn down
\* (checkQuorumHealth, #520), however its checks and demotions interleave.
BootstrapStands ==
    calls["stepDown"] + calls["lossRole"] + calls["lossLatch"] + calls["lossPush"] > 0 => seen

\* A node that is no Cortex for good, and knows another leader, ends up following
\* it, whatever events were lost or came in an odd order (supervise).
DemotedFollows ==
    <>[](role = "Replica" /\ leader = "other") => <>[](mode = "following")

\* The failover driver ends with a leader if the voters are back to stay and no
\* other leader claims (startElectionWithJitter): it never waits on itself.  The
\* one way out is a late demotion, which takes the role of a leader for good.
Deposed == estate = "Leader" /\ role = "Replica" /\ calls["promote"] = 0
DriverSucceeds ==
    <>[](alive /\ leader # "other") => (driver # "off" ~> driver = "off" \/ Deposed)

\* What roleEvent's comment promises (coordinator.go:62): a dropped or misplaced
\* event never wedges the loop of a Cortex.
CortexLeads == <>[](role = "Primary") => []<>(mode = "leading")

\* What waitQuorumTerm promises (coordinator.go:1042): a node that waits leads, or
\* finds a leader, once the voters are back.
WaitEnds ==
    <>[](alive /\ leader # "other") => (mode = "waiting" ~> mode # "waiting" \/ Deposed)

\* What handleDemotion promises (coordinator.go:1679): each term is gated afresh.
GatedAfresh == [][calls'["promoted"] > calls["promoted"] /\ role = "Replica" => ~hadQuorum]_vars
=============================================================================
