-------------------------- MODULE RoleSupervisorProofs --------------------------
(***************************************************************************)
(* Proofs about RoleSupervisor, for any bound on the calls in progress and *)
(* any capacity of the channel: the types, the agreement of the role with  *)
(* the election, and the protection of a Cortex that never saw a quorum.   *)
(***************************************************************************)
EXTENDS RoleSupervisor, TLAPS

USE SupervisorAssumption DEF SupervisorAssumption

\* The goroutines that make calls are neither lost nor created.
Total ==
    calls["free"] + calls["promote"] + calls["promoted"]
      + calls["claimed"] + calls["claimLatch"] + calls["claimPush"]
      + calls["healthy"] + calls["missing"] + calls["stepDown"]
      + calls["lossRole"] + calls["lossLatch"] + calls["lossPush"]

Conserved == calls \in [Stage -> Nat] /\ Total = Calls

\* TypeOK but for the calls.
OtherTypes ==
    /\ role \in {"Primary", "Replica"}
    /\ estate \in {"Idle", "Candidate", "Split", "Leader", "Follower"}
    /\ leader \in {"none", "self", "other"}
    /\ alive \in BOOLEAN
    /\ mode \in {"leading", "following", "waiting"}
    /\ pc \in {"select", "lookup", "elect"}
    /\ events \in Seq({"promoted", "claim", "loss"}) /\ Len(events) <= Buffer
    /\ hadQuorum \in BOOLEAN /\ lost \in BOOLEAN /\ seen \in BOOLEAN
    /\ driver \in {"off", "round", "start"}

\* A term's latch is set by a check that found a quorum.
LatchIsEarned == hadQuorum => seen

IInv == OtherTypes /\ Conserved /\ PrimaryLeads /\ LatchIsEarned /\ BootstrapStands

-----------------------------------------------------------------------------
\* The bound on each stage follows from the number of goroutines.
LEMMA ConservedBounds == ASSUME Conserved PROVE calls \in [Stage -> 0 .. Calls]
  <1>1. calls \in [Stage -> Nat] /\ Total = Calls
    BY DEF Conserved
  <1>2. \A s \in Stage : calls[s] \in Nat
    BY <1>1
  <1>3. ASSUME NEW s \in Stage PROVE calls[s] <= Calls
    BY <1>1, <1>2 DEF Stage, Total
  <1> QED
    BY <1>1, <1>2, <1>3

\* What a move from one stage to another does to every stage.
LEMMA MoveMoves ==
    ASSUME calls \in [Stage -> Nat],
           NEW s \in Stage, NEW t \in Stage, s # t, Move(s, t)
    PROVE  /\ calls' \in [Stage -> Nat]
           /\ calls[s] > 0 /\ calls'[s] = calls[s] - 1 /\ calls'[t] = calls[t] + 1
           /\ \A u \in Stage \ {s, t} : calls'[u] = calls[u]
  BY DEF Move

LEMMA MoveConserves ==
    ASSUME Conserved, NEW s \in Stage, NEW t \in Stage, s # t, Move(s, t)
    PROVE  Conserved'
  <1>1. /\ calls \in [Stage -> Nat] /\ Total = Calls
        /\ calls' \in [Stage -> Nat]
        /\ calls'[s] = calls[s] - 1 /\ calls'[t] = calls[t] + 1
        /\ \A u \in Stage \ {s, t} : calls'[u] = calls[u]
    BY MoveMoves DEF Conserved
  <1>2. \A u \in Stage : calls[u] \in Nat /\ calls'[u] \in Nat
    BY <1>1
  <1>3. Total' = Total
    BY <1>1, <1>2 DEF Stage, Total
  <1> QED
    BY <1>1, <1>3 DEF Conserved

-----------------------------------------------------------------------------
\* What the election does on its own, and the environment.
LEMMA ElectionKeepsIInv ==
    ASSUME IInv,
           OtherClaims \/ Win \/ SplitVote \/ GiveWay \/ PeersChange
             \/ (\E p \in {"other", "lobe"} : ODown(p))
    PROVE  IInv'
  <1> USE DEF election, supervisor, health, Candidate
  <1>1. CASE OtherClaims
    <2>1. CASE estate = "Leader"
      <3>1. Move("free", "claimed")
        BY <1>1, <2>1 DEF OtherClaims
      <3>2. Conserved'
        BY <3>1, MoveConserves DEF IInv, Stage
      <3>3. calls \in [Stage -> Nat] /\ calls' \in [Stage -> Nat]
        BY <3>2 DEF IInv, Conserved
      <3>4. /\ calls'["claimed"] = calls["claimed"] + 1
            /\ \A u \in Stage \ {"free", "claimed"} : calls'[u] = calls[u]
        BY <3>1, <3>3, MoveMoves DEF Stage
      <3>5. PrimaryLeads'
        BY <3>3, <3>4 DEF PrimaryLeads, Stage
      <3>6. BootstrapStands'
        BY <1>1, <3>3, <3>4 DEF IInv, BootstrapStands, OtherClaims, Stage
      <3> QED
        BY <1>1, <3>2, <3>5, <3>6 DEF IInv, OtherTypes, OtherClaims, LatchIsEarned
    <2>2. CASE estate # "Leader"
      <3>1. UNCHANGED calls
        BY <1>1, <2>2 DEF OtherClaims
      <3> QED
        BY <1>1, <2>2, <3>1 DEF IInv, OtherTypes, Conserved, Total, PrimaryLeads,
             LatchIsEarned, BootstrapStands, OtherClaims
    <2> QED
      BY <2>1, <2>2
  <1>2. CASE Win
    <2>1. Move("free", "promote")
      BY <1>2 DEF Win
    <2>2. Conserved'
      BY <2>1, MoveConserves DEF IInv, Stage
    <2>3. calls \in [Stage -> Nat]
      BY DEF IInv, Conserved
    <2>4. \A u \in Stage \ {"free", "promote"} : calls'[u] = calls[u]
      BY <2>1, <2>3, MoveMoves DEF Stage
    <2>5. BootstrapStands'
      BY <1>2, <2>4 DEF IInv, BootstrapStands, Win, Stage
    <2> QED
      BY <1>2, <2>2, <2>5 DEF IInv, OtherTypes, Win, PrimaryLeads, LatchIsEarned
  <1>3. CASE SplitVote
    BY <1>3 DEF IInv, OtherTypes, Conserved, Total, PrimaryLeads, LatchIsEarned,
         BootstrapStands, SplitVote
  <1>4. CASE GiveWay
    BY <1>4 DEF IInv, OtherTypes, Conserved, Total, PrimaryLeads, LatchIsEarned,
         BootstrapStands, GiveWay
  <1>5. CASE PeersChange
    BY <1>5 DEF IInv, OtherTypes, Conserved, Total, PrimaryLeads, LatchIsEarned,
         BootstrapStands, PeersChange
  <1>6. CASE \E p \in {"other", "lobe"} : ODown(p)
    BY <1>6 DEF IInv, OtherTypes, Conserved, Total, PrimaryLeads, LatchIsEarned,
         BootstrapStands, ODown
  <1> QED
    BY <1>1, <1>2, <1>3, <1>4, <1>5, <1>6

-----------------------------------------------------------------------------
\* pushRoleEvent keeps the channel within its capacity.
LEMMA PushKeepsEvents ==
    ASSUME NEW e \in {"promoted", "claim", "loss"}, Push(e),
           events \in Seq({"promoted", "claim", "loss"}), Len(events) <= Buffer
    PROVE  events' \in Seq({"promoted", "claim", "loss"}) /\ Len(events') <= Buffer
  BY DEF Push

\* The last step of a call, the push of its event.
LEMMA PushKeepsIInv ==
    ASSUME IInv, NEW s \in {"promoted", "claimPush", "lossPush"},
           NEW e \in {"promoted", "claim", "loss"}, Move(s, "free"), Push(e),
           UNCHANGED <<election, alive, mode, pc, health, driver>>
    PROVE  IInv'
  <1> USE DEF election, health
  <1>1. Conserved'
    BY MoveConserves DEF IInv, Stage
  <1>2. calls \in [Stage -> Nat] /\ calls' \in [Stage -> Nat]
    BY <1>1 DEF IInv, Conserved
  <1>3. /\ calls[s] > 0 /\ calls'[s] = calls[s] - 1
        /\ \A u \in Stage \ {s, "free"} : calls'[u] = calls[u]
    BY <1>2, MoveMoves DEF Stage
  <1>4. PrimaryLeads'
    BY <1>2, <1>3 DEF IInv, PrimaryLeads, Stage
  <1>5. BootstrapStands'
    BY <1>2, <1>3 DEF IInv, BootstrapStands, Stage
  <1>6. OtherTypes'
    BY PushKeepsEvents DEF IInv, OtherTypes
  <1> QED
    BY <1>1, <1>4, <1>5, <1>6 DEF IInv, LatchIsEarned

\* The check under Election.mu: the role is set only of a leader.
LEMMA PromoteKeepsIInv == ASSUME IInv, Promote PROVE IInv'
  <1> USE DEF supervisor, health
  <1>1. PICK t \in {"promoted", "free"} : Move("promote", t)
    BY DEF Promote
  <1>2. Conserved'
    BY <1>1, MoveConserves DEF IInv, Stage
  <1>3. calls \in [Stage -> Nat]
    BY DEF IInv, Conserved
  <1>4. \A u \in Stage \ {"promote", t} : calls'[u] = calls[u]
    BY <1>1, <1>3, MoveMoves DEF Stage
  <1>5. PrimaryLeads'
    BY <1>4 DEF IInv, PrimaryLeads, Promote, Stage
  <1>6. BootstrapStands'
    BY <1>4 DEF IInv, BootstrapStands, Promote, Stage
  <1> QED
    BY <1>2, <1>5, <1>6 DEF IInv, OtherTypes, LatchIsEarned, Promote

LEMMA DemoteKeepsIInv ==
    ASSUME IInv,
           \/ Demote("claimed", "claimLatch") \/ Demote("lossRole", "lossLatch")
    PROVE  IInv'
  <1> USE DEF supervisor, health
  <1>1. PICK m \in {<<"claimed", "claimLatch">>, <<"lossRole", "lossLatch">>} :
            Demote(m[1], m[2])
    OBVIOUS
  <1>2. Move(m[1], m[2]) /\ m[1] \in Stage /\ m[2] \in Stage /\ m[1] # m[2]
    BY <1>1 DEF Demote, Stage
  <1>3. Conserved'
    BY <1>2, MoveConserves DEF IInv
  <1>4. calls \in [Stage -> Nat]
    BY DEF IInv, Conserved
  <1>5. /\ calls[m[1]] > 0
        /\ \A u \in Stage \ {m[1], m[2]} : calls'[u] = calls[u]
    BY <1>2, <1>4, MoveMoves
  <1>6. PrimaryLeads'
    BY <1>1 DEF Demote, PrimaryLeads
  <1>7. CASE m = <<"claimed", "claimLatch">>
    <2>1. BootstrapStands'
      BY <1>1, <1>5, <1>7 DEF IInv, BootstrapStands, Demote, Stage
    <2> QED
      BY <1>1, <1>3, <1>6, <2>1 DEF IInv, OtherTypes, LatchIsEarned, Demote
  <1>8. CASE m = <<"lossRole", "lossLatch">>
    <2>1. calls["stepDown"] \in Nat /\ calls["lossRole"] \in Nat
            /\ calls["lossLatch"] \in Nat /\ calls["lossPush"] \in Nat
      BY <1>4 DEF Stage
    <2>2. seen
      BY <1>5, <1>8, <2>1 DEF IInv, BootstrapStands
    <2> QED
      BY <1>1, <1>3, <1>6, <2>2 DEF IInv, OtherTypes, LatchIsEarned, BootstrapStands, Demote
  <1> QED
    BY <1>7, <1>8

LEMMA ResetKeepsIInv ==
    ASSUME IInv,
           \/ ResetLatch("claimLatch", "claimPush") \/ ResetLatch("lossLatch", "lossPush")
    PROVE  IInv'
  <1> USE DEF election, supervisor
  <1>1. PICK m \in {<<"claimLatch", "claimPush">>, <<"lossLatch", "lossPush">>} :
            ResetLatch(m[1], m[2])
    OBVIOUS
  <1>2. Move(m[1], m[2]) /\ m[1] \in Stage /\ m[2] \in Stage /\ m[1] # m[2]
    BY <1>1 DEF ResetLatch, Stage
  <1>3. Conserved'
    BY <1>2, MoveConserves DEF IInv
  <1>4. calls \in [Stage -> Nat]
    BY DEF IInv, Conserved
  <1>5. /\ calls[m[1]] > 0
        /\ \A u \in Stage \ {m[1], m[2]} : calls'[u] = calls[u]
    BY <1>2, <1>4, MoveMoves
  <1>6. calls'["claimed"] = calls["claimed"] /\ calls'["lossRole"] = calls["lossRole"]
    BY <1>5 DEF Stage
  <1>7. PrimaryLeads'
    BY <1>1, <1>6 DEF IInv, PrimaryLeads, ResetLatch
  <1>8. LatchIsEarned'
    BY <1>1 DEF ResetLatch, LatchIsEarned
  <1>9. /\ hadQuorum' \in BOOLEAN /\ lost' \in BOOLEAN
         /\ UNCHANGED <<election, alive, supervisor, driver, seen>>
    BY <1>1 DEF ResetLatch
  <1>10. OtherTypes'
    BY <1>9 DEF IInv, OtherTypes
  <1>11. CASE m = <<"claimLatch", "claimPush">>
    <2>1. BootstrapStands'
      BY <1>1, <1>5, <1>11 DEF IInv, BootstrapStands, ResetLatch, Stage
    <2> QED
      BY <1>3, <1>7, <1>8, <1>10, <2>1 DEF IInv
  <1>12. CASE m = <<"lossLatch", "lossPush">>
    <2>1. calls["stepDown"] \in Nat /\ calls["lossRole"] \in Nat
            /\ calls["lossLatch"] \in Nat /\ calls["lossPush"] \in Nat
      BY <1>4 DEF Stage
    <2>2. seen
      BY <1>5, <1>12, <2>1 DEF IInv, BootstrapStands
    <2> QED
      BY <1>3, <1>7, <1>8, <1>9, <1>10, <2>2 DEF IInv, BootstrapStands
  <1> QED
    BY <1>11, <1>12

LEMMA StepDownKeepsIInv == ASSUME IInv, StepDown PROVE IInv'
  <1> USE DEF supervisor, health
  <1>1. Move("stepDown", "lossRole")
    BY DEF StepDown
  <1>2. Conserved'
    BY <1>1, MoveConserves DEF IInv, Stage
  <1>3. calls \in [Stage -> Nat] /\ calls' \in [Stage -> Nat]
    BY <1>2 DEF IInv, Conserved
  <1>4. /\ calls["stepDown"] > 0 /\ calls'["lossRole"] = calls["lossRole"] + 1
        /\ \A u \in Stage \ {"stepDown", "lossRole"} : calls'[u] = calls[u]
    BY <1>1, <1>3, MoveMoves DEF Stage
  <1>5. /\ calls["stepDown"] \in Nat /\ calls["lossRole"] \in Nat
        /\ calls["lossLatch"] \in Nat /\ calls["lossPush"] \in Nat
        /\ calls'["claimed"] \in Nat
    BY <1>3 DEF Stage
  <1>6. PrimaryLeads'
    BY <1>4, <1>5 DEF PrimaryLeads
  <1>7. seen
    BY <1>4, <1>5 DEF IInv, BootstrapStands
  <1>8. BootstrapStands'
    BY <1>7 DEF BootstrapStands, StepDown
  <1> QED
    BY <1>2, <1>6, <1>8 DEF IInv, OtherTypes, LatchIsEarned, StepDown

-----------------------------------------------------------------------------
(* checkQuorumHealth *)

LEMMA LookKeepsIInv == ASSUME IInv, Look PROVE IInv'
  <1> USE DEF election, supervisor, health
  <1>1. PICK t \in {"healthy", "missing"} : Move("free", t)
    BY DEF Look
  <1>2. Conserved'
    BY <1>1, MoveConserves DEF IInv, Stage
  <1>3. calls \in [Stage -> Nat]
    BY DEF IInv, Conserved
  <1>4. \A u \in Stage \ {"free", t} : calls'[u] = calls[u]
    BY <1>1, <1>3, MoveMoves DEF Stage
  <1>5. PrimaryLeads' /\ BootstrapStands'
    BY <1>4 DEF IInv, PrimaryLeads, BootstrapStands, Look, Stage
  <1> QED
    BY <1>2, <1>5 DEF IInv, OtherTypes, LatchIsEarned, Look

LEMMA NoteQuorumKeepsIInv == ASSUME IInv, NoteQuorum PROVE IInv'
  <1> USE DEF election, supervisor
  <1>1. Move("healthy", "free")
    BY DEF NoteQuorum
  <1>2. Conserved'
    BY <1>1, MoveConserves DEF IInv, Stage
  <1>3. calls \in [Stage -> Nat]
    BY DEF IInv, Conserved
  <1>4. \A u \in Stage \ {"healthy", "free"} : calls'[u] = calls[u]
    BY <1>1, <1>3, MoveMoves DEF Stage
  <1>5. PrimaryLeads'
    BY <1>4 DEF IInv, PrimaryLeads, NoteQuorum, Stage
  <1>6. /\ hadQuorum' \in BOOLEAN /\ lost' \in BOOLEAN /\ seen'
        /\ UNCHANGED <<election, alive, supervisor, driver>>
    BY DEF NoteQuorum
  <1>7. seen' \in BOOLEAN
    BY DEF NoteQuorum
  <1>8. OtherTypes'
    BY <1>6, <1>7 DEF IInv, OtherTypes
  <1> QED
    BY <1>2, <1>5, <1>6, <1>8 DEF IInv, LatchIsEarned, BootstrapStands

\* Only a term that had a quorum goes on to a demotion.
LEMMA NoteLossKeepsIInv == ASSUME IInv, NoteLoss PROVE IInv'
  <1> USE DEF election, supervisor
  <1>1. PICK t \in {"free", "stepDown"} :
            Move("missing", t) /\ (t = "stepDown" => hadQuorum)
    BY DEF NoteLoss
  <1>2. Conserved'
    BY <1>1, MoveConserves DEF IInv, Stage
  <1>3. calls \in [Stage -> Nat]
    BY DEF IInv, Conserved
  <1>4. \A u \in Stage \ {"missing", t} : calls'[u] = calls[u]
    BY <1>1, <1>3, MoveMoves DEF Stage
  <1>5. PrimaryLeads'
    BY <1>4 DEF IInv, PrimaryLeads, NoteLoss, Stage
  <1>6. lost' \in BOOLEAN
    BY DEF NoteLoss, IInv, OtherTypes
  <1>7. UNCHANGED <<election, alive, supervisor, driver, hadQuorum, seen>>
    BY DEF NoteLoss
  <1>8. OtherTypes'
    BY <1>6, <1>7 DEF IInv, OtherTypes
  <1>9. BootstrapStands'
    <2>1. CASE t = "free"
      BY <1>4, <1>7, <2>1 DEF IInv, BootstrapStands, Stage
    <2>2. CASE t = "stepDown"
      BY <1>1, <1>7, <2>2 DEF IInv, LatchIsEarned, BootstrapStands
    <2> QED
      BY <2>1, <2>2
  <1> QED
    BY <1>2, <1>5, <1>7, <1>8, <1>9 DEF IInv, LatchIsEarned

-----------------------------------------------------------------------------
\* The loop and the driver make no call of the kinds that are counted.
LEMMA LoopKeepsIInv == ASSUME IInv, Driver \/ Supervise \/ Receive PROVE IInv'
  <1> USE DEF election, health
  <1>1. UNCHANGED <<role, leader, alive, calls, health>>
    BY DEF Driver, DriverRound, DriverStart, Supervise, Tick, Lookup, ReElect, Receive
  <1>2. estate' \in {"Idle", "Candidate", "Split", "Leader", "Follower"}
          /\ (estate = "Leader" => estate' = "Leader")
    BY DEF IInv, OtherTypes, Driver, DriverRound, DriverStart, Supervise, Tick, Lookup,
         ReElect, Receive, Campaign, Candidate
  <1>3. mode' \in {"leading", "following", "waiting"} /\ pc' \in {"select", "lookup", "elect"}
    BY DEF IInv, OtherTypes, Driver, DriverRound, DriverStart, Supervise, Tick, Lookup,
         ReElect, Receive, supervisor
  <1>4. driver' \in {"off", "round", "start"}
    BY DEF IInv, OtherTypes, Driver, DriverRound, DriverStart, Supervise, Tick, Lookup,
         ReElect, Receive
  <1>5. events' \in Seq({"promoted", "claim", "loss"}) /\ Len(events') <= Buffer
    BY DEF IInv, OtherTypes, Driver, DriverRound, DriverStart, Supervise, Tick, Lookup,
         ReElect, Receive, supervisor
  <1>6. OtherTypes'
    BY <1>1, <1>2, <1>3, <1>4, <1>5 DEF IInv, OtherTypes
  <1> QED
    BY <1>1, <1>2, <1>6 DEF IInv, Conserved, Total, PrimaryLeads, LatchIsEarned, BootstrapStands

LEMMA StepKeepsIInv == ASSUME IInv, [Next]_vars PROVE IInv'
  <1>1. CASE \/ OtherClaims \/ Win \/ SplitVote \/ GiveWay \/ PeersChange
             \/ (\E p \in {"other", "lobe"} : ODown(p))
    BY <1>1, ElectionKeepsIInv
  <1>2. CASE Promote
    BY <1>2, PromoteKeepsIInv
  <1>3. CASE PushPromotion
    BY <1>3, PushKeepsIInv DEF PushPromotion
  <1>4. CASE ClaimDemotion
    BY <1>4, DemoteKeepsIInv, ResetKeepsIInv, PushKeepsIInv DEF ClaimDemotion, PushDemotion
  <1>5. CASE LossDemotion
    BY <1>5, StepDownKeepsIInv, DemoteKeepsIInv, ResetKeepsIInv, PushKeepsIInv
       DEF LossDemotion, PushDemotion
  <1>6. CASE Look
    BY <1>6, LookKeepsIInv
  <1>7. CASE Check
    BY <1>7, NoteQuorumKeepsIInv, NoteLossKeepsIInv DEF Check
  <1>8. CASE Driver \/ Supervise \/ Receive
    BY <1>8, LoopKeepsIInv
  <1>9. CASE UNCHANGED vars
    BY <1>9 DEF vars, IInv, OtherTypes, Conserved, Total, PrimaryLeads, LatchIsEarned,
         BootstrapStands
  <1> QED
    BY <1>1, <1>2, <1>3, <1>4, <1>5, <1>6, <1>7, <1>8, <1>9 DEF Next, Proceed

LEMMA InitGivesIInv == ASSUME Init PROVE IInv
  <1>1. OtherTypes
    <2>1. events \in Seq({"promoted", "claim", "loss"}) /\ Len(events) <= Buffer
      <3>1. CASE events = <<"promoted">>
        <4>1. <<"promoted">> \in Seq({"promoted", "claim", "loss"}) /\ Len(<<"promoted">>) = 1
          OBVIOUS
        <4> QED
          BY <3>1, <4>1
      <3>2. CASE events = <<>>
        BY <3>2
      <3> QED
        BY <3>1, <3>2 DEF Init
    <2>2. /\ role \in {"Primary", "Replica"}
          /\ estate \in {"Idle", "Candidate", "Split", "Leader", "Follower"}
          /\ leader \in {"none", "self", "other"}
          /\ mode \in {"leading", "following", "waiting"}
          /\ pc = "select" /\ driver = "off"
      BY DEF Init
    <2>3. alive \in BOOLEAN /\ hadQuorum \in BOOLEAN /\ lost \in BOOLEAN /\ seen \in BOOLEAN
      BY DEF Init
    <2> QED
      BY <2>1, <2>2, <2>3 DEF OtherTypes
  <1>2. Conserved
    BY DEF Init, Conserved, Total, Stage
  <1>3. PrimaryLeads /\ LatchIsEarned /\ BootstrapStands
    BY DEF Init, PrimaryLeads, LatchIsEarned, BootstrapStands, Stage
  <1> QED
    BY <1>1, <1>2, <1>3 DEF IInv

LEMMA IInvHolds == Spec => []IInv
  BY InitGivesIInv, StepKeepsIInv, PTL DEF Spec

-----------------------------------------------------------------------------
\* The channel never outgrows its capacity, and no call of a promotion, a demotion or
\* a check is lost or made twice (pushRoleEvent, handlePromotion, handleDemotion).
THEOREM TypesHold == Spec => []TypeOK
  <1>1. IInv => TypeOK
    BY ConservedBounds DEF IInv, OtherTypes, TypeOK
  <1> QED
    BY <1>1, IInvHolds, PTL

\* The role is a Cortex's only of a leader, or while the demotion that takes it is in
\* progress, whatever the claims between tryPromote and handlePromotion.
THEOREM CortexIsLeader == Spec => []PrimaryLeads
  <1>1. IInv => PrimaryLeads
    BY DEF IInv
  <1> QED
    BY <1>1, IInvHolds, PTL

\* A Cortex is never torn down for a quorum that no check has ever found
\* (checkQuorumHealth).
THEOREM BootstrapIsSpared == Spec => []BootstrapStands
  <1>1. IInv => BootstrapStands
    BY DEF IInv
  <1> QED
    BY <1>1, IInvHolds, PTL
=============================================================================
