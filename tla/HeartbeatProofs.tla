---------------------------- MODULE HeartbeatProofs ----------------------------
(***************************************************************************)
(* Proofs about Heartbeat, for every set of watchers and every threshold.  *)
(***************************************************************************)
EXTENDS Heartbeat, FiniteSetTheorems, TLAPS

\* The types hold from the start.
LEMMA InitTypeOK == Init => TypeOK
<1>1. 0 \in 0 .. Missed + 1
  BY HeartbeatAssumption
<1> QED BY <1>1 DEF Init, TypeOK

\* Every step keeps the types.
LEMMA StepTypeOK == TypeOK /\ [Next]_vars => TypeOK'
<1> SUFFICES ASSUME TypeOK, [Next]_vars PROVE TypeOK'
  OBVIOUS
<1> USE HeartbeatAssumption
<1>1. ASSUME NEW n \in Watcher, HandleHeartbeat(n) PROVE TypeOK'
  <2>1. votes' \in [Watcher -> SUBSET Voter]
    BY <1>1 DEF HandleHeartbeat, TypeOK
  <2> QED BY <1>1, <2>1 DEF HandleHeartbeat, TypeOK
<1>2. ASSUME NEW n \in Watcher, Rejoin(n) PROVE TypeOK'
  BY <1>2 DEF Rejoin, TypeOK
<1>3. ASSUME NEW n \in Watcher, Tick(n) PROVE TypeOK'
  <2>1. miss' \in [Watcher -> 0 .. Missed + 1]
    BY <1>3 DEF Tick, TypeOK
  <2>2. sdown' \in [Watcher -> BOOLEAN]
    BY <1>3, <2>1 DEF Tick, TypeOK
  <2>3. gossip' \subseteq Watcher \X Watcher
    BY <1>3 DEF Tick, TypeOK
  <2>4. fired' \in [Watcher -> BOOLEAN]
    BY <1>3 DEF Tick, TypeOK
  <2>5. suspected' \subseteq Watcher
    BY <1>3 DEF Tick, TypeOK
  <2> QED BY <1>3, <2>1, <2>2, <2>3, <2>4, <2>5 DEF Tick, TypeOK
<1>4. ASSUME NEW n \in Watcher, NEW s \in Watcher, RecordDownVote(n, s) PROVE TypeOK'
  <2>1. votes' \in [Watcher -> SUBSET Voter]
    BY <1>4 DEF RecordDownVote, TypeOK, Counted, Voter
  <2>2. fired' \in [Watcher -> BOOLEAN]
    BY <1>4 DEF RecordDownVote, TypeOK
  <2> QED BY <1>4, <2>1, <2>2 DEF RecordDownVote, TypeOK
<1>5. ASSUME NEW g \in gossip, LoseVote(g) PROVE TypeOK'
  BY <1>5 DEF LoseVote, TypeOK
<1>6. CASE TargetCrash
  BY <1>6 DEF TargetCrash, TypeOK
<1>7. CASE TargetRestart
  BY <1>7 DEF TargetRestart, TypeOK
<1>8. CASE UNCHANGED vars
  BY <1>8 DEF vars, TypeOK
<1> QED BY <1>1, <1>2, <1>3, <1>4, <1>5, <1>6, <1>7, <1>8 DEF Next

-----------------------------------------------------------------------------
(* The inductive invariant: what a verdict, a vote and a latch each rest on.  The   *)
(* history of suspicions holds every node that a vote in flight or collected names. *)

Timed == \A n \in Watcher : sdown[n] => miss[n] > Missed
VerdictsSuspect == \A n \in Watcher : sdown[n] => n \in suspected
GossipSuspects == \A g \in gossip : g[1] \in suspected /\ g[1] # g[2]
VotesSuspect == \A n \in Watcher : votes[n] \subseteq suspected /\ n \notin votes[n]

IInv ==
    /\ TypeOK /\ Timed /\ VerdictsSuspect /\ GossipSuspects /\ VotesSuspect
    /\ LatchEndsWithEpisode /\ ODownHasQuorum

\* It holds at first.
LEMMA InitIInv == Init => IInv
BY InitTypeOK
   DEF Init, IInv, Timed, VerdictsSuspect, GossipSuspects, VotesSuspect,
       LatchEndsWithEpisode, ODownHasQuorum

\* A set of other voters that the quorum is reached with makes, with the node itself,
\* a quorum of suspicions.
LEMMA AgreedIsQuorum ==
    ASSUME NEW n \in Watcher, NEW S, S \subseteq Watcher, n \in S,
           NEW V, V \subseteq S, V \subseteq Voter, n \notin V, Agreed(n, V)
    PROVE  Cardinality(S \cap (Voter \cup {n})) >= Quorum(n)
<1> DEFINE T == S \cap (Voter \cup {n})
<1>1. IsFiniteSet(Watcher)
  BY HeartbeatAssumption
<1>2. IsFiniteSet(T)
  <2>1. T \subseteq Watcher
    OBVIOUS
  <2> QED BY <1>1, <2>1, FS_Subset
<1>3. V \cup {n} \subseteq T
  OBVIOUS
<1>4. IsFiniteSet(V)
  <2>1. V \subseteq Watcher
    OBVIOUS
  <2> QED BY <1>1, <2>1, FS_Subset
<1>5. Cardinality(V \cup {n}) = Cardinality(V) + 1
  BY <1>4, FS_AddElement
<1>6. Cardinality(V \cup {n}) <= Cardinality(T)
  BY <1>2, <1>3, FS_Subset
<1>7. Cardinality(V) \in Nat /\ Cardinality(T) \in Nat
  BY <1>2, <1>4, FS_CardinalityType
<1>8. Quorum(n) \in Nat
  <2>1. IsFiniteSet(Voter \cup {n})
    <3>1. Voter \cup {n} \subseteq Watcher
      BY DEF Voter
    <3> QED BY <1>1, <3>1, FS_Subset
  <2>2. Cardinality(Voter \cup {n}) \in Nat
    BY <2>1, FS_CardinalityType
  <2> QED BY <2>2 DEF Quorum
<1> HIDE DEF T
<1>9. Cardinality(T) >= Quorum(n)
  BY <1>5, <1>6, <1>7, <1>8 DEF Agreed
<1> QED BY <1>9 DEF T

\* What has been found down by a quorum stays so: the history only grows.
LEMMA MoreSuspects ==
    ASSUME NEW n \in Watcher, NEW S, NEW S2, S \subseteq S2, S2 \subseteq Watcher,
           Cardinality(S \cap (Voter \cup {n})) >= Quorum(n)
    PROVE  Cardinality(S2 \cap (Voter \cup {n})) >= Quorum(n)
<1> DEFINE A == S \cap (Voter \cup {n})
<1> DEFINE B == S2 \cap (Voter \cup {n})
<1>1. B \subseteq Watcher /\ A \subseteq B
  OBVIOUS
<1>2. IsFiniteSet(B)
  BY <1>1, FS_Subset, HeartbeatAssumption
<1>3. IsFiniteSet(A) /\ Cardinality(A) <= Cardinality(B)
  BY <1>1, <1>2, FS_Subset
<1>4. Cardinality(A) \in Nat /\ Cardinality(B) \in Nat
  BY <1>2, <1>3, FS_CardinalityType
<1>5. Quorum(n) \in Nat
  <2>1. Voter \cup {n} \subseteq Watcher
    BY DEF Voter
  <2>2. IsFiniteSet(Voter \cup {n})
    BY <2>1, FS_Subset, HeartbeatAssumption
  <2>3. Cardinality(Voter \cup {n}) \in Nat
    BY <2>2, FS_CardinalityType
  <2> QED BY <2>3 DEF Quorum
<1> HIDE DEF A, B
<1>6. Cardinality(A) >= Quorum(n)
  BY DEF A
<1>7. Cardinality(B) >= Quorum(n)
  BY <1>3, <1>4, <1>5, <1>6
<1> QED BY <1>7 DEF B

\* The end of an episode, or of the peer's registration.
LEMMA RecoveryKeepsIInv ==
    ASSUME IInv, NEW n \in Watcher, HandleHeartbeat(n) \/ Rejoin(n), TypeOK'
    PROVE  IInv'
<1>1. Timed' /\ VerdictsSuspect' /\ LatchEndsWithEpisode'
  BY DEF IInv, TypeOK, Timed, VerdictsSuspect, LatchEndsWithEpisode, HandleHeartbeat, Rejoin
<1>2. GossipSuspects'
  BY DEF IInv, GossipSuspects, HandleHeartbeat, Rejoin
<1>3. VotesSuspect'
  BY DEF IInv, TypeOK, VotesSuspect, HandleHeartbeat, Rejoin
<1>4. /\ suspected' = suspected
      /\ \A m \in Watcher : fired'[m] => fired[m]
  BY DEF IInv, TypeOK, HandleHeartbeat, Rejoin
<1>5. ODownHasQuorum'
  BY <1>4 DEF IInv, ODownHasQuorum, Quorum, Voter
<1> QED BY <1>1, <1>2, <1>3, <1>5 DEF IInv

\* A beat.
LEMMA TickKeepsIInv ==
    ASSUME IInv, NEW n \in Watcher, Tick(n), TypeOK'
    PROVE  IInv'
<1>1. /\ suspected \subseteq suspected' /\ suspected' \subseteq Watcher
      /\ \A m \in Watcher \ {n} : /\ fired'[m] = fired[m] /\ sdown'[m] = sdown[m]
                                 /\ miss'[m] = miss[m]
      /\ votes' = votes
  BY DEF IInv, TypeOK, Tick
<1>2. /\ miss'[n] = IF miss[n] > Missed THEN miss[n] ELSE miss[n] + 1
      /\ sdown'[n] = (miss'[n] > Missed)
      /\ sdown[n] \in BOOLEAN /\ miss[n] \in 0 .. Missed + 1
  BY DEF IInv, TypeOK, Tick
<1>3. sdown[n] => sdown'[n]
  BY <1>2 DEF IInv, Timed
<1>4. sdown'[n] /\ ~sdown[n] => suspected' = suspected \cup {n}
  BY DEF Tick
<1>5. sdown'[n] => n \in suspected'
  BY <1>1, <1>4 DEF IInv, VerdictsSuspect
<1>6. fired'[n] => fired[n] \/ (sdown'[n] /\ Agreed(n, votes[n]))
  BY DEF IInv, TypeOK, Tick
<1>7. Timed'
  BY <1>1, <1>2 DEF IInv, Timed
<1>8. VerdictsSuspect'
  BY <1>1, <1>5 DEF IInv, VerdictsSuspect
<1>9. LatchEndsWithEpisode'
  BY <1>1, <1>3, <1>6 DEF IInv, LatchEndsWithEpisode
<1>10. GossipSuspects'
  <2>1. CASE sdown'[n] /\ ~sdown[n]
    <3>1. gossip' = gossip \cup ({n} \X (Watcher \ {n}))
      BY <2>1 DEF Tick
    <3> QED BY <1>1, <1>5, <2>1, <3>1 DEF IInv, GossipSuspects
  <2>2. CASE ~(sdown'[n] /\ ~sdown[n])
    <3>1. gossip' = gossip
      BY <2>2 DEF Tick
    <3> QED BY <1>1, <3>1 DEF IInv, GossipSuspects
  <2> QED BY <2>1, <2>2
<1>11. VotesSuspect'
  BY <1>1 DEF IInv, VotesSuspect
<1>12. ODownHasQuorum'
  <2>1. ASSUME NEW m \in Watcher, fired[m]
        PROVE  Cardinality(suspected' \cap (Voter \cup {m})) >= Quorum(m)
    <3>1. Cardinality(suspected \cap (Voter \cup {m})) >= Quorum(m)
      BY <2>1 DEF IInv, ODownHasQuorum
    <3> QED BY <1>1, <3>1, MoreSuspects
  <2>2. ASSUME sdown'[n], Agreed(n, votes[n])
        PROVE  Cardinality(suspected' \cap (Voter \cup {n})) >= Quorum(n)
    <3>1. /\ votes[n] \subseteq suspected' /\ votes[n] \subseteq Voter
          /\ n \notin votes[n] /\ n \in suspected'
      BY <1>1, <1>5, <2>2 DEF IInv, TypeOK, VotesSuspect
    <3> QED BY <1>1, <2>2, <3>1, AgreedIsQuorum
  <2>3. ASSUME NEW m \in Watcher, fired'[m]
        PROVE  Cardinality(suspected' \cap (Voter \cup {m})) >= Quorum(m)
    BY <1>1, <1>6, <2>1, <2>2, <2>3
  <2> QED BY <2>3 DEF ODownHasQuorum, Quorum, Voter
<1> QED BY <1>7, <1>8, <1>9, <1>10, <1>11, <1>12 DEF IInv

\* A vote of another node.
LEMMA VoteKeepsIInv ==
    ASSUME IInv, NEW n \in Watcher, NEW s \in Watcher, RecordDownVote(n, s), TypeOK'
    PROVE  IInv'
<1>1. /\ suspected' = suspected /\ sdown' = sdown /\ miss' = miss
      /\ \A m \in Watcher \ {n} : fired'[m] = fired[m] /\ votes'[m] = votes[m]
      /\ votes'[n] \subseteq votes[n] \cup {s}
      /\ gossip' \subseteq gossip
  BY DEF IInv, TypeOK, RecordDownVote
<1>2. s \in suspected /\ s # n
  BY DEF IInv, GossipSuspects, RecordDownVote
<1>3. fired'[n] => fired[n] \/ (sdown[n] /\ Agreed(n, votes'[n]))
  BY DEF IInv, TypeOK, RecordDownVote
<1>4. Timed' /\ VerdictsSuspect' /\ GossipSuspects'
  BY <1>1 DEF IInv, Timed, VerdictsSuspect, GossipSuspects
<1>5. VotesSuspect'
  BY <1>1, <1>2 DEF IInv, VotesSuspect
<1>6. LatchEndsWithEpisode'
  BY <1>1, <1>3 DEF IInv, LatchEndsWithEpisode
<1>7. ODownHasQuorum'
  <2>1. ASSUME sdown[n], Agreed(n, votes'[n])
        PROVE  Cardinality(suspected \cap (Voter \cup {n})) >= Quorum(n)
    <3>1. /\ votes'[n] \subseteq suspected /\ votes'[n] \subseteq Voter
          /\ n \notin votes'[n] /\ n \in suspected /\ suspected \subseteq Watcher
      BY <1>1, <1>5, <2>1 DEF IInv, TypeOK, VotesSuspect, VerdictsSuspect
    <3> QED BY <2>1, <3>1, AgreedIsQuorum
  <2>2. ASSUME NEW m \in Watcher, fired'[m]
        PROVE  Cardinality(suspected \cap (Voter \cup {m})) >= Quorum(m)
    BY <1>1, <1>3, <2>1, <2>2 DEF IInv, ODownHasQuorum
  <2> QED BY <1>1, <2>2 DEF ODownHasQuorum, Quorum, Voter
<1> QED BY <1>4, <1>5, <1>6, <1>7 DEF IInv

\* The rest of the steps: the target's, and those of the connections.
LEMMA StepKeepsIInv == IInv /\ [Next]_vars => IInv'
<1> SUFFICES ASSUME IInv, [Next]_vars PROVE IInv'
  OBVIOUS
<1>1. TypeOK'
  BY StepTypeOK DEF IInv
<1>2. ASSUME NEW n \in Watcher, HandleHeartbeat(n) \/ Rejoin(n) PROVE IInv'
  BY <1>1, <1>2, RecoveryKeepsIInv
<1>3. ASSUME NEW n \in Watcher, Tick(n) PROVE IInv'
  BY <1>1, <1>3, TickKeepsIInv
<1>4. ASSUME NEW n \in Watcher, NEW s \in Watcher, RecordDownVote(n, s) PROVE IInv'
  BY <1>1, <1>4, VoteKeepsIInv
<1>5. ASSUME UNCHANGED <<miss, sdown, fired, votes, suspected>>, gossip' \subseteq gossip
      PROVE  IInv'
  BY <1>1, <1>5 DEF IInv, Timed, VerdictsSuspect, GossipSuspects, VotesSuspect,
     LatchEndsWithEpisode, ODownHasQuorum, Quorum, Voter
<1>6. ASSUME NEW g \in gossip, LoseVote(g) PROVE IInv'
  BY <1>5, <1>6 DEF LoseVote
<1>7. CASE TargetCrash \/ TargetRestart \/ UNCHANGED vars
  BY <1>5, <1>7 DEF TargetCrash, TargetRestart, vars
<1> QED BY <1>2, <1>3, <1>4, <1>6, <1>7 DEF Next

\* The invariant holds in every state.
LEMMA IInvHolds == Spec => []IInv
BY InitIInv, StepKeepsIInv, PTL DEF Spec

\* The types hold in every state (the state of MSP and its votedDown sets).
THEOREM TypesHold == Spec => []TypeOK
<1>1. IInv => TypeOK
  BY DEF IInv
<1> QED BY <1>1, IInvHolds, PTL

\* An ODOWN report is of an episode that is still on: odownFired and SDown are reset
\* together, in handleHeartbeat and in AddPeer, and tick takes back no verdict.
THEOREM LatchEnds == Spec => []LatchEndsWithEpisode
<1>1. IInv => LatchEndsWithEpisode
  BY DEF IInv
<1> QED BY <1>1, IInvHolds, PTL

\* No node reports ODOWN, and so starts a failover, before a quorum of voters, itself
\* included, has found the target down (recordDownVote and tick).
THEOREM ODownIsAgreed == Spec => []ODownHasQuorum
<1>1. IInv => ODownHasQuorum
  BY DEF IInv
<1> QED BY <1>1, IInvHolds, PTL
=============================================================================
