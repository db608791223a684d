--------------------------- MODULE ElectionProofs ---------------------------
(***************************************************************************)
(* Proofs about Election, for every set of nodes and every MaxEpoch.       *)
(***************************************************************************)
EXTENDS Election, FiniteSetTheorems, TLAPS

USE DEF handoffVars, ballotVars

-----------------------------------------------------------------------------
(* A step is a step of one node, named action by action *)

HandoffStep(n) ==
    \/ Drain(n) \/ GiveUp(n) \/ Retire(n)
    \/ \E t \in Node : SendHandoff(n, t)
    \/ \E h \in takeovers[n] : TakeOver(n, h)

RunStep(n) ==
    \/ StartElection(n) \/ ResetCandidate(n) \/ StepDown(n)
    \/ \E d \in Node : ClearLeader(n, d)
    \/ \E m \in msgs : Deliver(n, m)
    \/ \E e \in Epoch : TryPromote(n, e)
    \/ RunPromotion(n) \/ RunDemotion(n)
    \/ BootElect(n) \/ BootAssert(n)
    \/ \E l \in Node : BootDefer(n, l)
    \/ \E d \in Node : HelloClaim(n, d)
    \/ \E d \in Node : AcceptJoin(n, d)
    \/ HandoffStep(n)

StepOf(n) == RunStep(n) \/ Restart(n)

\* Every step of CrashNext is one of these (Crashing only limits who restarts).
LEMMA RunCases == Next => \E n \in Node : RunStep(n)
BY DEF Next, Settle, Suspect, Announce, Boot, Callback, Failover, RunStep, HandoffStep

LEMMA StepCases == CrashNext => \E n \in Node : StepOf(n)
BY RunCases, ElectionAssumption DEF CrashNext, StepOf

\* The types.  Elect and the helpers are expanded where they are used.
LEMMA InitTypeOK == Init => TypeOK
BY ElectionAssumption DEF Init, TypeOK, Epoch

LEMMA ElectTypeOK ==
    ASSUME TypeOK, NEW n \in Node, Elect(n), boot' \in [Node -> {"start", "assert", "done"}]
    PROVE  TypeOK'
<1> DEFINE x == epoch[n] + 1
<1>1. x \in Epoch
  BY ElectionAssumption DEF Elect, TypeOK, Epoch
<1>2. Broadcast("VoteRequest", n, x) \subseteq Message
  BY <1>1 DEF Broadcast, Message, Msg
<1> HIDE DEF x
<1>3. /\ epoch' = [epoch EXCEPT ![n] = x]
      /\ estate' = [estate EXCEPT ![n] = "Candidate"]
      /\ candidateEpoch' = [candidateEpoch EXCEPT ![n] = x]
      /\ votedFor' = [votedFor EXCEPT ![n][x] = n]
      /\ votes' = [votes EXCEPT ![n][x] = @ \cup {n}]
      /\ promoting' = [promoting EXCEPT ![n] =
                        IF ReachesQuorum(votes[n][x] \cup {n}) THEN @ \cup {x} ELSE @]
      /\ msgs' = msgs \cup Broadcast("VoteRequest", n, x)
      /\ cast' = cast \cup {<<n, x, n>>}
      /\ UNCHANGED <<leader, role, callbacks, elected>>
  BY DEF Elect, CountVote, x
<1>4. promoting' \in [Node -> SUBSET Epoch]
  BY <1>1, <1>3 DEF TypeOK
<1>5. /\ votes' \in [Node -> [Epoch -> SUBSET Node]]
      /\ votedFor' \in [Node -> [Epoch -> Node \cup {None}]]
  BY <1>1, <1>3 DEF TypeOK
<1>6. cast' \subseteq Node \X Epoch \X Node
  BY <1>1, <1>3 DEF TypeOK
<1>7. /\ epoch' \in [Node -> Epoch] /\ candidateEpoch' \in [Node -> Epoch]
      /\ estate' \in [Node -> {"Idle", "Candidate", "Leader", "Follower"}]
  BY <1>1, <1>3 DEF TypeOK
<1>8. msgs' \subseteq Message
  BY <1>2, <1>3 DEF TypeOK
<1>9. UNCHANGED <<leader, role, callbacks, elected, crumbs, failover, takeovers, handed>>
  BY <1>3 DEF Elect
<1>10. QED
  BY <1>4, <1>5, <1>6, <1>7, <1>8, <1>9 DEF TypeOK

\* The frames an action adds are messages.
LEMMA FramesAreMessages ==
    ASSUME NEW n \in Node, NEW e \in Epoch,
           NEW t \in {"VoteRequest", "VoteGranted", "CortexClaim", "JoinResponse",
                      "Handoff", "HandoffAck"}
    PROVE  /\ Broadcast(t, n, e) \subseteq Message
           /\ \A d \in Node : Msg(t, n, d, e) \in Message
BY DEF Broadcast, Msg, Message

LEMMA CleanupTypeOK ==
    ASSUME TypeOK, NEW n \in Node, NEW e \in Epoch, Cleanup(n, e)
    PROVE  /\ votes' \in [Node -> [Epoch -> SUBSET Node]]
           /\ votedFor' \in [Node -> [Epoch -> Node \cup {None}]]
BY DEF TypeOK, Cleanup, CleanedVotes, CleanedVotedFor

LEMMA AdvanceTypeOK ==
    ASSUME TypeOK, NEW n \in Node, NEW e \in Epoch, Advance(n, e)
    PROVE  epoch' \in [Node -> Epoch]
BY DEF TypeOK, Advance

LEMMA DeliverTypeOK ==
    ASSUME TypeOK, NEW n \in Node, NEW m \in msgs, Deliver(n, m)
    PROVE  TypeOK'
<1>1. m \in Message /\ m.src \in Node /\ m.dst \in Node /\ m.epoch \in Epoch
  BY DEF TypeOK, Message
<1>2. CASE RejectVoteRequest(n, m)
  BY <1>1, <1>2 DEF RejectVoteRequest, TypeOK
<1>3. CASE RepeatVote(n, m)
  <2>1. epoch' \in [Node -> Epoch]
    BY <1>1, <1>3, AdvanceTypeOK DEF RepeatVote
  <2>2. msgs' \subseteq Message
    BY <1>1, <1>3, FramesAreMessages DEF RepeatVote, TypeOK
  <2>3. QED
    BY <1>3, <2>1, <2>2 DEF RepeatVote, TypeOK
<1>4. CASE GrantVote(n, m)
  <2>1. epoch' \in [Node -> Epoch]
    BY <1>1, <1>4, AdvanceTypeOK DEF GrantVote
  <2>2. msgs' \subseteq Message
    BY <1>1, <1>4, FramesAreMessages DEF GrantVote, TypeOK
  <2>3. votedFor' \in [Node -> [Epoch -> Node \cup {None}]]
    BY <1>1, <1>4 DEF GrantVote, TypeOK
  <2>4. estate' \in [Node -> {"Idle", "Candidate", "Leader", "Follower"}]
    BY <1>4 DEF GrantVote, TypeOK
  <2>5. cast' \subseteq Node \X Epoch \X Node
    BY <1>1, <1>4 DEF GrantVote, TypeOK
  <2>6. QED
    BY <1>4, <2>1, <2>2, <2>3, <2>4, <2>5 DEF GrantVote, TypeOK
<1>5. CASE HandleVoteResponse(n, m)
  <2>1. CASE Counts(n, m)
    <3>1. CountVote(n, m.src, m.epoch)
      BY <1>5, <2>1 DEF HandleVoteResponse
    <3>2. votes' \in [Node -> [Epoch -> SUBSET Node]]
      BY <1>1, <3>1 DEF CountVote, TypeOK
    <3>3. promoting' \in [Node -> SUBSET Epoch]
      BY <1>1, <3>1 DEF CountVote, TypeOK
    <3>4. QED
      BY <1>5, <3>2, <3>3 DEF HandleVoteResponse, TypeOK
  <2>2. CASE ~Counts(n, m)
    BY <1>5, <2>2 DEF HandleVoteResponse, TypeOK
  <2>3. QED
    BY <2>1, <2>2
<1>6. CASE IgnoreClaim(n, m)
  BY <1>1, <1>6 DEF IgnoreClaim, TypeOK
<1>7. CASE ReassertClaim(n, m)
  BY <1>1, <1>7, FramesAreMessages DEF ReassertClaim, TypeOK
<1>8. CASE FollowClaim(n, m)
  BY <1>1, <1>8, AdvanceTypeOK, CleanupTypeOK DEF FollowClaim, TypeOK
<1>9. CASE JoinConn(n, m)
  <2>1. epoch' \in [Node -> Epoch]
    BY <1>1, <1>9, AdvanceTypeOK DEF JoinConn
  <2>2. msgs' \subseteq Message
    BY <1>1, <1>9, FramesAreMessages DEF JoinConn, TypeOK
  <2>3. QED
    BY <1>9, <2>1, <2>2 DEF JoinConn, TypeOK
<1>10. CASE HandleHandoff(n, m)
  <2> DEFINE e == m.epoch + 1
  <2>1. e \in Epoch /\ Taking(m.src, e, "advanced") \in Takeover
    BY <1>1, <1>10, ElectionAssumption DEF HandleHandoff, Epoch, Taking, Takeover
  <2>2. epoch' \in [Node -> Epoch]
    BY <1>10, <2>1, AdvanceTypeOK DEF HandleHandoff
  <2>3. takeovers' \in [Node -> SUBSET Takeover]
    BY <1>10, <2>1 DEF HandleHandoff, TypeOK
  <2>4. msgs' \subseteq Message
    BY <1>10 DEF HandleHandoff, TypeOK
  <2>5. QED
    BY <1>10, <2>2, <2>3, <2>4 DEF HandleHandoff, TypeOK
<1>11. CASE HandleHandoffAck(n, m)
  BY <1>11 DEF HandleHandoffAck, TypeOK
<1>12. QED
  BY <1>2, <1>3, <1>4, <1>5, <1>6, <1>7, <1>8, <1>9, <1>10, <1>11 DEF Deliver

\* A takeover only ever moves on or ends.
LEMMA MovesTypeOK ==
    ASSUME TypeOK, NEW n \in Node, NEW h \in takeovers[n],
           NEW at \in {"persisted", "leading", "promoted"}
    PROVE  /\ h \in Takeover /\ h.src \in Node /\ h.epoch \in Epoch
           /\ Moves(n, h, at) => takeovers' \in [Node -> SUBSET Takeover]
           /\ Leaves(n, h) => takeovers' \in [Node -> SUBSET Takeover]
<1>1. h \in Takeover
  BY DEF TypeOK
<1>2. h.src \in Node /\ h.epoch \in Epoch /\ [h EXCEPT !.at = at] \in Takeover
  BY <1>1 DEF Takeover
<1>3. /\ takeovers \in [Node -> SUBSET Takeover]
      /\ {[h EXCEPT !.at = at]} \subseteq Takeover
  BY <1>2 DEF TypeOK
<1>4. Moves(n, h, at) => takeovers' \in [Node -> SUBSET Takeover]
  BY <1>3 DEF Moves
<1>5. Leaves(n, h) => takeovers' \in [Node -> SUBSET Takeover]
  BY <1>3 DEF Leaves
<1>6. QED
  BY <1>1, <1>2, <1>4, <1>5

LEMMA TakeOverTypeOK ==
    ASSUME TypeOK, NEW n \in Node, NEW h \in takeovers[n], TakeOver(n, h)
    PROVE  TypeOK'
<1>1. h.src \in Node /\ h.epoch \in Epoch
  BY MovesTypeOK
<1>2. takeovers' \in [Node -> SUBSET Takeover]
  BY MovesTypeOK DEF TakeOver, PersistRole, AbortHandoff, TakeLead, PromoteTaker, FinishTakeover
<1>3. CASE PersistRole(n, h)
  BY <1>1, <1>2, <1>3, FramesAreMessages DEF PersistRole, TypeOK
<1>4. CASE AbortHandoff(n, h)
  BY <1>2, <1>4 DEF AbortHandoff, TypeOK
<1>5. CASE TakeLead(n, h)
  BY <1>2, <1>5 DEF TakeLead, TypeOK
<1>6. CASE PromoteTaker(n, h)
  BY <1>2, <1>6 DEF PromoteTaker, TypeOK
<1>7. CASE FinishTakeover(n, h)
  <2>1. crumbs' \subseteq Node
    BY <1>7 DEF FinishTakeover, TypeOK
  <2>2. msgs' \subseteq Message
    BY <1>1, <1>7, FramesAreMessages DEF FinishTakeover, TypeOK
  <2>3. QED
    BY <1>2, <1>7, <2>1, <2>2 DEF FinishTakeover, TypeOK
<1>8. QED
  BY <1>3, <1>4, <1>5, <1>6, <1>7 DEF TakeOver

LEMMA HandoffTypeOK ==
    ASSUME TypeOK, NEW n \in Node, HandoffStep(n)
    PROVE  TypeOK'
<1>1. CASE Drain(n) \/ GiveUp(n)
  BY <1>1 DEF Drain, GiveUp, TypeOK
<1>2. CASE Retire(n)
  BY <1>2 DEF Retire, TypeOK
<1>3. ASSUME NEW t \in Node, SendHandoff(n, t) PROVE TypeOK'
  <2>1. Msg("Handoff", n, t, epoch[n]) \in Message /\ <<n, t, epoch[n]>> \in Node \X Node \X Epoch
    BY FramesAreMessages DEF TypeOK
  <2>2. QED
    BY <1>3, <2>1 DEF SendHandoff, TypeOK
<1>4. QED
  BY <1>1, <1>2, <1>3, TakeOverTypeOK DEF HandoffStep

LEMMA TryPromoteTypeOK ==
    ASSUME TypeOK, NEW n \in Node, NEW e \in Epoch, TryPromote(n, e)
    PROVE  TypeOK'
<1>1. CASE Promote(n, e)
  BY <1>1, CleanupTypeOK, FramesAreMessages DEF Promote, TypeOK
<1>2. CASE LoseRace(n, e)
  BY <1>2 DEF LoseRace, TypeOK
<1>3. CASE AbandonPromotion(n, e)
  BY <1>3 DEF AbandonPromotion, TypeOK
<1>4. QED
  BY <1>1, <1>2, <1>3 DEF TryPromote

LEMMA StepTypeOK ==
    ASSUME TypeOK, NEW n \in Node, StepOf(n)
    PROVE  TypeOK'
<1>1. epoch[n] \in Epoch /\ candidateEpoch[n] \in Epoch
  BY DEF TypeOK
<1>2. CASE StartElection(n)
  BY <1>2, ElectTypeOK DEF StartElection, TypeOK
<1>3. CASE BootElect(n)
  <2>1. boot' \in [Node -> {"start", "assert", "done"}]
    BY <1>3 DEF BootElect, TypeOK
  <2>2. QED
    BY <1>3, <2>1, ElectTypeOK DEF BootElect
<1>4. CASE ResetCandidate(n) \/ StepDown(n)
  <2>1. CASE ResetCandidate(n)
    BY <2>1 DEF ResetCandidate, TypeOK
  <2>2. CASE StepDown(n)
    BY <2>2 DEF StepDown, TypeOK
  <2>3. QED
    BY <1>4, <2>1, <2>2
<1>5. CASE \E d \in Node : ClearLeader(n, d)
  BY <1>5 DEF ClearLeader, TypeOK
<1>6. CASE \E m \in msgs : Deliver(n, m)
  BY <1>6, DeliverTypeOK
<1>7. CASE \E e \in Epoch : TryPromote(n, e)
  BY <1>7, TryPromoteTypeOK
<1>8. CASE RunPromotion(n) \/ RunDemotion(n)
  <2>1. CASE RunPromotion(n)
    BY <2>1 DEF RunPromotion, TypeOK
  <2>2. CASE RunDemotion(n)
    BY <2>2 DEF RunDemotion, TypeOK
  <2>3. QED
    BY <1>8, <2>1, <2>2
<1>9. CASE BootAssert(n)
  <2>1. Broadcast("CortexClaim", n, candidateEpoch[n]) \subseteq Message
    BY <1>1, FramesAreMessages
  <2>2. CASE role[n] # "Primary" /\ estate[n] = "Candidate"
    <3>1. /\ estate' = [estate EXCEPT ![n] = "Leader"]
          /\ leader' = [leader EXCEPT ![n] = n]
          /\ callbacks' = [callbacks EXCEPT ![n] = @ \cup {"promote"}]
          /\ msgs' = msgs \cup Broadcast("CortexClaim", n, candidateEpoch[n])
          /\ boot' = [boot EXCEPT ![n] = "done"]
          /\ UNCHANGED <<epoch, candidateEpoch, votes, votedFor, promoting, role,
                         cast, elected>>
      BY <1>9, <2>2 DEF BootAssert
    <3>2. /\ estate' \in [Node -> {"Idle", "Candidate", "Leader", "Follower"}]
          /\ leader' \in [Node -> Node \cup {None}]
          /\ callbacks' \in [Node -> SUBSET {"promote", "demote"}]
          /\ boot' \in [Node -> {"start", "assert", "done"}]
      BY <3>1 DEF TypeOK
    <3>3. msgs' \subseteq Message
      BY <2>1, <3>1 DEF TypeOK
    <3>4. UNCHANGED handoffVars
      BY <1>9 DEF BootAssert
    <3>5. QED
      BY <3>1, <3>2, <3>3, <3>4 DEF TypeOK
  <2>3. CASE ~(role[n] # "Primary" /\ estate[n] = "Candidate")
    BY <1>9, <2>3 DEF BootAssert, TypeOK
  <2>4. QED
    BY <2>2, <2>3
<1>10. CASE \E l \in Node : BootDefer(n, l)
  <2> PICK l \in Node : BootDefer(n, l)
    BY <1>10
  <2>1. Msg("CortexClaim", l, n, epoch[l]) \in Message
    BY FramesAreMessages DEF TypeOK
  <2>2. QED
    BY <2>1 DEF BootDefer, TypeOK
<1>11. CASE \E d \in Node : HelloClaim(n, d)
  BY <1>1, <1>11, FramesAreMessages DEF HelloClaim, TypeOK
<1>12. CASE \E d \in Node : AcceptJoin(n, d)
  BY <1>1, <1>12, FramesAreMessages DEF AcceptJoin, TypeOK
<1>13. CASE Restart(n)
  <2>1. Taking(n, epoch[n], "persisted") \in Takeover
    BY <1>1 DEF Taking, Takeover
  <2>2. takeovers' \in [Node -> SUBSET Takeover]
    BY <1>13, <2>1 DEF Restart, TypeOK
  <2>3. /\ UNCHANGED <<epoch, cast, elected, crumbs, handed>>
        /\ msgs' \subseteq msgs
    BY <1>13 DEF Restart
  <2>4. /\ estate' \in [Node -> {"Idle", "Candidate", "Leader", "Follower"}]
        /\ leader' \in [Node -> Node \cup {None}]
        /\ promoting' \in [Node -> SUBSET Epoch]
        /\ role' \in [Node -> {"Unknown", "Primary", "Replica"}]
        /\ callbacks' \in [Node -> SUBSET {"promote", "demote"}]
        /\ boot' \in [Node -> {"start", "assert", "done"}]
        /\ failover' \in [Node -> {"idle", "drain", "await", "acked"}]
    BY <1>13 DEF Restart, TypeOK
  <2>5. candidateEpoch' \in [Node -> Epoch]
    BY <1>13, ElectionAssumption DEF Restart, TypeOK, Epoch
  <2>6. /\ votes' \in [Node -> [Epoch -> SUBSET Node]]
        /\ votedFor' \in [Node -> [Epoch -> Node \cup {None}]]
    BY <1>13 DEF Restart, TypeOK
  <2>7. QED
    BY <2>2, <2>3, <2>4, <2>5, <2>6 DEF TypeOK
<1>14. CASE HandoffStep(n)
  BY <1>14, HandoffTypeOK
<1>15. QED
  BY <1>2, <1>3, <1>4, <1>5, <1>6, <1>7, <1>8, <1>9, <1>10, <1>11, <1>12, <1>13, <1>14
     DEF StepOf, RunStep

\* Every variable keeps its type through elections, claims, joins, start-ups and
\* crashes.
THEOREM TypeCorrect == CrashSpec => []TypeOK
<1>1. TypeOK /\ [CrashNext]_vars => TypeOK'
  <2> SUFFICES ASSUME TypeOK, [CrashNext]_vars PROVE TypeOK'
    OBVIOUS
  <2>1. CASE CrashNext
    BY <2>1, StepCases, StepTypeOK
  <2>2. CASE UNCHANGED vars
    BY <2>2 DEF TypeOK, vars
  <2>3. QED
    BY <2>1, <2>2
<1>2. QED
  BY <1>1, InitTypeOK, PTL DEF CrashSpec

-----------------------------------------------------------------------------
(* What holds across crashes *)

LEMMA EpochsAreNaturals ==
    TypeOK => /\ Epoch \subseteq Nat
              /\ \A n \in Node : epoch[n] \in Nat /\ candidateEpoch[n] \in Nat
BY ElectionAssumption DEF TypeOK, Epoch

LEMMA EpochsStayNaturals == TypeOK' => \A n \in Node : epoch'[n] \in Nat
BY ElectionAssumption DEF TypeOK, Epoch

Supporters(n, e) == {v \in Voter : <<v, e, n>> \in cast}
HasQuorum(n, e)  == Cardinality(Supporters(n, e)) >= Quorum

\* A vote is persisted as an epoch before it is cast, and everything counted,
\* in flight or won rests on votes that were cast.
CastIsKnown  == \A x \in cast : x[1] \in Voter /\ epoch[x[1]] >= x[2]
GrantsWereCast ==
    \A m \in msgs : m.type = "VoteGranted" => <<m.src, m.epoch, m.dst>> \in cast
VotedForWasCast ==
    \A v \in Node, e \in Epoch : votedFor[v][e] # None => <<v, e, votedFor[v][e]>> \in cast
PromotingHasQuorum == \A n \in Node : \A e \in promoting[n] : HasQuorum(n, e)
ElectedHasQuorum   == \A x \in elected : HasQuorum(x[1], x[2])

DurableInv ==
    /\ CastIsKnown
    /\ GrantsWereCast
    /\ VotedForWasCast
    /\ CountedVotesWereCast
    /\ PromotingHasQuorum
    /\ ElectedHasQuorum

\* A finite set of voters that contains a set of supporters of quorum size has
\* quorum size.
LEMMA MoreVotersKeepQuorum ==
    ASSUME NEW S, NEW T, S \subseteq T, T \subseteq Voter
    PROVE  /\ IsFiniteSet(T) /\ IsFiniteSet(S)
           /\ Cardinality(S) \in Nat /\ Cardinality(T) \in Nat
           /\ Cardinality(S) <= Cardinality(T)
           /\ Cardinality(S) >= Quorum => Cardinality(T) >= Quorum
<1>1. IsFiniteSet(Voter)
  BY ElectionAssumption, FS_Difference DEF Voter
<1>2. IsFiniteSet(T) /\ IsFiniteSet(S)
  BY <1>1, FS_Subset
<1>3. Cardinality(S) \in Nat /\ Cardinality(T) \in Nat /\ Cardinality(Voter) \in Nat
  BY <1>1, <1>2, FS_CardinalityType
<1>4. Cardinality(S) <= Cardinality(T)
  BY <1>2, FS_Subset
<1>5. Quorum \in Nat
  BY <1>3 DEF Quorum
<1>6. QED
  BY <1>2, <1>3, <1>4, <1>5

\* Votes are never uncast, so a quorum of supporters stays one.
LEMMA QuorumStays ==
    ASSUME cast \subseteq cast', NEW n, NEW e, HasQuorum(n, e)
    PROVE  HasQuorum(n, e)'
<1>1. Supporters(n, e) \subseteq Supporters(n, e)' /\ Supporters(n, e)' \subseteq Voter
  BY DEF Supporters
<1>2. QED
  BY <1>1, MoreVotersKeepQuorum DEF HasQuorum

\* Counting a vote that was cast leaves DurableInv's promotions justified.
LEMMA CountVoteKeepsQuorums ==
    ASSUME TypeOK, PromotingHasQuorum, CountedVotesWereCast, cast \subseteq cast',
           NEW n \in Node, NEW v \in Voter, NEW e \in Epoch,
           <<v, e, n>> \in cast', CountVote(n, v, e)
    PROVE  PromotingHasQuorum' /\ CountedVotesWereCast'
<1>1. CountedVotesWereCast'
  BY DEF CountedVotesWereCast, CountVote, TypeOK
<1>2. ASSUME ReachesQuorum(votes[n][e] \cup {v}) PROVE HasQuorum(n, e)'
  <2>1. votes[n][e] \cup {v} \subseteq Supporters(n, e)'
    BY DEF CountedVotesWereCast, Supporters, TypeOK
  <2>2. Supporters(n, e)' \subseteq Voter
    BY DEF Supporters
  <2>3. QED
    BY <1>2, <2>1, <2>2, MoreVotersKeepQuorum DEF ReachesQuorum, HasQuorum
<1>3. ASSUME NEW c \in Node, NEW x \in promoting'[c] PROVE HasQuorum(c, x)'
  <2>1. CASE x \in promoting[c]
    BY <2>1, QuorumStays DEF PromotingHasQuorum
  <2>2. CASE x \notin promoting[c]
    <3>1. c = n /\ x = e /\ ReachesQuorum(votes[n][e] \cup {v})
      BY <1>3, <2>2 DEF CountVote, TypeOK
    <3>2. QED
      BY <3>1, <1>2
  <2>3. QED
    BY <2>1, <2>2
<1>4. QED
  BY <1>1, <1>3 DEF PromotingHasQuorum

\* Sending frames that are not grants disturbs no grant in flight.
LEMMA BroadcastGrantsNothing ==
    ASSUME NEW t \in {"VoteRequest", "CortexClaim", "JoinResponse"}, NEW n, NEW e
    PROVE  /\ \A m \in Broadcast(t, n, e) : m.type # "VoteGranted"
           /\ \A d : Msg(t, n, d, e).type # "VoteGranted"
BY DEF Broadcast, Msg

\* Steps that cast no vote, start no tally and win nothing: the epochs may move
\* up, tallies and pending promotions may be dropped, other frames may be sent.
Unobtrusive ==
    /\ \A v \in Node : epoch'[v] >= epoch[v]
    /\ \A c \in Node : /\ promoting'[c] \subseteq promoting[c]
                       /\ \A e \in Epoch : /\ votes'[c][e] \subseteq votes[c][e]
                                           /\ votedFor'[c][e] \in {votedFor[c][e], None}
    /\ \A m \in msgs' : m.type = "VoteGranted" => m \in msgs
    /\ cast' = cast /\ elected' = elected

LEMMA UnobtrusiveKeeps ==
    ASSUME TypeOK, TypeOK', DurableInv, Unobtrusive
    PROVE  DurableInv'
<1>1. CastIsKnown'
  <2> SUFFICES ASSUME NEW x \in cast PROVE x[1] \in Voter /\ epoch'[x[1]] >= x[2]
    BY DEF Unobtrusive, CastIsKnown
  <2>1. x[1] \in Node /\ x[2] \in Epoch /\ x[1] \in Voter /\ epoch[x[1]] >= x[2]
    BY DEF TypeOK, DurableInv, CastIsKnown
  <2>2. epoch'[x[1]] \in Nat /\ epoch[x[1]] \in Nat /\ x[2] \in Nat
    BY <2>1, EpochsAreNaturals, EpochsStayNaturals
  <2>3. QED
    BY <2>1, <2>2 DEF Unobtrusive
<1>2. GrantsWereCast'
  BY DEF DurableInv, GrantsWereCast, Unobtrusive
<1>3. CountedVotesWereCast'
  BY DEF DurableInv, CountedVotesWereCast, Unobtrusive
<1>4. \A n, e : HasQuorum(n, e) => HasQuorum(n, e)'
  BY QuorumStays DEF Unobtrusive
<1>5. PromotingHasQuorum' /\ ElectedHasQuorum'
  BY <1>4 DEF DurableInv, PromotingHasQuorum, ElectedHasQuorum, Unobtrusive
<1>6. VotedForWasCast'
  BY DEF DurableInv, VotedForWasCast, Unobtrusive
<1>7. QED
  BY <1>1, <1>2, <1>3, <1>5, <1>6 DEF DurableInv

LEMMA ElectKeepsDurable ==
    ASSUME TypeOK, TypeOK', DurableInv, NEW n \in Node, Elect(n)
    PROVE  DurableInv'
<1> DEFINE x == epoch[n] + 1
<1>1. /\ x \in Epoch /\ x \in Nat /\ epoch[n] \in Nat /\ n \in Voter
      /\ epoch' = [epoch EXCEPT ![n] = x]
      /\ CountVote(n, n, x)
      /\ msgs' = msgs \cup Broadcast("VoteRequest", n, x)
      /\ cast' = cast \cup {<<n, x, n>>}
      /\ elected' = elected
      /\ votedFor' = [votedFor EXCEPT ![n][x] = n]
  BY ElectionAssumption DEF Elect, TypeOK, Epoch, Voter
<1>2. CastIsKnown'
  <2> SUFFICES ASSUME NEW y \in cast' PROVE y[1] \in Voter /\ epoch'[y[1]] >= y[2]
    BY DEF CastIsKnown
  <2>1. CASE y = <<n, x, n>>
    BY <1>1, <2>1 DEF TypeOK
  <2>2. CASE y \in cast
    <3>1. y[1] \in Node /\ y[2] \in Nat /\ y[1] \in Voter /\ epoch[y[1]] >= y[2]
      BY <2>2, ElectionAssumption DEF TypeOK, Epoch, DurableInv, CastIsKnown
    <3>2. CASE y[1] = n
      BY <1>1, <3>1, <3>2 DEF TypeOK
    <3>3. CASE y[1] # n
      BY <1>1, <3>1, <3>3 DEF TypeOK
    <3>4. QED
      BY <3>2, <3>3
  <2>3. QED
    BY <1>1, <2>1, <2>2
<1>3. GrantsWereCast'
  BY <1>1, BroadcastGrantsNothing DEF DurableInv, GrantsWereCast
<1>4. PromotingHasQuorum' /\ CountedVotesWereCast'
  BY <1>1, CountVoteKeepsQuorums DEF DurableInv
<1>5. ElectedHasQuorum'
  BY <1>1, QuorumStays DEF DurableInv, ElectedHasQuorum
<1>6. VotedForWasCast'
  BY <1>1 DEF DurableInv, VotedForWasCast, TypeOK
<1>7. QED
  BY <1>2, <1>3, <1>4, <1>5, <1>6 DEF DurableInv

\* Advance moves no epoch backwards.
LEMMA AdvanceMovesForward ==
    ASSUME TypeOK, NEW n \in Node, NEW e \in Epoch, Advance(n, e)
    PROVE  /\ \A v \in Node : epoch'[v] >= epoch[v]
           /\ epoch'[n] >= e
BY EpochsAreNaturals DEF Advance, TypeOK

LEMMA CleanupOnlyForgets ==
    ASSUME TypeOK, NEW n \in Node, NEW x \in Epoch, Cleanup(n, x)
    PROVE  \A c \in Node, e \in Epoch : /\ votes'[c][e] \subseteq votes[c][e]
                                       /\ votedFor'[c][e] \in {votedFor[c][e], None}
BY DEF Cleanup, CleanedVotes, CleanedVotedFor, TypeOK

\* The handoff casts, counts and promises no vote, and starts no campaign.
Apart ==
    /\ \A v \in Node : epoch'[v] >= epoch[v]
    /\ \A m \in msgs' : m.type = "VoteGranted" => m \in msgs
    /\ UNCHANGED <<candidateEpoch, votes, votedFor, promoting, cast, elected>>

LEMMA HandoffIsApart ==
    ASSUME TypeOK, NEW n \in Node, HandoffStep(n)
    PROVE  Apart /\ epoch' = epoch
<1>1. \A v \in Node : epoch[v] >= epoch[v]
  BY EpochsAreNaturals
<1>2. CASE Drain(n) \/ GiveUp(n) \/ Retire(n)
  BY <1>1, <1>2 DEF Drain, GiveUp, Retire, Apart
<1>3. CASE \E t \in Node : SendHandoff(n, t)
  BY <1>1, <1>3 DEF SendHandoff, Msg, Apart
<1>4. CASE \E h \in takeovers[n] : TakeOver(n, h)
  <2> PICK h \in takeovers[n] : TakeOver(n, h)
    BY <1>4
  <2>1. CASE PersistRole(n, h) \/ FinishTakeover(n, h)
    BY <1>1, <2>1 DEF PersistRole, FinishTakeover, Broadcast, Msg, Apart
  <2>2. CASE AbortHandoff(n, h) \/ TakeLead(n, h) \/ PromoteTaker(n, h)
    BY <1>1, <2>2 DEF AbortHandoff, TakeLead, PromoteTaker, Apart
  <2>3. QED
    BY <2>1, <2>2 DEF TakeOver
<1>5. QED
  BY <1>2, <1>3, <1>4 DEF HandoffStep

LEMMA HandoffFramesAreApart ==
    ASSUME TypeOK, NEW n \in Node, NEW m \in msgs, HandleHandoff(n, m) \/ HandleHandoffAck(n, m)
    PROVE  Apart
<1>1. CASE HandleHandoff(n, m)
  <2>1. m.epoch + 1 \in Epoch
    BY <1>1, ElectionAssumption DEF HandleHandoff, TypeOK, Message, Epoch
  <2>2. QED
    BY <1>1, <2>1, AdvanceMovesForward DEF HandleHandoff, Apart
<1>2. CASE HandleHandoffAck(n, m)
  <2>1. \A v \in Node : epoch[v] >= epoch[v]
    BY EpochsAreNaturals
  <2>2. QED
    BY <1>2, <2>1 DEF HandleHandoffAck, Apart
<1>3. QED
  BY <1>1, <1>2

LEMMA GrantVoteKeepsDurable ==
    ASSUME TypeOK, TypeOK', DurableInv, NEW n \in Node, NEW m \in msgs, GrantVote(n, m)
    PROVE  DurableInv'
<1>1. /\ m.src \in Node /\ m.epoch \in Epoch /\ n \in Voter
      /\ Advance(n, m.epoch)
      /\ votedFor' = [votedFor EXCEPT ![n][m.epoch] = m.src]
      /\ msgs' = (msgs \ {m}) \cup {Msg("VoteGranted", n, m.src, m.epoch)}
      /\ cast' = cast \cup {<<n, m.epoch, m.src>>}
      /\ UNCHANGED <<votes, promoting, elected>>
  BY DEF GrantVote, TypeOK, Message, Voter
<1>2. CastIsKnown'
  <2> SUFFICES ASSUME NEW y \in cast' PROVE y[1] \in Voter /\ epoch'[y[1]] >= y[2]
    BY DEF CastIsKnown
  <2>1. CASE y = <<n, m.epoch, m.src>>
    BY <1>1, <2>1, AdvanceMovesForward
  <2>2. CASE y \in cast
    <3>1. y[1] \in Node /\ y[2] \in Nat /\ y[1] \in Voter /\ epoch[y[1]] >= y[2]
      BY <2>2, EpochsAreNaturals DEF TypeOK, DurableInv, CastIsKnown
    <3>2. epoch'[y[1]] >= epoch[y[1]]
      BY <1>1, <3>1, AdvanceMovesForward
    <3>3. epoch'[y[1]] \in Nat /\ epoch[y[1]] \in Nat
      BY <3>1, EpochsAreNaturals, EpochsStayNaturals
    <3>4. QED
      BY <3>1, <3>2, <3>3
  <2>3. QED
    BY <1>1, <2>1, <2>2
<1>3. GrantsWereCast'
  BY <1>1 DEF DurableInv, GrantsWereCast, Msg
<1>4. VotedForWasCast'
  BY <1>1 DEF DurableInv, VotedForWasCast, TypeOK
<1>5. \A c, e : HasQuorum(c, e) => HasQuorum(c, e)'
  BY <1>1, QuorumStays
<1>6. PromotingHasQuorum' /\ ElectedHasQuorum'
  BY <1>1, <1>5 DEF DurableInv, PromotingHasQuorum, ElectedHasQuorum
<1>7. CountedVotesWereCast'
  BY <1>1 DEF DurableInv, CountedVotesWereCast
<1>8. QED
  BY <1>2, <1>3, <1>4, <1>6, <1>7 DEF DurableInv

LEMMA DeliverKeepsDurable ==
    ASSUME TypeOK, TypeOK', DurableInv, NEW n \in Node, NEW m \in msgs, Deliver(n, m)
    PROVE  DurableInv'
<1>1. m.src \in Node /\ m.dst \in Node /\ m.epoch \in Epoch
  BY DEF TypeOK, Message
<1>2. \A v \in Node : epoch[v] >= epoch[v]
  BY EpochsAreNaturals
<1>3. CASE RejectVoteRequest(n, m) \/ IgnoreClaim(n, m)
  <2>1. Unobtrusive
    BY <1>2, <1>3 DEF RejectVoteRequest, IgnoreClaim, Unobtrusive
  <2>2. QED
    BY <2>1, UnobtrusiveKeeps
<1>4. CASE RepeatVote(n, m)
  <2>1. CASE votedFor[n][m.epoch] = m.src
    <3>1. <<n, m.epoch, m.src>> \in cast
      BY <1>1, <1>4, <2>1 DEF RepeatVote, DurableInv, VotedForWasCast
    <3>2. GrantsWereCast'
      BY <1>4, <3>1 DEF RepeatVote, DurableInv, GrantsWereCast, Msg
    <3>3. CastIsKnown'
      <4> SUFFICES ASSUME NEW x \in cast PROVE x[1] \in Voter /\ epoch'[x[1]] >= x[2]
        BY <1>4 DEF CastIsKnown, RepeatVote
      <4>1. x[1] \in Node /\ x[2] \in Nat /\ x[1] \in Voter /\ epoch[x[1]] >= x[2]
        BY EpochsAreNaturals DEF TypeOK, DurableInv, CastIsKnown
      <4>2. epoch'[x[1]] >= epoch[x[1]]
        BY <1>1, <1>4, <4>1, AdvanceMovesForward DEF RepeatVote
      <4>3. epoch'[x[1]] \in Nat /\ epoch[x[1]] \in Nat
        BY <4>1, EpochsAreNaturals, EpochsStayNaturals
      <4>4. QED
        BY <4>1, <4>2, <4>3
    <3>4. \A c, e : HasQuorum(c, e) => HasQuorum(c, e)'
      BY <1>4, QuorumStays DEF RepeatVote
    <3>5. VotedForWasCast' /\ CountedVotesWereCast' /\ PromotingHasQuorum' /\ ElectedHasQuorum'
      BY <1>4, <3>4 DEF RepeatVote, DurableInv, VotedForWasCast, CountedVotesWereCast,
                        PromotingHasQuorum, ElectedHasQuorum
    <3>6. QED
      BY <3>2, <3>3, <3>5 DEF DurableInv
  <2>2. CASE votedFor[n][m.epoch] # m.src
    <3>1. Unobtrusive
      BY <1>1, <1>4, <2>2, AdvanceMovesForward DEF RepeatVote, Unobtrusive
    <3>2. QED
      BY <3>1, UnobtrusiveKeeps
  <2>3. QED
    BY <2>1, <2>2
<1>5. CASE GrantVote(n, m)
  BY <1>5, GrantVoteKeepsDurable
<1>6. CASE HandleVoteResponse(n, m) /\ Counts(n, m)
  <2>1. /\ CountVote(n, m.src, m.epoch) /\ m.src \in Voter
        /\ <<m.src, m.epoch, n>> \in cast
        /\ msgs' \subseteq msgs
        /\ UNCHANGED <<epoch, votedFor, cast, elected>>
    BY <1>6 DEF HandleVoteResponse, Counts, DurableInv, GrantsWereCast
  <2>2. PromotingHasQuorum' /\ CountedVotesWereCast'
    BY <1>1, <2>1, CountVoteKeepsQuorums DEF DurableInv
  <2>3. ElectedHasQuorum'
    BY <2>1, QuorumStays DEF DurableInv, ElectedHasQuorum
  <2>4. CastIsKnown' /\ GrantsWereCast' /\ VotedForWasCast'
    BY <2>1 DEF DurableInv, CastIsKnown, GrantsWereCast, VotedForWasCast
  <2>5. QED
    BY <2>2, <2>3, <2>4 DEF DurableInv
<1>7. CASE HandleVoteResponse(n, m) /\ ~Counts(n, m)
  <2>1. Unobtrusive
    BY <1>2, <1>7 DEF HandleVoteResponse, Unobtrusive
  <2>2. QED
    BY <2>1, UnobtrusiveKeeps
<1>8. CASE ReassertClaim(n, m)
  <2>1. Unobtrusive
    BY <1>2, <1>8, BroadcastGrantsNothing DEF ReassertClaim, Unobtrusive
  <2>2. QED
    BY <2>1, UnobtrusiveKeeps
<1>9. CASE FollowClaim(n, m)
  <2>1. Unobtrusive
    BY <1>1, <1>9, AdvanceMovesForward, CleanupOnlyForgets DEF FollowClaim, Unobtrusive
  <2>2. QED
    BY <2>1, UnobtrusiveKeeps
<1>10. CASE JoinConn(n, m)
  <2>1. Unobtrusive
    BY <1>1, <1>10, AdvanceMovesForward, BroadcastGrantsNothing DEF JoinConn, Unobtrusive
  <2>2. QED
    BY <2>1, UnobtrusiveKeeps
<1>11. CASE HandleHandoff(n, m) \/ HandleHandoffAck(n, m)
  <2>1. Unobtrusive
    BY <1>11, HandoffFramesAreApart DEF Apart, Unobtrusive
  <2>2. QED
    BY <2>1, UnobtrusiveKeeps
<1>12. QED
  BY <1>3, <1>4, <1>5, <1>6, <1>7, <1>8, <1>9, <1>10, <1>11 DEF Deliver

LEMMA TryPromoteKeepsDurable ==
    ASSUME TypeOK, TypeOK', DurableInv, NEW n \in Node, NEW e \in Epoch, TryPromote(n, e)
    PROVE  DurableInv'
<1>1. \A v \in Node : epoch[v] >= epoch[v]
  BY EpochsAreNaturals
<1>2. CASE Promote(n, e)
  <2>1. /\ e \in promoting[n]
        /\ promoting' = [promoting EXCEPT ![n] = @ \ {e}]
        /\ Cleanup(n, e)
        /\ msgs' = msgs \cup Broadcast("CortexClaim", n, e)
        /\ elected' = elected \cup {<<n, e>>}
        /\ UNCHANGED <<epoch, cast>>
    BY <1>2 DEF Promote
  <2>2. \A c, x : HasQuorum(c, x) => HasQuorum(c, x)'
    BY <2>1, QuorumStays
  <2>3. HasQuorum(n, e)
    BY <2>1 DEF DurableInv, PromotingHasQuorum
  <2>4. ElectedHasQuorum'
    BY <2>1, <2>2, <2>3 DEF DurableInv, ElectedHasQuorum
  <2>5. PromotingHasQuorum'
    BY <2>1, <2>2 DEF DurableInv, PromotingHasQuorum, TypeOK
  <2>6. GrantsWereCast'
    BY <2>1, BroadcastGrantsNothing DEF DurableInv, GrantsWereCast
  <2>7. VotedForWasCast' /\ CountedVotesWereCast'
    BY <2>1, CleanupOnlyForgets DEF DurableInv, VotedForWasCast, CountedVotesWereCast
  <2>8. CastIsKnown'
    BY <2>1 DEF DurableInv, CastIsKnown
  <2>9. QED
    BY <2>4, <2>5, <2>6, <2>7, <2>8 DEF DurableInv
<1>3. CASE LoseRace(n, e)
  <2>1. Unobtrusive
    BY <1>1, <1>3 DEF LoseRace, Unobtrusive, TypeOK
  <2>2. QED
    BY <2>1, UnobtrusiveKeeps
<1>4. CASE AbandonPromotion(n, e)
  <2>1. Unobtrusive
    BY <1>1, <1>4 DEF AbandonPromotion, Unobtrusive, TypeOK
  <2>2. QED
    BY <2>1, UnobtrusiveKeeps
<1>5. QED
  BY <1>2, <1>3, <1>4 DEF TryPromote

LEMMA StepKeepsDurable ==
    ASSUME TypeOK, TypeOK', DurableInv, NEW n \in Node, StepOf(n)
    PROVE  DurableInv'
<1>1. \A v \in Node : epoch[v] >= epoch[v]
  BY EpochsAreNaturals
<1>2. CASE StartElection(n) \/ BootElect(n)
  BY <1>2, ElectKeepsDurable DEF StartElection, BootElect
<1>3. CASE \E m \in msgs : Deliver(n, m)
  BY <1>3, DeliverKeepsDurable
<1>4. CASE \E e \in Epoch : TryPromote(n, e)
  BY <1>4, TryPromoteKeepsDurable
<1>5. ASSUME \/ ResetCandidate(n) \/ StepDown(n)
             \/ \E d \in Node : ClearLeader(n, d)
             \/ RunPromotion(n) \/ RunDemotion(n)
      PROVE  Unobtrusive
  BY <1>1, <1>5 DEF ResetCandidate, StepDown, ClearLeader, RunPromotion, RunDemotion, Unobtrusive
<1>6. ASSUME \/ BootAssert(n)
             \/ \E l \in Node : BootDefer(n, l)
             \/ \E d \in Node : HelloClaim(n, d)
             \/ \E d \in Node : AcceptJoin(n, d)
      PROVE  Unobtrusive
  BY <1>1, <1>6, BroadcastGrantsNothing
     DEF BootAssert, BootDefer, HelloClaim, AcceptJoin, Unobtrusive
<1>7. ASSUME Restart(n) PROVE Unobtrusive
  BY <1>1, <1>7 DEF Restart, Unobtrusive, TypeOK
<1>8. ASSUME HandoffStep(n) PROVE Unobtrusive
  BY <1>8, HandoffIsApart DEF Apart, Unobtrusive
<1>9. QED
  BY <1>2, <1>3, <1>4, <1>5, <1>6, <1>7, <1>8, UnobtrusiveKeeps DEF StepOf, RunStep

LEMMA InitDurable == Init => DurableInv
BY DEF Init, DurableInv, CastIsKnown, GrantsWereCast, VotedForWasCast,
       CountedVotesWereCast, PromotingHasQuorum, ElectedHasQuorum

LEMMA DurableInvariant == CrashSpec => []DurableInv
<1>1. TypeOK /\ TypeOK' /\ DurableInv /\ [CrashNext]_vars => DurableInv'
  <2> SUFFICES ASSUME TypeOK, TypeOK', DurableInv, [CrashNext]_vars PROVE DurableInv'
    OBVIOUS
  <2>1. CASE CrashNext
    BY <2>1, StepCases, StepKeepsDurable
  <2>2. CASE UNCHANGED vars
    BY <2>2 DEF vars, DurableInv, CastIsKnown, GrantsWereCast, VotedForWasCast,
                CountedVotesWereCast, PromotingHasQuorum, ElectedHasQuorum,
                HasQuorum, Supporters
  <2>3. QED
    BY <2>1, <2>2
<1>2. QED
  BY <1>1, InitDurable, TypeCorrect, PTL DEF CrashSpec

\* Every epoch that was won is durably known to a majority of the voters, through
\* any sequence of crashes: each vote counted was persisted as an epoch first.
THEOREM QuorumRemembersTheorem == CrashSpec => []QuorumRemembers
<1>1. TypeOK /\ DurableInv => QuorumRemembers
  <2> SUFFICES ASSUME TypeOK, DurableInv, NEW x \in elected
               PROVE  Cardinality({v \in Voter : epoch[v] >= x[2]}) >= Quorum
    BY DEF QuorumRemembers
  <2>1. Supporters(x[1], x[2]) \subseteq {v \in Voter : epoch[v] >= x[2]}
    BY DEF Supporters, DurableInv, CastIsKnown
  <2>2. HasQuorum(x[1], x[2])
    BY DEF DurableInv, ElectedHasQuorum
  <2>3. QED
    BY <2>1, <2>2, MoreVotersKeepQuorum DEF HasQuorum
<1>2. QED
  BY <1>1, TypeCorrect, DurableInvariant, PTL

\* Only a campaign gives a node a candidate epoch other than the reset 0.
LEMMA CandidateEpochIsFresh ==
    ASSUME TypeOK, DurableInv, NEW n \in Node, StepOf(n), NEW v \in Node,
           candidateEpoch'[v] \notin {candidateEpoch[v], 0}
    PROVE  \A c \in Node : <<v, candidateEpoch'[v], c>> \notin cast
<1>1. CASE StartElection(n) \/ BootElect(n)
  <2>1. v = n /\ candidateEpoch'[v] = epoch[v] + 1
    BY <1>1 DEF StartElection, BootElect, Elect, TypeOK
  <2>2. epoch[v] \in Nat
    BY EpochsAreNaturals
  <2>3. ASSUME NEW c \in Node, <<v, candidateEpoch'[v], c>> \in cast PROVE FALSE
    <3>1. epoch[v] >= epoch[v] + 1
      BY <2>1, <2>3 DEF DurableInv, CastIsKnown
    <3>2. QED
      BY <2>2, <3>1
  <2>4. QED
    BY <2>3
<1>2. CASE Restart(n)
  BY <1>2 DEF Restart, TypeOK
<1>3. CASE \E m \in msgs : Deliver(n, m)
  BY <1>3, HandoffFramesAreApart DEF Apart, Deliver, RejectVoteRequest, RepeatVote, GrantVote, HandleVoteResponse,
              IgnoreClaim, ReassertClaim, FollowClaim, JoinConn
<1>4. CASE \E e \in Epoch : TryPromote(n, e)
  BY <1>4 DEF TryPromote, Promote, LoseRace, AbandonPromotion
<1>5. CASE \/ ResetCandidate(n) \/ StepDown(n)
           \/ \E d \in Node : ClearLeader(n, d)
           \/ RunPromotion(n) \/ RunDemotion(n)
  BY <1>5 DEF ResetCandidate, StepDown, ClearLeader, RunPromotion, RunDemotion
<1>6. CASE \/ BootAssert(n)
           \/ \E l \in Node : BootDefer(n, l)
           \/ \E d \in Node : HelloClaim(n, d)
           \/ \E d \in Node : AcceptJoin(n, d)
  BY <1>6 DEF BootAssert, BootDefer, HelloClaim, AcceptJoin
<1>7. CASE HandoffStep(n)
  BY <1>7, HandoffIsApart DEF Apart
<1>8. QED
  BY <1>1, <1>2, <1>3, <1>4, <1>5, <1>6, <1>7 DEF StepOf, RunStep

\* A node never campaigns in an epoch it has already voted in, even when it lost
\* every memory of that vote: the vote left its epoch on disk.
THEOREM NeverReproposesTheorem == CrashSpec => NeverReproposes
<1>1. TypeOK /\ DurableInv /\ [CrashNext]_vars =>
        [\A n \in Node : candidateEpoch'[n] \notin {candidateEpoch[n], 0} =>
            \A c \in Node : <<n, candidateEpoch'[n], c>> \notin cast]_vars
  BY StepCases, CandidateEpochIsFresh
<1>2. QED
  BY <1>1, TypeCorrect, DurableInvariant, PTL DEF CrashSpec, NeverReproposes

-----------------------------------------------------------------------------
(* What holds while no node crashes: votedFor is lost in a restart *)

\* A vote that was cast is remembered in votedFor, or its epoch is past.
CastIsRemembered ==
    \A v, c \in Node, e \in Epoch :
        <<v, e, c>> \in cast => votedFor[v][e] = c \/ epoch[v] > e

VoteInv == VoteOnce /\ CastIsRemembered

\* A step that casts no vote and forgets only the votes of past epochs.
Forgetful ==
    /\ cast' = cast
    /\ \A v \in Node : /\ epoch'[v] >= epoch[v]
                       /\ \A e \in Epoch : votedFor'[v][e] = votedFor[v][e] \/ epoch'[v] > e

LEMMA ForgetfulKeeps ==
    ASSUME TypeOK, TypeOK', VoteInv, Forgetful
    PROVE  VoteInv'
<1>1. ASSUME NEW v \in Node, NEW c \in Node, NEW e \in Epoch, <<v, e, c>> \in cast'
      PROVE  votedFor'[v][e] = c \/ epoch'[v] > e
  <2>1. epoch'[v] \in Nat /\ epoch[v] \in Nat /\ e \in Nat
    BY EpochsAreNaturals, EpochsStayNaturals
  <2>2. votedFor[v][e] = c \/ epoch[v] > e
    BY <1>1 DEF VoteInv, CastIsRemembered, Forgetful
  <2>3. QED
    BY <2>1, <2>2 DEF Forgetful
<1>2. QED
  BY <1>1 DEF VoteInv, VoteOnce, CastIsRemembered, Forgetful

\* The clean-up below an epoch that the node has reached is Forgetful.
LEMMA CleanupForgetsThePast ==
    ASSUME TypeOK, TypeOK', NEW n \in Node, NEW x \in Epoch, Cleanup(n, x), epoch'[n] >= x
    PROVE  \A v \in Node : \A e \in Epoch :
               votedFor'[v][e] = votedFor[v][e] \/ epoch'[v] > e
<1> SUFFICES ASSUME NEW v \in Node, NEW e \in Epoch
             PROVE  votedFor'[v][e] = votedFor[v][e] \/ epoch'[v] > e
  OBVIOUS
<1>1. epoch'[n] \in Nat /\ e \in Nat /\ x \in Nat
  BY EpochsAreNaturals, EpochsStayNaturals
<1>2. CASE v = n /\ e < x
  BY <1>1, <1>2
<1>3. CASE v = n /\ ~(e < x)
  BY <1>3 DEF Cleanup, CleanedVotedFor, TypeOK
<1>4. CASE v # n
  BY <1>4 DEF Cleanup, TypeOK
<1>5. QED
  BY <1>2, <1>3, <1>4

\* A vote cast where none was cast before, and recorded in votedFor.
LEMMA FreshVoteKeeps ==
    ASSUME TypeOK, TypeOK', VoteInv, NEW n \in Node, NEW c \in Node, NEW x \in Epoch,
           cast' = cast \cup {<<n, x, c>>},
           votedFor' = [votedFor EXCEPT ![n][x] = c],
           \A v \in Node : epoch'[v] >= epoch[v],
           \A d \in Node : <<n, x, d>> \notin cast
    PROVE  VoteInv'
<1>1. VoteOnce'
  BY DEF VoteInv, VoteOnce
<1>2. ASSUME NEW v \in Node, NEW d \in Node, NEW e \in Epoch, <<v, e, d>> \in cast'
      PROVE  votedFor'[v][e] = d \/ epoch'[v] > e
  <2>1. CASE <<v, e, d>> = <<n, x, c>>
    BY <2>1 DEF TypeOK
  <2>2. CASE <<v, e, d>> \in cast
    <3>1. votedFor'[v][e] = votedFor[v][e]
      BY <2>2 DEF TypeOK
    <3>2. votedFor[v][e] = d \/ epoch[v] > e
      BY <2>2 DEF VoteInv, CastIsRemembered
    <3>3. epoch'[v] \in Nat /\ epoch[v] \in Nat /\ e \in Nat
      BY EpochsAreNaturals, EpochsStayNaturals
    <3>4. QED
      BY <3>1, <3>2, <3>3
  <2>3. QED
    BY <1>2, <2>1, <2>2
<1>3. QED
  BY <1>1, <1>2 DEF VoteInv, CastIsRemembered

LEMMA ElectKeepsVotes ==
    ASSUME TypeOK, TypeOK', DurableInv, VoteInv, NEW n \in Node, Elect(n)
    PROVE  VoteInv'
<1> DEFINE x == epoch[n] + 1
<1>1. /\ x \in Epoch /\ epoch[n] \in Nat
      /\ epoch' = [epoch EXCEPT ![n] = x]
      /\ votedFor' = [votedFor EXCEPT ![n][x] = n]
      /\ cast' = cast \cup {<<n, x, n>>}
  BY ElectionAssumption DEF Elect, TypeOK, Epoch
<1>2. \A v \in Node : epoch'[v] >= epoch[v]
  BY <1>1, EpochsAreNaturals DEF TypeOK
<1>3. ASSUME NEW d \in Node, <<n, x, d>> \in cast PROVE FALSE
  <2>1. epoch[n] >= epoch[n] + 1
    BY <1>3 DEF DurableInv, CastIsKnown
  <2>2. QED
    BY <1>1, <2>1
<1>4. QED
  BY <1>1, <1>2, <1>3, FreshVoteKeeps

LEMMA GrantKeepsVotes ==
    ASSUME TypeOK, TypeOK', VoteInv, NEW n \in Node, NEW m \in msgs, GrantVote(n, m)
    PROVE  VoteInv'
<1>1. /\ m.src \in Node /\ m.epoch \in Epoch
      /\ m.epoch >= epoch[n] /\ votedFor[n][m.epoch] = None
      /\ Advance(n, m.epoch)
      /\ votedFor' = [votedFor EXCEPT ![n][m.epoch] = m.src]
      /\ cast' = cast \cup {<<n, m.epoch, m.src>>}
  BY DEF GrantVote, TypeOK, Message
<1>2. \A v \in Node : epoch'[v] >= epoch[v]
  BY <1>1, AdvanceMovesForward
<1>3. ASSUME NEW d \in Node, <<n, m.epoch, d>> \in cast PROVE FALSE
  <2>1. votedFor[n][m.epoch] = d \/ epoch[n] > m.epoch
    BY <1>1, <1>3 DEF VoteInv, CastIsRemembered
  <2>2. epoch[n] \in Nat /\ m.epoch \in Nat
    BY <1>1, EpochsAreNaturals
  <2>3. QED
    BY <1>1, <2>1, <2>2, ElectionAssumption
<1>4. QED
  BY <1>1, <1>2, <1>3, FreshVoteKeeps

LEMMA StepKeepsVotes ==
    ASSUME TypeOK, TypeOK', DurableInv, VoteInv, NEW n \in Node, RunStep(n)
    PROVE  VoteInv'
<1>1. \A v \in Node : epoch[v] >= epoch[v]
  BY EpochsAreNaturals
<1>2. CASE StartElection(n) \/ BootElect(n)
  BY <1>2, ElectKeepsVotes DEF StartElection, BootElect
<1>3. ASSUME NEW m \in msgs, Deliver(n, m), ~GrantVote(n, m) PROVE Forgetful
  <2>1. m.epoch \in Epoch
    BY DEF TypeOK, Message
  <2>2. CASE RejectVoteRequest(n, m) \/ IgnoreClaim(n, m) \/ ReassertClaim(n, m)
    BY <1>1, <2>2 DEF RejectVoteRequest, IgnoreClaim, ReassertClaim, Forgetful
  <2>3. CASE HandleVoteResponse(n, m)
    BY <1>1, <2>3 DEF HandleVoteResponse, Forgetful
  <2>4. CASE RepeatVote(n, m) \/ JoinConn(n, m)
    BY <2>1, <2>4, AdvanceMovesForward DEF RepeatVote, JoinConn, Forgetful
  <2>5. CASE FollowClaim(n, m)
    BY <2>1, <2>5, AdvanceMovesForward, CleanupForgetsThePast DEF FollowClaim, Forgetful
  <2>6. CASE HandleHandoff(n, m) \/ HandleHandoffAck(n, m)
    BY <2>6, HandoffFramesAreApart DEF Apart, Forgetful
  <2>7. QED
    BY <1>3, <2>2, <2>3, <2>4, <2>5, <2>6 DEF Deliver
<1>4. CASE \E m \in msgs : Deliver(n, m)
  BY <1>3, <1>4, GrantKeepsVotes, ForgetfulKeeps
<1>5. ASSUME NEW e \in Epoch, TryPromote(n, e) PROVE Forgetful
  <2>1. CASE Promote(n, e)
    <3>1. epoch'[n] >= e /\ Cleanup(n, e) /\ epoch' = epoch /\ cast' = cast
      BY <1>1, <2>1 DEF Promote
    <3>2. QED
      BY <1>1, <3>1, CleanupForgetsThePast DEF Forgetful
  <2>2. CASE LoseRace(n, e) \/ AbandonPromotion(n, e)
    BY <1>1, <2>2 DEF LoseRace, AbandonPromotion, Forgetful
  <2>3. QED
    BY <1>5, <2>1, <2>2 DEF TryPromote
<1>6. ASSUME \/ ResetCandidate(n) \/ StepDown(n)
             \/ \E d \in Node : ClearLeader(n, d)
             \/ RunPromotion(n) \/ RunDemotion(n)
      PROVE  Forgetful
  BY <1>1, <1>6 DEF ResetCandidate, StepDown, ClearLeader, RunPromotion, RunDemotion, Forgetful
<1>7. ASSUME \/ BootAssert(n)
             \/ \E l \in Node : BootDefer(n, l)
             \/ \E d \in Node : HelloClaim(n, d)
             \/ \E d \in Node : AcceptJoin(n, d)
      PROVE  Forgetful
  BY <1>1, <1>7 DEF BootAssert, BootDefer, HelloClaim, AcceptJoin, Forgetful
<1>8. ASSUME HandoffStep(n) PROVE Forgetful
  BY <1>8, HandoffIsApart DEF Apart, Forgetful
<1>9. QED
  BY <1>2, <1>4, <1>5, <1>6, <1>7, <1>8, ForgetfulKeeps DEF RunStep

LEMMA InitVotes == Init => VoteInv
BY DEF Init, VoteInv, VoteOnce, CastIsRemembered

\* Without crashes a behaviour is also one of CrashSpec.
LEMMA CrashFreeIsCrash == Spec => CrashSpec
<1>1. [Next]_vars => [CrashNext]_vars
  BY DEF CrashNext
<1>2. QED
  BY <1>1, PTL DEF Spec, CrashSpec

LEMMA VoteInvariant == Spec => []VoteInv
<1>1. TypeOK /\ TypeOK' /\ DurableInv /\ VoteInv /\ [Next]_vars => VoteInv'
  <2> SUFFICES ASSUME TypeOK, TypeOK', DurableInv, VoteInv, [Next]_vars PROVE VoteInv'
    OBVIOUS
  <2>1. CASE Next
    BY <2>1, RunCases, StepKeepsVotes
  <2>2. CASE UNCHANGED vars
    BY <2>2 DEF vars, VoteInv, VoteOnce, CastIsRemembered
  <2>3. QED
    BY <2>1, <2>2
<1>2. QED
  BY <1>1, InitVotes, CrashFreeIsCrash, TypeCorrect, DurableInvariant, PTL DEF Spec

\* While no node restarts, no node votes for two candidates in one epoch: a vote
\* stays in votedFor until the node's own epoch is past it.
THEOREM VoteOnceTheorem == Spec => []VoteOnce
<1>1. VoteInv => VoteOnce
  BY DEF VoteInv
<1>2. QED
  BY <1>1, VoteInvariant, PTL

\* Two majorities of the voters share one.
LEMMA QuorumsMeet ==
    ASSUME NEW S \in SUBSET Voter, NEW T \in SUBSET Voter,
           Cardinality(S) >= Quorum, Cardinality(T) >= Quorum
    PROVE  S \cap T # {}
<1>1. IsFiniteSet(Voter) /\ Cardinality(Voter) \in Nat
  BY ElectionAssumption, FS_Subset, FS_CardinalityType DEF Voter
<1>2. IsFiniteSet(S) /\ IsFiniteSet(T) /\ Cardinality(S) \in Nat /\ Cardinality(T) \in Nat
  BY <1>1, FS_Subset, FS_CardinalityType
<1>3. Cardinality(S) + Cardinality(T) > Cardinality(Voter)
  BY <1>1, <1>2 DEF Quorum
<1>4. QED
  BY <1>1, <1>3, FS_MajoritiesIntersect

\* While no node restarts, at most one node wins an epoch by votes: both winners
\* would hold the vote of a common voter.
THEOREM ElectedOnceTheorem == Spec => []ElectedOnce
<1>1. TypeOK /\ DurableInv /\ VoteInv => ElectedOnce
  <2> SUFFICES ASSUME TypeOK, DurableInv, VoteInv,
                      NEW x \in elected, NEW y \in elected, x[2] = y[2]
               PROVE  x[1] = y[1]
    BY DEF ElectedOnce
  <2>1. /\ x[1] \in Node /\ y[1] \in Node /\ x[2] \in Epoch
    BY DEF TypeOK
  <2>2. HasQuorum(x[1], x[2]) /\ HasQuorum(y[1], x[2])
    BY DEF DurableInv, ElectedHasQuorum
  <2>3. PICK v \in Supporters(x[1], x[2]) : v \in Supporters(y[1], x[2])
    BY <2>2, QuorumsMeet DEF HasQuorum, Supporters
  <2>4. v \in Node /\ <<v, x[2], x[1]>> \in cast /\ <<v, x[2], y[1]>> \in cast
    BY <2>3 DEF Supporters, Voter
  <2>5. QED
    BY <2>1, <2>4 DEF VoteInv, VoteOnce
<1>2. QED
  BY <1>1, CrashFreeIsCrash, TypeCorrect, DurableInvariant, VoteInvariant, PTL

-----------------------------------------------------------------------------
(* Roles and leaders, across crashes *)

\* A Cortex that is no longer Leader has its demotion still to come.
RoleInv == \A v \in Node : role[v] = "Primary" => estate[v] = "Leader" \/ "demote" \in callbacks[v]

LEMMA StepKeepsRole ==
    ASSUME TypeOK, RoleInv, NEW n \in Node, StepOf(n)
    PROVE  RoleInv'
<1>1. CASE StartElection(n) \/ BootElect(n)
  BY <1>1 DEF StartElection, BootElect, Elect, TypeOK, RoleInv
<1>2. CASE ResetCandidate(n) \/ StepDown(n)
  BY <1>2 DEF ResetCandidate, StepDown, TypeOK, RoleInv
<1>3. CASE \E d \in Node : ClearLeader(n, d)
  BY <1>3 DEF ClearLeader, TypeOK, RoleInv
<1>4. CASE \E m \in msgs : Deliver(n, m)
  <2> PICK m \in msgs : Deliver(n, m)
    BY <1>4
  <2>1. CASE \/ RejectVoteRequest(n, m) \/ RepeatVote(n, m) \/ HandleVoteResponse(n, m)
             \/ IgnoreClaim(n, m) \/ ReassertClaim(n, m) \/ JoinConn(n, m)
    BY <2>1 DEF RejectVoteRequest, RepeatVote, HandleVoteResponse, IgnoreClaim,
                ReassertClaim, JoinConn, RoleInv
  <2>2. CASE GrantVote(n, m)
    BY <2>2 DEF GrantVote, TypeOK, RoleInv
  <2>3. CASE FollowClaim(n, m)
    BY <2>3 DEF FollowClaim, TypeOK, RoleInv
  <2>4. CASE HandleHandoff(n, m) \/ HandleHandoffAck(n, m)
    BY <2>4 DEF HandleHandoff, HandleHandoffAck, RoleInv
  <2>5. QED
    BY <2>1, <2>2, <2>3, <2>4 DEF Deliver
<1>5. CASE \E e \in Epoch : TryPromote(n, e)
  BY <1>5 DEF TryPromote, Promote, LoseRace, AbandonPromotion, StillCandidate, TypeOK, RoleInv
<1>6. CASE RunPromotion(n) \/ RunDemotion(n)
  <2>1. CASE RunPromotion(n)
    BY <2>1 DEF RunPromotion, TypeOK, RoleInv
  <2>2. CASE RunDemotion(n)
    BY <2>2 DEF RunDemotion, TypeOK, RoleInv
  <2>3. QED
    BY <1>6, <2>1, <2>2
<1>7. CASE BootAssert(n)
  BY <1>7 DEF BootAssert, TypeOK, RoleInv
<1>8. CASE \E l \in Node : BootDefer(n, l)
  BY <1>8 DEF BootDefer, TypeOK, RoleInv
<1>9. CASE \E d \in Node : HelloClaim(n, d) \/ AcceptJoin(n, d)
  BY <1>9 DEF HelloClaim, AcceptJoin, RoleInv
<1>10. CASE Restart(n)
  BY <1>10 DEF Restart, TypeOK, RoleInv
<1>11. CASE Drain(n) \/ GiveUp(n) \/ \E t \in Node : SendHandoff(n, t)
  BY <1>11 DEF Drain, GiveUp, SendHandoff, RoleInv
<1>12. CASE Retire(n)
  BY <1>12 DEF Retire, TypeOK, RoleInv
<1>13. ASSUME NEW h \in takeovers[n], TakeOver(n, h) PROVE RoleInv'
  <2>1. CASE PersistRole(n, h) \/ AbortHandoff(n, h) \/ FinishTakeover(n, h)
    BY <2>1 DEF PersistRole, AbortHandoff, FinishTakeover, RoleInv
  <2>2. CASE TakeLead(n, h) \/ PromoteTaker(n, h)
    BY <2>2 DEF TakeLead, PromoteTaker, TypeOK, RoleInv
  <2>3. QED
    BY <1>13, <2>1, <2>2 DEF TakeOver
<1>14. CASE HandoffStep(n)
  BY <1>11, <1>12, <1>13, <1>14 DEF HandoffStep
<1>15. QED
  BY <1>1, <1>2, <1>3, <1>4, <1>5, <1>6, <1>7, <1>8, <1>9, <1>10, <1>14 DEF StepOf, RunStep

\* A node acts as Cortex with no callback left to run only while it is Leader in
\* its election state, whatever claims and step-downs came in between.
THEOREM PrimaryIsLeaderTheorem == CrashSpec => []PrimaryIsLeader
<1>1. Init => RoleInv
  BY DEF Init, RoleInv
<1>2. TypeOK /\ RoleInv /\ [CrashNext]_vars => RoleInv'
  BY StepCases, StepKeepsRole DEF RoleInv, vars
<1>3. RoleInv => PrimaryIsLeader
  BY DEF RoleInv, PrimaryIsLeader
<1>4. QED
  BY <1>1, <1>2, <1>3, TypeCorrect, PTL DEF CrashSpec

\* Whatever lets a node lead, now or later: its election state, its role, a failover
\* it has begun, its persisted role, a takeover it is in.
Holds(v) == \/ estate[v] = "Leader" \/ role[v] = "Primary" \/ failover[v] # "idle"
            \/ v \in crumbs \/ takeovers[v] # {}

\* All of that rests on a mandate, and only designated primaries run the boot sequence.
BackedInv ==
    /\ \A v \in Node : Holds(v) => Mandated(v, epoch[v])
    /\ \A x \in handed : Mandated(x[1], x[3])
    /\ \A m \in msgs : m.type = "Handoff" => <<m.src, m.dst, m.epoch>> \in handed
    /\ \A v \in Node : boot[v] # "done" => v \in Primary

\* A mandate, of histories W of won and H of handed epochs, covers every later epoch.
MandateIn(v, e, W, H) ==
    \/ v \in Primary
    \/ \E x \in W : x[1] = v /\ x[2] <= e
    \/ \E x \in H : x[2] = v /\ x[3] < e

LEMMA MandateGrows ==
    ASSUME NEW W \in SUBSET (Node \X Nat), NEW H \in SUBSET (Node \X Node \X Nat),
           NEW W2, NEW H2, W \subseteq W2, H \subseteq H2,
           NEW v, NEW e \in Nat, NEW x \in Nat, e <= x, MandateIn(v, e, W, H)
    PROVE  MandateIn(v, x, W2, H2)
<1>1. ASSUME NEW y \in W, y[2] <= e PROVE y[2] <= x
  BY <1>1
<1>2. ASSUME NEW y \in H, y[3] < e PROVE y[3] < x
  BY <1>2
<1>3. QED
  BY <1>1, <1>2 DEF MandateIn

LEMMA HistoriesAreNumbered ==
    TypeOK => elected \in SUBSET (Node \X Nat) /\ handed \in SUBSET (Node \X Node \X Nat)
BY EpochsAreNaturals DEF TypeOK

\* What a step never takes back, and a step that gives nobody a new hold on the lead.
Mandates ==
    /\ \A v \in Node : epoch'[v] >= epoch[v]
    /\ elected \subseteq elected' /\ handed \subseteq handed'

NoNewHold ==
    /\ Mandates
    /\ handed' = handed
    /\ \A m \in msgs' : m.type = "Handoff" => m \in msgs
    /\ \A v \in Node : /\ Holds(v)' => Holds(v)
                       /\ boot'[v] # "done" => boot[v] # "done" \/ v \in Primary

LEMMA HandedStays ==
    ASSUME TypeOK, BackedInv, Mandates, NEW x \in handed
    PROVE  Mandated(x[1], x[3])'
<1>1. Mandated(x[1], x[3]) /\ x[3] \in Nat /\ x[3] <= x[3]
  BY HistoriesAreNumbered DEF BackedInv
<1>2. MandateIn(x[1], x[3], elected, handed)
  BY <1>1 DEF Mandated, MandateIn
<1>3. MandateIn(x[1], x[3], elected', handed')
  BY <1>1, <1>2, HistoriesAreNumbered, MandateGrows DEF Mandates
<1>4. QED
  BY <1>3 DEF Mandated, MandateIn

LEMMA HoldStays ==
    ASSUME TypeOK, TypeOK', BackedInv, Mandates, NEW v \in Node, Holds(v)
    PROVE  Mandated(v, epoch[v])'
<1>1. MandateIn(v, epoch[v], elected, handed)
  BY DEF BackedInv, Mandated, MandateIn
<1>2. epoch[v] \in Nat /\ epoch'[v] \in Nat /\ epoch[v] <= epoch'[v]
  BY EpochsAreNaturals, EpochsStayNaturals DEF Mandates
<1>3. MandateIn(v, epoch'[v], elected', handed')
  BY <1>1, <1>2, HistoriesAreNumbered, MandateGrows DEF Mandates
<1>4. QED
  BY <1>3 DEF Mandated, MandateIn

LEMMA NoNewHoldKeeps ==
    ASSUME TypeOK, TypeOK', BackedInv, NoNewHold
    PROVE  BackedInv'
<1>1. \A v \in Node : Holds(v)' => Mandated(v, epoch[v])'
  BY HoldStays DEF NoNewHold
<1>2. \A x \in handed' : Mandated(x[1], x[3])'
  BY HandedStays DEF NoNewHold
<1>3. \A m \in msgs' : m.type = "Handoff" => <<m.src, m.dst, m.epoch>> \in handed'
  BY DEF NoNewHold, BackedInv
<1>4. \A v \in Node : boot'[v] # "done" => v \in Primary
  BY DEF NoNewHold, BackedInv
<1>5. QED
  BY <1>1, <1>2, <1>3, <1>4 DEF BackedInv

\* Steps that leave failovers, takeovers, persisted roles and HANDOFF frames alone.
Plain ==
    /\ UNCHANGED handoffVars
    /\ \A m \in msgs' : m.type = "Handoff" => m \in msgs

\* What a plain step by a node that is not promoted does.
LEMMA PlainKeeps ==
    ASSUME TypeOK, TypeOK', BackedInv, Plain, elected \subseteq elected',
           \A v \in Node : epoch'[v] >= epoch[v],
           \A v \in Node : estate'[v] = "Leader" => estate[v] = "Leader",
           \A v \in Node : role'[v] = "Primary" => role[v] = "Primary" \/ estate[v] = "Leader",
           \A v \in Node : boot'[v] # "done" => boot[v] # "done" \/ v \in Primary
    PROVE  BackedInv'
<1>1. NoNewHold
  BY DEF Plain, NoNewHold, Mandates, Holds
<1>2. QED
  BY <1>1, NoNewHoldKeeps

LEMMA CampaignKeepsBacked ==
    ASSUME TypeOK, TypeOK', BackedInv, NEW n \in Node, StartElection(n) \/ BootElect(n)
    PROVE  BackedInv'
<1>1. Plain
  BY DEF StartElection, BootElect, Elect, Broadcast, Msg, Plain
<1>2. \A v \in Node : epoch'[v] >= epoch[v]
  <2>1. epoch' = [epoch EXCEPT ![n] = epoch[n] + 1] /\ DOMAIN epoch = Node
    BY DEF StartElection, BootElect, Elect, TypeOK
  <2>2. \A v \in Node : epoch[v] \in Nat
    BY EpochsAreNaturals
  <2>3. QED
    BY <2>1, <2>2
<1>3. \A v \in Node : estate'[v] = "Leader" => estate[v] = "Leader"
  BY DEF StartElection, BootElect, Elect, TypeOK
<1>4. \A v \in Node : boot'[v] # "done" => boot[v] # "done"
  BY DEF StartElection, BootElect, TypeOK
<1>5. role' = role /\ elected' = elected
  BY DEF StartElection, BootElect, Elect
<1>6. QED
  BY <1>1, <1>2, <1>3, <1>4, <1>5, PlainKeeps

LEMMA PromoteKeepsBacked ==
    ASSUME TypeOK, TypeOK', BackedInv, NEW n \in Node, NEW e \in Epoch, Promote(n, e)
    PROVE  BackedInv'
<1>1. /\ epoch' = epoch /\ epoch[n] = e /\ boot' = boot /\ role' = role
      /\ estate' = [estate EXCEPT ![n] = "Leader"]
      /\ elected' = elected \cup {<<n, e>>}
      /\ UNCHANGED handoffVars
      /\ msgs' = msgs \cup Broadcast("CortexClaim", n, e)
  BY DEF Promote
<1>2. e \in Nat /\ \A v \in Node : epoch'[v] >= epoch[v]
  BY <1>1, EpochsAreNaturals
<1>3. Mandates
  BY <1>1, <1>2 DEF Mandates
<1>4. ASSUME NEW v \in Node, Holds(v)' PROVE Mandated(v, epoch[v])'
  <2>1. CASE v = n
    <3>1. <<n, e>> \in elected' /\ e <= epoch'[n]
      BY <1>1, <1>2
    <3>2. QED
      BY <2>1, <3>1 DEF Mandated
  <2>2. CASE v # n
    <3>1. Holds(v)
      BY <1>1, <1>4, <2>2 DEF Holds, TypeOK
    <3>2. QED
      BY <1>3, <3>1, HoldStays
  <2>3. QED
    BY <2>1, <2>2
<1>5. \A x \in handed' : Mandated(x[1], x[3])'
  BY <1>1, <1>3, HandedStays
<1>6. \A m \in msgs' : m.type = "Handoff" => <<m.src, m.dst, m.epoch>> \in handed'
  BY <1>1 DEF BackedInv, Broadcast, Msg
<1>7. \A v \in Node : boot'[v] # "done" => v \in Primary
  BY <1>1 DEF BackedInv
<1>8. QED
  BY <1>4, <1>5, <1>6, <1>7 DEF BackedInv

LEMMA BootAssertKeepsBacked ==
    ASSUME TypeOK, TypeOK', BackedInv, NEW n \in Node, BootAssert(n)
    PROVE  BackedInv'
<1>1. /\ n \in Primary
      /\ boot' = [boot EXCEPT ![n] = "done"]
      /\ epoch' = epoch /\ role' = role /\ elected' = elected
      /\ UNCHANGED handoffVars
  BY DEF BootAssert, BackedInv
<1>2. \A v \in Node : estate'[v] = "Leader" => estate[v] = "Leader" \/ v = n
  BY DEF BootAssert, TypeOK
<1>3. \A m \in msgs' : m.type = "Handoff" => m \in msgs
  BY DEF BootAssert, Broadcast, Msg
<1>4. Mandates
  BY <1>1, EpochsAreNaturals DEF Mandates
<1>5. ASSUME NEW v \in Node, Holds(v)' PROVE Mandated(v, epoch[v])'
  <2>1. CASE v = n
    BY <1>1, <2>1 DEF Mandated
  <2>2. CASE v # n
    <3>1. Holds(v)
      BY <1>1, <1>2, <1>5, <2>2 DEF Holds
    <3>2. QED
      BY <1>4, <3>1, HoldStays
  <2>3. QED
    BY <2>1, <2>2
<1>6. \A x \in handed' : Mandated(x[1], x[3])'
  BY <1>1, <1>4, HandedStays
<1>7. \A v \in Node : boot'[v] # "done" => v \in Primary
  BY <1>1 DEF BackedInv, TypeOK
<1>8. QED
  BY <1>1, <1>3, <1>5, <1>6, <1>7 DEF BackedInv

\* A HANDOFF leaves a node that holds a mandate for the epoch it hands over.
LEMMA SendHandoffKeepsBacked ==
    ASSUME TypeOK, TypeOK', BackedInv, NEW n \in Node, NEW t \in Node, SendHandoff(n, t)
    PROVE  BackedInv'
<1>1. /\ Holds(n)
      /\ epoch' = epoch /\ role' = role /\ elected' = elected /\ estate' = estate
      /\ boot' = boot /\ takeovers' = takeovers /\ crumbs' = crumbs
      /\ failover' = [failover EXCEPT ![n] = "await"]
      /\ handed' = handed \cup {<<n, t, epoch[n]>>}
      /\ msgs' = msgs \cup {Msg("Handoff", n, t, epoch[n])}
  BY DEF SendHandoff, Holds
<1>2. Mandates
  BY <1>1, EpochsAreNaturals DEF Mandates
<1>3. \A v \in Node : Holds(v)' => Holds(v)
  BY <1>1 DEF Holds, TypeOK
<1>4. \A v \in Node : Holds(v)' => Mandated(v, epoch[v])'
  BY <1>2, <1>3, HoldStays
<1>5. Mandated(n, epoch[n])'
  BY <1>1, <1>2, HoldStays
<1>6. ASSUME NEW x \in handed' PROVE Mandated(x[1], x[3])'
  <2>1. CASE x \in handed
    BY <1>2, <2>1, HandedStays
  <2>2. CASE x = <<n, t, epoch[n]>>
    <3>1. x[1] = n /\ x[3] = epoch'[n]
      BY <1>1, <2>2
    <3>2. QED
      BY <1>5, <3>1 DEF Mandated
  <2>3. QED
    BY <1>1, <1>6, <2>1, <2>2
<1>7. \A m \in msgs' : m.type = "Handoff" => <<m.src, m.dst, m.epoch>> \in handed'
  BY <1>1 DEF BackedInv, Msg
<1>8. \A v \in Node : boot'[v] # "done" => v \in Primary
  BY <1>1 DEF BackedInv
<1>9. QED
  BY <1>4, <1>6, <1>7, <1>8 DEF BackedInv

\* Its target gets a mandate for every later epoch.
LEMMA HandleHandoffKeepsBacked ==
    ASSUME TypeOK, TypeOK', BackedInv, NEW n \in Node, NEW m \in msgs, HandleHandoff(n, m)
    PROVE  BackedInv'
<1> DEFINE e == m.epoch + 1
<1>1. /\ m.epoch \in Nat /\ e \in Epoch /\ Advance(n, e)
      /\ <<m.src, n, m.epoch>> \in handed
  <2>1. m.type = "Handoff" /\ m.dst = n /\ e <= MaxEpoch /\ Advance(n, e)
    BY DEF HandleHandoff
  <2>2. m.epoch \in Epoch
    BY DEF TypeOK, Message
  <2>3. m.epoch \in Nat /\ e \in Epoch
    BY <2>1, <2>2, ElectionAssumption DEF Epoch
  <2>4. <<m.src, n, m.epoch>> \in handed
    BY <2>1 DEF BackedInv
  <2>5. QED
    BY <2>1, <2>3, <2>4
<1>2. /\ role' = role /\ elected' = elected /\ estate' = estate /\ boot' = boot
      /\ crumbs' = crumbs /\ failover' = failover /\ handed' = handed /\ msgs' \subseteq msgs
      /\ \A v \in Node \ {n} : takeovers'[v] = takeovers[v]
  BY DEF HandleHandoff, TypeOK
<1>3. /\ \A v \in Node : epoch'[v] >= epoch[v]
      /\ epoch'[n] >= e /\ epoch'[n] \in Nat
  BY <1>1, AdvanceMovesForward, EpochsStayNaturals
<1>4. Mandates
  BY <1>2, <1>3 DEF Mandates
<1>5. ASSUME NEW v \in Node, Holds(v)' PROVE Mandated(v, epoch[v])'
  <2>1. CASE v = n
    <3>1. m.epoch < epoch'[n]
      BY <1>1, <1>3
    <3>2. QED
      BY <1>1, <1>2, <2>1, <3>1 DEF Mandated
  <2>2. CASE v # n
    <3>1. Holds(v)
      BY <1>2, <1>5, <2>2 DEF Holds
    <3>2. QED
      BY <1>4, <3>1, HoldStays
  <2>3. QED
    BY <2>1, <2>2
<1>6. \A x \in handed' : Mandated(x[1], x[3])'
  BY <1>2, <1>4, HandedStays
<1>7. \A f \in msgs' : f.type = "Handoff" => <<f.src, f.dst, f.epoch>> \in handed'
  BY <1>2 DEF BackedInv
<1>8. \A v \in Node : boot'[v] # "done" => v \in Primary
  BY <1>2 DEF BackedInv
<1>9. QED
  BY <1>5, <1>6, <1>7, <1>8 DEF BackedInv

LEMMA DeliverKeepsBacked ==
    ASSUME TypeOK, TypeOK', BackedInv, NEW n \in Node, NEW m \in msgs, Deliver(n, m)
    PROVE  BackedInv'
<1>1. m.epoch \in Epoch /\ \A v \in Node : epoch[v] >= epoch[v]
  <2>1. m.epoch \in Epoch
    BY DEF TypeOK, Message
  <2>2. \A v \in Node : epoch[v] >= epoch[v]
    BY EpochsAreNaturals
  <2>3. QED
    BY <2>1, <2>2
<1>2. CASE \/ RejectVoteRequest(n, m) \/ HandleVoteResponse(n, m)
           \/ IgnoreClaim(n, m) \/ ReassertClaim(n, m)
  <2>1. Plain
    BY <1>2 DEF RejectVoteRequest, HandleVoteResponse, IgnoreClaim, ReassertClaim,
                Broadcast, Msg, Plain
  <2>2. UNCHANGED <<epoch, estate, role, boot, elected>>
    BY <1>2 DEF RejectVoteRequest, HandleVoteResponse, IgnoreClaim, ReassertClaim
  <2>3. QED
    BY <1>1, <2>1, <2>2, PlainKeeps
<1>3. CASE RepeatVote(n, m) \/ JoinConn(n, m)
  <2>1. Plain
    BY <1>3 DEF RepeatVote, JoinConn, Msg, Plain
  <2>2. Advance(n, m.epoch) /\ UNCHANGED <<estate, role, boot, elected>>
    BY <1>3 DEF RepeatVote, JoinConn
  <2>3. QED
    BY <1>1, <2>1, <2>2, AdvanceMovesForward, PlainKeeps
<1>4. CASE GrantVote(n, m)
  <2>1. Plain
    BY <1>4 DEF GrantVote, Msg, Plain
  <2>2. Advance(n, m.epoch) /\ UNCHANGED <<role, boot, elected>>
    BY <1>4 DEF GrantVote
  <2>3. \A v \in Node : estate'[v] = "Leader" => estate[v] = "Leader"
    BY <1>4 DEF GrantVote, TypeOK
  <2>4. QED
    BY <1>1, <2>1, <2>2, <2>3, AdvanceMovesForward, PlainKeeps
<1>5. CASE FollowClaim(n, m)
  <2>1. Plain
    BY <1>5 DEF FollowClaim, Plain
  <2>2. Advance(n, m.epoch) /\ UNCHANGED <<role, boot, elected>>
    BY <1>5 DEF FollowClaim
  <2>3. \A v \in Node : estate'[v] = "Leader" => estate[v] = "Leader"
    BY <1>5 DEF FollowClaim, TypeOK
  <2>4. QED
    BY <1>1, <2>1, <2>2, <2>3, AdvanceMovesForward, PlainKeeps
<1>6. CASE HandleHandoff(n, m)
  BY <1>6, HandleHandoffKeepsBacked
<1>7. CASE HandleHandoffAck(n, m)
  <2>1. NoNewHold
    BY <1>1, <1>7 DEF HandleHandoffAck, NoNewHold, Mandates, Holds, TypeOK
  <2>2. QED
    BY <2>1, NoNewHoldKeeps
<1>8. QED
  BY <1>2, <1>3, <1>4, <1>5, <1>6, <1>7 DEF Deliver

\* A takeover leads, persists its role and promotes by the mandate it began with.
LEMMA TakeOverKeepsBacked ==
    ASSUME TypeOK, TypeOK', BackedInv, NEW n \in Node, NEW h \in takeovers[n], TakeOver(n, h)
    PROVE  BackedInv'
<1>1. /\ epoch' = epoch /\ elected' = elected /\ handed' = handed /\ boot' = boot
      /\ failover' = failover
  BY DEF TakeOver, PersistRole, AbortHandoff, TakeLead, PromoteTaker, FinishTakeover
<1>2. \A m \in msgs' : m.type = "Handoff" => m \in msgs
  BY DEF TakeOver, PersistRole, AbortHandoff, TakeLead, PromoteTaker, FinishTakeover,
         Broadcast, Msg
<1>3. Mandates
  BY <1>1, EpochsAreNaturals DEF Mandates
<1>4. Holds(n)
  BY DEF Holds
<1>5. ASSUME NEW v \in Node, v # n, Holds(v)' PROVE Holds(v)
  <2>1. takeovers'[v] = takeovers[v]
    BY <1>5 DEF TakeOver, PersistRole, AbortHandoff, TakeLead, PromoteTaker, FinishTakeover,
                Moves, Leaves, TypeOK
  <2>2. v \in crumbs' => v \in crumbs
    BY <1>5 DEF TakeOver, PersistRole, AbortHandoff, TakeLead, PromoteTaker, FinishTakeover
  <2>3. estate'[v] = estate[v] /\ role'[v] = role[v]
    BY <1>5 DEF TakeOver, PersistRole, AbortHandoff, TakeLead, PromoteTaker, FinishTakeover,
                TypeOK
  <2>4. QED
    BY <1>1, <1>5, <2>1, <2>2, <2>3 DEF Holds
<1>6. NoNewHold
  BY <1>1, <1>2, <1>3, <1>4, <1>5 DEF NoNewHold
<1>7. QED
  BY <1>6, NoNewHoldKeeps

LEMMA HandoffStepKeepsBacked ==
    ASSUME TypeOK, TypeOK', BackedInv, NEW n \in Node, HandoffStep(n)
    PROVE  BackedInv'
<1>1. \A v \in Node : epoch[v] >= epoch[v]
  BY EpochsAreNaturals
<1>2. CASE Drain(n) \/ GiveUp(n) \/ Retire(n)
  <2>1. NoNewHold
    BY <1>1, <1>2 DEF Drain, GiveUp, Retire, NoNewHold, Mandates, Holds, TypeOK
  <2>2. QED
    BY <2>1, NoNewHoldKeeps
<1>3. CASE \E t \in Node : SendHandoff(n, t)
  BY <1>3, SendHandoffKeepsBacked
<1>4. CASE \E h \in takeovers[n] : TakeOver(n, h)
  BY <1>4, TakeOverKeepsBacked
<1>5. QED
  BY <1>2, <1>3, <1>4 DEF HandoffStep

\* A restarted node recovers by the mandate under which its role was persisted.
LEMMA RestartKeepsBacked ==
    ASSUME TypeOK, TypeOK', BackedInv, NEW n \in Node, Restart(n)
    PROVE  BackedInv'
<1>1. /\ epoch' = epoch /\ elected' = elected /\ handed' = handed /\ crumbs' = crumbs
      /\ msgs' \subseteq msgs
      /\ estate' = [estate EXCEPT ![n] = "Idle"]
      /\ role' = [role EXCEPT ![n] = "Unknown"]
      /\ failover' = [failover EXCEPT ![n] = "idle"]
  BY DEF Restart
<1>2. takeovers'[n] # {} => n \in crumbs
  BY DEF Restart, Recovers, TypeOK
<1>3. \A v \in Node \ {n} : takeovers'[v] = takeovers[v]
  BY DEF Restart, TypeOK
<1>4. \A v \in Node : boot'[v] # "done" => boot[v] # "done" \/ v \in Primary
  BY DEF Restart, TypeOK
<1>5. Mandates
  BY <1>1, EpochsAreNaturals DEF Mandates
<1>6. ASSUME NEW v \in Node, Holds(v)' PROVE Holds(v)
  <2>1. CASE v # n
    <3>1. estate'[v] = estate[v] /\ role'[v] = role[v] /\ failover'[v] = failover[v]
      BY <1>1, <2>1 DEF TypeOK
    <3>2. QED
      BY <1>1, <1>3, <1>6, <2>1, <3>1 DEF Holds
  <2>2. CASE v = n
    <3>1. estate'[n] = "Idle" /\ role'[n] = "Unknown" /\ failover'[n] = "idle"
      BY <1>1 DEF TypeOK
    <3>2. QED
      BY <1>1, <1>2, <1>6, <2>2, <3>1 DEF Holds
  <2>3. QED
    BY <2>1, <2>2
<1>7. NoNewHold
  BY <1>1, <1>4, <1>5, <1>6 DEF NoNewHold
<1>8. QED
  BY <1>7, NoNewHoldKeeps

LEMMA StepKeepsBacked ==
    ASSUME TypeOK, TypeOK', BackedInv, NEW n \in Node, StepOf(n)
    PROVE  BackedInv'
<1>1. \A v \in Node : epoch[v] >= epoch[v]
  BY EpochsAreNaturals
<1>2. CASE ResetCandidate(n) \/ StepDown(n) \/ \E d \in Node : ClearLeader(n, d)
  <2>1. Plain /\ UNCHANGED <<epoch, role, boot, elected>>
    BY <1>2 DEF ResetCandidate, StepDown, ClearLeader, Plain
  <2>2. \A v \in Node : estate'[v] = "Leader" => estate[v] = "Leader"
    BY <1>2 DEF ResetCandidate, StepDown, ClearLeader, TypeOK
  <2>3. QED
    BY <1>1, <2>1, <2>2, PlainKeeps
<1>3. CASE RunPromotion(n) \/ RunDemotion(n)
  <2>1. Plain /\ UNCHANGED <<epoch, estate, boot, elected>>
    BY <1>3 DEF RunPromotion, RunDemotion, Plain
  <2>2. \A v \in Node : role'[v] = "Primary" => role[v] = "Primary" \/ estate[v] = "Leader"
    BY <1>3 DEF RunPromotion, RunDemotion, TypeOK
  <2>3. QED
    BY <1>1, <2>1, <2>2, PlainKeeps
<1>4. CASE \E l \in Node : BootDefer(n, l)
  <2>1. Plain /\ UNCHANGED <<epoch, estate, elected>>
    BY <1>4 DEF BootDefer, Msg, Plain
  <2>2. \A v \in Node : role'[v] = "Primary" => role[v] = "Primary"
    BY <1>4 DEF BootDefer, TypeOK
  <2>3. \A v \in Node : boot'[v] # "done" => boot[v] # "done"
    BY <1>4 DEF BootDefer, TypeOK
  <2>4. QED
    BY <1>1, <2>1, <2>2, <2>3, PlainKeeps
<1>5. CASE \E d \in Node : HelloClaim(n, d) \/ AcceptJoin(n, d)
  <2>1. Plain /\ UNCHANGED <<epoch, estate, role, boot, elected>>
    BY <1>5 DEF HelloClaim, AcceptJoin, Msg, Plain
  <2>2. QED
    BY <1>1, <2>1, PlainKeeps
<1>6. ASSUME NEW e \in Epoch, TryPromote(n, e) PROVE BackedInv'
  <2>1. CASE Promote(n, e)
    BY <2>1, PromoteKeepsBacked
  <2>2. CASE LoseRace(n, e) \/ AbandonPromotion(n, e)
    <3>1. Plain /\ UNCHANGED <<epoch, role, boot, elected>>
      BY <2>2 DEF LoseRace, AbandonPromotion, Plain
    <3>2. \A v \in Node : estate'[v] = "Leader" => estate[v] = "Leader"
      BY <2>2 DEF LoseRace, AbandonPromotion, TypeOK
    <3>3. QED
      BY <1>1, <3>1, <3>2, PlainKeeps
  <2>3. QED
    BY <1>6, <2>1, <2>2 DEF TryPromote
<1>7. QED
  BY <1>2, <1>3, <1>4, <1>5, <1>6, CampaignKeepsBacked, BootAssertKeepsBacked,
     DeliverKeepsBacked, HandoffStepKeepsBacked, RestartKeepsBacked DEF StepOf, RunStep

\* Leadership without votes is only passed on: whoever leads or hands over is a
\* designated primary, or won an epoch, or was handed one by a node of which the same
\* holds, whatever claims, lost acks, persisted roles and restarts come in between.
THEOREM LeaderIsBackedTheorem == CrashSpec => []LeaderIsBacked
<1>1. Init => BackedInv
  BY DEF Init, BackedInv, Holds
<1>2. TypeOK /\ TypeOK' /\ BackedInv /\ [CrashNext]_vars => BackedInv'
  <2> SUFFICES ASSUME TypeOK, TypeOK', BackedInv, [CrashNext]_vars PROVE BackedInv'
    OBVIOUS
  <2>1. CASE CrashNext
    BY <2>1, StepCases, StepKeepsBacked
  <2>2. CASE UNCHANGED vars
    BY <2>2 DEF vars, BackedInv, Holds, Mandated
  <2>3. QED
    BY <2>1, <2>2
<1>3. BackedInv => LeaderIsBacked
  BY DEF BackedInv, LeaderIsBacked, Holds
<1>4. QED
  BY <1>1, <1>2, <1>3, TypeCorrect, PTL DEF CrashSpec

\* A counted vote is one its voter cast for this candidate in this epoch, and
\* the voter is registered; crashes do not change that.
THEOREM CountedVotesTheorem == CrashSpec => []CountedVotesWereCast
<1>1. DurableInv => CountedVotesWereCast
  BY DEF DurableInv
<1>2. QED
  BY <1>1, DurableInvariant, PTL
=============================================================================
