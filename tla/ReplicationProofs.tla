-------------------------- MODULE ReplicationProofs --------------------------
(***************************************************************************)
(* Proofs about Replication, for every set of Lobes and every bound.       *)
(***************************************************************************)
EXTENDS Replication, WellFoundedInduction, TLAPS

\* A non-empty set of naturals has a least element; MinReplicatedSeq is one.
LEMMA NatMin ==
    ASSUME NEW S, S \subseteq Nat, S # {}
    PROVE  \E x \in S : \A y \in S : x <= y
<1> DEFINE R == {ss \in Nat \X Nat : ss[1] < ss[2]}
<1>1. IsWellFoundedOn(R, Nat)
  BY NatLessThanWellFounded DEF OpToRel
<1>2. PICK x \in S : \A y \in S : ~ (<<y, x>> \in R)
  <2> HIDE DEF R
  <2> QED BY <1>1, WFMin
<1>3. \A y \in S : ~ (y < x)
  BY <1>2
<1>4. QED
  BY <1>3

-----------------------------------------------------------------------------
(***************************************************************************)
(* Types.  What is left of a batch is a range of entries of the log.       *)
(***************************************************************************)
BatchOK ==
    \A l \in Lobe : phase[l] = "send" =>
        1 <= from[l] /\ from[l] <= till[l] /\ till[l] <= head

TInv == TypeOK /\ BatchOK

\* The step of one Lobe, its streamer and its reader.
LobeStep(l) == Ship(l) \/ Receive(l) \/ Connect(l) \/ GoWrong(l)

LEMMA NatFacts ==
    /\ MaxSeq \in Nat /\ MaxWire \in Nat /\ MaxBacklog \in Nat
    /\ BatchLimit \in Nat /\ BatchLimit >= 1
    /\ SyncEvery \in Nat /\ None \notin Nat
    /\ Entry \subseteq Position /\ Position \subseteq Nat
BY ReplicationAssumption DEF Entry, Position

LEMMA InitTInv == Init => TInv
BY NatFacts DEF Init, TInv, TypeOK, BatchOK, NoPrune, Entry, Position

LEMMA StartSeqType ==
    ASSUME TypeOK, NEW l \in Lobe
    PROVE  StartSeq(l) \in Position
BY NatFacts DEF TypeOK, StartSeq, Larger, Position

\* The part of TInv about the streamers.
StreamOK ==
    /\ phase \in [Lobe -> {"off", "read", "send", "idle", "wait"}]
    /\ lastSeq \in [Lobe -> Position]
    /\ from \in [Lobe -> Nat] /\ till \in [Lobe -> Nat]
    /\ wake \in [Lobe -> BOOLEAN]
    /\ BatchOK

\* A streamer that starts or stops has no batch.
LEMMA StartStreamTypes ==
    ASSUME TInv, NEW l \in Lobe, StartStream(l), head' = head
    PROVE  StreamOK'
BY StartSeqType DEF TInv, TypeOK, BatchOK, StreamOK, StartStream

LEMMA StopStreamTypes ==
    ASSUME TInv, NEW l \in Lobe, StopStream(l), head' = head
    PROVE  StreamOK'
BY DEF TInv, TypeOK, BatchOK, StreamOK, StopStream

LEMMA DropAcksTypes ==
    ASSUME TypeOK, NEW l \in Lobe, DropAcks(l)
    PROVE  acks' \in [Lobe -> Seq(Position)] /\ late' \in [Lobe -> SUBSET Position]
<1>1. acks' \in [Lobe -> Seq(Position)]
  BY DEF TypeOK, DropAcks
<1>2. CASE UNCHANGED late
  BY <1>1, <1>2 DEF TypeOK
<1>3. CASE acks[l] # <<>> /\ late' = [late EXCEPT ![l] = @ \cup {Head(acks[l])}]
  <2>1. acks[l] \in Seq(Position) /\ late \in [Lobe -> SUBSET Position]
    BY DEF TypeOK
  <2>2. Head(acks[l]) \in Position
    BY <1>3, <2>1
  <2>3. QED
    BY <1>1, <1>3, <2>1, <2>2
<1>4. QED
  BY <1>2, <1>3 DEF DropAcks

LEMMA LeftOverType ==
    ASSUME TypeOK, NEW l \in Lobe, NEW rest \in LeftOver(l)
    PROVE  rest \subseteq Entry
BY DEF TypeOK, LeftOver

LEMMA WriteTInv == ASSUME TInv, Write PROVE TInv'
BY NatFacts DEF TInv, TypeOK, BatchOK, Write, Position, Entry, ackVars, connVars, lobeVars

LEMMA ShipTInv == ASSUME TInv, NEW l \in Lobe, Ship(l) PROVE TInv'
<1>1. CASE ReadBatch(l)
  <2> DEFINE first == Larger(lastSeq[l], pruned) + 1
             last  == Smaller(head, first + BatchLimit - 1)
  <2>1. first \in Nat /\ 1 <= first
    BY NatFacts DEF TInv, TypeOK, Larger, Position
  <2>2. last \in Nat /\ last <= head /\ (first <= head => first <= last)
    BY <2>1, NatFacts DEF TInv, TypeOK, Smaller, Position
  <2> HIDE DEF first, last
  <2>3. CASE first <= head
    <3>1. /\ phase' = [phase EXCEPT ![l] = "send"]
          /\ from' = [from EXCEPT ![l] = first]
          /\ till' = [till EXCEPT ![l] = last]
      BY <1>1, <2>3 DEF ReadBatch, first, last
    <3>2. TypeOK'
      BY <1>1, <3>1, <2>1, <2>2 DEF ReadBatch, TInv, TypeOK, logVars, ackVars, connVars, lobeVars
    <3>3. BatchOK'
      BY <1>1, <3>1, <2>1, <2>2, <2>3 DEF ReadBatch, TInv, TypeOK, BatchOK, logVars
    <3>4. QED
      BY <3>2, <3>3 DEF TInv
  <2>4. CASE ~(first <= head)
    <3>1. phase' = [phase EXCEPT ![l] = "idle"] /\ UNCHANGED <<from, till>>
      BY <1>1, <2>4 DEF ReadBatch, first
    <3>2. QED
      BY <1>1, <3>1 DEF ReadBatch, TInv, TypeOK, BatchOK, logVars, ackVars, connVars, lobeVars
  <2>5. QED
    BY <2>3, <2>4
<1>2. CASE SendEntry(l)
  <2>1. from[l] \in Entry /\ from[l] + 1 \in Nat
    BY <1>2, NatFacts DEF SendEntry, TInv, TypeOK, BatchOK, Entry, Position
  <2>2. wire' \in [Lobe -> Seq(Entry)]
    BY <1>2, <2>1 DEF SendEntry, TInv, TypeOK
  <2>3. phase' \in [Lobe -> {"off", "read", "send", "idle", "wait"}]
    BY <1>2 DEF SendEntry, TInv, TypeOK
  <2>4. lastSeq' \in [Lobe -> Position] /\ from' \in [Lobe -> Nat]
    BY <1>2, <2>1, NatFacts DEF SendEntry, TInv, TypeOK
  <2>5. BatchOK'
    <3> SUFFICES ASSUME NEW k \in Lobe, phase'[k] = "send"
                 PROVE  1 <= from'[k] /\ from'[k] <= till'[k] /\ till'[k] <= head'
      BY DEF BatchOK
    <3>1. /\ phase' = [phase EXCEPT ![l] = IF from[l] = till[l] THEN "read" ELSE @]
          /\ from' = [from EXCEPT ![l] = @ + 1]
          /\ till' = till /\ head' = head /\ phase[l] = "send"
      BY <1>2 DEF SendEntry, logVars
    <3>2. phase[k] = "send" /\ (k = l => from[l] # till[l])
      BY <3>1 DEF TInv, TypeOK
    <3>3. 1 <= from[k] /\ from[k] <= till[k] /\ till[k] <= head
      BY <3>2 DEF TInv, BatchOK
    <3>4. from'[k] = IF k = l THEN from[k] + 1 ELSE from[k]
      BY <3>1 DEF TInv, TypeOK
    <3>5. QED
      BY <3>1, <3>2, <3>3, <3>4 DEF TInv, TypeOK
  <2>6. QED
    BY <1>2, <2>2, <2>3, <2>4, <2>5 DEF SendEntry, TInv, TypeOK, logVars, ackVars, lobeVars
<1>3. CASE Await(l)
  BY <1>3 DEF Await, TInv, TypeOK, BatchOK, logVars, ackVars, connVars, lobeVars
<1>4. CASE Wake(l)
  BY <1>4 DEF Wake, TInv, TypeOK, BatchOK, logVars, ackVars, connVars, lobeVars
<1>5. QED
  BY <1>1, <1>2, <1>3, <1>4 DEF Ship

\* The ack of a frame.
LEMMA SendAckType ==
    ASSUME TypeOK, NEW l \in Lobe, NEW seq \in Position, SendAck(l, seq)
    PROVE  acks' \in [Lobe -> Seq(Position)]
BY DEF TypeOK, SendAck

LEMMA ReceiveTInv == ASSUME TInv, NEW l \in Lobe, Receive(l) PROVE TInv'
<1>1. CASE Apply(l)
  <2> DEFINE seq == Head(wire[l])
  <2>1. wire[l] \in Seq(Entry) /\ wire[l] # <<>>
    BY <1>1 DEF Apply, TInv, TypeOK
  <2>2. seq \in Entry /\ Tail(wire[l]) \in Seq(Entry)
    BY <2>1
  <2> HIDE DEF seq
  <2>3. Larger(applied[l], seq) \in Position
    BY <2>2, NatFacts DEF TInv, TypeOK, Larger
  <2>4. acks' \in [Lobe -> Seq(Position)]
    BY <1>1, <2>3, SendAckType DEF Apply, seq, TInv
  <2>5. wire' \in [Lobe -> Seq(Entry)]
    BY <1>1, <2>2 DEF Apply, TInv, TypeOK
  <2>6. /\ applied' \in [Lobe -> Position] /\ synced' \in [Lobe -> Position]
        /\ held' \in [Lobe -> SUBSET Entry] /\ failed' \in [Lobe -> SUBSET Entry]
    BY <1>1, <2>2, <2>3, NatFacts DEF Apply, seq, TInv, TypeOK
  <2>7. since' \in [Lobe -> Nat]
    BY <1>1 DEF Apply, TInv, TypeOK
  <2>8. QED
    BY <1>1, <2>4, <2>5, <2>6, <2>7
    DEF Apply, TInv, TypeOK, BatchOK, logVars, ackVars, sendVars
<1>2. CASE HandleAck(l)
  <2>1. acks[l] \in Seq(Position) /\ acks[l] # <<>>
    BY <1>2 DEF HandleAck, TInv, TypeOK
  <2>2. Head(acks[l]) \in Position /\ Tail(acks[l]) \in Seq(Position)
    BY <2>1
  <2>3. QED
    BY <1>2, <2>2 DEF HandleAck, TInv, TypeOK, BatchOK, logVars, sendVars, lobeVars
<1>3. CASE HandleLateAck(l)
  BY <1>3 DEF HandleLateAck, TInv, TypeOK, BatchOK, logVars, connVars, sendVars, lobeVars
<1>4. QED
  BY <1>1, <1>2, <1>3 DEF Receive

LEMMA ConnectTInv == ASSUME TInv, NEW l \in Lobe, Connect(l) PROVE TInv'
<1>1. CASE Join(l)
  <2>1. acks' \in [Lobe -> Seq(Position)] /\ late' \in [Lobe -> SUBSET Position]
    BY <1>1, DropAcksTypes DEF Join, TInv
  <2>2. CASE Snapshots
    <3>1. /\ conn' = [conn EXCEPT ![l] = "snap"]
          /\ snapSeq' = [snapSeq EXCEPT ![l] = head]
          /\ wire' = [wire EXCEPT ![l] = <<>>]
          /\ UNCHANGED <<logVars, replicaSeq, sendVars, lobeVars, faults>>
      BY <1>1, <2>2 DEF Join
    <3>2. /\ conn' \in [Lobe -> {"down", "snap", "up"}]
          /\ snapSeq' \in [Lobe -> Position] /\ wire' \in [Lobe -> Seq(Entry)]
      BY <3>1 DEF TInv, TypeOK
    <3>3. QED
      BY <2>1, <3>1, <3>2 DEF TInv, TypeOK, BatchOK, logVars, sendVars, lobeVars
  <2>3. CASE ~Snapshots
    <3>1. StartStream(l) /\ head' = head
      BY <1>1, <2>3 DEF Join, logVars
    <3>2. /\ conn' = [conn EXCEPT ![l] = "up"]
          /\ wire' = [wire EXCEPT ![l] = <<>>]
          /\ UNCHANGED <<logVars, replicaSeq, snapSeq, lobeVars, faults>>
      BY <1>1, <2>3 DEF Join
    <3>3. conn' \in [Lobe -> {"down", "snap", "up"}] /\ wire' \in [Lobe -> Seq(Entry)]
      BY <3>2 DEF TInv, TypeOK
    <3>4. StreamOK'
      BY <3>1, StartStreamTypes
    <3>5. QED
      BY <2>1, <3>2, <3>3, <3>4 DEF TInv, TypeOK, StreamOK, logVars, lobeVars
  <2>4. QED
    BY <2>2, <2>3
<1>2. CASE SnapshotDone(l)
  <2>1. PICK seq \in snapSeq[l] .. head : \E view \in seq .. head :
           /\ applied' = [applied EXCEPT ![l] = seq]
           /\ synced'  = [synced EXCEPT ![l] = seq]
           /\ held'    = [held EXCEPT ![l] = 1 .. view]
    BY <1>2 DEF SnapshotDone
  <2>2. PICK view \in seq .. head : held' = [held EXCEPT ![l] = 1 .. view]
    BY <2>1
  <2>3. seq \in Position /\ 1 .. view \subseteq Entry
    BY NatFacts DEF TInv, TypeOK, Position, Entry
  <2>4. StreamOK'
    <3>1. StartStream(l) /\ head' = head
      BY <1>2 DEF SnapshotDone, logVars
    <3>2. QED
      BY <3>1, StartStreamTypes
  <2>5. /\ applied' \in [Lobe -> Position] /\ synced' \in [Lobe -> Position]
        /\ held' \in [Lobe -> SUBSET Entry]
    BY <2>1, <2>2, <2>3 DEF TInv, TypeOK
  <2>6. QED
    BY <1>2, <2>4, <2>5
    DEF SnapshotDone, TInv, TypeOK, StreamOK, logVars, ackVars
<1>3. QED
  BY <1>1, <1>2 DEF Connect

LEMMA FaultType == ASSUME TypeOK, NEW kind, Fault(kind) PROVE faults' \in Nat
BY DEF TypeOK, Fault

\* What a closed connection leaves behind is typed.
LEMMA CloseConnTypes ==
    ASSUME TInv, NEW l \in Lobe, CloseConn(l), head' = head
    PROVE  conn' \in [Lobe -> {"down", "snap", "up"}] /\ StreamOK'
<1>1. conn' \in [Lobe -> {"down", "snap", "up"}]
  BY DEF CloseConn, TInv, TypeOK
<1>2. StreamOK'
  BY StopStreamTypes DEF CloseConn
<1>3. QED
  BY <1>1, <1>2

LEMMA GoWrongTInv == ASSUME TInv, NEW l \in Lobe, GoWrong(l) PROVE TInv'
<1>1. CASE Disconnect(l)
  <2>1. conn' \in [Lobe -> {"down", "snap", "up"}] /\ StreamOK' /\ faults' \in Nat
    BY <1>1, CloseConnTypes, FaultType DEF Disconnect, logVars, TInv
  <2>2. held' \in [Lobe -> SUBSET Entry]
    BY <1>1, LeftOverType DEF Disconnect, TInv, TypeOK
  <2>3. QED
    BY <1>1, <2>1, <2>2 DEF Disconnect, TInv, TypeOK, StreamOK, logVars, ackVars
<1>2. CASE LobeRestart(l)
  <2>1. conn' \in [Lobe -> {"down", "snap", "up"}] /\ StreamOK' /\ faults' \in Nat
    BY <1>2, CloseConnTypes, FaultType DEF LobeRestart, logVars, TInv
  <2>2. /\ wire' \in [Lobe -> Seq(Entry)] /\ synced' \in [Lobe -> Position]
        /\ since' \in [Lobe -> Nat]
    BY <1>2 DEF LobeRestart, TInv, TypeOK
  <2>3. QED
    BY <1>2, <2>1, <2>2 DEF LobeRestart, TInv, TypeOK, StreamOK, logVars, ackVars
<1>3. CASE LobeCrash(l)
  <2>1. conn' \in [Lobe -> {"down", "snap", "up"}] /\ StreamOK' /\ faults' \in Nat
    BY <1>3, CloseConnTypes, FaultType DEF LobeCrash, logVars, TInv
  <2>2. PICK cursor \in synced[l] .. applied[l], rest \in LeftOver(l) :
          \E data \in cursor .. Smaller(cursor + 1, applied[l]) :
             /\ applied' = [applied EXCEPT ![l] = cursor]
             /\ synced'  = [synced EXCEPT ![l] = cursor]
             /\ held'    = [held EXCEPT ![l] =
                    {e \in rest : e \in 1 .. data \/ e > applied[l]}]
    BY <1>3 DEF LobeCrash
  <2>3. rest \subseteq Entry
    BY LeftOverType DEF TInv
  <2>4. synced[l] \in Position /\ applied[l] \in Position
    BY DEF TInv, TypeOK
  <2>5. cursor \in Position
    BY <2>4, NatFacts DEF Position
  <2>6. /\ held' \in [Lobe -> SUBSET Entry]
        /\ applied' \in [Lobe -> Position] /\ synced' \in [Lobe -> Position]
    BY <2>2, <2>3, <2>5 DEF TInv, TypeOK
  <2>7. wire' \in [Lobe -> Seq(Entry)] /\ since' \in [Lobe -> Nat]
    BY <1>3 DEF LobeCrash, TInv, TypeOK
  <2>8. QED
    BY <1>3, <2>1, <2>6, <2>7 DEF LobeCrash, TInv, TypeOK, StreamOK, logVars, ackVars
<1>4. CASE LobeWipe(l)
  <2>1. conn' \in [Lobe -> {"down", "snap", "up"}] /\ StreamOK' /\ faults' \in Nat
    BY <1>4, CloseConnTypes, FaultType DEF LobeWipe, logVars, TInv
  <2>2. 0 \in Position
    BY NatFacts DEF Position
  <2>3. /\ wire' \in [Lobe -> Seq(Entry)] /\ since' \in [Lobe -> Nat]
        /\ applied' \in [Lobe -> Position] /\ synced' \in [Lobe -> Position]
        /\ held' \in [Lobe -> SUBSET Entry] /\ failed' \in [Lobe -> SUBSET Entry]
    BY <1>4, <2>2 DEF LobeWipe, TInv, TypeOK
  <2>4. QED
    BY <1>4, <2>1, <2>3 DEF LobeWipe, TInv, TypeOK, StreamOK, logVars, ackVars
<1>5. CASE RemoveNode(l)
  <2>1. conn' \in [Lobe -> {"down", "snap", "up"}] /\ StreamOK' /\ faults' \in Nat
    BY <1>5, CloseConnTypes, FaultType DEF RemoveNode, logVars, TInv
  <2>2. acks' \in [Lobe -> Seq(Position)] /\ late' \in [Lobe -> SUBSET Position]
    BY <1>5, DropAcksTypes DEF RemoveNode, TInv
  <2>3. 0 \in Position
    BY NatFacts DEF Position
  <2>4. /\ replicaSeq' \in [Lobe -> Position \cup {None}]
        /\ snapSeq' \in [Lobe -> Position]
    BY <1>5, <2>3 DEF RemoveNode, TInv, TypeOK
  <2>5. held' \in [Lobe -> SUBSET Entry]
    BY <1>5, LeftOverType DEF RemoveNode, TInv, TypeOK
  <2>6. QED
    BY <1>5, <2>1, <2>2, <2>4, <2>5 DEF RemoveNode, TInv, TypeOK, StreamOK, logVars
<1>6. CASE RestartStream(l)
  <2>1. StreamOK' /\ faults' \in Nat
    BY <1>6, StartStreamTypes, FaultType DEF RestartStream, logVars, TInv
  <2>2. QED
    BY <1>6, <2>1
    DEF RestartStream, TInv, TypeOK, StreamOK, logVars, ackVars, connVars, lobeVars
<1>7. CASE StreamGivesUp(l)
  <2>1. StreamOK' /\ faults' \in Nat
    BY <1>7, StopStreamTypes, FaultType DEF StreamGivesUp, logVars, TInv
  <2>2. QED
    BY <1>7, <2>1
    DEF StreamGivesUp, TInv, TypeOK, StreamOK, logVars, ackVars, connVars, lobeVars
<1>8. CASE ApplyFails(l)
  <2>1. wire[l] \in Seq(Entry) /\ wire[l] # <<>>
    BY <1>8 DEF ApplyFails, TInv, TypeOK
  <2>2. Head(wire[l]) \in Entry /\ Tail(wire[l]) \in Seq(Entry)
    BY <2>1
  <2>3. acks' \in [Lobe -> Seq(Position)]
    BY <1>8, SendAckType DEF ApplyFails, TInv, TypeOK
  <2>4. faults' \in Nat
    BY <1>8, FaultType DEF ApplyFails, TInv
  <2>5. QED
    BY <1>8, <2>2, <2>3, <2>4
    DEF ApplyFails, TInv, TypeOK, BatchOK, logVars, ackVars, sendVars
<1>9. QED
  BY <1>1, <1>2, <1>3, <1>4, <1>5, <1>6, <1>7, <1>8 DEF GoWrong

LEMMA CortexRestartTInv == ASSUME TInv, CortexRestart PROVE TInv'
<1>1. faults' \in Nat
  BY FaultType DEF CortexRestart, TInv
<1>2. held' \in [Lobe -> SUBSET Entry]
  BY DEF CortexRestart, TInv, TypeOK
<1>3. 0 \in Position
  BY NatFacts DEF Position
<1>4. prune' \in [stage : {"none", "collect", "evict"}, upto : Position, behind : SUBSET Lobe]
  BY <1>3 DEF CortexRestart, NoPrune
<1>5. BatchOK'
  BY DEF CortexRestart, BatchOK
<1>6. QED
  BY <1>1, <1>2, <1>3, <1>4, <1>5 DEF CortexRestart, TInv, TypeOK

LEMMA LowestAck ==
    ASSUME TypeOK
    PROVE  /\ MinReplicatedSeq \in Position
           /\ \A l \in Acked : MinReplicatedSeq <= replicaSeq[l]
<1>1. CASE Acked = {}
  BY <1>1, NatFacts DEF MinReplicatedSeq, Position
<1>2. CASE Acked # {}
  <2> DEFINE S == {replicaSeq[l] : l \in Acked}
  <2>1. S \subseteq Position /\ S # {}
    <3>1. \A l \in Acked : replicaSeq[l] \in Position
      BY DEF TypeOK, Acked
    <3>2. QED
      BY <1>2, <3>1
  <2>2. \E x \in S : \A y \in S : x <= y
    <3> HIDE DEF S
    <3> QED BY <2>1, NatMin, NatFacts
  <2>3. \E x \in S : \A l \in Acked : x <= replicaSeq[l]
    BY <2>2
  <2>4. MinReplicatedSeq = CHOOSE x \in S : \A l \in Acked : x <= replicaSeq[l]
    BY <1>2 DEF MinReplicatedSeq
  <2>5. MinReplicatedSeq \in S /\ \A l \in Acked : MinReplicatedSeq <= replicaSeq[l]
    BY <2>3, <2>4
  <2>6. QED
    BY <2>1, <2>5
<1>3. QED
  BY <1>1, <1>2

LEMMA PruneTInv == ASSUME TInv, PruneCycle PROVE TInv'
<1> DEFINE Cycle == [stage : {"none", "collect", "evict"}, upto : Position, behind : SUBSET Lobe]
<1>1. CASE PruneTick
  <2>1. Larger(MinReplicatedSeq, Ceiling) \in Position
    <3>1. Ceiling \in Position
      BY NatFacts DEF Ceiling, TInv, TypeOK, Position
    <3>2. QED
      BY <3>1, LowestAck DEF TInv, Larger
  <2>2. prune' \in Cycle
    BY <1>1, <2>1 DEF PruneTick
  <2>3. QED
    BY <1>1, <2>2
    DEF PruneTick, TInv, TypeOK, BatchOK, ackVars, connVars, sendVars, lobeVars
<1>2. CASE CollectBehind
  <2>1. prune' \in Cycle
    BY <1>2 DEF CollectBehind, TInv, TypeOK, Acked
  <2>2. QED
    BY <1>2, <2>1
    DEF CollectBehind, TInv, TypeOK, BatchOK, ackVars, connVars, sendVars, lobeVars
<1>3. ASSUME NEW l \in Lobe, EvictLobe(l) PROVE TInv'
  <2>1. prune' \in Cycle
    BY <1>3 DEF EvictLobe, TInv, TypeOK
  <2>2. conn' \in [Lobe -> {"down", "snap", "up"}] /\ StreamOK'
    BY <1>3, CloseConnTypes DEF EvictLobe
  <2>3. acks' \in [Lobe -> Seq(Position)] /\ late' \in [Lobe -> SUBSET Position]
    BY <1>3, DropAcksTypes DEF EvictLobe, TInv
  <2>4. held' \in [Lobe -> SUBSET Entry] /\ replicaSeq' \in [Lobe -> Position \cup {None}]
    BY <1>3, LeftOverType DEF EvictLobe, TInv, TypeOK
  <2>5. QED
    BY <1>3, <2>1, <2>2, <2>3, <2>4 DEF EvictLobe, TInv, TypeOK, StreamOK
<1>4. CASE PruneLog
  <2>1. prune' \in Cycle
    BY <1>4, NatFacts DEF PruneLog, NoPrune, Position
  <2>2. pruned' \in Position
    BY <1>4 DEF PruneLog, TInv, TypeOK, Larger
  <2>3. QED
    BY <1>4, <2>1, <2>2
    DEF PruneLog, TInv, TypeOK, BatchOK, ackVars, connVars, sendVars, lobeVars
<1>5. QED
  BY <1>1, <1>2, <1>3, <1>4 DEF PruneCycle

LEMMA NextTInv == ASSUME TInv, [Next]_vars PROVE TInv'
<1>1. CASE Next
  BY <1>1, WriteTInv, ShipTInv, ReceiveTInv, ConnectTInv, GoWrongTInv, PruneTInv,
     CortexRestartTInv DEF Next
<1>2. CASE UNCHANGED vars
  BY <1>2 DEF vars, logVars, ackVars, connVars, sendVars, lobeVars, TInv, TypeOK, BatchOK
<1>3. QED
  BY <1>1, <1>2

\* Type correctness, whatever faults the instance allows.
THEOREM TypeCorrect == Spec => []TypeOK
<1>1. Init => TInv
  BY InitTInv
<1>2. TInv /\ [Next]_vars => TInv'
  BY NextTInv
<1>3. TInv => TypeOK
  BY DEF TInv
<1>4. QED
  BY <1>1, <1>2, <1>3, PTL DEF Spec

-----------------------------------------------------------------------------
(***************************************************************************)
(* The data.  A Lobe has an entry when its database reflects it, when it   *)
(* left the log, or when its Apply failed; these are the entries a cursor  *)
(* or an ack may cover.  A Lobe that keeps its disk is sound all the time. *)
(* One that may lose it is sound while it is connected, and after that for *)
(* as long as frames of the old connection are left: from there on until   *)
(* the next snapshot nothing is promised.                                  *)
(***************************************************************************)
KeepsDisk == Snapshots \/ Faults \cap {"crash", "wipe"} = {}

Have(l) == held[l] \cup 1 .. pruned \cup failed[l]
Covered(l, p) == \A e \in 1 .. p : e \in Have(l)

\* Everything up to p is there or among the first n frames on the wire.
Coming(l, p, n) == \A e \in 1 .. p : e \in Have(l) \/ \E j \in 1 .. n : wire[l][j] = e

\* No position is past the head of the log.
Bounded(l) ==
    /\ replicaSeq[l] # None => replicaSeq[l] <= head
    /\ snapSeq[l] <= head /\ lastSeq[l] <= head /\ applied[l] <= head
    /\ \A seq \in late[l] : seq <= head
    /\ \A i \in 1 .. Len(acks[l]) : acks[l][i] <= head
    /\ \A i \in 1 .. Len(wire[l]) : wire[l][i] <= head

\* While a snapshot is copied, what is known of the Lobe is older than it.
Copying(l) ==
    /\ conn[l] = "snap" =>
          /\ replicaSeq[l] # None => replicaSeq[l] <= snapSeq[l]
          /\ \A seq \in late[l] : seq <= snapSeq[l]
          /\ wire[l] = <<>> /\ acks[l] = <<>>
    /\ phase[l] # "off" => conn[l] = "up"
    /\ ~Snapshots => conn[l] # "snap" /\ snapSeq[l] = 0

Intact(l) == conn[l] = "up" \/ ~Snapshots \/ wire[l] # <<>>

\* Every position recorded for the Lobe covers only what it has.
Positions(l) ==
    /\ Covered(l, applied[l]) /\ Covered(l, snapSeq[l])
    /\ replicaSeq[l] # None => Covered(l, replicaSeq[l])
    /\ \A seq \in late[l] : Covered(l, seq)
    /\ \A i \in 1 .. Len(acks[l]) : Covered(l, acks[l][i])

\* A frame comes after all it builds on, and so does what is still to be sent.
Frames(l) == \A i \in 1 .. Len(wire[l]) : Coming(l, wire[l][i] - 1, i - 1)
Stream(l) ==
    /\ phase[l] # "off" => Coming(l, lastSeq[l], Len(wire[l]))
    /\ phase[l] = "send" => Coming(l, from[l] - 1, Len(wire[l]))

Sound(l) == Positions(l) /\ Frames(l) /\ Stream(l)

LobeInv(l) == Bounded(l) /\ Copying(l) /\ (Intact(l) => Sound(l))

IInv == TInv /\ pruned <= head /\ \A l \in Lobe : LobeInv(l)

LEMMA InitIInv == Init => IInv
<1> SUFFICES ASSUME Init PROVE pruned <= head /\ \A l \in Lobe : LobeInv(l)
  BY InitTInv DEF IInv
<1>1. pruned <= head
  BY DEF Init
<1>2. ASSUME NEW l \in Lobe PROVE LobeInv(l)
  <2>1. Bounded(l) /\ Copying(l)
    BY DEF Init, Bounded, Copying
  <2>2. Sound(l)
    BY DEF Init, Sound, Positions, Frames, Stream, Covered, Coming
  <2>3. QED
    BY <2>1, <2>2 DEF LobeInv
<1>3. QED
  BY <1>1, <1>2

\* What a step leaves alone of a Lobe.
SameLobe(l) ==
    /\ replicaSeq'[l] = replicaSeq[l] /\ snapSeq'[l] = snapSeq[l] /\ late'[l] = late[l]
    /\ conn'[l] = conn[l] /\ wire'[l] = wire[l] /\ acks'[l] = acks[l]
    /\ phase'[l] = phase[l] /\ lastSeq'[l] = lastSeq[l] /\ from'[l] = from[l]
    /\ applied'[l] = applied[l] /\ held'[l] = held[l] /\ failed'[l] = failed[l]

\* The types of one Lobe's part of the state, for the provers.
LobeTypes(l) ==
    /\ replicaSeq[l] \in Position \cup {None} /\ snapSeq[l] \in Position
    /\ late[l] \subseteq Position
    /\ conn[l] \in {"down", "snap", "up"}
    /\ wire[l] \in Seq(Entry) /\ acks[l] \in Seq(Position)
    /\ phase[l] \in {"off", "read", "send", "idle", "wait"}
    /\ lastSeq[l] \in Position /\ from[l] \in Nat /\ till[l] \in Nat
    /\ applied[l] \in Position
    /\ held[l] \subseteq Entry /\ failed[l] \subseteq Entry
    /\ head \in Nat /\ pruned \in Nat

LEMMA TypesOfLobe == ASSUME TInv, NEW l \in Lobe PROVE LobeTypes(l)
BY NatFacts DEF TInv, TypeOK, LobeTypes

LEMMA TypesOfLobePrimed == ASSUME TInv', NEW l \in Lobe PROVE LobeTypes(l)'
BY NatFacts DEF TInv, TypeOK, LobeTypes

\* The log may grow and be pruned under a Lobe that takes no step.
LEMMA Frame ==
    ASSUME TInv, TInv', NEW l \in Lobe, LobeInv(l), SameLobe(l),
           head <= head', pruned <= pruned'
    PROVE  LobeInv(l)'
<1>1. LobeTypes(l)
  BY TypesOfLobe
<1>2. head' \in Nat /\ pruned' \in Nat
  BY TypesOfLobePrimed DEF LobeTypes
<1>3. Have(l) \subseteq Have(l)'
  BY <1>1, <1>2 DEF Have, SameLobe, LobeTypes
<1>4. Bounded(l)'
  <2>1. \A p \in Nat : p <= head => p <= head'
    BY <1>1, <1>2 DEF LobeTypes
  <2>2. /\ \A i \in 1 .. Len(acks[l]) : acks[l][i] \in Nat
        /\ \A i \in 1 .. Len(wire[l]) : wire[l][i] \in Nat
    BY <1>1, NatFacts DEF LobeTypes
  <2>3. /\ replicaSeq[l] # None => replicaSeq[l] \in Nat
        /\ snapSeq[l] \in Nat /\ lastSeq[l] \in Nat /\ applied[l] \in Nat
        /\ \A seq \in late[l] : seq \in Nat
    BY <1>1, NatFacts DEF LobeTypes
  <2>4. QED
    BY <2>1, <2>2, <2>3 DEF LobeInv, Bounded, SameLobe
<1>5. Copying(l)'
  BY DEF LobeInv, Copying, SameLobe
<1>6. Sound(l) => Sound(l)'
  <2>1. Positions(l) => Positions(l)'
    BY <1>3 DEF Positions, Covered, SameLobe
  <2>2. Frames(l) => Frames(l)'
    BY <1>3 DEF Frames, Coming, SameLobe
  <2>3. Stream(l) => Stream(l)'
    BY <1>3 DEF Stream, Coming, SameLobe
  <2>4. QED
    BY <2>1, <2>2, <2>3 DEF Sound
<1>7. Intact(l)' => Intact(l)
  BY DEF Intact, SameLobe
<1>8. QED
  BY <1>4, <1>5, <1>6, <1>7 DEF LobeInv

\* Every way a connection ends: the positions stay or are forgotten, the acks
\* in it may move to late, frames stay or are gone, and the data are kept but
\* for a snapshot cut short.
Closed(l) ==
    /\ conn'[l] = "down" /\ phase'[l] = "off" /\ lastSeq'[l] = lastSeq[l]
    /\ wire'[l] = wire[l] \/ wire'[l] = <<>>
    /\ acks'[l] = acks[l] \/ acks'[l] = <<>>
    /\ \A seq \in late'[l] : seq \in late[l] \/ \E i \in 1 .. Len(acks[l]) : acks[l][i] = seq
    /\ replicaSeq'[l] = replicaSeq[l] \/ replicaSeq'[l] = None
    /\ snapSeq'[l] = snapSeq[l] \/ snapSeq'[l] = 0
    /\ applied'[l] = applied[l] /\ failed'[l] = failed[l]
    /\ conn[l] # "snap" => held'[l] = held[l]

LEMMA ClosedFrame ==
    ASSUME TInv, TInv', NEW l \in Lobe, LobeInv(l), Closed(l), UNCHANGED <<head, pruned>>
    PROVE  LobeInv(l)'
<1>1. LobeTypes(l) /\ LobeTypes(l)'
  BY TypesOfLobe, TypesOfLobePrimed
<1>2. Bounded(l)'
  BY <1>1, NatFacts DEF LobeInv, Bounded, Closed, LobeTypes
<1>3. Copying(l)'
  BY DEF LobeInv, Copying, Closed
<1>4. ASSUME Intact(l)' PROVE Sound(l)'
  <2>1. conn[l] # "snap" /\ Sound(l)
    BY <1>4 DEF Intact, Closed, LobeInv, Copying
  <2>2. Have(l)' = Have(l)
    BY <2>1 DEF Have, Closed
  <2>3. Positions(l)'
    <3>1. Covered(l, 0)'
      BY DEF Covered
    <3>2. \A p : Covered(l, p) => Covered(l, p)'
      BY <2>2 DEF Covered
    <3>3. \A seq \in late'[l] : Covered(l, seq)
      BY <2>1 DEF Sound, Positions, Closed
    <3>4. QED
      BY <2>1, <3>1, <3>2, <3>3 DEF Sound, Positions, Closed
  <2>4. Frames(l)'
    BY <2>1, <2>2 DEF Sound, Frames, Coming, Closed
  <2>5. Stream(l)'
    BY DEF Stream, Closed
  <2>6. QED
    BY <2>3, <2>4, <2>5 DEF Sound
<1>5. QED
  BY <1>2, <1>3, <1>4 DEF LobeInv

LEMMA DropAcksCloses ==
    ASSUME TInv, NEW l \in Lobe, DropAcks(l)
    PROVE  /\ acks'[l] = <<>>
           /\ \A seq \in late'[l] :
                 seq \in late[l] \/ \E i \in 1 .. Len(acks[l]) : acks[l][i] = seq
           /\ \A m \in Lobe \ {l} : acks'[m] = acks[m] /\ late'[m] = late[m]
<1>1. /\ acks'[l] = <<>>
      /\ \A m \in Lobe \ {l} : acks'[m] = acks[m] /\ late'[m] = late[m]
  BY DEF DropAcks, TInv, TypeOK
<1>2. CASE UNCHANGED late
  BY <1>1, <1>2
<1>3. CASE acks[l] # <<>> /\ late' = [late EXCEPT ![l] = @ \cup {Head(acks[l])}]
  <2>1. late'[l] = late[l] \cup {Head(acks[l])}
    BY <1>3 DEF TInv, TypeOK
  <2>2. acks[l] \in Seq(Position)
    BY DEF TInv, TypeOK
  <2>3. Head(acks[l]) = acks[l][1] /\ 1 \in 1 .. Len(acks[l])
    BY <1>3, <2>2
  <2>4. QED
    BY <1>1, <2>1, <2>3
<1>4. QED
  BY <1>2, <1>3 DEF DropAcks

\* A streamer that starts at a position the Lobe has covered.
LEMMA StartSeqCovered ==
    ASSUME TInv, NEW l \in Lobe, Bounded(l), Positions(l)
    PROVE  Covered(l, StartSeq(l)) /\ StartSeq(l) <= head
<1>1. LobeTypes(l)
  BY TypesOfLobe
<1>2. CASE replicaSeq[l] = None
  <2>1. snapSeq[l] \in Nat
    BY <1>1, NatFacts DEF LobeTypes
  <2>2. StartSeq(l) = Larger(0, snapSeq[l])
    BY <1>2 DEF StartSeq
  <2>3. StartSeq(l) = snapSeq[l]
    BY <2>1, <2>2 DEF Larger
  <2>4. QED
    BY <2>3 DEF Positions, Bounded
<1>3. CASE replicaSeq[l] # None
  <2>1. StartSeq(l) = snapSeq[l] \/ StartSeq(l) = replicaSeq[l]
    BY <1>3 DEF StartSeq, Larger
  <2>2. QED
    BY <1>3, <2>1 DEF Positions, Bounded
<1>4. QED
  BY <1>2, <1>3

-----------------------------------------------------------------------------
(***************************************************************************)
(* The steps of the Cortex's streamer.                                     *)
(***************************************************************************)
LEMMA ReadBatchInv ==
    ASSUME TInv, TInv', NEW l \in Lobe, LobeInv(l), ReadBatch(l)
    PROVE  LobeInv(l)'
<1>1. LobeTypes(l) /\ LobeTypes(l)'
  BY TypesOfLobe, TypesOfLobePrimed
<1>2. /\ UNCHANGED <<head, pruned, replicaSeq, snapSeq, late, conn, wire, acks, lastSeq>>
      /\ UNCHANGED <<applied, held, failed>>
      /\ phase[l] = "read" /\ phase'[l] \in {"send", "idle"}
      /\ phase'[l] = "send" => from'[l] = Larger(lastSeq[l], pruned) + 1
  BY DEF ReadBatch, TInv, TypeOK, logVars, ackVars, connVars, lobeVars
<1>3. Bounded(l)' /\ Copying(l)' /\ conn[l] = "up"
  BY <1>2 DEF LobeInv, Bounded, Copying
<1>4. Have(l)' = Have(l)
  BY <1>2 DEF Have
<1>5. Sound(l)
  BY <1>3 DEF LobeInv, Intact
<1>6. Positions(l)' /\ Frames(l)'
  BY <1>2, <1>4, <1>5 DEF Sound, Positions, Covered, Frames, Coming
<1>7. Stream(l)'
  <2>1. Coming(l, lastSeq[l], Len(wire[l]))
    BY <1>2, <1>5 DEF Sound, Stream
  <2>2. Coming(l, Larger(lastSeq[l], pruned), Len(wire[l]))
    <3> SUFFICES ASSUME NEW e \in 1 .. Larger(lastSeq[l], pruned), e \notin Have(l)
                 PROVE  \E j \in 1 .. Len(wire[l]) : wire[l][j] = e
      BY DEF Coming
    <3>1. ~(e \in 1 .. pruned)
      BY DEF Have
    <3>2. e \in 1 .. lastSeq[l]
      BY <1>1, <3>1, NatFacts DEF Larger, LobeTypes
    <3>3. QED
      BY <2>1, <3>2 DEF Coming
  <2>3. phase'[l] = "send" => from'[l] - 1 = Larger(lastSeq[l], pruned)
    <3>1. Larger(lastSeq[l], pruned) \in Nat
      BY <1>1, NatFacts DEF Larger, LobeTypes
    <3>2. QED
      BY <1>2, <3>1
  <2>4. QED
    BY <1>2, <1>4, <2>1, <2>2, <2>3 DEF Stream, Coming
<1>8. QED
  BY <1>3, <1>6, <1>7 DEF LobeInv, Sound

LEMMA SendEntryInv ==
    ASSUME TInv, TInv', NEW l \in Lobe, LobeInv(l), SendEntry(l)
    PROVE  LobeInv(l)'
<1>1. LobeTypes(l) /\ LobeTypes(l)'
  BY TypesOfLobe, TypesOfLobePrimed
<1>2. PICK x \in Nat, n \in Nat : x = from[l] /\ n = Len(wire[l])
  BY <1>1 DEF LobeTypes
<1>3. /\ UNCHANGED <<head, pruned, replicaSeq, snapSeq, late, conn, acks>>
      /\ UNCHANGED <<applied, held, failed>>
      /\ phase[l] = "send" /\ phase'[l] \in {"send", "read"}
      /\ wire'[l] = Append(wire[l], x)
      /\ lastSeq'[l] = x /\ from'[l] = x + 1
  BY <1>2 DEF SendEntry, TInv, TypeOK, logVars, ackVars, lobeVars
<1>4. 1 <= x /\ x <= head
  BY <1>1, <1>2, <1>3 DEF TInv, BatchOK, LobeTypes
<1>5. /\ Len(wire'[l]) = n + 1 /\ wire'[l][n + 1] = x
      /\ \A i \in 1 .. n : wire'[l][i] = wire[l][i]
  BY <1>1, <1>2, <1>3 DEF LobeTypes
<1>6. conn[l] = "up" /\ Sound(l)
  BY <1>3 DEF LobeInv, Copying, Intact
<1>7. Bounded(l)'
  BY <1>2, <1>3, <1>4, <1>5 DEF LobeInv, Bounded
<1>8. Copying(l)'
  BY <1>3, <1>6 DEF LobeInv, Copying
<1>9. Have(l)' = Have(l)
  BY <1>3 DEF Have
<1>10. Positions(l)'
  BY <1>3, <1>6, <1>9 DEF Sound, Positions, Covered
<1>11. Coming(l, x - 1, n)
  BY <1>2, <1>3, <1>6 DEF Sound, Stream
<1>12. ASSUME NEW p, NEW k \in 0 .. n, Coming(l, p, k) PROVE Coming(l, p, k)'
  BY <1>5, <1>9, <1>12 DEF Coming
<1>13. Frames(l)'
  <2> SUFFICES ASSUME NEW i \in 1 .. (n + 1), NEW f, f = wire'[l][i]
               PROVE  Coming(l, f - 1, i - 1)'
    BY <1>5 DEF Frames, Coming
  <2>1. CASE i \in 1 .. n
    BY <1>2, <1>5, <1>6, <1>12, <2>1 DEF Sound, Frames
  <2>2. CASE i = n + 1
    BY <1>5, <1>11, <1>12, <2>2
  <2>3. QED
    BY <2>1, <2>2
<1>14. Coming(l, x, n + 1)'
  <2> SUFFICES ASSUME NEW e \in 1 .. x
               PROVE  e \in Have(l)' \/ \E j \in 1 .. (n + 1) : wire'[l][j] = e
    BY DEF Coming
  <2>1. CASE e = x
    BY <1>5, <2>1
  <2>2. CASE e \in 1 .. (x - 1)
    BY <1>5, <1>9, <1>11, <2>2 DEF Coming
  <2>3. QED
    BY <2>1, <2>2
<1>15. Stream(l)'
  <2>1. from'[l] - 1 = x
    BY <1>2, <1>3
  <2>2. QED
    BY <1>3, <1>5, <1>14, <2>1 DEF Stream, Coming
<1>16. QED
  BY <1>7, <1>8, <1>10, <1>13, <1>15 DEF LobeInv, Sound

\* A streamer that waits or wakes changes nothing the invariant speaks of.
LEMMA WaitInv ==
    ASSUME TInv, TInv', NEW l \in Lobe, LobeInv(l), Await(l) \/ Wake(l)
    PROVE  LobeInv(l)'
<1>1. /\ UNCHANGED <<head, pruned, replicaSeq, snapSeq, late, conn, wire, acks, lastSeq>>
      /\ UNCHANGED <<applied, held, failed>>
      /\ phase[l] # "off" /\ phase'[l] \in {"wait", "read"}
  BY DEF Await, Wake, TInv, TypeOK, logVars, ackVars, connVars, lobeVars
<1>2. Have(l)' = Have(l)
  BY <1>1 DEF Have
<1>3. QED
  BY <1>1, <1>2 DEF LobeInv, Bounded, Copying, Intact, Sound, Positions, Covered,
                    Frames, Stream, Coming

-----------------------------------------------------------------------------
(***************************************************************************)
(* The steps of the Lobe and of the acks' reader.                          *)
(***************************************************************************)
\* A frame leaves the wire and what it carried is there.
LEMMA TakeFrame ==
    ASSUME TInv, TInv', NEW l \in Lobe, wire[l] # <<>>, wire'[l] = Tail(wire[l]),
           phase'[l] = phase[l], lastSeq'[l] = lastSeq[l], from'[l] = from[l],
           Have(l) \subseteq Have(l)', Head(wire[l]) \in Have(l)',
           Frames(l), Stream(l)
    PROVE  Frames(l)' /\ Stream(l)'
<1>1. LobeTypes(l) /\ LobeTypes(l)'
  BY TypesOfLobe, TypesOfLobePrimed
<1>2. PICK n \in Nat : n = Len(wire[l]) /\ n >= 1
  BY <1>1 DEF LobeTypes
<1>3. /\ Len(wire'[l]) = n - 1 /\ wire[l][1] \in Have(l)'
      /\ \A i \in 1 .. (n - 1) : wire'[l][i] = wire[l][i + 1]
  BY <1>1, <1>2 DEF LobeTypes
<1>4. ASSUME NEW p, NEW k \in 1 .. n, Coming(l, p, k)
      PROVE  Coming(l, p, k - 1)'
  <2> SUFFICES ASSUME NEW e \in 1 .. p, e \notin Have(l)'
               PROVE  \E j \in 1 .. (k - 1) : wire'[l][j] = e
    BY DEF Coming
  <2>1. PICK j \in 1 .. k : wire[l][j] = e
    BY <1>4 DEF Coming
  <2>2. j # 1
    BY <1>3, <2>1
  <2>3. j - 1 \in 1 .. (k - 1) /\ j - 1 \in 1 .. (n - 1)
    BY <2>2
  <2>4. wire'[l][j - 1] = e
    BY <1>3, <2>1, <2>3
  <2>5. QED
    BY <2>3, <2>4
<1>5. Frames(l)'
  <2> SUFFICES ASSUME NEW i \in 1 .. (n - 1), NEW f, f = wire'[l][i]
               PROVE  Coming(l, f - 1, i - 1)'
    BY <1>3 DEF Frames, Coming
  <2>1. f = wire[l][i + 1] /\ i + 1 \in 1 .. n
    BY <1>3
  <2>2. Coming(l, f - 1, i)
    BY <1>2, <2>1 DEF Frames
  <2>3. PICK q : q = f - 1
    OBVIOUS
  <2>4. Coming(l, q, i)
    BY <2>2, <2>3
  <2>5. i \in 1 .. n
    OBVIOUS
  <2>6. Coming(l, q, i - 1)'
    BY <1>4, <2>4, <2>5
  <2>7. QED
    BY <2>3, <2>6
<1>6. Stream(l)'
  <2>1. ASSUME NEW p, Coming(l, p, n) PROVE Coming(l, p, n - 1)'
    BY <1>2, <1>4, <2>1
  <2>2. PICK s, f : s = lastSeq[l] /\ f = from[l]
    OBVIOUS
  <2>3. phase[l] # "off" => Coming(l, s, n - 1)'
    BY <1>2, <2>1, <2>2 DEF Stream
  <2>4. phase[l] = "send" => Coming(l, f - 1, n - 1)'
    BY <1>2, <2>1, <2>2 DEF Stream
  <2>5. QED
    BY <1>3, <2>2, <2>3, <2>4 DEF Stream, Coming
<1>7. QED
  BY <1>5, <1>6

LEMMA ApplyInv ==
    ASSUME TInv, TInv', NEW l \in Lobe, LobeInv(l), Apply(l)
    PROVE  LobeInv(l)'
<1>1. LobeTypes(l) /\ LobeTypes(l)'
  BY TypesOfLobe, TypesOfLobePrimed
<1>2. PICK x \in Entry, a \in Position : x = Head(wire[l]) /\ a = Larger(applied[l], x)
  <2>1. Head(wire[l]) \in Entry
    BY <1>1 DEF Apply, LobeTypes
  <2>2. QED
    BY <1>1, <2>1, NatFacts DEF Larger, LobeTypes
<1>3. /\ UNCHANGED <<head, pruned, replicaSeq, snapSeq, late, conn, phase, lastSeq, from>>
      /\ wire[l] # <<>> /\ wire'[l] = Tail(wire[l])
      /\ applied'[l] = a
      /\ held'[l] = IF x > applied[l] THEN held[l] \cup {x} ELSE held[l]
      /\ failed'[l] = IF x > applied[l] THEN failed[l] \ {x} ELSE failed[l]
      /\ acks'[l] = IF conn[l] = "up" THEN Append(acks[l], a) ELSE acks[l]
  BY <1>2 DEF Apply, SendAck, TInv, TypeOK, logVars, ackVars, sendVars
<1>4. /\ x \in Nat /\ a \in Nat /\ x <= head /\ a <= head /\ x = wire[l][1]
      /\ \A i \in 1 .. Len(wire'[l]) : i + 1 \in 1 .. Len(wire[l]) /\ wire'[l][i] = wire[l][i + 1]
  <2>1. wire[l] \in Seq(Entry) /\ wire[l] # <<>>
    BY <1>1, <1>3 DEF LobeTypes
  <2>2. /\ x = wire[l][1] /\ 1 \in 1 .. Len(wire[l])
        /\ \A i \in 1 .. Len(wire'[l]) : i + 1 \in 1 .. Len(wire[l]) /\ wire'[l][i] = wire[l][i + 1]
    BY <1>2, <1>3, <2>1
  <2>3. x \in Nat /\ a \in Nat /\ applied[l] \in Nat
    BY <1>1, NatFacts DEF LobeTypes
  <2>4. x <= head /\ applied[l] <= head
    BY <2>2 DEF LobeInv, Bounded
  <2>5. QED
    BY <1>2, <2>2, <2>3, <2>4 DEF Larger
<1>5. \A i \in 1 .. Len(acks'[l]) :
         acks'[l][i] = a \/ (i \in 1 .. Len(acks[l]) /\ acks'[l][i] = acks[l][i])
  BY <1>1, <1>3 DEF LobeTypes
<1>6. Bounded(l)'
  BY <1>3, <1>4, <1>5 DEF LobeInv, Bounded
<1>7. conn[l] # "snap"
  BY <1>3 DEF LobeInv, Copying
<1>8. Copying(l)'
  BY <1>3, <1>7 DEF LobeInv, Copying
<1>9. Sound(l)
  BY <1>3 DEF LobeInv, Intact
<1>10. Have(l) \subseteq Have(l)' /\ x \in Have(l)'
  <2>1. CASE x > applied[l]
    BY <1>3, <2>1 DEF Have
  <2>2. CASE ~(x > applied[l])
    <3>1. x \in 1 .. applied[l]
      <4>1. 1 <= x
        BY NatFacts DEF Entry
      <4>2. applied[l] \in Nat
        BY <1>1, NatFacts DEF LobeTypes
      <4>3. QED
        BY <1>4, <2>2, <4>1, <4>2
    <3>2. x \in Have(l)
      BY <1>9, <3>1 DEF Sound, Positions, Covered
    <3>3. QED
      BY <1>3, <2>2, <3>2 DEF Have
  <2>3. QED
    BY <2>1, <2>2
<1>11. Covered(l, a)'
  <2>1. Coming(l, x - 1, 0)
    BY <1>1, <1>3, <1>4, <1>9 DEF Sound, Frames, LobeTypes
  <2> SUFFICES ASSUME NEW e \in 1 .. a PROVE e \in Have(l)'
    BY DEF Covered
  <2>2. e \in 1 .. applied[l] \/ e \in 1 .. (x - 1) \/ e = x
    BY <1>1, <1>2, <1>4, NatFacts DEF Larger, LobeTypes
  <2>3. e \in 1 .. applied[l] => e \in Have(l)
    BY <1>9 DEF Sound, Positions, Covered
  <2>4. e \in 1 .. (x - 1) => e \in Have(l)
    BY <2>1 DEF Coming
  <2>5. QED
    BY <1>10, <2>2, <2>3, <2>4
<1>12. Positions(l)'
  <2>1. ASSUME NEW p, Covered(l, p) PROVE Covered(l, p)'
    BY <1>10, <2>1 DEF Covered
  <2>2. Covered(l, a)' <=> Covered(l, applied[l])'
    BY <1>3 DEF Covered
  <2>3. /\ Covered(l, snapSeq[l])
        /\ replicaSeq[l] # None => Covered(l, replicaSeq[l])
        /\ \A seq \in late[l] : Covered(l, seq)
        /\ \A i \in 1 .. Len(acks[l]) : Covered(l, acks[l][i])
    BY <1>9 DEF Sound, Positions
  <2>4. /\ Covered(l, snapSeq[l])'
        /\ replicaSeq'[l] # None => Covered(l, replicaSeq[l])'
        /\ \A seq \in late'[l] : Covered(l, seq)'
    BY <1>3, <1>10, <2>3 DEF Covered
  <2>5. \A i \in 1 .. Len(acks'[l]) : Covered(l, acks[l][i])'
    BY <1>5, <1>10, <1>11, <2>3 DEF Covered
  <2>6. QED
    BY <1>11, <2>2, <2>4, <2>5 DEF Positions
<1>13. Frames(l)' /\ Stream(l)'
  BY <1>2, <1>3, <1>9, <1>10, TakeFrame DEF Sound
<1>14. QED
  BY <1>6, <1>8, <1>12, <1>13 DEF LobeInv, Sound

LEMMA ApplyFailsInv ==
    ASSUME TInv, TInv', NEW l \in Lobe, LobeInv(l), ApplyFails(l)
    PROVE  LobeInv(l)'
<1>1. LobeTypes(l) /\ LobeTypes(l)'
  BY TypesOfLobe, TypesOfLobePrimed
<1>2. /\ UNCHANGED <<head, pruned, replicaSeq, snapSeq, late, conn, phase, lastSeq, from>>
      /\ UNCHANGED <<applied, held>>
      /\ wire[l] # <<>> /\ wire'[l] = Tail(wire[l])
      /\ failed'[l] = failed[l] \cup {Head(wire[l])}
      /\ acks'[l] = IF conn[l] = "up" THEN Append(acks[l], applied[l]) ELSE acks[l]
  BY DEF ApplyFails, SendAck, TInv, TypeOK, logVars, ackVars, sendVars
<1>3. \A i \in 1 .. Len(wire'[l]) : i + 1 \in 1 .. Len(wire[l]) /\ wire'[l][i] = wire[l][i + 1]
  BY <1>1, <1>2 DEF LobeTypes
<1>4. \A i \in 1 .. Len(acks'[l]) :
         acks'[l][i] = applied[l] \/ (i \in 1 .. Len(acks[l]) /\ acks'[l][i] = acks[l][i])
  BY <1>1, <1>2 DEF LobeTypes
<1>5. Bounded(l)'
  BY <1>2, <1>3, <1>4 DEF LobeInv, Bounded
<1>6. Copying(l)' /\ Sound(l)
  BY <1>2 DEF LobeInv, Copying, Intact
<1>7. Have(l) \subseteq Have(l)' /\ Head(wire[l]) \in Have(l)'
  BY <1>2 DEF Have
<1>8. Positions(l)'
  <2>1. /\ Covered(l, applied[l]) /\ Covered(l, snapSeq[l])
        /\ replicaSeq[l] # None => Covered(l, replicaSeq[l])
        /\ \A seq \in late[l] : Covered(l, seq)
        /\ \A i \in 1 .. Len(acks[l]) : Covered(l, acks[l][i])
    BY <1>6 DEF Sound, Positions
  <2>2. /\ Covered(l, applied[l])' /\ Covered(l, snapSeq[l])'
        /\ replicaSeq'[l] # None => Covered(l, replicaSeq[l])'
        /\ \A seq \in late'[l] : Covered(l, seq)'
    BY <1>2, <1>7, <2>1 DEF Covered
  <2>3. \A i \in 1 .. Len(acks'[l]) : Covered(l, acks[l][i])'
    BY <1>4, <1>7, <2>1 DEF Covered
  <2>4. QED
    BY <2>2, <2>3 DEF Positions
<1>9. Frames(l)' /\ Stream(l)'
  BY <1>2, <1>6, <1>7, TakeFrame DEF Sound
<1>10. QED
  BY <1>5, <1>6, <1>8, <1>9 DEF LobeInv, Sound

LEMMA HandleAckInv ==
    ASSUME TInv, TInv', NEW l \in Lobe, LobeInv(l), HandleAck(l)
    PROVE  LobeInv(l)'
<1>1. LobeTypes(l) /\ LobeTypes(l)'
  BY TypesOfLobe, TypesOfLobePrimed
<1>2. /\ UNCHANGED <<head, pruned, snapSeq, late, conn, wire, phase, lastSeq, from>>
      /\ UNCHANGED <<applied, held, failed>>
      /\ acks[l] # <<>> /\ acks'[l] = Tail(acks[l]) /\ replicaSeq'[l] = Head(acks[l])
  BY DEF HandleAck, TInv, TypeOK, logVars, sendVars, lobeVars
<1>3. /\ replicaSeq'[l] = acks[l][1] /\ 1 \in 1 .. Len(acks[l])
      /\ \A i \in 1 .. Len(acks'[l]) : i + 1 \in 1 .. Len(acks[l]) /\ acks'[l][i] = acks[l][i + 1]
  BY <1>1, <1>2 DEF LobeTypes
<1>4. Bounded(l)' /\ Copying(l)'
  BY <1>2, <1>3 DEF LobeInv, Bounded, Copying
<1>5. Have(l)' = Have(l)
  BY <1>2 DEF Have
<1>6. Sound(l) => Sound(l)'
  <2>1. Positions(l) => Positions(l)'
    BY <1>2, <1>3, <1>5 DEF Positions, Covered
  <2>2. Frames(l) /\ Stream(l) => Frames(l)' /\ Stream(l)'
    BY <1>2, <1>5 DEF Frames, Stream, Coming
  <2>3. QED
    BY <2>1, <2>2 DEF Sound
<1>7. QED
  BY <1>2, <1>4, <1>6 DEF LobeInv, Intact

LEMMA HandleLateAckInv ==
    ASSUME TInv, TInv', NEW l \in Lobe, LobeInv(l), HandleLateAck(l)
    PROVE  LobeInv(l)'
<1>1. PICK seq \in late[l] : replicaSeq'[l] = seq /\ late'[l] = late[l] \ {seq}
  BY DEF HandleLateAck, TInv, TypeOK
<1>2. /\ UNCHANGED <<head, pruned, snapSeq, conn, wire, acks, phase, lastSeq, from>>
      /\ UNCHANGED <<applied, held, failed>>
  BY DEF HandleLateAck, logVars, connVars, sendVars, lobeVars
<1>3. Bounded(l)' /\ Copying(l)'
  BY <1>1, <1>2 DEF LobeInv, Bounded, Copying
<1>4. Have(l)' = Have(l)
  BY <1>2 DEF Have
<1>5. Sound(l) => Sound(l)'
  <2>1. Positions(l) => Positions(l)'
    BY <1>1, <1>2, <1>4 DEF Positions, Covered
  <2>2. Frames(l) /\ Stream(l) => Frames(l)' /\ Stream(l)'
    BY <1>2, <1>4 DEF Frames, Stream, Coming
  <2>3. QED
    BY <2>1, <2>2 DEF Sound
<1>6. QED
  BY <1>2, <1>3, <1>5 DEF LobeInv, Intact

-----------------------------------------------------------------------------
(***************************************************************************)
(* Joins and snapshots, then all that may go wrong.                        *)
(***************************************************************************)
\* A streamer started on an intact connection, with nothing else changed.
LEMMA StartStreamSound ==
    ASSUME TInv, NEW l \in Lobe, Bounded(l), Positions(l), StartStream(l),
           Have(l) \subseteq Have(l)'
    PROVE  Stream(l)' /\ lastSeq'[l] <= head /\ phase'[l] = "read"
<1>1. lastSeq'[l] = StartSeq(l) /\ phase'[l] = "read"
  BY DEF StartStream, TInv, TypeOK
<1>2. Covered(l, StartSeq(l)) /\ StartSeq(l) <= head
  BY StartSeqCovered
<1>3. QED
  BY <1>1, <1>2 DEF Stream, Coming, Covered

LEMMA JoinInv ==
    ASSUME TInv, TInv', NEW l \in Lobe, LobeInv(l), Join(l)
    PROVE  LobeInv(l)'
<1>1. LobeTypes(l) /\ LobeTypes(l)'
  BY TypesOfLobe, TypesOfLobePrimed
<1>2. /\ UNCHANGED <<head, pruned, replicaSeq, applied, held, failed>>
      /\ conn[l] = "down" /\ wire'[l] = <<>>
  BY DEF Join, TInv, TypeOK, logVars, lobeVars
<1>3. /\ acks'[l] = <<>>
      /\ \A seq \in late'[l] :
            seq \in late[l] \/ \E i \in 1 .. Len(acks[l]) : acks[l][i] = seq
  BY DropAcksCloses DEF Join
<1>4. /\ \A seq \in late'[l] : seq <= head
      /\ replicaSeq[l] # None => replicaSeq[l] <= head
      /\ lastSeq[l] <= head /\ snapSeq[l] <= head /\ applied[l] <= head
  BY <1>3 DEF LobeInv, Bounded
<1>5. Have(l)' = Have(l)
  BY <1>2 DEF Have
<1>6. CASE Snapshots
  <2>1. conn'[l] = "snap" /\ snapSeq'[l] = head /\ lastSeq' = lastSeq /\ phase' = phase
    BY <1>6 DEF Join, TInv, TypeOK, sendVars
  <2>2. phase[l] = "off"
    BY <1>2 DEF LobeInv, Copying
  <2>3. Bounded(l)'
    BY <1>1, <1>2, <1>3, <1>4, <2>1 DEF Bounded, LobeTypes
  <2>4. Copying(l)'
    BY <1>2, <1>3, <1>4, <1>6, <2>1, <2>2 DEF Copying
  <2>5. ~Intact(l)'
    BY <1>2, <1>6, <2>1 DEF Intact
  <2>6. QED
    BY <2>3, <2>4, <2>5 DEF LobeInv
<1>7. CASE ~Snapshots
  <2>1. conn'[l] = "up" /\ snapSeq' = snapSeq /\ StartStream(l)
    BY <1>7 DEF Join, TInv, TypeOK
  <2>2. Sound(l) /\ Bounded(l)
    BY <1>7 DEF LobeInv, Intact
  <2>3. Stream(l)' /\ lastSeq'[l] <= head /\ phase'[l] = "read"
    BY <1>5, <2>1, <2>2, StartStreamSound DEF Sound
  <2>4. Bounded(l)'
    BY <1>2, <1>3, <1>4, <2>1, <2>3 DEF Bounded
  <2>5. Copying(l)'
    BY <1>7, <2>1 DEF Copying, LobeInv
  <2>6. Positions(l)'
    BY <1>2, <1>3, <1>5, <2>1, <2>2 DEF Sound, Positions, Covered
  <2>7. Frames(l)'
    BY <1>2 DEF Frames
  <2>8. QED
    BY <2>3, <2>4, <2>5, <2>6, <2>7 DEF LobeInv, Sound
<1>8. QED
  BY <1>6, <1>7

LEMMA SnapshotDoneInv ==
    ASSUME TInv, TInv', NEW l \in Lobe, LobeInv(l), SnapshotDone(l)
    PROVE  LobeInv(l)'
<1>1. LobeTypes(l) /\ LobeTypes(l)'
  BY TypesOfLobe, TypesOfLobePrimed
<1>2. PICK seq \in snapSeq[l] .. head : \E view \in seq .. head :
         applied'[l] = seq /\ held'[l] = 1 .. view
  BY DEF SnapshotDone, TInv, TypeOK
<1>3. PICK view \in seq .. head : applied'[l] = seq /\ held'[l] = 1 .. view
  BY <1>2
<1>4. /\ UNCHANGED <<head, pruned, replicaSeq, snapSeq, late, wire, acks>>
      /\ conn[l] = "snap" /\ conn'[l] = "up" /\ StartStream(l)
  BY DEF SnapshotDone, TInv, TypeOK, logVars, ackVars
<1>5. /\ wire[l] = <<>> /\ acks[l] = <<>> /\ Snapshots
      /\ replicaSeq[l] # None => replicaSeq[l] <= snapSeq[l]
      /\ \A p \in late[l] : p <= snapSeq[l]
  BY <1>4 DEF LobeInv, Copying
<1>6. snapSeq[l] \in Nat /\ seq \in Nat /\ view \in Nat /\ snapSeq[l] <= seq /\ seq <= view /\ seq <= head
  <2>1. snapSeq[l] \in Nat /\ head \in Nat
    BY <1>1, NatFacts DEF LobeTypes
  <2>2. seq \in Nat /\ snapSeq[l] <= seq /\ seq <= head
    BY <2>1
  <2>3. view \in Nat /\ seq <= view
    BY <2>1, <2>2
  <2>4. QED
    BY <2>1, <2>2, <2>3
<1>7. ASSUME NEW p \in Nat, p <= seq PROVE Covered(l, p)'
  BY <1>3, <1>6, <1>7 DEF Covered, Have
<1>8. lastSeq'[l] = snapSeq[l] /\ phase'[l] = "read"
  <2>1. lastSeq'[l] = StartSeq(l) /\ phase'[l] = "read"
    BY <1>4 DEF StartStream, TInv, TypeOK
  <2>2. CASE replicaSeq[l] = None
    BY <1>6, <2>1, <2>2 DEF StartSeq, Larger
  <2>3. CASE replicaSeq[l] # None
    <3>1. replicaSeq[l] \in Nat /\ replicaSeq[l] <= snapSeq[l]
      BY <1>1, <1>5, <2>3, NatFacts DEF LobeTypes
    <3>2. QED
      BY <1>6, <2>1, <2>3, <3>1 DEF StartSeq, Larger
  <2>4. QED
    BY <2>2, <2>3
<1>9. Bounded(l)'
  BY <1>3, <1>4, <1>5, <1>6, <1>8 DEF LobeInv, Bounded
<1>10. Copying(l)'
  BY <1>4, <1>5 DEF LobeInv, Copying
<1>11. Positions(l)'
  <2>1. /\ replicaSeq[l] # None => replicaSeq[l] \in Nat
        /\ \A p \in late[l] : p \in Nat
    BY <1>1, NatFacts DEF LobeTypes
  <2>2. PICK s, r : s = snapSeq[l] /\ r = replicaSeq[l]
    OBVIOUS
  <2>3. Covered(l, seq)' /\ Covered(l, s)' /\ (r # None => Covered(l, r)')
    BY <1>5, <1>6, <1>7, <2>1, <2>2
  <2>4. \A p \in late[l] : Covered(l, p)'
    BY <1>5, <1>6, <1>7, <2>1
  <2>5. QED
    BY <1>3, <1>4, <1>5, <2>2, <2>3, <2>4 DEF Positions, Covered
<1>12. Frames(l)'
  BY <1>4, <1>5 DEF Frames
<1>13. Stream(l)'
  <2>1. PICK s : s = snapSeq[l]
    OBVIOUS
  <2>2. Covered(l, s)'
    BY <1>6, <1>7, <2>1
  <2>3. QED
    BY <1>8, <2>1, <2>2 DEF Stream, Coming, Covered
<1>14. QED
  BY <1>9, <1>10, <1>11, <1>12, <1>13 DEF LobeInv, Sound

LEMMA RestartStreamInv ==
    ASSUME TInv, TInv', NEW l \in Lobe, LobeInv(l), RestartStream(l)
    PROVE  LobeInv(l)'
<1>1. /\ UNCHANGED <<head, pruned, replicaSeq, snapSeq, late, conn, wire, acks>>
      /\ UNCHANGED <<applied, held, failed>>
      /\ conn[l] = "up" /\ StartStream(l)
  BY DEF RestartStream, logVars, ackVars, connVars, lobeVars
<1>2. Sound(l) /\ Bounded(l) /\ Have(l)' = Have(l)
  BY <1>1 DEF LobeInv, Intact, Have
<1>3. Stream(l)' /\ lastSeq'[l] <= head /\ phase'[l] = "read"
  BY <1>1, <1>2, StartStreamSound DEF Sound
<1>4. Bounded(l)' /\ Copying(l)'
  BY <1>1, <1>2, <1>3 DEF LobeInv, Bounded, Copying
<1>5. Positions(l)' /\ Frames(l)'
  BY <1>1, <1>2 DEF Sound, Positions, Covered, Frames, Coming
<1>6. QED
  BY <1>3, <1>4, <1>5 DEF LobeInv, Sound

LEMMA StreamGivesUpInv ==
    ASSUME TInv, TInv', NEW l \in Lobe, LobeInv(l), StreamGivesUp(l)
    PROVE  LobeInv(l)'
<1>1. /\ UNCHANGED <<head, pruned, replicaSeq, snapSeq, late, conn, wire, acks, lastSeq>>
      /\ UNCHANGED <<applied, held, failed>>
      /\ phase'[l] = "off"
  BY DEF StreamGivesUp, StopStream, TInv, TypeOK, logVars, ackVars, connVars, lobeVars
<1>2. Have(l)' = Have(l)
  BY <1>1 DEF Have
<1>3. QED
  BY <1>1, <1>2 DEF LobeInv, Bounded, Copying, Intact, Sound, Positions, Covered,
                    Frames, Stream, Coming

\* A connection that ends with its Lobe's disk as it was.
LEMMA ClosesInv ==
    ASSUME TInv, TInv', NEW l \in Lobe, LobeInv(l),
           Disconnect(l) \/ LobeRestart(l) \/ RemoveNode(l) \/ EvictLobe(l)
    PROVE  LobeInv(l)'
<1>1. UNCHANGED <<head, pruned>>
  BY DEF Disconnect, LobeRestart, RemoveNode, EvictLobe, logVars
<1>2. CASE Disconnect(l)
  <2>1. Closed(l)
    BY <1>2 DEF Disconnect, CloseConn, StopStream, LeftOver, Closed, TInv, TypeOK, ackVars
  <2>2. QED
    BY <1>1, <2>1, ClosedFrame
<1>3. CASE LobeRestart(l)
  <2>1. Closed(l)
    BY <1>3 DEF LobeRestart, CloseConn, StopStream, Closed, TInv, TypeOK, ackVars
  <2>2. QED
    BY <1>1, <2>1, ClosedFrame
<1>4. CASE RemoveNode(l)
  <2>1. Closed(l)
    BY <1>4, DropAcksCloses
    DEF RemoveNode, CloseConn, StopStream, LeftOver, Closed, TInv, TypeOK
  <2>2. QED
    BY <1>1, <2>1, ClosedFrame
<1>5. CASE EvictLobe(l)
  <2>1. Closed(l)
    BY <1>5, DropAcksCloses
    DEF EvictLobe, CloseConn, StopStream, LeftOver, Closed, TInv, TypeOK
  <2>2. QED
    BY <1>1, <2>1, ClosedFrame
<1>6. QED
  BY <1>2, <1>3, <1>4, <1>5

\* A Lobe that loses data is not intact, which only snapshots can repair.
LEMMA LosesInv ==
    ASSUME TInv, TInv', KeepsDisk, NEW l \in Lobe, LobeInv(l), LobeCrash(l) \/ LobeWipe(l)
    PROVE  LobeInv(l)'
<1>1. LobeTypes(l) /\ LobeTypes(l)'
  BY TypesOfLobe, TypesOfLobePrimed
<1>2. Snapshots
  BY DEF KeepsDisk, LobeCrash, LobeWipe, Fault
<1>3. /\ UNCHANGED <<head, pruned, replicaSeq, snapSeq, late, acks, lastSeq>>
      /\ conn'[l] = "down" /\ phase'[l] = "off" /\ wire'[l] = <<>>
  BY DEF LobeCrash, LobeWipe, CloseConn, StopStream, TInv, TypeOK, logVars, ackVars
<1>4. applied'[l] <= applied[l] /\ applied[l] \in Nat /\ applied'[l] \in Nat
  <2>1. applied[l] \in Nat /\ applied'[l] \in Nat
    BY <1>1, NatFacts DEF LobeTypes
  <2>2. CASE LobeCrash(l)
    <3>1. \E cursor \in synced[l] .. applied[l] : applied' = [applied EXCEPT ![l] = cursor]
      BY <2>2 DEF LobeCrash
    <3>2. synced[l] \in Nat
      BY NatFacts DEF TInv, TypeOK
    <3>3. QED
      BY <2>1, <3>1, <3>2 DEF TInv, TypeOK
  <2>3. CASE LobeWipe(l)
    BY <2>1, <2>3 DEF LobeWipe, TInv, TypeOK
  <2>4. QED
    BY <2>1, <2>2, <2>3
<1>5. applied'[l] <= head
  BY <1>1, <1>4 DEF LobeInv, Bounded, LobeTypes
<1>6. Bounded(l)' /\ Copying(l)' /\ ~Intact(l)'
  BY <1>2, <1>3, <1>5 DEF LobeInv, Bounded, Copying, Intact
<1>7. QED
  BY <1>6 DEF LobeInv

-----------------------------------------------------------------------------
(***************************************************************************)
(* The invariant holds of every step.                                      *)
(***************************************************************************)
\* A Lobe's step concerns that Lobe only.
LEMMA OtherLobe ==
    ASSUME TInv, NEW l \in Lobe, NEW m \in Lobe, m # l, LobeStep(l) \/ EvictLobe(l)
    PROVE  SameLobe(m) /\ head' = head /\ pruned' = pruned
<1>1. CASE Ship(l)
  BY <1>1 DEF Ship, ReadBatch, SendEntry, Await, Wake, SameLobe, TInv, TypeOK,
              logVars, ackVars, connVars, lobeVars
<1>2. CASE Receive(l)
  BY <1>2 DEF Receive, Apply, HandleAck, HandleLateAck, SendAck, SameLobe, TInv, TypeOK,
              logVars, ackVars, connVars, sendVars, lobeVars
<1>3. CASE Connect(l)
  <2>1. CASE Join(l)
    <3>1. acks'[m] = acks[m] /\ late'[m] = late[m]
      BY <2>1, DropAcksCloses DEF Join
    <3>2. QED
      BY <2>1, <3>1 DEF Join, StartStream, SameLobe, TInv, TypeOK, logVars, sendVars, lobeVars
  <2>2. CASE SnapshotDone(l)
    BY <2>2 DEF SnapshotDone, StartStream, SameLobe, TInv, TypeOK, logVars, ackVars
  <2>3. QED
    BY <1>3, <2>1, <2>2 DEF Connect
<1>4. CASE GoWrong(l)
  <2>1. CASE Disconnect(l) \/ LobeRestart(l)
    BY <2>1 DEF Disconnect, LobeRestart, CloseConn, StopStream, SameLobe, TInv, TypeOK,
                logVars, ackVars
  <2>2. CASE LobeCrash(l) \/ LobeWipe(l)
    BY <2>2 DEF LobeCrash, LobeWipe, CloseConn, StopStream, SameLobe, TInv, TypeOK,
                logVars, ackVars
  <2>3. CASE RemoveNode(l)
    <3>1. acks'[m] = acks[m] /\ late'[m] = late[m]
      BY <2>3, DropAcksCloses DEF RemoveNode
    <3>2. QED
      BY <2>3, <3>1 DEF RemoveNode, CloseConn, StopStream, SameLobe, TInv, TypeOK, logVars
  <2>4. CASE RestartStream(l) \/ StreamGivesUp(l)
    BY <2>4 DEF RestartStream, StreamGivesUp, StartStream, StopStream, SameLobe, TInv, TypeOK,
                logVars, ackVars, connVars, lobeVars
  <2>5. CASE ApplyFails(l)
    BY <2>5 DEF ApplyFails, SendAck, SameLobe, TInv, TypeOK, logVars, ackVars, sendVars
  <2>6. QED
    BY <1>4, <2>1, <2>2, <2>3, <2>4, <2>5 DEF GoWrong
<1>5. CASE EvictLobe(l)
  <2>1. acks'[m] = acks[m] /\ late'[m] = late[m]
    BY <1>5, DropAcksCloses DEF EvictLobe
  <2>2. QED
    BY <1>5, <2>1 DEF EvictLobe, CloseConn, StopStream, SameLobe, TInv, TypeOK
<1>6. QED
  BY <1>1, <1>2, <1>3, <1>4, <1>5 DEF LobeStep

LEMMA OwnLobe ==
    ASSUME TInv, TInv', KeepsDisk, NEW l \in Lobe, LobeInv(l), LobeStep(l) \/ EvictLobe(l)
    PROVE  LobeInv(l)'
<1>1. CASE Ship(l)
  BY <1>1, ReadBatchInv, SendEntryInv, WaitInv DEF Ship
<1>2. CASE Receive(l)
  BY <1>2, ApplyInv, HandleAckInv, HandleLateAckInv DEF Receive
<1>3. CASE Connect(l)
  BY <1>3, JoinInv, SnapshotDoneInv DEF Connect
<1>4. CASE GoWrong(l)
  BY <1>4, ClosesInv, LosesInv, RestartStreamInv, StreamGivesUpInv, ApplyFailsInv DEF GoWrong
<1>5. CASE EvictLobe(l)
  BY <1>5, ClosesInv
<1>6. QED
  BY <1>1, <1>2, <1>3, <1>4, <1>5 DEF LobeStep

LEMMA NextIInv == ASSUME IInv, [Next]_vars, KeepsDisk PROVE IInv'
<1>1. TInv /\ TInv'
  BY NextTInv DEF IInv
<1> SUFFICES pruned' <= head' /\ \A m \in Lobe : LobeInv(m)'
  BY <1>1 DEF IInv
<1>2. pruned <= head /\ pruned \in Nat /\ head \in Nat
  BY <1>1, NatFacts DEF IInv, TInv, TypeOK
<1>3. ASSUME NEW l \in Lobe, LobeStep(l) \/ EvictLobe(l)
      PROVE  pruned' <= head' /\ \A m \in Lobe : LobeInv(m)'
  <2>1. head' = head /\ pruned' = pruned
    BY <1>3 DEF LobeStep, Ship, ReadBatch, SendEntry, Await, Wake, Receive, Apply, HandleAck,
                HandleLateAck, Connect, Join, SnapshotDone, GoWrong, Disconnect, LobeRestart,
                LobeCrash, LobeWipe, RemoveNode, RestartStream, StreamGivesUp, ApplyFails,
                EvictLobe, logVars
  <2>2. ASSUME NEW m \in Lobe PROVE LobeInv(m)'
    <3>1. CASE m = l
      BY <1>1, <1>3, <3>1, OwnLobe DEF IInv
    <3>2. CASE m # l
      <4>1. SameLobe(m)
        BY <1>1, <1>3, <3>2, OtherLobe
      <4>2. LobeInv(m) /\ head <= head' /\ pruned <= pruned'
        BY <1>2, <2>1 DEF IInv
      <4>3. QED
        BY <1>1, <4>1, <4>2, Frame
    <3>3. QED
      BY <3>1, <3>2
  <2>3. QED
    BY <1>2, <2>1, <2>2
<1>4. ASSUME head <= head', pruned <= pruned', pruned' <= head', \A m \in Lobe : SameLobe(m)
      PROVE  pruned' <= head' /\ \A m \in Lobe : LobeInv(m)'
  BY <1>1, <1>4, Frame DEF IInv
<1>5. CASE Write
  BY <1>2, <1>4, <1>5 DEF Write, SameLobe, ackVars, connVars, lobeVars
<1>6. CASE PruneTick \/ CollectBehind
  BY <1>2, <1>4, <1>6
  DEF PruneTick, CollectBehind, SameLobe, ackVars, connVars, sendVars, lobeVars
<1>7. CASE PruneLog
  <2>1. pruned <= pruned' /\ pruned' <= head /\ head' = head
    BY <1>1, <1>2, <1>7, NatFacts DEF PruneLog, Larger, TInv, TypeOK
  <2>2. \A m \in Lobe : SameLobe(m)
    BY <1>7 DEF PruneLog, SameLobe, ackVars, connVars, sendVars, lobeVars
  <2>3. QED
    BY <1>2, <1>4, <2>1, <2>2
<1>8. CASE CortexRestart
  <2>1. UNCHANGED <<head, pruned>>
    BY <1>8 DEF CortexRestart
  <2>2. ASSUME NEW m \in Lobe PROVE LobeInv(m)'
    <3>1. Closed(m)
      BY <1>8 DEF CortexRestart, Closed
    <3>2. QED
      BY <1>1, <2>1, <3>1, ClosedFrame DEF IInv
  <2>3. QED
    BY <1>2, <2>1, <2>2
<1>9. CASE UNCHANGED vars
  BY <1>2, <1>4, <1>9
  DEF vars, logVars, ackVars, connVars, sendVars, lobeVars, SameLobe
<1>10. CASE Next
  BY <1>3, <1>5, <1>6, <1>7, <1>8, <1>10 DEF Next, PruneCycle, LobeStep
<1>11. QED
  BY <1>9, <1>10

\* What the invariant says of the entries themselves.
LEMMA IInvHoles == IInv => HolesAreExplained
<1> SUFFICES ASSUME IInv, NEW l \in Lobe, conn[l] = "up", NEW e \in 1 .. applied[l], e \notin held[l]
             PROVE  e \in 1 .. pruned \cup failed[l]
  BY DEF HolesAreExplained
<1>1. Sound(l)
  BY DEF IInv, LobeInv, Intact
<1>2. QED
  BY <1>1 DEF Sound, Positions, Covered, Have

\* Whatever is pruned, whatever fails to apply and however often anybody
\* restarts: a Lobe whose disk can be trusted has only holes with a cause.
THEOREM HolesTheorem == ASSUME KeepsDisk PROVE Spec => []HolesAreExplained
<1>1. Init => IInv
  BY InitIInv
<1>2. IInv /\ [Next]_vars => IInv'
  BY NextIInv
<1>3. QED
  BY <1>1, <1>2, IInvHoles, PTL DEF Spec

-----------------------------------------------------------------------------
(***************************************************************************)
(* Without pruning and without failing applies no cause of a hole is left. *)
(***************************************************************************)
Lossless == ~Pruning /\ "apply" \notin Faults

WholeInv == IInv /\ pruned = 0 /\ prune = NoPrune /\ \A l \in Lobe : failed[l] = {}

LEMMA InitWholeInv == Init => WholeInv
BY InitIInv DEF Init, WholeInv

LEMMA NextWholeInv == ASSUME WholeInv, [Next]_vars, KeepsDisk, Lossless PROVE WholeInv'
<1>1. IInv' /\ TInv
  BY NextIInv DEF WholeInv, IInv
<1> SUFFICES pruned' = 0 /\ prune' = NoPrune /\ \A m \in Lobe : failed'[m] = {}
  BY <1>1 DEF WholeInv
<1>2. ~PruneTick /\ ~CollectBehind /\ ~PruneLog /\ \A l \in Lobe : ~EvictLobe(l) /\ ~ApplyFails(l)
  BY DEF Lossless, WholeInv, PruneTick, CollectBehind, PruneLog, EvictLobe, ApplyFails,
         NoPrune, Fault
<1>3. CASE Write \/ CortexRestart
  BY <1>3 DEF WholeInv, Write, CortexRestart, lobeVars
<1>4. ASSUME NEW l \in Lobe, LobeStep(l) PROVE UNCHANGED <<pruned, prune>>
  BY <1>2, <1>4 DEF LobeStep, Ship, ReadBatch, SendEntry, Await, Wake, Receive, Apply, HandleAck,
         HandleLateAck, Connect, Join, SnapshotDone, GoWrong, Disconnect, LobeRestart,
         LobeCrash, LobeWipe, RemoveNode, RestartStream, StreamGivesUp, logVars
<1>5. ASSUME NEW l \in Lobe, LobeStep(l), NEW m \in Lobe PROVE failed'[m] = {}
  <2>1. failed[m] = {} /\ failed \in [Lobe -> SUBSET Entry]
    BY <1>1 DEF WholeInv, TInv, TypeOK
  <2>2. failed' = failed \/ (\E s : failed' = [failed EXCEPT ![l] = s] /\ s \subseteq failed[l])
    <3>1. CASE Apply(l)
      BY <3>1 DEF Apply
    <3>2. CASE SnapshotDone(l) \/ LobeWipe(l)
      BY <3>2 DEF SnapshotDone, LobeWipe
    <3>3. CASE ~Apply(l) /\ ~SnapshotDone(l) /\ ~LobeWipe(l)
      BY <1>2, <1>5, <3>3
      DEF LobeStep, Ship, ReadBatch, SendEntry, Await, Wake, Receive, HandleAck,
          HandleLateAck, Connect, Join, GoWrong, Disconnect, LobeRestart, LobeCrash,
          RemoveNode, RestartStream, StreamGivesUp, lobeVars
    <3>4. QED
      BY <3>1, <3>2, <3>3
  <2>3. QED
    BY <2>1, <2>2 DEF WholeInv
<1>6. CASE UNCHANGED vars
  BY <1>6 DEF WholeInv, vars, logVars, lobeVars
<1>7. CASE Next
  BY <1>2, <1>3, <1>4, <1>5, <1>7 DEF Next, PruneCycle, LobeStep, WholeInv
<1>8. QED
  BY <1>6, <1>7

\* Nothing but its own data can then be what a Lobe has.
LEMMA WholeData ==
    ASSUME WholeInv, NEW l \in Lobe
    PROVE  Have(l) = held[l] /\ LobeInv(l)
BY DEF WholeInv, Have, IInv

LEMMA WholeNoGap == WholeInv => NoGap
<1> SUFFICES ASSUME WholeInv, NEW l \in Lobe, conn[l] = "up", NEW e \in 1 .. applied[l]
             PROVE  e \in held[l]
  BY DEF NoGap
<1>1. Sound(l) /\ Have(l) = held[l]
  BY WholeData DEF LobeInv, Intact
<1>2. QED
  BY <1>1 DEF Sound, Positions, Covered

LEMMA WholeNothingSkipped == WholeInv => NothingSkipped
<1> SUFFICES ASSUME WholeInv, NEW l \in Lobe, phase[l] # "off", NEW e \in 1 .. lastSeq[l]
             PROVE  e \in held[l] \/ \E j \in 1 .. Len(wire[l]) : wire[l][j] = e
  BY DEF NothingSkipped, OnWire
<1>1. Sound(l) /\ Have(l) = held[l]
  BY WholeData DEF LobeInv, Intact, Copying
<1>2. QED
  BY <1>1 DEF Sound, Stream, Coming

LEMMA WholeAckIsTrue == WholeInv /\ ~Snapshots => AckIsTrue
<1> SUFFICES ASSUME WholeInv, ~Snapshots, NEW l \in Lobe, replicaSeq[l] # None,
                    NEW e \in 1 .. replicaSeq[l]
             PROVE  e \in held[l]
  BY DEF AckIsTrue, Acked
<1>1. Sound(l) /\ Have(l) = held[l]
  BY WholeData DEF LobeInv, Intact
<1>2. QED
  BY <1>1 DEF Sound, Positions, Covered

LEMMA WholeAlways == ASSUME KeepsDisk, Lossless PROVE Spec => []WholeInv
<1>1. Init => WholeInv
  BY InitWholeInv
<1>2. WholeInv /\ [Next]_vars => WholeInv'
  BY NextWholeInv
<1>3. QED
  BY <1>1, <1>2, PTL DEF Spec

\* A connected Lobe's cursor covers only entries it holds - also with crashes
\* and wiped disks, as long as a join brings a snapshot.
THEOREM NoGapTheorem == ASSUME KeepsDisk, Lossless PROVE Spec => []NoGap
BY WholeAlways, WholeNoGap, PTL

\* A streamer's position covers only what the Lobe holds or is on its way.
THEOREM NothingSkippedTheorem == ASSUME KeepsDisk, Lossless PROVE Spec => []NothingSkipped
BY WholeAlways, WholeNothingSkipped, PTL

\* The Cortex never believes a Lobe to have more than it has.
THEOREM AckIsTrueTheorem == ASSUME KeepsDisk, Lossless, ~Snapshots PROVE Spec => []AckIsTrue
<1>1. WholeInv => AckIsTrue
  BY WholeAckIsTrue
<1>2. QED
  BY <1>1, WholeAlways, PTL

-----------------------------------------------------------------------------
(***************************************************************************)
(* Without snapshots, on disks that are kept, a Lobe holds a prefix of the *)
(* log: Replication implements PrefixReplication.                          *)
(***************************************************************************)
Kept == ~Snapshots /\ Faults \cap {"crash", "wipe"} = {}

PrefixInv == WholeInv /\ \A l \in Lobe : held[l] \subseteq 1 .. applied[l]

LEMMA HeldIsPrefix ==
    ASSUME PrefixInv, Kept, NEW l \in Lobe
    PROVE  held[l] = 1 .. applied[l] /\ conn[l] # "snap"
<1>1. Sound(l) /\ conn[l] # "snap" /\ Have(l) = held[l]
  BY WholeData DEF PrefixInv, Kept, LobeInv, Intact, Copying
<1>2. QED
  BY <1>1 DEF PrefixInv, Sound, Positions, Covered

\* An entry is applied only right after the one before it.
LEMMA ApplyInOrder ==
    ASSUME PrefixInv, Kept, NEW l \in Lobe, Apply(l), applied' # applied
    PROVE  /\ applied' = [applied EXCEPT ![l] = applied[l] + 1]
           /\ held' = [held EXCEPT ![l] = 1 .. (applied[l] + 1)]
           /\ applied[l] \in Nat /\ applied[l] + 1 <= head
<1>1. LobeTypes(l) /\ applied[l] \in Nat /\ head \in Nat
  BY TypesOfLobe, NatFacts DEF PrefixInv, WholeInv, IInv, LobeTypes
<1>2. wire[l] # <<>> /\ wire[l] \in Seq(Entry)
  BY <1>1 DEF Apply, LobeTypes
<1>3. PICK x \in Entry : x = Head(wire[l]) /\ x = wire[l][1] /\ 1 \in 1 .. Len(wire[l])
  BY <1>2
<1>4. x \in Nat /\ 1 <= x
  BY NatFacts DEF Entry
<1>5. /\ applied' = [applied EXCEPT ![l] = Larger(@, x)]
      /\ held' = [held EXCEPT ![l] = IF x > applied[l] THEN @ \cup {x} ELSE @]
  BY <1>3 DEF Apply
<1>6. x > applied[l]
  BY <1>1, <1>4, <1>5 DEF Larger, PrefixInv, WholeInv, IInv, TInv, TypeOK
<1>7. x <= head /\ Coming(l, x - 1, 0)
  BY <1>3, WholeData DEF PrefixInv, LobeInv, Bounded, Sound, Frames, Intact, Kept
<1>8. x = applied[l] + 1
  <2>1. held[l] = 1 .. applied[l] /\ Have(l) = held[l]
    BY HeldIsPrefix, WholeData DEF PrefixInv
  <2>2. 1 .. (x - 1) \subseteq 1 .. applied[l]
    BY <1>7, <2>1 DEF Coming
  <2>3. x - 1 <= applied[l]
    BY <1>1, <1>4, <1>6, <2>2
  <2>4. QED
    BY <1>1, <1>4, <1>6, <2>3
<1>9. held[l] \cup {x} = 1 .. (applied[l] + 1)
  BY <1>1, <1>8, HeldIsPrefix
<1>10. QED
  BY <1>1, <1>5, <1>6, <1>7, <1>8, <1>9 DEF Larger

\* An entry that the cursor covers is skipped.
LEMMA ApplyStutters ==
    ASSUME TInv, NEW l \in Lobe, Apply(l), applied' = applied
    PROVE  held' = held
<1>1. applied \in [Lobe -> Position] /\ held \in [Lobe -> SUBSET Entry] /\ applied[l] \in Nat
  BY NatFacts DEF TInv, TypeOK
<1>2. wire[l] # <<>> /\ wire[l] \in Seq(Entry)
  BY DEF Apply, TInv, TypeOK
<1>3. Head(wire[l]) \in Nat
  <2>1. Head(wire[l]) \in Entry
    BY <1>2
  <2>2. QED
    BY <2>1, NatFacts
<1>4. Larger(applied[l], Head(wire[l])) = applied[l]
  BY <1>1 DEF Apply
<1>5. ~(Head(wire[l]) > applied[l])
  BY <1>1, <1>3, <1>4 DEF Larger
<1>6. QED
  BY <1>1, <1>5 DEF Apply

\* Only Apply touches the data.
LEMMA OnlyApplyWrites ==
    ASSUME PrefixInv, Kept, Lossless, [Next]_vars, \A l \in Lobe : ~Apply(l)
    PROVE  UNCHANGED <<held, applied>>
<1>1. held \in [Lobe -> SUBSET Entry] /\ \A l \in Lobe : LeftOver(l) = {held[l]}
  BY HeldIsPrefix DEF PrefixInv, WholeInv, IInv, TInv, TypeOK, LeftOver
<1>2. \A l \in Lobe : ~SnapshotDone(l) /\ ~LobeCrash(l) /\ ~LobeWipe(l) /\ ~EvictLobe(l)
  BY HeldIsPrefix
  DEF SnapshotDone, LobeCrash, LobeWipe, EvictLobe, Fault, Kept, PrefixInv, WholeInv, NoPrune
<1>3. CASE Write \/ PruneTick \/ CollectBehind \/ PruneLog
  BY <1>3 DEF Write, PruneTick, CollectBehind, PruneLog, lobeVars
<1>4. CASE CortexRestart
  <2>1. {l \in Lobe : conn[l] = "snap"} = {}
    BY HeldIsPrefix
  <2>2. held' = [l \in Lobe |-> held[l]]
    BY <1>4, <2>1 DEF CortexRestart
  <2>3. QED
    BY <1>1, <1>4, <2>2 DEF CortexRestart
<1>5. ASSUME NEW l \in Lobe, Disconnect(l) \/ RemoveNode(l) PROVE UNCHANGED <<held, applied>>
  <2>1. held' = [held EXCEPT ![l] = held[l]] /\ applied' = applied
    BY <1>1, <1>5 DEF Disconnect, RemoveNode
  <2>2. QED
    BY <1>1, <2>1
<1>6. ASSUME NEW l \in Lobe, LobeStep(l) PROVE UNCHANGED <<held, applied>>
  BY <1>2, <1>5, <1>6
  DEF LobeStep, Ship, ReadBatch, SendEntry, Await, Wake, Receive, HandleAck, HandleLateAck,
      Connect, Join, GoWrong, LobeRestart, RestartStream, StreamGivesUp, ApplyFails, lobeVars
<1>7. CASE UNCHANGED vars
  BY <1>7 DEF vars, lobeVars
<1>8. CASE Next
  BY <1>2, <1>3, <1>4, <1>6, <1>8 DEF Next, PruneCycle, LobeStep
<1>9. QED
  BY <1>7, <1>8

LEMMA NextPrefixInv == ASSUME PrefixInv, [Next]_vars, Kept, Lossless PROVE PrefixInv'
<1>1. WholeInv'
  BY NextWholeInv DEF PrefixInv, Kept, KeepsDisk
<1>2. CASE \A l \in Lobe : ~Apply(l)
  BY <1>1, <1>2, OnlyApplyWrites DEF PrefixInv
<1>3. ASSUME NEW l \in Lobe, Apply(l) PROVE PrefixInv'
  <2>1. /\ applied \in [Lobe -> Position] /\ held \in [Lobe -> SUBSET Entry]
    BY DEF PrefixInv, WholeInv, IInv, TInv, TypeOK
  <2>2. CASE applied' # applied
    <3>1. \A m \in Lobe : held'[m] \subseteq 1 .. applied'[m]
      BY <1>3, <2>1, <2>2, ApplyInOrder DEF PrefixInv
    <3>2. QED
      BY <1>1, <3>1 DEF PrefixInv
  <2>3. CASE applied' = applied
    <3>1. held' = held
      BY <1>3, <2>3, ApplyStutters DEF PrefixInv, WholeInv, IInv
    <3>2. QED
      BY <1>1, <2>3, <3>1 DEF PrefixInv
  <2>4. QED
    BY <2>2, <2>3
<1>4. QED
  BY <1>2, <1>3

LEMMA HeadMoves == ASSUME [Next]_vars PROVE head' = head \/ head' = head + 1
<1>1. CASE Next
  <2>1. CASE Write
    BY <2>1 DEF Write
  <2>2. CASE PruneCycle \/ CortexRestart
    BY <2>2 DEF PruneCycle, PruneTick, CollectBehind, EvictLobe, PruneLog, CortexRestart
  <2>3. ASSUME NEW l \in Lobe, LobeStep(l) PROVE head' = head
    BY <2>3 DEF LobeStep, Ship, ReadBatch, SendEntry, Await, Wake, Receive, Apply, HandleAck,
         HandleLateAck, Connect, Join, SnapshotDone, GoWrong, Disconnect, LobeRestart,
         LobeCrash, LobeWipe, RemoveNode, RestartStream, StreamGivesUp, ApplyFails, logVars
  <2>4. QED
    BY <1>1, <2>1, <2>2, <2>3 DEF Next, LobeStep
<1>2. CASE UNCHANGED vars
  BY <1>2 DEF vars, logVars
<1>3. QED
  BY <1>1, <1>2

LEMMA PrefixStep ==
    ASSUME PrefixInv, [Next]_vars, Kept, Lossless
    PROVE  [Prefix!Next]_<<head, held>>
<1>1. CASE \A l \in Lobe : ~Apply(l)
  <2>1. held' = held
    BY <1>1, OnlyApplyWrites
  <2>2. QED
    BY <2>1, HeadMoves DEF Prefix!Next, Prefix!Append
<1>2. ASSUME NEW l \in Lobe, Apply(l) PROVE [Prefix!Next]_<<head, held>>
  <2>1. head' = head
    BY <1>2 DEF Apply, logVars
  <2>2. CASE applied' = applied
    BY <1>2, <2>1, <2>2, ApplyStutters DEF PrefixInv, WholeInv, IInv
  <2>3. CASE applied' # applied
    <3>1. PICK k : k = applied[l] + 1
      OBVIOUS
    <3>2. /\ held' = [held EXCEPT ![l] = 1 .. k]
          /\ applied[l] \in Nat /\ k <= head
      BY <1>2, <2>3, <3>1, ApplyInOrder
    <3>3. head \in Nat
      BY NatFacts DEF PrefixInv, WholeInv, IInv, TInv, TypeOK
    <3>4. k \in 1 .. head /\ k - 1 = applied[l]
      BY <3>1, <3>2, <3>3
    <3>5. held[l] = 1 .. (k - 1)
      BY <3>4, HeldIsPrefix
    <3>6. Prefix!Replicate(l)
      BY <2>1, <3>2, <3>4, <3>5 DEF Prefix!Replicate
    <3>7. QED
      BY <3>6 DEF Prefix!Next
  <2>4. QED
    BY <2>2, <2>3
<1>3. QED
  BY <1>1, <1>2

\* Log shipping implements its promise: each Lobe's data is a prefix of the
\* Cortex's writes, extended entry by entry, through reconnects, restarts,
\* removals, replaced streamers, late acks and streamers that give up.
THEOREM RefinementTheorem == ASSUME Kept, Lossless PROVE Spec => RefinesPrefix
<1>1. Init => PrefixInv
  BY InitWholeInv DEF Init, PrefixInv
<1>2. PrefixInv /\ [Next]_vars => PrefixInv'
  BY NextPrefixInv
<1>3. Init => Prefix!Init
  BY DEF Init, Prefix!Init
<1>4. PrefixInv /\ [Next]_vars => [Prefix!Next]_<<head, held>>
  BY PrefixStep
<1>5. QED
  BY <1>1, <1>2, <1>3, <1>4, PTL DEF Spec, RefinesPrefix, Prefix!Spec
-----------------------------------------------------------------------------
(***************************************************************************)
(* Pruning by acks, with one Lobe.  Its ack is the watermark, an ack covers *)
(* only what the Lobe has, and what a Lobe on a kept disk has it keeps.    *)
(* With a second Lobe that has not acked yet the theorem is false, and so  *)
(* it is with a ceiling on the backlog.                                    *)
(***************************************************************************)
PrunesByAck ==
    /\ \A l, m \in Lobe : l = m
    /\ MaxBacklog = 0
    /\ "apply" \notin Faults

PrunedInv ==
    /\ IInv
    /\ \A l \in Lobe : failed[l] = {} /\ 1 .. pruned \subseteq held[l]
    /\ prune.stage # "none" =>
          prune.stage = "evict" /\ \A l \in Lobe : 1 .. prune.upto \subseteq held[l]

LEMMA InitPrunedInv == Init => PrunedInv
BY InitIInv DEF Init, PrunedInv, NoPrune

\* No entry that a Lobe holds is lost, and none fails.
LEMMA HeldStays ==
    ASSUME PrunedInv, [Next]_vars, Kept, PrunesByAck, NEW m \in Lobe
    PROVE  held[m] \subseteq held'[m] /\ failed'[m] = {}
<1>1. /\ held \in [Lobe -> SUBSET Entry] /\ failed \in [Lobe -> SUBSET Entry]
      /\ failed[m] = {}
  BY DEF PrunedInv, IInv, TInv, TypeOK
<1>2. \A l \in Lobe : conn[l] # "snap" /\ LeftOver(l) = {held[l]}
  BY DEF PrunedInv, IInv, LobeInv, Copying, Kept, LeftOver
<1>3. \A l \in Lobe : ~SnapshotDone(l) /\ ~LobeCrash(l) /\ ~LobeWipe(l) /\ ~ApplyFails(l)
  BY <1>2 DEF SnapshotDone, LobeCrash, LobeWipe, ApplyFails, Fault, Kept, PrunesByAck
<1>4. CASE Write \/ PruneTick \/ CollectBehind \/ PruneLog
  BY <1>1, <1>4 DEF Write, PruneTick, CollectBehind, PruneLog, lobeVars
<1>5. CASE CortexRestart
  <2>1. {l \in Lobe : conn[l] = "snap"} = {}
    BY <1>2
  <2>2. held' = [l \in Lobe |-> held[l]] /\ failed' = failed
    BY <1>5, <2>1 DEF CortexRestart
  <2>3. QED
    BY <1>1, <2>2
<1>6. ASSUME NEW l \in Lobe, Disconnect(l) \/ RemoveNode(l) \/ EvictLobe(l)
      PROVE  held[m] \subseteq held'[m] /\ failed'[m] = {}
  <2>1. held' = [held EXCEPT ![l] = held[l]] /\ failed' = failed
    BY <1>2, <1>6 DEF Disconnect, RemoveNode, EvictLobe
  <2>2. QED
    BY <1>1, <2>1
<1>7. ASSUME NEW l \in Lobe, Apply(l)
      PROVE  held[m] \subseteq held'[m] /\ failed'[m] = {}
  <2>1. /\ \E s : held' = [held EXCEPT ![l] = s] /\ held[l] \subseteq s
        /\ \E s : failed' = [failed EXCEPT ![l] = s] /\ s \subseteq failed[l]
    BY <1>7 DEF Apply
  <2>2. QED
    BY <1>1, <2>1
<1>8. ASSUME NEW l \in Lobe, LobeStep(l)
      PROVE  held[m] \subseteq held'[m] /\ failed'[m] = {}
  <2>1. CASE Disconnect(l) \/ RemoveNode(l)
    BY <1>6, <2>1
  <2>2. CASE Apply(l)
    BY <1>7, <2>2
  <2>3. CASE ~Disconnect(l) /\ ~RemoveNode(l) /\ ~Apply(l)
    <3>1. UNCHANGED <<held, failed>>
      BY <1>3, <1>8, <2>3
      DEF LobeStep, Ship, ReadBatch, SendEntry, Await, Wake, Receive, HandleAck,
          HandleLateAck, Connect, Join, GoWrong, LobeRestart, RestartStream,
          StreamGivesUp, lobeVars
    <3>2. QED
      BY <1>1, <3>1
  <2>4. QED
    BY <2>1, <2>2, <2>3
<1>9. CASE UNCHANGED vars
  BY <1>1, <1>9 DEF vars, lobeVars
<1>10. CASE Next
  BY <1>4, <1>5, <1>6, <1>8, <1>10 DEF Next, PruneCycle, LobeStep
<1>11. QED
  BY <1>9, <1>10

\* The watermark of a cycle is the ack of the one Lobe, which holds that much.
LEMMA WatermarkIsHeld ==
    ASSUME PrunedInv, Kept, PrunesByAck, PruneTick, NEW l \in Lobe
    PROVE  prune'.stage = "evict" /\ 1 .. prune'.upto \subseteq held[l]
<1>1. Ceiling = 0 /\ MinReplicatedSeq \in Nat
  BY LowestAck, NatFacts DEF Ceiling, PrunesByAck, PrunedInv, IInv, TInv
<1>2. prune'.stage = "evict" /\ prune'.upto = MinReplicatedSeq /\ MinReplicatedSeq > 0
  BY <1>1 DEF PruneTick, Larger
<1>3. Acked = {l}
  BY <1>2 DEF MinReplicatedSeq, PrunesByAck, Acked
<1>4. replicaSeq[l] # None /\ MinReplicatedSeq <= replicaSeq[l] /\ replicaSeq[l] \in Nat
  <2>1. replicaSeq[l] # None /\ replicaSeq[l] \in Position
    BY <1>3 DEF Acked, PrunedInv, IInv, TInv, TypeOK
  <2>2. QED
    BY <1>3, <2>1, LowestAck, NatFacts DEF PrunedInv, IInv, TInv
<1>5. Covered(l, replicaSeq[l])
  BY <1>4 DEF PrunedInv, IInv, LobeInv, Intact, Sound, Positions, Kept
<1>6. Have(l) = held[l]
  BY DEF PrunedInv, Have
<1>7. QED
  BY <1>1, <1>2, <1>4, <1>5, <1>6 DEF Covered

\* Only the cycle itself touches what it is about.
LEMMA OnlyCyclePrunes ==
    ASSUME [Next]_vars, ~PruneTick, ~CollectBehind, ~PruneLog
    PROVE  /\ pruned' = pruned
           /\ \/ prune' = NoPrune
              \/ prune'.stage = prune.stage /\ prune'.upto = prune.upto
<1>1. ASSUME NEW l \in Lobe, LobeStep(l) PROVE UNCHANGED <<pruned, prune>>
  BY <1>1 DEF LobeStep, Ship, ReadBatch, SendEntry, Await, Wake, Receive, Apply, HandleAck,
         HandleLateAck, Connect, Join, SnapshotDone, GoWrong, Disconnect, LobeRestart,
         LobeCrash, LobeWipe, RemoveNode, RestartStream, StreamGivesUp, ApplyFails, logVars
<1>2. ASSUME NEW l \in Lobe, EvictLobe(l)
      PROVE  pruned' = pruned /\ prune'.stage = prune.stage /\ prune'.upto = prune.upto
  BY <1>2 DEF EvictLobe
<1>3. CASE Write \/ CortexRestart
  BY <1>3 DEF Write, CortexRestart
<1>4. CASE UNCHANGED vars
  BY <1>4 DEF vars, logVars
<1>5. CASE Next
  BY <1>1, <1>2, <1>3, <1>5 DEF Next, PruneCycle, LobeStep
<1>6. QED
  BY <1>4, <1>5

LEMMA NextPrunedInv ==
    ASSUME PrunedInv, [Next]_vars, Kept, PrunesByAck
    PROVE  PrunedInv'
<1>1. IInv'
  BY NextIInv DEF PrunedInv, Kept, KeepsDisk
<1>2. \A l \in Lobe : held[l] \subseteq held'[l] /\ failed'[l] = {}
  BY HeldStays
<1> SUFFICES /\ \A l \in Lobe : 1 .. pruned' \subseteq held'[l]
             /\ prune'.stage # "none" =>
                   prune'.stage = "evict" /\ \A l \in Lobe : 1 .. prune'.upto \subseteq held'[l]
  BY <1>1, <1>2 DEF PrunedInv
<1>3. CASE PruneTick
  <2>1. pruned' = pruned
    BY <1>3 DEF PruneTick
  <2>2. \A l \in Lobe : 1 .. pruned \subseteq held[l]
    BY DEF PrunedInv
  <2>3. \A l \in Lobe : prune'.stage = "evict" /\ 1 .. prune'.upto \subseteq held[l]
    BY <1>3, WatermarkIsHeld
  <2>4. Lobe # {}
    BY <1>3, NatFacts DEF PruneTick, MinReplicatedSeq, Acked, Ceiling, PrunesByAck, Larger
  <2>5. QED
    BY <1>2, <2>1, <2>2, <2>3, <2>4
<1>4. ~CollectBehind
  BY DEF CollectBehind, PrunedInv
<1>5. CASE PruneLog
  <2>1. prune'.stage = "none"
    BY <1>5 DEF PruneLog, NoPrune
  <2>2. pruned' = pruned \/ pruned' = prune.upto
    BY <1>5 DEF PruneLog, Larger
  <2>3. \A l \in Lobe : 1 .. prune.upto \subseteq held[l] /\ 1 .. pruned \subseteq held[l]
    BY <1>5 DEF PruneLog, PrunedInv
  <2>4. QED
    BY <1>2, <2>1, <2>2, <2>3
<1>6. CASE ~PruneTick /\ ~PruneLog
  <2>1. prune' = NoPrune => prune'.stage = "none"
    BY DEF NoPrune
  <2>2. QED
    BY <1>2, <1>4, <1>6, <2>1, OnlyCyclePrunes DEF PrunedInv
<1>7. QED
  BY <1>3, <1>5, <1>6

\* What leaves the log is in the Lobe's data, whatever connections break, whoever
\* restarts and however late an ack is stored.
THEOREM PruneTheorem == ASSUME Kept, PrunesByAck PROVE Spec => []PrunedIsApplied
<1>1. Init => PrunedInv
  BY InitPrunedInv
<1>2. PrunedInv /\ [Next]_vars => PrunedInv'
  BY NextPrunedInv
<1>3. PrunedInv => PrunedIsApplied
  BY DEF PrunedInv, PrunedIsApplied
<1>4. QED
  BY <1>1, <1>2, <1>3, PTL DEF Spec

=============================================================================
