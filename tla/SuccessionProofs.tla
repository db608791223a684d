--------------------------- MODULE SuccessionProofs ---------------------------
(***************************************************************************)
(* Theorems about Succession.  An ack may be trusted across failovers as   *)
(* long as there are no more than two nodes: the numbers that move the     *)
(* cursor of the one are then those of the other's log only.  TLC finds    *)
(* the counterexample with three.                                          *)
(***************************************************************************)
EXTENDS Succession, TLAPS

-----------------------------------------------------------------------------
(* Types *)

\* The counter of a log never outruns the writes issued.
LogsAreShort == \A n \in Node : Len(log[n]) <= issued

TypeInv == TypeOK /\ LogsAreShort

LEMMA InitTypes ==
    ASSUME Parameters, Init  PROVE TypeInv
<1>1. <<>> \in Seq(Write) /\ Len(<<>>) = 0  OBVIOUS
<1>2. 0 \in 0..MaxWrites /\ 0 \in 0..MaxReigns /\ Off \in 0..Off  BY DEF Parameters, Off
<1>. QED  BY <1>1, <1>2 DEF Parameters, Init, TypeInv, TypeOK, LogsAreShort

\* What most steps need to know of one state.
LEMMA Numbers ==
    ASSUME Parameters, TypeInv
    PROVE  issued \in Nat /\ MaxWrites \in Nat /\ issued <= MaxWrites /\ cortex \in Node
BY DEF Parameters, TypeInv, TypeOK

LEMMA Positions ==
    ASSUME Parameters, TypeInv, NEW n \in Node
    PROVE  /\ applied[n] \in 0..MaxWrites /\ applied[n] \in Nat
           /\ stream[n] \in 0..Off
           /\ stream[n] # Off => stream[n] \in 0..MaxWrites /\ stream[n] \in Nat
<1>1. applied[n] \in 0..MaxWrites /\ stream[n] \in 0..Off /\ MaxWrites \in Nat
      BY DEF Parameters, TypeInv, TypeOK
<1>. QED  BY <1>1 DEF Off

LEMMA Acks ==
    ASSUME Parameters, TypeInv, NEW n \in Node, NEW l \in Node
    PROVE  acked[n][l] \in 0..MaxWrites /\ acked[n][l] \in Nat
<1>1. acked[n][l] \in 0..MaxWrites /\ MaxWrites \in Nat
      BY DEF Parameters, TypeInv, TypeOK
<1>. QED  BY <1>1

LEMMA Logs ==
    ASSUME Parameters, TypeInv, NEW n \in Node
    PROVE  log[n] \in Seq(Write) /\ Len(log[n]) \in Nat /\ Len(log[n]) <= issued
<1>1. log[n] \in Seq(Write)  BY DEF TypeInv, TypeOK
<1>2. Len(log[n]) \in Nat  BY <1>1
<1>. QED  BY <1>1, <1>2 DEF TypeInv, LogsAreShort

LEMMA AcceptTypes ==
    ASSUME Parameters, TypeInv, Accept
    PROVE  /\ TypeInv'
           /\ log'[cortex] = Append(log[cortex], issued + 1)
           /\ Len(log'[cortex]) = Len(log[cortex]) + 1
           /\ \A i \in 1..Len(log[cortex]) : log'[cortex][i] = log[cortex][i]
           /\ \A n \in Node : n # cortex => log'[n] = log[n]
<1>0. issued \in Nat /\ MaxWrites \in Nat /\ cortex \in Node  BY Numbers
<1>1. issued + 1 \in Write /\ issued' = issued + 1  BY <1>0 DEF Accept, Write
<1>2. log'[cortex] = Append(log[cortex], issued + 1)
      /\ \A n \in Node : n # cortex => log'[n] = log[n]
  <2>1. log \in [Node -> Seq(Write)] /\ cortex \in Node  BY DEF TypeInv, TypeOK
  <2>. QED  BY <2>1 DEF Accept
<1>3. /\ log'[cortex] \in Seq(Write) /\ Len(log'[cortex]) = Len(log[cortex]) + 1
      /\ \A i \in 1..Len(log[cortex]) : log'[cortex][i] = log[cortex][i]
  <2>1. log[cortex] \in Seq(Write)  BY <1>0, Logs
  <2>. QED  BY <1>1, <1>2, <2>1
<1>4. log' \in [Node -> Seq(Write)]
  <2>1. log \in [Node -> Seq(Write)]  BY DEF TypeInv, TypeOK
  <2>2. log' = [log EXCEPT ![cortex] = log'[cortex]]  BY <1>2, <2>1 DEF Accept
  <2>. QED  BY <1>3, <2>1, <2>2
<1>5. \A n \in Node : Len(log'[n]) <= issued'
  <2>. SUFFICES ASSUME NEW n \in Node  PROVE Len(log'[n]) <= issued + 1  BY <1>1
  <2>1. Len(log[n]) \in Nat /\ Len(log[n]) <= issued  BY Logs
  <2>. QED  BY <1>0, <1>2, <1>3, <2>1
<1>6. data' \in [Node -> SUBSET Write]  BY <1>1 DEF Accept, TypeInv, TypeOK
<1>7. issued' \in 0..MaxWrites  BY <1>0, <1>1 DEF Accept
<1>. QED  BY <1>2, <1>3, <1>4, <1>5, <1>6, <1>7 DEF Accept, TypeInv, TypeOK, LogsAreShort

LEMMA ShipTypes ==
    ASSUME Parameters, TypeInv, NEW l \in Node, Ship(l)
    PROVE  TypeInv'
<1>. DEFINE seq == stream[l] + 1
<1>0. /\ issued \in Nat /\ MaxWrites \in Nat /\ issued <= MaxWrites /\ cortex \in Node
      /\ stream[l] \in 0..MaxWrites
      BY Numbers, Positions DEF Ship
<1>1. seq \in 1..Len(log[cortex]) /\ seq \in 1..MaxWrites
  <2>1. Len(log[cortex]) \in Nat /\ Len(log[cortex]) <= issued  BY <1>0, Logs
  <2>. QED  BY <1>0, <2>1 DEF Ship
<1>2. log[cortex][seq] \in Write
  <2>1. log[cortex] \in Seq(Write)  BY <1>0, Logs
  <2>. QED  BY <1>1, <2>1
<1>3. data' \in [Node -> SUBSET Write]  BY <1>2 DEF Ship, TypeInv, TypeOK
<1>4. applied' \in [Node -> 0..MaxWrites]  BY <1>1 DEF Ship, TypeInv, TypeOK
<1>5. acked' \in [Node -> [Node -> 0..MaxWrites]]
      BY <1>4 DEF Ship, TypeInv, TypeOK
<1>6. stream' \in [Node -> 0..Off]
  <2>1. seq \in 0..Off  BY <1>0, <1>1 DEF Off
  <2>. QED  BY <2>1 DEF Ship, TypeInv, TypeOK
<1>. QED  BY <1>3, <1>4, <1>5, <1>6 DEF Ship, TypeInv, TypeOK, LogsAreShort

LEMMA NextTypes ==
    ASSUME Parameters, TypeInv, [Next]_vars  PROVE TypeInv'
<1>0. Off \in 0..Off  BY Numbers DEF Off
<1>1. CASE Accept  BY <1>1, AcceptTypes
<1>2. ASSUME NEW l \in Node, Join(l)  PROVE TypeInv'
  <2>1. acked[cortex][l] \in 0..Off  BY Numbers, Acks DEF Off
  <2>2. stream' \in [Node -> 0..Off]  BY <1>2, <2>1 DEF Join, TypeInv, TypeOK
  <2>. QED  BY <1>2, <2>2 DEF Join, TypeInv, TypeOK, LogsAreShort
<1>3. ASSUME NEW l \in Node, Disconnect(l)  PROVE TypeInv'
  BY <1>0, <1>3 DEF Disconnect, TypeInv, TypeOK, LogsAreShort
<1>4. ASSUME NEW l \in Node, Ship(l)  PROVE TypeInv'
  BY <1>4, ShipTypes
<1>5. ASSUME NEW n \in Node, Succeed(n)  PROVE TypeInv'
  <2>1. reigns' \in 0..MaxReigns  BY <1>5 DEF Succeed, Parameters, TypeInv, TypeOK
  <2>. QED  BY <1>0, <1>5, <2>1 DEF Succeed, Lobes, TypeInv, TypeOK, LogsAreShort
<1>6. ASSUME NEW n \in Node, Restart(n)  PROVE TypeInv'
  <2>1. acked' \in [Node -> [Node -> 0..MaxWrites]]
    <3>1. 0 \in 0..MaxWrites  BY DEF Parameters
    <3>. QED  BY <1>6, <3>1 DEF Restart, TypeInv, TypeOK
  <2>2. stream' \in [Node -> 0..Off]  BY <1>0, <1>6 DEF Restart, TypeInv, TypeOK
  <2>. QED  BY <1>6, <2>1, <2>2 DEF Restart, TypeInv, TypeOK, LogsAreShort
<1>7. CASE UNCHANGED vars  BY <1>7 DEF vars, TypeInv, TypeOK, LogsAreShort
<1>. QED  BY <1>1, <1>2, <1>3, <1>4, <1>5, <1>6, <1>7 DEF Next

(* Every variable keeps its type, for every set of nodes and every bound; a
   sequence number never outruns the counter that issued it. *)
THEOREM TypesHold ==
    ASSUME Parameters  PROVE Spec => []TypeInv
<1>1. Init => TypeInv  BY InitTypes
<1>2. TypeInv /\ [Next]_vars => TypeInv'  BY NextTypes
<1>. QED  BY <1>1, <1>2, PTL DEF Spec

-----------------------------------------------------------------------------
(* Two nodes *)

AtMostTwo == \A a, b, c \in Node : a = b \/ b = c \/ a = c

\* A cursor counts a prefix of the other's log, and its writes are in the data.
CursorIsTrue ==
    \A n, l \in Node : n # l =>
        /\ applied[l] <= Len(log[n])
        /\ \A i \in 1..Len(log[n]) : i <= applied[l] => log[n][i] \in data[l]

\* No ack, and no stream, is ahead of the cursor it came from.
AcksTrail == \A n, l \in Node : n # l => acked[n][l] <= applied[l]
StreamsTrail == \A l \in Node : stream[l] # Off => l # cortex /\ stream[l] <= applied[l]

TwoInv == TypeInv /\ CursorIsTrue /\ AcksTrail /\ StreamsTrail

LEMMA AcceptTwo ==
    ASSUME Parameters, TwoInv, Accept  PROVE TwoInv'
<1>0. TypeInv /\ TypeInv' /\ cortex \in Node  BY AcceptTypes, Numbers DEF TwoInv
<1>1. CursorIsTrue'
  <2>. SUFFICES ASSUME NEW n \in Node, NEW l \in Node, n # l
       PROVE  /\ applied[l] <= Len(log'[n])
              /\ \A i \in 1..Len(log'[n]) : i <= applied[l] => log'[n][i] \in data'[l]
       BY DEF CursorIsTrue, Accept
  <2>1. /\ applied[l] <= Len(log[n])
        /\ \A i \in 1..Len(log[n]) : i <= applied[l] => log[n][i] \in data[l]
        BY DEF TwoInv, CursorIsTrue
  <2>2. data[l] \subseteq data'[l]  BY <1>0 DEF Accept, TypeInv, TypeOK
  <2>3. CASE n # cortex  BY <1>0, <2>1, <2>2, <2>3, AcceptTypes
  <2>4. CASE n = cortex
    <3>1. /\ Len(log'[n]) = Len(log[n]) + 1
          /\ \A i \in 1..Len(log[n]) : log'[n][i] = log[n][i]
          BY <1>0, <2>4, AcceptTypes
    <3>2. applied[l] \in Nat  BY <1>0, Positions
    <3>3. Len(log[n]) \in Nat  BY <1>0, Logs
    <3>. QED  BY <2>1, <2>2, <3>1, <3>2, <3>3
  <2>. QED  BY <2>3, <2>4
<1>2. AcksTrail' /\ StreamsTrail'
  BY DEF Accept, TwoInv, AcksTrail, StreamsTrail, Off
<1>. QED  BY <1>0, <1>1, <1>2 DEF TwoInv

\* What an action that leaves the logs, the data and the cursors alone must show.
LEMMA QuietTwo ==
    ASSUME TwoInv, TypeInv', UNCHANGED <<log, data, applied>>, AcksTrail', StreamsTrail'
    PROVE  TwoInv'
<1>1. CursorIsTrue'  BY DEF TwoInv, CursorIsTrue
<1>. QED  BY <1>1 DEF TwoInv

LEMMA ShipTwo ==
    ASSUME Parameters, AtMostTwo, TwoInv, NEW l \in Node, Ship(l)  PROVE TwoInv'
<1>. DEFINE seq == stream[l] + 1
<1>0. TypeInv /\ TypeInv' /\ cortex \in Node  BY ShipTypes, Numbers DEF TwoInv
<1>1. l # cortex /\ stream[l] <= applied[l]
      BY DEF Ship, TwoInv, StreamsTrail
<1>2. stream[l] \in Nat /\ applied[l] \in Nat /\ seq # Off
  <2>1. stream[l] \in 0..MaxWrites /\ applied[l] \in 0..MaxWrites /\ MaxWrites \in Nat
        BY <1>0, Numbers, Positions DEF Ship
  <2>2. issued <= MaxWrites /\ issued \in Nat  BY <1>0, Numbers
  <2>3. Len(log[cortex]) \in Nat /\ Len(log[cortex]) <= issued  BY <1>0, Logs
  <2>4. stream[l] < Len(log[cortex])  BY DEF Ship
  <2>. QED  BY <2>1, <2>2, <2>3, <2>4 DEF Off
<1>3. Len(log[cortex]) \in Nat /\ seq \in 1..Len(log[cortex])
  <2>1. Len(log[cortex]) \in Nat  BY <1>0, Logs
  <2>2. stream[l] < Len(log[cortex])  BY DEF Ship
  <2>. QED  BY <1>2, <2>1, <2>2
<1>4. /\ applied'[l] = IF seq <= applied[l] THEN applied[l] ELSE seq
      /\ data'[l] = IF seq <= applied[l] THEN data[l] ELSE data[l] \cup {log[cortex][seq]}
      /\ stream'[l] = seq
      BY <1>0 DEF Ship, TypeInv, TypeOK
<1>5. /\ log' = log /\ cortex' = cortex
      /\ \A k \in Node : k # l => /\ applied'[k] = applied[k] /\ data'[k] = data[k]
                                 /\ stream'[k] = stream[k]
      BY <1>0 DEF Ship, TypeInv, TypeOK
<1>6. CursorIsTrue'
  <2>. SUFFICES ASSUME NEW n \in Node, NEW k \in Node, n # k
       PROVE  /\ applied'[k] <= Len(log[n])
              /\ \A i \in 1..Len(log[n]) : i <= applied'[k] => log[n][i] \in data'[k]
       BY <1>5 DEF CursorIsTrue
  <2>1. /\ applied[k] <= Len(log[n])
        /\ \A i \in 1..Len(log[n]) : i <= applied[k] => log[n][i] \in data[k]
        BY DEF TwoInv, CursorIsTrue
  <2>2. CASE k # l  BY <2>1, <2>2, <1>5
  <2>3. CASE k = l
    <3>1. n = cortex  BY <1>0, <1>1, <2>3 DEF AtMostTwo
    <3>2. applied'[k] <= Len(log[n])  BY <1>2, <1>3, <1>4, <2>1, <2>3, <3>1
    <3>3. ASSUME NEW i \in 1..Len(log[n]), i <= applied'[k]
          PROVE  log[n][i] \in data'[k]
      <4>1. i <= applied[k] \/ (i = seq /\ ~(seq <= applied[k]))
            BY <3>3, <1>1, <1>2, <1>3, <1>4, <2>3, <3>1
      <4>2. CASE i <= applied[k]  BY <4>2, <1>4, <2>1, <2>3
      <4>3. CASE i = seq /\ ~(seq <= applied[k])  BY <4>3, <1>4, <2>3, <3>1
      <4>. QED  BY <4>1, <4>2, <4>3
    <3>. QED  BY <3>2, <3>3
  <2>. QED  BY <2>2, <2>3
<1>7. AcksTrail'
  <2>. SUFFICES ASSUME NEW n \in Node, NEW k \in Node, n # k
       PROVE  acked'[n][k] <= applied'[k]
       BY DEF AcksTrail
  <2>1. acked[n][k] <= applied[k]  BY DEF TwoInv, AcksTrail
  <2>2. acked'[n][k] = IF n = cortex /\ k = l THEN applied'[l] ELSE acked[n][k]
        BY <1>0 DEF Ship, TypeInv, TypeOK
  <2>3. acked[n][k] \in Nat /\ applied[k] \in Nat  BY <1>0, Positions, Acks
  <2>4. applied'[k] \in Nat /\ applied[k] <= applied'[k]
        BY <1>2, <1>3, <1>4, <1>5, <2>3
  <2>. QED  BY <2>1, <2>2, <2>3, <2>4
<1>8. StreamsTrail'
  <2>. SUFFICES ASSUME NEW k \in Node, stream'[k] # Off
       PROVE  k # cortex /\ stream'[k] <= applied'[k]
       BY <1>5 DEF StreamsTrail, Off
  <2>1. CASE k = l  BY <1>1, <1>2, <1>3, <1>4, <2>1
  <2>2. CASE k # l  BY <1>5, <2>2 DEF TwoInv, StreamsTrail
  <2>. QED  BY <2>1, <2>2
<1>. QED  BY <1>0, <1>6, <1>7, <1>8 DEF TwoInv

LEMMA NextTwo ==
    ASSUME Parameters, AtMostTwo, TwoInv, [Next]_vars  PROVE TwoInv'
<1>0. TypeInv /\ TypeInv' /\ cortex \in Node  BY NextTypes, Numbers DEF TwoInv
<1>1. CASE Accept  BY <1>1, AcceptTwo
<1>2. ASSUME NEW l \in Node, Join(l)  PROVE TwoInv'
  <2>1. l # cortex /\ acked[cortex][l] <= applied[l]
        BY <1>0, <1>2 DEF Join, Lobes, TwoInv, AcksTrail
  <2>2. AcksTrail'  BY <1>2 DEF Join, TwoInv, AcksTrail
  <2>3. StreamsTrail'
    <3>1. \A k \in Node : stream'[k] = IF k = l THEN acked[cortex][l] ELSE stream[k]
          BY <1>0, <1>2 DEF Join, TypeInv, TypeOK
    <3>. QED  BY <1>2, <2>1, <3>1 DEF Join, TwoInv, StreamsTrail, Off
  <2>. QED  BY <1>0, <1>2, <2>2, <2>3, QuietTwo DEF Join
<1>3. ASSUME NEW l \in Node, Disconnect(l)  PROVE TwoInv'
  <2>1. AcksTrail'  BY <1>3 DEF Disconnect, TwoInv, AcksTrail
  <2>2. StreamsTrail'
    <3>1. \A k \in Node : stream'[k] = IF k = l THEN Off ELSE stream[k]
          BY <1>0, <1>3 DEF Disconnect, TypeInv, TypeOK
    <3>. QED  BY <1>3, <3>1 DEF Disconnect, TwoInv, StreamsTrail, Off
  <2>. QED  BY <1>0, <1>3, <2>1, <2>2, QuietTwo DEF Disconnect
<1>4. ASSUME NEW l \in Node, Ship(l)  PROVE TwoInv'
  BY <1>4, ShipTwo
<1>5. ASSUME NEW n \in Node, Succeed(n)  PROVE TwoInv'
  <2>1. AcksTrail'  BY <1>5 DEF Succeed, TwoInv, AcksTrail
  <2>2. StreamsTrail'  BY <1>5 DEF Succeed, StreamsTrail, Off
  <2>. QED  BY <1>0, <1>5, <2>1, <2>2, QuietTwo DEF Succeed
<1>6. ASSUME NEW n \in Node, Restart(n)  PROVE TwoInv'
  <2>1. AcksTrail'
    <3>. SUFFICES ASSUME NEW m \in Node, NEW k \in Node, m # k
         PROVE  acked'[m][k] <= applied[k]
         BY <1>6 DEF Restart, AcksTrail
    <3>1. acked'[m][k] = IF m = n THEN 0 ELSE acked[m][k]
          BY <1>0, <1>6 DEF Restart, TypeInv, TypeOK
    <3>2. applied[k] \in Nat  BY <1>0, Positions
    <3>3. acked[m][k] <= applied[k]  BY DEF TwoInv, AcksTrail
    <3>. QED  BY <3>1, <3>2, <3>3
  <2>2. StreamsTrail'  BY <1>6 DEF Restart, TwoInv, StreamsTrail, Off
  <2>. QED  BY <1>0, <1>6, <2>1, <2>2, QuietTwo DEF Restart
<1>7. CASE UNCHANGED vars
  BY <1>0, <1>7 DEF vars, TwoInv, CursorIsTrue, AcksTrail, StreamsTrail, Off
<1>. QED  BY <1>1, <1>2, <1>3, <1>4, <1>5, <1>6, <1>7 DEF Next

(* With at most two nodes an ack is true across any sequence of failovers,
   restarts and reconnections: streamStartSeq proves what it says it proves. *)
THEOREM TwoNodesAreSafe ==
    ASSUME Parameters, AtMostTwo  PROVE Spec => []AckedIsHeld
<1>1. Init => TwoInv
  <2>. SUFFICES ASSUME Init  PROVE TwoInv  OBVIOUS
  <2>1. TypeInv  BY InitTypes
  <2>. QED  BY <2>1 DEF Init, TwoInv, CursorIsTrue, AcksTrail, StreamsTrail
<1>2. TwoInv /\ [Next]_vars => TwoInv'  BY NextTwo
<1>3. TwoInv => AckedIsHeld
  <2>. SUFFICES ASSUME TwoInv, NEW l \in Lobes, NEW i \in 1..Len(log[cortex]),
                       i <= acked[cortex][l]
       PROVE  log[cortex][i] \in data[l]
       BY DEF AckedIsHeld
  <2>1. l \in Node /\ cortex \in Node /\ l # cortex
        /\ acked[cortex][l] \in Nat /\ applied[l] \in Nat
        BY Numbers, Positions, Acks DEF TwoInv, Lobes
  <2>2. acked[cortex][l] <= applied[l]  BY <2>1 DEF TwoInv, AcksTrail
  <2>3. i <= applied[l]  BY <2>1, <2>2
  <2>. QED  BY <2>1, <2>3 DEF TwoInv, CursorIsTrue
<1>. QED  BY <1>1, <1>2, <1>3, PTL DEF Spec
=============================================================================
