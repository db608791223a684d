----------------------------- MODULE HandoffProofs -----------------------------
(***************************************************************************)
(* Proofs about Handoff, for any set of nodes and any number of handoffs.  *)
(*                                                                         *)
(* LeadershipIsKept: claims are ordered by epoch and then by node id.  A   *)
(* node that leads or is about to (Holder) stands at its epoch; some       *)
(* holder is beaten by no claim that was made, by no ack and by no other   *)
(* holder (Top).  It can only be told to step down by a claim that would   *)
(* beat it.                                                                *)
(*                                                                         *)
(* DualIsBrief: a node that leads has told everybody its epoch, or is      *)
(* about to (Told, Tied).                                                  *)
(***************************************************************************)
EXTENDS Handoff, SequenceTheorems, TLAPS

USE HandoffAssumption

-----------------------------------------------------------------------------
(* Frames in flight *)

Elements(q)    == {q[i] : i \in DOMAIN q}
InFlight(n, m) == Elements(net[<<n, m>>])

\* What an Append and a Tail do to the elements of a sequence.
LEMMA AppendedFrames ==
    ASSUME NEW q \in Seq(Message), NEW f \in Message
    PROVE  /\ Append(q, f) \in Seq(Message)
           /\ Elements(Append(q, f)) = Elements(q) \cup {f}
  <1>1. /\ Append(q, f) \in Seq(Message) /\ Len(Append(q, f)) = Len(q) + 1
        /\ \A i \in 1 .. Len(q) : Append(q, f)[i] = q[i]
        /\ Append(q, f)[Len(q) + 1] = f
    BY AppendProperties
  <1>2. DOMAIN q = 1 .. Len(q) /\ DOMAIN Append(q, f) = 1 .. (Len(q) + 1) /\ Len(q) \in Nat
    BY <1>1
  <1> HIDE DEF Message
  <1>3. ASSUME NEW i \in DOMAIN q PROVE \E j \in DOMAIN Append(q, f) : Append(q, f)[j] = q[i]
    BY <1>1, <1>2
  <1>4. Len(q) + 1 \in DOMAIN Append(q, f)
    BY <1>2
  <1>5. \A j \in DOMAIN Append(q, f) :
           Append(q, f)[j] = f \/ \E i \in DOMAIN q : Append(q, f)[j] = q[i]
    BY <1>1, <1>2
  <1>6. Elements(Append(q, f)) \subseteq Elements(q) \cup {f}
    BY <1>5, Zenon DEF Elements
  <1>7. f \in Elements(Append(q, f))
    BY <1>1, <1>4, Zenon DEF Elements
  <1>8. Elements(q) \subseteq Elements(Append(q, f))
    <2> SUFFICES ASSUME NEW i \in DOMAIN q PROVE q[i] \in Elements(Append(q, f))
      BY Zenon DEF Elements
    <2> QED
      BY <1>3, Zenon DEF Elements
  <1> QED
    BY <1>1, <1>6, <1>7, <1>8, Zenon

LEMMA TailFrames ==
    ASSUME NEW q \in Seq(Message), q # <<>>
    PROVE  /\ Tail(q) \in Seq(Message) /\ Head(q) \in Message
           /\ Head(q) \in Elements(q)
           /\ Elements(Tail(q)) \subseteq Elements(q)
           /\ Elements(q) \subseteq Elements(Tail(q)) \cup {Head(q)}
  <1>1. /\ Tail(q) \in Seq(Message) /\ Len(Tail(q)) = Len(q) - 1 /\ Len(q) \in Nat \ {0}
        /\ \A i \in 1 .. Len(Tail(q)) : Tail(q)[i] = q[i + 1]
        /\ Head(q) = q[1] /\ Head(q) \in Message
    BY HeadTailProperties, EmptySeq, LenProperties
  <1>2. DOMAIN q = 1 .. Len(q) /\ DOMAIN Tail(q) = 1 .. (Len(q) - 1)
    BY <1>1
  <1>3. 1 \in DOMAIN q
    BY <1>1, <1>2
  <1>4. ASSUME NEW i \in DOMAIN Tail(q) PROVE i + 1 \in DOMAIN q /\ Tail(q)[i] = q[i + 1]
    BY <1>1, <1>2
  <1>5. ASSUME NEW i \in DOMAIN q, i # 1 PROVE i - 1 \in DOMAIN Tail(q) /\ Tail(q)[i - 1] = q[i]
    <2>1. i \in Nat /\ i - 1 \in 1 .. Len(Tail(q)) /\ (i - 1) + 1 = i
      BY <1>1, <1>2, <1>5
    <2> QED
      BY <1>1, <1>2, <2>1
  <1>6. \A i \in DOMAIN Tail(q) : \E j \in DOMAIN q : Tail(q)[i] = q[j]
    BY <1>4, Zenon
  <1>7. \A i \in DOMAIN q : i = 1 \/ \E j \in DOMAIN Tail(q) : q[i] = Tail(q)[j]
    BY <1>5, Zenon
  <1>8. Head(q) \in Elements(q)
    BY <1>1, <1>3, Zenon DEF Elements
  <1>9. Elements(Tail(q)) \subseteq Elements(q)
    BY <1>6 DEF Elements
  <1>10. Elements(q) \subseteq Elements(Tail(q)) \cup {Head(q)}
    BY <1>1, <1>7 DEF Elements
  <1> QED
    BY <1>1, <1>8, <1>9, <1>10

LEMMA ShortFrames ==
    ASSUME NEW f \in Message
    PROVE  /\ <<>> \in Seq(Message) /\ <<f>> \in Seq(Message)
           /\ Elements(<<>>) = {} /\ Elements(<<f>>) = {f}
  BY DEF Elements

LEMMA ClaimTyped == ASSUME NEW e \in Nat PROVE Claim(e) \in Message /\ Claim(e).type = "Claim" /\ Claim(e).epoch = e
  BY DEF Claim, Message

\* A frame read.
LEMMA Reading ==
    ASSUME net \in [Node \X Node -> Seq(Message)], NEW n \in Node, NEW s \in Node, net[<<s, n>>] # <<>>
    PROVE  /\ Read(n, s) \in [Node \X Node -> Seq(Message)]
           /\ Frame(n, s) \in Message /\ Frame(n, s) \in InFlight(s, n)
           /\ \A a, b \in Node : a # s \/ b # n => Read(n, s)[<<a, b>>] = net[<<a, b>>]
           /\ \A a, b \in Node : Elements(Read(n, s)[<<a, b>>]) \subseteq InFlight(a, b)
           /\ InFlight(s, n) \subseteq
                Elements(Read(n, s)[<<s, n>>]) \cup {Frame(n, s)}
  <1>1. <<s, n>> \in Node \X Node /\ net[<<s, n>>] \in Seq(Message)
    OBVIOUS
  <1>2. Tail(net[<<s, n>>]) \in Seq(Message) /\ Head(net[<<s, n>>]) \in Message
    BY <1>1, TailFrames
  <1>3. Read(n, s) \in [Node \X Node -> Seq(Message)]
    BY <1>2 DEF Read
  <1>4. Read(n, s)[<<s, n>>] = Tail(net[<<s, n>>]) /\ \A c \in Node \X Node : c # <<s, n>> => Read(n, s)[c] = net[c]
    BY <1>1 DEF Read
  <1>5. ASSUME NEW a \in Node, NEW b \in Node
        PROVE  /\ a # s \/ b # n => Read(n, s)[<<a, b>>] = net[<<a, b>>]
               /\ Elements(Read(n, s)[<<a, b>>]) \subseteq InFlight(a, b)
    <2>1. a # s \/ b # n => Read(n, s)[<<a, b>>] = net[<<a, b>>]
      BY <1>4
    <2>2. Elements(Read(n, s)[<<s, n>>]) \subseteq InFlight(s, n)
      BY <1>1, <1>4, TailFrames DEF InFlight
    <2> QED
      BY <2>1, <2>2 DEF InFlight
  <1> QED
    BY <1>1, <1>2, <1>3, <1>4, <1>5, TailFrames DEF Frame, InFlight

LEMMA ReadFrames ==
    ASSUME net \in [Node \X Node -> Seq(Message)], NEW n \in Node, NEW s \in Node, net[<<s, n>>] # <<>>,
           net' = Read(n, s)
    PROVE  /\ net' \in [Node \X Node -> Seq(Message)]
           /\ Frame(n, s) \in Message /\ Frame(n, s) \in InFlight(s, n)
           /\ \A a, b \in Node : InFlight(a, b)' \subseteq InFlight(a, b)
           /\ \A a, b \in Node : InFlight(a, b) \subseteq InFlight(a, b)'
                 \/ (a = s /\ b = n /\ InFlight(a, b) \subseteq InFlight(a, b)' \cup {Frame(n, s)})
  <1>1. ASSUME NEW a \in Node, NEW b \in Node, <<a, b>> # <<s, n>> PROVE InFlight(a, b)' = InFlight(a, b)
    <2>1. a # s \/ b # n
      BY <1>1
    <2>2. net'[<<a, b>>] = net[<<a, b>>]
      <3>1. \A x, y \in Node : x # s \/ y # n => Read(n, s)[<<x, y>>] = net[<<x, y>>]
        BY Reading, Zenon
      <3> QED
        BY <2>1, <3>1
    <2> QED
      BY <2>2 DEF InFlight
  <1>2. /\ InFlight(s, n)' \subseteq InFlight(s, n)
        /\ InFlight(s, n) \subseteq InFlight(s, n)' \cup {Frame(n, s)}
    BY Reading DEF InFlight
  <1>3. /\ net' \in [Node \X Node -> Seq(Message)]
        /\ Frame(n, s) \in Message /\ Frame(n, s) \in InFlight(s, n)
    BY Reading, Zenon
  <1>4. ASSUME NEW a \in Node, NEW b \in Node
        PROVE  /\ InFlight(a, b)' \subseteq InFlight(a, b)
               /\ \/ InFlight(a, b) \subseteq InFlight(a, b)'
                  \/ (a = s /\ b = n /\ InFlight(a, b) \subseteq InFlight(a, b)' \cup {Frame(n, s)})
    BY <1>1, <1>2
  <1> QED
    BY <1>3, <1>4

\* A frame sent to every other node that runs, on top of the frames N.
Grown(N, M, n, f) ==
    /\ M \in [Node \X Node -> Seq(Message)]
    /\ \A a, b \in Node : /\ Elements(N[<<a, b>>]) \subseteq Elements(M[<<a, b>>])
                          /\ Elements(M[<<a, b>>]) \subseteq Elements(N[<<a, b>>]) \cup {f}
                          /\ a # n \/ b = n => Elements(M[<<a, b>>]) = Elements(N[<<a, b>>])
                          /\ a = n /\ b # n /\ up[b] => f \in Elements(M[<<a, b>>])

LEMMA BroadcastFrames ==
    ASSUME NEW N \in [Node \X Node -> Seq(Message)], NEW n \in Node, NEW f \in Message
    PROVE  Grown(N, Broadcast(N, n, f), n, f)
  <1> DEFINE M == Broadcast(N, n, f)
  <1>1. \A c \in Node \X Node : Append(N[c], f) \in Seq(Message)
    BY AppendedFrames
  <1>2. M \in [Node \X Node -> Seq(Message)]
    BY <1>1 DEF Broadcast
  <1>3. ASSUME NEW a \in Node, NEW b \in Node
        PROVE  /\ a = n /\ b # n /\ up[b] => M[<<a, b>>] = Append(N[<<a, b>>], f)
               /\ a # n \/ b = n \/ ~up[b] => M[<<a, b>>] = N[<<a, b>>]
    BY DEF Broadcast
  <1>4. \A a, b \in Node : Elements(Append(N[<<a, b>>], f)) = Elements(N[<<a, b>>]) \cup {f}
    BY AppendedFrames
  <1> HIDE DEF M
  <1>5. ASSUME NEW a \in Node, NEW b \in Node
        PROVE  /\ Elements(N[<<a, b>>]) \subseteq Elements(M[<<a, b>>])
               /\ Elements(M[<<a, b>>]) \subseteq Elements(N[<<a, b>>]) \cup {f}
               /\ a # n \/ b = n => Elements(M[<<a, b>>]) = Elements(N[<<a, b>>])
               /\ a = n /\ b # n /\ up[b] => f \in Elements(M[<<a, b>>])
    <2>1. CASE a = n /\ b # n /\ up[b]
      <3>1. M[<<a, b>>] = Append(N[<<a, b>>], f)
        BY <1>3, <2>1, Zenon
      <3>2. Elements(M[<<a, b>>]) = Elements(N[<<a, b>>]) \cup {f}
        BY <1>4, <3>1
      <3> QED
        BY <2>1, <3>2
    <2>2. CASE a # n \/ b = n \/ ~up[b]
      <3>1. M[<<a, b>>] = N[<<a, b>>]
        BY <1>3, <2>2, Zenon
      <3> QED
        BY <2>2, <3>1
    <2> QED
      BY <2>1, <2>2
  <1> QED
    BY <1>2, <1>5 DEF Grown, M

\* A frame sent to one node, if it runs.
LEMMA SendFrames ==
    ASSUME net \in [Node \X Node -> Seq(Message)], NEW n \in Node, NEW d \in Node, NEW f \in Message,
           net' = Send(net, n, d, f)
    PROVE  /\ net' \in [Node \X Node -> Seq(Message)]
           /\ \A a, b \in Node : /\ InFlight(a, b) \subseteq InFlight(a, b)'
                                 /\ InFlight(a, b)' \subseteq InFlight(a, b) \cup {f}
                                 /\ <<a, b>> # <<n, d>> => InFlight(a, b)' = InFlight(a, b)
  <1>1. \A c \in Node \X Node : Append(net[c], f) \in Seq(Message)
    BY AppendedFrames
  <1>2. net' \in [Node \X Node -> Seq(Message)]
    BY <1>1 DEF Send
  <1>3. ASSUME NEW a \in Node, NEW b \in Node
        PROVE  /\ net'[<<a, b>>] = Append(net[<<a, b>>], f) \/ net'[<<a, b>>] = net[<<a, b>>]
               /\ <<a, b>> # <<n, d>> => net'[<<a, b>>] = net[<<a, b>>]
    BY DEF Send
  <1> SUFFICES ASSUME NEW a \in Node, NEW b \in Node
               PROVE  /\ InFlight(a, b) \subseteq InFlight(a, b)'
                      /\ InFlight(a, b)' \subseteq InFlight(a, b) \cup {f}
                      /\ <<a, b>> # <<n, d>> => InFlight(a, b)' = InFlight(a, b)
    BY <1>2
  <1>4. Elements(Append(net[<<a, b>>], f)) = Elements(net[<<a, b>>]) \cup {f}
    BY AppendedFrames
  <1> QED
    BY <1>3, <1>4 DEF InFlight

-----------------------------------------------------------------------------
(* Types *)

Stage == [at : {"none", "advanced", "persisted", "claimed", "leading", "promoted", "acked"}, epoch : Nat]
Awaiting == [at : {"idle", "drain", "await", "demote"}, target : Node \cup {None},
             epoch : Nat, ack : {"none", "right", "wrong"}]
Busy     == busy \subseteq {c \in Node \X Node : stage[c[1]][c[2]].at # "none"}

LEMMA TypeParts ==
    ASSUME TypeOK
    PROVE  /\ call \in [Node -> Awaiting] /\ stage \in [Node -> [Node -> Stage]] /\ Busy
           /\ epoch \in [Node -> Nat \ {0}] /\ net \in [Node \X Node -> Seq(Message)]
           /\ attempts \in 0 .. Attempts /\ faults \in 0 .. Faults
  BY DEF TypeOK, Awaiting, Stage, Busy

LEMMA CallUpdate ==
    ASSUME NEW r \in Awaiting, NEW e \in Nat
    PROVE  /\ [r EXCEPT !.at = "await", !.epoch = e] \in Awaiting
           /\ [r EXCEPT !.at = "demote"] \in Awaiting
           /\ \A a \in {"right", "wrong"} : [r EXCEPT !.ack = a] \in Awaiting
  BY DEF Awaiting

LEMMA CallTyped ==
    ASSUME TypeOK, NEW n \in Node, Call(n)
    PROVE  TypeOK'
  <1>1. ASSUME NEW t \in Node, Drain(n, t) PROVE TypeOK'
    <2>1. [Idle EXCEPT !.at = "drain", !.target = t] \in Awaiting
      BY DEF Awaiting, Idle
    <2>2. call' \in [Node -> Awaiting]
      BY <1>1, <2>1, TypeParts DEF Drain
    <2>3. attempts' \in 0 .. Attempts
      BY <1>1, TypeParts DEF Drain
    <2> QED
      BY <1>1, <2>2, <2>3 DEF TypeOK, Drain, disk, lead, handle, Awaiting
  <1>2. CASE SendHandoff(n)
    <2> DEFINE f == [type |-> "Handoff", epoch |-> epoch[n]]
    <2>1. f \in Message
      BY DEF TypeOK, Message
    <2>2. call' \in [Node -> Awaiting]
      <3>1. call \in [Node -> Awaiting] /\ epoch[n] \in Nat
        BY TypeParts
      <3>2. [call[n] EXCEPT !.at = "await", !.epoch = epoch[n]] \in Awaiting
        BY <3>1, CallUpdate
      <3>3. call' = [call EXCEPT ![n] = [call[n] EXCEPT !.at = "await", !.epoch = epoch[n]]]
        BY <1>2 DEF SendHandoff
      <3> QED
        BY <3>1, <3>2, <3>3
    <2>3. CASE call[n].target \in Node
      <3>1. net' \in [Node \X Node -> Seq(Message)]
        BY <1>2, <2>1, <2>3, SendFrames DEF SendHandoff, TypeOK
      <3> QED
        BY <1>2, <2>2, <3>1 DEF SendHandoff, TypeOK, disk, lead, handle, history, Awaiting
    <2>4. CASE call[n].target \notin Node
      <3>1. \A c \in Node \X Node : c # <<n, call[n].target>>
        BY <2>4
      <3>2. net' = net
        BY <1>2, <3>1 DEF SendHandoff, Send, TypeOK
      <3> QED
        BY <1>2, <2>2, <3>2 DEF SendHandoff, TypeOK, disk, lead, handle, history, Awaiting
    <2> QED
      BY <2>3, <2>4
  <1>3. CASE GiveUp(n)
    BY <1>3 DEF TypeOK, GiveUp, Idle, disk, lead, handle, history
  <1>4. CASE TakeAck(n)
    <2>1. call' \in [Node -> Awaiting]
      BY <1>4, TypeParts, CallUpdate DEF TakeAck
    <2>2. mistaken' \in BOOLEAN
      BY <1>4, Zenon DEF TakeAck, TypeOK
    <2> QED
      BY <1>4, <2>1, <2>2 DEF TypeOK, TakeAck, disk, lead, handle, Awaiting
  <1>5. CASE Retire(n)
    BY <1>5 DEF TypeOK, Retire, Idle, disk, handle
  <1> QED
    BY <1>1, <1>2, <1>3, <1>4, <1>5 DEF Call

LEMMA StageUpdate ==
    ASSUME NEW r \in Stage, NEW x \in {"persisted", "claimed", "leading", "promoted", "acked"}
    PROVE  /\ [r EXCEPT !.at = x] \in Stage
           /\ [r EXCEPT !.at = x].at = x /\ [r EXCEPT !.at = x].epoch = r.epoch
  BY DEF Stage

\* What Enter and Leave do to the stages.
LEMMA Entering ==
    ASSUME TypeOK, NEW n \in Node, NEW s \in Node,
           NEW x \in {"persisted", "claimed", "leading", "promoted", "acked"}, Enter(n, s, x)
    PROVE  /\ stage' \in [Node -> [Node -> Stage]] /\ Busy'
           /\ stage'[n][s].at = x /\ stage'[n][s].epoch = stage[n][s].epoch
           /\ \A a, b \in Node : <<a, b>> # <<n, s>> => stage'[a][b] = stage[a][b]
  <1>1. stage \in [Node -> [Node -> Stage]] /\ busy' = busy
    BY TypeParts DEF Enter
  <1>2. /\ stage' \in [Node -> [Node -> Stage]]
        /\ stage'[n][s].at = x /\ stage'[n][s].epoch = stage[n][s].epoch
        /\ \A a, b \in Node : <<a, b>> # <<n, s>> => stage'[a][b] = stage[a][b]
    <2>1. stage[n][s] \in Stage
      BY <1>1
    <2>2. stage' = [stage EXCEPT ![n] = [stage[n] EXCEPT ![s] = [stage[n][s] EXCEPT !.at = x]]]
      BY DEF Enter
    <2>3. /\ [stage[n][s] EXCEPT !.at = x] \in Stage /\ [stage[n][s] EXCEPT !.at = x].at = x
          /\ [stage[n][s] EXCEPT !.at = x].epoch = stage[n][s].epoch
      BY <2>1, StageUpdate, Zenon
    <2> QED
      BY <1>1, <2>1, <2>2, <2>3
  <1>3. \A c \in Node \X Node : stage[c[1]][c[2]].at # "none" => stage'[c[1]][c[2]].at # "none"
    <2> SUFFICES ASSUME NEW a \in Node, NEW b \in Node, stage[a][b].at # "none"
                 PROVE  stage'[a][b].at # "none"
      OBVIOUS
    <2> QED
      BY <1>2
  <1> QED
    BY <1>1, <1>2, <1>3, TypeParts DEF Busy

LEMMA Leaving ==
    ASSUME TypeOK, NEW n \in Node, NEW s \in Node, Leave(n, s)
    PROVE  /\ stage' \in [Node -> [Node -> Stage]] /\ Busy'
           /\ stage'[n][s] = Quiet
           /\ \A a, b \in Node : <<a, b>> # <<n, s>> => stage'[a][b] = stage[a][b]
  <1>1. stage \in [Node -> [Node -> Stage]] /\ busy' = busy \ {<<n, s>>} /\ Quiet \in Stage
    BY TypeParts DEF Leave, Quiet, Stage
  <1>2. /\ stage' \in [Node -> [Node -> Stage]]
        /\ stage'[n][s] = Quiet
        /\ \A a, b \in Node : <<a, b>> # <<n, s>> => stage'[a][b] = stage[a][b]
    BY <1>1 DEF Leave
  <1>3. \A c \in Node \X Node : c # <<n, s>> => stage'[c[1]][c[2]] = stage[c[1]][c[2]]
    <2> SUFFICES ASSUME NEW c \in Node \X Node, c # <<n, s>>
                 PROVE  stage'[c[1]][c[2]] = stage[c[1]][c[2]]
      OBVIOUS
    <2>1. c[1] \in Node /\ c[2] \in Node /\ <<c[1], c[2]>> # <<n, s>>
      OBVIOUS
    <2> QED
      BY <1>2, <2>1
  <1> QED
    BY <1>1, <1>2, <1>3, TypeParts DEF Busy

LEMMA HandleTyped ==
    ASSUME TypeOK, NEW n \in Node, NEW s \in Node, Handle(n, s)
    PROVE  TypeOK'
  <1>1. stage[n][s].epoch \in Nat
    BY DEF TypeOK
  <1>2. CASE PersistRole(n, s)
    <2>1. /\ stage' \in [Node -> [Node -> Stage]] /\ Busy'
          /\ crumb' = crumb \/ crumb' = [crumb EXCEPT ![n] = TRUE]
      BY <1>2, Entering, Leaving DEF PersistRole
    <2> QED
      BY <1>2, <2>1 DEF PersistRole, TypeOK, lead, history, Busy, Stage
  <1>3. CASE BroadcastClaim(n, s)
    <2>1. stage' \in [Node -> [Node -> Stage]] /\ Busy'
      BY <1>3, Entering DEF BroadcastClaim
    <2>2. net \in [Node \X Node -> Seq(Message)] /\ Claim(stage[n][s].epoch) \in Message
      BY <1>1, ClaimTyped DEF TypeOK
    <2>3. net' \in [Node \X Node -> Seq(Message)]
      <3>1. Grown(net, Broadcast(net, n, Claim(stage[n][s].epoch)), n, Claim(stage[n][s].epoch))
        BY <2>2, BroadcastFrames
      <3> QED
        BY <1>3, <3>1 DEF BroadcastClaim, Grown
    <2> QED
      BY <1>3, <2>1, <2>3 DEF BroadcastClaim, TypeOK, disk, lead, history, Busy, Stage
  <1>4. CASE TakeLead(n, s)
    <2>1. stage' \in [Node -> [Node -> Stage]] /\ Busy'
      BY <1>4, Entering DEF TakeLead
    <2> QED
      BY <1>4, <2>1 DEF TakeLead, TypeOK, disk, history, Busy, Stage
  <1>5. CASE HandlePromotion(n, s)
    <2>1. stage' \in [Node -> [Node -> Stage]] /\ Busy'
      BY <1>5, Entering DEF HandlePromotion
    <2> QED
      BY <1>5, <2>1 DEF HandlePromotion, TypeOK, disk, history, Busy, Stage
  <1>6. CASE SendAck(n, s)
    <2>1. stage' \in [Node -> [Node -> Stage]] /\ Busy'
      BY <1>6, Entering DEF SendAck
    <2>2. net \in [Node \X Node -> Seq(Message)] /\ [type |-> "Ack", epoch |-> stage[n][s].epoch] \in Message
      BY <1>1 DEF TypeOK, Message
    <2>3. net' \in [Node \X Node -> Seq(Message)]
      BY <1>6, <2>2, SendFrames DEF SendAck
    <2> QED
      BY <1>6, <2>1, <2>3 DEF SendAck, TypeOK, disk, lead, history, Busy, Stage
  <1>7. CASE FailAck(n, s)
    <2>1. stage' \in [Node -> [Node -> Stage]] /\ Busy'
      BY <1>7, Leaving DEF FailAck
    <2> QED
      BY <1>7, <2>1 DEF FailAck, TypeOK, disk, lead, history, Busy, Stage
  <1>8. CASE ClearRole(n, s)
    <2>1. stage' \in [Node -> [Node -> Stage]] /\ Busy'
      BY <1>8, Leaving DEF ClearRole
    <2> QED
      BY <1>8, <2>1 DEF ClearRole, TypeOK, lead, Busy, Stage
  <1> QED
    BY <1>2, <1>3, <1>4, <1>5, <1>6, <1>7, <1>8 DEF Handle

\* The epoch is raised, and the handoff in its first stage.
Raised(n, s) ==
    /\ Frame(n, s).epoch + 1 > epoch[n]
    /\ epoch' = [epoch EXCEPT ![n] = Frame(n, s).epoch + 1]
    /\ stage' \in [Node -> [Node -> Stage]]
    /\ stage'[n][s] = [at |-> "advanced", epoch |-> Frame(n, s).epoch + 1]
    /\ \A a, b \in Node : <<a, b>> # <<n, s>> => stage'[a][b] = stage[a][b]

LEMMA HandoffStage ==
    ASSUME TypeOK, NEW n \in Node, NEW s \in Node, HandleHandoff(n, s)
    PROVE  /\ stage[n][s].at = "none" /\ up[n] /\ net[<<s, n>>] # <<>> /\ net' = Read(n, s)
           /\ (Raised(n, s) /\ Busy') \/ (epoch' = epoch /\ stage' = stage /\ busy' = busy)
  <1>1. stage[n][s].at = "none" /\ up[n] /\ net[<<s, n>>] # <<>> /\ net' = Read(n, s)
    BY DEF HandleHandoff, Reads, At
  <1>2. Frame(n, s).epoch \in Nat
    BY <1>1, Reading DEF TypeOK, Message
  <1>3. ASSUME Frame(n, s).epoch + 1 > epoch[n]
        PROVE  Raised(n, s) /\ Busy'
    <2>1. /\ epoch' = [epoch EXCEPT ![n] = Frame(n, s).epoch + 1]
          /\ stage' = [stage EXCEPT ![n][s] = [at |-> "advanced", epoch |-> Frame(n, s).epoch + 1]]
          /\ busy' = busy \cup {<<n, s>>}
      BY <1>3 DEF HandleHandoff
    <2>2. stage \in [Node -> [Node -> Stage]] /\ [at |-> "advanced", epoch |-> Frame(n, s).epoch + 1] \in Stage
      BY <1>2 DEF TypeOK, Stage
    <2>3. /\ stage' \in [Node -> [Node -> Stage]]
          /\ stage'[n][s] = [at |-> "advanced", epoch |-> Frame(n, s).epoch + 1]
          /\ \A a, b \in Node : <<a, b>> # <<n, s>> => stage'[a][b] = stage[a][b]
      BY <2>1, <2>2
    <2>4. ASSUME NEW c \in busy' PROVE c \in Node \X Node /\ stage'[c[1]][c[2]].at # "none"
      BY <2>1, <2>3, <2>4 DEF TypeOK
    <2> QED
      BY <1>3, <2>1, <2>3, <2>4 DEF Busy, Raised
  <1>4. ASSUME ~(Frame(n, s).epoch + 1 > epoch[n])
        PROVE  epoch' = epoch /\ stage' = stage /\ busy' = busy
    BY <1>4 DEF HandleHandoff, handle
  <1> QED
    BY <1>1, <1>3, <1>4

LEMMA DeliverTyped ==
    ASSUME TypeOK, NEW n \in Node, NEW s \in Node, Deliver(n, s)
    PROVE  TypeOK'
  <1> DEFINE e == Frame(n, s).epoch
  <1>1. net[<<s, n>>] # <<>>
    BY DEF Deliver, HandleHandoff, HandleHandoffAck, HandleCortexClaim, Reads
  <1>2. Frame(n, s) \in Message /\ e \in Nat /\ Read(n, s) \in [Node \X Node -> Seq(Message)]
    BY <1>1, Reading DEF TypeOK, Message
  <1>3. CASE HandleHandoff(n, s)
    <2>1. epoch' \in [Node -> Nat \ {0}]
      <3>1. e + 1 \in Nat \ {0} /\ epoch \in [Node -> Nat \ {0}]
        BY <1>2, TypeParts
      <3>2. epoch' = epoch \/ epoch' = [epoch EXCEPT ![n] = e + 1]
        BY <1>3, HandoffStage DEF Raised
      <3> QED
        BY <3>1, <3>2
    <2>2. stage' \in [Node -> [Node -> Stage]] /\ Busy'
      <3>1. CASE stage' = stage /\ busy' = busy
        BY <3>1, TypeParts DEF Busy
      <3> QED
        BY <1>3, <3>1, HandoffStage DEF Raised
    <2> QED
      BY <1>2, <1>3, <2>1, <2>2 DEF HandleHandoff, TypeOK, lead, history, Busy, Stage
  <1>4. CASE HandleHandoffAck(n, s)
    <2>1. call' = call \/ call' = [call EXCEPT ![n].ack = "right"] \/ call' = [call EXCEPT ![n].ack = "wrong"]
      BY <1>4 DEF HandleHandoffAck
    <2>2. call' \in [Node -> Awaiting]
      <3>1. call[n] \in Awaiting /\ call \in [Node -> Awaiting]
        BY TypeParts
      <3>2. \A a \in {"right", "wrong"} : [call EXCEPT ![n].ack = a] \in [Node -> Awaiting]
        BY <3>1, CallUpdate
      <3> QED
        BY <2>1, <3>1, <3>2
    <2> QED
      BY <1>2, <1>4, <2>2 DEF HandleHandoffAck, TypeOK, disk, lead, handle, history, Awaiting
  <1>5. CASE ReassertClaim(n, s, e)
    <2>1. net' \in [Node \X Node -> Seq(Message)]
      BY <1>2, <1>5, ClaimTyped, BroadcastFrames DEF ReassertClaim, Grown
    <2> QED
      BY <1>5, <2>1 DEF ReassertClaim, TypeOK, disk, lead, handle
  <1>6. CASE FollowClaim(n, s, e)
    <2>1. epoch' \in [Node -> Nat \ {0}]
      BY <1>2, <1>6 DEF FollowClaim, TypeOK, Stale
    <2> QED
      BY <1>2, <1>6, <2>1 DEF FollowClaim, TypeOK, handle
  <1>7. CASE IgnoreClaim(n, s, e)
    BY <1>2, <1>7 DEF IgnoreClaim, TypeOK, disk, lead, handle, history
  <1> QED
    BY <1>3, <1>4, <1>5, <1>6, <1>7 DEF Deliver, HandleCortexClaim

\* A connection made anew holds at most the claim of a Cortex.
LEMMA HelloFrames ==
    ASSUME TypeOK, NEW n \in Node, NEW d \in Node, net' = Hello(n, d, net)
    PROVE  /\ net' \in [Node \X Node -> Seq(Message)]
           /\ \A a, b \in Node : \A f \in InFlight(a, b)' :
                f \in InFlight(a, b) \/ (role[a] = "Primary" /\ f = Claim(epoch[a]) /\ a # b)
  <1>1. ASSUME NEW a \in Node, NEW b \in Node
        PROVE  net'[<<a, b>>] \in Seq(Message) /\
               (\/ net'[<<a, b>>] = net[<<a, b>>] \/ net'[<<a, b>>] = <<>>
                \/ net'[<<a, b>>] = <<Claim(epoch[a])>> /\ role[a] = "Primary" /\ a # b)
    <2>1. Claim(epoch[a]) \in Message /\ net[<<a, b>>] \in Seq(Message) /\ <<>> \in Seq(Message)
      BY ClaimTyped DEF TypeOK
    <2>2. <<Claim(epoch[a])>> \in Seq(Message)
      BY <2>1, ShortFrames
    <2> QED
      BY <2>1, <2>2 DEF Hello
  <1>2. net' \in [Node \X Node -> Seq(Message)]
    <2>1. \A c \in Node \X Node : net'[c] \in Seq(Message)
      <3> SUFFICES ASSUME NEW c \in Node \X Node PROVE net'[c] \in Seq(Message)
        OBVIOUS
      <3>1. c[1] \in Node /\ c[2] \in Node /\ c = <<c[1], c[2]>>
        OBVIOUS
      <3> QED
        BY <1>1, <3>1
    <2> QED
      BY <2>1 DEF Hello
  <1>3. ASSUME NEW a \in Node, NEW b \in Node, NEW f \in InFlight(a, b)'
        PROVE  f \in InFlight(a, b) \/ (role[a] = "Primary" /\ f = Claim(epoch[a]) /\ a # b)
    <2>1. Claim(epoch[a]) \in Message
      BY ClaimTyped DEF TypeOK
    <2>2. Elements(<<>>) = {} /\ Elements(<<Claim(epoch[a])>>) = {Claim(epoch[a])}
      BY <2>1, ShortFrames
    <2> QED
      BY <1>1, <1>3, <2>2 DEF InFlight
  <1> QED
    BY <1>2, <1>3

LEMMA RestartFrames ==
    ASSUME TypeOK, NEW n \in Node, Restart(n)
    PROVE  /\ net' \in [Node \X Node -> Seq(Message)]
           /\ \A a, b \in Node : \A f \in InFlight(a, b)' :
                \/ f \in InFlight(a, b)
                \/ (role[a] = "Primary" \/ (a = n /\ Recovers(n))) /\ f = Claim(epoch[a])
                   /\ n \in {a, b} /\ (a = n => b # n \/ role[a] = "Primary")
  <1>1. ASSUME NEW a \in Node, NEW b \in Node
        PROVE  net'[<<a, b>>] \in Seq(Message) /\
               (\/ net'[<<a, b>>] = net[<<a, b>>] \/ net'[<<a, b>>] = <<>>
                \/ /\ net'[<<a, b>>] = <<Claim(epoch[a])>>
                   /\ (role[a] = "Primary" \/ (a = n /\ Recovers(n)))
                   /\ n \in {a, b} /\ (a = n => b # n \/ role[a] = "Primary"))
    <2>1. Claim(epoch[a]) \in Message /\ net[<<a, b>>] \in Seq(Message) /\ <<>> \in Seq(Message)
      BY ClaimTyped DEF TypeOK
    <2>2. <<Claim(epoch[a])>> \in Seq(Message)
      BY <2>1, ShortFrames
    <2> QED
      BY <2>1, <2>2 DEF Restart
  <1>2. net' \in [Node \X Node -> Seq(Message)]
    <2>1. \A c \in Node \X Node : net'[c] \in Seq(Message)
      <3> SUFFICES ASSUME NEW c \in Node \X Node PROVE net'[c] \in Seq(Message)
        OBVIOUS
      <3>1. c[1] \in Node /\ c[2] \in Node /\ c = <<c[1], c[2]>>
        OBVIOUS
      <3> QED
        BY <1>1, <3>1
    <2> QED
      BY <2>1 DEF Restart
  <1>3. ASSUME NEW a \in Node, NEW b \in Node, NEW f \in InFlight(a, b)'
        PROVE  \/ f \in InFlight(a, b)
               \/ (role[a] = "Primary" \/ (a = n /\ Recovers(n))) /\ f = Claim(epoch[a])
                  /\ n \in {a, b} /\ (a = n => b # n \/ role[a] = "Primary")
    <2>1. Claim(epoch[a]) \in Message
      BY ClaimTyped DEF TypeOK
    <2>2. Elements(<<>>) = {} /\ Elements(<<Claim(epoch[a])>>) = {Claim(epoch[a])}
      BY <2>1, ShortFrames
    <2> QED
      BY <1>1, <1>3, <2>2 DEF InFlight
  <1> QED
    BY <1>2, <1>3

LEMMA CrashFrames ==
    ASSUME TypeOK, NEW n \in Node, Crash(n)
    PROVE  /\ net' \in [Node \X Node -> Seq(Message)]
           /\ \A a, b \in Node : InFlight(a, b)' \subseteq InFlight(a, b)
  <1>1. \A c \in Node \X Node : net'[c] = <<>> \/ net'[c] = net[c]
    BY DEF Crash
  <1>2. net' \in [Node \X Node -> Seq(Message)]
    BY DEF Crash, TypeOK
  <1>3. Elements(<<>>) = {}
    BY DEF Elements
  <1> QED
    BY <1>1, <1>2, <1>3 DEF InFlight

LEMMA FaultTyped ==
    ASSUME TypeOK, NEW n \in Node, Fault(n)
    PROVE  TypeOK'
  <1>1. CASE Crash(n)
    <2>1. stage' \in [Node -> [Node -> Stage]] /\ Busy'
      <3>1. stage \in [Node -> [Node -> Stage]] /\ Quiet \in Stage
        BY TypeParts DEF Stage, Quiet
      <3>2. \A c \in Node \X Node : c[1] # n => stage'[c[1]][c[2]] = stage[c[1]][c[2]]
        BY <1>1, <3>1 DEF Crash
      <3>3. stage' \in [Node -> [Node -> Stage]]
        BY <1>1, <3>1 DEF Crash
      <3> QED
        BY <1>1, <3>2, <3>3, TypeParts DEF Crash, Busy
    <2>2. call' \in [Node -> Awaiting] /\ faults' \in 0 .. Faults
      BY <1>1, TypeParts DEF Crash, Idle, Awaiting
    <2>3. /\ up' \in [Node -> BOOLEAN] /\ estate' \in [Node -> {"Leader", "Other"}]
          /\ leader' \in [Node -> Node \cup {None}] /\ role' \in [Node -> {"Primary", "Replica"}]
      BY <1>1 DEF Crash, TypeOK
    <2> QED
      BY <1>1, <2>1, <2>2, <2>3, CrashFrames DEF Crash, TypeOK, disk, Busy, Stage, Awaiting
  <1>2. CASE Restart(n)
    <2>1. /\ up' = [up EXCEPT ![n] = TRUE]
          /\ \/ estate' = estate /\ leader' = leader /\ role' = role /\ crumb' = crumb
             \/ /\ estate' = [estate EXCEPT ![n] = "Leader"] /\ leader' = [leader EXCEPT ![n] = n]
                /\ role' = [role EXCEPT ![n] = "Primary"] /\ crumb' = [crumb EXCEPT ![n] = FALSE]
      BY <1>2 DEF Restart, lead
    <2>2. /\ up' \in [Node -> BOOLEAN] /\ crumb' \in [Node -> BOOLEAN]
          /\ estate' \in [Node -> {"Leader", "Other"}] /\ leader' \in [Node -> Node \cup {None}]
          /\ role' \in [Node -> {"Primary", "Replica"}]
      <3>1. CASE estate' = estate /\ leader' = leader /\ role' = role /\ crumb' = crumb
        BY <2>1, <3>1 DEF TypeOK
      <3>2. CASE /\ estate' = [estate EXCEPT ![n] = "Leader"] /\ leader' = [leader EXCEPT ![n] = n]
                 /\ role' = [role EXCEPT ![n] = "Primary"] /\ crumb' = [crumb EXCEPT ![n] = FALSE]
        BY <2>1, <3>2 DEF TypeOK
      <3> QED
        BY <2>1, <3>1, <3>2
    <2> QED
      BY <1>2, <2>2, RestartFrames DEF Restart, TypeOK, handle
  <1>3. ASSUME NEW d \in Node, Reconnect(n, d) PROVE TypeOK'
    <2>1. net' \in [Node \X Node -> Seq(Message)]
      BY <1>3, HelloFrames DEF Reconnect
    <2>2. busy' \subseteq busy
      BY <1>3 DEF Reconnect
    <2>3. Busy' /\ faults' \in 0 .. Faults
      BY <1>3, <2>2, TypeParts DEF Reconnect, Busy
    <2> QED
      BY <1>3, <2>1, <2>3 DEF Reconnect, TypeOK, disk, lead, Busy
  <1> QED
    BY <1>1, <1>2, <1>3 DEF Fault

LEMMA StepTyped == ASSUME TypeOK, [Next]_vars PROVE TypeOK'
  <1>1. CASE UNCHANGED vars
    BY <1>1 DEF vars, TypeOK
  <1> QED
    BY <1>1, CallTyped, HandleTyped, DeliverTyped, FaultTyped DEF Next, Call

LEMMA InitTyped == Init => TypeOK
  <1> SUFFICES ASSUME Init PROVE TypeOK
    OBVIOUS
  <1>1. <<>> \in Seq(Message)
    OBVIOUS
  <1>2. stage = [n \in Node |-> [s \in Node |-> Quiet]] /\ Quiet \in Stage
    BY DEF Init, Quiet, Stage
  <1>3. call = [n \in Node |-> Idle] /\ Idle \in Awaiting
    BY DEF Init, Idle, Awaiting
  <1>4. /\ call \in [Node -> Awaiting] /\ stage \in [Node -> [Node -> Stage]]
        /\ net \in [Node \X Node -> Seq(Message)] /\ busy = {}
    BY <1>1, <1>2, <1>3 DEF Init
  <1>5. /\ estate \in [Node -> {"Leader", "Other"}] /\ leader \in [Node -> Node \cup {None}]
        /\ role \in [Node -> {"Primary", "Replica"}]
    BY DEF Init
  <1>6. /\ up = [n \in Node |-> TRUE] /\ crumb = [n \in Node |-> FALSE] /\ epoch = [n \in Node |-> 1]
        /\ attempts = 0 /\ faults = 0 /\ mistaken = FALSE /\ overrun = FALSE
    BY DEF Init
  <1>7. /\ up \in [Node -> BOOLEAN] /\ crumb \in [Node -> BOOLEAN] /\ epoch \in [Node -> Nat \ {0}]
        /\ attempts \in 0 .. Attempts /\ faults \in 0 .. Faults
    BY <1>6
  <1>8. mistaken \in BOOLEAN /\ overrun \in BOOLEAN
    BY <1>6
  <1> QED
    BY <1>4, <1>5, <1>7, <1>8 DEF TypeOK, Awaiting, Stage

\* Every variable keeps its type, whatever is retried, lost or crashes.
THEOREM TypesHold == Spec => []TypeOK
  BY InitTyped, StepTyped, PTL DEF Spec

-----------------------------------------------------------------------------
(* What holds of each node by itself *)

Leading == \A n \in Node : /\ role[n] = "Primary" => estate[n] = "Leader"
                           /\ estate[n] = "Leader" => leader[n] = n /\ up[n]
Staged  == \A n, s \in Node : stage[n][s].at # "none" =>
                                up[n] /\ s # n /\ stage[n][s].epoch <= epoch[n]
Alone   == \A n \in Node : InFlight(n, n) = {}
Waits(n) == /\ call[n].at # "idle" => call[n].target \in Node \ {n}
            /\ call[n].ack # "none" => call[n].at \in {"await", "demote"}
            /\ call[n].at = "demote" => call[n].ack = "right" \/ mistaken
Calling == \A n \in Node : Waits(n)
Claiming(n, s) == stage[n][s].at \in {"persisted", "claimed", "leading"}
Safe(n) == crumb[n] \/ mistaken
Crumbed == \A n, s \in Node : Claiming(n, s) => Safe(n)
Sound   == Leading /\ Staged /\ Alone /\ Calling /\ Crumbed

LEMMA CallSound == ASSUME TypeOK, Sound, NEW n \in Node, Call(n) PROVE Sound'
  <1>1. /\ up' = up /\ epoch' = epoch /\ crumb' = crumb /\ stage' = stage
        /\ estate' = estate /\ leader' = leader /\ (mistaken => mistaken')
        /\ \A m \in Node : role'[m] = "Primary" => role[m] = "Primary"
    BY DEF Call, Drain, SendHandoff, GiveUp, TakeAck, Retire, disk, lead, handle, history, TypeOK
  <1>2. Leading' /\ Staged' /\ Crumbed'
    <2>1. Leading' /\ Staged'
      BY <1>1 DEF Sound, Leading, Staged
    <2>2. Crumbed'
      BY <1>1, Zenon DEF Sound, Crumbed, Claiming, Safe
    <2> QED
      BY <2>1, <2>2
  <1>3. \A m \in Node \ {n} : call'[m] = call[m]
    BY TypeParts DEF Call, Drain, SendHandoff, GiveUp, TakeAck, Retire
  <1>4. \A m \in Node \ {n} : Waits(m)'
    BY <1>1, <1>3, Zenon DEF Sound, Calling, Waits
  <1>5. Waits(n)'
    <2>1. ASSUME NEW t \in Node, Drain(n, t) PROVE Waits(n)'
      <3>1. /\ call'[n] = [Idle EXCEPT !.at = "drain", !.target = t] /\ t \in Node \ {n}
        BY <2>1, TypeParts DEF Drain
      <3>2. call'[n].at = "drain" /\ call'[n].target = t /\ call'[n].ack = "none"
        BY <3>1 DEF Idle
      <3> QED
        BY <3>1, <3>2 DEF Waits
    <2>2. CASE SendHandoff(n)
      <3>1. /\ call'[n].at = "await" /\ call'[n].target = call[n].target /\ call[n].at = "drain"
        BY <2>2, TypeParts DEF SendHandoff, Awaiting
      <3> QED
        BY <3>1 DEF Sound, Calling, Waits
    <2>3. CASE GiveUp(n) \/ Retire(n)
      <3>1. call'[n] = Idle
        BY <2>3, TypeParts DEF GiveUp, Retire
      <3>2. call'[n].at = "idle" /\ call'[n].ack = "none"
        BY <3>1 DEF Idle
      <3> QED
        BY <3>2 DEF Waits
    <2>4. CASE TakeAck(n)
      <3>1. /\ call'[n].at = "demote" /\ call'[n].ack = call[n].ack /\ call'[n].target = call[n].target
            /\ call[n].at = "await" /\ call[n].ack \in {"right", "wrong"}
        BY <2>4, TypeParts DEF TakeAck, Awaiting
      <3>2. call[n].ack = "wrong" => mistaken'
        BY <2>4, Zenon DEF TakeAck
      <3> QED
        BY <3>1, <3>2 DEF Sound, Calling, Waits
    <2> QED
      BY <2>1, <2>2, <2>3, <2>4 DEF Call
  <1>6. Alone'
    <2>1. CASE SendHandoff(n)
      <3>1. call[n].target \in Node \ {n}
        BY <2>1 DEF SendHandoff, Sound, Calling, Waits
      <3>2. [type |-> "Handoff", epoch |-> epoch[n]] \in Message
        BY TypeParts DEF Message
      <3>3. \A a, b \in Node : <<a, b>> # <<n, call[n].target>> => InFlight(a, b)' = InFlight(a, b)
        BY <2>1, <3>1, <3>2, TypeParts, SendFrames DEF SendHandoff
      <3>4. \A m \in Node : <<m, m>> # <<n, call[n].target>>
        BY <3>1
      <3> QED
        BY <3>3, <3>4 DEF Sound, Alone
    <2>2. CASE net' = net
      BY <2>2 DEF Sound, Alone, InFlight
    <2> QED
      BY <2>1, <2>2 DEF Call, Drain, GiveUp, TakeAck, Retire
  <1> QED
    BY <1>2, <1>4, <1>5, <1>6 DEF Sound, Calling

\* A handler of a handoff touches its own stage only.
LEMMA OneStage ==
    ASSUME TypeOK, NEW n \in Node, NEW s \in Node, Handle(n, s)
    PROVE  /\ \A a, b \in Node : <<a, b>> # <<n, s>> => stage'[a][b] = stage[a][b]
           /\ stage'[n][s].at = "none" \/ stage'[n][s].epoch = stage[n][s].epoch
  <1>1. \/ Leave(n, s)
        \/ \E x \in {"persisted", "claimed", "leading", "promoted", "acked"} : Enter(n, s, x)
    BY DEF Handle, PersistRole, BroadcastClaim, TakeLead, HandlePromotion, SendAck, FailAck, ClearRole
  <1>2. CASE Leave(n, s)
    <2>1. /\ stage'[n][s] = Quiet
          /\ \A a, b \in Node : <<a, b>> # <<n, s>> => stage'[a][b] = stage[a][b]
      BY <1>2, Leaving, Zenon
    <2>2. stage'[n][s].at = "none"
      BY <2>1 DEF Quiet
    <2> QED
      BY <2>1, <2>2, Zenon
  <1>3. ASSUME NEW x \in {"persisted", "claimed", "leading", "promoted", "acked"}, Enter(n, s, x)
        PROVE  /\ \A a, b \in Node : <<a, b>> # <<n, s>> => stage'[a][b] = stage[a][b]
               /\ stage'[n][s].epoch = stage[n][s].epoch
    BY <1>3, Entering
  <1> QED
    BY <1>1, <1>2, <1>3

LEMMA HandleSound == ASSUME TypeOK, Sound, NEW n \in Node, NEW s \in Node, Handle(n, s) PROVE Sound'
  <1>1. /\ up' = up /\ epoch' = epoch /\ call' = call /\ up[n] /\ stage[n][s].at # "none"
    BY DEF Handle, PersistRole, BroadcastClaim, TakeLead, HandlePromotion, SendAck, FailAck, ClearRole,
           disk, history, At
  <1>0. mistaken => mistaken'
    BY DEF Handle, PersistRole, BroadcastClaim, TakeLead, HandlePromotion, SendAck, FailAck, ClearRole, history
  <1>2. s # n /\ stage[n][s].epoch <= epoch[n] /\ stage[n][s].epoch \in Nat
    BY <1>1, TypeParts DEF Sound, Staged, Stage
  <1>3. /\ \A a, b \in Node : <<a, b>> # <<n, s>> => stage'[a][b] = stage[a][b]
        /\ stage'[n][s].at = "none" \/ stage'[n][s].epoch = stage[n][s].epoch
    BY OneStage
  <1>4. Staged' /\ Calling'
    <2>1. ASSUME NEW a \in Node, NEW b \in Node, stage'[a][b].at # "none"
          PROVE  up'[a] /\ b # a /\ stage'[a][b].epoch <= epoch'[a]
      <3>1. CASE <<a, b>> = <<n, s>>
        BY <1>1, <1>2, <1>3, <2>1, <3>1
      <3>2. CASE <<a, b>> # <<n, s>>
        BY <1>1, <1>3, <2>1, <3>2 DEF Sound, Staged
      <3> QED
        BY <3>1, <3>2
    <2> QED
      <3>1. Staged'
        BY <2>1 DEF Staged
      <3>2. Calling'
        BY <1>0, <1>1, Zenon DEF Sound, Calling, Waits
      <3> QED
        BY <3>1, <3>2
  <1>5. Alone'
    <2>1. CASE BroadcastClaim(n, s)
      <3>1. Claim(stage[n][s].epoch) \in Message
        BY <1>2, ClaimTyped
      <3>2. net \in [Node \X Node -> Seq(Message)] /\ net' = Broadcast(net, n, Claim(stage[n][s].epoch))
        BY <2>1, TypeParts DEF BroadcastClaim
      <3>3. Grown(net, net', n, Claim(stage[n][s].epoch))
        BY <3>1, <3>2, BroadcastFrames
      <3> QED
        BY <3>3 DEF Grown, Sound, Alone, InFlight
    <2>2. CASE SendAck(n, s)
      <3>1. [type |-> "Ack", epoch |-> stage[n][s].epoch] \in Message
        BY <1>2 DEF Message
      <3>2. \A m \in Node : <<m, m>> # <<n, s>>
        BY <1>2
      <3> QED
        BY <2>2, <3>1, <3>2, TypeParts, SendFrames DEF SendAck, Sound, Alone
    <2>3. CASE net' = net
      BY <2>3 DEF Sound, Alone, InFlight
    <2> QED
      BY <2>1, <2>2, <2>3 DEF Handle, PersistRole, TakeLead, HandlePromotion, FailAck, ClearRole
  <1>6. Leading'
    <2>1. CASE TakeLead(n, s)
      BY <1>1, <2>1, TypeParts DEF TakeLead, Sound, Leading, TypeOK
    <2>2. CASE HandlePromotion(n, s)
      BY <1>1, <2>2, TypeParts DEF HandlePromotion, Sound, Leading, TypeOK
    <2>3. CASE estate' = estate /\ leader' = leader /\ role' = role
      BY <1>1, <2>3 DEF Sound, Leading
    <2> QED
      BY <2>1, <2>2, <2>3 DEF Handle, PersistRole, BroadcastClaim, SendAck, FailAck, ClearRole, lead
  <1>7. Crumbed'
    <2>1. \A a, b \in Node : <<a, b>> # <<n, s>> => (Claiming(a, b)' <=> Claiming(a, b))
      BY <1>3 DEF Claiming
    <2>2. \A a \in Node \ {n} : crumb'[a] = crumb[a]
      BY DEF Handle, PersistRole, BroadcastClaim, TakeLead, HandlePromotion, SendAck, FailAck, ClearRole,
             disk, TypeOK
    <2>3. \/ crumb'[n] = TRUE
          \/ crumb'[n] = crumb[n] /\ (Claiming(n, s)' => Claiming(n, s))
          \/ \A x \in Node : ~Claiming(n, x)'
          \/ mistaken'
      <3>1. CASE PersistRole(n, s)
        <4>1. CASE crumb' = [crumb EXCEPT ![n] = TRUE]
          BY <4>1 DEF TypeOK
        <4>2. CASE crumb' = crumb /\ Leave(n, s)
          <5>1. stage'[n][s] = Quiet
            BY <4>2, Leaving
          <5> QED
            BY <4>2, <5>1 DEF Claiming, Quiet
        <4> QED
          BY <3>1, <4>1, <4>2 DEF PersistRole
      <3>2. CASE ClearRole(n, s)
        <4>1. stage'[n][s] = Quiet
          BY <3>2, Leaving DEF ClearRole
        <4>2. ~Claiming(n, s)'
          BY <4>1 DEF Claiming, Quiet
        <4>3. mistaken' \/ \A x \in Node \ {s} : ~Claiming(n, x)
          BY <3>2, Zenon DEF ClearRole, Claiming
        <4>4. \A x \in Node \ {s} : Claiming(n, x)' <=> Claiming(n, x)
          BY <2>1
        <4> QED
          BY <4>2, <4>3, <4>4, Zenon
      <3>3. CASE BroadcastClaim(n, s) \/ TakeLead(n, s) \/ HandlePromotion(n, s) \/ SendAck(n, s) \/ FailAck(n, s)
        <4>1. crumb' = crumb
          BY <3>3 DEF BroadcastClaim, TakeLead, HandlePromotion, SendAck, FailAck, disk
        <4>2. CASE BroadcastClaim(n, s) \/ TakeLead(n, s)
          BY <4>1, <4>2 DEF BroadcastClaim, TakeLead, At, Claiming
        <4>3. CASE HandlePromotion(n, s) \/ SendAck(n, s)
          <5>1. stage'[n][s].at \in {"promoted", "acked"}
            BY <4>3, Entering DEF HandlePromotion, SendAck
          <5> QED
            BY <4>1, <5>1 DEF Claiming
        <4>4. CASE FailAck(n, s)
          <5>1. stage'[n][s] = Quiet
            BY <4>4, Leaving DEF FailAck
          <5> QED
            BY <4>1, <5>1 DEF Claiming, Quiet
        <4> QED
          BY <3>3, <4>2, <4>3, <4>4
      <3> QED
        BY <3>1, <3>2, <3>3 DEF Handle
    <2>4. ASSUME NEW a \in Node, NEW b \in Node, Claiming(a, b)' PROVE Safe(a)'
      <3>1. CASE a # n
        <4>1. Claiming(a, b) /\ crumb'[a] = crumb[a]
          BY <2>1, <2>2, <2>4, <3>1
        <4> QED
          BY <1>0, <4>1, Zenon DEF Sound, Crumbed, Safe
      <3>2. CASE a = n
        <4>1. (Claiming(n, s)' => Claiming(n, s)) => Claiming(n, b)
          BY <2>1, <2>4, <3>2
        <4> QED
          BY <1>0, <2>3, <2>4, <3>2, <4>1, Zenon DEF Sound, Crumbed, Safe
      <3> QED
        BY <3>1, <3>2
    <2> QED
      BY <2>4 DEF Crumbed
  <1> QED
    BY <1>4, <1>5, <1>6, <1>7 DEF Sound


LEMMA DeliverSound == ASSUME TypeOK, Sound, NEW n \in Node, NEW s \in Node, Deliver(n, s) PROVE Sound'
  <1> DEFINE e == Frame(n, s).epoch
  <1>1. net[<<s, n>>] # <<>> /\ net \in [Node \X Node -> Seq(Message)]
    BY TypeParts DEF Deliver, HandleHandoff, HandleHandoffAck, HandleCortexClaim, Reads
  <1>2. /\ Frame(n, s) \in Message /\ Frame(n, s) \in InFlight(s, n) /\ Read(n, s) \in [Node \X Node -> Seq(Message)]
        /\ \A a, b \in Node : Elements(Read(n, s)[<<a, b>>]) \subseteq InFlight(a, b)
    BY <1>1, Reading
  <1>3. s # n /\ e \in Nat
    BY <1>2 DEF Sound, Alone, Message
  <1>4. net' = Read(n, s) => Alone'
    BY <1>2 DEF Sound, Alone, InFlight
  <1>5. CASE HandleHandoff(n, s)
    <2>1. /\ up' = up /\ crumb' = crumb /\ estate' = estate /\ leader' = leader /\ role' = role
          /\ call' = call /\ mistaken' = mistaken
      BY <1>5 DEF HandleHandoff, lead, history
    <2>2. Leading' /\ Calling'
      <3>1. Leading'
        BY <2>1 DEF Sound, Leading
      <3>2. Calling'
        BY <2>1, Zenon DEF Sound, Calling, Waits
      <3> QED
        BY <3>1, <3>2
    <2>3. Alone'
      BY <1>4, <1>5 DEF HandleHandoff
    <2>4. CASE epoch' = epoch /\ stage' = stage
      <3>1. Staged'
        BY <2>1, <2>4 DEF Sound, Staged
      <3>2. Crumbed'
        BY <2>1, <2>4, Zenon DEF Sound, Crumbed, Claiming, Safe
      <3> QED
        BY <2>2, <2>3, <3>1, <3>2 DEF Sound
    <2>5. CASE Raised(n, s)
      <3>1. epoch'[n] = e + 1 /\ \A m \in Node \ {n} : epoch'[m] = epoch[m]
        BY <2>5, TypeParts DEF Raised
      <3>2. stage'[n][s].at = "advanced" /\ stage'[n][s].epoch = e + 1
        BY <2>5 DEF Raised
      <3>3. up[n]
        BY <1>5, HandoffStage
      <3>4. ASSUME NEW a \in Node, NEW b \in Node, stage'[a][b].at # "none"
            PROVE  up'[a] /\ b # a /\ stage'[a][b].epoch <= epoch'[a]
        <4>1. CASE <<a, b>> = <<n, s>>
          BY <1>3, <2>1, <3>1, <3>2, <3>3, <4>1
        <4>2. CASE <<a, b>> # <<n, s>>
          <5>1. up[a] /\ b # a /\ stage[a][b].epoch <= epoch[a] /\ stage'[a][b] = stage[a][b]
            <6>1. stage'[a][b] = stage[a][b]
              BY <2>5, <4>2 DEF Raised
            <6>2. stage[a][b].at # "none"
              BY <3>4, <6>1
            <6> QED
              BY <6>1, <6>2, Zenon DEF Sound, Staged
          <5>2. epoch[a] \in Nat /\ epoch[a] <= epoch'[a] /\ stage[a][b].epoch \in Nat /\ epoch'[a] \in Nat
            <6>1. epoch[a] \in Nat /\ stage[a][b].epoch \in Nat
              BY TypeParts DEF Stage
            <6>2. CASE a = n
              BY <1>3, <2>5, <3>1, <6>1, <6>2 DEF Raised
            <6>3. CASE a # n
              BY <3>1, <6>1, <6>3
            <6> QED
              BY <6>1, <6>2, <6>3
          <5> QED
            BY <2>1, <5>1, <5>2
        <4> QED
          BY <4>1, <4>2
      <3>5. \A a, b \in Node : Claiming(a, b)' => Claiming(a, b)
        BY <2>5, <3>2 DEF Claiming, Raised
      <3>6. Staged'
        BY <3>4 DEF Staged
      <3>7. Crumbed'
        BY <2>1, <3>5, Zenon DEF Sound, Crumbed, Safe
      <3> QED
        BY <2>2, <2>3, <3>6, <3>7 DEF Sound
    <2> QED
      BY <1>5, <2>4, <2>5, HandoffStage, Zenon
  <1>6. CASE HandleHandoffAck(n, s)
    <2>1. /\ up' = up /\ crumb' = crumb /\ estate' = estate /\ leader' = leader /\ role' = role
          /\ epoch' = epoch /\ stage' = stage /\ mistaken' = mistaken
      BY <1>6 DEF HandleHandoffAck, disk, lead, handle, history
    <2>2. Leading' /\ Staged'
      BY <2>1 DEF Sound, Leading, Staged
    <2>3. Crumbed'
      BY <2>1, Zenon DEF Sound, Crumbed, Claiming, Safe
    <2>4. \A m \in Node \ {n} : call'[m] = call[m]
      BY <1>6, TypeParts DEF HandleHandoffAck
    <2>5. \A m \in Node \ {n} : Waits(m)'
      BY <2>1, <2>4, Zenon DEF Sound, Calling, Waits
    <2>6. Waits(n)'
      <3>1. CASE call' = call
        BY <2>1, <3>1, Zenon DEF Sound, Calling, Waits
      <3>2. CASE call[n].at = "await" /\ \E a \in {"right", "wrong"} : call' = [call EXCEPT ![n].ack = a]
        <4>1. call'[n].at = "await" /\ call'[n].target = call[n].target
          BY <3>2, TypeParts DEF Awaiting
        <4>2. call[n].target \in Node \ {n}
          BY <3>2 DEF Sound, Calling, Waits
        <4> QED
          BY <4>1, <4>2 DEF Waits
      <3>3. \/ call' = call
            \/ call[n].at = "await" /\ \E a \in {"right", "wrong"} : call' = [call EXCEPT ![n].ack = a]
        BY <1>6 DEF HandleHandoffAck
      <3> QED
        BY <3>1, <3>2, <3>3
    <2>7. Calling'
      BY <2>5, <2>6 DEF Calling
    <2> QED
      BY <1>4, <1>6, <2>2, <2>3, <2>7 DEF HandleHandoffAck, Sound
  <1>7. CASE ReassertClaim(n, s, e)
    <2>1. /\ up' = up /\ crumb' = crumb /\ estate' = estate /\ leader' = leader /\ role' = role
          /\ epoch' = epoch /\ stage' = stage /\ call' = call
      BY <1>7 DEF ReassertClaim, disk, lead, handle
    <2>2. mistaken => mistaken'
      BY <1>7, Zenon DEF ReassertClaim
    <2>3. Leading' /\ Staged'
      BY <2>1 DEF Sound, Leading, Staged
    <2>4. Crumbed'
      BY <2>1, <2>2, Zenon DEF Sound, Crumbed, Claiming, Safe
    <2>5. Calling'
      BY <2>1, <2>2, Zenon DEF Sound, Calling, Waits
    <2>6. Alone'
      <3>1. Claim(e) \in Message
        BY <1>3, ClaimTyped
      <3>2. Grown(Read(n, s), Broadcast(Read(n, s), n, Claim(e)), n, Claim(e))
        BY <1>2, <3>1, BroadcastFrames
      <3>3. \A m \in Node : InFlight(m, m)' = Elements(Read(n, s)[<<m, m>>])
        BY <1>7, <3>2 DEF Grown, InFlight, ReassertClaim
      <3> QED
        BY <1>2, <3>3 DEF Sound, Alone
    <2> QED
      BY <2>3, <2>4, <2>5, <2>6 DEF Sound
  <1>8. CASE FollowClaim(n, s, e)
    <2>1. /\ up' = up /\ crumb' = crumb /\ stage' = stage /\ call' = call /\ mistaken' = mistaken
          /\ net' = Read(n, s)
      BY <1>8 DEF FollowClaim, handle
    <2>2. /\ epoch'[n] = e /\ e >= epoch[n] /\ epoch' \in [Node -> Nat]
          /\ \A m \in Node \ {n} : epoch'[m] = epoch[m]
      BY <1>3, <1>8, TypeParts DEF FollowClaim, Stale
    <2>3. Staged'
      <3>1. \A m \in Node : epoch[m] <= epoch'[m] /\ epoch[m] \in Nat /\ epoch'[m] \in Nat
        BY <1>3, <2>2, TypeParts
      <3>2. \A a, b \in Node : stage[a][b].epoch \in Nat
        BY TypeParts DEF Stage
      <3>3. ASSUME NEW a \in Node, NEW b \in Node, stage'[a][b].at # "none"
            PROVE  up'[a] /\ b # a /\ stage'[a][b].epoch <= epoch'[a]
        <4>1. up[a] /\ b # a /\ stage[a][b].epoch <= epoch[a]
          BY <2>1, <3>3, Zenon DEF Sound, Staged
        <4>2. stage[a][b].epoch <= epoch'[a]
          BY <3>1, <3>2, <4>1
        <4> QED
          BY <2>1, <4>1, <4>2, Zenon
      <3> QED
        BY <3>3 DEF Staged
    <2>4. Leading'
      <3>1. /\ estate'[n] = "Other" /\ role'[n] = IF estate[n] = "Leader" THEN "Replica" ELSE role[n]
            /\ \A m \in Node \ {n} : estate'[m] = estate[m] /\ role'[m] = role[m] /\ leader'[m] = leader[m]
        BY <1>8 DEF FollowClaim, TypeOK
      <3> QED
        BY <2>1, <3>1 DEF Sound, Leading
    <2>5. Crumbed'
      BY <2>1, Zenon DEF Sound, Crumbed, Claiming, Safe
    <2>6. Calling'
      BY <2>1, Zenon DEF Sound, Calling, Waits
    <2> QED
      BY <1>4, <2>1, <2>3, <2>4, <2>5, <2>6 DEF Sound
  <1>9. CASE IgnoreClaim(n, s, e)
    <2>1. /\ up' = up /\ crumb' = crumb /\ estate' = estate /\ leader' = leader /\ role' = role
          /\ epoch' = epoch /\ stage' = stage /\ call' = call /\ mistaken' = mistaken /\ net' = Read(n, s)
      BY <1>9 DEF IgnoreClaim, disk, lead, handle, history
    <2>2. Leading' /\ Staged'
      BY <2>1 DEF Sound, Leading, Staged
    <2>3. Crumbed' /\ Calling'
      BY <2>1, Zenon DEF Sound, Crumbed, Claiming, Safe, Calling, Waits
    <2> QED
      BY <1>4, <2>1, <2>2, <2>3 DEF Sound
  <1> QED
    BY <1>5, <1>6, <1>7, <1>8, <1>9 DEF Deliver, HandleCortexClaim

LEMMA FaultSound == ASSUME TypeOK, Sound, NEW n \in Node, Fault(n) PROVE Sound'
  <1>1. CASE Crash(n)
    <2>1. /\ epoch' = epoch /\ crumb' = crumb /\ mistaken' = mistaken
          /\ up' = [up EXCEPT ![n] = FALSE] /\ estate' = [estate EXCEPT ![n] = "Other"]
          /\ leader' = [leader EXCEPT ![n] = None] /\ role' = [role EXCEPT ![n] = "Replica"]
          /\ call' = [call EXCEPT ![n] = Idle] /\ stage' = [stage EXCEPT ![n] = [s \in Node |-> Quiet]]
      BY <1>1 DEF Crash, disk
    <2>2. Leading'
      BY <2>1 DEF Sound, Leading, TypeOK
    <2>3. \A a, b \in Node : stage'[a][b].at # "none" => a # n /\ stage'[a][b] = stage[a][b]
      BY <2>1, TypeParts DEF Quiet
    <2>4. \A m \in Node \ {n} : up'[m] = up[m]
      BY <2>1 DEF TypeOK
    <2>5. Staged'
      BY <2>1, <2>3, <2>4 DEF Sound, Staged
    <2>6. Crumbed'
      <3>1. \A a, b \in Node : Claiming(a, b)' => Claiming(a, b)
        BY <2>3 DEF Claiming
      <3> QED
        BY <2>1, <3>1, Zenon DEF Sound, Crumbed, Safe
    <2>7. Calling'
      <3>1. \A m \in Node \ {n} : call'[m] = call[m]
        BY <2>1, TypeParts
      <3>2. call'[n].at = "idle" /\ call'[n].ack = "none"
        BY <2>1, TypeParts DEF Idle
      <3>3. \A m \in Node \ {n} : Waits(m)'
        BY <2>1, <3>1, Zenon DEF Sound, Calling, Waits
      <3>4. Waits(n)'
        BY <3>2 DEF Waits
      <3> QED
        BY <3>3, <3>4 DEF Calling
    <2>8. Alone'
      BY <1>1, CrashFrames DEF Sound, Alone
    <2> QED
      BY <2>2, <2>5, <2>6, <2>7, <2>8 DEF Sound
  <1>2. CASE Restart(n)
    <2>1. /\ epoch' = epoch /\ mistaken' = mistaken /\ call' = call /\ stage' = stage
          /\ up' = [up EXCEPT ![n] = TRUE] /\ ~up[n]
          /\ \/ UNCHANGED <<estate, leader, role, crumb>>
             \/ /\ estate' = [estate EXCEPT ![n] = "Leader"] /\ leader' = [leader EXCEPT ![n] = n]
                /\ role' = [role EXCEPT ![n] = "Primary"] /\ crumb' = [crumb EXCEPT ![n] = FALSE]
      BY <1>2 DEF Restart, lead, handle
    <2>2. (\A m \in Node \ {n} : up'[m] = up[m]) /\ up'[n] /\ role[n] # "Primary"
      BY <2>1 DEF TypeOK, Sound, Leading
    <2>3. Leading'
      <3>1. CASE UNCHANGED <<estate, leader, role, crumb>>
        BY <2>2, <3>1 DEF Sound, Leading
      <3>2. CASE /\ estate' = [estate EXCEPT ![n] = "Leader"] /\ leader' = [leader EXCEPT ![n] = n]
                 /\ role' = [role EXCEPT ![n] = "Primary"]
        BY <2>2, <3>2 DEF Sound, Leading, TypeOK
      <3> QED
        BY <2>1, <3>1, <3>2
    <2>4. \A s \in Node : stage[n][s].at = "none"
      BY <2>1 DEF Sound, Staged
    <2>5. Staged'
      BY <2>1, <2>2 DEF Sound, Staged
    <2>6. Crumbed'
      <3>1. \A s \in Node : ~Claiming(n, s)'
        BY <2>1, <2>4 DEF Claiming
      <3>2. \A m \in Node \ {n} : crumb'[m] = crumb[m]
        BY <2>1 DEF TypeOK
      <3>3. \A a, b \in Node : Claiming(a, b)' => Claiming(a, b)
        BY <2>1 DEF Claiming
      <3>4. ASSUME NEW a \in Node, NEW b \in Node, Claiming(a, b)' PROVE Safe(a)'
        <4>1. a # n /\ crumb'[a] = crumb[a] /\ Claiming(a, b)
          BY <3>1, <3>2, <3>3, <3>4
        <4> QED
          BY <2>1, <4>1, Zenon DEF Sound, Crumbed, Safe
      <3> QED
        BY <3>4 DEF Crumbed
    <2>7. Calling'
      BY <2>1, Zenon DEF Sound, Calling, Waits
    <2>8. Alone'
      <3> SUFFICES ASSUME NEW m \in Node, NEW f \in InFlight(m, m)' PROVE FALSE
        BY DEF Alone
      <3>1. f \notin InFlight(m, m)
        BY DEF Sound, Alone
      <3>2. n \in {m, m} /\ (m = n => m # n \/ role[m] = "Primary")
        BY <1>2, <3>1, RestartFrames
      <3> QED
        BY <2>2, <3>2
    <2> QED
      BY <2>3, <2>5, <2>6, <2>7, <2>8 DEF Sound
  <1>3. ASSUME NEW d \in Node, Reconnect(n, d) PROVE Sound'
    <2>1. /\ epoch' = epoch /\ crumb' = crumb /\ mistaken' = mistaken /\ call' = call /\ stage' = stage
          /\ up' = up /\ estate' = estate /\ leader' = leader /\ role' = role
      BY <1>3 DEF Reconnect, disk, lead
    <2>2. Leading' /\ Staged'
      BY <2>1 DEF Sound, Leading, Staged
    <2>3. Crumbed' /\ Calling'
      BY <2>1, Zenon DEF Sound, Crumbed, Claiming, Safe, Calling, Waits
    <2>4. Alone'
      <3> SUFFICES ASSUME NEW m \in Node, NEW f \in InFlight(m, m)' PROVE FALSE
        BY DEF Alone
      <3> QED
        BY <1>3, HelloFrames DEF Reconnect, Sound, Alone
    <2> QED
      BY <2>2, <2>3, <2>4 DEF Sound
  <1> QED
    BY <1>1, <1>2, <1>3 DEF Fault

LEMMA StepSound == ASSUME TypeOK, Sound, [Next]_vars PROVE Sound'
  <1>1. CASE UNCHANGED vars
    <2>1. /\ epoch' = epoch /\ crumb' = crumb /\ mistaken' = mistaken /\ call' = call /\ stage' = stage
          /\ up' = up /\ estate' = estate /\ leader' = leader /\ role' = role /\ net' = net
      BY <1>1 DEF vars
    <2>2. Leading' /\ Staged' /\ Alone'
      BY <2>1 DEF Sound, Leading, Staged, Alone, InFlight
    <2>3. Crumbed' /\ Calling'
      BY <2>1, Zenon DEF Sound, Crumbed, Claiming, Safe, Calling, Waits
    <2> QED
      BY <2>2, <2>3 DEF Sound
  <1>2. CASE Next
    <2>1. PICK n \in Node : Call(n) \/ Fault(n) \/ \E s \in Node : Handle(n, s) \/ Deliver(n, s)
      BY <1>2 DEF Next
    <2> QED
      BY <2>1, CallSound, HandleSound, DeliverSound, FaultSound
  <1> QED
    BY <1>1, <1>2

LEMMA InitSound == Init => Sound
  <1> SUFFICES ASSUME Init PROVE Sound
    OBVIOUS
  <1>1. /\ up = [n \in Node |-> TRUE] /\ net = [c \in Node \X Node |-> <<>>]
        /\ call = [n \in Node |-> Idle] /\ stage = [n \in Node |-> [s \in Node |-> Quiet]]
    BY DEF Init
  <1>2. PICK c \in Node : /\ estate = [n \in Node |-> IF n = c THEN "Leader" ELSE "Other"]
                          /\ role = [n \in Node |-> IF n = c THEN "Primary" ELSE "Replica"]
                          /\ leader = [n \in Node |-> c]
    BY DEF Init
  <1>3. Leading
    BY <1>1, <1>2 DEF Leading
  <1>4. \A n, s \in Node : stage[n][s].at = "none"
    BY <1>1 DEF Quiet
  <1>5. Staged /\ Crumbed
    BY <1>4 DEF Staged, Crumbed, Claiming
  <1>6. Calling
    BY <1>1 DEF Calling, Waits, Idle
  <1>7. Alone
    <2>1. Elements(<<>>) = {}
      BY DEF Elements
    <2> QED
      BY <1>1, <2>1 DEF Alone, InFlight
  <1> QED
    BY <1>3, <1>5, <1>6, <1>7 DEF Sound

LEMMA SoundHolds == Spec => [](TypeOK /\ Sound)
  BY InitTyped, InitSound, StepTyped, StepSound, PTL DEF Spec

-----------------------------------------------------------------------------
(* Two Cortexes are not for long *)

Leads(n) ==
    \/ role[n] = "Primary"
    \/ \E s \in Node : stage[n][s].at \in {"persisted", "claimed"}
    \/ \E s \in Node : stage[n][s].at = "leading" /\ estate[n] = "Leader"
About(n) == \E s \in Node : stage[n][s].at \in {"advanced", "persisted"} /\ stage[n][s].epoch = epoch[n]
Coming(n, m) == Claim(epoch[n]) \in InFlight(n, m)

\* Whoever leads has told m, or will; and of two at one epoch, one will tell the other.
Told(n, m) == Leads(n) => epoch[m] >= epoch[n] \/ Coming(n, m) \/ About(n)
Tied(n, m) == Leads(n) /\ Leads(m) /\ epoch[n] = epoch[m] =>
                  Coming(n, m) \/ Coming(m, n) \/ About(n) \/ About(m)
AllUp == \A n \in Node : up[n]
Brief == \A n, m \in Node : n # m => Told(n, m) /\ Tied(n, m)
Dual  == faults > 0 \/ overrun \/ (AllUp /\ Brief)

\* A claim that has been read is one that its reader goes beyond, or answers.
Heard(n, m) == epoch[m] > epoch[n] \/ (epoch[m] = epoch[n] /\ Coming(m, n)')

LEMMA KeepsBrief ==
    ASSUME TypeOK, Brief, epoch' = epoch,
           \A a \in Node : Leads(a)' => Leads(a) \/ About(a)',
           \A a \in Node : About(a) => About(a)' \/ \A b \in Node \ {a} : Coming(a, b)',
           \A a, b \in Node : a # b /\ Coming(a, b) => Coming(a, b)' \/ Heard(a, b)
    PROVE  Brief'
  <1> SUFFICES ASSUME NEW a \in Node, NEW b \in Node, a # b PROVE Told(a, b)' /\ Tied(a, b)'
    BY DEF Brief
  <1>1. Told(a, b) /\ Tied(a, b) /\ epoch[a] \in Nat /\ epoch[b] \in Nat
    BY TypeParts DEF Brief
  <1>2. (Coming(a, b) => Coming(a, b)' \/ Heard(a, b)) /\ (Coming(b, a) => Coming(b, a)' \/ Heard(b, a))
    OBVIOUS
  <1>3. (About(a) => About(a)' \/ Coming(a, b)') /\ (About(b) => About(b)' \/ Coming(b, a)')
    OBVIOUS
  <1>4. (Leads(a)' => Leads(a) \/ About(a)') /\ (Leads(b)' => Leads(b) \/ About(b)')
    OBVIOUS
  <1>5. Told(a, b)'
    BY <1>1, <1>2, <1>3, <1>4 DEF Told, Heard
  <1>6. Tied(a, b)'
    BY <1>1, <1>2, <1>3, <1>4 DEF Tied, Heard
  <1> QED
    BY <1>5, <1>6

LEMMA CallBrief == ASSUME TypeOK, Sound, Brief, NEW n \in Node, Call(n) PROVE Brief'
  <1>1. /\ epoch' = epoch /\ stage' = stage /\ estate' = estate
        /\ \A m \in Node : role'[m] = "Primary" => role[m] = "Primary"
    BY DEF Call, Drain, SendHandoff, GiveUp, TakeAck, Retire, disk, lead, handle, TypeOK
  <1>2. \A a \in Node : (Leads(a)' => Leads(a)) /\ (About(a) => About(a)')
    BY <1>1 DEF Leads, About
  <1>3. \A a, b \in Node : InFlight(a, b) \subseteq InFlight(a, b)'
    <2>1. CASE SendHandoff(n)
      <3>1. call[n].target \in Node
        BY <2>1 DEF SendHandoff, Sound, Calling, Waits
      <3>2. [type |-> "Handoff", epoch |-> epoch[n]] \in Message
        BY TypeParts DEF Message
      <3> QED
        BY <2>1, <3>1, <3>2, TypeParts, SendFrames DEF SendHandoff
    <2>2. CASE net' = net
      BY <2>2 DEF InFlight
    <2> QED
      BY <2>1, <2>2 DEF Call, Drain, GiveUp, TakeAck, Retire
  <1>4. \A a, b \in Node : Coming(a, b) => Coming(a, b)'
    BY <1>1, <1>3 DEF Coming
  <1> QED
    BY <1>1, <1>2, <1>4, KeepsBrief

LEMMA HandleBrief == ASSUME TypeOK, Sound, AllUp, Brief, NEW n \in Node, NEW s \in Node, Handle(n, s) PROVE Brief'
  <1>1. epoch' = epoch
    BY DEF Handle, PersistRole, BroadcastClaim, TakeLead, HandlePromotion, SendAck, FailAck, ClearRole, disk
  <1>2. /\ \A a, b \in Node : <<a, b>> # <<n, s>> => stage'[a][b] = stage[a][b]
        /\ stage'[n][s].at = "none" \/ stage'[n][s].epoch = stage[n][s].epoch
    BY OneStage
  <1>3. \A a \in Node \ {n} : /\ estate'[a] = estate[a] /\ role'[a] = role[a]
    BY DEF Handle, PersistRole, BroadcastClaim, TakeLead, HandlePromotion, SendAck, FailAck, ClearRole,
           lead, TypeOK
  <1>4. \A a \in Node \ {n} : (Leads(a)' => Leads(a)) /\ (About(a) => About(a)')
    BY <1>1, <1>2, <1>3 DEF Leads, About
  <1>5. stage[n][s].epoch \in Nat /\ epoch[n] \in Nat /\ net \in [Node \X Node -> Seq(Message)]
    BY TypeParts DEF Stage
  <1>6. \A a, b \in Node : Coming(a, b) => Coming(a, b)'
    <2>1. \A a, b \in Node : InFlight(a, b) \subseteq InFlight(a, b)'
      <3>1. CASE BroadcastClaim(n, s)
        <4>1. Grown(net, Broadcast(net, n, Claim(stage[n][s].epoch)), n, Claim(stage[n][s].epoch))
          BY <1>5, ClaimTyped, BroadcastFrames
        <4> QED
          BY <3>1, <4>1 DEF BroadcastClaim, Grown, InFlight
      <3>2. CASE SendAck(n, s)
        <4>1. [type |-> "Ack", epoch |-> stage[n][s].epoch] \in Message
          BY <1>5 DEF Message
        <4> QED
          BY <1>5, <3>2, <4>1, SendFrames DEF SendAck
      <3>3. CASE net' = net
        BY <3>3 DEF InFlight
      <3> QED
        BY <3>1, <3>2, <3>3 DEF Handle, PersistRole, TakeLead, HandlePromotion, FailAck, ClearRole
    <2> QED
      BY <1>1, <2>1 DEF Coming
  <1>7. stage[n][s].at \notin {"advanced", "persisted"} \/ stage[n][s].epoch # epoch[n] => (About(n) => About(n)')
    BY <1>1, <1>2 DEF About
  <1>8. About(n) => About(n)' \/ \A b \in Node \ {n} : Coming(n, b)'
    <2>1. CASE PersistRole(n, s)
      <3>1. CASE epoch[n] = stage[n][s].epoch
        <4>1. stage'[n][s].at = "persisted" /\ stage'[n][s].epoch = epoch[n]
          BY <2>1, <3>1, Entering DEF PersistRole
        <4> QED
          BY <1>1, <4>1 DEF About
      <3> QED
        BY <1>7, <3>1
    <2>2. CASE BroadcastClaim(n, s)
      <3>1. CASE epoch[n] = stage[n][s].epoch
        <4>1. Grown(net, Broadcast(net, n, Claim(epoch[n])), n, Claim(epoch[n]))
          BY <1>5, ClaimTyped, BroadcastFrames
        <4>2. net' = Broadcast(net, n, Claim(epoch[n]))
          BY <2>2, <3>1 DEF BroadcastClaim
        <4>3. ASSUME NEW b \in Node \ {n} PROVE Claim(epoch[n]) \in InFlight(n, b)'
          <5>1. up[b] /\ b \in Node /\ b # n
            BY DEF AllUp
          <5> QED
            BY <4>1, <4>2, <5>1 DEF Grown, InFlight
        <4> QED
          BY <1>1, <4>3 DEF Coming
      <3> QED
        BY <1>7, <3>1
    <2>3. CASE TakeLead(n, s) \/ HandlePromotion(n, s) \/ SendAck(n, s) \/ FailAck(n, s) \/ ClearRole(n, s)
      BY <1>7, <2>3 DEF TakeLead, HandlePromotion, SendAck, FailAck, ClearRole, At
    <2> QED
      BY <2>1, <2>2, <2>3 DEF Handle
  <1>9. Leads(n)' => Leads(n) \/ About(n)'
    <2>1. CASE PersistRole(n, s)
      <3>1. estate' = estate /\ role' = role
        BY <2>1 DEF PersistRole, lead
      <3>2. CASE epoch[n] = stage[n][s].epoch
        <4>1. stage'[n][s].at = "persisted" /\ stage'[n][s].epoch = epoch[n]
          BY <2>1, <3>2, Entering DEF PersistRole
        <4> QED
          BY <1>1, <4>1 DEF About
      <3>3. CASE epoch[n] # stage[n][s].epoch
        <4>1. stage'[n][s] = Quiet
          BY <2>1, <3>3, Leaving DEF PersistRole
        <4> QED
          BY <1>2, <3>1, <4>1 DEF Leads, Quiet
      <3> QED
        BY <3>2, <3>3
    <2>2. CASE BroadcastClaim(n, s)
      BY <1>2, <2>2 DEF BroadcastClaim, Leads, At, lead
    <2>3. CASE TakeLead(n, s)
      BY <1>2, <2>3 DEF TakeLead, Leads, At
    <2>4. CASE HandlePromotion(n, s)
      <3>1. stage[n][s].at = "leading" /\ stage'[n][s].at = "promoted" /\ estate' = estate
        BY <2>4, Entering DEF HandlePromotion, At
      <3>2. role'[n] = "Primary" => role[n] = "Primary" \/ estate[n] = "Leader"
        BY <2>4 DEF HandlePromotion, TypeOK
      <3> QED
        BY <1>2, <3>1, <3>2 DEF Leads
    <2>5. CASE SendAck(n, s) \/ FailAck(n, s) \/ ClearRole(n, s)
      <3>1. estate' = estate /\ role' = role
        BY <2>5 DEF SendAck, FailAck, ClearRole, lead
      <3>2. stage'[n][s].at \in {"acked", "none"}
        <4>1. CASE Leave(n, s)
          <5>1. stage'[n][s] = Quiet
            BY <4>1, Leaving
          <5> QED
            BY <5>1 DEF Quiet
        <4>2. CASE Enter(n, s, "acked")
          BY <4>2, Entering
        <4> QED
          BY <2>5, <4>1, <4>2 DEF SendAck, FailAck, ClearRole
      <3> QED
        BY <1>2, <3>1, <3>2 DEF Leads
    <2> QED
      BY <2>1, <2>2, <2>3, <2>4, <2>5 DEF Handle
  <1>10. \A a \in Node : /\ Leads(a)' => Leads(a) \/ About(a)'
                         /\ About(a) => About(a)' \/ \A b \in Node \ {a} : Coming(a, b)'
    BY <1>4, <1>8, <1>9
  <1> QED
    BY <1>1, <1>6, <1>10, KeepsBrief

LEMMA DeliverBrief ==
    ASSUME TypeOK, Sound, AllUp, Brief, NEW n \in Node, NEW s \in Node, Deliver(n, s), ~overrun'
    PROVE  Brief'
  <1> DEFINE e == Frame(n, s).epoch
  <1>1. net[<<s, n>>] # <<>> /\ net \in [Node \X Node -> Seq(Message)]
    BY TypeParts DEF Deliver, HandleHandoff, HandleHandoffAck, HandleCortexClaim, Reads
  <1>2. /\ Frame(n, s) \in Message /\ Frame(n, s) \in InFlight(s, n) /\ Read(n, s) \in [Node \X Node -> Seq(Message)]
        /\ InFlight(s, n) \subseteq Elements(Read(n, s)[<<s, n>>]) \cup {Frame(n, s)}
        /\ \A a, b \in Node : a # s \/ b # n => Elements(Read(n, s)[<<a, b>>]) = InFlight(a, b)
    <2>1. \A a, b \in Node : a # s \/ b # n => Read(n, s)[<<a, b>>] = net[<<a, b>>]
      BY <1>1, Reading
    <2>2. \A a, b \in Node : a # s \/ b # n => Elements(Read(n, s)[<<a, b>>]) = InFlight(a, b)
      BY <2>1 DEF InFlight
    <2> QED
      BY <1>1, <2>2, Reading
  <1>3. s # n /\ e \in Nat /\ \A a \in Node : epoch[a] \in Nat
    BY <1>2, TypeParts DEF Sound, Alone, Message
  \* Of the claims in flight, only the one read can be lost.
  <1>4. ASSUME \A a, b \in Node : Elements(Read(n, s)[<<a, b>>]) \subseteq InFlight(a, b)'
        PROVE  \A a, b \in Node : \A f \in InFlight(a, b) :
                  f \in InFlight(a, b)' \/ (a = s /\ b = n /\ f = Frame(n, s))
    <2> SUFFICES ASSUME NEW a \in Node, NEW b \in Node, NEW f \in InFlight(a, b)
                 PROVE  f \in InFlight(a, b)' \/ (a = s /\ b = n /\ f = Frame(n, s))
      OBVIOUS
    <2>1. CASE a # s \/ b # n
      BY <1>2, <1>4, <2>1
    <2>2. CASE a = s /\ b = n
      BY <1>2, <1>4, <2>2
    <2> QED
      BY <2>1, <2>2
  <1>5. net' = Read(n, s) => \A a, b \in Node : Elements(Read(n, s)[<<a, b>>]) \subseteq InFlight(a, b)'
    BY DEF InFlight
  <1>6. \A x \in Nat : Claim(x).type = "Claim" /\ Claim(x).epoch = x
    BY ClaimTyped
  <1>7. CASE HandleHandoffAck(n, s)
    <2>1. /\ epoch' = epoch /\ stage' = stage /\ estate' = estate /\ role' = role /\ net' = Read(n, s)
          /\ Frame(n, s).type = "Ack"
      BY <1>7 DEF HandleHandoffAck, disk, lead, handle, Reads, Frame
    <2>2. \A a, b \in Node : Coming(a, b) => Coming(a, b)'
      BY <1>3, <1>4, <1>5, <1>6, <2>1 DEF Coming
    <2>3. \A a \in Node : (Leads(a)' => Leads(a)) /\ (About(a) => About(a)')
      BY <2>1 DEF Leads, About
    <2> QED
      BY <2>1, <2>2, <2>3, KeepsBrief
  <1>8. CASE IgnoreClaim(n, s, e)
    <2>1. /\ epoch' = epoch /\ stage' = stage /\ estate' = estate /\ role' = role /\ net' = Read(n, s)
          /\ e < epoch[n]
      BY <1>8 DEF IgnoreClaim, disk, lead, handle, Stale
    <2>2. ASSUME NEW a \in Node, NEW b \in Node, Coming(a, b) PROVE Coming(a, b)' \/ Heard(a, b)
      <3>1. CASE a = s /\ b = n /\ Claim(epoch[a]) = Frame(n, s)
        BY <1>3, <1>6, <2>1, <3>1 DEF Heard
      <3> QED
        BY <1>4, <1>5, <2>1, <2>2, <3>1 DEF Coming
    <2>3. \A a \in Node : (Leads(a)' => Leads(a)) /\ (About(a) => About(a)')
      BY <2>1 DEF Leads, About
    <2> QED
      BY <2>1, <2>2, <2>3, KeepsBrief
  <1>9. CASE ReassertClaim(n, s, e)
    <2>1. /\ epoch' = epoch /\ stage' = stage /\ estate' = estate /\ role' = role
          /\ e = epoch[n] /\ net' = Broadcast(Read(n, s), n, Claim(e))
      BY <1>9 DEF ReassertClaim, disk, lead, handle, WinsTie
    <2>2. Grown(Read(n, s), net', n, Claim(e))
      BY <1>2, <1>3, <2>1, ClaimTyped, BroadcastFrames
    <2>3. Coming(n, s)'
      BY <1>3, <2>1, <2>2 DEF Coming, Grown, InFlight, AllUp
    <2>4. \A a, b \in Node : Elements(Read(n, s)[<<a, b>>]) \subseteq InFlight(a, b)'
      BY <2>2 DEF Grown, InFlight
    <2>5. ASSUME NEW a \in Node, NEW b \in Node, Coming(a, b) PROVE Coming(a, b)' \/ Heard(a, b)
      <3>1. CASE a = s /\ b = n /\ Claim(epoch[a]) = Frame(n, s)
        <4>1. epoch[s] = e
          BY <1>3, <1>6, <3>1
        <4> QED
          BY <2>1, <2>3, <3>1, <4>1 DEF Heard
      <3> QED
        BY <1>4, <2>1, <2>4, <2>5, <3>1 DEF Coming
    <2>6. \A a \in Node : (Leads(a)' => Leads(a)) /\ (About(a) => About(a)')
      BY <2>1 DEF Leads, About
    <2> QED
      BY <2>1, <2>5, <2>6, KeepsBrief
  <1>10. CASE FollowClaim(n, s, e)
    <2>1. /\ stage' = stage /\ net' = Read(n, s)
          /\ epoch'[n] = e /\ e >= epoch[n] /\ \A a \in Node \ {n} : epoch'[a] = epoch[a]
      BY <1>3, <1>10, TypeParts DEF FollowClaim, handle, Stale
    <2>2. /\ estate'[n] = "Other" /\ role'[n] # "Primary"
          /\ \A a \in Node \ {n} : estate'[a] = estate[a] /\ role'[a] = role[a]
      BY <1>10 DEF FollowClaim, TypeOK, Sound, Leading
    <2>3. \A x \in Node : stage[n][x].at \notin {"persisted", "claimed"}
      BY <1>10, Zenon DEF FollowClaim
    <2>4. ~Leads(n)'
      BY <2>1, <2>2, <2>3 DEF Leads
    <2>5. \A a \in Node \ {n} : (Leads(a)' => Leads(a)) /\ (About(a) => About(a)')
      BY <2>1, <2>2 DEF Leads, About
    <2>6. ASSUME NEW a \in Node \ {n}, NEW b \in Node, Coming(a, b)
          PROVE  Coming(a, b)' \/ (b = n /\ epoch'[n] = epoch[a])
      <3>1. CASE a = s /\ b = n /\ Claim(epoch[a]) = Frame(n, s)
        BY <1>3, <1>6, <2>1, <3>1
      <3> QED
        BY <1>4, <1>5, <2>1, <2>6, <3>1 DEF Coming
    <2> SUFFICES ASSUME NEW a \in Node, NEW b \in Node, a # b PROVE Told(a, b)' /\ Tied(a, b)'
      BY DEF Brief
    <2>7. CASE a = n
      BY <2>4, <2>7 DEF Told, Tied
    <2>8. CASE b = n
      <3>1. Told(a, n) /\ a # n
        BY <2>8 DEF Brief
      <3>2. epoch'[a] = epoch[a] /\ epoch'[n] >= epoch[n] /\ epoch'[n] \in Nat
        BY <1>3, <2>1, <3>1
      <3>3. Told(a, n)'
        BY <1>3, <2>5, <2>6, <3>1, <3>2 DEF Told
      <3> QED
        BY <2>4, <2>8, <3>3 DEF Tied
    <2>9. CASE a # n /\ b # n
      <3>1. Told(a, b) /\ Tied(a, b)
        BY DEF Brief
      <3>2. (Coming(a, b) => Coming(a, b)') /\ (Coming(b, a) => Coming(b, a)')
        BY <2>6, <2>9
      <3>3. epoch'[a] = epoch[a] /\ epoch'[b] = epoch[b]
        BY <2>1, <2>9
      <3>4. (Leads(a)' => Leads(a)) /\ (Leads(b)' => Leads(b)) /\ (About(a) => About(a)') /\ (About(b) => About(b)')
        BY <2>5, <2>9
      <3> QED
        BY <3>1, <3>2, <3>3, <3>4 DEF Told, Tied
    <2> QED
      BY <2>7, <2>8, <2>9
  <1>11. CASE HandleHandoff(n, s)
    <2>1. /\ estate' = estate /\ role' = role /\ net' = Read(n, s) /\ Frame(n, s).type = "Handoff"
      BY <1>11 DEF HandleHandoff, lead, Reads, Frame
    <2>2. \A a, b \in Node : Claim(epoch[a]) \in InFlight(a, b) => Claim(epoch[a]) \in InFlight(a, b)'
      BY <1>3, <1>4, <1>5, <1>6, <2>1
    <2>3. CASE epoch' = epoch /\ stage' = stage
      <3>1. \A a, b \in Node : Coming(a, b) => Coming(a, b)'
        BY <2>2, <2>3 DEF Coming
      <3>2. \A a \in Node : (Leads(a)' => Leads(a)) /\ (About(a) => About(a)')
        BY <2>1, <2>3 DEF Leads, About
      <3> QED
        BY <2>3, <3>1, <3>2, KeepsBrief
    <2>4. CASE Raised(n, s)
      <3>1. epoch'[n] = e + 1 /\ e + 1 > epoch[n] /\ \A a \in Node \ {n} : epoch'[a] = epoch[a]
        BY <2>4, TypeParts DEF Raised
      <3>2. /\ stage'[n][s].at = "advanced" /\ stage'[n][s].epoch = e + 1
            /\ \A a \in Node \ {n} : \A b \in Node : stage'[a][b] = stage[a][b]
        BY <2>4 DEF Raised
      <3>3. About(n)'
        BY <3>1, <3>2 DEF About
      <3>4. \A a \in Node \ {n} : (Leads(a)' => Leads(a)) /\ (About(a) => About(a)')
        BY <2>1, <3>1, <3>2 DEF Leads, About
      <3>5. \A a \in Node \ {n} : \A b \in Node : Coming(a, b) => Coming(a, b)'
        BY <2>2, <3>1 DEF Coming
      <3>6. \A a \in Node : epoch'[a] \in Nat /\ epoch'[a] >= epoch[a]
        BY <1>3, <3>1
      <3> SUFFICES ASSUME NEW a \in Node, NEW b \in Node, a # b PROVE Told(a, b)' /\ Tied(a, b)'
        BY DEF Brief
      <3>7. Told(a, b) /\ Tied(a, b)
        BY DEF Brief
      <3>8. Told(a, b)'
        <4>1. CASE a = n
          BY <3>3, <4>1 DEF Told
        <4>2. CASE a # n
          <5>1. /\ (Leads(a)' => Leads(a)) /\ (About(a) => About(a)') /\ (Coming(a, b) => Coming(a, b)')
                /\ epoch'[a] = epoch[a] /\ epoch[a] \in Nat
                /\ epoch'[b] \in Nat /\ epoch'[b] >= epoch[b] /\ epoch[b] \in Nat
            BY <1>3, <3>1, <3>4, <3>5, <3>6, <4>2
          <5> QED
            BY <3>7, <5>1 DEF Told
        <4> QED
          BY <4>1, <4>2
      <3>9. Tied(a, b)'
        <4>1. CASE a = n \/ b = n
          BY <3>3, <4>1 DEF Tied
        <4>2. CASE a # n /\ b # n
          <5>1. /\ (Leads(a)' => Leads(a)) /\ (About(a) => About(a)') /\ (Coming(a, b) => Coming(a, b)')
                /\ (Leads(b)' => Leads(b)) /\ (About(b) => About(b)') /\ (Coming(b, a) => Coming(b, a)')
                /\ epoch'[a] = epoch[a] /\ epoch'[b] = epoch[b]
            BY <3>1, <3>4, <3>5, <4>2
          <5> QED
            BY <3>7, <5>1 DEF Tied
        <4> QED
          BY <4>1, <4>2
      <3> QED
        BY <3>8, <3>9
    <2> QED
      BY <1>11, <2>3, <2>4, HandoffStage, Zenon
  <1> QED
    BY <1>7, <1>8, <1>9, <1>10, <1>11 DEF Deliver, HandleCortexClaim

LEMMA StepDual == ASSUME TypeOK, Sound, Dual, [Next]_vars PROVE Dual'
  <1>1. overrun => overrun'
    <2>1. CASE UNCHANGED vars
      BY <2>1 DEF vars
    <2>2. CASE Next
      <3>1. PICK n \in Node : Call(n) \/ Fault(n) \/ \E s \in Node : Handle(n, s) \/ Deliver(n, s)
        BY <2>2 DEF Next
      <3>2. CASE Call(n)
        BY <3>2 DEF Call, Drain, SendHandoff, GiveUp, TakeAck, Retire, history
      <3>3. CASE Fault(n)
        BY <3>3 DEF Fault, Crash, Restart, Reconnect
      <3>4. ASSUME NEW s \in Node, Handle(n, s) PROVE overrun' = overrun
        BY <3>4 DEF Handle, PersistRole, BroadcastClaim, TakeLead, HandlePromotion, SendAck, FailAck,
                    ClearRole, history
      <3>5. ASSUME NEW s \in Node, Deliver(n, s) PROVE overrun => overrun'
        <4>1. CASE FollowClaim(n, s, Frame(n, s).epoch)
          BY <4>1, Zenon DEF FollowClaim
        <4>2. CASE \/ HandleHandoff(n, s) \/ HandleHandoffAck(n, s)
                   \/ ReassertClaim(n, s, Frame(n, s).epoch) \/ IgnoreClaim(n, s, Frame(n, s).epoch)
          BY <4>2 DEF HandleHandoff, HandleHandoffAck, ReassertClaim, IgnoreClaim, history
        <4> QED
          BY <3>5, <4>1, <4>2 DEF Deliver, HandleCortexClaim
      <3> QED
        BY <3>1, <3>2, <3>3, <3>4, <3>5
    <2> QED
      BY <2>1, <2>2
  <1>2. CASE overrun'
    BY <1>2, Zenon DEF Dual
  <1>3. CASE faults > 0
    <2>1. faults' = faults \/ faults' = faults + 1
      <3>1. CASE UNCHANGED vars
        BY <3>1 DEF vars
      <3>2. ASSUME NEW n \in Node, Call(n) PROVE faults' = faults
        BY <3>2 DEF Call, Drain, SendHandoff, GiveUp, TakeAck, Retire, history
      <3>3. ASSUME NEW n \in Node, Fault(n) PROVE faults' = faults \/ faults' = faults + 1
        BY <3>3 DEF Fault, Crash, Restart, Reconnect
      <3>4. ASSUME NEW n \in Node, NEW s \in Node, Handle(n, s) PROVE faults' = faults
        BY <3>4 DEF Handle, PersistRole, BroadcastClaim, TakeLead, HandlePromotion, SendAck, FailAck,
                    ClearRole, history
      <3>5. ASSUME NEW n \in Node, NEW s \in Node, Deliver(n, s) PROVE faults' = faults
        BY <3>5 DEF Deliver, HandleHandoff, HandleHandoffAck, HandleCortexClaim, ReassertClaim,
                    FollowClaim, IgnoreClaim, history
      <3> QED
        BY <3>1, <3>2, <3>3, <3>4, <3>5 DEF Next
    <2>2. faults' > 0
      BY <1>3, <2>1, TypeParts
    <2> QED
      BY <2>2 DEF Dual
  <1>4. CASE AllUp /\ Brief /\ ~overrun'
    <2>1. CASE UNCHANGED vars
      <3>1. /\ up' = up /\ epoch' = epoch /\ role' = role /\ stage' = stage /\ estate' = estate
            /\ net' = net
        BY <2>1 DEF vars
      <3>2. \A a, b \in Node : /\ Leads(a)' <=> Leads(a)
                               /\ About(a)' <=> About(a)
                               /\ Coming(a, b)' <=> Coming(a, b)
        BY <3>1 DEF Leads, About, Coming, InFlight
      <3>3. AllUp'
        BY <1>4, <3>1, Zenon DEF AllUp
      <3>4. \A a, b \in Node : Told(a, b)' <=> Told(a, b)
        BY <3>1, <3>2 DEF Told
      <3>5. \A a, b \in Node : Tied(a, b)' <=> Tied(a, b)
        BY <3>1, <3>2 DEF Tied
      <3> QED
        BY <1>4, <3>3, <3>4, <3>5, Zenon DEF Dual, Brief
    <2>2. CASE Next
      <3>1. PICK n \in Node : Call(n) \/ Fault(n) \/ \E s \in Node : Handle(n, s) \/ Deliver(n, s)
        BY <2>2 DEF Next
      <3>2. CASE Call(n)
        <4>1. up' = up
          BY <3>2 DEF Call, Drain, SendHandoff, GiveUp, TakeAck, Retire, history
        <4>2. Brief'
          BY <1>4, <3>2, CallBrief
        <4> QED
          BY <1>4, <4>1, <4>2 DEF Dual, AllUp
      <3>3. ASSUME NEW s \in Node, Handle(n, s) PROVE Dual'
        <4>1. up' = up
          BY <3>3 DEF Handle, PersistRole, BroadcastClaim, TakeLead, HandlePromotion, SendAck, FailAck,
                      ClearRole, history
        <4>2. Brief'
          BY <1>4, <3>3, HandleBrief
        <4> QED
          BY <1>4, <4>1, <4>2 DEF Dual, AllUp
      <3>4. ASSUME NEW s \in Node, Deliver(n, s) PROVE Dual'
        <4>1. up' = up
          BY <3>4 DEF Deliver, HandleHandoff, HandleHandoffAck, HandleCortexClaim, ReassertClaim,
                      FollowClaim, IgnoreClaim, history
        <4>2. Brief'
          BY <1>4, <3>4, DeliverBrief
        <4> QED
          BY <1>4, <4>1, <4>2 DEF Dual, AllUp
      <3>5. CASE Fault(n)
        <4>1. ~Restart(n)
          BY <1>4 DEF Restart, AllUp
        <4>2. faults' = faults + 1
          BY <3>5, <4>1 DEF Fault, Crash, Reconnect
        <4>3. faults' > 0
          BY <4>2, TypeParts
        <4> QED
          BY <4>3 DEF Dual
      <3> QED
        BY <3>1, <3>2, <3>3, <3>4, <3>5
    <2> QED
      BY <2>1, <2>2
  <1> QED
    BY <1>1, <1>2, <1>3, <1>4, Zenon DEF Dual

LEMMA InitDual == Init => Dual
  <1> SUFFICES ASSUME Init PROVE Dual
    OBVIOUS
  <1>1. /\ up = [n \in Node |-> TRUE] /\ epoch = [n \in Node |-> 1]
        /\ stage = [n \in Node |-> [s \in Node |-> Quiet]]
    BY DEF Init
  <1>2. PICK c \in Node : role = [n \in Node |-> IF n = c THEN "Primary" ELSE "Replica"]
    BY DEF Init
  <1>3. \A n, s \in Node : stage[n][s].at = "none"
    BY <1>1 DEF Quiet
  <1>4. \A n \in Node : Leads(n) => n = c
    BY <1>2, <1>3 DEF Leads
  <1>5. AllUp
    BY <1>1 DEF AllUp
  <1>6. Brief
    BY <1>1, <1>4 DEF Brief, Told, Tied
  <1> QED
    BY <1>5, <1>6 DEF Dual

LEMMA DualIsEnding == ASSUME TypeOK, Dual PROVE DualIsBrief
  <1> SUFFICES ASSUME NEW n \in Node, NEW m \in Node, n < m, role[n] = "Primary", role[m] = "Primary"
               PROVE  Ending(n, m) \/ Ending(m, n) \/ faults > 0 \/ overrun
    BY DEF DualIsBrief
  <1> SUFFICES ASSUME Brief PROVE Ending(n, m) \/ Ending(m, n)
    BY Zenon DEF Dual
  <1>1. n # m /\ epoch[n] \in Nat /\ epoch[m] \in Nat
    BY TypeParts
  <1>2. Told(n, m) /\ Told(m, n) /\ Tied(n, m) /\ Leads(n) /\ Leads(m)
    BY <1>1 DEF Brief, Leads
  <1>3. ASSUME NEW a \in Node, NEW b \in Node, epoch[a] >= epoch[b], Coming(a, b) PROVE Ending(a, b)
    <2>1. PICK i \in DOMAIN net[<<a, b>>] : net[<<a, b>>][i] = Claim(epoch[a])
      BY <1>3 DEF Coming, InFlight, Elements
    <2>2. Claim(epoch[a]).type = "Claim" /\ Claim(epoch[a]).epoch = epoch[a]
      BY ClaimTyped, TypeParts
    <2> QED
      BY <1>3, <2>1, <2>2 DEF Ending
  <1>4. ASSUME NEW a \in Node, NEW b \in Node, epoch[a] >= epoch[b], About(a) PROVE Ending(a, b)
    BY <1>4 DEF About, Ending
  <1>5. CASE epoch[n] > epoch[m]
    <2>1. Coming(n, m) \/ About(n)
      BY <1>1, <1>2, <1>5 DEF Told
    <2> QED
      BY <1>1, <1>3, <1>4, <1>5, <2>1
  <1>6. CASE epoch[m] > epoch[n]
    <2>1. Coming(m, n) \/ About(m)
      BY <1>1, <1>2, <1>6 DEF Told
    <2> QED
      BY <1>1, <1>3, <1>4, <1>6, <2>1
  <1>7. CASE epoch[n] = epoch[m]
    <2>1. Coming(n, m) \/ Coming(m, n) \/ About(n) \/ About(m)
      BY <1>2, <1>7 DEF Tied
    <2>2. epoch[n] >= epoch[m] /\ epoch[m] >= epoch[n]
      BY <1>1, <1>7
    <2> QED
      BY <1>3, <1>4, <2>1, <2>2
  <1> QED
    BY <1>1, <1>5, <1>6, <1>7

\* Two Cortexes are not for long: as long as no connection broke and no process
\* stopped, and no claim came between a node's own and its lead, one of them is being
\* told by a claim to step down, or about to be (the claim of HandleHandoff, and the
\* answer to a tie in HandleCortexClaim).
THEOREM DualIsEnded == Spec => []DualIsBrief
  <1>1. Init => TypeOK /\ Sound /\ Dual
    BY InitTyped, InitSound, InitDual
  <1>2. TypeOK /\ Sound /\ Dual /\ [Next]_vars => TypeOK' /\ Sound' /\ Dual'
    BY StepTyped, StepSound, StepDual
  <1>3. TypeOK /\ Dual => DualIsBrief
    BY DualIsEnding
  <1> QED
    BY <1>1, <1>2, <1>3, PTL DEF Spec

-----------------------------------------------------------------------------
(* Leadership is kept *)

\* Claims are ordered by epoch; of two at one epoch, the smaller node's is the better.
Beats(e, t, f, h) == e > f \/ (e = f /\ t < h)

\* A node that leads or is about to, or will when it restarts; it stands at its epoch.
Down(n)   == ~up[n] /\ Recovers(n)
Holder(n) == Leads(n) \/ Down(n)

\* Where a node t has, or had, a claim at epoch e: on its way, in a handler, in an ack.
Sent(t, e)     == \E x \in Node : \E f \in InFlight(t, x) : f.type \in {"Claim", "Ack"} /\ f.epoch = e
Led(t, e)      == \E s \in Node : stage[t][s].at \in {"claimed", "leading", "promoted"} /\ stage[t][s].epoch = e
Answered(t, e) == \E n \in Node : call[n].ack = "right" /\ call[n].target = t /\ e = call[n].epoch + 1
Stands(t, e)   == Holder(t) /\ e = epoch[t]
Rival(t, e)    == Stands(t, e) \/ Sent(t, e) \/ Led(t, e) \/ Answered(t, e)

Top(h) == Holder(h) /\ \A t \in Node : \A e \in Nat : Rival(t, e) => ~Beats(e, t, epoch[h], h)
Kept   == mistaken \/ \E h \in Node : Top(h)

LEMMA Stay ==
    ASSUME NEW h \in Node, Top(h), Holder(h)', epoch'[h] = epoch[h],
           \A t \in Node : \A e \in Nat : Rival(t, e)' => Rival(t, e)
    PROVE  \E g \in Node : Top(g)'
  <1> SUFFICES ASSUME NEW t \in Node, NEW e \in Nat, Rival(t, e)' PROVE ~Beats(e, t, epoch'[h], h)
    BY Zenon DEF Top
  <1>1. ~Beats(e, t, epoch[h], h)
    BY Zenon DEF Top
  <1> QED
    BY <1>1

\* A node that holds on, or begins to, is the best or leaves the best where it is.
LEMMA Rise ==
    ASSUME TypeOK, TypeOK', NEW h \in Node, Top(h), NEW n \in Node, Holder(n)', epoch'[n] >= epoch[n],
           h = n \/ (Holder(h)' /\ epoch'[h] = epoch[h]),
           \A t \in Node : \A e \in Nat : Rival(t, e)' => Rival(t, e) \/ (t = n /\ e <= epoch'[n])
    PROVE  \E g \in Node : Top(g)'
  <1>1. n \in Nat /\ h \in Nat /\ epoch[n] \in Nat /\ epoch[h] \in Nat /\ epoch'[n] \in Nat /\ epoch'[h] \in Nat
    BY DEF TypeOK
  <1>2. ASSUME NEW t \in Node, NEW e \in Nat, Rival(t, e)'
        PROVE  t \in Nat /\ (~Beats(e, t, epoch[h], h) \/ (t = n /\ e <= epoch'[n]))
    <2>1. Rival(t, e) => ~Beats(e, t, epoch[h], h)
      BY Zenon DEF Top
    <2>2. Rival(t, e) \/ (t = n /\ e <= epoch'[n])
      BY <1>2, Zenon
    <2> QED
      BY <2>1, <2>2
  <1>3. CASE h = n
    <2>1. ASSUME NEW t \in Node, NEW e \in Nat, Rival(t, e)' PROVE ~Beats(e, t, epoch'[n], n)
      BY <1>1, <1>2, <1>3, <2>1 DEF Beats
    <2> QED
      BY <2>1, Zenon DEF Top
  <1>4. CASE h # n /\ Beats(epoch'[n], n, epoch[h], h)
    <2>1. ASSUME NEW t \in Node, NEW e \in Nat, Rival(t, e)' PROVE ~Beats(e, t, epoch'[n], n)
      BY <1>1, <1>2, <1>4, <2>1 DEF Beats
    <2> QED
      BY <2>1, Zenon DEF Top
  <1>5. CASE h # n /\ ~Beats(epoch'[n], n, epoch[h], h)
    <2>1. ASSUME NEW t \in Node, NEW e \in Nat, Rival(t, e)' PROVE ~Beats(e, t, epoch'[h], h)
      BY <1>1, <1>2, <1>5, <2>1 DEF Beats
    <2>2. Holder(h)'
      BY <1>5
    <2> QED
      BY <2>1, <2>2, Zenon DEF Top
  <1> QED
    BY <1>3, <1>4, <1>5

\* A frame that n sends is the only claim or ack that is added.
LEMMA OneSent ==
    ASSUME NEW n \in Node, NEW k,
           \A a, b \in Node : /\ InFlight(a, b)' \subseteq InFlight(a, b) \cup {k}
                              /\ a # n => InFlight(a, b)' \subseteq InFlight(a, b)
    PROVE  \A t \in Node : \A e \in Nat : Sent(t, e)' => Sent(t, e) \/ (t = n /\ e = k.epoch)
  <1> SUFFICES ASSUME NEW t \in Node, NEW e \in Nat, Sent(t, e)'
               PROVE  Sent(t, e) \/ (t = n /\ e = k.epoch)
    OBVIOUS
  <1>1. PICK x \in Node : \E f \in InFlight(t, x)' : f.type \in {"Claim", "Ack"} /\ f.epoch = e
    BY DEF Sent
  <1>2. PICK f \in InFlight(t, x)' : f.type \in {"Claim", "Ack"} /\ f.epoch = e
    BY <1>1
  <1>3. CASE f \in InFlight(t, x)
    BY <1>2, <1>3, Zenon DEF Sent
  <1>4. CASE f \notin InFlight(t, x)
    <2>1. f = k /\ t = n
      BY <1>4
    <2> QED
      BY <1>2, <2>1
  <1> QED
    BY <1>3, <1>4

LEMMA CallKept ==
    ASSUME TypeOK, Sound, NEW h \in Node, Top(h), NEW n \in Node, Call(n), ~mistaken'
    PROVE  \E g \in Node : Top(g)'
  <1>1. /\ up' = up /\ epoch' = epoch /\ crumb' = crumb /\ stage' = stage /\ estate' = estate
        /\ \A m \in Node : role'[m] = "Primary" => role[m] = "Primary"
    BY DEF Call, Drain, SendHandoff, GiveUp, TakeAck, Retire, disk, lead, handle, history, TypeOK
  <1>2. mistaken => mistaken'
    BY DEF Call, Drain, SendHandoff, GiveUp, TakeAck, Retire, history
  <1>3. \A m \in Node \ {n} : role'[m] = role[m] /\ call'[m] = call[m]
    BY TypeParts DEF Call, Drain, SendHandoff, GiveUp, TakeAck, Retire, lead, TypeOK
  <1>4. \A m \in Node : Down(m)' <=> Down(m)
    BY <1>1, Zenon DEF Down, Recovers
  <1>5. \A m \in Node : Holder(m)' => Holder(m)
    BY <1>1, <1>4 DEF Holder, Leads
  <1>6. \A m \in Node \ {n} : Holder(m) => Holder(m)'
    BY <1>1, <1>3, <1>4 DEF Holder, Leads
  <1>7. \A t \in Node : \A e \in Nat : Sent(t, e)' => Sent(t, e)
    <2>1. CASE SendHandoff(n)
      <3> DEFINE k == [type |-> "Handoff", epoch |-> epoch[n]]
      <3>1. call[n].target \in Node
        BY <2>1 DEF SendHandoff, Sound, Calling, Waits
      <3>2. k \in Message /\ k.type = "Handoff"
        BY TypeParts DEF Message
      <3>3. \A a, b \in Node : InFlight(a, b)' \subseteq InFlight(a, b) \cup {k}
        BY <2>1, <3>1, <3>2, TypeParts, SendFrames DEF SendHandoff
      <3> HIDE DEF k
      <3> QED
        BY <3>2, <3>3 DEF Sent
    <2>2. CASE net' = net
      BY <2>2 DEF Sent, InFlight
    <2> QED
      BY <2>1, <2>2 DEF Call, Drain, GiveUp, TakeAck, Retire
  <1>8. \A t \in Node : \A e \in Nat : Answered(t, e)' => Answered(t, e)
    <2>1. call'[n].ack = "right" => /\ call[n].ack = "right" /\ call'[n].target = call[n].target
                                    /\ call'[n].epoch = call[n].epoch
      <3>1. ASSUME NEW t \in Node, Drain(n, t) PROVE call'[n].ack = "none"
        <4>1. call'[n] = [Idle EXCEPT !.at = "drain", !.target = t]
          BY <3>1, TypeParts DEF Drain
        <4> QED
          BY <4>1 DEF Idle
      <3>2. CASE SendHandoff(n)
        <4>1. call[n].ack = "none"
          BY <3>2, TypeParts DEF SendHandoff, Sound, Calling, Waits, Awaiting
        <4>2. call'[n].ack = call[n].ack
          BY <3>2, TypeParts DEF SendHandoff, Awaiting
        <4> QED
          BY <4>1, <4>2
      <3>3. CASE GiveUp(n) \/ Retire(n)
        <4>1. call'[n] = Idle
          BY <3>3, TypeParts DEF GiveUp, Retire
        <4> QED
          BY <4>1 DEF Idle
      <3>4. CASE TakeAck(n)
        BY <3>4, TypeParts DEF TakeAck, Awaiting
      <3> QED
        BY <3>1, <3>2, <3>3, <3>4 DEF Call
    <2> QED
      BY <1>3, <2>1 DEF Answered
  <1>9. \A t \in Node : \A e \in Nat : Rival(t, e)' => Rival(t, e)
    <2>1. \A t \in Node : \A e \in Nat : (Led(t, e)' => Led(t, e)) /\ (Stands(t, e)' => Stands(t, e))
      BY <1>1, <1>5 DEF Led, Stands
    <2> QED
      BY <1>7, <1>8, <2>1, Zenon DEF Rival
  <1>10. Holder(h)'
    <2>1. CASE h # n \/ role'[n] = role[n]
      BY <1>1, <1>3, <1>4, <2>1 DEF Top, Holder, Leads
    <2>2. CASE h = n /\ Retire(n)
      <3>1. CASE role[n] # "Primary"
        BY <1>1, <1>4, <2>2, <3>1 DEF Top, Holder, Leads
      <3>2. CASE role[n] = "Primary"
        <4>1. leader[n] = n
          BY <3>2 DEF Sound, Leading
        <4>2. ~(epoch[n] > call[n].epoch)
          BY <2>2, <3>2, <4>1, Zenon DEF Retire
        <4>3. call[n].at = "demote"
          BY <2>2 DEF Retire
        <4>4. call[n].ack = "right"
          BY <1>2, <4>3, Zenon DEF Sound, Calling, Waits
        <4>5. call[n].target \in Node \ {n} /\ call[n].epoch \in Nat /\ epoch[n] \in Nat
          BY <4>3, TypeParts DEF Sound, Calling, Waits, Awaiting
        <4>6. Rival(call[n].target, call[n].epoch + 1) /\ call[n].epoch + 1 \in Nat
          <5>1. Answered(call[n].target, call[n].epoch + 1)
            BY <4>4, Zenon DEF Answered
          <5> QED
            BY <4>5, <5>1 DEF Rival
        <4>7. ~Beats(call[n].epoch + 1, call[n].target, epoch[n], n)
          BY <2>2, <4>5, <4>6 DEF Top
        <4> QED
          BY <4>2, <4>5, <4>7 DEF Beats
      <3> QED
        BY <3>1, <3>2
    <2>3. Retire(n) \/ role' = role
      BY DEF Call, Drain, SendHandoff, GiveUp, TakeAck, lead
    <2> QED
      BY <2>1, <2>2, <2>3
  <1> QED
    BY <1>1, <1>9, <1>10, Stay

LEMMA HandleKept ==
    ASSUME TypeOK, TypeOK', Sound, NEW h \in Node, Top(h), NEW n \in Node, NEW s \in Node, Handle(n, s)
    PROVE  \E g \in Node : Top(g)'
  <1>1. /\ up' = up /\ epoch' = epoch /\ call' = call /\ up[n] /\ stage[n][s].at # "none"
    BY DEF Handle, PersistRole, BroadcastClaim, TakeLead, HandlePromotion, SendAck, FailAck, ClearRole,
           disk, history, At
  <1>2. /\ \A a, b \in Node : <<a, b>> # <<n, s>> => stage'[a][b] = stage[a][b]
        /\ stage'[n][s].at = "none" \/ stage'[n][s].epoch = stage[n][s].epoch
    BY OneStage
  <1>3. \A a \in Node \ {n} : estate'[a] = estate[a] /\ role'[a] = role[a] /\ crumb'[a] = crumb[a]
    BY DEF Handle, PersistRole, BroadcastClaim, TakeLead, HandlePromotion, SendAck, FailAck, ClearRole,
           lead, disk, TypeOK
  <1>4. \A a \in Node \ {n} : (Down(a)' <=> Down(a))
    BY <1>1, <1>3, Zenon DEF Down, Recovers
  <1>5. ~Down(n) /\ ~Down(n)'
    BY <1>1, Zenon DEF Down
  <1>6. \A a \in Node \ {n} : (Holder(a)' <=> Holder(a))
    <2>1. \A a \in Node \ {n} : Leads(a)' <=> Leads(a)
      BY <1>2, <1>3 DEF Leads
    <2> QED
      BY <1>4, <2>1, Zenon DEF Holder
  <1>7. (Holder(n)' <=> Leads(n)') /\ (Holder(n) <=> Leads(n))
    BY <1>5, Zenon DEF Holder
  <1>8. /\ stage[n][s].epoch \in Nat /\ stage[n][s].epoch <= epoch[n] /\ epoch[n] \in Nat
        /\ net \in [Node \X Node -> Seq(Message)]
    <2>1. /\ stage \in [Node -> [Node -> Stage]] /\ epoch \in [Node -> Nat \ {0}]
          /\ net \in [Node \X Node -> Seq(Message)]
      BY TypeParts, Zenon
    <2>2. stage[n][s] \in Stage /\ epoch[n] \in Nat
      BY <2>1
    <2>3. stage[n][s].epoch \in Nat
      BY <2>2 DEF Stage
    <2>4. stage[n][s].epoch <= epoch[n]
      BY <1>1, Zenon DEF Sound, Staged
    <2> QED
      BY <2>1, <2>2, <2>3, <2>4
  <1>9. \A t \in Node : \A e \in Nat : Answered(t, e)' => Answered(t, e)
    BY <1>1 DEF Answered
  <1>10. \A t \in Node : \A e \in Nat : t # n => (Led(t, e)' => Led(t, e)) /\ (Stands(t, e)' => Stands(t, e))
    BY <1>1, <1>2, <1>6 DEF Led, Stands
  <1>11. \A t \in Node : \A e \in Nat :
            Sent(t, e)' => \/ Sent(t, e)
                           \/ t = n /\ e = stage[n][s].epoch /\ (BroadcastClaim(n, s) \/ SendAck(n, s))
    <2>1. CASE BroadcastClaim(n, s)
      <3> DEFINE k == Claim(stage[n][s].epoch)
      <3>1. k \in Message /\ k.epoch = stage[n][s].epoch
        BY <1>8, ClaimTyped
      <3>2. Grown(net, net', n, k)
        BY <1>8, <2>1, <3>1, BroadcastFrames DEF BroadcastClaim
      <3> HIDE DEF k
      <3>3. \A a, b \in Node : /\ InFlight(a, b)' \subseteq InFlight(a, b) \cup {k}
                               /\ a # n => InFlight(a, b)' \subseteq InFlight(a, b)
        BY <3>2 DEF Grown, InFlight
      <3>4. \A t \in Node : \A e \in Nat : Sent(t, e)' => Sent(t, e) \/ (t = n /\ e = k.epoch)
        BY <3>3, OneSent
      <3> QED
        BY <2>1, <3>1, <3>4, Zenon
    <2>2. CASE SendAck(n, s)
      <3> DEFINE k == [type |-> "Ack", epoch |-> stage[n][s].epoch]
      <3>1. k \in Message /\ k.epoch = stage[n][s].epoch
        BY <1>8 DEF Message
      <3>2. net' = Send(net, n, s, k)
        BY <2>2 DEF SendAck
      <3> HIDE DEF k
      <3>3. \A a, b \in Node : /\ InFlight(a, b)' \subseteq InFlight(a, b) \cup {k}
                               /\ a # n => InFlight(a, b)' \subseteq InFlight(a, b)
        BY <1>8, <3>1, <3>2, SendFrames
      <3>4. \A t \in Node : \A e \in Nat : Sent(t, e)' => Sent(t, e) \/ (t = n /\ e = k.epoch)
        BY <3>3, OneSent
      <3> QED
        BY <2>2, <3>1, <3>4, Zenon
    <2>3. CASE net' = net
      BY <2>3 DEF Sent, InFlight
    <2> QED
      BY <2>1, <2>2, <2>3 DEF Handle, PersistRole, TakeLead, HandlePromotion, FailAck, ClearRole
  \* n holds on, or begins to.
  <1>12. ASSUME Leads(n)', \A e \in Nat : Led(n, e)' => Led(n, e) \/ e <= epoch[n]
         PROVE  \E g \in Node : Top(g)'
    <2>1. \A e \in Nat : Stands(n, e)' => e <= epoch[n]
      BY <1>1, <1>8 DEF Stands
    <2>2. \A t \in Node : \A e \in Nat : Rival(t, e)' => Rival(t, e) \/ (t = n /\ e <= epoch'[n])
      <3> SUFFICES ASSUME NEW t \in Node, NEW e \in Nat, Rival(t, e)'
                   PROVE  Rival(t, e) \/ (t = n /\ e <= epoch[n])
        BY <1>1
      <3>1. Sent(t, e)' => Sent(t, e) \/ (t = n /\ e <= epoch[n])
        BY <1>8, <1>11
      <3>2. Led(t, e)' => Led(t, e) \/ (t = n /\ e <= epoch[n])
        BY <1>10, <1>12
      <3>3. Stands(t, e)' => Stands(t, e) \/ (t = n /\ e <= epoch[n])
        BY <1>10, <2>1
      <3> QED
        BY <1>9, <3>1, <3>2, <3>3, Zenon DEF Rival
    <2>3. Holder(n)' /\ epoch'[n] >= epoch[n]
      BY <1>1, <1>7, <1>8, <1>12
    <2>4. h = n \/ (Holder(h)' /\ epoch'[h] = epoch[h])
      BY <1>1, <1>6 DEF Top
    <2> QED
      BY <2>2, <2>3, <2>4, Rise
  \* Nothing is added.
  <1>13. ASSUME Leads(n)' <=> Leads(n), \A e \in Nat : Led(n, e)' => Led(n, e), ~BroadcastClaim(n, s),
                SendAck(n, s) => Led(n, stage[n][s].epoch)
         PROVE  \E g \in Node : Top(g)'
    <2>1. \A t \in Node : \A e \in Nat : Rival(t, e)' => Rival(t, e)
      <3> SUFFICES ASSUME NEW t \in Node, NEW e \in Nat, Rival(t, e)' PROVE Rival(t, e)
        OBVIOUS
      <3>1. Sent(t, e)' => Sent(t, e) \/ Led(t, e)
        BY <1>11, <1>13
      <3>2. Led(t, e)' => Led(t, e)
        BY <1>10, <1>13
      <3>3. Stands(t, e)' => Stands(t, e)
        BY <1>1, <1>7, <1>10, <1>13 DEF Stands
      <3> QED
        BY <1>9, <3>1, <3>2, <3>3, Zenon DEF Rival
    <2>2. Holder(h)' /\ epoch'[h] = epoch[h]
      BY <1>1, <1>6, <1>7, <1>13 DEF Top
    <2> QED
      BY <2>1, <2>2, Stay
  <1>14. \A b \in Node : b # s => stage'[n][b] = stage[n][b]
    BY <1>2
  <1>15. CASE PersistRole(n, s)
    <2>1. stage[n][s].at = "advanced"
      BY <1>15 DEF PersistRole, At
    <2>2. CASE epoch[n] = stage[n][s].epoch
      <3>1. stage'[n][s].at = "persisted"
        BY <1>15, <2>2, Entering DEF PersistRole
      <3> QED
        BY <1>12, <1>14, <3>1 DEF Leads, Led
    <2>3. CASE epoch[n] # stage[n][s].epoch
      <3>1. stage'[n][s] = Quiet /\ estate' = estate /\ role' = role
        BY <1>15, <2>3, Leaving DEF PersistRole, lead
      <3>2. stage'[n][s].at = "none"
        BY <3>1 DEF Quiet
      <3>3. (Leads(n)' <=> Leads(n)) /\ \A e \in Nat : Led(n, e)' => Led(n, e)
        BY <1>14, <2>1, <3>1, <3>2 DEF Leads, Led
      <3>4. ~BroadcastClaim(n, s) /\ ~SendAck(n, s)
        BY <2>1 DEF BroadcastClaim, SendAck, At
      <3> QED
        BY <1>13, <3>3, <3>4
    <2> QED
      BY <2>2, <2>3
  <1>16. CASE BroadcastClaim(n, s)
    <2>1. stage'[n][s].at = "claimed" /\ stage'[n][s].epoch = stage[n][s].epoch
      BY <1>16, Entering DEF BroadcastClaim
    <2>2. Leads(n)'
      BY <2>1 DEF Leads
    <2>3. \A e \in Nat : Led(n, e)' => Led(n, e) \/ e <= epoch[n]
      BY <1>8, <1>14, <2>1 DEF Led
    <2> QED
      BY <1>12, <2>2, <2>3
  <1>17. CASE TakeLead(n, s)
    <2>1. /\ stage'[n][s].at = "leading" /\ stage'[n][s].epoch = stage[n][s].epoch
          /\ stage[n][s].at = "claimed" /\ estate'[n] = "Leader"
      <3>1. stage'[n][s].at = "leading" /\ stage'[n][s].epoch = stage[n][s].epoch
        BY <1>17, Entering DEF TakeLead
      <3>2. stage[n][s].at = "claimed" /\ estate'[n] = "Leader"
        BY <1>17 DEF TakeLead, At, TypeOK
      <3> QED
        BY <3>1, <3>2
    <2>2. Leads(n)'
      BY <2>1 DEF Leads
    <2>3. \A e \in Nat : Led(n, e)' => Led(n, e)
      BY <1>14, <2>1 DEF Led
    <2> QED
      BY <1>12, <2>2, <2>3
  <1>18. CASE HandlePromotion(n, s)
    <2>1. /\ stage'[n][s].at = "promoted" /\ stage'[n][s].epoch = stage[n][s].epoch
          /\ stage[n][s].at = "leading" /\ estate' = estate
          /\ role'[n] = IF estate[n] = "Leader" THEN "Primary" ELSE role[n]
      <3>1. stage'[n][s].at = "promoted" /\ stage'[n][s].epoch = stage[n][s].epoch
        BY <1>18, Entering DEF HandlePromotion
      <3>2. /\ stage[n][s].at = "leading" /\ estate' = estate
            /\ role'[n] = IF estate[n] = "Leader" THEN "Primary" ELSE role[n]
        BY <1>18 DEF HandlePromotion, At, TypeOK
      <3> QED
        BY <3>1, <3>2
    <2>2. Leads(n)' <=> Leads(n)
      BY <1>14, <2>1 DEF Leads
    <2>3. \A e \in Nat : Led(n, e)' => Led(n, e)
      BY <1>14, <2>1 DEF Led
    <2>4. ~BroadcastClaim(n, s) /\ ~SendAck(n, s)
      BY <2>1 DEF BroadcastClaim, SendAck, At
    <2> QED
      BY <1>13, <2>2, <2>3, <2>4
  <1>19. CASE SendAck(n, s)
    <2>1. stage'[n][s].at = "acked" /\ stage[n][s].at = "promoted" /\ estate' = estate /\ role' = role
      BY <1>19, Entering DEF SendAck, At, lead
    <2>2. Leads(n)' <=> Leads(n)
      BY <1>14, <2>1 DEF Leads
    <2>3. \A e \in Nat : Led(n, e)' => Led(n, e)
      BY <1>14, <2>1 DEF Led
    <2>4. ~BroadcastClaim(n, s) /\ Led(n, stage[n][s].epoch)
      BY <2>1 DEF BroadcastClaim, At, Led
    <2> QED
      BY <1>13, <2>2, <2>3, <2>4
  <1>20. CASE FailAck(n, s) \/ ClearRole(n, s)
    <2>1. stage[n][s].at \in {"promoted", "acked"} /\ estate' = estate /\ role' = role /\ Leave(n, s)
          /\ net' = net
      BY <1>20 DEF FailAck, ClearRole, At, lead
    <2>2. stage'[n][s].at = "none"
      <3>1. stage'[n][s] = Quiet
        BY <2>1, Leaving
      <3> QED
        BY <3>1 DEF Quiet
    <2>3. Leads(n)' <=> Leads(n)
      BY <1>14, <2>1, <2>2 DEF Leads
    <2>4. \A e \in Nat : Led(n, e)' => Led(n, e)
      BY <1>14, <2>1, <2>2 DEF Led
    <2>5. ~BroadcastClaim(n, s) /\ (SendAck(n, s) => Led(n, stage[n][s].epoch))
      BY <2>1 DEF BroadcastClaim, SendAck, At, Led
    <2> QED
      BY <1>13, <2>3, <2>4, <2>5
  <1> QED
    BY <1>15, <1>16, <1>17, <1>18, <1>19, <1>20 DEF Handle

LEMMA DeliverKept ==
    ASSUME TypeOK, TypeOK', Sound, NEW h \in Node, Top(h), NEW n \in Node, NEW s \in Node, Deliver(n, s),
           ~mistaken'
    PROVE  \E g \in Node : Top(g)'
  <1> DEFINE e == Frame(n, s).epoch
  <1>1. net[<<s, n>>] # <<>> /\ net \in [Node \X Node -> Seq(Message)]
    BY TypeParts DEF Deliver, HandleHandoff, HandleHandoffAck, HandleCortexClaim, Reads
  <1>2. /\ Frame(n, s) \in Message /\ Frame(n, s) \in InFlight(s, n) /\ Read(n, s) \in [Node \X Node -> Seq(Message)]
        /\ \A a, b \in Node : Elements(Read(n, s)[<<a, b>>]) \subseteq InFlight(a, b)
    BY <1>1, Reading
  <1>3. /\ s # n /\ e \in Nat /\ s \in Nat /\ n \in Nat
        /\ \A a \in Node : epoch[a] \in Nat
    BY <1>2, TypeParts DEF Sound, Alone, Message
  <1>4. up' = up /\ crumb' = crumb
    BY DEF Deliver, HandleHandoff, HandleHandoffAck, HandleCortexClaim, ReassertClaim, FollowClaim,
           IgnoreClaim, disk, history
  <1>5. \A a \in Node : Down(a)' <=> Down(a)
    BY <1>4, Zenon DEF Down, Recovers
  <1>6. ASSUME net' = Read(n, s) PROVE \A t \in Node : \A x \in Nat : Sent(t, x)' => Sent(t, x)
    <2>1. \A a, b \in Node : InFlight(a, b)' \subseteq InFlight(a, b)
      BY <1>2, <1>6 DEF InFlight
    <2> QED
      BY <2>1 DEF Sent
  \* A read that leaves everybody where it is.
  <1>7. ASSUME stage' = stage, epoch' = epoch, estate' = estate, role' = role,
               \A t \in Node : \A x \in Nat : Sent(t, x)' => Rival(t, x),
               \A t \in Node : \A x \in Nat : Answered(t, x)' => Rival(t, x)
        PROVE  \E g \in Node : Top(g)'
    <2>1. \A a \in Node : Holder(a)' <=> Holder(a)
      BY <1>5, <1>7 DEF Holder, Leads
    <2>2. \A t \in Node : \A x \in Nat : (Led(t, x)' => Led(t, x)) /\ (Stands(t, x)' => Stands(t, x))
      BY <1>7, <2>1 DEF Led, Stands
    <2>3. \A t \in Node : \A x \in Nat : Rival(t, x)' => Rival(t, x)
      BY <1>7, <2>2, Zenon DEF Rival
    <2>4. Holder(h)' /\ epoch'[h] = epoch[h]
      BY <1>7, <2>1 DEF Top
    <2> QED
      BY <2>3, <2>4, Stay
  <1>8. CASE HandleHandoffAck(n, s)
    <2>1. /\ epoch' = epoch /\ stage' = stage /\ estate' = estate /\ role' = role /\ net' = Read(n, s)
          /\ Frame(n, s).type = "Ack"
      BY <1>8 DEF HandleHandoffAck, disk, lead, handle, Reads, Frame
    <2>2. \A m \in Node \ {n} : call'[m] = call[m]
      BY <1>8, TypeParts DEF HandleHandoffAck
    <2>3. /\ call'[n].target = call[n].target /\ call'[n].epoch = call[n].epoch
          /\ call'[n].ack = "right" => \/ call[n].ack = "right"
                                       \/ s = call[n].target /\ e = call[n].epoch + 1
      BY <1>8, TypeParts DEF HandleHandoffAck, Awaiting
    <2>4. Sent(s, e)
      BY <1>2, <2>1 DEF Sent
    <2>5. \A t \in Node : \A x \in Nat : Answered(t, x)' => Answered(t, x) \/ (t = s /\ x = e)
      BY <2>2, <2>3 DEF Answered
    <2>6. \A t \in Node : \A x \in Nat : Answered(t, x)' => Rival(t, x)
      BY <2>4, <2>5, Zenon DEF Rival
    <2>7. \A t \in Node : \A x \in Nat : Sent(t, x)' => Rival(t, x)
      BY <1>6, <2>1, Zenon DEF Rival
    <2> QED
      BY <1>7, <2>1, <2>6, <2>7
  <1>9. CASE IgnoreClaim(n, s, e)
    <2>1. /\ epoch' = epoch /\ stage' = stage /\ estate' = estate /\ role' = role /\ net' = Read(n, s)
          /\ call' = call
      BY <1>9 DEF IgnoreClaim, disk, lead, handle
    <2>2. \A t \in Node : \A x \in Nat : Answered(t, x)' => Answered(t, x)
      BY <2>1 DEF Answered
    <2>3. \A t \in Node : \A x \in Nat : (Sent(t, x)' => Rival(t, x)) /\ (Answered(t, x)' => Rival(t, x))
      BY <1>6, <2>1, <2>2, Zenon DEF Rival
    <2> QED
      BY <1>7, <2>1, <2>3
  <1>10. CASE ReassertClaim(n, s, e)
    <2>1. /\ epoch' = epoch /\ stage' = stage /\ estate' = estate /\ role' = role /\ call' = call
          /\ e = epoch[n] /\ estate[n] = "Leader" /\ net' = Broadcast(Read(n, s), n, Claim(e))
      BY <1>10 DEF ReassertClaim, disk, lead, handle, WinsTie
    <2>2. role[n] = "Primary" \/ \E x \in Node : stage[n][x].at = "leading"
      BY <1>10, Zenon DEF ReassertClaim
    <2>3. Stands(n, e)
      BY <2>1, <2>2 DEF Stands, Holder, Leads
    <2> DEFINE k == Claim(e)
    <2>4. k \in Message /\ k.epoch = e
      BY <1>3, ClaimTyped
    <2>5. Grown(Read(n, s), net', n, k)
      BY <1>2, <2>1, <2>4, BroadcastFrames
    <2> HIDE DEF k
    <2>6. \A a, b \in Node : /\ InFlight(a, b)' \subseteq InFlight(a, b) \cup {k}
                             /\ a # n => InFlight(a, b)' \subseteq InFlight(a, b)
      BY <1>2, <2>5 DEF Grown, InFlight
    <2>7. \A t \in Node : \A x \in Nat : Sent(t, x)' => Sent(t, x) \/ (t = n /\ x = e)
      <3>1. \A t \in Node : \A x \in Nat : Sent(t, x)' => Sent(t, x) \/ (t = n /\ x = k.epoch)
        BY <2>6, OneSent
      <3> QED
        BY <2>4, <3>1, Zenon
    <2>8. \A t \in Node : \A x \in Nat : Sent(t, x)' => Rival(t, x)
      BY <2>3, <2>7, Zenon DEF Rival
    <2>9. \A t \in Node : \A x \in Nat : Answered(t, x)' => Answered(t, x)
      BY <2>1 DEF Answered
    <2>10. \A t \in Node : \A x \in Nat : Answered(t, x)' => Rival(t, x)
      BY <2>9, Zenon DEF Rival
    <2> QED
      BY <1>7, <2>1, <2>8, <2>10
  <1>11. ASSUME Frame(n, s).type = "Claim", FollowClaim(n, s, e) PROVE \E g \in Node : Top(g)'
    <2>1. /\ stage' = stage /\ net' = Read(n, s) /\ call' = call
          /\ epoch'[n] = e /\ e >= epoch[n] /\ \A a \in Node \ {n} : epoch'[a] = epoch[a]
      BY <1>3, <1>11, TypeParts DEF FollowClaim, handle, Stale
    <2>2. /\ estate'[n] = "Other" /\ role'[n] # "Primary"
          /\ \A a \in Node \ {n} : estate'[a] = estate[a] /\ role'[a] = role[a]
      BY <1>11 DEF FollowClaim, TypeOK, Sound, Leading
    <2>3. \A a \in Node \ {n} : Holder(a)' <=> Holder(a)
      BY <1>5, <2>1, <2>2 DEF Holder, Leads
    <2>4. \A t \in Node : \A x \in Nat : (Led(t, x)' => Led(t, x)) /\ (Answered(t, x)' => Answered(t, x))
      BY <2>1 DEF Led, Answered
    <2>5. \A t \in Node \ {n} : \A x \in Nat : Stands(t, x)' => Stands(t, x)
      BY <2>1, <2>3 DEF Stands
    <2>6. CASE Holder(n)'
      <3>1. \A x \in Nat : Stands(n, x)' => x <= epoch'[n]
        BY <1>3, <2>1 DEF Stands
      <3>2. \A t \in Node : \A x \in Nat : Rival(t, x)' => Rival(t, x) \/ (t = n /\ x <= epoch'[n])
        <4> SUFFICES ASSUME NEW t \in Node, NEW x \in Nat, Rival(t, x)'
                     PROVE  Rival(t, x) \/ (t = n /\ x <= epoch'[n])
          OBVIOUS
        <4>1. Stands(t, x)' => Stands(t, x) \/ (t = n /\ x <= epoch'[n])
          BY <2>5, <3>1
        <4> QED
          BY <1>6, <2>1, <2>4, <4>1, Zenon DEF Rival
      <3>3. h = n \/ (Holder(h)' /\ epoch'[h] = epoch[h])
        BY <2>1, <2>3 DEF Top
      <3> QED
        BY <2>1, <2>6, <3>2, <3>3, Rise
    <2>7. CASE ~Holder(n)'
      \* The best holder is not told to step down: its claim is the better one.
      <3>1. h # n
        <4> SUFFICES ASSUME h = n PROVE FALSE
          OBVIOUS
        <4>1. ~Down(n) /\ \A x \in Node : stage[n][x].at \notin {"persisted", "claimed"}
          BY <1>5, <2>1, <2>7 DEF Holder, Leads
        <4>2. Leads(n)
          BY <4>1 DEF Top, Holder
        <4>3. estate[n] = "Leader"
          BY <4>1, <4>2 DEF Leads, Sound, Leading
        <4>4. Sent(s, e)
          BY <1>2, <1>11 DEF Sent
        <4>5. ~Beats(e, s, epoch[n], n)
          BY <1>3, <4>4 DEF Top, Rival
        <4>6. WinsTie(n, s, e)
          BY <1>3, <2>1, <4>3, <4>5 DEF Beats, WinsTie
        <4> QED
          BY <1>11, <4>6 DEF FollowClaim
      <3>2. \A t \in Node : \A x \in Nat : Stands(t, x)' => Stands(t, x)
        BY <2>5, <2>7 DEF Stands
      <3>3. \A t \in Node : \A x \in Nat : Rival(t, x)' => Rival(t, x)
        BY <1>6, <2>1, <2>4, <3>2, Zenon DEF Rival
      <3>4. Holder(h)' /\ epoch'[h] = epoch[h]
        BY <2>1, <2>3, <3>1 DEF Top
      <3> QED
        BY <3>3, <3>4, Stay
    <2> QED
      BY <2>6, <2>7
  <1>12. CASE HandleHandoff(n, s)
    <2>1. /\ estate' = estate /\ role' = role /\ net' = Read(n, s) /\ call' = call /\ stage[n][s].at = "none"
      BY <1>12, HandoffStage DEF HandleHandoff, lead
    <2>2. \A t \in Node : \A x \in Nat : Answered(t, x)' => Answered(t, x)
      BY <2>1 DEF Answered
    <2>3. CASE epoch' = epoch /\ stage' = stage
      <3>1. \A t \in Node : \A x \in Nat : (Sent(t, x)' => Rival(t, x)) /\ (Answered(t, x)' => Rival(t, x))
        BY <1>6, <2>1, <2>2, Zenon DEF Rival
      <3> QED
        BY <1>7, <2>1, <2>3, <3>1
    <2>4. CASE Raised(n, s)
      <3>1. epoch'[n] = e + 1 /\ e + 1 > epoch[n] /\ \A a \in Node \ {n} : epoch'[a] = epoch[a]
        BY <2>4, TypeParts DEF Raised
      <3>2. /\ stage'[n][s].at = "advanced"
            /\ \A a, b \in Node : <<a, b>> # <<n, s>> => stage'[a][b] = stage[a][b]
        <4>1. stage'[n][s] = [at |-> "advanced", epoch |-> e + 1]
          BY <2>4, Zenon DEF Raised
        <4>2. stage'[n][s].at = "advanced"
          BY <4>1
        <4> QED
          BY <2>4, <4>2, Zenon DEF Raised
      <3>3. \A a \in Node : Holder(a)' <=> Holder(a)
        BY <1>5, <2>1, <3>2 DEF Holder, Leads
      <3>4. \A t \in Node : \A x \in Nat : Led(t, x)' => Led(t, x)
        BY <3>2 DEF Led
      <3>5. \A t \in Node \ {n} : \A x \in Nat : Stands(t, x)' => Stands(t, x)
        BY <3>1, <3>3 DEF Stands
      <3>6. CASE Holder(n)
        <4>1. \A x \in Nat : Stands(n, x)' => x <= epoch'[n]
          BY <1>3, <3>1 DEF Stands
        <4>2. \A t \in Node : \A x \in Nat : Rival(t, x)' => Rival(t, x) \/ (t = n /\ x <= epoch'[n])
          <5> SUFFICES ASSUME NEW t \in Node, NEW x \in Nat, Rival(t, x)'
                       PROVE  Rival(t, x) \/ (t = n /\ x <= epoch'[n])
            OBVIOUS
          <5>1. Stands(t, x)' => Stands(t, x) \/ (t = n /\ x <= epoch'[n])
            BY <3>5, <4>1
          <5> QED
            BY <1>6, <2>1, <2>2, <3>4, <5>1, Zenon DEF Rival
        <4>3. h = n \/ (Holder(h)' /\ epoch'[h] = epoch[h])
          BY <3>1, <3>3 DEF Top
        <4>4. Holder(n)' /\ epoch'[n] >= epoch[n]
          BY <1>3, <3>1, <3>3, <3>6
        <4> QED
          BY <4>2, <4>3, <4>4, Rise
      <3>7. CASE ~Holder(n)
        <4>1. \A t \in Node : \A x \in Nat : Stands(t, x)' => Stands(t, x)
          BY <3>3, <3>5, <3>7 DEF Stands
        <4>2. \A t \in Node : \A x \in Nat : Rival(t, x)' => Rival(t, x)
          BY <1>6, <2>1, <2>2, <3>4, <4>1, Zenon DEF Rival
        <4>3. Holder(h)' /\ epoch'[h] = epoch[h]
          BY <3>1, <3>3, <3>7 DEF Top
        <4> QED
          BY <4>2, <4>3, Stay
      <3> QED
        BY <3>6, <3>7
    <2> QED
      BY <1>12, <2>3, <2>4, HandoffStage, Zenon
  <1> QED
    BY <1>8, <1>9, <1>10, <1>11, <1>12 DEF Deliver, HandleCortexClaim, Reads, Frame

LEMMA FaultKept ==
    ASSUME Lobe = {} \/ Faults = 0, TypeOK, TypeOK', Sound, NEW h \in Node, Top(h), NEW n \in Node, Fault(n),
           ~mistaken
    PROVE  \E g \in Node : Top(g)'
  <1>1. \A m \in Node : epoch[m] \in Nat
    BY TypeParts
  <1>2. CASE Crash(n)
    <2>1. /\ epoch' = epoch /\ crumb' = crumb /\ up' = [up EXCEPT ![n] = FALSE]
          /\ role' = [role EXCEPT ![n] = "Replica"] /\ estate' = [estate EXCEPT ![n] = "Other"]
          /\ call' = [call EXCEPT ![n] = Idle] /\ stage' = [stage EXCEPT ![n] = [s \in Node |-> Quiet]]
      BY <1>2 DEF Crash, disk
    <2>2. \A a \in Node \ {n} : up'[a] = up[a] /\ role'[a] = role[a] /\ estate'[a] = estate[a] /\ call'[a] = call[a]
                                /\ stage'[a] = stage[a]
      BY <2>1 DEF TypeOK
    <2>3. (\A b \in Node : stage'[n][b].at = "none") /\ call'[n].ack = "none" /\ ~up'[n]
      BY <2>1 DEF TypeOK, Quiet, Idle
    <2>4. \A a \in Node \ {n} : Down(a)' <=> Down(a)
      BY <2>1, <2>2, Zenon DEF Down, Recovers
    <2>5. \A a \in Node \ {n} : Holder(a)' <=> Holder(a)
      BY <2>2, <2>4 DEF Holder, Leads
    <2>6. \A t \in Node : \A x \in Nat : /\ Led(t, x)' => Led(t, x)
                                         /\ Answered(t, x)' => Answered(t, x)
      BY <2>2, <2>3 DEF Led, Answered
    <2>7. \A t \in Node : \A x \in Nat : Sent(t, x)' => Sent(t, x)
      <3>1. \A a, b \in Node : InFlight(a, b)' \subseteq InFlight(a, b)
        BY <1>2, CrashFrames
      <3> QED
        BY <3>1 DEF Sent
    <2>8. \A t \in Node \ {n} : \A x \in Nat : Stands(t, x)' => Stands(t, x)
      BY <2>1, <2>5 DEF Stands
    <2>9. CASE Holder(n)'
      <3>1. \A x \in Nat : Stands(n, x)' => x <= epoch'[n]
        BY <1>1, <2>1 DEF Stands
      <3>2. \A t \in Node : \A x \in Nat : Rival(t, x)' => Rival(t, x) \/ (t = n /\ x <= epoch'[n])
        <4> SUFFICES ASSUME NEW t \in Node, NEW x \in Nat, Rival(t, x)'
                     PROVE  Rival(t, x) \/ (t = n /\ x <= epoch'[n])
          OBVIOUS
        <4>1. Stands(t, x)' => Stands(t, x) \/ (t = n /\ x <= epoch'[n])
          BY <2>8, <3>1
        <4> QED
          BY <2>6, <2>7, <4>1, Zenon DEF Rival
      <3>3. h = n \/ (Holder(h)' /\ epoch'[h] = epoch[h])
        BY <2>1, <2>5 DEF Top
      <3>4. epoch'[n] >= epoch[n]
        BY <1>1, <2>1
      <3> QED
        BY <2>9, <3>2, <3>3, <3>4, Rise
    <2>10. CASE ~Holder(n)'
      \* What n holds, it holds with its role persisted.
      <3>1. h # n
        <4> SUFFICES ASSUME h = n PROVE FALSE
          OBVIOUS
        <4>1. Leads(n)
          BY <1>2, Zenon DEF Top, Holder, Down, Crash
        <4>2. crumb[n]
          <5>1. CASE role[n] = "Primary"
            BY <1>2, <5>1, Zenon DEF Crash
          <5>2. CASE \E s \in Node : Claiming(n, s)
            BY <5>2, Zenon DEF Sound, Crumbed, Safe
          <5> QED
            BY <4>1, <5>1, <5>2 DEF Leads, Claiming
        <4>3. n \notin Lobe
          BY <1>2, TypeParts DEF Crash
        <4>4. Down(n)'
          BY <2>1, <2>3, <4>2, <4>3, Zenon DEF Down, Recovers
        <4> QED
          BY <2>10, <4>4, Zenon DEF Holder
      <3>2. \A t \in Node : \A x \in Nat : Stands(t, x)' => Stands(t, x)
        BY <2>8, <2>10 DEF Stands
      <3>3. \A t \in Node : \A x \in Nat : Rival(t, x)' => Rival(t, x)
        BY <2>6, <2>7, <3>2, Zenon DEF Rival
      <3>4. Holder(h)' /\ epoch'[h] = epoch[h]
        BY <2>1, <2>5, <3>1 DEF Top
      <3> QED
        BY <3>3, <3>4, Stay
    <2> QED
      BY <2>9, <2>10
  \* The frames of a connection made anew are the claims of those who hold.
  <1>3. ASSUME epoch' = epoch, stage' = stage, call' = call,
               \A a \in Node : Holder(a)' <=> Holder(a),
               \A a, b \in Node : \A f \in InFlight(a, b)' :
                  f \in InFlight(a, b) \/ (Holder(a) /\ f = Claim(epoch[a]))
        PROVE  \E g \in Node : Top(g)'
    <2>1. \A t \in Node : \A x \in Nat : /\ Led(t, x)' => Led(t, x)
                                         /\ Answered(t, x)' => Answered(t, x)
                                         /\ Stands(t, x)' => Stands(t, x)
      BY <1>3 DEF Led, Answered, Stands
    <2>2. ASSUME NEW t \in Node, NEW x \in Nat, Sent(t, x)' PROVE Sent(t, x) \/ Stands(t, x)
      <3>1. PICK b \in Node : \E f \in InFlight(t, b)' : f.type \in {"Claim", "Ack"} /\ f.epoch = x
        BY <2>2 DEF Sent
      <3>2. PICK f \in InFlight(t, b)' : f.type \in {"Claim", "Ack"} /\ f.epoch = x
        BY <3>1
      <3>3. CASE f \in InFlight(t, b)
        BY <3>2, <3>3 DEF Sent
      <3>4. CASE Holder(t) /\ f = Claim(epoch[t])
        BY <1>1, <3>2, <3>4, ClaimTyped DEF Stands
      <3> QED
        BY <1>3, <3>3, <3>4
    <2>3. \A t \in Node : \A x \in Nat : Rival(t, x)' => Rival(t, x)
      BY <2>1, <2>2, Zenon DEF Rival
    <2>4. Holder(h)' /\ epoch'[h] = epoch[h]
      BY <1>3 DEF Top
    <2> QED
      BY <2>3, <2>4, Stay
  <1>4. CASE Restart(n)
    <2>1. /\ epoch' = epoch /\ call' = call /\ stage' = stage /\ up' = [up EXCEPT ![n] = TRUE] /\ ~up[n]
      BY <1>4 DEF Restart, handle
    <2>2. \A s \in Node : stage[n][s].at = "none"
      BY <2>1 DEF Sound, Staged
    <2>3. role[n] # "Primary" /\ ~Leads(n)
      BY <2>1, <2>2 DEF Sound, Leading, Leads
    <2>4. up'[n] /\ ~Down(n)' /\ (Down(n) <=> Recovers(n))
      <3>1. up'[n]
        BY <2>1 DEF TypeOK
      <3> QED
        BY <2>1, <3>1, Zenon DEF Down
    <2>5. \A a \in Node \ {n} : /\ up'[a] = up[a] /\ crumb'[a] = crumb[a]
                                /\ role'[a] = role[a] /\ estate'[a] = estate[a]
      BY <1>4, <2>1 DEF Restart, lead, TypeOK
    <2>6. \A a \in Node \ {n} : Down(a)' <=> Down(a)
      BY <2>5, Zenon DEF Down, Recovers
    <2>7. \A a \in Node \ {n} : Holder(a)' <=> Holder(a)
      BY <2>1, <2>5, <2>6 DEF Holder, Leads
    <2>8. Holder(n)' <=> Holder(n)
      <3>1. CASE Recovers(n)
        <4>1. role'[n] = "Primary"
          BY <1>4, <3>1 DEF Restart, TypeOK
        <4>2. Leads(n)'
          BY <4>1 DEF Leads
        <4> QED
          BY <2>4, <3>1, <4>2, Zenon DEF Holder
      <3>2. CASE ~Recovers(n)
        <4>1. role' = role
          BY <1>4, <3>2 DEF Restart, lead
        <4>2. ~Leads(n)'
          BY <2>1, <2>2, <2>3, <4>1 DEF Leads
        <4> QED
          BY <2>3, <2>4, <3>2, <4>2, Zenon DEF Holder
      <3> QED
        BY <3>1, <3>2
    <2>9. ASSUME NEW a \in Node, NEW b \in Node, NEW f \in InFlight(a, b)'
          PROVE  f \in InFlight(a, b) \/ (Holder(a) /\ f = Claim(epoch[a]))
      <3>1. \/ f \in InFlight(a, b)
            \/ (role[a] = "Primary" \/ (a = n /\ Recovers(n))) /\ f = Claim(epoch[a])
        BY <1>4, RestartFrames
      <3>2. role[a] = "Primary" => Holder(a)
        BY DEF Holder, Leads
      <3>3. a = n /\ Recovers(n) => Holder(a)
        BY <2>4, Zenon DEF Holder
      <3> QED
        BY <3>1, <3>2, <3>3
    <2> QED
      BY <1>3, <2>1, <2>7, <2>8, <2>9
  <1>5. ASSUME NEW d \in Node, Reconnect(n, d) PROVE \E g \in Node : Top(g)'
    <2>1. /\ epoch' = epoch /\ crumb' = crumb /\ call' = call /\ stage' = stage /\ up' = up
          /\ estate' = estate /\ role' = role
      BY <1>5 DEF Reconnect, disk, lead
    <2>2. \A a \in Node : Down(a)' <=> Down(a)
      BY <2>1, Zenon DEF Down, Recovers
    <2>3. \A a \in Node : Holder(a)' <=> Holder(a)
      BY <2>1, <2>2 DEF Holder, Leads
    <2>4. ASSUME NEW a \in Node, NEW b \in Node, NEW f \in InFlight(a, b)'
          PROVE  f \in InFlight(a, b) \/ (Holder(a) /\ f = Claim(epoch[a]))
      BY <1>5, HelloFrames DEF Reconnect, Holder, Leads
    <2> QED
      BY <1>3, <2>1, <2>3, <2>4
  <1> QED
    BY <1>2, <1>4, <1>5 DEF Fault

LEMMA StepKept ==
    ASSUME Lobe = {} \/ Faults = 0, TypeOK, TypeOK', Sound, Kept, [Next]_vars
    PROVE  Kept'
  <1>1. mistaken => mistaken'
    <2>1. CASE UNCHANGED vars
      BY <2>1 DEF vars
    <2>2. ASSUME NEW n \in Node, Call(n) PROVE mistaken => mistaken'
      BY <2>2 DEF Call, Drain, SendHandoff, GiveUp, TakeAck, Retire, history
    <2>3. ASSUME NEW n \in Node, Fault(n) PROVE mistaken' = mistaken
      BY <2>3 DEF Fault, Crash, Restart, Reconnect
    <2>4. ASSUME NEW n \in Node, NEW s \in Node, Handle(n, s) PROVE mistaken => mistaken'
      BY <2>4 DEF Handle, PersistRole, BroadcastClaim, TakeLead, HandlePromotion, SendAck, FailAck,
                  ClearRole, history
    <2>5. ASSUME NEW n \in Node, NEW s \in Node, Deliver(n, s) PROVE mistaken => mistaken'
      <3>1. CASE ReassertClaim(n, s, Frame(n, s).epoch)
        BY <3>1, Zenon DEF ReassertClaim
      <3>2. CASE \/ HandleHandoff(n, s) \/ HandleHandoffAck(n, s)
                 \/ FollowClaim(n, s, Frame(n, s).epoch) \/ IgnoreClaim(n, s, Frame(n, s).epoch)
        BY <3>2 DEF HandleHandoff, HandleHandoffAck, FollowClaim, IgnoreClaim, history
      <3> QED
        BY <2>5, <3>1, <3>2 DEF Deliver, HandleCortexClaim
    <2> QED
      BY <2>1, <2>2, <2>3, <2>4, <2>5, Zenon DEF Next
  <1>2. ASSUME ~mistaken' PROVE \E g \in Node : Top(g)'
    <2>1. ~mistaken
      BY <1>1, <1>2, Zenon
    <2>2. PICK h \in Node : Top(h)
      BY <2>1, Zenon DEF Kept
    <2>3. CASE UNCHANGED vars
      <3>1. /\ epoch' = epoch /\ crumb' = crumb /\ call' = call /\ stage' = stage /\ up' = up
            /\ estate' = estate /\ role' = role /\ net' = net
        BY <2>3 DEF vars
      <3>2. \A a \in Node : Holder(a)' <=> Holder(a)
        BY <3>1, Zenon DEF Holder, Leads, Down, Recovers
      <3>3. \A t \in Node : \A x \in Nat : /\ Led(t, x)' => Led(t, x)
                                           /\ Answered(t, x)' => Answered(t, x)
                                           /\ Stands(t, x)' => Stands(t, x)
                                           /\ Sent(t, x)' => Sent(t, x)
        BY <3>1, <3>2 DEF Led, Answered, Stands, Sent, InFlight
      <3>4. \A t \in Node : \A x \in Nat : Rival(t, x)' => Rival(t, x)
        BY <3>3, Zenon DEF Rival
      <3>5. Holder(h)' /\ epoch'[h] = epoch[h]
        BY <2>2, <3>1, <3>2 DEF Top
      <3> QED
        BY <2>2, <3>4, <3>5, Stay
    <2>4. ASSUME NEW n \in Node, Call(n) PROVE \E g \in Node : Top(g)'
      BY <1>2, <2>2, <2>4, CallKept
    <2>5. ASSUME NEW n \in Node, Fault(n) PROVE \E g \in Node : Top(g)'
      BY <2>1, <2>2, <2>5, FaultKept
    <2>6. ASSUME NEW n \in Node, NEW s \in Node, Handle(n, s) PROVE \E g \in Node : Top(g)'
      BY <2>2, <2>6, HandleKept
    <2>7. ASSUME NEW n \in Node, NEW s \in Node, Deliver(n, s) PROVE \E g \in Node : Top(g)'
      BY <1>2, <2>2, <2>7, DeliverKept
    <2> QED
      BY <2>3, <2>4, <2>5, <2>6, <2>7, Zenon DEF Next
  <1> QED
    BY <1>2, Zenon DEF Kept

LEMMA InitKept == Init => Kept
  <1> SUFFICES ASSUME Init PROVE Kept
    OBVIOUS
  <1>1. /\ epoch = [n \in Node |-> 1] /\ net = [c \in Node \X Node |-> <<>>] /\ up = [n \in Node |-> TRUE]
        /\ call = [n \in Node |-> Idle] /\ stage = [n \in Node |-> [s \in Node |-> Quiet]]
    BY DEF Init
  <1>2. PICK c \in Node : role = [n \in Node |-> IF n = c THEN "Primary" ELSE "Replica"]
    BY DEF Init
  <1>3. (\A n, s \in Node : stage[n][s].at = "none") /\ \A n \in Node : call[n].ack = "none" /\ epoch[n] = 1
    BY <1>1 DEF Quiet, Idle
  <1>4. \A n \in Node : Holder(n) => n = c
    <2>1. \A n \in Node : up[n]
      BY <1>1
    <2>2. \A n \in Node : ~Down(n)
      BY <2>1, Zenon DEF Down
    <2> QED
      BY <1>2, <1>3, <2>2 DEF Holder, Leads
  <1>5. Holder(c)
    BY <1>2 DEF Holder, Leads
  <1>6. \A a, b \in Node : InFlight(a, b) = {}
    <2>1. Elements(<<>>) = {}
      BY DEF Elements
    <2> QED
      BY <1>1, <2>1 DEF InFlight
  <1>7. ASSUME NEW t \in Node, NEW e \in Nat, Rival(t, e) PROVE ~Beats(e, t, epoch[c], c)
    <2>1. ~Sent(t, e) /\ ~Led(t, e) /\ ~Answered(t, e)
      BY <1>3, <1>6 DEF Sent, Led, Answered
    <2>2. t = c /\ e = 1 /\ epoch[c] = 1 /\ c \in Nat
      BY <1>3, <1>4, <1>7, <2>1 DEF Rival, Stands
    <2> QED
      BY <2>2 DEF Beats
  <1> QED
    BY <1>5, <1>7, Zenon DEF Kept, Top

LEMMA KeptLeads == ASSUME Kept PROVE LeadershipIsKept
  <1>1. CASE mistaken
    BY <1>1, Zenon DEF LeadershipIsKept
  <1>2. ASSUME NEW h \in Node, Top(h) PROVE LeadershipIsKept
    <2>1. role[h] = "Primary" \/ Succeeding(h)
      <3>1. CASE Leads(h)
        BY <3>1 DEF Leads, Succeeding
      <3>2. CASE Down(h)
        BY <3>2, Zenon DEF Down, Succeeding
      <3> QED
        BY <1>2, <3>1, <3>2, Zenon DEF Top, Holder
    <2> QED
      BY <2>1, Zenon DEF LeadershipIsKept
  <1> QED
    BY <1>1, <1>2, Zenon DEF Kept

\* Leadership is never lost in a handoff, for any number of handoffs, retries, crashes
\* and broken connections: of the nodes that lead, are about to, or will when they
\* restart, one has the best claim, and the rule of HandleCortexClaim lets no other
\* claim end it.  Only the two hypotheses together would lose it: a node started as a
\* replica (runAsLobe) never reads the role that HandleHandoff persisted.
THEOREM LeadershipStays == Lobe = {} \/ Faults = 0 => (Spec => []LeadershipIsKept)
  <1> SUFFICES ASSUME Lobe = {} \/ Faults = 0 PROVE Spec => []LeadershipIsKept
    OBVIOUS
  <1>1. Init => TypeOK /\ Sound /\ Kept
    BY InitTyped, InitSound, InitKept
  <1>2. TypeOK /\ Sound /\ Kept /\ [Next]_vars => TypeOK' /\ Sound' /\ Kept'
    <2> SUFFICES ASSUME TypeOK, Sound, Kept, [Next]_vars PROVE TypeOK' /\ Sound' /\ Kept'
      OBVIOUS
    <2>1. TypeOK' /\ Sound'
      BY StepTyped, StepSound
    <2>2. Kept'
      BY <2>1, StepKept
    <2> QED
      BY <2>1, <2>2
  <1>3. Kept => LeadershipIsKept
    BY KeptLeads
  <1> QED
    BY <1>1, <1>2, <1>3, PTL DEF Spec
=============================================================================
