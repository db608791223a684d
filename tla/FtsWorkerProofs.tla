----------------------------- MODULE FtsWorkerProofs -----------------------------
(***************************************************************************)
(* Proofs about FtsWorker, for any number of writes, goroutines, capacity, *)
(* batch size and faults: the types, the counter of pending jobs, the      *)
(* drain of Stop, and that no engram loses its postings without a reason.  *)
(***************************************************************************)
EXTENDS FtsWorker, FiniteSetTheorems, TLAPS

USE FtsAssumption

-----------------------------------------------------------------------------
(* Sequences of jobs *)

\* No job is in s twice.
Distinct(s) == \A i, k \in DOMAIN s : s[i] = s[k] => i = k

LEMMA AppendJobs ==
    ASSUME NEW s \in Seq(Job), NEW j \in Job
    PROVE  Jobs(Append(s, j)) = Jobs(s) \cup {j}
  <1>1. /\ DOMAIN s = 1 .. Len(s) /\ DOMAIN Append(s, j) = 1 .. Len(s) + 1 /\ Len(s) \in Nat
        /\ \A i \in 1 .. Len(s) : Append(s, j)[i] = s[i]
        /\ Append(s, j)[Len(s) + 1] = j
    OBVIOUS
  <1> QED
    BY <1>1 DEF Jobs

LEMMA EmptyLength == ASSUME NEW s \in Seq(Job) PROVE s = <<>> <=> Len(s) = 0
  OBVIOUS

LEMMA TailJobs ==
    ASSUME NEW s \in Seq(Job), s # <<>>
    PROVE  /\ Head(s) \in Job /\ Tail(s) \in Seq(Job) /\ Len(Tail(s)) = Len(s) - 1
           /\ Jobs(s) = Jobs(Tail(s)) \cup {Head(s)}
           /\ Distinct(s) => Distinct(Tail(s)) /\ Head(s) \notin Jobs(Tail(s))
  <1>1. /\ Head(s) \in Job /\ Tail(s) \in Seq(Job) /\ Len(Tail(s)) = Len(s) - 1
        /\ Head(s) = s[1] /\ DOMAIN s = 1 .. Len(s) /\ Len(s) \in Nat \ {0}
        /\ DOMAIN Tail(s) = 1 .. Len(s) - 1
        /\ \A i \in 1 .. Len(s) - 1 : Tail(s)[i] = s[i + 1]
    OBVIOUS
  <1>2. ASSUME NEW i \in 1 .. Len(s), i # 1
        PROVE  i - 1 \in DOMAIN Tail(s) /\ Tail(s)[i - 1] = s[i]
    <2>1. i - 1 \in 1 .. Len(s) - 1 /\ (i - 1) + 1 = i
      BY <1>1, <1>2
    <2> QED
      BY <1>1, <2>1
  <1>3. Jobs(s) = Jobs(Tail(s)) \cup {Head(s)}
    <2>1. ASSUME NEW i \in DOMAIN s PROVE s[i] \in Jobs(Tail(s)) \cup {Head(s)}
      <3>1. CASE i = 1
        BY <1>1, <3>1
      <3>2. CASE i # 1
        BY <1>1, <1>2, <3>2 DEF Jobs
      <3> QED
        BY <3>1, <3>2
    <2>2. ASSUME NEW i \in DOMAIN Tail(s) PROVE i + 1 \in DOMAIN s /\ Tail(s)[i] = s[i + 1]
      BY <1>1
    <2>3. 1 \in DOMAIN s
      BY <1>1
    <2>4. Jobs(s) \subseteq Jobs(Tail(s)) \cup {Head(s)}
      BY <2>1 DEF Jobs
    <2>5. Jobs(Tail(s)) \cup {Head(s)} \subseteq Jobs(s)
      BY <1>1, <2>2, <2>3 DEF Jobs
    <2> QED
      BY <2>4, <2>5
  <1>4. ASSUME Distinct(s) PROVE Distinct(Tail(s)) /\ Head(s) \notin Jobs(Tail(s))
    <2>1. \A i \in DOMAIN Tail(s) : i \in Nat /\ i > 0 /\ i + 1 \in DOMAIN s /\ Tail(s)[i] = s[i + 1]
      BY <1>1
    <2>2. Distinct(Tail(s))
      <3>1. ASSUME NEW i \in DOMAIN Tail(s), NEW k \in DOMAIN Tail(s), Tail(s)[i] = Tail(s)[k]
            PROVE  i = k
        <4>1. i + 1 = k + 1
          BY <1>4, <2>1, <3>1 DEF Distinct
        <4> QED
          BY <2>1, <4>1
      <3> QED
        BY <3>1 DEF Distinct
    <2>3. ASSUME NEW i \in DOMAIN Tail(s) PROVE Tail(s)[i] # Head(s)
      <3>1. 1 \in DOMAIN s /\ i + 1 # 1
        BY <1>1, <2>1
      <3> QED
        BY <1>1, <1>4, <2>1, <3>1 DEF Distinct
    <2> QED
      BY <2>2, <2>3 DEF Jobs
  <1> QED
    BY <1>1, <1>3, <1>4

LEMMA AppendDistinct ==
    ASSUME NEW s \in Seq(Job), NEW j \in Job, Distinct(s), j \notin Jobs(s)
    PROVE  Distinct(Append(s, j))
  <1>1. /\ DOMAIN s = 1 .. Len(s) /\ DOMAIN Append(s, j) = 1 .. Len(s) + 1 /\ Len(s) \in Nat
        /\ \A i \in 1 .. Len(s) : Append(s, j)[i] = s[i]
        /\ Append(s, j)[Len(s) + 1] = j
    OBVIOUS
  <1> QED
    BY <1>1 DEF Distinct, Jobs

\* A sequence without repetitions has as many jobs as places.
LEMMA DistinctLength ==
    ASSUME NEW s \in Seq(Job), Distinct(s)
    PROVE  IsFiniteSet(Jobs(s)) /\ Cardinality(Jobs(s)) = Len(s)
  <1>1. DOMAIN s = 1 .. Len(s) /\ Len(s) \in Nat
    OBVIOUS
  <1>2. s \in [1 .. Len(s) -> Jobs(s)]
    BY <1>1 DEF Jobs
  <1>3. s \in Surjection(1 .. Len(s), Jobs(s)) /\ s \in Injection(1 .. Len(s), Jobs(s))
    BY <1>1, <1>2 DEF Distinct, Jobs, Injection, Surjection, IsInjective
  <1>4. IsFiniteSet(1 .. Len(s)) /\ Cardinality(1 .. Len(s)) = Len(s)
    BY <1>1, FS_Interval
  <1> QED
    BY <1>3, <1>4, FS_Surjection

-----------------------------------------------------------------------------
(* Types *)

\* A goroutine's place and its batch agree.
Agrees(p, b, z) ==
    /\ p \in {"flush", "last"} => b # <<>>
    /\ p \in {"new", "exit", "dead"} => b = <<>>
    /\ z => p \in {"flush", "last"}

PoolOK ==
    /\ pc \in [Worker -> {"new", "select", "flush", "drain", "last", "exit", "dead"}]
    /\ batch \in [Worker -> Seq(Job)] /\ busy \in [Worker -> BOOLEAN]
    /\ \A w \in Worker : Agrees(pc[w], batch[w], busy[w])

\* TypeOK but for the pool.
OtherTypes ==
    /\ stored \subseteq Job /\ index \subseteq Job
    /\ writer \in [Job -> {"none", "checked", "sent", "accepted", "refused"}]
    /\ queue \in Seq(Job) /\ Len(queue) <= Capacity
    /\ pending \in Int
    /\ stop \in {"no", "flagged", "closed", "done"}
    /\ clearing \in BOOLEAN
    /\ rebuild \in {"no", "scan", "emptied", "over"}
    /\ snap \subseteq Job
    /\ faults \in 0 .. Faults
    /\ early \subseteq Job /\ lost \subseteq Job /\ late \subseteq Job

Types == OtherTypes /\ PoolOK

\* A goroutine's step keeps the pool typed if what it becomes agrees.
LEMMA PoolStep ==
    ASSUME PoolOK, NEW w \in Worker,
           pc' = [pc EXCEPT ![w] = pc'[w]], batch' = [batch EXCEPT ![w] = batch'[w]],
           busy' = [busy EXCEPT ![w] = busy'[w]],
           pc'[w] \in {"new", "select", "flush", "drain", "last", "exit", "dead"},
           batch'[w] \in Seq(Job), busy'[w] \in BOOLEAN,
           Agrees(pc'[w], batch'[w], busy'[w])
    PROVE  PoolOK'
  <1>1. /\ pc' \in [Worker -> {"new", "select", "flush", "drain", "last", "exit", "dead"}]
        /\ batch' \in [Worker -> Seq(Job)]
    BY DEF PoolOK
  <1>2. busy' \in [Worker -> BOOLEAN]
    BY DEF PoolOK
  <1>3. ASSUME NEW v \in Worker PROVE Agrees(pc'[v], batch'[v], busy'[v])
    <2>1. CASE v = w
      BY <2>1
    <2>2. CASE v # w
      <3>1. pc'[v] = pc[v] /\ batch'[v] = batch[v] /\ busy'[v] = busy[v]
        BY <2>2 DEF PoolOK
      <3> QED
        BY <3>1 DEF PoolOK
    <2> QED
      BY <2>1, <2>2
  <1> QED
    BY <1>1, <1>2, <1>3 DEF PoolOK

\* What a step of a goroutine does to its own state; the other goroutines keep theirs.
LEMMA WorkKeepsTypes == ASSUME Types, NEW w \in Worker, Work(w) PROVE Types'
  <1> USE DEF write, pool, clear
  <1>1. PoolOK /\ OtherTypes
    BY DEF Types
  <1>2. /\ pc \in [Worker -> {"new", "select", "flush", "drain", "last", "exit", "dead"}]
        /\ batch \in [Worker -> Seq(Job)] /\ busy \in [Worker -> BOOLEAN]
        /\ Agrees(pc[w], batch[w], busy[w])
    BY <1>1 DEF PoolOK
  <1>3. /\ batch = [batch EXCEPT ![w] = batch[w]] /\ busy = [busy EXCEPT ![w] = busy[w]]
        /\ pc = [pc EXCEPT ![w] = pc[w]] /\ batch[w] \in Seq(Job) /\ busy[w] \in BOOLEAN
        /\ pc[w] \in {"new", "select", "flush", "drain", "last", "exit", "dead"}
    BY <1>2
  <1>4. CASE Schedule(w) \/ Tick(w) \/ SeeStop(w) \/ Drained(w)
    <2>1. PICK p \in {"select", "flush", "drain", "exit", "last"} :
            /\ pc' = [pc EXCEPT ![w] = p]
            /\ p \in {"flush", "last"} => batch[w] # <<>>
            /\ p = "exit" => batch[w] = <<>>
            /\ pc[w] \in {"new", "select", "drain"}
      BY <1>4, <1>3 DEF Schedule, Tick, SeeStop, Drained
    <2>2. ~busy[w]
      BY <1>2, <2>1 DEF Agrees
    <2>3. Agrees(p, batch[w], busy[w])
      BY <2>1, <2>2 DEF Agrees
    <2>4. UNCHANGED <<write, index, queue, batch, busy, pending, stop, clear, faults, early,
                      lost, late>>
      BY <1>4 DEF Schedule, Tick, SeeStop, Drained
    <2>5. PoolOK'
      <3>1. pc'[w] = p /\ batch'[w] = batch[w] /\ busy'[w] = busy[w]
        BY <1>2, <2>1, <2>4
      <3> QED
        BY <1>1, <1>3, <2>1, <2>3, <2>4, <3>1, PoolStep
    <2>6. OtherTypes'
      BY <1>1, <2>4 DEF OtherTypes
    <2> QED
      BY <2>5, <2>6 DEF Types
  <1>5. CASE Receive(w)
    <2> DEFINE b == Append(batch[w], Head(queue))
    <2>1. PICK p \in {"select", "flush", "drain"} : pc' = [pc EXCEPT ![w] = p]
      BY <1>3, <1>5 DEF Receive
    <2>2. /\ pc[w] \in {"select", "drain"} /\ queue \in Seq(Job) /\ queue # <<>>
          /\ queue' = Tail(queue) /\ batch' = [batch EXCEPT ![w] = b]
          /\ UNCHANGED <<write, index, busy, pending, stop, clear, faults, early, lost, late>>
      BY <1>1, <1>5 DEF Receive, OtherTypes
    <2>3. /\ Head(queue) \in Job /\ Tail(queue) \in Seq(Job)
          /\ Len(Tail(queue)) = Len(queue) - 1 /\ Len(queue) \in Nat
      BY <2>2
    <2>4. b \in Seq(Job) /\ b # <<>>
      BY <1>3, <2>3
    <2>5. Agrees(p, b, busy[w])
      BY <1>2, <2>1, <2>2, <2>4 DEF Agrees
    <2>6. PoolOK'
      <3>1. pc'[w] = p /\ batch'[w] = b /\ busy'[w] = busy[w]
        BY <1>2, <2>1, <2>2
      <3> HIDE DEF b
      <3> QED
        BY <1>1, <1>3, <2>1, <2>2, <2>4, <2>5, <3>1, PoolStep
    <2>7. Len(queue') <= Capacity
      BY <1>1, <2>2, <2>3 DEF OtherTypes, FtsAssumption
    <2>8. OtherTypes'
      BY <1>1, <2>2, <2>3, <2>7 DEF OtherTypes
    <2> QED
      BY <2>6, <2>8 DEF Types
  <1>6. CASE Begin(w)
    <2>1. Agrees(pc[w], batch[w], TRUE)
      BY <1>2, <1>6 DEF Agrees, Begin
    <2>2. /\ busy' = [busy EXCEPT ![w] = TRUE]
          /\ UNCHANGED <<write, index, queue, pc, batch, pending, stop, clear, faults,
                         early, lost, late>>
      BY <1>6 DEF Begin
    <2>3. PoolOK'
      <3>1. pc'[w] = pc[w] /\ batch'[w] = batch[w] /\ busy'[w] = TRUE
        BY <1>2, <2>2
      <3> QED
        BY <1>1, <1>3, <2>1, <2>2, <3>1, PoolStep
    <2>4. OtherTypes'
      BY <1>1, <2>2 DEF OtherTypes
    <2> QED
      BY <2>3, <2>4 DEF Types
  <1>7. CASE Skip(w) \/ Indexed(w) \/ Failed(w)
    <2>1. pc[w] \in {"flush", "last"} /\ batch[w] # <<>>
      BY <1>2, <1>7 DEF Agrees, Skip, Indexed, Failed
    <2>2. /\ Head(batch[w]) \in Job /\ Tail(batch[w]) \in Seq(Job)
          /\ Len(batch[w]) \in Nat \ {0} /\ (Tail(batch[w]) = <<>> <=> Len(batch[w]) = 1)
      <3>1. Len(Tail(batch[w])) = Len(batch[w]) - 1 /\ Tail(batch[w]) \in Seq(Job)
        BY <1>3, <2>1, TailJobs
      <3>3. Head(batch[w]) \in Job /\ Len(batch[w]) \in Nat
        BY <1>3, <2>1, TailJobs
      <3>4. Len(batch[w]) # 0 /\ (Tail(batch[w]) = <<>> <=> Len(Tail(batch[w])) = 0)
        BY <1>3, <2>1, <3>1, EmptyLength
      <3>5. Tail(batch[w]) = <<>> <=> Len(batch[w]) = 1
        <4>1. Len(Tail(batch[w])) = 0 <=> Len(batch[w]) = 1
          BY <3>1, <3>3
        <4> QED
          BY <3>4, <4>1, Zenon
      <3> QED
        BY <3>1, <3>3, <3>4, <3>5
    <2>3. Dealt(w)
      BY <1>7 DEF Skip, Indexed, Failed
    <2>4. PICK p \in {"flush", "last", "select", "exit"} :
            /\ pc' = [pc EXCEPT ![w] = p]
            /\ p \in {"flush", "last"} => Len(batch[w]) > 1
            /\ p = "exit" => Len(batch[w]) = 1
      <3>1. CASE Len(batch[w]) > 1
        <4>1. pc' = [pc EXCEPT ![w] = pc[w]]
          BY <2>3, <3>1 DEF Dealt
        <4> QED
          BY <2>1, <2>2, <3>1, <4>1
      <3>2. CASE Len(batch[w]) = 1 /\ pc[w] = "flush"
        <4>1. pc' = [pc EXCEPT ![w] = "select"]
          BY <2>3, <3>2 DEF Dealt
        <4> QED
          BY <4>1
      <3>3. CASE Len(batch[w]) = 1 /\ pc[w] = "last"
        <4>1. pc' = [pc EXCEPT ![w] = "exit"]
          BY <2>3, <3>3 DEF Dealt
        <4> QED
          BY <3>3, <4>1
      <3> QED
        BY <2>1, <2>2, <3>1, <3>2, <3>3
    <2>5. Agrees(p, Tail(batch[w]), FALSE)
      BY <2>2, <2>4 DEF Agrees
    <2>6. PoolOK'
      <3>1. pc'[w] = p /\ batch'[w] = Tail(batch[w]) /\ busy'[w] = FALSE
        BY <1>2, <2>3, <2>4 DEF Dealt
      <3>2. /\ batch' = [batch EXCEPT ![w] = Tail(batch[w])]
            /\ busy' = [busy EXCEPT ![w] = FALSE]
        BY <2>3 DEF Dealt
      <3> QED
        BY <1>1, <2>2, <2>4, <2>5, <3>1, <3>2, PoolStep
    <2>7. /\ UNCHANGED <<write, queue, stop, clear, early, late>>
          /\ pending' = pending - 1
          /\ index' \subseteq index \cup {Head(batch[w])}
          /\ lost' \subseteq lost \cup {Head(batch[w])}
          /\ faults' = faults \/ (faults < Faults /\ faults' = faults + 1)
      BY <1>7 DEF Skip, Indexed, Failed
    <2>8. OtherTypes'
      BY <1>1, <2>2, <2>7 DEF OtherTypes, FtsAssumption
    <2> QED
      BY <2>6, <2>8 DEF Types
  <1>8. CASE Panic(w)
    <2>1. PICK p \in {"dead", "select"} : pc' = [pc EXCEPT ![w] = p]
      BY <1>8 DEF Panic
    <2>2. Agrees(p, <<>>, FALSE) /\ <<>> \in Seq(Job)
      BY <2>1 DEF Agrees
    <2>3. PoolOK'
      <3>1. pc'[w] = p /\ batch'[w] = <<>> /\ busy'[w] = FALSE
        BY <1>2, <1>8, <2>1 DEF Panic
      <3>2. batch' = [batch EXCEPT ![w] = <<>>] /\ busy' = [busy EXCEPT ![w] = FALSE]
        BY <1>8 DEF Panic
      <3> QED
        BY <1>1, <2>1, <2>2, <3>1, <3>2, PoolStep
    <2>4. Jobs(batch[w]) \subseteq Job /\ Len(batch[w]) \in Nat
      BY <1>3 DEF Jobs
    <2>5. OtherTypes'
      BY <1>1, <1>8, <2>4 DEF OtherTypes, Panic, FtsAssumption
    <2> QED
      BY <2>3, <2>5 DEF Types
  <1> QED
    BY <1>4, <1>5, <1>6, <1>7, <1>8 DEF Work

LEMMA OthersKeepTypes ==
    ASSUME Types,
           \/ \E j \in Job : Store(j) \/ Send(j) \/ Count(j)
           \/ Stop \/ Rebuild \/ Terminated
    PROVE  Types'
  <1> USE DEF write, pool, clear
  <1>1. PoolOK /\ OtherTypes
    BY DEF Types
  <1>2. UNCHANGED pool
    BY DEF Store, Send, Count, Stop, Rebuild, ClearFTSKeys, ClearVault, Scan, Unmark,
         Terminated, vars
  <1>3. PoolOK'
    BY <1>1, <1>2 DEF PoolOK, Agrees
  <1>4. ASSUME \E j \in Job : Store(j) PROVE OtherTypes'
    BY <1>1, <1>4 DEF OtherTypes, Store
  <1>5. ASSUME \E j \in Job : Count(j) PROVE OtherTypes'
    BY <1>1, <1>5 DEF OtherTypes, Count
  <1>6. ASSUME NEW j \in Job, Send(j) PROVE OtherTypes'
    <2>1. CASE Len(queue) < Capacity
      <3>1. /\ Append(queue, j) \in Seq(Job) /\ Len(Append(queue, j)) = Len(queue) + 1
            /\ Len(queue) \in Nat
        BY <1>1 DEF OtherTypes
      <3>2. Len(queue') <= Capacity /\ queue' \in Seq(Job)
        BY <1>6, <2>1, <3>1 DEF Send, FtsAssumption
      <3> QED
        BY <1>1, <1>6, <2>1, <3>2 DEF OtherTypes, Send
    <2>2. CASE ~(Len(queue) < Capacity)
      BY <1>1, <1>6, <2>2 DEF OtherTypes, Send
    <2> QED
      BY <2>1, <2>2
  <1>7. ASSUME Stop PROVE OtherTypes'
    BY <1>1, <1>7 DEF OtherTypes, Stop
  <1>8. ASSUME Rebuild PROVE OtherTypes'
    <2>1. CASE \E j \in Job : Scan(j)
      BY <1>1, <2>1 DEF OtherTypes, Scan, FtsAssumption
    <2>2. CASE ClearFTSKeys \/ ClearVault \/ Unmark
      BY <1>1, <2>2 DEF OtherTypes, ClearFTSKeys, ClearVault, Unmark
    <2> QED
      BY <1>8, <2>1, <2>2 DEF Rebuild
  <1>9. ASSUME Terminated PROVE OtherTypes'
    BY <1>1, <1>9 DEF OtherTypes, Terminated, vars
  <1> QED
    BY <1>3, <1>4, <1>5, <1>6, <1>7, <1>8, <1>9 DEF Types

-----------------------------------------------------------------------------
(* Where the jobs are *)

\* A job is in one place only, once.
Placed ==
    /\ Distinct(queue)
    /\ \A w \in Worker : Distinct(batch[w]) /\ Jobs(queue) \cap Jobs(batch[w]) = {}
    /\ \A w, v \in Worker : w # v => Jobs(batch[w]) \cap Jobs(batch[v]) = {}

\* And was sent before it came there, or counts as early.
Submitted == \A j \in Held \cup early : writer[j] \in {"sent", "accepted"}

\* The batches of the other goroutines.
Rest(w) == UNION {Jobs(batch[v]) : v \in Worker \ {w}}

LEMMA HeldParts ==
    ASSUME NEW w \in Worker
    PROVE  /\ Held = Jobs(queue) \cup Jobs(batch[w]) \cup Rest(w)
           /\ Placed => /\ Jobs(batch[w]) \cap Rest(w) = {}
                        /\ Jobs(queue) \cap Rest(w) = {}
  <1>1. Held = Jobs(queue) \cup Jobs(batch[w]) \cup Rest(w)
    BY DEF Held, Rest
  <1>2. ASSUME Placed, NEW v \in Worker \ {w}
        PROVE  Jobs(batch[w]) \cap Jobs(batch[v]) = {} /\ Jobs(queue) \cap Jobs(batch[v]) = {}
    BY <1>2 DEF Placed
  <1> QED
    BY <1>1, <1>2 DEF Rest

\* A step that moves jobs among the channel and one batch, and may drop some.
LEMMA PlacedStep ==
    ASSUME Placed, batch \in [Worker -> Seq(Job)], NEW w \in Worker,
           batch' = [batch EXCEPT ![w] = batch'[w]],
           Distinct(queue'), Distinct(batch'[w]), Jobs(queue') \cap Jobs(batch'[w]) = {},
           Jobs(queue') \subseteq Jobs(queue),
           Jobs(batch'[w]) \subseteq Jobs(queue) \cup Jobs(batch[w])
    PROVE  /\ Placed'
           /\ Held' = Jobs(queue') \cup Jobs(batch'[w]) \cup Rest(w)
  <1>1. \A v \in Worker \ {w} : batch'[v] = batch[v]
    OBVIOUS
  <1>2. Rest(w)' = Rest(w)
    BY <1>1 DEF Rest
  <1>3. Held' = Jobs(queue') \cup Jobs(batch'[w]) \cup Rest(w)
    <2>1. Held' = Jobs(queue') \cup Jobs(batch'[w]) \cup Rest(w)'
      BY DEF Held, Rest
    <2> QED
      BY <1>2, <2>1
  <1>4. ASSUME NEW v \in Worker
        PROVE  Distinct(batch'[v]) /\ Jobs(queue') \cap Jobs(batch'[v]) = {}
    <2>1. CASE v = w
      BY <2>1
    <2>2. CASE v # w
      <3>1. batch'[v] = batch[v]
        BY <1>1, <2>2
      <3> QED
        BY <3>1 DEF Placed
    <2> QED
      BY <2>1, <2>2
  <1>5. ASSUME NEW v \in Worker, NEW u \in Worker, v # u
        PROVE  Jobs(batch'[v]) \cap Jobs(batch'[u]) = {}
    <2>1. CASE v = w
      <3>1. batch'[u] = batch[u]
        BY <1>1, <1>5, <2>1
      <3> QED
        BY <1>5, <2>1, <3>1 DEF Placed
    <2>2. CASE u = w
      <3>1. batch'[v] = batch[v]
        BY <1>1, <1>5, <2>2
      <3> QED
        BY <1>5, <2>2, <3>1 DEF Placed
    <2>3. CASE v # w /\ u # w
      <3>1. batch'[v] = batch[v] /\ batch'[u] = batch[u]
        BY <1>1, <2>3
      <3> QED
        BY <1>5, <3>1 DEF Placed
    <2> QED
      BY <2>1, <2>2, <2>3
  <1> QED
    BY <1>3, <1>4, <1>5 DEF Placed

\* A step of a goroutine takes a sequence of jobs out of Held and off the counter: none,
\* the first of its batch, or all of it.
Takes(b) ==
    /\ b \in Seq(Job) /\ Distinct(b) /\ Jobs(b) \subseteq Held
    /\ Held' = Held \ Jobs(b) /\ pending' = pending - Len(b)
    /\ Jobs(b) \subseteq index' \cup lost' \/ clearing

LEMMA SingleJob ==
    ASSUME NEW j \in Job
    PROVE  /\ <<j>> \in Seq(Job) /\ Len(<<j>>) = 1 /\ Jobs(<<j>>) = {j} /\ Distinct(<<j>>)
           /\ Jobs(<<>>) = {} /\ Distinct(<<>>)
  BY DEF Jobs, Distinct

LEMMA WorkTakes ==
    ASSUME Types, Placed, NEW w \in Worker, Work(w)
    PROVE  Placed' /\ \E b : Takes(b)
  <1> USE DEF write, pool, clear
  <1>1. /\ batch \in [Worker -> Seq(Job)] /\ batch[w] \in Seq(Job)
        /\ queue \in Seq(Job) /\ pending \in Int
        /\ pc[w] \in {"flush", "last"} \/ busy[w] => batch[w] # <<>>
    BY DEF Types, PoolOK, OtherTypes, Agrees
  <1>2. CASE Schedule(w) \/ Tick(w) \/ SeeStop(w) \/ Drained(w) \/ Begin(w)
    <2>1. UNCHANGED <<queue, batch, pending>>
      BY <1>2 DEF Schedule, Tick, SeeStop, Drained, Begin
    <2>2. Placed' /\ Held' = Held
      BY <2>1 DEF Placed, Held
    <2>3. Takes(<<>>)
      BY <1>1, <2>1, <2>2 DEF Takes, Jobs, Distinct
    <2> QED
      BY <2>2, <2>3
  <1>3. CASE Receive(w)
    <2>1. /\ queue # <<>> /\ queue' = Tail(queue) /\ pending' = pending
          /\ batch' = [batch EXCEPT ![w] = Append(batch[w], Head(queue))]
      BY <1>3 DEF Receive
    <2>2. batch'[w] = Append(batch[w], Head(queue))
      BY <1>1, <2>1
    <2>3. /\ Head(queue) \in Job /\ Jobs(queue) = Jobs(queue') \cup {Head(queue)}
          /\ Distinct(queue') /\ Head(queue) \notin Jobs(queue')
      BY <1>1, <2>1, TailJobs DEF Placed
    <2>4. Head(queue) \notin Jobs(batch[w])
      BY <2>3 DEF Placed
    <2>5. /\ Distinct(batch'[w]) /\ Jobs(batch'[w]) = Jobs(batch[w]) \cup {Head(queue)}
      BY <1>1, <2>2, <2>3, <2>4, AppendJobs, AppendDistinct DEF Placed
    <2>6. Jobs(queue') \cap Jobs(batch'[w]) = {}
      BY <2>3, <2>5 DEF Placed
    <2>7. Placed' /\ Held' = Jobs(queue') \cup Jobs(batch'[w]) \cup Rest(w)
      BY <1>1, <2>1, <2>2, <2>3, <2>5, <2>6, PlacedStep
    <2>8. Held' = Held
      BY <2>3, <2>5, <2>7, HeldParts
    <2>9. Takes(<<>>)
      BY <1>1, <2>1, <2>8 DEF Takes, Jobs, Distinct
    <2> QED
      BY <2>7, <2>9
  <1>4. CASE Skip(w) \/ Indexed(w) \/ Failed(w)
    <2>1. /\ batch[w] # <<>> /\ queue' = queue /\ pending' = pending - 1
          /\ batch' = [batch EXCEPT ![w] = Tail(batch[w])]
      BY <1>1, <1>4 DEF Skip, Indexed, Failed, Dealt
    <2>2. batch'[w] = Tail(batch[w])
      BY <1>1, <2>1
    <2>3. /\ Head(batch[w]) \in Job /\ Jobs(batch[w]) = Jobs(batch'[w]) \cup {Head(batch[w])}
          /\ Distinct(batch'[w]) /\ Head(batch[w]) \notin Jobs(batch'[w])
      BY <1>1, <2>1, <2>2, TailJobs DEF Placed
    <2>4. Distinct(queue') /\ Jobs(queue') \cap Jobs(batch'[w]) = {}
      BY <2>1, <2>3 DEF Placed
    <2>5. Placed' /\ Held' = Jobs(queue) \cup Jobs(batch'[w]) \cup Rest(w)
      BY <1>1, <2>1, <2>2, <2>3, <2>4, PlacedStep
    <2>6. Head(batch[w]) \notin Jobs(queue) \cup Rest(w)
      BY <2>3, HeldParts DEF Placed
    <2>7. Head(batch[w]) \in Held /\ Held' = Held \ {Head(batch[w])}
      BY <2>3, <2>5, <2>6, HeldParts
    <2>8. Head(batch[w]) \in index' \cup lost' \/ clearing
      BY <1>4 DEF Skip, Indexed, Failed
    <2>9. Takes(<<Head(batch[w])>>)
      BY <2>1, <2>3, <2>7, <2>8, SingleJob DEF Takes
    <2> QED
      BY <2>5, <2>9
  <1>5. CASE Panic(w)
    <2>1. /\ queue' = queue /\ pending' = pending - Len(batch[w])
          /\ batch' = [batch EXCEPT ![w] = <<>>]
      BY <1>5 DEF Panic
    <2>2. batch'[w] = <<>>
      BY <1>1, <2>1
    <2>3. Jobs(batch'[w]) = {} /\ Distinct(batch'[w])
      BY <2>2 DEF Jobs, Distinct
    <2>4. Distinct(queue')
      BY <2>1 DEF Placed
    <2>5. Placed' /\ Held' = Jobs(queue) \cup Rest(w)
      BY <1>1, <2>1, <2>2, <2>3, <2>4, PlacedStep
    <2>6. Jobs(batch[w]) \subseteq Held /\ Held' = Held \ Jobs(batch[w])
      BY <2>5, HeldParts DEF Placed
    <2>7. Takes(batch[w])
      BY <1>1, <1>5, <2>1, <2>6 DEF Takes, Placed, Panic
    <2> QED
      BY <2>5, <2>7
  <1> QED
    BY <1>2, <1>3, <1>4, <1>5 DEF Work

-----------------------------------------------------------------------------
(* The counter *)

LEMMA FiniteParts ==
    ASSUME Types
    PROVE  /\ Held \subseteq Job /\ Sent \subseteq Job
           /\ IsFiniteSet(Held) /\ IsFiniteSet(Sent)
           /\ Cardinality(Held) \in Nat /\ Cardinality(Sent) \in Nat
  <1>1. queue \in Seq(Job) /\ \A w \in Worker : batch[w] \in Seq(Job)
    BY DEF Types, PoolOK, OtherTypes
  <1>2. \A s \in Seq(Job) : Jobs(s) \subseteq Job
    BY DEF Jobs
  <1>3. Held \subseteq Job /\ Sent \subseteq Job
    BY <1>1, <1>2 DEF Held, Sent
  <1>4. IsFiniteSet(Held) /\ IsFiniteSet(Sent)
    BY <1>3, FS_Subset
  <1> QED
    BY <1>3, <1>4, FS_CardinalityType

LEMMA WorkKeepsCount ==
    ASSUME Types, Placed, PendingCounts, NEW w \in Worker, Work(w)
    PROVE  PendingCounts'
  <1>1. UNCHANGED writer
    BY DEF Work, Schedule, Receive, Tick, SeeStop, Drained, Skip, Begin, Indexed, Failed,
         Panic, write
  <1>2. Sent' = Sent
    BY <1>1 DEF Sent
  <1>3. PICK b : Takes(b)
    BY WorkTakes
  <1>4. IsFiniteSet(Jobs(b)) /\ Cardinality(Jobs(b)) = Len(b) /\ Held \cap Jobs(b) = Jobs(b)
    BY <1>3, DistinctLength DEF Takes
  <1>5. Cardinality(Held') = Cardinality(Held) - Len(b) /\ Len(b) \in Nat
    <2>1. Held' = Held \ Jobs(b) /\ Len(b) \in Nat
      BY <1>3 DEF Takes
    <2>2. Cardinality(Held \ Jobs(b)) = Cardinality(Held) - Cardinality(Held \cap Jobs(b))
      BY FiniteParts, FS_Difference
    <2> QED
      BY <1>4, <2>1, <2>2
  <1>6. pending \in Int /\ pending' = pending - Len(b)
    BY <1>3 DEF Types, OtherTypes, Takes
  <1> QED
    BY <1>2, <1>5, <1>6, FiniteParts DEF PendingCounts

LEMMA WriteKeepsPlaces ==
    ASSUME Types, Placed, Submitted, PendingCounts,
           NEW j \in Job, Store(j) \/ Send(j) \/ Count(j)
    PROVE  Placed' /\ Submitted' /\ PendingCounts'
  <1> USE DEF write, pool, clear
  <1>1. /\ writer \in [Job -> {"none", "checked", "sent", "accepted", "refused"}]
        /\ queue \in Seq(Job) /\ pending \in Int
        /\ \A w \in Worker : batch[w] \in Seq(Job)
    BY DEF Types, PoolOK, OtherTypes
  <1>2. Held \subseteq Job /\ early \subseteq Job
    BY FiniteParts DEF Types, OtherTypes
  <1>3. CASE Store(j)
    <2>1. UNCHANGED <<queue, batch, pending, early>> /\ writer[j] = "none"
          /\ writer'[j] \in {"refused", "checked"} /\ \A k \in Job \ {j} : writer'[k] = writer[k]
      BY <1>1, <1>3 DEF Store
    <2>2. Held' = Held /\ Sent' = Sent
      BY <2>1 DEF Held, Sent
    <2>3. Submitted'
      BY <1>2, <2>1, <2>2 DEF Submitted
    <2> QED
      BY <2>1, <2>2, <2>3 DEF Placed, PendingCounts
  <1>4. CASE Send(j)
    <2>1. CASE Len(queue) < Capacity
      <3>1. /\ queue' = Append(queue, j) /\ UNCHANGED <<batch, pending>>
            /\ writer[j] = "checked" /\ writer'[j] = "sent" /\ early' \subseteq early \cup {j}
            /\ \A k \in Job \ {j} : writer'[k] = writer[k]
        BY <1>1, <1>4, <2>1 DEF Send
      <3>2. j \notin Held
        BY <3>1 DEF Submitted
      <3>3. j \notin Jobs(queue) /\ \A w \in Worker : j \notin Jobs(batch[w])
        BY <3>2 DEF Held
      <3>4. Jobs(queue') = Jobs(queue) \cup {j} /\ Distinct(queue')
        BY <1>1, <3>1, <3>3, AppendJobs, AppendDistinct DEF Placed
      <3>5. Placed'
        BY <3>1, <3>3, <3>4 DEF Placed
      <3>6. Held' = Held \cup {j}
        BY <3>1, <3>4 DEF Held
      <3>7. j \notin Sent /\ Sent' = Sent \cup {j}
        BY <3>1 DEF Sent
      <3>8. Submitted'
        BY <1>2, <3>1, <3>6 DEF Submitted
      <3>9. Cardinality(Held') = Cardinality(Held) + 1 /\ Cardinality(Sent') = Cardinality(Sent) + 1
        BY <3>2, <3>6, <3>7, FiniteParts, FS_AddElement
      <3> QED
        BY <1>1, <3>1, <3>5, <3>8, <3>9, FiniteParts DEF PendingCounts
    <2>2. CASE ~(Len(queue) < Capacity)
      <3>1. UNCHANGED <<queue, batch, pending, early>> /\ writer[j] = "checked"
            /\ writer'[j] = "refused" /\ \A k \in Job \ {j} : writer'[k] = writer[k]
        BY <1>1, <1>4, <2>2 DEF Send
      <3>2. Held' = Held /\ Sent' = Sent
        BY <3>1 DEF Held, Sent
      <3>3. Submitted'
        BY <1>2, <3>1, <3>2 DEF Submitted
      <3> QED
        BY <3>1, <3>2, <3>3 DEF Placed, PendingCounts
    <2> QED
      BY <2>1, <2>2
  <1>5. CASE Count(j)
    <2>1. UNCHANGED <<queue, batch, early>> /\ pending' = pending + 1 /\ writer[j] = "sent"
          /\ writer'[j] = "accepted" /\ \A k \in Job \ {j} : writer'[k] = writer[k]
      BY <1>1, <1>5 DEF Count
    <2>2. Held' = Held /\ Sent' = Sent \ {j} /\ j \in Sent
      BY <2>1 DEF Held, Sent
    <2>3. Submitted'
      BY <1>2, <2>1, <2>2 DEF Submitted
    <2>4. Cardinality(Sent') = Cardinality(Sent) - 1
      BY <2>2, FiniteParts, FS_RemoveElement
    <2>5. PendingCounts'
      BY <1>1, <2>1, <2>2, <2>4, FiniteParts DEF PendingCounts
    <2> QED
      BY <2>1, <2>3, <2>5 DEF Placed
  <1> QED
    BY <1>3, <1>4, <1>5

LEMMA OthersKeepPlaces ==
    ASSUME Placed, Submitted, PendingCounts, Stop \/ Rebuild \/ UNCHANGED vars
    PROVE  Placed' /\ Submitted' /\ PendingCounts'
  <1>1. UNCHANGED <<writer, queue, batch, pending, early>>
    BY DEF Stop, Rebuild, ClearFTSKeys, ClearVault, Scan, Unmark, vars, write, pool, clear
  <1>2. Held' = Held /\ Sent' = Sent
    BY <1>1 DEF Held, Sent
  <1> QED
    BY <1>1, <1>2 DEF Placed, Submitted, PendingCounts

-----------------------------------------------------------------------------
(* The drain *)

\* A goroutine drains only once the channel done is closed; when its drain is over,
\* nothing that came before Stop is in the channel; Stop returns when all are out.
Draining ==
    /\ \A w \in Worker : pc[w] \in {"drain", "last", "exit"} => stop \in {"closed", "done"}
    /\ \A w \in Worker : pc[w] \in {"last", "exit"} => early \cap Jobs(queue) = {}
    /\ stop = "done" => \A w \in Worker : pc[w] \in {"exit", "dead"}

LEMMA StepKeepsDraining ==
    ASSUME Types, Submitted, Draining, [Next \/ Terminated]_vars PROVE Draining'
  <1> USE DEF write, pool, clear
  <1>1. /\ queue \in Seq(Job)
        /\ pc \in [Worker -> {"new", "select", "flush", "drain", "last", "exit", "dead"}]
        /\ \A w \in Worker : busy[w] => pc[w] \in {"flush", "last"}
    BY DEF Types, PoolOK, OtherTypes, Agrees
  <1>2. ASSUME NEW w \in Worker, Work(w) PROVE Draining'
    <2>1. UNCHANGED <<stop, early>> /\ pc[w] \notin {"exit", "dead"}
      BY <1>1, <1>2 DEF Work, Schedule, Receive, Tick, SeeStop, Drained, Skip, Begin,
           Indexed, Failed, Panic
    <2>2. Jobs(queue') \subseteq Jobs(queue)
      <3>1. queue' = queue \/ (queue # <<>> /\ queue' = Tail(queue))
        BY <1>2 DEF Work, Schedule, Receive, Tick, SeeStop, Drained, Skip, Begin,
             Indexed, Failed, Panic
      <3> QED
        BY <1>1, <3>1, TailJobs
    <2>3. /\ pc'[w] = "drain" => pc[w] = "drain" \/ stop = "closed"
          /\ pc'[w] \in {"last", "exit"} =>
                pc[w] = "last" \/ (pc[w] = "drain" /\ queue = <<>> /\ queue' = queue)
      BY <1>1, <1>2 DEF Work, Schedule, Receive, Tick, SeeStop, Drained, Skip, Begin,
           Indexed, Failed, Panic, Dealt
    <2>4. \A v \in Worker \ {w} : pc'[v] = pc[v]
      BY <1>1, <1>2 DEF Work, Schedule, Receive, Tick, SeeStop, Drained, Skip, Begin,
           Indexed, Failed, Panic, Dealt
    <2>5. queue = <<>> => Jobs(queue) = {}
      BY DEF Jobs
    <2>6. stop # "done"
      BY <2>1 DEF Draining
    <2> QED
      BY <2>1, <2>2, <2>3, <2>4, <2>5, <2>6 DEF Draining
  <1>3. ASSUME NEW j \in Job, Send(j) PROVE Draining'
    <2>1. CASE stopped
      <3>1. UNCHANGED <<stop, early, pc>> /\ j \notin early
        BY <1>3, <2>1 DEF Send, Submitted
      <3>2. Jobs(queue') \subseteq Jobs(queue) \cup {j}
        BY <1>1, <1>3, AppendJobs DEF Send
      <3> QED
        BY <3>1, <3>2 DEF Draining
    <2>2. CASE ~stopped
      <3>1. stop' = "no" /\ \A w \in Worker : pc'[w] \notin {"drain", "last", "exit"}
        BY <1>3, <2>2 DEF Send, stopped, Draining
      <3> QED
        BY <3>1 DEF Draining
    <2> QED
      BY <2>1, <2>2
  <1>4. CASE Stop
    BY <1>4 DEF Stop, Draining
  <1>5. ASSUME UNCHANGED <<queue, pc, stop, early>> PROVE Draining'
    BY <1>5 DEF Draining
  <1> QED
    BY <1>2, <1>3, <1>4, <1>5 DEF Next, Store, Count, Rebuild, ClearFTSKeys, ClearVault,
         Scan, Unmark, Terminated, vars

-----------------------------------------------------------------------------
(* What becomes of an engram *)

\* While the vault is marked, the scan has had or will have every engram on disk, but for
\* those that came too late for it or failed.
ScanKnows ==
    /\ clearing <=> rebuild \in {"scan", "emptied"}
    /\ rebuild = "scan" => stored \subseteq index \cup snap \cup late \cup lost
    /\ rebuild = "emptied" => stored \subseteq late

LEMMA WorkKeepsEngrams ==
    ASSUME Types, Placed, ScanKnows, NothingVanishes, NEW w \in Worker, Work(w)
    PROVE  ScanKnows' /\ NothingVanishes'
  <1>1. /\ UNCHANGED <<stored, writer, clearing, rebuild, snap, late>>
        /\ index \subseteq index' /\ lost \subseteq lost'
    BY DEF Work, Schedule, Receive, Tick, SeeStop, Drained, Skip, Begin, Indexed, Failed,
         Panic, write, clear
  <1>2. ScanKnows'
    BY <1>1 DEF ScanKnows
  <1>3. PICK b : Takes(b)
    BY WorkTakes
  <1>4. ASSUME NEW j \in stored
        PROVE  j \in index' \cup Held' \cup snap' \cup lost' \cup late'
                 \/ writer'[j] \in {"checked", "refused"}
    <2>1. CASE clearing
      BY <1>1, <2>1 DEF ScanKnows
    <2>2. CASE ~clearing
      <3>1. Held \subseteq Held' \cup index' \cup lost'
        BY <1>3, <2>2 DEF Takes
      <3> QED
        BY <1>1, <3>1 DEF NothingVanishes
    <2> QED
      BY <2>1, <2>2
  <1> QED
    BY <1>1, <1>2, <1>4 DEF NothingVanishes

LEMMA WriteKeepsEngrams ==
    ASSUME Types, ScanKnows, NothingVanishes,
           NEW j \in Job, Store(j) \/ Send(j) \/ Count(j)
    PROVE  ScanKnows' /\ NothingVanishes'
  <1> USE DEF write, pool, clear
  <1>1. writer \in [Job -> {"none", "checked", "sent", "accepted", "refused"}]
          /\ queue \in Seq(Job) /\ stored \subseteq Job
    BY DEF Types, OtherTypes
  <1>2. \A k \in Job \ {j} : writer'[k] = writer[k]
    BY <1>1 DEF Store, Send, Count
  <1>3. UNCHANGED <<index, snap, lost, clearing, rebuild>>
    BY DEF Store, Send, Count
  <1>4. CASE Store(j)
    <2>1. /\ writer'[j] \in {"checked", "refused"} /\ UNCHANGED <<queue, batch>>
          /\ stored' = stored \cup {j} /\ late \subseteq late'
          /\ rebuild \in {"scan", "emptied"} => j \in late'
      BY <1>1, <1>4 DEF Store
    <2>2. Held' = Held
      BY <2>1 DEF Held
    <2> QED
      BY <1>1, <1>2, <1>3, <2>1, <2>2 DEF ScanKnows, NothingVanishes
  <1>5. CASE Send(j)
    <2>1. UNCHANGED <<stored, late, batch>>
      BY <1>5 DEF Send
    <2>2. CASE Len(queue) < Capacity
      <3>1. Held' = Held \cup {j}
        <4>1. queue' = Append(queue, j)
          BY <1>5, <2>2 DEF Send
        <4>2. Jobs(queue') = Jobs(queue) \cup {j}
          BY <1>1, <4>1, AppendJobs
        <4> QED
          BY <2>1, <4>2 DEF Held
      <3> QED
        BY <1>1, <1>2, <1>3, <2>1, <3>1 DEF ScanKnows, NothingVanishes
    <2>3. CASE ~(Len(queue) < Capacity)
      <3>1. Held' = Held /\ writer'[j] = "refused"
        BY <1>1, <1>5, <2>1, <2>3 DEF Send, Held
      <3> QED
        BY <1>1, <1>2, <1>3, <2>1, <3>1 DEF ScanKnows, NothingVanishes
    <2> QED
      BY <2>2, <2>3
  <1>6. CASE Count(j)
    <2>1. UNCHANGED <<stored, late, queue, batch>> /\ writer[j] = "sent"
      BY <1>6 DEF Count
    <2>2. Held' = Held
      BY <2>1 DEF Held
    <2> QED
      BY <1>1, <1>2, <1>3, <2>1, <2>2 DEF ScanKnows, NothingVanishes
  <1> QED
    BY <1>4, <1>5, <1>6

LEMMA OthersKeepEngrams ==
    ASSUME ScanKnows, NothingVanishes, Stop \/ Rebuild \/ UNCHANGED vars
    PROVE  ScanKnows' /\ NothingVanishes'
  <1> USE DEF write, pool, clear
  <1>1. UNCHANGED <<writer, queue, batch>> /\ lost \subseteq lost'
    BY DEF Stop, Rebuild, ClearFTSKeys, ClearVault, Scan, Unmark, vars
  <1>2. Held' = Held
    BY <1>1 DEF Held
  <1>3. CASE Stop \/ UNCHANGED vars
    <2>1. UNCHANGED <<stored, index, clearing, rebuild, snap, late, lost>>
      BY <1>3 DEF Stop, vars
    <2> QED
      BY <1>1, <1>2, <2>1 DEF ScanKnows, NothingVanishes
  <1>4. CASE ClearFTSKeys
    BY <1>4 DEF ClearFTSKeys, ScanKnows, NothingVanishes
  <1>5. CASE ClearVault
    BY <1>5 DEF ClearVault, ScanKnows, NothingVanishes
  <1>6. CASE Unmark
    BY <1>1, <1>2, <1>6 DEF Unmark, ScanKnows, NothingVanishes
  <1>7. CASE \E j \in Job : Scan(j)
    BY <1>1, <1>2, <1>7 DEF Scan, ScanKnows, NothingVanishes
  <1> QED
    BY <1>3, <1>4, <1>5, <1>6, <1>7 DEF Rebuild

-----------------------------------------------------------------------------
IInv ==
    /\ Types /\ Placed /\ Submitted /\ PendingCounts /\ Draining
    /\ ScanKnows /\ NothingVanishes

LEMMA InitGivesIInv == ASSUME Init PROVE IInv
  <1>1. queue = <<>> /\ \A w \in Worker : batch[w] = <<>> /\ pc[w] = "new" /\ ~busy[w]
    BY DEF Init
  <1>2. Jobs(<<>>) = {} /\ Distinct(<<>>)
    BY DEF Jobs, Distinct
  <1>3. Held = {} /\ Sent = {}
    BY <1>1, <1>2 DEF Init, Held, Sent
  <1>4. PoolOK
    BY DEF Init, PoolOK, Agrees
  <1>5. OtherTypes
    <2>1. queue \in Seq(Job) /\ Len(queue) <= Capacity
      BY <1>1
    <2>2. /\ stored = {} /\ index = {} /\ snap = {} /\ early = {} /\ lost = {} /\ late = {}
          /\ stop = "no" /\ rebuild = "no" /\ pending = 0 /\ faults = 0
          /\ clearing \in BOOLEAN
      BY DEF Init
    <2>3. writer \in [Job -> {"none", "checked", "sent", "accepted", "refused"}]
      BY DEF Init
    <2> QED
      BY <2>1, <2>2, <2>3 DEF OtherTypes
  <1>6. Placed /\ Submitted
    BY <1>1, <1>2, <1>3 DEF Init, Placed, Submitted
  <1>7. PendingCounts
    BY <1>3, FS_EmptySet DEF Init, PendingCounts
  <1>8. Draining /\ ScanKnows /\ NothingVanishes
    BY <1>1 DEF Init, Draining, ScanKnows, NothingVanishes
  <1> QED
    BY <1>4, <1>5, <1>6, <1>7, <1>8 DEF IInv, Types

LEMMA StepKeepsIInv == ASSUME IInv, [Next \/ Terminated]_vars PROVE IInv'
  <1> USE DEF IInv
  <1>1. Draining'
    BY StepKeepsDraining
  <1>2. CASE \E w \in Worker : Work(w)
    <2>1. PICK w \in Worker : Work(w)
      BY <1>2
    <2>2. Submitted'
      <3>1. UNCHANGED <<writer, early>>
        BY <2>1 DEF Work, Schedule, Receive, Tick, SeeStop, Drained, Skip, Begin, Indexed,
             Failed, Panic, write
      <3>2. Held' \subseteq Held
        BY <2>1, WorkTakes DEF Takes
      <3> QED
        BY <3>1, <3>2 DEF Submitted
    <2> QED
      BY <1>1, <2>1, <2>2, WorkKeepsTypes, WorkTakes, WorkKeepsCount, WorkKeepsEngrams
  <1>3. CASE \E j \in Job : Store(j) \/ Send(j) \/ Count(j)
    BY <1>1, <1>3, OthersKeepTypes, WriteKeepsPlaces, WriteKeepsEngrams
  <1>4. CASE Stop \/ Rebuild
    BY <1>1, <1>4, OthersKeepTypes, OthersKeepPlaces, OthersKeepEngrams
  <1>5. CASE UNCHANGED vars
    <2>1. Types'
      BY <1>5 DEF vars, write, pool, clear, Types, PoolOK, OtherTypes, Agrees
    <2> QED
      BY <1>1, <1>5, <2>1, OthersKeepPlaces, OthersKeepEngrams
  <1> QED
    BY <1>2, <1>3, <1>4, <1>5 DEF Next, Terminated

LEMMA IInvHolds == Spec => []IInv
  BY InitGivesIInv, StepKeepsIInv, PTL DEF Spec

\* The channel stays within its capacity, and a goroutine's place agrees with its batch,
\* through flushes, panics and the drain (run, flush, runLoop).
THEOREM TypesHold == Spec => []TypeOK
  <1>1. IInv => TypeOK
    BY DEF IInv, Types, PoolOK, OtherTypes, Agrees, TypeOK
  <1> QED
    BY <1>1, IInvHolds, PTL

\* The counter Flush waits on is exact, but for the jobs between send and count, for
\* every number of workers and every pattern of errors, panics and skips.
THEOREM PendingIsExact == Spec => []PendingCounts
  <1>1. IInv => PendingCounts
    BY DEF IInv
  <1> QED
    BY <1>1, IInvHolds, PTL

\* What was sent before Stop is not left in the channel or a batch, if one goroutine
\* ended its drain.
THEOREM StopIsClean == Spec => []StopDrains
  <1>1. ASSUME IInv, stop = "done", NEW w \in Worker, pc[w] = "exit"
        PROVE  early \cap Held = {}
    <2>1. \A v \in Worker : batch[v] = <<>>
      BY <1>1 DEF IInv, Types, PoolOK, Agrees, Draining
    <2>2. early \cap Jobs(queue) = {}
      BY <1>1 DEF IInv, Draining
    <2>3. Jobs(<<>>) = {}
      BY DEF Jobs
    <2> QED
      BY <2>1, <2>2, <2>3 DEF Held
  <1>2. IInv => StopDrains
    BY <1>1 DEF StopDrains
  <1> QED
    BY <1>2, IInvHolds, PTL

\* No engram loses its postings but to an error, a refused job or a rebuild it came too
\* late for.
THEOREM NoEngramVanishes == Spec => []NothingVanishes
  <1>1. IInv => NothingVanishes
    BY DEF IInv
  <1> QED
    BY <1>1, IInvHolds, PTL
=============================================================================
