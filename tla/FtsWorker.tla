------------------------------- MODULE FtsWorker -------------------------------
(***************************************************************************)
(* The keyword index behind the writes of one vault: engine.go stores an   *)
(* engram and submits a job, the pool of internal/index/fts/worker.go      *)
(* indexes it later, Stop drains the pool, Flush waits for it, and a       *)
(* rebuild of the index (engine_reindex_fts.go) or a clear of the vault    *)
(* (engine_vault.go) goes on under them with the vault marked as clearing. *)
(*                                                                         *)
(* A job is known by its engram.  The postings are one element per engram: *)
(* what the index holds of the text is left out.                           *)
(***************************************************************************)
EXTENDS Integers, Sequences, FiniteSets

CONSTANTS
    Job,        \* engrams to write, each with its job
    Worker,     \* goroutines of the pool
    Capacity,   \* of the channel input (workerBufSize)
    BatchSize,  \* workerBatchSize
    Faults      \* bound on the errors and panics of IndexEngram

ASSUME FtsAssumption ==
    /\ IsFiniteSet(Job) /\ IsFiniteSet(Worker)
    /\ Capacity \in Nat \ {0} /\ BatchSize \in Nat \ {0} /\ Faults \in Nat

VARIABLES
    stored, index,   \* engrams on disk, and those with postings
    writer,          \* how far each write is
    queue,           \* the channel input
    pc, batch, busy, \* a goroutine's place, its batch, and whether IndexEngram runs
    pending,         \* jobs accepted and not yet dealt with
    stop,            \* Stop
    clearing,        \* the vault is in clearingVaults
    rebuild, snap,   \* ReindexFTSVault or ClearVault, and what its scan has yet to index
    faults,          \* bound
    early,           \* history: jobs sent before Stop was called
    lost,            \* history: jobs that IndexEngram failed on
    late             \* history: engrams stored too late for the scan, or left by it

write   == <<stored, writer>>
pool    == <<pc, batch, busy>>
clear   == <<clearing, rebuild, snap>>
vars == <<write, index, queue, pool, pending, stop, clear, faults,
          early, lost, late>>

Jobs(s) == {s[i] : i \in DOMAIN s}
Held == Jobs(queue) \cup UNION {Jobs(batch[w]) : w \in Worker}
Sent == {j \in Job : writer[j] = "sent"}

TypeOK ==
    /\ stored \subseteq Job /\ index \subseteq Job
    /\ writer \in [Job -> {"none", "checked", "sent", "accepted", "refused"}]
    /\ queue \in Seq(Job) /\ Len(queue) <= Capacity
    /\ pc \in [Worker -> {"new", "select", "flush", "drain", "last", "exit", "dead"}]
    /\ batch \in [Worker -> Seq(Job)] /\ busy \in [Worker -> BOOLEAN]
    /\ \A w \in Worker : /\ pc[w] \in {"flush", "last"} => batch[w] # <<>>
                         /\ pc[w] \in {"new", "exit", "dead"} => batch[w] = <<>>
                         /\ busy[w] => pc[w] \in {"flush", "last"}
    /\ pending \in Int
    /\ stop \in {"no", "flagged", "closed", "done"}
    /\ clearing \in BOOLEAN
    /\ rebuild \in {"no", "scan", "emptied", "over"}
    /\ snap \subseteq Job
    /\ faults \in 0 .. Faults
    /\ early \subseteq Job /\ lost \subseteq Job /\ late \subseteq Job

Init ==
    /\ stored = {} /\ index = {} /\ writer = [j \in Job |-> "none"]
    /\ queue = <<>>
    /\ pc = [w \in Worker |-> "new"] /\ batch = [w \in Worker |-> <<>>]
    /\ busy = [w \in Worker |-> FALSE]
    /\ pending = 0 /\ stop = "no"
    /\ clearing = FALSE /\ rebuild = "no" /\ snap = {}
    /\ faults = 0 /\ early = {} /\ lost = {} /\ late = {}

stopped == stop # "no"

-----------------------------------------------------------------------------
(* A write, and Submit *)

\* What comes between the store and the look at stopped makes no difference to
\* either; what comes between that look and the send does.
Store(j) ==
    /\ writer[j] = "none"
    /\ writer' = [writer EXCEPT ![j] = IF stopped THEN "refused" ELSE "checked"]
    /\ stored' = stored \cup {j}
    /\ late' = IF rebuild \in {"scan", "emptied"} THEN late \cup {j} ELSE late
    /\ UNCHANGED <<index, queue, pool, pending, stop, clear, faults, early, lost>>

\* The select sends or drops; the workers may take the job before it is counted.
Send(j) ==
    /\ writer[j] = "checked"
    /\ IF Len(queue) < Capacity
         THEN /\ queue' = Append(queue, j) /\ writer' = [writer EXCEPT ![j] = "sent"]
              /\ early' = IF stopped THEN early ELSE early \cup {j}
         ELSE writer' = [writer EXCEPT ![j] = "refused"] /\ UNCHANGED <<queue, early>>
    /\ UNCHANGED <<stored, index, pool, pending, stop, clear, faults, lost, late>>

Count(j) ==
    /\ writer[j] = "sent" /\ writer' = [writer EXCEPT ![j] = "accepted"]
    /\ pending' = pending + 1
    /\ UNCHANGED <<stored, index, queue, pool, stop, clear, faults, early,
                   lost, late>>

-----------------------------------------------------------------------------
(* A goroutine of the pool: runLoop, run and flush *)

\* Mutant of Schedule: the stopped flag is asked before run is entered.
CheckedSchedule(w) ==
    /\ pc[w] = "new" /\ pc' = [pc EXCEPT ![w] = IF stopped THEN "exit" ELSE "select"]
    /\ UNCHANGED <<write, index, queue, batch, busy, pending, stop, clear,
                   faults, early, lost, late>>

Schedule(w) ==
    /\ pc[w] = "new" /\ pc' = [pc EXCEPT ![w] = "select"]
    /\ UNCHANGED <<write, index, queue, batch, busy, pending, stop, clear,
                   faults, early, lost, late>>

\* A job into the batch, in the loop (a full batch is flushed) and in the drain.
Receive(w) ==
    /\ pc[w] \in {"select", "drain"} /\ queue # <<>>
    /\ queue' = Tail(queue)
    /\ batch' = [batch EXCEPT ![w] = Append(@, Head(queue))]
    /\ pc' = [pc EXCEPT ![w] = IF @ = "select" /\ Len(batch[w]) + 1 >= BatchSize
                                 THEN "flush" ELSE @]
    /\ UNCHANGED <<write, index, busy, pending, stop, clear, faults, early,
                   lost, late>>

\* Mutant of Tick: only a full batch is flushed.
FullTick(w) ==
    /\ pc[w] = "select" /\ Len(batch[w]) >= BatchSize
    /\ pc' = [pc EXCEPT ![w] = "flush"]
    /\ UNCHANGED <<write, index, queue, batch, busy, pending, stop, clear,
                   faults, early, lost, late>>

\* The ticker, or the nudge of Flush.
Tick(w) ==
    /\ pc[w] = "select" /\ batch[w] # <<>>
    /\ pc' = [pc EXCEPT ![w] = "flush"]
    /\ UNCHANGED <<write, index, queue, batch, busy, pending, stop, clear,
                   faults, early, lost, late>>

SeeStop(w) ==
    /\ pc[w] = "select" /\ stop = "closed"
    /\ pc' = [pc EXCEPT ![w] = "drain"]
    /\ UNCHANGED <<write, index, queue, batch, busy, pending, stop, clear,
                   faults, early, lost, late>>

\* Mutant of Drained: the goroutine returns without its last flush.
UnflushedDrained(w) ==
    /\ pc[w] = "drain" /\ queue = <<>>
    /\ pc' = [pc EXCEPT ![w] = "exit"] /\ batch' = [batch EXCEPT ![w] = <<>>]
    /\ UNCHANGED <<write, index, queue, busy, pending, stop, clear, faults,
                   early, lost, late>>

\* Mutant of Drained: the break leaves the select only.
LoopingDrained(w) ==
    /\ pc[w] = "drain" /\ queue = <<>>
    /\ pc' = [pc EXCEPT ![w] = IF batch[w] = <<>> THEN "select" ELSE "flush"]
    /\ UNCHANGED <<write, index, queue, batch, busy, pending, stop, clear,
                   faults, early, lost, late>>

Drained(w) ==
    /\ pc[w] = "drain" /\ queue = <<>>
    /\ pc' = [pc EXCEPT ![w] = IF batch[w] = <<>> THEN "exit" ELSE "last"]
    /\ UNCHANGED <<write, index, queue, batch, busy, pending, stop, clear,
                   faults, early, lost, late>>

\* Mutant of Dealt: the flush of an empty batch goes on.
LongDealt(w) ==
    /\ batch' = [batch EXCEPT ![w] = Tail(@)]
    /\ busy' = [busy EXCEPT ![w] = FALSE]
    /\ pc' = [pc EXCEPT ![w] = IF Len(batch[w]) > 0 THEN @
                               ELSE IF @ = "flush" THEN "select" ELSE "exit"]

\* The first job of the batch is done with; after the last one, back to the loop or,
\* after the drain, out of it.
Dealt(w) ==
    /\ batch' = [batch EXCEPT ![w] = Tail(@)]
    /\ busy' = [busy EXCEPT ![w] = FALSE]
    /\ pc' = [pc EXCEPT ![w] = IF Len(batch[w]) > 1 THEN @
                               ELSE IF @ = "flush" THEN "select" ELSE "exit"]

Skip(w) ==
    /\ pc[w] \in {"flush", "last"} /\ ~busy[w] /\ clearing
    /\ Dealt(w) /\ pending' = pending - 1
    /\ UNCHANGED <<write, index, queue, stop, clear, faults, early, lost, late>>

Begin(w) ==
    /\ pc[w] \in {"flush", "last"} /\ ~busy[w] /\ ~clearing
    /\ busy' = [busy EXCEPT ![w] = TRUE]
    /\ UNCHANGED <<write, index, queue, pc, batch, pending, stop, clear,
                   faults, early, lost, late>>

Indexed(w) ==
    /\ busy[w] /\ Dealt(w) /\ pending' = pending - 1
    /\ index' = index \cup {Head(batch[w])}
    /\ UNCHANGED <<write, queue, stop, clear, faults, early, lost, late>>

\* IndexEngram returns an error.
Failed(w) ==
    /\ busy[w] /\ Dealt(w) /\ pending' = pending - 1
    /\ faults < Faults /\ faults' = faults + 1
    /\ lost' = lost \cup {Head(batch[w])}
    /\ UNCHANGED <<write, index, queue, stop, clear, early, late>>

\* Mutant of Panic: only the job that panicked is released.
LeakyPanic(w) ==
    /\ busy[w] /\ faults < Faults /\ faults' = faults + 1
    /\ pending' = pending - 1 /\ lost' = lost \cup Jobs(batch[w])
    /\ batch' = [batch EXCEPT ![w] = <<>>] /\ busy' = [busy EXCEPT ![w] = FALSE]
    /\ pc' = [pc EXCEPT ![w] = IF stopped THEN "dead" ELSE "select"]
    /\ UNCHANGED <<write, index, queue, stop, clear, early, late>>

\* IndexEngram panics: the rest of the batch goes with it, and is released.  The
\* goroutine enters run again, or ends without a drain when Stop has begun.
Panic(w) ==
    /\ busy[w] /\ faults < Faults /\ faults' = faults + 1
    /\ pending' = pending - Len(batch[w]) /\ lost' = lost \cup Jobs(batch[w])
    /\ batch' = [batch EXCEPT ![w] = <<>>] /\ busy' = [busy EXCEPT ![w] = FALSE]
    /\ pc' = [pc EXCEPT ![w] = IF stopped THEN "dead" ELSE "select"]
    /\ UNCHANGED <<write, index, queue, stop, clear, early, late>>

Work(w) ==
    \/ Schedule(w) \/ Receive(w) \/ Tick(w) \/ SeeStop(w) \/ Drained(w)
    \/ Skip(w) \/ Begin(w) \/ Indexed(w) \/ Failed(w) \/ Panic(w)

-----------------------------------------------------------------------------
(* Stop *)

Stop ==
    /\ \/ stop = "no" /\ stop' = "flagged"
       \/ stop = "flagged" /\ stop' = "closed"
       \/ /\ stop = "closed" /\ \A w \in Worker : pc[w] \in {"exit", "dead"}
          /\ stop' = "done"
    /\ UNCHANGED <<write, index, queue, pool, pending, clear, faults, early,
                   lost, late>>

-----------------------------------------------------------------------------
\* Flush changes nothing: it waits for this, until the pool has stopped or the time
\* is over.
FlushReturnsNil == pending = 0

-----------------------------------------------------------------------------
(* ReindexFTSVault and ClearVault, one of them at a time *)

\* The vault is marked as clearing and its postings go: a worker that is in
\* IndexEngram goes on, the others skip.  The scan that follows reads the engrams of
\* the moment its iterator is made, and goes on over an error of IndexEngram.
ClearFTSKeys ==
    /\ rebuild = "no" /\ rebuild' = "scan" /\ clearing' = TRUE
    /\ index' = {} /\ snap' = stored
    /\ UNCHANGED <<write, queue, pool, pending, stop, faults, early, lost, late>>

ClearVault ==
    /\ rebuild = "no" /\ rebuild' = "emptied" /\ clearing' = TRUE
    /\ index' = {} /\ stored' = {}
    /\ UNCHANGED <<writer, queue, pool, pending, stop, snap, faults, early, lost, late>>

Scan(j) ==
    /\ rebuild = "scan" /\ j \in snap /\ snap' = snap \ {j}
    /\ \/ index' = index \cup {j} /\ UNCHANGED <<faults, lost>>
       \/ /\ faults < Faults /\ faults' = faults + 1
          /\ lost' = lost \cup {j} /\ UNCHANGED index
    /\ UNCHANGED <<write, queue, pool, pending, stop, clearing, rebuild, early, late>>

\* The end of either, by a deferred call; Stop, the caller's context or an error of the
\* store may break off a scan that is not through.
Unmark ==
    /\ rebuild \in {"scan", "emptied"}
    /\ rebuild' = "over" /\ clearing' = FALSE
    /\ late' = late \cup snap /\ snap' = {}
    /\ UNCHANGED <<write, index, queue, pool, pending, stop, faults, early, lost>>

-----------------------------------------------------------------------------
Rebuild == \/ ClearFTSKeys \/ ClearVault \/ Unmark \/ \E j \in Job : Scan(j)

Next ==
    \/ \E j \in Job : Store(j) \/ Send(j) \/ Count(j)
    \/ \E w \in Worker : Work(w)
    \/ Stop \/ Rebuild

Terminated ==
    /\ stop = "done" /\ rebuild = "over"
    /\ \A j \in Job : writer[j] \in {"accepted", "refused"}
    /\ UNCHANGED vars

\* A goroutine that can run does, and Stop goes on once it is called.
Fairness ==
    /\ \A w \in Worker : WF_vars(Work(w))
    /\ WF_vars(stop # "no" /\ Stop)

Spec == Init /\ [][Next \/ Terminated]_vars /\ Fairness

-----------------------------------------------------------------------------
\* The counter Flush relies on: it counts the jobs that are in the channel or in a
\* batch, but for those whose Submit is between its send and its count -- whatever
\* errors, panics and clears the workers meet.
PendingCounts == pending + Cardinality(Sent) = Cardinality(Held)

\* Stop drains the queue: no job that was sent before the call is left, unless
\* every goroutine died of a panic on the way.
StopDrains ==
    stop = "done" /\ (\E w \in Worker : pc[w] = "exit") => early \cap Held = {}

\* An engram on disk gets its postings, or there is a reason it does not: its job was
\* refused or failed, or came too late for a rebuild it was skipped for.  Until then
\* its job is on its way, or the scan will come to it.
NothingVanishes ==
    \A j \in stored :
        \/ j \in index \cup Held \cup snap \cup lost \cup late
        \/ writer[j] \in {"checked", "refused"}

\* Every job sent before Stop is dealt with in the end, and a Stop that has begun
\* returns.
JobsAreDealtWith == <>[](early \cap Held = {})
StopReturns == <>[](stop \in {"no", "done"})

\* What the comments say of Flush ("every job accepted by Submit before this call has
\* been handed to the indexer", worker.go:162) and of an engram's visibility ("only
\* keyword search visibility is delayed", worker.go:37).
FlushWaits ==
    FlushReturnsNil => {j \in Job : writer[j] = "accepted"} \cap Held = {}
OnlyDelayed == \A j \in stored \cap late : j \in index \cup Held \/ writer[j] # "accepted"
=============================================================================
