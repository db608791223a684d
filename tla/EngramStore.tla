----------------------------- MODULE EngramStore -----------------------------
(***************************************************************************)
(* The life of one engram in PebbleStore: its record and lease in Pebble,  *)
(* the L1 cache and the metadata cache in front of them, the stripe lock   *)
(* of CompareAndSet and its relatives, and the batches each write appends  *)
(* to the replication log (internal/storage/engram.go, lease.go, cache.go, *)
(* impl.go), with the engine's Claim, Release and Restore on top           *)
(* (internal/engine/engine_lease.go, engine.go).                           *)
(*                                                                         *)
(* An operation is a program: the sequence of the accesses its method makes *)
(* to shared state, in the order of the code.  Each process runs one       *)
(* operation at a time, and one action runs one access, so that readers    *)
(* and the writers that take no lock fall between any two of them.  A      *)
(* record is its lifecycle state and a version, the number of the write    *)
(* that made it; everything else in it is as old as its version.           *)
(***************************************************************************)
EXTENDS Naturals, Sequences, FiniteSets

CONSTANTS
    Proc,         \* callers; a claimant is the owner of the leases it takes
    Op,           \* the operations this instance runs
    Nobody,       \* the free stripe lock
    Gone,         \* no record: hard-deleted, not cached, not read
    NoLease,      \* the zero Lease
    TTL,          \* the lease duration every claimant asks for
    CasMaxRetries,\* attempts of Claim and Release
    MaxNow,       \* bound on the clock
    MaxOps        \* bound on the operations started

Locked   == {"confidence", "soft", "tags", "touch", "finish", "reopen",
             "claim", "release", "delete"}
Unlocked == {"patch", "restore"}
Reading  == {"read", "scan"}

State  == {"active", "done", "soft"}
Record == [ver : 0 .. MaxOps, state : State]
Lease  == [owner : Proc, beat : 0 .. MaxNow]
Step   == {"lock", "drop", "get", "fill", "meta", "mfill", "look", "check", "patch",
           "clear", "commit", "publish", "append", "unlock"}

ASSUME EngramAssumption ==
    /\ Op \subseteq Locked \cup Unlocked \cup Reading
    /\ Nobody \notin Proc
    /\ TTL \in Nat /\ CasMaxRetries \in Nat \ {0} /\ MaxNow \in Nat /\ MaxOps \in Nat
    /\ Gone \notin Record /\ NoLease \notin Lease

VARIABLES
    db,       \* the record (keys 0x01 and 0x02), or Gone
    index,    \* the states the 0x0B index lists the engram under
    lease,    \* the lease sidecar (0x2A)
    now,      \* the server clock
    lock,     \* the holder of casLocks.For(id)
    l1,       \* the L1 cache's entry
    meta,     \* the metadata cache's entry
    op,       \* the operation of each process
    id,       \* its number, which becomes the version of what it writes
    todo,     \* the accesses it has still to make
    rec,      \* the record it read through the caches
    raw,      \* the record it read from Pebble to patch in place
    old,      \* the state UpdateMetadata takes the engram to be indexed under
    hit,      \* rec came from a cache
    seen,     \* the lease it looked at
    at,       \* the time it looked at it
    tries,    \* attempts of Claim or Release so far
    done,     \* the commit it has still to append: what it put where
    ops,      \* operations started
    log,      \* the replication log: the commits, as appended
    grant,    \* history: the lease a claimant holds by its last answer
    intruded, \* history: a write without the lock since the lock was taken
    overlapped\* history: a write without the lock, or a fill by a reader that
              \* overlapped a write

state == <<db, index, lease, now, lock, l1, meta>>
local == <<op, id, todo, rec, raw, old, hit, seen, at, tries, done>>
vars  == <<state, local, ops, log, grant, intruded, overlapped>>

NoEffect == [op |-> "none", key |-> "none", value |-> Gone]
Effect   == {NoEffect} \cup [op : Locked \cup Unlocked, key : {"record"}, value : Record]
                       \cup [op : {"delete"}, key : {"all"}, value : {Gone}]
                       \cup [op : {"claim", "release"}, key : {"lease"},
                             value : Lease \cup {NoLease}]

TypeOK ==
    /\ db \in Record \cup {Gone} /\ index \subseteq State /\ lease \in Lease \cup {NoLease}
    /\ now \in 0 .. MaxNow /\ lock \in Proc \cup {Nobody}
    /\ l1 \in Record \cup {Gone} /\ meta \in Record \cup {Gone}
    /\ op \in [Proc -> Op \cup {"none"}] /\ id \in [Proc -> 0 .. MaxOps]
    /\ todo \in [Proc -> Seq(Step)] /\ rec \in [Proc -> Record \cup {Gone}]
    /\ raw \in [Proc -> Record \cup {Gone}]
    /\ old \in [Proc -> State] /\ hit \in [Proc -> BOOLEAN]
    /\ seen \in [Proc -> Lease \cup {NoLease}] /\ at \in [Proc -> 0 .. MaxNow]
    /\ tries \in [Proc -> 0 .. CasMaxRetries] /\ done \in [Proc -> Effect]
    /\ ops \in 0 .. MaxOps /\ log \in Seq(Effect)
    /\ grant \in [Proc -> Lease \cup {NoLease}]
    /\ intruded \in BOOLEAN /\ overlapped \in BOOLEAN

Init ==
    /\ db = [ver |-> 0, state |-> "active"] /\ index = {"active"} /\ lease = NoLease
    /\ now = 0 /\ lock = Nobody /\ l1 = Gone /\ meta = Gone
    /\ op = [p \in Proc |-> "none"] /\ id = [p \in Proc |-> 0] /\ todo = [p \in Proc |-> <<>>]
    /\ rec = [p \in Proc |-> Gone] /\ raw = [p \in Proc |-> Gone]
    /\ old = [p \in Proc |-> "active"] /\ hit = [p \in Proc |-> FALSE]
    /\ seen = [p \in Proc |-> NoLease] /\ at = [p \in Proc |-> 0]
    /\ tries = [p \in Proc |-> 0] /\ done = [p \in Proc |-> NoEffect]
    /\ ops = 0 /\ log = <<>> /\ grant = [p \in Proc |-> NoLease]
    /\ intruded = FALSE /\ overlapped = FALSE

-----------------------------------------------------------------------------
\* What each method does, in order.  "drop" empties the L1 entry; "get" and "fill"
\* are GetEngram and "meta" and "mfill" GetMetadata, up to the read and from it to
\* the cache; "look" is the claimant's GetLease; "check" the condition; "patch" the
\* raw read of the writers in place; "clear" empties both caches; "publish"
\* caches the new record and drops the metadata.

\* Mutants of ConfidenceProgram: the L1 entry a delete may have left is not
\* dropped; the record is cached after the lock is released.
TrustingProgram ==
    <<"lock", "get", "fill", "commit", "publish", "unlock", "append">>
LatePublishProgram ==
    <<"lock", "drop", "get", "fill", "commit", "unlock", "publish", "append">>
ConfidenceProgram ==
    <<"lock", "drop", "get", "fill", "commit", "publish", "unlock", "append">>

\* Mutant of SoftProgram: the batch is appended after the lock is released.
LateSoftProgram ==
    <<"lock", "drop", "get", "fill", "commit", "publish", "unlock", "append">>
SoftProgram ==
    <<"lock", "drop", "get", "fill", "commit", "append", "publish", "unlock">>

TagsProgram ==
    <<"lock", "drop", "get", "fill", "clear", "commit", "publish", "append", "unlock">>

\* Mutant of TouchProgram: the read of the engram is outside the lock.
EarlyTouchProgram ==
    <<"drop", "get", "fill", "lock", "patch", "clear", "commit", "append", "unlock">>
TouchProgram ==
    <<"lock", "drop", "get", "fill", "patch", "clear", "commit", "append", "unlock">>

CasProgram ==
    <<"lock", "meta", "mfill", "check", "patch", "clear", "commit", "append", "unlock">>
LeaseProgram ==
    <<"look", "lock", "meta", "mfill", "check", "commit", "append", "unlock">>
DeleteProgram  == <<"lock", "get", "fill", "commit", "unlock", "append", "drop">>
PatchProgram   == <<"patch", "clear", "commit", "append">>
RestoreProgram == <<"get", "fill", "check", "patch", "clear", "commit", "append">>

Program(o) ==
    CASE o = "confidence"            -> ConfidenceProgram
      [] o = "soft"                  -> SoftProgram
      [] o = "tags"                  -> TagsProgram
      [] o = "touch"                 -> TouchProgram
      [] o \in {"finish", "reopen"}  -> CasProgram
      [] o \in {"claim", "release"}  -> LeaseProgram
      [] o = "delete"                -> DeleteProgram
      [] o = "patch"                 -> PatchProgram
      [] o = "restore"               -> RestoreProgram
      [] o = "read"                  -> <<"get", "fill">>
      [] o = "scan"                  -> <<"meta", "mfill">>

\* Mutant of Cleanup: a failed commit returns with the lock held.
LeakyCleanup(p, s) ==
    IF op[p] \notin Locked \/ s = "commit" THEN <<>> ELSE <<"unlock">>

\* An early return: a held lock is released, and UpdateTags also drops what the
\* caches may hold once its commit has failed.
Cleanup(p, s) ==
    IF op[p] \notin Locked THEN <<>>
    ELSE IF op[p] = "tags" /\ s = "commit" THEN <<"clear", "unlock">>
    ELSE <<"unlock">>

\* Claim and Release start over when the lease has changed under them.
Retry(p) == IF op[p] \in {"claim", "release"} /\ tries[p] < CasMaxRetries
            THEN Program(op[p]) ELSE <<>>

At(p, s)   == todo[p] # <<>> /\ Head(todo[p]) = s
Go(p, t)   == todo' = [todo EXCEPT ![p] = t]
Proceed(p) == Go(p, Tail(todo[p]))
SkipFill(p) == Go(p, Tail(Tail(todo[p])))
Abort(p)   == Go(p, Cleanup(p, Head(todo[p])))

\* Lease.Live: owned and no older than its TTL.
Live(l) == l # NoLease /\ now <= l.beat + TTL

Start(p, o) ==
    /\ op[p] = "none" /\ ops < MaxOps
    /\ ops' = ops + 1
    /\ op' = [op EXCEPT ![p] = o] /\ id' = [id EXCEPT ![p] = ops + 1]
    /\ Go(p, Program(o))
    /\ UNCHANGED <<state, rec, raw, old, hit, seen, at, tries, done, log, grant,
                   intruded, overlapped>>

Return(p) ==
    /\ op[p] # "none" /\ todo[p] = <<>>
    /\ op' = [op EXCEPT ![p] = "none"] /\ id' = [id EXCEPT ![p] = 0]
    /\ rec' = [rec EXCEPT ![p] = Gone] /\ raw' = [raw EXCEPT ![p] = Gone]
    /\ old' = [old EXCEPT ![p] = "active"] /\ hit' = [hit EXCEPT ![p] = FALSE]
    /\ seen' = [seen EXCEPT ![p] = NoLease] /\ at' = [at EXCEPT ![p] = 0]
    /\ tries' = [tries EXCEPT ![p] = 0] /\ done' = [done EXCEPT ![p] = NoEffect]
    /\ UNCHANGED <<state, todo, ops, log, grant, intruded, overlapped>>

TakeLock(p) ==
    /\ At(p, "lock") /\ lock = Nobody
    /\ lock' = p /\ intruded' = FALSE /\ Proceed(p)
    /\ UNCHANGED <<db, index, lease, now, l1, meta, op, id, rec, raw, old, hit, seen, at,
                   tries, done, ops, log, grant, overlapped>>

Unlock(p) ==
    /\ At(p, "unlock")
    /\ lock' = Nobody /\ Proceed(p)
    /\ UNCHANGED <<db, index, lease, now, l1, meta, op, id, rec, raw, old, hit, seen, at,
                   tries, done, ops, log, grant, intruded, overlapped>>

Drop(p) ==
    /\ At(p, "drop")
    /\ l1' = Gone /\ Proceed(p)
    /\ UNCHANGED <<db, index, lease, now, lock, meta, op, id, rec, raw, old, hit, seen, at,
                   tries, done, ops, log, grant, intruded, overlapped>>

\* GetEngram up to its read: the L1 entry, else Pebble.  DeleteEngram goes on
\* without a record, to delete by key only.
GetEngram(p) ==
    /\ At(p, "get")
    /\ rec' = [rec EXCEPT ![p] = IF l1 # Gone THEN l1 ELSE db]
    /\ hit' = [hit EXCEPT ![p] = l1 # Gone]
    /\ CASE l1 # Gone                       -> SkipFill(p)
         [] l1 = Gone /\ db # Gone           -> Proceed(p)
         [] l1 = Gone /\ db = Gone           ->
              IF op[p] = "delete" THEN SkipFill(p) ELSE Abort(p)
    /\ UNCHANGED <<state, op, id, raw, old, seen, at, tries, done, ops, log, grant,
                   intruded, overlapped>>

\* GetMetadata up to its read: the metadata cache, else the L1 entry, else Pebble.
GetMetadata(p) ==
    /\ At(p, "meta")
    /\ rec' = [rec EXCEPT ![p] = IF meta # Gone THEN meta ELSE IF l1 # Gone THEN l1 ELSE db]
    /\ hit' = [hit EXCEPT ![p] = meta # Gone \/ l1 # Gone]
    /\ CASE meta # Gone                     -> SkipFill(p)
         [] meta = Gone /\ rec'[p] # Gone    -> Proceed(p)
         [] meta = Gone /\ rec'[p] = Gone    -> Abort(p)
    /\ UNCHANGED <<state, op, id, raw, old, seen, at, tries, done, ops, log, grant,
                   intruded, overlapped>>

\* What was read goes into the cache it was missing from.
Overlaps(p) == op[p] \notin Locked /\ (lock # Nobody \/ rec[p] # db)
Fill(p) ==
    /\ \/ At(p, "fill") /\ l1' = rec[p] /\ UNCHANGED meta
       \/ At(p, "mfill") /\ meta' = rec[p] /\ UNCHANGED l1
    /\ overlapped' = (overlapped \/ Overlaps(p)) /\ Proceed(p)
    /\ UNCHANGED <<db, index, lease, now, lock, op, id, rec, raw, old, hit, seen, at, tries,
                   done, ops, log, grant, intruded>>

\* A live lease of somebody else ends a Claim, any lease of somebody else a Release.
MayTry(p) == IF op[p] = "claim" THEN ~(Live(lease) /\ lease.owner # p)
             ELSE lease # NoLease /\ lease.owner = p
Look(p) ==
    /\ At(p, "look")
    /\ seen' = [seen EXCEPT ![p] = lease] /\ at' = [at EXCEPT ![p] = now]
    /\ tries' = [tries EXCEPT ![p] = @ + 1]
    /\ IF MayTry(p) THEN Proceed(p) ELSE Go(p, <<>>)
    /\ UNCHANGED <<state, op, id, rec, raw, old, hit, done, ops, log, grant, intruded, overlapped>>

\* Mutant of LeaseMatches: only the owner is compared.
SameOwner(p) == lease = seen[p] \/ (lease # NoLease /\ seen[p] # NoLease
                                     /\ lease.owner = seen[p].owner)

LeaseMatches(p) == lease = seen[p]

Condition(p) ==
    CASE op[p] = "finish"               -> rec[p].state = "active"
      [] op[p] = "reopen"               -> TRUE
      [] op[p] \in {"claim", "release"} -> LeaseMatches(p)
      [] op[p] = "restore"              -> rec[p].state = "soft"
Check(p) ==
    /\ At(p, "check")
    /\ IF Condition(p) THEN Proceed(p) ELSE Go(p, Cleanup(p, "check") \o Retry(p))
    /\ UNCHANGED <<state, op, id, rec, raw, old, hit, seen, at, tries, done, ops, log, grant,
                   intruded, overlapped>>

\* The read of a write in place: the state to move the index entry from, through
\* the caches, and the raw record from Pebble.
Patch(p) ==
    /\ At(p, "patch")
    /\ IF db = Gone THEN Abort(p) /\ UNCHANGED <<raw, old>>
       ELSE /\ raw' = [raw EXCEPT ![p] = db]
            /\ old' = [old EXCEPT ![p] = IF meta # Gone THEN meta.state
                                         ELSE IF l1 # Gone THEN l1.state ELSE db.state]
            /\ Proceed(p)
    /\ UNCHANGED <<state, op, id, rec, hit, seen, at, tries, done, ops, log, grant, intruded,
                   overlapped>>

Clear(p) ==
    /\ At(p, "clear")
    /\ l1' = Gone /\ meta' = Gone /\ Proceed(p)
    /\ UNCHANGED <<db, index, lease, now, lock, op, id, rec, raw, old, hit, seen, at, tries,
                   done, ops, log, grant, intruded, overlapped>>

-----------------------------------------------------------------------------
\* Writers of the whole record build on the record they read through the caches,
\* UpdateMetadata also, and the other writers in place only, on the raw one.
Writes(p) == op[p] \in {"confidence", "soft", "tags", "touch", "finish", "reopen", "patch",
                        "restore"}
Base(p)   == (IF op[p] = "patch" THEN {} ELSE {rec[p].ver})
             \cup (IF raw[p] = Gone THEN {} ELSE {raw[p].ver})
NewState(p) ==
    CASE op[p] = "soft"                -> "soft"
      [] op[p] = "finish"              -> "done"
      [] op[p] \in {"reopen", "restore"} -> "active"
      [] op[p] = "patch"               -> raw[p].state
      [] op[p] \in {"confidence", "tags", "touch"} -> rec[p].state
New(p) == [ver |-> id[p], state |-> NewState(p)]

\* Mutant of Reindex: SoftDelete leaves the old entry of the state index.
AddIndex(p) == CASE op[p] = "soft" -> index \cup {"soft"}
                 [] OTHER -> index

\* SoftDelete moves the entry from the state it read, UpdateMetadata from the one
\* it re-read when that differs; the other writers leave the index alone.
Reindex(p) ==
    CASE op[p] = "soft" -> (index \ {rec[p].state}) \cup {"soft"}
      [] op[p] \in {"touch", "finish", "reopen", "restore"} /\ old[p] # NewState(p) ->
           (index \ {old[p]}) \cup {NewState(p)}
      [] OTHER -> index

Did(p, k, v) == done' = [done EXCEPT ![p] = [op |-> op[p], key |-> k, value |-> v]]

CommitRecord(p) ==
    /\ At(p, "commit") /\ Writes(p)
    /\ db' = New(p) /\ index' = Reindex(p) /\ Did(p, "record", New(p))
    /\ intruded' = (intruded \/ op[p] \in Unlocked)
    /\ overlapped' = (overlapped \/ op[p] \in Unlocked)
    /\ Proceed(p)
    /\ UNCHANGED <<lease, now, lock, l1, meta, op, id, rec, raw, old, hit, seen, at, tries, ops,
                   log, grant>>

CommitLease(p) ==
    /\ At(p, "commit") /\ op[p] \in {"claim", "release"}
    /\ lease' = IF op[p] = "claim" THEN [owner |-> p, beat |-> at[p]] ELSE NoLease
    /\ Did(p, "lease", lease')
    /\ grant' = [grant EXCEPT ![p] = lease']
    /\ Proceed(p)
    /\ UNCHANGED <<db, index, now, lock, l1, meta, op, id, rec, raw, old, hit, seen, at, tries,
                   ops, log, intruded, overlapped>>

CommitDelete(p) ==
    /\ At(p, "commit") /\ op[p] = "delete"
    /\ db' = Gone /\ lease' = NoLease /\ Did(p, "all", Gone)
    /\ index' = IF rec[p] = Gone THEN index ELSE index \ {rec[p].state}
    /\ grant' = [q \in Proc |-> NoLease]
    /\ Proceed(p)
    /\ UNCHANGED <<now, lock, l1, meta, op, id, rec, raw, old, hit, seen, at, tries, ops, log,
                   intruded, overlapped>>

\* batch.Commit fails and nothing was written.
CommitFails(p) ==
    /\ At(p, "commit")
    /\ Abort(p)
    /\ UNCHANGED <<state, op, id, rec, raw, old, hit, seen, at, tries, done, ops, log, grant,
                   intruded, overlapped>>

\* The record just committed is cached, and the metadata entry dropped.
Publish(p) ==
    /\ At(p, "publish")
    /\ l1' = New(p) /\ meta' = Gone /\ Proceed(p)
    /\ UNCHANGED <<db, index, lease, now, lock, op, id, rec, raw, old, hit, seen, at, tries,
                   done, ops, log, grant, intruded, overlapped>>

\* replicateBatch.
ReplicateBatch(p) ==
    /\ At(p, "append")
    /\ log' = Append(log, done[p]) /\ Proceed(p)
    /\ UNCHANGED <<state, op, id, rec, raw, old, hit, seen, at, tries, done, ops, grant,
                   intruded, overlapped>>

\* Either cache may lose the entry to its size limit.
Evict ==
    /\ \/ l1 # Gone /\ l1' = Gone /\ UNCHANGED meta
       \/ meta # Gone /\ meta' = Gone /\ UNCHANGED l1
    /\ UNCHANGED <<db, index, lease, now, lock, local, ops, log, grant, intruded, overlapped>>

Tick ==
    /\ now < MaxNow /\ now' = now + 1
    /\ UNCHANGED <<db, index, lease, lock, l1, meta, local, ops, log, grant, intruded, overlapped>>

Access(p) ==
    \/ TakeLock(p) \/ Unlock(p) \/ Drop(p) \/ GetEngram(p) \/ GetMetadata(p) \/ Fill(p)
    \/ Look(p) \/ Check(p) \/ Patch(p) \/ Clear(p) \/ CommitRecord(p) \/ CommitLease(p)
    \/ CommitDelete(p) \/ CommitFails(p) \/ Publish(p) \/ ReplicateBatch(p) \/ Return(p)

Next ==
    \/ \E p \in Proc : Access(p) \/ \E o \in Op : Start(p, o)
    \/ Evict \/ Tick

Spec == Init /\ [][Next]_vars

-----------------------------------------------------------------------------
Idle == \A p \in Proc : op[p] = "none"

\* No two claimants hold the engram by their answers: a claim that was granted and
\* not released stays the lease on disk until its TTL has run out or the engram is
\* deleted, whatever claims, reclaims and releases race with it (Claim, Release:
\* "a live foreign lease is never overwritten").
GrantIsLease == \A p \in Proc : Live(grant[p]) => lease = grant[p]

\* Once a write has read the engram from Pebble under its stripe lock, it replaces
\* exactly the version it read, unless a writer without the lock came in between.
LockedReadsAreFresh ==
    [][\A p \in Proc :
          CommitRecord(p) /\ op[p] \in Locked /\ ~hit[p] /\ ~intruded => Base(p) = {db.ver}]_vars

\* As long as no writer without the lock has committed and no reader's cache fill
\* has overlapped a write, no write is lost, and none brings a deleted engram
\* back, whatever the caches held (STO-2).
NoLostUpdate ==
    [][\A p \in Proc : CommitRecord(p) /\ ~overlapped' => db # Gone /\ Base(p) = {db.ver}]_vars

\* Under the same condition the state index lists the engram under its state
\* and no other (STO-3).
IndexExact == ~overlapped => index = IF db = Gone THEN {} ELSE {db.state}

\* At rest, a cache that no overlap has spoilt serves what Pebble holds; but the
\* metadata cache may outlive a hard delete.
CacheCoherent ==
    Idle /\ ~overlapped => l1 \in {Gone, db} /\ (db # Gone => meta \in {Gone, db})

\* What a follower holds that has applied the log.
Entries(k) == {i \in 1 .. Len(log) : log[i].key \in {k, "all"}}
Last(S)    == CHOOSE i \in S : \A j \in S : j <= i
ReplayedRecord == IF Entries("record") = {} THEN [ver |-> 0, state |-> "active"]
                  ELSE log[Last(Entries("record"))].value
ReplayedLease  == IF Entries("lease") = {} \/ log[Last(Entries("lease"))].key = "all"
                  THEN NoLease ELSE log[Last(Entries("lease"))].value

\* Batches appended under the stripe lock reach the log in the order of their
\* commits, so a follower that has applied it holds what this node holds, unless
\* one was appended after its lock was released (UpdateConfidence, DeleteEngram)
\* or had none.
FollowerAgrees ==
    Idle /\ (\A i \in 1 .. Len(log) : log[i].op \notin {"confidence", "delete"} \cup Unlocked)
      => ReplayedRecord = db /\ ReplayedLease = lease

\* Whoever holds the stripe lock is still going to release it, on every early
\* return and failed commit as well; the mutex is not reentrant, so a return
\* without it would stop every later writer of the engram for ever.
LockWillBeReleased == lock # Nobody => \E i \in 1 .. Len(todo[lock]) : todo[lock][i] = "unlock"

\* CompareAndSet "closes the lifecycle-state TOCTOU" (lease.go:150): it applies
\* only to an engram whose state is the one it was told to expect.
AppliedAsExpected ==
    [][\A p \in Proc : CommitRecord(p) /\ op[p] = "finish" => db # Gone /\ db.state = "active"]_vars
=============================================================================
