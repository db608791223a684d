--------------------------- MODULE EngramStoreProofs ---------------------------
(***************************************************************************)
(* Proofs about EngramStore, for any set of callers and operations and     *)
(* any bounds.                                                             *)
(*                                                                         *)
(* What a caller still has to do is the tail of one program; Regular says  *)
(* which accesses such a tail may hold, Left is the table of their places. *)
(* Control ties the lock, the local variables and the effect recorded for  *)
(* the current attempt to that tail.  On it rest three invariants about    *)
(* the data: who is entitled to a lease (Leases), which process may be     *)
(* acting on an old copy (FreshRead, Coherent), and what the log lacks     *)
(* (Logged).                                                               *)
(***************************************************************************)
EXTENDS EngramStore, SequenceTheorems, TLAPS

USE EngramAssumption

-----------------------------------------------------------------------------
(* Programs *)

All      == Locked \cup Unlocked \cup Reading
Leasing  == {"claim", "release"}
Dropping == {"confidence", "soft", "tags", "touch"}
Patching == {"touch", "finish", "reopen", "patch", "restore"}

\* The accesses an operation has left when x is its next one; 0 if it makes no x.
Left == [
    look    |-> [confidence |-> 0, soft |-> 0, tags |-> 0, touch |-> 0, finish |-> 0, reopen |-> 0,
                claim |-> 8, release |-> 8, delete |-> 0, patch |-> 0, restore |-> 0, read |-> 0, scan |-> 0],
    lock    |-> [confidence |-> 8, soft |-> 8, tags |-> 9, touch |-> 9, finish |-> 9, reopen |-> 9,
                claim |-> 7, release |-> 7, delete |-> 7, patch |-> 0, restore |-> 0, read |-> 0, scan |-> 0],
    drop    |-> [confidence |-> 7, soft |-> 7, tags |-> 8, touch |-> 8, finish |-> 0, reopen |-> 0,
                claim |-> 0, release |-> 0, delete |-> 1, patch |-> 0, restore |-> 0, read |-> 0, scan |-> 0],
    get     |-> [confidence |-> 6, soft |-> 6, tags |-> 7, touch |-> 7, finish |-> 0, reopen |-> 0,
                claim |-> 0, release |-> 0, delete |-> 6, patch |-> 0, restore |-> 7, read |-> 2, scan |-> 0],
    fill    |-> [confidence |-> 5, soft |-> 5, tags |-> 6, touch |-> 6, finish |-> 0, reopen |-> 0,
                claim |-> 0, release |-> 0, delete |-> 5, patch |-> 0, restore |-> 6, read |-> 1, scan |-> 0],
    meta    |-> [confidence |-> 0, soft |-> 0, tags |-> 0, touch |-> 0, finish |-> 8, reopen |-> 8,
                claim |-> 6, release |-> 6, delete |-> 0, patch |-> 0, restore |-> 0, read |-> 0, scan |-> 2],
    mfill   |-> [confidence |-> 0, soft |-> 0, tags |-> 0, touch |-> 0, finish |-> 7, reopen |-> 7,
                claim |-> 5, release |-> 5, delete |-> 0, patch |-> 0, restore |-> 0, read |-> 0, scan |-> 1],
    check   |-> [confidence |-> 0, soft |-> 0, tags |-> 0, touch |-> 0, finish |-> 6, reopen |-> 6,
                claim |-> 4, release |-> 4, delete |-> 0, patch |-> 0, restore |-> 5, read |-> 0, scan |-> 0],
    patch   |-> [confidence |-> 0, soft |-> 0, tags |-> 0, touch |-> 5, finish |-> 5, reopen |-> 5,
                claim |-> 0, release |-> 0, delete |-> 0, patch |-> 4, restore |-> 4, read |-> 0, scan |-> 0],
    clear   |-> [confidence |-> 0, soft |-> 0, tags |-> 5, touch |-> 4, finish |-> 4, reopen |-> 4,
                claim |-> 0, release |-> 0, delete |-> 0, patch |-> 3, restore |-> 3, read |-> 0, scan |-> 0],
    commit  |-> [confidence |-> 4, soft |-> 4, tags |-> 4, touch |-> 3, finish |-> 3, reopen |-> 3,
                claim |-> 3, release |-> 3, delete |-> 4, patch |-> 2, restore |-> 2, read |-> 0, scan |-> 0],
    publish |-> [confidence |-> 3, soft |-> 2, tags |-> 3, touch |-> 0, finish |-> 0, reopen |-> 0,
                claim |-> 0, release |-> 0, delete |-> 0, patch |-> 0, restore |-> 0, read |-> 0, scan |-> 0],
    append  |-> [confidence |-> 1, soft |-> 3, tags |-> 2, touch |-> 2, finish |-> 2, reopen |-> 2,
                claim |-> 2, release |-> 2, delete |-> 2, patch |-> 1, restore |-> 1, read |-> 0, scan |-> 0],
    unlock  |-> [confidence |-> 2, soft |-> 1, tags |-> 1, touch |-> 1, finish |-> 1, reopen |-> 1,
                claim |-> 1, release |-> 1, delete |-> 3, patch |-> 0, restore |-> 0, read |-> 0, scan |-> 0]]

\* s is an end of the program of o.
Regular(o, s) ==
    /\ s \in Seq(Step) /\ Len(s) \in 0 .. 9
    /\ \A i \in 1 .. Len(s) : Left[s[i]][o] = Len(s) + 1 - i
    /\ \A x \in Step : Left[x][o] \in 1 .. Len(s) => s[Len(s) + 1 - Left[x][o]] = x

LEMMA TailIsRegular ==
    ASSUME NEW o, NEW s, Regular(o, s), s # <<>>
    PROVE  /\ Head(s) \in Step /\ Left[Head(s)][o] = Len(s) /\ Len(s) \in 1 .. 9
           /\ Regular(o, Tail(s)) /\ Len(Tail(s)) = Len(s) - 1
           /\ \A x \in Step : Left[x][o] = Len(s) => x = Head(s)
  <1>1. s \in Seq(Step) /\ Len(s) \in 0 .. 9
    BY DEF Regular
  <1>2. /\ Head(s) = s[1] /\ Tail(s) \in Seq(Step) /\ Len(s) \in Nat \ {0}
        /\ Len(Tail(s)) = Len(s) - 1
        /\ \A i \in 1 .. Len(s) - 1 : Tail(s)[i] = s[i + 1]
        /\ \A i \in 1 .. Len(s) : s[i] \in Step
    BY <1>1
  <1>3. Left[Head(s)][o] = Len(s) /\ Head(s) \in Step
    BY <1>2 DEF Regular
  <1>4. ASSUME NEW i \in 1 .. Len(Tail(s))
        PROVE  Left[Tail(s)[i]][o] = Len(Tail(s)) + 1 - i
    <2>1. i + 1 \in 1 .. Len(s) /\ Tail(s)[i] = s[i + 1]
      BY <1>2
    <2>2. Left[s[i + 1]][o] = Len(s) + 1 - (i + 1)
      BY <2>1 DEF Regular
    <2> QED
      BY <1>2, <2>1, <2>2
  <1>5. ASSUME NEW x \in Step, Left[x][o] \in 1 .. Len(Tail(s))
        PROVE  Tail(s)[Len(Tail(s)) + 1 - Left[x][o]] = x
    <2>1. Left[x][o] \in 1 .. Len(s)
      BY <1>2, <1>5
    <2>2. s[Len(s) + 1 - Left[x][o]] = x
      BY <2>1 DEF Regular
    <2> QED
      BY <1>2, <1>5, <2>2
  <1>6. ASSUME NEW x \in Step, Left[x][o] = Len(s) PROVE x = Head(s)
    <2>1. s[Len(s) + 1 - Left[x][o]] = x
      BY <1>2, <1>6 DEF Regular
    <2> QED
      BY <1>2, <1>6, <2>1
  <1>7. Len(s) \in 1 .. 9 /\ Len(Tail(s)) \in 0 .. 9
    <2>1. Len(s) \in 1 .. 9
      BY <1>1
    <2>2. \A k \in 1 .. 9 : k - 1 \in 0 .. 9
      OBVIOUS
    <2> QED
      BY <1>2, <2>1, <2>2, Zenon
  <1>8. Regular(o, Tail(s))
    <2>1. \A i \in 1 .. Len(Tail(s)) : Left[Tail(s)[i]][o] = Len(Tail(s)) + 1 - i
      BY <1>4
    <2>2. \A x \in Step : Left[x][o] \in 1 .. Len(Tail(s)) =>
                              Tail(s)[Len(Tail(s)) + 1 - Left[x][o]] = x
      BY <1>5
    <2>3. Tail(s) \in Seq(Step)
      BY <1>2
    <2> QED
      BY <1>7, <2>1, <2>2, <2>3, Zenon DEF Regular
  <1> QED
    BY <1>2, <1>3, <1>6, <1>7, <1>8

LEMMA EmptyIsRegular ==
    ASSUME NEW o PROVE Regular(o, <<>>) /\ Len(<<>>) = 0
  BY DEF Regular

LEMMA ProgramIsRegular ==
    ASSUME NEW o \in All
    PROVE  /\ Regular(o, Program(o)) /\ Program(o) # <<>>
           /\ o \in Locked => Left.lock[o] \in 1 .. Len(Program(o))
           /\ o \notin Reading => Left.commit[o] \in 1 .. Len(Program(o))
           /\ o \notin Leasing \cup {"patch"} =>
                Left.get[o] \in 1 .. Len(Program(o)) \/ Left.meta[o] \in 1 .. Len(Program(o))
           /\ o \in Patching => Left.patch[o] \in 1 .. Len(Program(o))
           /\ Left.fill[o] \in 1 .. 9 => Left.get[o] \in 1 .. Len(Program(o))
  <1>1. CASE o = "confidence"
    BY <1>1 DEF Regular, Program, ConfidenceProgram, Left, Step, Locked, Reading, Leasing, Patching
  <1>2. CASE o = "soft"
    BY <1>2 DEF Regular, Program, SoftProgram, Left, Step, Locked, Reading, Leasing, Patching
  <1>3. CASE o = "tags"
    BY <1>3 DEF Regular, Program, TagsProgram, Left, Step, Locked, Reading, Leasing, Patching
  <1>4. CASE o = "touch"
    BY <1>4 DEF Regular, Program, TouchProgram, Left, Step, Locked, Reading, Leasing, Patching
  <1>5. CASE o = "finish"
    BY <1>5 DEF Regular, Program, CasProgram, Left, Step, Locked, Reading, Leasing, Patching
  <1>6. CASE o = "reopen"
    BY <1>6 DEF Regular, Program, CasProgram, Left, Step, Locked, Reading, Leasing, Patching
  <1>7. CASE o = "claim"
    BY <1>7 DEF Regular, Program, LeaseProgram, Left, Step, Locked, Reading, Leasing, Patching
  <1>8. CASE o = "release"
    BY <1>8 DEF Regular, Program, LeaseProgram, Left, Step, Locked, Reading, Leasing, Patching
  <1>9. CASE o = "delete"
    BY <1>9 DEF Regular, Program, DeleteProgram, Left, Step, Locked, Reading, Leasing, Patching
  <1>10. CASE o = "patch"
    BY <1>10 DEF Regular, Program, PatchProgram, Left, Step, Locked, Reading, Leasing, Patching
  <1>11. CASE o = "restore"
    BY <1>11 DEF Regular, Program, RestoreProgram, Left, Step, Locked, Reading, Leasing, Patching
  <1>12. CASE o = "read"
    BY <1>12 DEF Regular, Program, Left, Step, Locked, Reading, Leasing, Patching
  <1>13. CASE o = "scan"
    BY <1>13 DEF Regular, Program, Left, Step, Locked, Reading, Leasing, Patching
  <1> QED
    BY <1>1, <1>2, <1>3, <1>4, <1>5, <1>6, <1>7, <1>8, <1>9, <1>10, <1>11, <1>12, <1>13
       DEF All, Locked, Unlocked, Reading

-----------------------------------------------------------------------------
(* The order of the accesses *)

Publishing == {"confidence", "soft", "tags"}
Clearing   == {"tags", "touch", "finish", "reopen", "patch", "restore"}
Checking   == {"finish", "reopen", "claim", "release", "restore"}
Getting    == {"confidence", "soft", "tags", "touch", "delete", "restore", "read"}
Metaing    == {"finish", "reopen", "claim", "release", "scan"}

\* o makes y after x, or y is x.
Then(x, y, o) == Left[y][o] \in 1 .. Left[x][o]

After(x, T, o) == \A y \in T : Then(x, y, o)
Never(x, T, o) == \A y \in T : ~Then(x, y, o)

\* Which operations make an access, and what comes after it in them.
LEMMA LookOrder ==
    ASSUME NEW o \in All, Left.look[o] \in 1 .. 9
    PROVE  /\ o \in Leasing
           /\ After("look", {"lock", "meta", "mfill", "check", "commit", "append", "unlock"}, o)
           /\ Never("look", {"drop", "get", "fill", "patch", "clear", "publish"}, o)
  BY DEF After, Never, Then, Left, All, Locked, Unlocked, Reading, Leasing, Dropping, Patching,
         Publishing, Clearing, Checking, Getting, Metaing

LEMMA LockOrder ==
    ASSUME NEW o \in All, Left.lock[o] \in 1 .. 9
    PROVE  /\ o \in Locked /\ After("lock", {"commit", "append", "unlock"}, o)
           /\ Never("lock", {"look"}, o) /\ (Then("lock", "drop", o) <=> o \in Getting)
           /\ (Then("lock", "get", o) <=> o \in Getting)
           /\ (Then("lock", "fill", o) <=> o \in Getting)
           /\ (Then("lock", "meta", o) <=> o \in Checking)
           /\ (Then("lock", "mfill", o) <=> o \in Checking)
           /\ (Then("lock", "check", o) <=> o \in Checking)
           /\ (Then("lock", "patch", o) <=> o \in Patching)
           /\ (Then("lock", "clear", o) <=> o \in Clearing)
           /\ (Then("lock", "publish", o) <=> o \in Publishing)
  BY SMTT(30) DEF After, Never, Then, Left, All, Locked, Unlocked, Reading, Leasing, Dropping, Patching,
         Publishing, Clearing, Checking, Getting, Metaing

LEMMA DropOrder ==
    ASSUME NEW o \in All, Left.drop[o] \in 1 .. 9
    PROVE  /\ o \in {"confidence", "soft", "tags", "touch", "delete"}
           /\ Never("drop", {"look", "lock", "meta", "mfill", "check"}, o)
           /\ (Then("drop", "get", o) <=> o \in Dropping)
           /\ (Then("drop", "fill", o) <=> o \in Dropping)
           /\ (Then("drop", "commit", o) <=> o \in Dropping)
           /\ (Then("drop", "append", o) <=> o \in Dropping)
           /\ (Then("drop", "unlock", o) <=> o \in Dropping)
           /\ (Then("drop", "patch", o) <=> o = "touch")
           /\ (Then("drop", "clear", o) <=> o \in Clearing)
           /\ (Then("drop", "publish", o) <=> o \in Publishing)
  BY SMTT(30) DEF After, Never, Then, Left, All, Locked, Unlocked, Reading, Leasing, Dropping, Patching,
         Publishing, Clearing, Checking, Getting, Metaing

LEMMA GetOrder ==
    ASSUME NEW o \in All, Left.get[o] \in 1 .. 9
    PROVE  /\ o \in Getting /\ After("get", {"fill"}, o)
           /\ Never("get", {"look", "lock", "meta", "mfill"}, o)
           /\ (Then("get", "drop", o) <=> o = "delete")
           /\ (Then("get", "check", o) <=> o = "restore")
           /\ (Then("get", "patch", o) <=> o \in Patching)
           /\ (Then("get", "clear", o) <=> o \in Clearing)
           /\ (Then("get", "commit", o) <=> o \notin Reading)
           /\ (Then("get", "append", o) <=> o \notin Reading)
           /\ (Then("get", "publish", o) <=> o \in Publishing)
           /\ (Then("get", "unlock", o) <=> o \in Locked)
           /\ Left.get[o] = Left.fill[o] + 1 /\ Left.fill[o] \in 1 .. 9
  BY SMTT(30) DEF After, Never, Then, Left, All, Locked, Unlocked, Reading, Leasing, Dropping, Patching,
         Publishing, Clearing, Checking, Getting, Metaing

LEMMA FillOrder ==
    ASSUME NEW o \in All, Left.fill[o] \in 1 .. 9
    PROVE  /\ o \in Getting /\ Never("fill", {"look", "lock", "get", "meta", "mfill"}, o)
           /\ (Then("fill", "drop", o) <=> o = "delete")
           /\ (Then("fill", "check", o) <=> o = "restore")
           /\ (Then("fill", "patch", o) <=> o \in Patching)
           /\ (Then("fill", "clear", o) <=> o \in Clearing)
           /\ (Then("fill", "commit", o) <=> o \notin Reading)
           /\ (Then("fill", "append", o) <=> o \notin Reading)
           /\ (Then("fill", "publish", o) <=> o \in Publishing)
           /\ (Then("fill", "unlock", o) <=> o \in Locked)
  BY SMTT(30) DEF After, Never, Then, Left, All, Locked, Unlocked, Reading, Leasing, Dropping, Patching,
         Publishing, Clearing, Checking, Getting, Metaing

LEMMA MetaOrder ==
    ASSUME NEW o \in All, Left.meta[o] \in 1 .. 9
    PROVE  /\ o \in Metaing /\ After("meta", {"mfill"}, o)
           /\ Never("meta", {"look", "lock", "drop", "get", "fill", "publish"}, o)
           /\ (Then("meta", "check", o) <=> o \in Locked)
           /\ (Then("meta", "commit", o) <=> o \in Locked)
           /\ (Then("meta", "append", o) <=> o \in Locked)
           /\ (Then("meta", "unlock", o) <=> o \in Locked)
           /\ (Then("meta", "patch", o) <=> o \in Patching)
           /\ (Then("meta", "clear", o) <=> o \in Patching)
           /\ Left.meta[o] = Left.mfill[o] + 1 /\ Left.mfill[o] \in 1 .. 9
  BY SMTT(30) DEF After, Never, Then, Left, All, Locked, Unlocked, Reading, Leasing, Dropping, Patching,
         Publishing, Clearing, Checking, Getting, Metaing

LEMMA MfillOrder ==
    ASSUME NEW o \in All, Left.mfill[o] \in 1 .. 9
    PROVE  /\ o \in Metaing
           /\ Never("mfill", {"look", "lock", "drop", "get", "fill", "meta", "publish"}, o)
           /\ (Then("mfill", "check", o) <=> o \in Locked)
           /\ (Then("mfill", "commit", o) <=> o \in Locked)
           /\ (Then("mfill", "append", o) <=> o \in Locked)
           /\ (Then("mfill", "unlock", o) <=> o \in Locked)
           /\ (Then("mfill", "patch", o) <=> o \in Patching)
           /\ (Then("mfill", "clear", o) <=> o \in Patching)
  BY DEF After, Never, Then, Left, All, Locked, Unlocked, Reading, Leasing, Dropping, Patching,
         Publishing, Clearing, Checking, Getting, Metaing

LEMMA CheckOrder ==
    ASSUME NEW o \in All, Left.check[o] \in 1 .. 9
    PROVE  /\ o \in Checking /\ After("check", {"commit", "append"}, o)
           /\ Never("check", {"look", "lock", "drop", "get", "fill", "meta", "mfill", "publish"}, o)
           /\ (Then("check", "patch", o) <=> o \in Patching)
           /\ (Then("check", "clear", o) <=> o \in Patching)
           /\ (Then("check", "unlock", o) <=> o \in Locked)
  BY DEF After, Never, Then, Left, All, Locked, Unlocked, Reading, Leasing, Dropping, Patching,
         Publishing, Clearing, Checking, Getting, Metaing

LEMMA PatchOrder ==
    ASSUME NEW o \in All, Left.patch[o] \in 1 .. 9
    PROVE  /\ o \in Patching /\ After("patch", {"clear", "commit", "append"}, o)
           /\ Never("patch", {"look", "lock", "drop", "get", "fill", "meta", "mfill", "check", "publish"}, o)
           /\ (Then("patch", "unlock", o) <=> o \in Locked)
  BY DEF After, Never, Then, Left, All, Locked, Unlocked, Reading, Leasing, Dropping, Patching,
         Publishing, Clearing, Checking, Getting, Metaing

LEMMA ClearOrder ==
    ASSUME NEW o \in All, Left.clear[o] \in 1 .. 9
    PROVE  /\ o \in Clearing /\ After("clear", {"commit", "append"}, o)
           /\ Never("clear", {"look", "lock", "drop", "get", "fill", "meta", "mfill", "check", "patch"}, o)
           /\ (Then("clear", "publish", o) <=> o = "tags")
           /\ (Then("clear", "unlock", o) <=> o \in Locked)
  BY DEF After, Never, Then, Left, All, Locked, Unlocked, Reading, Leasing, Dropping, Patching,
         Publishing, Clearing, Checking, Getting, Metaing

LEMMA CommitOrder ==
    ASSUME NEW o \in All, Left.commit[o] \in 1 .. 9
    PROVE  /\ o \notin Reading /\ After("commit", {"append"}, o)
           /\ Never("commit", {"look", "lock", "get", "fill", "meta", "mfill", "check", "patch", "clear"}, o)
           /\ (Then("commit", "drop", o) <=> o = "delete")
           /\ (Then("commit", "publish", o) <=> o \in Publishing)
           /\ (Then("commit", "unlock", o) <=> o \in Locked)
  BY DEF After, Never, Then, Left, All, Locked, Unlocked, Reading, Leasing, Dropping, Patching,
         Publishing, Clearing, Checking, Getting, Metaing

LEMMA PublishOrder ==
    ASSUME NEW o \in All, Left.publish[o] \in 1 .. 9
    PROVE  /\ o \in Publishing /\ After("publish", {"unlock"}, o)
           /\ Never("publish", {"look", "lock", "drop", "get", "fill", "meta", "mfill", "check", "patch", "clear", "commit"}, o)
           /\ (Then("publish", "append", o) <=> o # "soft")
  BY DEF After, Never, Then, Left, All, Locked, Unlocked, Reading, Leasing, Dropping, Patching,
         Publishing, Clearing, Checking, Getting, Metaing

LEMMA AppendOrder ==
    ASSUME NEW o \in All, Left.append[o] \in 1 .. 9
    PROVE  /\ o \notin Reading
           /\ Never("append", {"look", "lock", "get", "fill", "meta", "mfill", "check", "patch", "clear", "commit"}, o)
           /\ (Then("append", "drop", o) <=> o = "delete")
           /\ (Then("append", "publish", o) <=> o = "soft")
           /\ (Then("append", "unlock", o) <=> o \in Locked \ {"confidence", "delete"})
  BY DEF After, Never, Then, Left, All, Locked, Unlocked, Reading, Leasing, Dropping, Patching,
         Publishing, Clearing, Checking, Getting, Metaing

LEMMA UnlockOrder ==
    ASSUME NEW o \in All, Left.unlock[o] \in 1 .. 9
    PROVE  /\ o \in Locked
           /\ Never("unlock", {"look", "lock", "get", "fill", "meta", "mfill", "check", "patch", "clear", "commit", "publish"}, o)
           /\ (Then("unlock", "drop", o) <=> o = "delete")
           /\ (Then("unlock", "append", o) <=> o \in {"confidence", "delete"})
  BY DEF After, Never, Then, Left, All, Locked, Unlocked, Reading, Leasing, Dropping, Patching,
         Publishing, Clearing, Checking, Getting, Metaing


-----------------------------------------------------------------------------
(* Control *)

\* p has still to make x.
Ahead(p, x) == Left[x][op[p]] \in 1 .. Len(todo[p])

Reset(p) ==
    /\ op[p] = "none" /\ todo[p] = <<>> /\ lock # p
    /\ rec[p] = Gone /\ raw[p] = Gone /\ hit[p] = FALSE /\ tries[p] = 0 /\ done[p] = NoEffect

\* The stripe lock is held from the access that takes it to the one that gives it back.
Locking(p) == lock = p <=> op[p] \in Locked /\ Ahead(p, "unlock") /\ ~Ahead(p, "lock")

\* An effect is recorded from the commit on.
Doing(p) ==
    /\ Ahead(p, "commit") => done[p] = NoEffect
    /\ op[p] \notin Reading /\ todo[p] # <<>> /\ ~Ahead(p, "commit") =>
         done[p] # NoEffect /\ done[p].op = op[p]

\* A record is read where the program says so, and writers go on with one only.
GotRec(p) ==
    /\ op[p] \notin Leasing /\ (Ahead(p, "get") \/ Ahead(p, "meta")) => rec[p] = Gone /\ ~hit[p]
    /\ Ahead(p, "fill") /\ ~Ahead(p, "get") => rec[p] # Gone
    /\ op[p] \notin Leasing \cup Reading \cup {"delete", "patch"} /\ todo[p] # <<>>
         /\ ~Ahead(p, "get") /\ ~Ahead(p, "meta") => rec[p] # Gone
GotRaw(p) ==
    /\ op[p] \notin Patching \/ Ahead(p, "patch") => raw[p] = Gone
    /\ op[p] \in Patching /\ Ahead(p, "commit") /\ ~Ahead(p, "patch") => raw[p] # Gone

Trying(p) == op[p] \in Leasing /\ Ahead(p, "look") => tries[p] < CasMaxRetries

\* p is in the program of its operation, or at its end.
Running(p) ==
    /\ op[p] \in All /\ Regular(op[p], todo[p])
    /\ Locking(p) /\ Doing(p) /\ GotRec(p) /\ GotRaw(p) /\ Trying(p)

\* p returns early, with the lock.
Aborting(p) ==
    /\ op[p] \in Locked /\ lock = p /\ done[p] = NoEffect
    /\ op[p] \notin Patching => raw[p] = Gone
    /\ \/ todo[p] = <<"unlock">>
       \/ todo[p] = <<"clear", "unlock">> /\ op[p] = "tags"
       \/ /\ todo[p] = <<"unlock">> \o LeaseProgram
          /\ op[p] \in Leasing /\ tries[p] < CasMaxRetries

Control == \A p \in Proc : Reset(p) \/ Running(p) \/ Aborting(p)

\* What the control of a process reads of the state.
Same(p) ==
    /\ op'[p] = op[p] /\ todo'[p] = todo[p] /\ rec'[p] = rec[p] /\ raw'[p] = raw[p]
    /\ hit'[p] = hit[p] /\ tries'[p] = tries[p] /\ done'[p] = done[p]
    /\ (lock' = p <=> lock = p)

LEMMA OthersKeepControl ==
    ASSUME NEW p \in Proc, Same(p)
    PROVE  /\ Reset(p)' <=> Reset(p)
           /\ Running(p)' <=> Running(p)
           /\ Aborting(p)' <=> Aborting(p)
           /\ \A x : Ahead(p, x)' <=> Ahead(p, x)
  <1>1. Regular(op[p], todo[p])' <=> Regular(op[p], todo[p])
    BY DEF Same, Regular
  <1>2. \A x : Ahead(p, x)' <=> Ahead(p, x)
    BY DEF Same, Ahead
  <1>3. Running(p)' <=> Running(p)
    BY <1>1, <1>2 DEF Same, Running, Locking, Doing, GotRec, GotRaw, Trying
  <1> QED
    BY <1>2, <1>3 DEF Same, Reset, Aborting

LEMMA AtIsRunning ==
    ASSUME Control, NEW p \in Proc, NEW x, At(p, x), x \notin {"unlock", "clear"}
    PROVE  Running(p) /\ Ahead(p, x)
  <1>1. todo[p] # <<>> /\ Head(todo[p]) = x
    BY DEF At
  <1>2. Running(p)
    BY <1>1 DEF Control, Reset, Aborting, LeaseProgram
  <1>3. Regular(op[p], todo[p])
    BY <1>2 DEF Running
  <1>4. Left[x][op[p]] = Len(todo[p]) /\ Len(todo[p]) \in 1 .. 9
    BY <1>1, <1>3, TailIsRegular
  <1>5. \A k \in 1 .. 9 : k \in 1 .. k
    OBVIOUS
  <1> QED
    BY <1>2, <1>4, <1>5, Zenon DEF Ahead

\* What is ahead of p at x comes after x in its program.
LEMMA NextIsFirst ==
    ASSUME NEW p \in Proc, Running(p), NEW x, At(p, x)
    PROVE  /\ op[p] \in All /\ x \in Step /\ Left[x][op[p]] \in 1 .. 9 /\ Ahead(p, x)
           /\ \A y \in Step : Ahead(p, y) <=> Then(x, y, op[p])
  <1>1. todo[p] # <<>> /\ Head(todo[p]) = x /\ Regular(op[p], todo[p]) /\ op[p] \in All
    BY DEF At, Running
  <1>2. x \in Step /\ Left[x][op[p]] = Len(todo[p]) /\ Len(todo[p]) \in 1 .. 9
    BY <1>1, TailIsRegular
  <1>3. \A k \in 1 .. 9 : k \in 1 .. k
    OBVIOUS
  <1> QED
    BY <1>1, <1>2, <1>3, Zenon DEF Ahead, Then

LEMMA Advance ==
    ASSUME TypeOK, NEW p \in Proc, Running(p), NEW x, At(p, x), op' = op, Proceed(p)
    PROVE  /\ Regular(op[p], todo[p])' /\ todo' \in [Proc -> Seq(Step)] /\ x \in Step
           /\ todo' = [todo EXCEPT ![p] = Tail(todo[p])]
           /\ \A y \in Step : Ahead(p, y)' <=> Ahead(p, y) /\ y # x
  <1>1. todo[p] # <<>> /\ Head(todo[p]) = x /\ Regular(op[p], todo[p])
    BY DEF At, Running
  <1>2. todo' = [todo EXCEPT ![p] = Tail(todo[p])]
    BY DEF Proceed, Go
  <1>3. /\ x \in Step /\ Left[x][op[p]] = Len(todo[p]) /\ Len(todo[p]) \in 1 .. 9
        /\ Regular(op[p], Tail(todo[p])) /\ Len(Tail(todo[p])) = Len(todo[p]) - 1
        /\ \A y \in Step : Left[y][op[p]] = Len(todo[p]) => y = x
    BY <1>1, TailIsRegular
  <1>4. todo'[p] = Tail(todo[p]) /\ Tail(todo[p]) \in Seq(Step)
    BY <1>2, <1>3 DEF TypeOK, Regular
  <1>5. todo' \in [Proc -> Seq(Step)]
    BY <1>2, <1>4 DEF TypeOK
  <1>6. Regular(op[p], todo[p])'
    BY <1>3, <1>4
  <1>7. ASSUME NEW y \in Step PROVE Ahead(p, y)' <=> Ahead(p, y) /\ y # x
    <2>1. \A k : k \in 1 .. Len(todo[p]) - 1 <=> k \in 1 .. Len(todo[p]) /\ k # Len(todo[p])
      BY <1>3
    <2>2. Ahead(p, y)' <=> Left[y][op[p]] \in 1 .. Len(todo[p]) - 1
      BY <1>3, <1>4 DEF Ahead
    <2> QED
      BY <1>3, <2>1, <2>2 DEF Ahead
  <1> QED
    BY <1>2, <1>3, <1>5, <1>6, <1>7

\* A cache hit passes over the fill as well.
LEMMA AdvanceTwo ==
    ASSUME TypeOK, NEW p \in Proc, Running(p), NEW x, At(p, x), NEW z \in Step,
           Left[z][op[p]] \in 1 .. 9, Left[x][op[p]] = Left[z][op[p]] + 1, op' = op, SkipFill(p)
    PROVE  /\ Regular(op[p], todo[p])' /\ todo' \in [Proc -> Seq(Step)] /\ x \in Step
           /\ todo' = [todo EXCEPT ![p] = Tail(Tail(todo[p]))]
           /\ \A y \in Step : Ahead(p, y)' <=> Ahead(p, y) /\ y \notin {x, z}
  <1>1. todo[p] # <<>> /\ Head(todo[p]) = x /\ Regular(op[p], todo[p])
    BY DEF At, Running
  <1>2. todo' = [todo EXCEPT ![p] = Tail(Tail(todo[p]))]
    BY DEF SkipFill, Go
  <1> DEFINE s == Tail(todo[p])
  <1>3. /\ x \in Step /\ Left[x][op[p]] = Len(todo[p]) /\ Len(todo[p]) \in 1 .. 9
        /\ Regular(op[p], s) /\ Len(s) = Len(todo[p]) - 1
        /\ \A y \in Step : Left[y][op[p]] = Len(todo[p]) => y = x
    BY ZenonT(30), <1>1, TailIsRegular
  <1>4. Len(s) = Left[z][op[p]] /\ Len(s) \in 1 .. 9 /\ s # <<>>
    <2> HIDE DEF s
    <2>1. \A k \in 1 .. 9 : (k + 1) - 1 = k
      OBVIOUS
    <2>2. Len(s) = Left[z][op[p]] /\ Len(s) \in 1 .. 9
      BY <1>3, <2>1, Zenon
    <2>3. Len(<<>>) = 0 /\ 0 \notin 1 .. 9
      OBVIOUS
    <2> QED
      BY <2>2, <2>3, Zenon
  <1>5. /\ Regular(op[p], Tail(s)) /\ Len(Tail(s)) = Len(s) - 1
        /\ \A y \in Step : Left[y][op[p]] = Len(s) => y = Head(s)
    <2> HIDE DEF s
    <2> QED
      BY <1>3, <1>4, TailIsRegular
  <1>6. todo'[p] = Tail(s) /\ Tail(s) \in Seq(Step)
    BY <1>2, <1>5 DEF TypeOK, Regular
  <1>7. todo' \in [Proc -> Seq(Step)]
    BY <1>2, <1>6 DEF TypeOK
  <1>8. Regular(op[p], todo[p])'
    BY <1>5, <1>6
  <1>9. ASSUME NEW y \in Step PROVE Ahead(p, y)' <=> Ahead(p, y) /\ y \notin {x, z}
    <2> HIDE DEF s
    <2>1. \A k, m \in 1 .. 9 : k = m + 1 => \A i : i \in 1 .. m - 1 <=> i \in 1 .. k /\ i # k /\ i # m
      OBVIOUS
    <2>2. \A i : i \in 1 .. Len(s) - 1
                   <=> i \in 1 .. Len(todo[p]) /\ i # Len(todo[p]) /\ i # Len(s)
      BY <1>3, <1>4, <2>1
    <2>3. Ahead(p, y)' <=> Left[y][op[p]] \in 1 .. Len(s) - 1
      BY <1>5, <1>6 DEF Ahead
    <2>4. Left[y][op[p]] = Len(s) <=> y = z
      BY <1>4, <1>5
    <2> QED
      BY <1>3, <2>2, <2>3, <2>4 DEF Ahead
  <1> QED
    BY <1>2, <1>3, <1>7, <1>8, <1>9

LEMMA StepKeepsControl ==
    ASSUME Control, NEW p \in Proc, Reset(p)' \/ Running(p)' \/ Aborting(p)',
           \A q \in Proc \ {p} : Same(q)
    PROVE  Control'
  <1>1. ASSUME NEW q \in Proc, q # p PROVE Reset(q)' \/ Running(q)' \/ Aborting(q)'
    BY <1>1, OthersKeepControl DEF Control
  <1> QED
    BY <1>1 DEF Control

\* The place of p before and after a step that makes x.
LEMMA Passing ==
    ASSUME TypeOK, NEW p \in Proc, Running(p), NEW x, At(p, x), op' = op, Proceed(p)
    PROVE  /\ op[p] \in All /\ x \in Step /\ Left[x][op[p]] \in 1 .. 9 /\ Ahead(p, x)
           /\ \A y \in Step : Ahead(p, y) <=> Then(x, y, op[p])
           /\ Regular(op[p], todo[p])' /\ todo' \in [Proc -> Seq(Step)]
           /\ todo' = [todo EXCEPT ![p] = Tail(todo[p])] /\ todo[p] # <<>>
           /\ \A y \in Step : Ahead(p, y)' <=> Ahead(p, y) /\ y # x
  <1>1. todo[p] # <<>>
    BY DEF At
  <1> QED
    BY <1>1, NextIsFirst, Advance

\* An early return.
LEMMA Returning ==
    ASSUME TypeOK, NEW p \in Proc, Running(p), op' = op, lock' = lock, done' = done, raw' = raw,
           \/ op[p] \in Locked /\ lock = p /\ done[p] = NoEffect
                /\ todo' = [todo EXCEPT ![p] = <<"unlock">>]
           \/ op[p] \notin Locked /\ todo' = [todo EXCEPT ![p] = <<>>]
    PROVE  (Running(p) \/ Aborting(p))'
  <1>1. CASE op[p] \in Locked
    BY <1>1 DEF Aborting, Running, GotRaw, TypeOK
  <1>2. CASE op[p] \notin Locked
    <2>1. todo'[p] = <<>> /\ Regular(op[p], todo[p])'
      BY <1>2, EmptyIsRegular DEF TypeOK
    <2>2. \A y : ~Ahead(p, y)'
      <3>1. \A k : k \notin 1 .. 0
        OBVIOUS
      <3> QED
        BY <2>1, <3>1, EmptyIsRegular, Zenon DEF Ahead
    <2> QED
      BY <1>2, <2>1, <2>2 DEF Running, Locking, Doing, GotRec, GotRaw, Trying, Step
  <1> QED
    BY <1>1, <1>2

-----------------------------------------------------------------------------
(* Every step keeps the control *)

LEMMA TakeLockControl == ASSUME TypeOK, Control, NEW p \in Proc, TakeLock(p) PROVE Control'
  <1>1. Running(p) /\ At(p, "lock") /\ op' = op /\ Proceed(p)
    BY AtIsRunning DEF TakeLock
  <1>2. Running(p)'
    BY <1>1, Passing, LockOrder
       DEF TakeLock, Running, Locking, Doing, GotRec, GotRaw, Trying, After, Never, Step
  <1>3. \A q \in Proc \ {p} : Same(q)
    BY <1>1 DEF TakeLock, Proceed, Go, TypeOK, Same
  <1> QED
    BY <1>2, <1>3, StepKeepsControl

LEMMA DropControl == ASSUME TypeOK, Control, NEW p \in Proc, Drop(p) PROVE Control'
  <1>1. Running(p) /\ At(p, "drop") /\ op' = op /\ Proceed(p)
    BY AtIsRunning DEF Drop
  <1>2. Running(p)'
    BY <1>1, Passing, DropOrder
       DEF Drop, Running, Locking, Doing, GotRec, GotRaw, Trying, After, Never, Step, Dropping
  <1>3. \A q \in Proc \ {p} : Same(q)
    BY <1>1 DEF Drop, Proceed, Go, TypeOK, Same
  <1> QED
    BY <1>2, <1>3, StepKeepsControl

LEMMA FillControl == ASSUME TypeOK, Control, NEW p \in Proc, Fill(p) PROVE Control'
  <1>1. CASE At(p, "fill")
    <2>1. Running(p) /\ op' = op /\ Proceed(p)
      BY <1>1, AtIsRunning DEF Fill
    <2>2. Running(p)'
      BY <1>1, <2>1, Passing, FillOrder
         DEF Fill, Running, Locking, Doing, GotRec, GotRaw, Trying, After, Never, Step
    <2>3. \A q \in Proc \ {p} : Same(q)
      BY <1>1, <2>1 DEF Fill, Proceed, Go, TypeOK, Same
    <2> QED
      BY <2>2, <2>3, StepKeepsControl
  <1>2. CASE At(p, "mfill")
    <2>1. Running(p) /\ op' = op /\ Proceed(p)
      BY <1>2, AtIsRunning DEF Fill
    <2>2. Running(p)'
      BY <1>2, <2>1, Passing, MfillOrder
         DEF Fill, Running, Locking, Doing, GotRec, GotRaw, Trying, After, Never, Step
    <2>3. \A q \in Proc \ {p} : Same(q)
      BY <1>2, <2>1 DEF Fill, Proceed, Go, TypeOK, Same
    <2> QED
      BY <2>2, <2>3, StepKeepsControl
  <1> QED
    BY <1>1, <1>2 DEF Fill

LEMMA CommitRecordControl == ASSUME TypeOK, Control, NEW p \in Proc, CommitRecord(p) PROVE Control'
  <1>1. Running(p) /\ At(p, "commit") /\ op' = op /\ Proceed(p)
    BY AtIsRunning DEF CommitRecord
  <1>2. done'[p] = [op |-> op[p], key |-> "record", value |-> New(p)] /\ op[p] # "none"
    BY <1>1, Passing DEF CommitRecord, Did, TypeOK, All, Locked, Unlocked, Reading
  <1>3. Running(p)'
    BY <1>1, <1>2, Passing, CommitOrder
       DEF CommitRecord, Running, Locking, Doing, GotRec, GotRaw, Trying, After, Never, Step, NoEffect
  <1>4. \A q \in Proc \ {p} : Same(q)
    BY <1>1 DEF CommitRecord, Did, Proceed, Go, TypeOK, Same
  <1> QED
    BY <1>3, <1>4, StepKeepsControl

LEMMA CommitLeaseControl == ASSUME TypeOK, Control, NEW p \in Proc, CommitLease(p) PROVE Control'
  <1>1. Running(p) /\ At(p, "commit") /\ op' = op /\ Proceed(p)
    BY AtIsRunning DEF CommitLease
  <1>2. done'[p] = [op |-> op[p], key |-> "lease", value |-> lease'] /\ op[p] # "none"
    BY <1>1, Passing DEF CommitLease, Did, TypeOK, All, Locked, Unlocked, Reading
  <1>3. Running(p)'
    BY <1>1, <1>2, Passing, CommitOrder
       DEF CommitLease, Running, Locking, Doing, GotRec, GotRaw, Trying, After, Never, Step, NoEffect
  <1>4. \A q \in Proc \ {p} : Same(q)
    BY <1>1 DEF CommitLease, Did, Proceed, Go, TypeOK, Same
  <1> QED
    BY <1>3, <1>4, StepKeepsControl

LEMMA CommitDeleteControl == ASSUME TypeOK, Control, NEW p \in Proc, CommitDelete(p) PROVE Control'
  <1>1. Running(p) /\ At(p, "commit") /\ op' = op /\ Proceed(p)
    BY AtIsRunning DEF CommitDelete
  <1>2. done'[p] = [op |-> op[p], key |-> "all", value |-> Gone] /\ op[p] # "none"
    BY <1>1, Passing DEF CommitDelete, Did, TypeOK, All, Locked, Unlocked, Reading
  <1>3. Running(p)'
    BY <1>1, <1>2, Passing, CommitOrder
       DEF CommitDelete, Running, Locking, Doing, GotRec, GotRaw, Trying, After, Never, Step, NoEffect
  <1>4. \A q \in Proc \ {p} : Same(q)
    BY <1>1 DEF CommitDelete, Did, Proceed, Go, TypeOK, Same
  <1> QED
    BY <1>3, <1>4, StepKeepsControl

LEMMA PublishControl == ASSUME TypeOK, Control, NEW p \in Proc, Publish(p) PROVE Control'
  <1>1. Running(p) /\ At(p, "publish") /\ op' = op /\ Proceed(p)
    BY AtIsRunning DEF Publish
  <1>2. Running(p)'
    BY <1>1, Passing, PublishOrder
       DEF Publish, Running, Locking, Doing, GotRec, GotRaw, Trying, After, Never, Step
  <1>3. \A q \in Proc \ {p} : Same(q)
    BY <1>1 DEF Publish, Proceed, Go, TypeOK, Same
  <1> QED
    BY <1>2, <1>3, StepKeepsControl

LEMMA ReplicateBatchControl == ASSUME TypeOK, Control, NEW p \in Proc, ReplicateBatch(p) PROVE Control'
  <1>1. Running(p) /\ At(p, "append") /\ op' = op /\ Proceed(p)
    BY AtIsRunning DEF ReplicateBatch
  <1>2. Running(p)'
    BY <1>1, Passing, AppendOrder
       DEF ReplicateBatch, state, Running, Locking, Doing, GotRec, GotRaw, Trying, After, Never, Step
  <1>3. \A q \in Proc \ {p} : Same(q)
    BY <1>1 DEF ReplicateBatch, state, Proceed, Go, TypeOK, Same
  <1> QED
    BY <1>2, <1>3, StepKeepsControl

LEMMA GetEngramControl == ASSUME TypeOK, Control, NEW p \in Proc, GetEngram(p) PROVE Control'
  <1> DEFINE S == {"look", "lock", "get", "fill"}
  <1>1. Running(p) /\ At(p, "get") /\ op' = op
    BY AtIsRunning DEF GetEngram
  <1>2. /\ lock' = lock /\ done' = done /\ raw' = raw /\ tries' = tries
        /\ rec' = [rec EXCEPT ![p] = IF l1 # Gone THEN l1 ELSE db]
        /\ hit' = [hit EXCEPT ![p] = l1 # Gone]
    BY DEF GetEngram, state
  <1>3. /\ op[p] \in All /\ op[p] \in Getting /\ Left.fill[op[p]] \in 1 .. 9
        /\ Left.get[op[p]] = Left.fill[op[p]] + 1 /\ Left.get[op[p]] \in 1 .. 9
        /\ rec'[p] = IF l1 # Gone THEN l1 ELSE db
    BY <1>1, <1>2, NextIsFirst, GetOrder DEF TypeOK
  <1>4. CASE SkipFill(p) /\ (rec'[p] # Gone \/ op[p] = "delete")
    <2>1. /\ Regular(op[p], todo[p])' /\ todo' = [todo EXCEPT ![p] = Tail(Tail(todo[p]))]
          /\ \A y \in Step : Ahead(p, y)' <=> Ahead(p, y) /\ y \notin {"get", "fill"}
      BY <1>1, <1>3, <1>4, AdvanceTwo DEF Step
    <2>2. /\ \A y \in Step : Ahead(p, y) <=> Then("get", y, op[p])
          /\ todo[p] # <<>>
      BY <1>1, NextIsFirst DEF At
    <2>3. /\ ~Ahead(p, "look") /\ ~Ahead(p, "lock")
          /\ ~Ahead(p, "get")' /\ ~Ahead(p, "fill")' /\ ~Ahead(p, "meta")' /\ ~Ahead(p, "look")'
          /\ ~Ahead(p, "lock")' /\ (Ahead(p, "unlock")' <=> Ahead(p, "unlock"))
          /\ (Ahead(p, "commit")' <=> Ahead(p, "commit")) /\ (Ahead(p, "patch")' <=> Ahead(p, "patch"))
      BY <1>1, <1>3, <2>1, <2>2, GetOrder DEF After, Never, Step
    <2>4. (Ahead(p, "commit") <=> op[p] \notin Reading) /\ (op[p] \in Patching => Ahead(p, "patch"))
      BY <1>1, <1>3, <2>2, GetOrder DEF Step, Metaing, Locked, Reading
    <2>5. Running(p)'
      BY <1>1, <1>2, <1>3, <1>4, <2>1, <2>2, <2>3, <2>4
         DEF Running, Locking, Doing, GotRec, GotRaw, Trying
    <2>6. \A q \in Proc \ {p} : Same(q)
      BY <1>1, <1>2, <2>1 DEF TypeOK, Same
    <2> QED
      BY <2>5, <2>6, StepKeepsControl
  <1>5. CASE Proceed(p) /\ rec'[p] # Gone
    <2>1. Running(p)'
      BY <1>1, <1>2, <1>3, <1>5, Passing, GetOrder
         DEF Running, Locking, Doing, GotRec, GotRaw, Trying, After, Never, Step, Getting, Leasing
    <2>2. \A q \in Proc \ {p} : Same(q)
      BY <1>1, <1>2, <1>5 DEF Proceed, Go, TypeOK, Same
    <2> QED
      BY <2>1, <2>2, StepKeepsControl
  <1>6. CASE Abort(p) /\ op[p] # "delete"
    <2>1. Cleanup(p, "get") = IF op[p] \in Locked THEN <<"unlock">> ELSE <<>>
      BY DEF Cleanup
    <2>2. todo' = [todo EXCEPT ![p] = Cleanup(p, "get")]
      BY <1>1, <1>6 DEF Abort, Go, At
    <2>3. op[p] \in Locked => lock = p /\ done[p] = NoEffect
      BY <1>1, <1>3, NextIsFirst, GetOrder DEF Running, Locking, Doing, After, Never, Step, Locked, Reading
    <2>4. (Running(p) \/ Aborting(p))'
      BY <1>1, <1>2, <2>1, <2>2, <2>3, Returning
    <2>5. \A q \in Proc \ {p} : Same(q)
      BY <1>1, <1>2, <2>2 DEF TypeOK, Same
    <2> QED
      BY <2>4, <2>5, StepKeepsControl
  <1>7. l1 = Gone /\ db = Gone => rec'[p] = Gone
    BY <1>3
  <1> QED
    BY <1>3, <1>4, <1>5, <1>6 DEF GetEngram

LEMMA GetMetadataControl == ASSUME TypeOK, Control, NEW p \in Proc, GetMetadata(p) PROVE Control'
  <1> DEFINE r == IF meta # Gone THEN meta ELSE IF l1 # Gone THEN l1 ELSE db
  <1>1. Running(p) /\ At(p, "meta") /\ op' = op
    BY AtIsRunning DEF GetMetadata
  <1>2. /\ lock' = lock /\ done' = done /\ raw' = raw /\ tries' = tries
        /\ rec' = [rec EXCEPT ![p] = r] /\ hit' = [hit EXCEPT ![p] = meta # Gone \/ l1 # Gone]
    BY DEF GetMetadata, state
  <1>3. /\ op[p] \in All /\ op[p] \in Metaing /\ Left.mfill[op[p]] \in 1 .. 9
        /\ Left.meta[op[p]] = Left.mfill[op[p]] + 1 /\ Left.meta[op[p]] \in 1 .. 9
        /\ rec'[p] = r
    BY <1>1, <1>2, NextIsFirst, MetaOrder DEF TypeOK
  <1>4. CASE SkipFill(p) /\ rec'[p] # Gone
    <2>1. /\ Regular(op[p], todo[p])' /\ todo' = [todo EXCEPT ![p] = Tail(Tail(todo[p]))]
          /\ \A y \in Step : Ahead(p, y)' <=> Ahead(p, y) /\ y \notin {"meta", "mfill"}
      BY <1>1, <1>3, <1>4, AdvanceTwo DEF Step
    <2>2. /\ \A y \in Step : Ahead(p, y) <=> Then("meta", y, op[p])
          /\ todo[p] # <<>>
      BY <1>1, NextIsFirst DEF At
    <2>3. /\ ~Ahead(p, "look") /\ ~Ahead(p, "lock")
          /\ ~Ahead(p, "get")' /\ ~Ahead(p, "fill")' /\ ~Ahead(p, "meta")' /\ ~Ahead(p, "look")'
          /\ ~Ahead(p, "lock")' /\ (Ahead(p, "unlock")' <=> Ahead(p, "unlock"))
          /\ (Ahead(p, "commit")' <=> Ahead(p, "commit")) /\ (Ahead(p, "patch")' <=> Ahead(p, "patch"))
      BY <1>1, <1>3, <2>1, <2>2, MetaOrder DEF After, Never, Step
    <2>4. (Ahead(p, "commit") <=> op[p] \notin Reading) /\ (op[p] \in Patching => Ahead(p, "patch"))
      BY <1>1, <1>3, <2>2, MetaOrder DEF Step, Metaing, Locked, Reading
    <2>5. Running(p)'
      BY <1>1, <1>2, <1>3, <1>4, <2>1, <2>2, <2>3, <2>4
         DEF Running, Locking, Doing, GotRec, GotRaw, Trying
    <2>6. \A q \in Proc \ {p} : Same(q)
      BY <1>1, <1>2, <2>1 DEF TypeOK, Same
    <2> QED
      BY <2>5, <2>6, StepKeepsControl
  <1>5. CASE Proceed(p) /\ rec'[p] # Gone
    <2>1. Running(p)'
      BY <1>1, <1>2, <1>3, <1>5, Passing, MetaOrder
         DEF Running, Locking, Doing, GotRec, GotRaw, Trying, After, Never, Step, Metaing, Leasing,
             Locked, Reading
    <2>2. \A q \in Proc \ {p} : Same(q)
      BY <1>1, <1>2, <1>5 DEF Proceed, Go, TypeOK, Same
    <2> QED
      BY <2>1, <2>2, StepKeepsControl
  <1>6. CASE Abort(p)
    <2>1. Cleanup(p, "meta") = IF op[p] \in Locked THEN <<"unlock">> ELSE <<>>
      BY DEF Cleanup
    <2>2. todo' = [todo EXCEPT ![p] = Cleanup(p, "meta")]
      BY <1>1, <1>6 DEF Abort, Go, At
    <2>3. op[p] \in Locked => lock = p /\ done[p] = NoEffect
      BY <1>1, <1>3, NextIsFirst, MetaOrder DEF Running, Locking, Doing, After, Never, Step, Locked, Reading
    <2>4. (Running(p) \/ Aborting(p))'
      BY <1>1, <1>2, <2>1, <2>2, <2>3, Returning
    <2>5. \A q \in Proc \ {p} : Same(q)
      BY <1>1, <1>2, <2>2 DEF TypeOK, Same
    <2> QED
      BY <2>4, <2>5, StepKeepsControl
  <1> QED
    BY <1>3, <1>4, <1>5, <1>6 DEF GetMetadata

LEMMA LookControl == ASSUME TypeOK, Control, NEW p \in Proc, Look(p) PROVE Control'
  <1>1. Running(p) /\ At(p, "look") /\ op' = op
    BY AtIsRunning DEF Look
  <1>2. /\ lock' = lock /\ done' = done /\ raw' = raw /\ rec' = rec /\ hit' = hit
        /\ tries' = [tries EXCEPT ![p] = @ + 1]
    BY DEF Look, state
  <1>3. CASE Proceed(p)
    <2>1. Running(p)'
      BY <1>1, <1>2, <1>3, Passing, LookOrder
         DEF Running, Locking, Doing, GotRec, GotRaw, Trying, After, Never, Step
    <2>2. \A q \in Proc \ {p} : Same(q)
      BY <1>1, <1>2, <1>3 DEF Proceed, Go, TypeOK, Same
    <2> QED
      BY <2>1, <2>2, StepKeepsControl
  <1>4. CASE Go(p, <<>>)
    <2>1. todo' = [todo EXCEPT ![p] = <<>>] /\ todo'[p] = <<>>
      BY <1>4 DEF Go, TypeOK
    <2>2. Regular(op[p], todo[p])' /\ op[p] \in All
      BY <1>1, <2>1, EmptyIsRegular DEF Running
    <2>3. \A y : ~Ahead(p, y)'
      <3>1. \A k : k \notin 1 .. 0
        OBVIOUS
      <3> QED
        BY <2>1, <3>1, EmptyIsRegular, Zenon DEF Ahead
    <2>4. lock # p
      BY <1>1, NextIsFirst, LookOrder DEF Running, Locking, After, Never, Step
    <2>5. Running(p)'
      BY <1>1, <1>2, <2>1, <2>2, <2>3, <2>4, NextIsFirst, LookOrder
         DEF Running, Locking, Doing, GotRec, GotRaw, Trying, Step, Leasing, Patching
    <2>6. \A q \in Proc \ {p} : Same(q)
      BY <1>1, <1>2, <2>1 DEF TypeOK, Same
    <2> QED
      BY <2>5, <2>6, StepKeepsControl
  <1> QED
    BY <1>3, <1>4 DEF Look

LEMMA PatchControl == ASSUME TypeOK, Control, NEW p \in Proc, Patch(p) PROVE Control'
  <1>1. Running(p) /\ At(p, "patch") /\ op' = op
    BY AtIsRunning DEF Patch
  <1>2. lock' = lock /\ done' = done /\ rec' = rec /\ hit' = hit /\ tries' = tries
    BY DEF Patch, state
  <1>3. CASE db # Gone
    <2>1. Proceed(p) /\ raw' = [raw EXCEPT ![p] = db] /\ raw'[p] # Gone
      BY <1>3 DEF Patch, TypeOK
    <2>2. Running(p)'
      BY SMTT(30), <1>1, <1>2, <2>1, Passing, PatchOrder
         DEF Running, Locking, Doing, GotRec, GotRaw, Trying, After, Never, Step
    <2>3. \A q \in Proc \ {p} : Same(q)
      BY <1>1, <1>2, <2>1 DEF Proceed, Go, TypeOK, Same
    <2> QED
      BY <2>2, <2>3, StepKeepsControl
  <1>4. CASE db = Gone
    <2>1. Abort(p) /\ raw' = raw
      BY <1>4 DEF Patch
    <2>2. Cleanup(p, "patch") = IF op[p] \in Locked THEN <<"unlock">> ELSE <<>>
      BY DEF Cleanup
    <2>3. todo' = [todo EXCEPT ![p] = Cleanup(p, "patch")]
      BY <1>1, <2>1 DEF Abort, Go, At
    <2>4. op[p] \in Locked => lock = p /\ done[p] = NoEffect
      BY <1>1, NextIsFirst, PatchOrder DEF Running, Locking, Doing, After, Never, Step
    <2>5. (Running(p) \/ Aborting(p))'
      BY <1>1, <1>2, <2>1, <2>2, <2>3, <2>4, Returning
    <2>6. \A q \in Proc \ {p} : Same(q)
      BY <1>1, <1>2, <2>1, <2>3 DEF TypeOK, Same
    <2> QED
      BY <2>5, <2>6, StepKeepsControl
  <1> QED
    BY <1>3, <1>4

LEMMA CheckControl == ASSUME TypeOK, Control, NEW p \in Proc, Check(p) PROVE Control'
  <1>1. Running(p) /\ At(p, "check") /\ op' = op
    BY AtIsRunning DEF Check
  <1>2. /\ lock' = lock /\ done' = done /\ rec' = rec /\ hit' = hit /\ tries' = tries
        /\ raw' = raw
    BY DEF Check, state
  <1>3. op[p] \in Locked => lock = p /\ done[p] = NoEffect
    BY <1>1, NextIsFirst, CheckOrder DEF Running, Locking, Doing, After, Never, Step
  <1>4. CASE Proceed(p)
    <2>1. Running(p)'
      BY <1>1, <1>2, <1>4, Passing, CheckOrder
         DEF Running, Locking, Doing, GotRec, GotRaw, Trying, After, Never, Step
    <2>2. \A q \in Proc \ {p} : Same(q)
      BY <1>1, <1>2, <1>4 DEF Proceed, Go, TypeOK, Same
    <2> QED
      BY <2>1, <2>2, StepKeepsControl
  <1>5. CASE Go(p, Cleanup(p, "check") \o Retry(p))
    <2>1. Cleanup(p, "check") = IF op[p] \in Locked THEN <<"unlock">> ELSE <<>>
      BY DEF Cleanup
    <2>2. todo' = [todo EXCEPT ![p] = Cleanup(p, "check") \o Retry(p)]
      BY <1>5 DEF Go
    <2>3. ASSUME op[p] \in Leasing /\ tries[p] < CasMaxRetries PROVE Aborting(p)'
      <3>1. Retry(p) = LeaseProgram /\ op[p] \in Locked
        BY <2>3 DEF Retry, Program, Leasing, Locked
      <3>2. todo'[p] = <<"unlock">> \o LeaseProgram
        BY <2>1, <2>2, <3>1 DEF TypeOK
      <3>3. op[p] \notin Patching /\ raw[p] = Gone
        BY <1>1, <2>3 DEF Leasing, Patching, Running, GotRaw
      <3> HIDE DEF LeaseProgram
      <3> QED
        BY <1>1, <1>2, <1>3, <2>3, <3>1, <3>2, <3>3 DEF Aborting
    <2>4. ASSUME ~(op[p] \in Leasing /\ tries[p] < CasMaxRetries)
          PROVE  (Running(p) \/ Aborting(p))'
      <3>1. Retry(p) = <<>>
        BY <2>4 DEF Retry, Leasing
      <3>2. Cleanup(p, "check") \o Retry(p) = Cleanup(p, "check")
        BY <2>1, <3>1
      <3>3. (Running(p) \/ Aborting(p))'
        BY <1>1, <1>2, <1>3, <2>1, <2>2, <3>2, Returning
      <3> QED
        BY <3>3
    <2>5. \A q \in Proc \ {p} : Same(q)
      BY <1>1, <1>2, <2>2 DEF TypeOK, Same
    <2> QED
      BY <2>3, <2>4, <2>5, StepKeepsControl
  <1> QED
    BY <1>4, <1>5 DEF Check

LEMMA CommitFailsControl == ASSUME TypeOK, Control, NEW p \in Proc, CommitFails(p) PROVE Control'
  <1>1. Running(p) /\ At(p, "commit") /\ op' = op
    BY AtIsRunning DEF CommitFails
  <1>2. /\ lock' = lock /\ done' = done /\ rec' = rec /\ hit' = hit /\ tries' = tries
        /\ raw' = raw
    BY DEF CommitFails, state
  <1>3. op[p] \in Locked => lock = p /\ done[p] = NoEffect
    BY <1>1, NextIsFirst, CommitOrder DEF Running, Locking, Doing, After, Never, Step
  <1>4. todo' = [todo EXCEPT ![p] = Cleanup(p, "commit")]
    BY <1>1 DEF CommitFails, Abort, Go, At
  <1>5. \A q \in Proc \ {p} : Same(q)
    BY <1>1, <1>2, <1>4 DEF TypeOK, Same
  <1>6. CASE op[p] = "tags"
    <2>1. Cleanup(p, "commit") = <<"clear", "unlock">> /\ op[p] \in Locked
      BY <1>6 DEF Cleanup, Locked
    <2>2. Aborting(p)'
      BY <1>1, <1>2, <1>3, <1>4, <1>6, <2>1 DEF Aborting, Running, GotRaw, TypeOK
    <2> QED
      BY <1>5, <2>2, StepKeepsControl
  <1>7. CASE op[p] # "tags"
    <2>1. Cleanup(p, "commit") = IF op[p] \in Locked THEN <<"unlock">> ELSE <<>>
      BY <1>7 DEF Cleanup
    <2>2. (Running(p) \/ Aborting(p))'
      BY <1>1, <1>2, <1>3, <1>4, <2>1, Returning
    <2> QED
      BY <1>5, <2>2, StepKeepsControl
  <1> QED
    BY <1>6, <1>7

LEMMA UnlockFirst ==
    ASSUME NEW t \in Seq(Step)
    PROVE  LET s == <<"unlock">> \o t IN Head(s) = "unlock" /\ Tail(s) = t /\ s # <<>>
  <1> DEFINE u == <<"unlock">>
             s == u \o t
  <1>1. u \in Seq(Step) /\ Len(u) = 1 /\ u[1] = "unlock" /\ Len(t) \in Nat
    BY DEF Step
  <1>2. /\ s \in Seq(Step) /\ Len(s) = 1 + Len(t)
        /\ \A i \in 1 .. 1 + Len(t) : s[i] = IF i <= 1 THEN u[i] ELSE t[i - 1]
    <2> HIDE DEF u
    <2>1. /\ u \o t \in Seq(Step) /\ Len(u \o t) = Len(u) + Len(t)
          /\ \A i \in 1 .. Len(u) + Len(t) :
                (u \o t)[i] = IF i <= Len(u) THEN u[i] ELSE t[i - Len(u)]
      BY <1>1, ConcatProperties, Zenon
    <2> QED
      BY <1>1, <2>1, Zenon
  <1> HIDE DEF u, s
  <1>3. s # <<>> /\ Head(s) = "unlock"
    BY <1>1, <1>2
  <1>4. Tail(s) \in Seq(Step) /\ Len(Tail(s)) = Len(t)
    BY <1>1, <1>2, <1>3
  <1>5. ASSUME NEW i \in 1 .. Len(t) PROVE Tail(s)[i] = t[i]
    BY <1>1, <1>2, <1>3
  <1>6. Tail(s) = t
    BY <1>4, <1>5, SeqEqual
  <1> QED
    BY <1>3, <1>6 DEF s, u

LEMMA TailOfAborting ==
    ASSUME NEW p \in Proc, Aborting(p)
    PROVE  /\ todo[p] # <<>>
           /\ \/ Head(todo[p]) = "unlock" /\ Tail(todo[p]) = <<>>
              \/ Head(todo[p]) = "clear" /\ Tail(todo[p]) = <<"unlock">>
              \/ /\ Head(todo[p]) = "unlock" /\ Tail(todo[p]) = LeaseProgram
                 /\ op[p] \in Leasing /\ tries[p] < CasMaxRetries
  <1>1. CASE todo[p] = <<"unlock">>
    BY <1>1
  <1>2. CASE todo[p] = <<"clear", "unlock">>
    BY <1>2
  <1>3. CASE /\ todo[p] = <<"unlock">> \o LeaseProgram
             /\ op[p] \in Leasing /\ tries[p] < CasMaxRetries
    <2>1. "unlock" \in Step /\ LeaseProgram \in Seq(Step)
      BY DEF LeaseProgram, Step
    <2>2. Head(todo[p]) = "unlock" /\ Tail(todo[p]) = LeaseProgram /\ todo[p] # <<>>
      BY <1>3, <2>1, UnlockFirst
    <2> QED
      BY <1>3, <2>2
  <1> QED
    BY <1>1, <1>2, <1>3 DEF Aborting

LEMMA ClearControl == ASSUME TypeOK, Control, NEW p \in Proc, Clear(p) PROVE Control'
  <1>1. At(p, "clear") /\ op' = op /\ Proceed(p) /\ todo' = [todo EXCEPT ![p] = Tail(todo[p])]
    BY DEF Clear, Proceed, Go
  <1>2. /\ lock' = lock /\ done' = done /\ rec' = rec /\ hit' = hit /\ tries' = tries
        /\ raw' = raw
    BY DEF Clear
  <1>3. \A q \in Proc \ {p} : Same(q)
    BY <1>1, <1>2 DEF TypeOK, Same
  <1>4. CASE Running(p)
    <2>1. /\ op[p] \in All /\ Left.clear[op[p]] \in 1 .. 9
          /\ \A y \in Step : Ahead(p, y) <=> Then("clear", y, op[p])
          /\ Regular(op[p], todo[p])' /\ todo[p] # <<>>
          /\ \A y \in Step : Ahead(p, y)' <=> Ahead(p, y) /\ y # "clear"
      BY <1>1, <1>4, Passing, Zenon
    <2>2. /\ Ahead(p, "commit")
          /\ \A y \in {"look", "lock", "get", "fill", "meta", "patch"} : ~Ahead(p, y)
      BY <2>1, ClearOrder DEF After, Never, Step
    <2>3. \A y \in {"look", "lock", "get", "fill", "meta", "patch", "commit", "unlock"} :
             Ahead(p, y)' <=> Ahead(p, y)
      BY <2>1 DEF Step
    <2>4. Locking(p)' /\ Doing(p)' /\ Trying(p)'
      BY <1>1, <1>2, <1>4, <2>2, <2>3 DEF Running, Locking, Doing, Trying
    <2>5. GotRec(p)' /\ GotRaw(p)'
      BY <1>1, <1>2, <1>4, <2>1, <2>2, <2>3 DEF Running, GotRec, GotRaw
    <2> QED
      BY <1>1, <1>3, <2>1, <2>4, <2>5, StepKeepsControl DEF Running
  <1>5. CASE Aborting(p)
    <2>1. todo'[p] = <<"unlock">>
      BY <1>1, <1>5, TailOfAborting DEF At, TypeOK
    <2>2. Aborting(p)'
      BY <1>1, <1>2, <1>5, <2>1 DEF Aborting
    <2> QED
      BY <1>3, <2>2, StepKeepsControl
  <1> QED
    BY <1>1, <1>4, <1>5 DEF Control, Reset, At

\* A process with all of its program before it.
LEMMA Starting ==
    ASSUME NEW p \in Proc, op'[p] \in All, todo'[p] = Program(op'[p]), lock' # p,
           done'[p] = NoEffect, raw'[p] = Gone,
           \/ op'[p] \in Leasing /\ tries'[p] < CasMaxRetries
           \/ op'[p] \notin Leasing /\ rec'[p] = Gone /\ ~hit'[p]
    PROVE  Running(p)'
  <1> DEFINE o == op'[p]
  <1>1. Regular(op[p], todo[p])' /\ todo'[p] # <<>>
    BY ProgramIsRegular
  <1>2. /\ o \in Locked => Ahead(p, "lock")'
        /\ o \notin Reading => Ahead(p, "commit")'
        /\ o \notin Leasing \cup {"patch"} => (Ahead(p, "get") \/ Ahead(p, "meta"))'
        /\ o \in Patching => Ahead(p, "patch")'
    BY ProgramIsRegular DEF Ahead, Step
  <1>3. Ahead(p, "fill")' => Ahead(p, "get")'
    <2>1. Len(todo'[p]) \in 0 .. 9
      BY <1>1 DEF Regular
    <2>2. \A k \in 0 .. 9 : \A i : i \in 1 .. k => i \in 1 .. 9
      OBVIOUS
    <2> QED
      BY <2>1, <2>2, ProgramIsRegular DEF Ahead
  <1>4. o \in Leasing \cup {"patch"} => ~Ahead(p, "fill")'
    BY DEF Ahead, Left, Leasing
  <1> QED
    BY <1>1, <1>2, <1>3, <1>4 DEF Running, Locking, Doing, GotRec, GotRaw, Trying

LEMMA UnlockControl == ASSUME TypeOK, Control, NEW p \in Proc, Unlock(p) PROVE Control'
  <1>1. At(p, "unlock") /\ op' = op /\ Proceed(p) /\ todo' = [todo EXCEPT ![p] = Tail(todo[p])]
    BY DEF Unlock, Proceed, Go
  <1>2. /\ lock' = Nobody /\ done' = done /\ rec' = rec /\ hit' = hit /\ tries' = tries
        /\ raw' = raw
    BY DEF Unlock
  <1>3. lock = p
    <2>1. CASE Running(p)
      BY <1>1, <2>1, NextIsFirst, UnlockOrder DEF Running, Locking, After, Never, Step
    <2>2. CASE Aborting(p)
      BY <2>2 DEF Aborting
    <2> QED
      BY <1>1, <2>1, <2>2 DEF Control, Reset, At
  <1>4. \A q \in Proc \ {p} : Same(q)
    BY <1>1, <1>2, <1>3 DEF TypeOK, Same
  <1>5. CASE Running(p)
    <2>1. Running(p)'
      BY SMTT(30), <1>1, <1>2, <1>5, Passing, UnlockOrder
         DEF Running, Locking, Doing, GotRec, GotRaw, Trying, After, Never, Step
    <2> QED
      BY <1>4, <2>1, StepKeepsControl
  <1>6. CASE Aborting(p)
    <2>1. \/ todo'[p] = <<>>
          \/ todo'[p] = LeaseProgram /\ op[p] \in Leasing /\ tries[p] < CasMaxRetries
      <3>1. todo'[p] = Tail(todo[p]) /\ Head(todo[p]) # "clear"
        BY <1>1 DEF At, TypeOK
      <3>2. \/ Head(todo[p]) = "unlock" /\ Tail(todo[p]) = <<>>
            \/ Head(todo[p]) = "clear" /\ Tail(todo[p]) = <<"unlock">>
            \/ /\ Head(todo[p]) = "unlock" /\ Tail(todo[p]) = LeaseProgram
               /\ op[p] \in Leasing /\ tries[p] < CasMaxRetries
        BY <1>6, TailOfAborting
      <3> QED
        BY <3>1, <3>2
    <2>2. CASE todo'[p] = <<>>
      <3>1. Regular(op[p], todo[p])'
        BY <1>1, <2>2, EmptyIsRegular
      <3>2. \A y : ~Ahead(p, y)'
        <4>1. \A k : k \notin 1 .. 0
          OBVIOUS
        <4> QED
          BY <2>2, <4>1, EmptyIsRegular, Zenon DEF Ahead
      <3>3. Running(p)'
        BY <1>1, <1>2, <1>6, <2>2, <3>1, <3>2
           DEF Aborting, Running, Locking, Doing, GotRec, GotRaw, Trying, Step, All
      <3> QED
        BY <1>4, <3>3, StepKeepsControl
    <2>3. CASE todo'[p] = LeaseProgram /\ op[p] \in Leasing /\ tries[p] < CasMaxRetries
      <3>1. Program(op'[p]) = LeaseProgram /\ op'[p] \in All /\ op[p] \notin Patching
        BY <1>1, <2>3 DEF Program, Leasing, All, Locked, Patching
      <3>2. lock' # p /\ done'[p] = NoEffect /\ raw'[p] = Gone
        BY <1>2, <1>6, <3>1 DEF Aborting
      <3>3. op'[p] \in Leasing /\ tries'[p] < CasMaxRetries /\ todo'[p] = Program(op'[p])
        BY <1>1, <1>2, <2>3, <3>1
      <3>4. Running(p)'
        BY <3>1, <3>2, <3>3, Starting
      <3> QED
        BY <1>4, <3>4, StepKeepsControl
    <2> QED
      BY <2>1, <2>2, <2>3
  <1> QED
    BY <1>1, <1>5, <1>6 DEF Control, Reset, At

LEMMA StartControl == ASSUME TypeOK, Control, NEW p \in Proc, NEW o \in Op, Start(p, o) PROVE Control'
  <1>1. op[p] = "none" /\ op' = [op EXCEPT ![p] = o] /\ todo' = [todo EXCEPT ![p] = Program(o)]
    BY DEF Start, Go
  <1>2. /\ lock' = lock /\ done' = done /\ rec' = rec /\ hit' = hit /\ tries' = tries
        /\ raw' = raw
    BY DEF Start, state
  <1>3. \A q \in Proc \ {p} : Same(q)
    BY <1>1, <1>2 DEF TypeOK, Same
  <1>4. Reset(p)
    BY <1>1 DEF Control, Running, Aborting, All, Locked, Unlocked, Reading
  <1>5. op'[p] = o /\ o \in All /\ todo'[p] = Program(o)
    BY <1>1 DEF TypeOK, All
  <1>6. Running(p)'
    <2>1. tries'[p] < CasMaxRetries /\ rec'[p] = Gone /\ ~hit'[p]
      BY <1>2, <1>4 DEF Reset
    <2> QED
      BY <1>2, <1>4, <1>5, <2>1, Starting DEF Reset
  <1> QED
    BY <1>3, <1>6, StepKeepsControl

LEMMA ReturnControl == ASSUME TypeOK, Control, NEW p \in Proc, Return(p) PROVE Control'
  <1>1. op[p] # "none" /\ todo[p] = <<>> /\ todo' = todo /\ lock' = lock
    BY DEF Return, state
  <1>2. Running(p)
    BY <1>1, TailOfAborting DEF Control, Reset
  <1>3. lock # p
    <2>1. ~Ahead(p, "unlock")
      <3>1. \A k : k \notin 1 .. 0
        OBVIOUS
      <3> QED
        BY <1>1, <3>1, EmptyIsRegular, Zenon DEF Ahead
    <2> QED
      BY <1>2, <2>1 DEF Running, Locking
  <1>4. Reset(p)'
    BY <1>1, <1>3 DEF Return, Reset, TypeOK
  <1>5. \A q \in Proc \ {p} : Same(q)
    BY <1>1 DEF Return, TypeOK, Same
  <1> QED
    BY <1>4, <1>5, StepKeepsControl

LEMMA UnchangedControl ==
    ASSUME Control, UNCHANGED <<op, todo, rec, raw, hit, tries, done, lock>>
    PROVE  Control'
  <1>1. \A p \in Proc : Same(p)
    BY DEF Same
  <1> QED
    BY <1>1, OthersKeepControl DEF Control

LEMMA InitControl == Init => Control
  BY DEF Init, Control, Reset

LEMMA StepControl == ASSUME TypeOK, Control, [Next]_vars PROVE Control'
  <1>1. ASSUME NEW p \in Proc, Access(p) PROVE Control'
    BY <1>1, TakeLockControl, UnlockControl, DropControl, GetEngramControl, GetMetadataControl,
       FillControl, LookControl, CheckControl, PatchControl, ClearControl, CommitRecordControl,
       CommitLeaseControl, CommitDeleteControl, CommitFailsControl, PublishControl,
       ReplicateBatchControl, ReturnControl DEF Access
  <1>2. ASSUME NEW p \in Proc, NEW o \in Op, Start(p, o) PROVE Control'
    BY <1>2, StartControl
  <1>3. CASE Evict
    BY <1>3, UnchangedControl DEF Evict, local
  <1>4. CASE Tick
    BY <1>4, UnchangedControl DEF Tick, local
  <1>5. CASE UNCHANGED vars
    BY <1>5, UnchangedControl DEF vars, state, local
  <1> QED
    BY <1>1, <1>2, <1>3, <1>4, <1>5 DEF Next

-----------------------------------------------------------------------------
(* Types *)

\* What the control says of a process at its commit.
LEMMA AtCommit ==
    ASSUME Control, NEW p \in Proc, At(p, "commit")
    PROVE  /\ Running(p) /\ op[p] \in All \ Reading /\ done[p] = NoEffect
           /\ lock = p <=> op[p] \in Locked
           /\ op[p] \notin Leasing \cup {"delete", "patch"} => rec[p] # Gone
           /\ op[p] \in Patching <=> raw[p] # Gone
  <1>1. Running(p) /\ Ahead(p, "commit")
    BY AtIsRunning
  <1>2. /\ op[p] \in All \ Reading /\ ~Ahead(p, "get") /\ ~Ahead(p, "meta") /\ ~Ahead(p, "patch")
        /\ ~Ahead(p, "lock") /\ (Ahead(p, "unlock") <=> op[p] \in Locked)
    BY <1>1, NextIsFirst, CommitOrder DEF Never, Step
  <1> QED
    BY <1>1, <1>2 DEF At, Running, Locking, Doing, GotRec, GotRaw

LEMMA NewIsRecord ==
    ASSUME TypeOK, Control, NEW p \in Proc, At(p, "commit"), Writes(p)
    PROVE  New(p) \in Record /\ NewState(p) \in State /\ op[p] \in Locked \cup Unlocked
  <1>1. /\ op[p] # "patch" => rec[p] \in Record
        /\ op[p] = "patch" => raw[p] \in Record
    BY AtCommit DEF TypeOK, Writes, Leasing, Patching
  <1>2. NewState(p) \in State
    <2>1. op[p] # "patch" => rec[p].state \in State
      BY <1>1 DEF Record
    <2>2. op[p] = "patch" => raw[p].state \in State
      BY <1>1 DEF Record
    <2> QED
      BY <2>1, <2>2 DEF NewState, Writes, State
  <1>3. id[p] \in 0 .. MaxOps
    BY DEF TypeOK
  <1> QED
    BY <1>2, <1>3, AtCommit DEF New, Record, All

LEMMA GoTypes ==
    ASSUME TypeOK, NEW p \in Proc, NEW t \in Seq(Step), Go(p, t)
    PROVE  todo' \in [Proc -> Seq(Step)]
  BY DEF TypeOK, Go

LEMMA ProceedTypes ==
    ASSUME TypeOK, NEW p \in Proc, todo[p] # <<>>, Proceed(p)
    PROVE  todo' \in [Proc -> Seq(Step)]
  <1>1. Tail(todo[p]) \in Seq(Step)
    BY DEF TypeOK
  <1> QED
    BY <1>1, GoTypes DEF Proceed

LEMMA CleanupTypes == \A p, s : Cleanup(p, s) \in Seq(Step)
  <1>1. <<>> \in Seq(Step) /\ <<"unlock">> \in Seq(Step) /\ <<"clear", "unlock">> \in Seq(Step)
    BY DEF Step
  <1> QED
    BY <1>1, Zenon DEF Cleanup

LEMMA AbortTypes ==
    ASSUME TypeOK, NEW p \in Proc, Abort(p)
    PROVE  todo' \in [Proc -> Seq(Step)]
  BY CleanupTypes, GoTypes DEF Abort

LEMMA RecordTypes ==
    \A r \in Record : r.ver \in 0 .. MaxOps /\ r.state \in State
  BY DEF Record

LEMMA LockTypes ==
    ASSUME TypeOK, NEW p \in Proc, TakeLock(p) \/ Unlock(p) PROVE TypeOK'
  <1>1. todo' \in [Proc -> Seq(Step)]
    BY ProceedTypes DEF TakeLock, Unlock, At
  <1> QED
    BY <1>1 DEF TypeOK, TakeLock, Unlock

LEMMA CacheTypes ==
    ASSUME TypeOK, Control, NEW p \in Proc, Drop(p) \/ Fill(p) \/ Clear(p) PROVE TypeOK'
  <1>1. todo' \in [Proc -> Seq(Step)]
    BY ProceedTypes DEF Drop, Fill, Clear, At
  <1>2. overlapped' \in BOOLEAN
    BY DEF Drop, Fill, Clear, TypeOK
  <1>3. l1' \in Record \cup {Gone} /\ meta' \in Record \cup {Gone}
    BY DEF Drop, Fill, Clear, TypeOK
  <1>4. CASE Drop(p)
    BY <1>1, <1>2, <1>3, <1>4 DEF TypeOK, Drop
  <1>5. CASE Fill(p)
    BY <1>1, <1>2, <1>3, <1>5 DEF TypeOK, Fill
  <1>6. CASE Clear(p)
    BY <1>1, <1>2, <1>3, <1>6 DEF TypeOK, Clear
  <1> QED
    BY <1>4, <1>5, <1>6

LEMMA GetTypes ==
    ASSUME TypeOK, Control, NEW p \in Proc, GetEngram(p) \/ GetMetadata(p) PROVE TypeOK'
  <1>1. CASE GetEngram(p)
    <2>1. Running(p) /\ At(p, "get") /\ op' = op
      BY <1>1, AtIsRunning DEF GetEngram
    <2>2. /\ Left.fill[op[p]] \in 1 .. 9 /\ Left.get[op[p]] = Left.fill[op[p]] + 1
      BY <2>1, NextIsFirst, GetOrder
    <2>3. SkipFill(p) => todo' \in [Proc -> Seq(Step)]
      BY <2>1, <2>2, AdvanceTwo DEF Step
    <2>4. todo' \in [Proc -> Seq(Step)]
      BY <1>1, <2>1, <2>3, ProceedTypes, AbortTypes DEF GetEngram, At
    <2>5. /\ rec' \in [Proc -> Record \cup {Gone}]
          /\ hit' \in [Proc -> BOOLEAN]
      BY <1>1 DEF GetEngram, TypeOK
    <2> QED
      BY <1>1, <2>4, <2>5 DEF TypeOK, GetEngram, state
  <1>2. CASE GetMetadata(p)
    <2>1. Running(p) /\ At(p, "meta") /\ op' = op
      BY <1>2, AtIsRunning DEF GetMetadata
    <2>2. /\ Left.mfill[op[p]] \in 1 .. 9 /\ Left.meta[op[p]] = Left.mfill[op[p]] + 1
      BY <2>1, NextIsFirst, MetaOrder
    <2>3. SkipFill(p) => todo' \in [Proc -> Seq(Step)]
      BY <2>1, <2>2, AdvanceTwo DEF Step
    <2>4. todo' \in [Proc -> Seq(Step)]
      BY <1>2, <2>1, <2>3, ProceedTypes, AbortTypes DEF GetMetadata, At
    <2>5. /\ rec' \in [Proc -> Record \cup {Gone}]
          /\ hit' \in [Proc -> BOOLEAN]
      BY <1>2 DEF GetMetadata, TypeOK
    <2> QED
      BY <1>2, <2>4, <2>5 DEF TypeOK, GetMetadata, state
  <1> QED
    BY <1>1, <1>2

LEMMA LookTypes == ASSUME TypeOK, Control, NEW p \in Proc, Look(p) PROVE TypeOK'
  <1>1. Running(p) /\ At(p, "look") /\ Ahead(p, "look")
    BY AtIsRunning DEF Look
  <1>2. tries[p] + 1 \in 0 .. CasMaxRetries
    BY <1>1, NextIsFirst, LookOrder DEF Running, Trying, TypeOK
  <1>3. todo' \in [Proc -> Seq(Step)]
    <2>1. <<>> \in Seq(Step)
      OBVIOUS
    <2> QED
      BY <1>1, <2>1, ProceedTypes, GoTypes DEF Look, At
  <1> QED
    BY <1>2, <1>3 DEF TypeOK, Look, state

LEMMA CheckTypes ==
    ASSUME TypeOK, NEW p \in Proc, Check(p) \/ CommitFails(p) PROVE TypeOK'
  <1>1. Cleanup(p, "check") \o Retry(p) \in Seq(Step)
    <2>1. Cleanup(p, "check") \in Seq(Step) /\ Retry(p) \in Seq(Step)
      <3>1. <<>> \in Seq(Step)
        OBVIOUS
      <3>2. op[p] \in {"claim", "release"} => Program(op[p]) \in Seq(Step)
        BY ProgramIsRegular DEF Regular, All, Locked
      <3> QED
        BY <3>1, <3>2, CleanupTypes, Zenon DEF Retry
    <2> QED
      BY <2>1
  <1>2. todo' \in [Proc -> Seq(Step)]
    BY <1>1, ProceedTypes, GoTypes, AbortTypes DEF Check, CommitFails, At
  <1> QED
    BY <1>2 DEF TypeOK, Check, CommitFails, state

LEMMA PatchTypes == ASSUME TypeOK, NEW p \in Proc, Patch(p) PROVE TypeOK'
  <1>1. todo' \in [Proc -> Seq(Step)]
    BY ProceedTypes, AbortTypes DEF Patch, At
  <1>2. raw' \in [Proc -> Record \cup {Gone}]
    BY DEF Patch, TypeOK
  <1>3. old' \in [Proc -> State]
    <2>1. db # Gone => (IF meta # Gone THEN meta.state
                        ELSE IF l1 # Gone THEN l1.state ELSE db.state) \in State
      BY RecordTypes DEF TypeOK
    <2> QED
      BY <2>1 DEF Patch, TypeOK
  <1> QED
    BY <1>1, <1>2, <1>3 DEF TypeOK, Patch, state

LEMMA CommitRecordTypes == ASSUME TypeOK, Control, NEW p \in Proc, CommitRecord(p) PROVE TypeOK'
  <1>1. todo' \in [Proc -> Seq(Step)]
    BY ProceedTypes DEF CommitRecord, At
  <1>2. New(p) \in Record /\ NewState(p) \in State /\ op[p] \in Locked \cup Unlocked
    BY NewIsRecord DEF CommitRecord
  <1>3. index' \subseteq State
    BY <1>2 DEF CommitRecord, Reindex, TypeOK, State
  <1>4. done' \in [Proc -> Effect]
    <2>1. [op |-> op[p], key |-> "record", value |-> New(p)] \in Effect
      BY <1>2 DEF Effect
    <2> QED
      BY <2>1 DEF CommitRecord, Did, TypeOK
  <1>5. intruded' \in BOOLEAN /\ overlapped' \in BOOLEAN
    BY DEF CommitRecord, TypeOK
  <1> QED
    BY <1>1, <1>2, <1>3, <1>4, <1>5 DEF TypeOK, CommitRecord

LEMMA CommitLeaseTypes == ASSUME TypeOK, NEW p \in Proc, CommitLease(p) PROVE TypeOK'
  <1>1. todo' \in [Proc -> Seq(Step)]
    BY ProceedTypes DEF CommitLease, At
  <1>2. lease' \in Lease \cup {NoLease}
    BY DEF CommitLease, Lease, TypeOK
  <1>3. done' \in [Proc -> Effect]
    <2>1. [op |-> op[p], key |-> "lease", value |-> lease'] \in Effect
      BY <1>2 DEF Effect, CommitLease
    <2> QED
      BY <2>1 DEF CommitLease, Did, TypeOK
  <1>4. grant' \in [Proc -> Lease \cup {NoLease}]
    BY <1>2 DEF CommitLease, TypeOK
  <1> QED
    BY <1>1, <1>2, <1>3, <1>4 DEF TypeOK, CommitLease

LEMMA CommitDeleteTypes == ASSUME TypeOK, NEW p \in Proc, CommitDelete(p) PROVE TypeOK'
  <1>1. todo' \in [Proc -> Seq(Step)]
    BY ProceedTypes DEF CommitDelete, At
  <1>2. done' \in [Proc -> Effect]
    <2>1. [op |-> op[p], key |-> "all", value |-> Gone] \in Effect
      BY DEF Effect, CommitDelete
    <2> QED
      BY <2>1 DEF CommitDelete, Did, TypeOK
  <1> QED
    BY <1>1, <1>2 DEF TypeOK, CommitDelete

LEMMA PublishTypes == ASSUME TypeOK, Control, NEW p \in Proc, Publish(p) PROVE TypeOK'
  <1>1. todo' \in [Proc -> Seq(Step)]
    BY ProceedTypes DEF Publish, At
  <1>2. Running(p) /\ At(p, "publish")
    BY AtIsRunning DEF Publish
  <1>3. op[p] \in Publishing /\ ~Ahead(p, "get") /\ ~Ahead(p, "meta")
    BY <1>2, NextIsFirst, PublishOrder DEF Never, Step
  <1>4. rec[p] \in Record
    BY <1>2, <1>3 DEF Running, GotRec, Publishing, Leasing, Reading, At, TypeOK
  <1>5. NewState(p) \in State
    BY <1>3, <1>4, RecordTypes DEF NewState, Publishing, State
  <1>6. id[p] \in 0 .. MaxOps
    BY DEF TypeOK
  <1>7. New(p) \in Record
    BY <1>5, <1>6 DEF New, Record
  <1> QED
    BY <1>1, <1>7 DEF TypeOK, Publish

LEMMA ReplicateBatchTypes == ASSUME TypeOK, NEW p \in Proc, ReplicateBatch(p) PROVE TypeOK'
  <1>1. todo' \in [Proc -> Seq(Step)]
    BY ProceedTypes DEF ReplicateBatch, At
  <1>2. log' \in Seq(Effect)
    <2>1. done[p] \in Effect /\ log \in Seq(Effect)
      BY DEF TypeOK
    <2> HIDE DEF Effect
    <2> QED
      BY <2>1 DEF ReplicateBatch
  <1> QED
    BY <1>1, <1>2 DEF TypeOK, ReplicateBatch, state

LEMMA StartTypes == ASSUME TypeOK, NEW p \in Proc, NEW o \in Op, Start(p, o) PROVE TypeOK'
  <1>1. todo' \in [Proc -> Seq(Step)]
    <2>1. Program(o) \in Seq(Step)
      BY ProgramIsRegular DEF Regular, All
    <2> QED
      BY <2>1, GoTypes DEF Start
  <1>2. ops + 1 \in 0 .. MaxOps
    BY DEF Start, TypeOK
  <1> QED
    BY <1>1, <1>2 DEF TypeOK, Start, state

LEMMA ReturnTypes == ASSUME TypeOK, NEW p \in Proc, Return(p) PROVE TypeOK'
  BY SMTT(30) DEF TypeOK, Return, state, State, Effect

LEMMA StepTypes == ASSUME TypeOK, Control, [Next]_vars PROVE TypeOK'
  <1>1. ASSUME NEW p \in Proc, Access(p) PROVE TypeOK'
    BY <1>1, LockTypes, CacheTypes, GetTypes, LookTypes, CheckTypes, PatchTypes, CommitRecordTypes,
       CommitLeaseTypes, CommitDeleteTypes, PublishTypes, ReplicateBatchTypes, ReturnTypes
       DEF Access
  <1>2. ASSUME NEW p \in Proc, NEW o \in Op, Start(p, o) PROVE TypeOK'
    BY <1>2, StartTypes
  <1>3. CASE Evict
    BY <1>3 DEF TypeOK, Evict, local
  <1>4. CASE Tick
    BY <1>4 DEF TypeOK, Tick, local
  <1>5. CASE UNCHANGED vars
    BY <1>5 DEF TypeOK, vars, state, local
  <1> QED
    BY <1>1, <1>2, <1>3, <1>4, <1>5 DEF Next

LEMMA InitTypes == Init => TypeOK
  <1> SUFFICES ASSUME Init PROVE TypeOK
    OBVIOUS
  <1>1. db \in Record
    BY DEF Init, Record, State
  <1>2. todo \in [Proc -> Seq(Step)] /\ log \in Seq(Effect)
    BY DEF Init
  <1>3. done \in [Proc -> Effect] /\ old \in [Proc -> State] /\ index \subseteq State
    BY DEF Init, Effect, State
  <1>4. /\ op \in [Proc -> Op \cup {"none"}] /\ id \in [Proc -> 0 .. MaxOps]
        /\ rec \in [Proc -> Record \cup {Gone}] /\ raw \in [Proc -> Record \cup {Gone}]
        /\ hit \in [Proc -> BOOLEAN] /\ seen \in [Proc -> Lease \cup {NoLease}]
        /\ at \in [Proc -> 0 .. MaxNow] /\ tries \in [Proc -> 0 .. CasMaxRetries]
        /\ grant \in [Proc -> Lease \cup {NoLease}]
    BY DEF Init
  <1>5. now \in 0 .. MaxNow /\ ops \in 0 .. MaxOps /\ intruded \in BOOLEAN /\ overlapped \in BOOLEAN
    <2>1. 0 \in 0 .. MaxNow /\ 0 \in 0 .. MaxOps
      OBVIOUS
    <2> QED
      BY <2>1, Zenon DEF Init
  <1>6. /\ lock \in Proc \cup {Nobody} /\ lease \in Lease \cup {NoLease} /\ l1 \in Record \cup {Gone}
        /\ meta \in Record \cup {Gone}
    BY Zenon DEF Init
  <1> HIDE DEF Init
  <1> QED
    BY <1>1, <1>2, <1>3, <1>4, <1>5, <1>6 DEF TypeOK

-----------------------------------------------------------------------------
(* The lock *)

LEMMA ControlReleases == ASSUME TypeOK, Control PROVE LockWillBeReleased
  <1> SUFFICES ASSUME NEW p \in Proc, lock = p
               PROVE  \E i \in 1 .. Len(todo[p]) : todo[p][i] = "unlock"
    BY DEF LockWillBeReleased, TypeOK
  <1>1. CASE Running(p)
    <2>1. Left.unlock[op[p]] \in 1 .. Len(todo[p]) /\ Len(todo[p]) \in 0 .. 9
      BY <1>1 DEF Running, Locking, Ahead, Regular
    <2>2. todo[p][Len(todo[p]) + 1 - Left.unlock[op[p]]] = "unlock"
      BY <1>1, <2>1 DEF Running, Regular, Step
    <2>3. \A n \in 0 .. 9 : \A k \in 1 .. n : n + 1 - k \in 1 .. n
      OBVIOUS
    <2> QED
      BY <2>1, <2>2, <2>3, Zenon
  <1>2. CASE Aborting(p)
    <2>1. CASE todo[p] = <<"unlock">>
      BY <2>1
    <2>2. CASE todo[p] = <<"clear", "unlock">>
      BY <2>2
    <2>3. CASE todo[p] = <<"unlock">> \o LeaseProgram
      <3>1. <<"unlock">> \in Seq(Step) /\ LeaseProgram \in Seq(Step)
        BY DEF LeaseProgram, Step
      <3>2. Len(todo[p]) \in Nat /\ Len(todo[p]) >= 1 /\ todo[p][1] = "unlock"
        BY <2>3, <3>1
      <3> QED
        BY <3>2
    <2> QED
      BY <1>2, <2>1, <2>2, <2>3 DEF Aborting
  <1> QED
    BY <1>1, <1>2 DEF Control, Reset

LEMMA ControlHolds == Spec => [](TypeOK /\ Control)
  <1>1. Init => TypeOK /\ Control
    BY InitTypes, InitControl
  <1>2. TypeOK /\ Control /\ [Next]_vars => (TypeOK /\ Control)'
    BY StepTypes, StepControl
  <1> QED
    BY <1>1, <1>2, PTL DEF Spec

\* TypeOK is an invariant of the specification: every variable keeps its type, the program
\* of every process included.
THEOREM TypesHold == Spec => []TypeOK
  BY ControlHolds, PTL

\* Whoever holds the stripe lock is still going to release it, on every early return and
\* failed commit too (the deferred Unlock of CompareAndSet and its relatives).
THEOREM LockIsReleased == Spec => []LockWillBeReleased
  <1>1. TypeOK /\ Control => LockWillBeReleased
    BY ControlReleases
  <1> QED
    BY <1>1, ControlHolds, PTL

-----------------------------------------------------------------------------
(* What a step of one process leaves to the others *)

Still(p) ==
    /\ Same(p)
    /\ id'[p] = id[p] /\ old'[p] = old[p] /\ seen'[p] = seen[p] /\ at'[p] = at[p]

\* The lock is with the process that gives it back.
LEMMA UnlockHolds == ASSUME Control, NEW p \in Proc, At(p, "unlock") PROVE lock = p
  <1>1. CASE Running(p)
    BY <1>1, NextIsFirst, UnlockOrder DEF Running, Locking, After, Never, Step
  <1>2. CASE Aborting(p)
    BY <1>2 DEF Aborting
  <1> QED
    BY <1>1, <1>2 DEF Control, Reset, At

LEMMA OthersStill ==
    ASSUME TypeOK, Control, NEW p \in Proc, Access(p) \/ \E o \in Op : Start(p, o)
    PROVE  \A q \in Proc \ {p} : Still(q)
  <1>1. CASE TakeLock(p)
    BY <1>1 DEF TakeLock, Proceed, Go, TypeOK, Still, Same
  <1>2. CASE Unlock(p)
    <2>1. lock = p
      BY <1>2, UnlockHolds DEF Unlock
    <2> QED
      BY <1>2, <2>1 DEF Unlock, Proceed, Go, TypeOK, Still, Same
  <1>3. CASE Drop(p) \/ Fill(p) \/ Clear(p) \/ Publish(p)
    BY <1>3 DEF Drop, Fill, Clear, Publish, Proceed, Go, TypeOK, Still, Same
  <1>4. CASE GetEngram(p)
    BY <1>4 DEF GetEngram, SkipFill, Proceed, Abort, Go, TypeOK, Still, Same, state
  <1>5. CASE GetMetadata(p)
    <2>1. \E t : todo' = [todo EXCEPT ![p] = t]
      BY <1>5 DEF GetMetadata, SkipFill, Proceed, Abort, Go
    <2> QED
      BY <1>5, <2>1 DEF GetMetadata, TypeOK, Still, Same, state
  <1>6. CASE Look(p) \/ Check(p) \/ CommitFails(p) \/ ReplicateBatch(p)
    BY SMTT(30), <1>6 DEF Look, Check, CommitFails, ReplicateBatch, Proceed, Abort, Go, TypeOK, Still, Same, state
  <1>7. CASE Patch(p)
    BY <1>7 DEF Patch, Proceed, Abort, Go, TypeOK, Still, Same, state
  <1>8. CASE CommitRecord(p) \/ CommitLease(p) \/ CommitDelete(p)
    BY <1>8 DEF CommitRecord, CommitLease, CommitDelete, Did, Proceed, Go, TypeOK, Still, Same
  <1>9. CASE Return(p)
    BY <1>9 DEF Return, TypeOK, Still, Same, state
  <1>10. ASSUME NEW o \in Op, Start(p, o) PROVE \A q \in Proc \ {p} : Still(q)
    BY <1>10 DEF Start, Go, TypeOK, Still, Same, state
  <1> QED
    BY <1>1, <1>2, <1>3, <1>4, <1>5, <1>6, <1>7, <1>8, <1>9, <1>10 DEF Access

\* An early return leaves nothing to fill or to commit, or all of a Claim or Release.
Stops(p) ==
    /\ ~Ahead(p, "fill")'
    /\ Ahead(p, "mfill")' => Ahead(p, "meta")'
    /\ Ahead(p, "commit")' => op[p] \in Leasing /\ Ahead(p, "look")' /\ Ahead(p, "check")'

LEMMA LockedLeft ==
    ASSUME NEW o \in Locked
    PROVE  /\ Left.fill[o] \notin 1 .. 2 /\ Left.mfill[o] \notin 1 .. 2 /\ Left.commit[o] \notin 1 .. 2
  BY DEF Locked, Left

LEMMA LeaseLeft ==
    ASSUME NEW o \in Leasing
    PROVE  /\ Left.look[o] = 8 /\ Left.lock[o] = 7 /\ Left.meta[o] = 6 /\ Left.check[o] = 4
           /\ Left.commit[o] = 3 /\ Left.unlock[o] = 1 /\ Left.fill[o] = 0
  BY DEF Leasing, Left

LEMMA StopsEarly ==
    ASSUME NEW p \in Proc, op'[p] = op[p],
           \/ todo'[p] = <<>>
           \/ op[p] \in Locked /\ todo'[p] \in {<<"unlock">>, <<"clear", "unlock">>}
           \/ op[p] \in Leasing /\ todo'[p] \in {LeaseProgram, <<"unlock">> \o LeaseProgram}
    PROVE  Stops(p)
  <1>1. CASE todo'[p] = <<>>
    <2>1. \A y : ~Ahead(p, y)'
      <3>1. \A k : k \notin 1 .. 0
        OBVIOUS
      <3> QED
        BY <1>1, <3>1, EmptyIsRegular, Zenon DEF Ahead
    <2> QED
      BY <2>1 DEF Stops
  <1>2. CASE op[p] \in Locked /\ todo'[p] \in {<<"unlock">>, <<"clear", "unlock">>}
    <2>1. Len(todo'[p]) = 1 \/ Len(todo'[p]) = 2
      BY <1>2
    <2>2. \A k : k \notin 1 .. 2 => k \notin 1 .. 1
      OBVIOUS
    <2>3. ~Ahead(p, "fill")' /\ ~Ahead(p, "mfill")' /\ ~Ahead(p, "commit")'
      BY <1>2, <2>1, <2>2, LockedLeft, Zenon DEF Ahead
    <2> QED
      BY <2>3 DEF Stops
  <1>3. CASE op[p] \in Leasing /\ todo'[p] \in {LeaseProgram, <<"unlock">> \o LeaseProgram}
    <2>1. LeaseProgram \in Seq(Step) /\ <<"unlock">> \in Seq(Step) /\ Len(LeaseProgram) = 8
          /\ Len(<<"unlock">>) = 1
      BY DEF LeaseProgram, Step
    <2>2. Len(todo'[p]) \in {8, 9}
      <3>1. Len(<<"unlock">> \o LeaseProgram) = Len(<<"unlock">>) + Len(LeaseProgram)
        BY <2>1, ConcatProperties, ZenonT(30)
      <3>2. Len(<<"unlock">> \o LeaseProgram) = 9
        BY <2>1, <3>1
      <3> QED
        BY <1>3, <2>1, <3>2, Zenon
    <2>3. \A k \in {8, 9} : 8 \in 1 .. k /\ 4 \in 1 .. k /\ 6 \in 1 .. k /\ 0 \notin 1 .. k
      OBVIOUS
    <2>4. Ahead(p, "check")' /\ Ahead(p, "meta")' /\ ~Ahead(p, "fill")' /\ Ahead(p, "look")'
      BY <1>3, <2>2, <2>3, LeaseLeft, Zenon DEF Ahead
    <2> QED
      BY <1>3, <2>4 DEF Stops
  <1> QED
    BY <1>1, <1>2, <1>3

-----------------------------------------------------------------------------
(* Leases *)

\* A claim was entitled to the lease when it looked, a release owned it.
Entitled(p) ==
    IF op[p] = "claim"
    THEN seen[p] = NoLease \/ seen[p].owner = p \/ at[p] > seen[p].beat + TTL
    ELSE seen[p] # NoLease /\ seen[p].owner = p

\* It goes on with what it has seen, and from the check to the commit that is the lease.
Looked(p) ==
    op[p] \in Leasing /\ Ahead(p, "commit") =>
      /\ ~Ahead(p, "look") => Entitled(p) /\ at[p] <= now
      /\ ~Ahead(p, "check") => lease = seen[p]

Leases ==
    /\ \A p \in Proc : grant[p] # NoLease => grant[p].owner = p
    /\ \A p \in Proc : Looked(p)
    /\ GrantIsLease

LEMMA CheckedHolds ==
    ASSUME Control, NEW p \in Proc, op[p] \in Leasing, Ahead(p, "commit"), ~Ahead(p, "check")
    PROVE  lock = p
  <1>1. op[p] # "none"
    BY DEF Leasing
  <1>2. CASE Running(p)
    <2>1. Len(todo[p]) \in 0 .. 9
      BY <1>2 DEF Running, Regular
    <2>2. \A k \in 0 .. 9 : 3 \in 1 .. k /\ 4 \notin 1 .. k => 7 \notin 1 .. k /\ 1 \in 1 .. k
      OBVIOUS
    <2>3. ~Ahead(p, "lock") /\ Ahead(p, "unlock")
      BY <2>1, <2>2, LeaseLeft DEF Ahead
    <2> QED
      BY <1>2, <2>3 DEF Running, Locking, Leasing, Locked
  <1>3. CASE Aborting(p)
    BY <1>3 DEF Aborting
  <1> QED
    BY <1>1, <1>2, <1>3 DEF Control, Reset

LEMMA OthersLooked ==
    ASSUME TypeOK, Control, Leases, NEW p \in Proc, \A q \in Proc \ {p} : Still(q),
           now' \in 0 .. MaxNow, now <= now', lease' = lease \/ lock = p
    PROVE  \A q \in Proc \ {p} : Looked(q)'
  <1> SUFFICES ASSUME NEW q \in Proc, q # p, op[q] \in Leasing, Ahead(q, "commit")
               PROVE  Looked(q)'
    BY OthersKeepControl DEF Still, Looked, Same
  <1>1. /\ Looked(q) /\ seen'[q] = seen[q] /\ at'[q] = at[q] /\ op'[q] = op[q]
        /\ (Ahead(q, "look")' <=> Ahead(q, "look")) /\ (Ahead(q, "check")' <=> Ahead(q, "check"))
    BY OthersKeepControl DEF Still, Leases, Same
  <1>2. ~Ahead(q, "look") => Entitled(q)' /\ at'[q] <= now'
    BY <1>1 DEF Looked, Entitled, TypeOK
  <1>3. ~Ahead(q, "check") => lease' = lease
    BY CheckedHolds
  <1> QED
    BY <1>1, <1>2, <1>3 DEF Looked

\* Steps that touch neither the lease nor what p knows of it.
LEMMA PassesLooked ==
    ASSUME TypeOK, Control, Leases, NEW p \in Proc, Running(p), NEW x \in Step \ {"look", "check"},
           At(p, x), op' = op, Proceed(p), seen' = seen, at' = at, now' = now,
           lease' = lease \/ x = "commit"
    PROVE  Looked(p)'
  <1>1. \A y \in Step : Ahead(p, y)' <=> Ahead(p, y) /\ y # x
    BY Passing
  <1>2. CASE x = "commit"
    BY <1>1, <1>2 DEF Looked, Step
  <1>3. CASE lease' = lease
    BY <1>1, <1>3 DEF Leases, Looked, Entitled, Step
  <1> QED
    BY <1>2, <1>3

LEMMA StopsLooked == ASSUME NEW p \in Proc, Stops(p) PROVE Looked(p)'
  BY DEF Stops, Looked

LEMMA KeepsLeases ==
    ASSUME TypeOK, Control, Leases, now' \in 0 .. MaxNow, now <= now', lease' = lease, grant' = grant,
           \A p \in Proc : Looked(p)'
    PROVE  Leases'
  <1>1. ASSUME NEW p \in Proc, Live(grant[p])' PROVE Live(grant[p])
    <2>1. grant[p] \in Lease
      BY <1>1 DEF Live, TypeOK
    <2> QED
      BY SMTT(30), <1>1, <2>1 DEF Live, TypeOK, Lease
  <1> QED
    BY <1>1 DEF Leases, GrantIsLease

\* A condition that does not hold, or a Claim or Release that starts over.
LEMMA CheckStops ==
    ASSUME TypeOK, Control, NEW p \in Proc, op' = op, Go(p, Cleanup(p, "check") \o Retry(p))
    PROVE  Stops(p)
  <1>1. todo'[p] = Cleanup(p, "check") \o Retry(p)
    BY DEF Go, TypeOK
  <1>2. Cleanup(p, "check") = IF op[p] \in Locked THEN <<"unlock">> ELSE <<>>
    BY DEF Cleanup
  <1>3. CASE Retry(p) = <<>>
    BY <1>1, <1>2, <1>3, StopsEarly
  <1>4. CASE Retry(p) = LeaseProgram /\ op[p] \in Leasing
    BY <1>1, <1>2, <1>4, StopsEarly DEF Leasing, Locked
  <1> QED
    BY <1>3, <1>4 DEF Retry, Program, Leasing

LEMMA AbortStops == ASSUME TypeOK, NEW p \in Proc, op' = op, Abort(p) PROVE Stops(p)
  <1>1. PICK s : todo'[p] = Cleanup(p, s)
    BY DEF Abort, Go, TypeOK
  <1> QED
    BY <1>1, StopsEarly DEF Cleanup

LEMMA AccessLooked ==
    ASSUME TypeOK, Control, Leases, NEW p \in Proc, Access(p)
    PROVE  Looked(p)'
  <1>1. CASE TakeLock(p)
    <2>1. Running(p) /\ At(p, "lock")
      BY <1>1, AtIsRunning DEF TakeLock
    <2> QED
      BY <1>1, <2>1, PassesLooked DEF TakeLock, Step
  <1>2. CASE Unlock(p)
    <2>1. CASE Running(p)
      BY <1>2, <2>1, PassesLooked DEF Unlock, Step
    <2>2. CASE Aborting(p)
      <3>1. /\ Stops(p)
        <4>1. /\ todo'[p] = Tail(todo[p]) /\ op' = op
              /\ Head(todo[p]) # "clear"
          BY <1>2 DEF Unlock, At, Proceed, Go, TypeOK
        <4>2. \/ Head(todo[p]) = "unlock" /\ Tail(todo[p]) = <<>>
              \/ Head(todo[p]) = "clear" /\ Tail(todo[p]) = <<"unlock">>
              \/ /\ Head(todo[p]) = "unlock" /\ Tail(todo[p]) = LeaseProgram
                 /\ op[p] \in Leasing /\ tries[p] < CasMaxRetries
          BY <2>2, TailOfAborting
        <4> QED
          BY <4>1, <4>2, StopsEarly
      <3> QED
        BY <3>1, StopsLooked
    <2> QED
      BY <1>2, <2>1, <2>2 DEF Control, Reset, Unlock, At
  <1>3. CASE Fill(p)
    <2>1. PICK x \in {"fill", "mfill"} : At(p, x)
      BY <1>3 DEF Fill
    <2>2. Running(p)
      BY <2>1, AtIsRunning
    <2> QED
      BY <1>3, <2>1, <2>2, PassesLooked DEF Fill, Step
  <1>4. CASE Drop(p) \/ GetEngram(p) \/ Patch(p) \/ Publish(p)
    <2>1. PICK x \in {"drop", "get", "patch", "publish"} : At(p, x)
      BY <1>4 DEF Drop, GetEngram, Patch, Publish
    <2>2. op' = op /\ op[p] \notin Leasing
      <3>1. Running(p)
        BY <2>1, AtIsRunning
      <3>2. op[p] \in All /\ Left[x][op[p]] \in 1 .. 9
        BY <2>1, <3>1, NextIsFirst
      <3>3. op[p] \in {"confidence", "soft", "tags", "touch", "delete"} \cup Getting \cup Patching
                         \cup Publishing
        BY <2>1, <3>2, DropOrder, GetOrder, PatchOrder, PublishOrder
      <3>4. op' = op
        BY <1>4 DEF Drop, GetEngram, Patch, Publish
      <3> QED
        BY <3>3, <3>4 DEF Leasing, Getting, Patching, Publishing
    <2> QED
      BY <2>2 DEF Looked
  <1>5. CASE Clear(p)
    <2>1. op' = op /\ op[p] \notin Leasing
      <3>1. CASE Running(p)
        BY <1>5, <3>1, NextIsFirst, ClearOrder DEF Clear, Leasing, Clearing
      <3>2. CASE Aborting(p)
        <4>1. todo[p] # <<"unlock">> /\ Head(todo[p]) # "unlock"
          BY <1>5 DEF Clear, At
        <4> QED
          BY <1>5, <3>2, <4>1, UnlockFirst DEF Aborting, Clear, Leasing, LeaseProgram, Step
      <3> QED
        BY <1>5, <3>1, <3>2 DEF Control, Reset, Clear, At
    <2> QED
      BY <2>1 DEF Looked
  <1>6. CASE GetMetadata(p)
    <2>1. Running(p) /\ At(p, "meta") /\ op' = op /\ op[p] \in All
      BY <1>6, AtIsRunning DEF GetMetadata, Running
    <2>2. CASE Proceed(p)
      BY <1>6, <2>1, <2>2, PassesLooked DEF GetMetadata, state, Step
    <2>3. CASE Abort(p)
      BY <2>1, <2>3, AbortStops, StopsLooked
    <2>4. CASE SkipFill(p)
      <3>1. /\ Left.mfill[op[p]] \in 1 .. 9 /\ Left.meta[op[p]] = Left.mfill[op[p]] + 1
        BY <2>1, NextIsFirst, MetaOrder
      <3>2. \A y \in Step : Ahead(p, y)' <=> Ahead(p, y) /\ y \notin {"meta", "mfill"}
        BY <2>1, <2>4, <3>1, AdvanceTwo DEF Step
      <3>3. /\ (Ahead(p, "look")' <=> Ahead(p, "look")) /\ (Ahead(p, "check")' <=> Ahead(p, "check"))
            /\ (Ahead(p, "commit")' <=> Ahead(p, "commit"))
        BY <3>2 DEF Step
      <3>4. lease' = lease /\ now' = now /\ seen' = seen /\ at' = at
        BY <1>6 DEF GetMetadata, state
      <3> QED
        BY <2>1, <3>3, <3>4 DEF Leases, Looked, Entitled
    <2> QED
      BY <1>6, <2>2, <2>3, <2>4 DEF GetMetadata
  <1>7. CASE Look(p)
    <2>1. Running(p) /\ At(p, "look") /\ op' = op
      BY <1>7, AtIsRunning DEF Look
    <2>2. CASE Go(p, <<>>)
      <3>1. todo'[p] = <<>>
        BY <2>2 DEF Go, TypeOK
      <3> QED
        BY <2>1, <3>1, StopsEarly, StopsLooked
    <2>3. CASE Proceed(p) /\ MayTry(p)
      <3>1. Ahead(p, "check")' /\ op[p] \in Leasing
        BY <2>1, <2>3, Passing, LookOrder DEF After, Step
      <3>2. seen'[p] = lease /\ at'[p] = now /\ now' = now
        BY <1>7 DEF Look, state, TypeOK
      <3>3. Entitled(p)'
        BY SMTT(30), <2>1, <2>3, <3>1, <3>2 DEF Entitled, MayTry, Live, Leasing, TypeOK, Lease
      <3> QED
        BY <3>1, <3>2, <3>3 DEF Looked, TypeOK
    <2> QED
      BY <1>7, <2>2, <2>3 DEF Look
  <1>8. CASE Check(p)
    <2>1. Running(p) /\ At(p, "check") /\ op' = op
      BY <1>8, AtIsRunning DEF Check
    <2>2. CASE Proceed(p) /\ Condition(p)
      <3>1. \A y \in Step : Ahead(p, y)' <=> Ahead(p, y) /\ y # "check"
        BY <2>1, <2>2, Passing
      <3>2. lease' = lease /\ now' = now /\ seen' = seen /\ at' = at
        BY <1>8 DEF Check, state
      <3>3. op[p] \in Leasing => lease = seen[p]
        BY <2>2 DEF Condition, LeaseMatches, Leasing
      <3> QED
        BY <2>1, <3>1, <3>2, <3>3 DEF Leases, Looked, Entitled, Step
    <2>3. CASE Go(p, Cleanup(p, "check") \o Retry(p))
      BY <2>1, <2>3, CheckStops, StopsLooked
    <2> QED
      BY <1>8, <2>2, <2>3 DEF Check
  <1>9. CASE CommitRecord(p) \/ CommitLease(p) \/ CommitDelete(p)
    <2>1. /\ Running(p) /\ At(p, "commit") /\ op' = op /\ Proceed(p) /\ seen' = seen /\ at' = at
          /\ now' = now
      BY <1>9, AtIsRunning DEF CommitRecord, CommitLease, CommitDelete
    <2> QED
      BY <2>1, PassesLooked DEF Step
  <1>10. CASE CommitFails(p)
    BY <1>10, AbortStops, StopsLooked DEF CommitFails
  <1>11. CASE ReplicateBatch(p)
    <2>1. Running(p) /\ At(p, "append")
      BY <1>11, AtIsRunning DEF ReplicateBatch
    <2> QED
      BY <1>11, <2>1, PassesLooked DEF ReplicateBatch, state, Step
  <1>12. CASE Return(p)
    BY <1>12 DEF Return, TypeOK, Looked, Leasing
  <1> QED
    BY <1>1, <1>2, <1>3, <1>4, <1>5, <1>6, <1>7, <1>8, <1>9, <1>10, <1>11, <1>12 DEF Access

LEMMA AllLooked ==
    ASSUME TypeOK, Control, Leases, NEW p \in Proc, Access(p) \/ \E o \in Op : Start(p, o),
           now' = now, lease' = lease \/ lock = p, Looked(p)'
    PROVE  \A q \in Proc : Looked(q)'
  <1>1. \A q \in Proc \ {p} : Still(q)
    BY OthersStill
  <1>2. now' \in 0 .. MaxNow /\ now <= now'
    BY DEF TypeOK
  <1>3. \A q \in Proc \ {p} : Looked(q)'
    BY <1>1, <1>2, OthersLooked
  <1> QED
    BY <1>3

\* A claim or a release that commits replaces the lease it was entitled to replace, and
\* nobody else holds that one any more.
LEMMA CommitLeaseLeases ==
    ASSUME TypeOK, Control, Leases, NEW p \in Proc, CommitLease(p) PROVE Leases'
  <1>1. Running(p) /\ At(p, "commit") /\ op[p] \in Leasing /\ lock = p
    BY AtCommit DEF CommitLease, Leasing, Locked
  <1>2. Ahead(p, "commit") /\ ~Ahead(p, "look") /\ ~Ahead(p, "check")
    BY <1>1, NextIsFirst, CommitOrder DEF Never, Step
  <1>3. Entitled(p) /\ at[p] <= now /\ lease = seen[p]
    BY <1>1, <1>2 DEF Leases, Looked
  <1>4. ASSUME NEW q \in Proc \ {p} PROVE ~Live(grant[q])
    <2>1. SUFFICES ASSUME Live(grant[q]) PROVE FALSE
      OBVIOUS
    <2>2. grant[q] \in Lease /\ grant[q].owner = q /\ lease = grant[q] /\ now <= grant[q].beat + TTL
      BY <2>1 DEF Leases, GrantIsLease, Live, TypeOK
    <2>3. seen[p] = grant[q] /\ seen[p] # NoLease
      BY <1>3, <2>2
    <2>4. at[p] \in 0 .. MaxNow /\ now \in 0 .. MaxNow /\ seen[p].beat \in 0 .. MaxNow
      BY <2>2, <2>3 DEF TypeOK, Lease
    <2> QED
      BY <1>3, <2>2, <2>3, <2>4 DEF Entitled
  <1>5. grant' = [grant EXCEPT ![p] = lease'] /\ now' = now
        /\ lease' = IF op[p] = "claim" THEN [owner |-> p, beat |-> at[p]] ELSE NoLease
    BY DEF CommitLease
  <1>6. \A q \in Proc : grant'[q] # NoLease => grant'[q].owner = q
    BY <1>5 DEF Leases, TypeOK
  <1>7. \A q \in Proc : Looked(q)'
    <2>1. Access(p) /\ Looked(p)'
      BY AccessLooked DEF Access
    <2> QED
      BY <1>1, <1>5, <2>1, AllLooked
  <1>8. GrantIsLease'
    BY <1>4, <1>5 DEF GrantIsLease, Live, TypeOK
  <1> QED
    BY <1>6, <1>7, <1>8 DEF Leases

LEMMA CommitDeleteLeases ==
    ASSUME TypeOK, Control, Leases, NEW p \in Proc, CommitDelete(p) PROVE Leases'
  <1>1. lock = p
    BY AtCommit DEF CommitDelete, Locked
  <1>2. \A q \in Proc : Looked(q)'
    <2>1. Access(p) /\ Looked(p)' /\ now' = now
      BY AccessLooked DEF Access, CommitDelete
    <2> QED
      BY <1>1, <2>1, AllLooked
  <1> QED
    BY <1>2 DEF CommitDelete, Leases, GrantIsLease, Live

LEMMA StepLeases == ASSUME TypeOK, Control, Leases, [Next]_vars PROVE Leases'
  <1>1. ASSUME NEW p \in Proc, Access(p) PROVE Leases'
    <2>1. CASE CommitLease(p) \/ CommitDelete(p)
      BY <2>1, CommitLeaseLeases, CommitDeleteLeases
    <2>2. CASE ~CommitLease(p) /\ ~CommitDelete(p)
      <3>1. lease' = lease /\ grant' = grant /\ now' = now
        BY <1>1, <2>2 DEF Access, TakeLock, Unlock, Drop, GetEngram, GetMetadata, Fill, Look, Check,
           Patch, Clear, CommitRecord, CommitFails, Publish, ReplicateBatch, Return, state
      <3>2. \A q \in Proc : Looked(q)'
        BY <1>1, <3>1, AllLooked, AccessLooked
      <3> QED
        BY <3>1, <3>2, KeepsLeases DEF TypeOK
    <2> QED
      BY <2>1, <2>2
  <1>2. ASSUME NEW p \in Proc, NEW o \in Op, Start(p, o) PROVE Leases'
    <2>1. lease' = lease /\ grant' = grant /\ now' = now
      BY <1>2 DEF Start, state
    <2>2. op'[p] = o /\ todo'[p] = Program(o)
      BY <1>2 DEF Start, Go, TypeOK
    <2>3. o \in Leasing => Len(todo'[p]) = 8
      BY <2>2 DEF Leasing, Program, LeaseProgram
    <2>4. Looked(p)'
      <3>1. 8 \in 1 .. 8 /\ 4 \in 1 .. 8
        OBVIOUS
      <3>2. o \in Leasing => Ahead(p, "look")' /\ Ahead(p, "check")'
        BY <2>2, <2>3, <3>1, LeaseLeft, Zenon DEF Ahead
      <3> QED
        BY <2>2, <3>2 DEF Looked
    <2>5. \A q \in Proc : Looked(q)'
      BY <1>2, <2>1, <2>4, AllLooked
    <2> QED
      BY <2>1, <2>5, KeepsLeases DEF TypeOK
  <1>3. CASE Evict \/ Tick \/ UNCHANGED vars
    <2>1. /\ lease' = lease /\ grant' = grant /\ now' \in 0 .. MaxNow /\ now <= now'
          /\ op' = op /\ todo' = todo /\ seen' = seen /\ at' = at
      BY <1>3 DEF Evict, Tick, vars, state, local, TypeOK
    <2>2. \A q \in Proc : Looked(q)'
      BY SMTT(30), <2>1 DEF Leases, Looked, Entitled, Ahead, TypeOK
    <2> QED
      BY <2>1, <2>2, KeepsLeases
  <1> QED
    BY <1>1, <1>2, <1>3 DEF Next

LEMMA InitLeases == Init => Leases
  BY DEF Init, Leases, Looked, Leasing, GrantIsLease, Live

\* A claim that was granted and not released stays the lease on disk until its TTL has run
\* out or the engram is deleted: "a live foreign lease is never overwritten" (Claim, Release).
THEOREM GrantIsKept == Spec => []GrantIsLease
  <1>1. Init => Leases
    BY InitLeases
  <1>2. TypeOK /\ Control /\ Leases /\ [Next]_vars => Leases'
    BY StepLeases
  <1>3. Leases => GrantIsLease
    BY DEF Leases
  <1> QED
    BY <1>1, <1>2, <1>3, ControlHolds, PTL DEF Spec

-----------------------------------------------------------------------------
(* Reads from Pebble under the lock *)

\* p holds the lock of a record and has not committed.
Working(p) == lock = p /\ op[p] \notin Leasing /\ done[p] = NoEffect

\* What p has read from Pebble itself is what Pebble holds.
FreshRead ==
    ~intruded => \A p \in Proc : Working(p) =>
      /\ rec[p] # Gone /\ ~hit[p] => rec[p] = db
      /\ raw[p] # Gone => raw[p] = db

LEMMA NotStarted == ASSUME Control, NEW p \in Proc, op[p] = "none" PROVE Reset(p)
  BY DEF Control, Running, Aborting, All, Locked, Unlocked, Reading

\* When p has just taken the lock, it has read nothing yet.
LEMMA LockFirst ==
    ASSUME Control, NEW p \in Proc, At(p, "lock"), op[p] \notin Leasing
    PROVE  /\ op[p] \in Locked /\ rec[p] = Gone /\ raw[p] = Gone /\ done[p] = NoEffect
           /\ Ahead(p, "get") \/ Ahead(p, "meta")
  <1>1. Running(p) /\ op[p] \in Locked
    BY AtIsRunning, NextIsFirst, LockOrder
  <1>2. (Ahead(p, "get") \/ Ahead(p, "meta")) /\ (op[p] \in Patching => Ahead(p, "patch"))
        /\ Ahead(p, "commit")
    BY <1>1, NextIsFirst, LockOrder DEF After, Step, Getting, Checking, Locked, Leasing
  <1> QED
    BY <1>1, <1>2 DEF Running, GotRec, GotRaw, Doing

LEMMA OthersFreshRead ==
    ASSUME Control, FreshRead, NEW p \in Proc, \A q \in Proc \ {p} : Still(q), ~intruded',
           \/ db' = db /\ ~intruded
           \/ lock = p \/ lock = Nobody,
           NEW q \in Proc \ {p}, Working(q)'
    PROVE  /\ rec'[q] # Gone /\ ~hit'[q] => rec'[q] = db'
           /\ raw'[q] # Gone => raw'[q] = db'
  <1>1. /\ rec'[q] = rec[q] /\ hit'[q] = hit[q] /\ raw'[q] = raw[q] /\ Working(q)
        /\ lock = q
    BY DEF Still, Same, Working
  <1>2. q # Nobody
    OBVIOUS
  <1> QED
    BY <1>1, <1>2 DEF FreshRead

LEMMA AccessFreshRead ==
    ASSUME TypeOK, Control, FreshRead, NEW p \in Proc, Access(p) PROVE FreshRead'
  <1> SUFFICES ASSUME ~intruded', NEW q \in Proc, Working(q)'
               PROVE  /\ rec'[q] # Gone /\ ~hit'[q] => rec'[q] = db'
                      /\ raw'[q] # Gone => raw'[q] = db'
    BY DEF FreshRead
  <1>1. \A r \in Proc \ {p} : Still(r)
    BY OthersStill
  <1>2. (db' = db /\ ~intruded) \/ lock = p \/ lock = Nobody
    <2>1. CASE CommitRecord(p)
      BY <2>1, AtCommit DEF CommitRecord, All
    <2>2. CASE CommitDelete(p)
      BY <2>2, AtCommit DEF CommitDelete, Locked
    <2>3. CASE TakeLock(p)
      BY <2>3 DEF TakeLock
    <2>4. CASE ~CommitRecord(p) /\ ~CommitDelete(p) /\ ~TakeLock(p)
      BY <2>4 DEF Access, Unlock, Drop, GetEngram, GetMetadata, Fill, Look, Check, Patch, Clear,
         CommitLease, CommitFails, Publish, ReplicateBatch, Return, state
    <2> QED
      BY <2>1, <2>2, <2>3, <2>4
  <1>3. CASE q # p
    BY <1>1, <1>2, <1>3, OthersFreshRead
  <1>4. CASE q = p
    <2>1. CASE TakeLock(p)
      BY <1>4, <2>1, LockFirst DEF TakeLock, Working
    <2>2. CASE Unlock(p)
      BY <1>4, <2>2 DEF Unlock, Working
    <2>3. CASE Drop(p) \/ Fill(p) \/ Look(p) \/ Check(p) \/ Clear(p) \/ CommitFails(p) \/ Publish(p)
               \/ ReplicateBatch(p)
      BY <1>4, <2>3 DEF FreshRead, Working, Drop, Fill, Look, Check, Clear, CommitFails, Publish,
         ReplicateBatch, state
    <2>4. CASE GetEngram(p)
      BY <1>4, <2>4 DEF FreshRead, Working, GetEngram, TypeOK, state
    <2>5. CASE GetMetadata(p)
      BY <1>4, <2>5 DEF FreshRead, Working, GetMetadata, TypeOK, state
    <2>6. CASE Patch(p)
      BY <1>4, <2>6 DEF FreshRead, Working, Patch, TypeOK, state
    <2>7. CASE CommitRecord(p) \/ CommitLease(p) \/ CommitDelete(p)
      <3>1. done'[p] # NoEffect
        BY <2>7 DEF CommitRecord, CommitLease, CommitDelete, Did, TypeOK, NoEffect
      <3> QED
        BY <1>4, <3>1 DEF Working
    <2>8. CASE Return(p)
      BY <1>4, <2>8 DEF Return, TypeOK
    <2> QED
      BY <2>1, <2>2, <2>3, <2>4, <2>5, <2>6, <2>7, <2>8 DEF Access
  <1> QED
    BY <1>3, <1>4

LEMMA StepFreshRead == ASSUME TypeOK, Control, FreshRead, [Next]_vars PROVE FreshRead'
  <1>1. ASSUME NEW p \in Proc, Access(p) PROVE FreshRead'
    BY <1>1, AccessFreshRead
  <1>2. ASSUME NEW p \in Proc, NEW o \in Op, Start(p, o) PROVE FreshRead'
    <2>1. Reset(p) /\ lock' = lock /\ db' = db /\ intruded' = intruded
      BY <1>2, NotStarted DEF Start, state
    <2>2. ASSUME NEW q \in Proc \ {p} PROVE Still(q)
      BY <1>2, OthersStill
    <2> QED
      BY <2>1, <2>2 DEF FreshRead, Working, Still, Same, Reset
  <1>3. CASE Evict \/ Tick \/ UNCHANGED vars
    BY <1>3 DEF FreshRead, Working, Evict, Tick, vars, state, local
  <1> QED
    BY <1>1, <1>2, <1>3 DEF Next

LEMMA InitFreshRead == Init => FreshRead
  BY DEF Init, FreshRead

\* What a writer under the lock bases its write on.
LEMMA BaseIsRead ==
    ASSUME TypeOK, Control, NEW p \in Proc, CommitRecord(p), op[p] \in Locked
    PROVE  /\ Working(p) /\ rec[p] \in Record
           /\ Base(p) = {rec[p].ver} \cup (IF raw[p] = Gone THEN {} ELSE {raw[p].ver})
  <1>1. op[p] # "patch" /\ op[p] \notin Leasing \cup {"delete"}
    BY DEF CommitRecord, Writes, Locked, Leasing
  <1> QED
    BY <1>1, AtCommit DEF CommitRecord, Working, Base, TypeOK

\* Once a write has read the engram from Pebble under its stripe lock, it replaces exactly
\* the version it read, unless a writer without the lock (UpdateMetadata, Restore) came in
\* between.
THEOREM ReadsAreFresh == Spec => LockedReadsAreFresh
  <1>1. Init => FreshRead
    BY InitFreshRead
  <1>2. TypeOK /\ Control /\ FreshRead /\ [Next]_vars => FreshRead'
    BY StepFreshRead
  <1>3. TypeOK /\ Control /\ FreshRead /\ [Next]_vars =>
          [\A p \in Proc :
             CommitRecord(p) /\ op[p] \in Locked /\ ~hit[p] /\ ~intruded => Base(p) = {db.ver}]_vars
    <2> SUFFICES ASSUME TypeOK, Control, FreshRead, NEW p \in Proc, CommitRecord(p), op[p] \in Locked,
                        ~hit[p], ~intruded
                 PROVE  Base(p) = {db.ver}
      OBVIOUS
    <2>1. Working(p) /\ rec[p] # Gone
          /\ Base(p) = {rec[p].ver} \cup (IF raw[p] = Gone THEN {} ELSE {raw[p].ver})
      BY BaseIsRead
    <2>2. rec[p] = db /\ (raw[p] # Gone => raw[p] = db)
      BY <2>1 DEF FreshRead
    <2> QED
      BY <2>1, <2>2
  <1> QED
    BY <1>1, <1>2, <1>3, ControlHolds, PTL DEF Spec, LockedReadsAreFresh

-----------------------------------------------------------------------------
(* Caches and index *)

\* What p has read at all is what Pebble holds; CompareAndSet and the delete may
\* still find the metadata or the record of an engram that is gone.
FreshBase(p) ==
    Working(p) =>
      /\ op[p] \in Dropping /\ ~Ahead(p, "drop") /\ rec[p] = Gone => l1 = Gone
      /\ rec[p] # Gone /\ (op[p] \in Dropping \/ db # Gone) => rec[p] = db
      /\ op[p] = "delete" /\ ~Ahead(p, "get") /\ rec[p] = Gone => db = Gone
      /\ raw[p] # Gone => raw[p] = db /\ old[p] = db.state
      /\ op[p] \in Clearing /\ Ahead(p, "commit") /\ ~Ahead(p, "clear") => l1 = Gone /\ meta = Gone

\* What p is about to cache.
Filling(p) ==
    lock = p =>
      /\ Ahead(p, "fill") /\ ~Ahead(p, "get") => rec[p] = db
      /\ Ahead(p, "mfill") /\ ~Ahead(p, "meta") => db = Gone \/ rec[p] = db

\* What p has committed is what it will cache.
Committed(p) == lock = p /\ done[p] # NoEffect
Written(p)   == Committed(p) /\ Writes(p) => db = New(p)

\* Between the commit and the publication of a record the caches hold the one before.
Window(p)   == Committed(p) /\ Ahead(p, "publish")

\* DeleteEngram empties the L1 entry last.
Deleting(p) == op[p] = "delete" /\ done[p] # NoEffect /\ Ahead(p, "drop")

Coherent ==
    /\ \A p \in Proc : FreshBase(p) /\ Filling(p) /\ Written(p)
    /\ db # Gone /\ (\A p \in Proc : ~Window(p)) => l1 \in {Gone, db} /\ meta \in {Gone, db}
    /\ db = Gone /\ l1 # Gone => \E p \in Proc : Deleting(p)
    /\ index = IF db = Gone THEN {} ELSE {db.state}

\* Before its commit a process has nothing to publish and nothing to append.
LEMMA NotDone ==
    ASSUME Control, NEW p \in Proc,
           NEW x \in {"look", "lock", "get", "fill", "meta", "mfill", "check", "patch", "clear", "commit"},
           At(p, x)
    PROVE  op[p] \in Reading \/ done[p] = NoEffect
  <1>1. ASSUME Running(p), x \in {"get", "fill", "meta", "mfill"}
        PROVE  op[p] \in Reading \/ done[p] = NoEffect
    BY <1>1, NextIsFirst, GetOrder, FillOrder, MetaOrder, MfillOrder
       DEF Running, Doing, Step, Metaing, Locked, Reading
  <1>2. ASSUME Running(p), x \in {"look", "lock", "check", "patch", "clear", "commit"}
        PROVE  done[p] = NoEffect
    BY <1>2, NextIsFirst, LookOrder, LockOrder, CheckOrder, PatchOrder, ClearOrder, CommitOrder
       DEF Running, Doing, Step, After
  <1> QED
    BY <1>1, <1>2 DEF Control, Reset, Aborting, At

\* A step that leaves Pebble alone and puts nothing into a cache.
Passive == db' = db /\ index' = index /\ l1' \in {l1, Gone} /\ meta' \in {meta, Gone}

LEMMA OthersCoherent ==
    ASSUME Coherent, NEW q \in Proc, Still(q), lock = q => Passive
    PROVE  FreshBase(q)' /\ Filling(q)' /\ Written(q)'
  <1>1. /\ op'[q] = op[q] /\ rec'[q] = rec[q] /\ raw'[q] = raw[q] /\ old'[q] = old[q]
        /\ id'[q] = id[q] /\ done'[q] = done[q] /\ (lock' = q <=> lock = q)
    BY DEF Still, Same
  <1>2. \A x : Ahead(q, x)' <=> Ahead(q, x)
    BY OthersKeepControl DEF Still
  <1>3. FreshBase(q)'
    BY <1>1, <1>2 DEF Coherent, FreshBase, Working, Passive
  <1>4. Filling(q)'
    BY <1>1, <1>2 DEF Coherent, Filling, Passive
  <1>5. New(q)' = New(q) /\ (Writes(q)' <=> Writes(q))
    BY <1>1 DEF New, NewState, Writes
  <1>6. Written(q)'
    BY <1>1, <1>5 DEF Coherent, Written, Committed, Passive
  <1> QED
    BY <1>3, <1>4, <1>6

LEMMA OthersWindow ==
    ASSUME NEW q \in Proc, Still(q)
    PROVE  (Window(q)' <=> Window(q)) /\ (Deleting(q)' <=> Deleting(q))
  BY OthersKeepControl DEF Still, Same, Window, Committed, Deleting

LEMMA PassiveCoherent ==
    ASSUME Coherent, Passive, NEW p \in Proc, \A q \in Proc \ {p} : Still(q),
           FreshBase(p)', Filling(p)', Written(p)',
           Window(p) => Window(p)', Deleting(p) => Deleting(p)' \/ l1' = Gone
    PROVE  Coherent'
  <1>1. \A q \in Proc : (FreshBase(q) /\ Filling(q) /\ Written(q))'
    BY OthersCoherent
  <1>2. (\A q \in Proc : ~Window(q)') => \A q \in Proc : ~Window(q)
    BY OthersWindow
  <1>3. db' # Gone /\ (\A q \in Proc : ~Window(q)') => l1' \in {Gone, db'} /\ meta' \in {Gone, db'}
    BY <1>2 DEF Coherent, Passive
  <1>4. ASSUME db' = Gone, l1' # Gone PROVE \E q \in Proc : Deleting(q)'
    <2>1. PICK q \in Proc : Deleting(q)
      BY <1>4 DEF Coherent, Passive
    <2> QED
      BY <1>4, <2>1, OthersWindow
  <1> QED
    BY <1>1, <1>3, <1>4 DEF Coherent, Passive

\* p goes on, and what it has read stays.
LEMMA PassesBase ==
    ASSUME TypeOK, Coherent, Passive, NEW p \in Proc, Running(p),
           NEW x \in Step \ {"get", "meta", "fill", "mfill", "lock", "unlock"}, At(p, x), op' = op,
           Proceed(p), lock' = lock, rec' = rec, raw' = raw, old' = old, id' = id,
           done' = done \/ op[p] \in Leasing,
           x = "drop" => l1' = Gone, x = "clear" => l1' = Gone /\ meta' = Gone
    PROVE  FreshBase(p)' /\ Filling(p)' /\ Written(p)'
  <1>1. \A y \in Step : Ahead(p, y)' <=> Ahead(p, y) /\ y # x
    BY Passing
  <1>2. /\ ~Ahead(p, "drop")' => ~Ahead(p, "drop") \/ l1' = Gone
        /\ (Ahead(p, "get")' <=> Ahead(p, "get")) /\ (Ahead(p, "commit")' => Ahead(p, "commit"))
        /\ ~Ahead(p, "clear")' => ~Ahead(p, "clear") \/ (l1' = Gone /\ meta' = Gone)
        /\ (Ahead(p, "fill")' <=> Ahead(p, "fill")) /\ (Ahead(p, "mfill")' <=> Ahead(p, "mfill"))
        /\ (Ahead(p, "meta")' <=> Ahead(p, "meta"))
    <2>1. {"drop", "get", "commit", "clear", "fill", "mfill", "meta"} \subseteq Step
      BY DEF Step
    <2>2. x \notin {"get", "fill", "mfill", "meta"}
      OBVIOUS
    <2> HIDE DEF Passive
    <2> QED
      BY <1>1, <2>1, <2>2
  <1>3. FreshBase(p)'
    <2> SUFFICES ASSUME Working(p)' PROVE FreshBase(p)'
      BY DEF FreshBase
    <2>1. Working(p)
      BY DEF Working
    <2> QED
      BY <1>2, <2>1 DEF Coherent, FreshBase, Passive
  <1>4. Filling(p)'
    BY <1>2 DEF Coherent, Filling, Passive
  <1>5. New(p)' = New(p) /\ (Writes(p)' <=> Writes(p)) /\ (op[p] \in Leasing => ~Writes(p))
    BY DEF New, NewState, Writes, Leasing
  <1>6. Written(p)'
    BY <1>5 DEF Coherent, Written, Committed, Passive
  <1> QED
    BY <1>3, <1>4, <1>6

\* p returns early.
LEMMA StopsBase ==
    ASSUME TypeOK, Control, Coherent, Passive, NEW p \in Proc, Stops(p), op' = op, lock' = lock, raw' = raw,
           old' = old, id' = id, done' = done, done[p] = NoEffect \/ op[p] \notin Locked,
           rec'[p] = rec[p] \/ rec'[p] = Gone,
           op[p] \in Dropping /\ rec'[p] = Gone => l1' = Gone,
           op[p] = "delete" /\ rec'[p] = Gone => db = Gone
    PROVE  /\ FreshBase(p)' /\ Filling(p)' /\ Written(p)'
           /\ ~Window(p)
  <1>1. lock = p => op[p] \in Locked
    BY DEF Control, Reset, Running, Aborting, Locking
  <1>2. FreshBase(p)'
    <2> SUFFICES ASSUME Working(p)' PROVE FreshBase(p)'
      BY DEF FreshBase
    <2>1. Working(p) /\ op[p] \notin Leasing
      BY DEF Working
    <2> QED
      BY <2>1 DEF Coherent, FreshBase, Passive, Stops
  <1>3. Filling(p)'
    BY DEF Filling, Stops
  <1>4. Written(p)' /\ ~Window(p)
    BY <1>1 DEF Written, Window, Committed
  <1> QED
    BY <1>2, <1>3, <1>4

LEMMA NothingToPublish ==
    ASSUME Control, NEW p \in Proc,
           NEW x \in {"look", "lock", "get", "fill", "meta", "mfill", "check", "patch", "clear", "commit"},
           At(p, x)
    PROVE  ~Window(p) /\ ~Deleting(p) /\ (op[p] \in Locked => done[p] = NoEffect)
  <1>1. op[p] \in Reading \/ done[p] = NoEffect
    BY NotDone
  <1>2. lock = p => op[p] \in Locked
    BY DEF Control, Reset, Running, Aborting, Locking
  <1> QED
    BY <1>1, <1>2 DEF Window, Committed, Deleting, Reading, Locked

LEMMA TakeLockCoherent ==
    ASSUME TypeOK, Control, Coherent, NEW p \in Proc, TakeLock(p) PROVE Coherent'
  <1>1. Running(p) /\ At(p, "lock") /\ op' = op /\ Proceed(p)
    BY AtIsRunning DEF TakeLock
  <1>2. /\ op[p] \in Locked
        /\ Ahead(p, "drop")' <=> op[p] \in Getting
        /\ Ahead(p, "get")' <=> op[p] \in Getting
        /\ Ahead(p, "fill")' <=> op[p] \in Getting
        /\ Ahead(p, "meta")' <=> op[p] \in Checking
        /\ Ahead(p, "mfill")' <=> op[p] \in Checking
        /\ Ahead(p, "clear")' <=> op[p] \in Clearing
    BY <1>1, Passing, LockOrder DEF Step
  <1>3. Passive /\ rec' = rec /\ raw' = raw /\ done' = done
    BY DEF TakeLock, Passive
  <1>4. op[p] \notin Leasing => rec[p] = Gone /\ raw[p] = Gone /\ done[p] = NoEffect
    BY <1>1, LockFirst
  <1>5. FreshBase(p)'
    BY <1>1, <1>2, <1>3, <1>4 DEF FreshBase, Working, Dropping, Getting
  <1>6. Filling(p)'
    BY <1>2 DEF Filling
  <1>7. Written(p)'
    BY <1>1, <1>3, <1>4 DEF Written, Committed, Writes, Leasing
  <1>8. ~Window(p) /\ ~Deleting(p)
    BY <1>1, NothingToPublish
  <1>9. \A q \in Proc \ {p} : Still(q)
    BY OthersStill DEF Access
  <1> QED
    BY <1>3, <1>5, <1>6, <1>7, <1>8, <1>9, PassiveCoherent

LEMMA UnlockCoherent ==
    ASSUME TypeOK, Control, Coherent, NEW p \in Proc, Unlock(p) PROVE Coherent'
  <1>1. Passive /\ lock' # p /\ op' = op /\ done' = done
    BY DEF Unlock, Passive
  <1>2. FreshBase(p)' /\ Filling(p)' /\ Written(p)'
    BY <1>1 DEF FreshBase, Working, Filling, Written, Committed
  <1>3. ~Window(p) /\ (Deleting(p) => Deleting(p)')
    <2>1. CASE Running(p)
      <3>1. \A y \in Step : Ahead(p, y)' <=> Ahead(p, y) /\ y # "unlock"
        BY <1>1, <2>1, Passing DEF Unlock
      <3>2. ~Ahead(p, "publish") /\ (Ahead(p, "drop")' <=> Ahead(p, "drop"))
        BY <2>1, <3>1, NextIsFirst, UnlockOrder DEF Unlock, Never, Step
      <3> QED
        BY <1>1, <3>2 DEF Window, Deleting
    <2>2. CASE Aborting(p)
      BY <2>2 DEF Aborting, Window, Committed, Deleting
    <2> QED
      BY <2>1, <2>2 DEF Control, Reset, Unlock, At
  <1>4. \A q \in Proc \ {p} : Still(q)
    BY OthersStill DEF Access
  <1> QED
    BY <1>1, <1>2, <1>3, <1>4, PassiveCoherent

LEMMA DropCoherent ==
    ASSUME TypeOK, Control, Coherent, NEW p \in Proc, Drop(p) PROVE Coherent'
  <1>1. Running(p) /\ At(p, "drop") /\ op' = op /\ Proceed(p)
    BY AtIsRunning DEF Drop
  <1>2. Passive /\ l1' = Gone
    BY DEF Drop, Passive
  <1>3. FreshBase(p)' /\ Filling(p)' /\ Written(p)'
    BY <1>1, <1>2, PassesBase DEF Drop, Step
  <1>4. ~Window(p)
    <2>1. Ahead(p, "commit") \/ ~Ahead(p, "publish")
      BY <1>1, NextIsFirst, DropOrder DEF Step, Dropping, Publishing
    <2> QED
      BY <1>1, <2>1 DEF Window, Committed, Running, Doing
  <1>5. \A q \in Proc \ {p} : Still(q)
    BY OthersStill DEF Access
  <1> QED
    BY <1>2, <1>3, <1>4, <1>5, PassiveCoherent

LEMMA LookCoherent ==
    ASSUME TypeOK, Control, Coherent, NEW p \in Proc, Look(p) PROVE Coherent'
  <1>1. Running(p) /\ At(p, "look") /\ op' = op /\ op[p] \in Leasing
    BY AtIsRunning, NextIsFirst, LookOrder DEF Look
  <1>2. Passive /\ lock' = lock /\ rec' = rec /\ raw' = raw /\ old' = old /\ id' = id /\ done' = done
    BY DEF Look, Passive, state
  <1>3. FreshBase(p)' /\ Filling(p)' /\ Written(p)'
    <2>1. CASE Proceed(p)
      BY <1>1, <1>2, <2>1, PassesBase DEF Step
    <2>2. CASE Go(p, <<>>)
      <3>1. Stops(p)
        BY <1>1, <2>2, StopsEarly DEF Go, TypeOK
      <3>2. op[p] \notin Dropping /\ op[p] # "delete" /\ done[p] = NoEffect
        BY <1>1, NothingToPublish DEF Leasing, Dropping, Locked
      <3> QED
        BY <1>1, <1>2, <3>1, <3>2, StopsBase
    <2> QED
      BY <2>1, <2>2 DEF Look
  <1>4. ~Window(p) /\ ~Deleting(p)
    BY <1>1, NothingToPublish
  <1>5. \A q \in Proc \ {p} : Still(q)
    BY OthersStill DEF Access
  <1> QED
    BY <1>2, <1>3, <1>4, <1>5, PassiveCoherent

LEMMA CheckCoherent ==
    ASSUME TypeOK, Control, Coherent, NEW p \in Proc, Check(p) PROVE Coherent'
  <1>1. Running(p) /\ At(p, "check") /\ op' = op /\ op[p] \in Checking
    BY AtIsRunning, NextIsFirst, CheckOrder DEF Check
  <1>2. Passive /\ lock' = lock /\ rec' = rec /\ raw' = raw /\ old' = old /\ id' = id /\ done' = done
    BY DEF Check, Passive, state
  <1>3. FreshBase(p)' /\ Filling(p)' /\ Written(p)'
    <2>1. CASE Proceed(p)
      BY <1>1, <1>2, <2>1, PassesBase DEF Step
    <2>2. CASE Go(p, Cleanup(p, "check") \o Retry(p))
      <3>1. Stops(p)
        BY <1>1, <2>2, CheckStops
      <3>2. op[p] \notin Dropping /\ op[p] # "delete" /\ (op[p] \in Locked => done[p] = NoEffect)
        BY <1>1, NothingToPublish DEF Checking, Dropping
      <3> QED
        BY <1>1, <1>2, <3>1, <3>2, StopsBase
    <2> QED
      BY <2>1, <2>2 DEF Check
  <1>4. ~Window(p) /\ ~Deleting(p)
    BY <1>1, NothingToPublish
  <1>5. \A q \in Proc \ {p} : Still(q)
    BY OthersStill DEF Access
  <1> QED
    BY <1>2, <1>3, <1>4, <1>5, PassiveCoherent

LEMMA ClearCoherent ==
    ASSUME TypeOK, Control, Coherent, NEW p \in Proc, Clear(p) PROVE Coherent'
  <1>1. At(p, "clear") /\ op' = op /\ Proceed(p)
    BY DEF Clear
  <1>2. /\ Passive /\ l1' = Gone /\ meta' = Gone
        /\ lock' = lock /\ rec' = rec /\ raw' = raw /\ old' = old /\ id' = id /\ done' = done
    BY DEF Clear, Passive
  <1>3. FreshBase(p)' /\ Filling(p)' /\ Written(p)'
    <2>1. CASE Running(p)
      BY <1>1, <1>2, <2>1, PassesBase DEF Step
    <2>2. CASE Aborting(p)
      <3>1. todo'[p] = Tail(todo[p]) /\ Head(todo[p]) = "clear"
        BY <1>1 DEF Proceed, Go, At, TypeOK
      <3>2. op[p] \in Locked /\ todo'[p] = <<"unlock">>
        BY <2>2, <3>1, TailOfAborting DEF Aborting
      <3>3. Stops(p)
        BY <1>1, <3>2, StopsEarly
      <3>4. done[p] = NoEffect /\ op[p] = "tags"
        BY <2>2, <3>1, UnlockFirst DEF Aborting, LeaseProgram, Step
      <3> QED
        BY <1>1, <1>2, <3>3, <3>4, StopsBase
    <2> QED
      BY <1>1, <2>1, <2>2 DEF Control, Reset, At
  <1>4. ~Window(p) /\ ~Deleting(p)
    BY <1>1, NothingToPublish
  <1>5. \A q \in Proc \ {p} : Still(q)
    BY OthersStill DEF Access
  <1> QED
    BY <1>2, <1>3, <1>4, <1>5, PassiveCoherent

LEMMA CommitLeaseCoherent ==
    ASSUME TypeOK, Control, Coherent, NEW p \in Proc, CommitLease(p) PROVE Coherent'
  <1>1. Running(p) /\ At(p, "commit") /\ op' = op /\ Proceed(p) /\ op[p] \in Leasing
    BY AtIsRunning DEF CommitLease, Leasing
  <1>2. Passive /\ lock' = lock /\ rec' = rec /\ raw' = raw /\ old' = old /\ id' = id
    BY DEF CommitLease, Passive
  <1>3. FreshBase(p)' /\ Filling(p)' /\ Written(p)'
    BY <1>1, <1>2, PassesBase DEF Step
  <1>4. ~Window(p) /\ ~Deleting(p)
    BY <1>1, NothingToPublish
  <1>5. \A q \in Proc \ {p} : Still(q)
    BY OthersStill DEF Access
  <1> QED
    BY <1>2, <1>3, <1>4, <1>5, PassiveCoherent

LEMMA CommitFailsCoherent ==
    ASSUME TypeOK, Control, Coherent, NEW p \in Proc, CommitFails(p) PROVE Coherent'
  <1>1. Running(p) /\ At(p, "commit") /\ op' = op
    BY AtIsRunning DEF CommitFails
  <1>2. Passive /\ lock' = lock /\ rec' = rec /\ raw' = raw /\ old' = old /\ id' = id /\ done' = done
    BY DEF CommitFails, Passive, state
  <1>3. Stops(p)
    BY AbortStops DEF CommitFails
  <1>4. /\ op[p] \in Locked => done[p] = NoEffect
        /\ ~Window(p) /\ ~Deleting(p)
    BY <1>1, NothingToPublish
  <1>5. /\ op[p] \in Dropping /\ rec[p] = Gone => FALSE
        /\ op[p] = "delete" /\ rec[p] = Gone => db = Gone
    <2>1. CASE op[p] \in Dropping
      BY <1>1, <2>1, AtCommit DEF Dropping, Leasing
    <2>2. CASE op[p] = "delete"
      <3>1. Working(p) /\ ~Ahead(p, "get")
        BY <1>1, <1>4, <2>2, AtCommit, NextIsFirst, CommitOrder DEF Working, Never, Step, Leasing, Locked
      <3> QED
        BY <2>2, <3>1 DEF Coherent, FreshBase, Dropping
    <2> QED
      BY <2>1, <2>2
  <1>6. FreshBase(p)' /\ Filling(p)' /\ Written(p)'
    BY <1>1, <1>2, <1>3, <1>4, <1>5, StopsBase
  <1>7. \A q \in Proc \ {p} : Still(q)
    BY OthersStill DEF Access
  <1> QED
    BY <1>2, <1>4, <1>6, <1>7, PassiveCoherent

LEMMA ReplicateBatchCoherent ==
    ASSUME TypeOK, Control, Coherent, NEW p \in Proc, ReplicateBatch(p) PROVE Coherent'
  <1>1. Running(p) /\ At(p, "append") /\ op' = op /\ Proceed(p)
    BY AtIsRunning DEF ReplicateBatch
  <1>2. Passive /\ lock' = lock /\ rec' = rec /\ raw' = raw /\ old' = old /\ id' = id /\ done' = done
    BY DEF ReplicateBatch, Passive, state
  <1>3. FreshBase(p)' /\ Filling(p)' /\ Written(p)'
    BY <1>1, <1>2, PassesBase DEF Step
  <1>4. \A y \in Step : Ahead(p, y)' <=> Ahead(p, y) /\ y # "append"
    BY <1>1, Passing
  <1>5. (Ahead(p, "publish")' <=> Ahead(p, "publish")) /\ (Ahead(p, "drop")' <=> Ahead(p, "drop"))
    BY <1>4 DEF Step
  <1>6. (Window(p) => Window(p)') /\ (Deleting(p) => Deleting(p)')
    BY <1>1, <1>2, <1>5 DEF Window, Committed, Deleting
  <1>7. \A q \in Proc \ {p} : Still(q)
    BY OthersStill DEF Access
  <1> QED
    BY <1>2, <1>3, <1>6, <1>7, PassiveCoherent

LEMMA ReturnCoherent ==
    ASSUME TypeOK, Control, Coherent, NEW p \in Proc, Return(p) PROVE Coherent'
  <1>1. Passive /\ lock' = lock /\ op[p] # "none" /\ todo[p] = <<>>
    BY DEF Return, Passive, state
  <1>2. \A y : ~Ahead(p, y)
    <2>1. \A k : k \notin 1 .. 0
      OBVIOUS
    <2> QED
      BY <1>1, <2>1, EmptyIsRegular, Zenon DEF Ahead
  <1>3. lock # p
    BY <1>1, <1>2, TailOfAborting DEF Control, Reset, Running, Locking
  <1>4. FreshBase(p)' /\ Filling(p)' /\ Written(p)'
    BY <1>1, <1>3 DEF FreshBase, Working, Filling, Written, Committed
  <1>5. ~Window(p) /\ ~Deleting(p)
    BY <1>2 DEF Window, Deleting
  <1>6. \A q \in Proc \ {p} : Still(q)
    BY OthersStill DEF Access
  <1> QED
    BY <1>1, <1>4, <1>5, <1>6, PassiveCoherent

LEMMA StartCoherent ==
    ASSUME TypeOK, Control, Coherent, NEW p \in Proc, NEW o \in Op, Start(p, o) PROVE Coherent'
  <1>1. Passive /\ lock' = lock /\ Reset(p)
    BY NotStarted DEF Start, Passive, state
  <1>2. FreshBase(p)' /\ Filling(p)' /\ Written(p)'
    BY <1>1 DEF FreshBase, Working, Filling, Written, Committed, Reset
  <1>3. ~Window(p) /\ ~Deleting(p)
    BY <1>1 DEF Window, Committed, Deleting, Reset
  <1>4. \A q \in Proc \ {p} : Still(q)
    BY OthersStill
  <1> QED
    BY <1>1, <1>2, <1>3, <1>4, PassiveCoherent

LEMMA EvictCoherent == ASSUME Coherent, Passive, UNCHANGED <<local, lock>> PROVE Coherent'
  <1>1. \A q \in Proc : Still(q)
    BY DEF local, Still, Same
  <1>2. \A q \in Proc : (FreshBase(q) /\ Filling(q) /\ Written(q))'
    BY <1>1, OthersCoherent
  <1>3. \A q \in Proc : (Window(q)' <=> Window(q)) /\ (Deleting(q)' <=> Deleting(q))
    BY <1>1, OthersWindow
  <1>4. db' # Gone /\ (\A q \in Proc : ~Window(q)') => l1' \in {Gone, db'} /\ meta' \in {Gone, db'}
    BY <1>3 DEF Coherent, Passive
  <1>5. db' = Gone /\ l1' # Gone => \E q \in Proc : Deleting(q)'
    BY <1>3 DEF Coherent, Passive
  <1> QED
    BY <1>2, <1>4, <1>5 DEF Coherent, Passive

\* While a writer works under the lock, the caches are those of Pebble or empty.
LEMMA NoWindow ==
    ASSUME Coherent, NEW p \in Proc, lock = p, done[p] = NoEffect, db # Gone
    PROVE  l1 \in {Gone, db} /\ meta \in {Gone, db}
  BY DEF Coherent, Window, Committed

LEMMA GetEngramCoherent ==
    ASSUME TypeOK, Control, Coherent, NEW p \in Proc, GetEngram(p) PROVE Coherent'
  <1>1. Running(p) /\ At(p, "get") /\ op' = op /\ op[p] \in All
    BY AtIsRunning DEF GetEngram, Running
  <1>2. /\ Passive /\ lock' = lock /\ raw' = raw /\ old' = old /\ id' = id /\ done' = done
        /\ db' = db /\ l1' = l1 /\ meta' = meta
        /\ rec' = [rec EXCEPT ![p] = IF l1 # Gone THEN l1 ELSE db]
    BY DEF GetEngram, Passive, state
  <1>3. rec'[p] = IF l1 # Gone THEN l1 ELSE db
    BY <1>2 DEF TypeOK
  <1>4. /\ op[p] \in Getting /\ ~Ahead(p, "mfill") /\ Ahead(p, "fill") /\ Ahead(p, "get")
        /\ Ahead(p, "drop") => op[p] = "delete"
        /\ Left.fill[op[p]] \in 1 .. 9 /\ Left.get[op[p]] = Left.fill[op[p]] + 1
    BY <1>1, NextIsFirst, GetOrder DEF After, Never, Step
  <1>5. /\ op[p] \in Locked => done[p] = NoEffect
        /\ ~Window(p) /\ ~Deleting(p)
    BY <1>1, NothingToPublish
  <1>6. /\ lock = p => op[p] \in Locked
        /\ rec[p] = Gone
    BY <1>1, <1>4 DEF Running, Locking, GotRec, Getting, Leasing
  <1>7. lock = p /\ op[p] \in Dropping => l1 = Gone /\ rec'[p] = db
    BY <1>3, <1>4, <1>5, <1>6 DEF Coherent, FreshBase, Working, Dropping, Leasing
  <1>8. lock = p /\ db # Gone => rec'[p] = db
    BY <1>3, <1>5, <1>6, NoWindow
  <1>9. \A q \in Proc \ {p} : Still(q)
    BY OthersStill DEF Access
  <1>10. CASE Abort(p) /\ l1 = Gone /\ db = Gone
    <2>1. Stops(p)
      BY <1>1, <1>10, AbortStops
    <2>2. FreshBase(p)' /\ Filling(p)' /\ Written(p)'
      BY <1>1, <1>2, <1>3, <1>5, <1>10, <2>1, StopsBase
    <2> QED
      BY <1>2, <1>5, <1>9, <2>2, PassiveCoherent
  <1>11. CASE SkipFill(p) \/ (Proceed(p) /\ l1 = Gone)
    <2>1. /\ (Ahead(p, "mfill")' <=> Ahead(p, "mfill")) /\ (Ahead(p, "drop")' <=> Ahead(p, "drop"))
          /\ (Ahead(p, "commit")' <=> Ahead(p, "commit")) /\ (Ahead(p, "clear")' <=> Ahead(p, "clear"))
      <3>1. CASE Proceed(p)
        BY <1>1, <3>1, Advance DEF Step
      <3>2. CASE SkipFill(p)
        BY SMTT(30), <1>1, <1>4, <3>2, AdvanceTwo DEF Step
      <3> QED
        BY <1>11, <3>1, <3>2
    <2>2. FreshBase(p)'
      BY <1>1, <1>2, <1>3, <1>5, <1>6, <1>7, <1>8, <2>1 DEF Coherent, FreshBase, Working, Dropping
    <2>3. Filling(p)'
      <3>1. CASE Proceed(p) /\ l1 = Gone
        BY <1>2, <1>3, <1>4, <2>1, <3>1 DEF Filling
      <3>2. CASE SkipFill(p)
        <4>1. ~Ahead(p, "fill")'
          BY <1>1, <1>4, <3>2, AdvanceTwo DEF Step
        <4> QED
          BY <1>4, <2>1, <4>1 DEF Filling
      <3> QED
        BY <1>11, <3>1, <3>2
    <2>4. Written(p)'
      BY <1>2, <1>5, <1>6 DEF Written, Committed
    <2> QED
      BY <1>2, <1>5, <1>9, <2>2, <2>3, <2>4, PassiveCoherent
  <1> QED
    BY <1>10, <1>11 DEF GetEngram

LEMMA GetMetadataCoherent ==
    ASSUME TypeOK, Control, Coherent, NEW p \in Proc, GetMetadata(p) PROVE Coherent'
  <1> DEFINE r == IF meta # Gone THEN meta ELSE IF l1 # Gone THEN l1 ELSE db
  <1>1. Running(p) /\ At(p, "meta") /\ op' = op /\ op[p] \in All
    BY AtIsRunning DEF GetMetadata, Running
  <1>2. /\ Passive /\ lock' = lock /\ raw' = raw /\ old' = old /\ id' = id /\ done' = done
        /\ db' = db /\ l1' = l1 /\ meta' = meta /\ rec' = [rec EXCEPT ![p] = r]
    BY DEF GetMetadata, Passive, state
  <1>3. rec'[p] = r
    BY <1>2 DEF TypeOK
  <1>4. /\ op[p] \in Metaing /\ ~Ahead(p, "fill") /\ ~Ahead(p, "get")
        /\ Left.mfill[op[p]] \in 1 .. 9 /\ Left.meta[op[p]] = Left.mfill[op[p]] + 1
    BY <1>1, NextIsFirst, MetaOrder DEF Never, Step
  <1>5. /\ op[p] \in Locked => done[p] = NoEffect
        /\ ~Window(p) /\ ~Deleting(p)
    BY <1>1, NothingToPublish
  <1>6. /\ lock = p => op[p] \in Locked
        /\ op[p] \notin Dropping \cup {"delete"}
    BY <1>1, <1>4 DEF Running, Locking, Metaing, Dropping
  <1>7. lock = p /\ db # Gone => rec'[p] = db
    BY <1>3, <1>5, <1>6, NoWindow
  <1>8. \A q \in Proc \ {p} : Still(q)
    BY OthersStill DEF Access
  <1>9. CASE Abort(p) /\ rec'[p] = Gone
    <2>1. Stops(p)
      BY <1>1, <1>9, AbortStops
    <2>2. FreshBase(p)' /\ Filling(p)' /\ Written(p)'
      BY <1>1, <1>2, <1>5, <1>6, <1>9, <2>1, StopsBase
    <2> QED
      BY <1>2, <1>5, <1>8, <2>2, PassiveCoherent
  <1>10. CASE SkipFill(p) \/ Proceed(p)
    <2>1. /\ (Ahead(p, "fill")' <=> Ahead(p, "fill")) /\ (Ahead(p, "get")' <=> Ahead(p, "get"))
          /\ (Ahead(p, "commit")' <=> Ahead(p, "commit")) /\ (Ahead(p, "clear")' <=> Ahead(p, "clear"))
      <3>1. CASE Proceed(p)
        BY <1>1, <3>1, Advance DEF Step
      <3>2. CASE SkipFill(p)
        BY SMTT(30), <1>1, <1>4, <3>2, AdvanceTwo DEF Step
      <3> QED
        BY <1>10, <3>1, <3>2
    <2>2. FreshBase(p)'
      BY <1>1, <1>2, <1>5, <1>6, <1>7, <2>1 DEF Coherent, FreshBase, Working
    <2>3. Filling(p)'
      BY <1>2, <1>4, <1>7, <2>1 DEF Filling
    <2>4. Written(p)'
      BY <1>2, <1>5, <1>6 DEF Written, Committed
    <2> QED
      BY <1>2, <1>5, <1>8, <2>2, <2>3, <2>4, PassiveCoherent
  <1> QED
    BY <1>2, <1>3, <1>9, <1>10 DEF GetMetadata

LEMMA PatchCoherent ==
    ASSUME TypeOK, Control, Coherent, NEW p \in Proc, Patch(p) PROVE Coherent'
  <1>1. Running(p) /\ At(p, "patch") /\ op' = op /\ op[p] \in Patching
    BY AtIsRunning, NextIsFirst, PatchOrder DEF Patch
  <1>2. /\ Passive /\ lock' = lock /\ rec' = rec /\ id' = id /\ done' = done
        /\ db' = db /\ l1' = l1 /\ meta' = meta
    BY DEF Patch, Passive, state
  <1>3. /\ op[p] \in Locked => done[p] = NoEffect
        /\ ~Window(p) /\ ~Deleting(p)
    BY <1>1, NothingToPublish
  <1>4. /\ lock = p => op[p] \in Locked
        /\ rec[p] # Gone \/ op[p] \notin Dropping
    <2>1. ~Ahead(p, "get") /\ ~Ahead(p, "meta")
      BY <1>1, NextIsFirst, PatchOrder DEF Never, Step
    <2> QED
      BY <1>1, <2>1 DEF Running, Locking, GotRec, Dropping, Leasing, Reading, At
  <1>5. \A q \in Proc \ {p} : Still(q)
    BY OthersStill DEF Access
  <1>6. CASE db = Gone
    <2>1. Abort(p) /\ raw' = raw /\ old' = old
      BY <1>6 DEF Patch
    <2>2. Stops(p) /\ op[p] # "delete"
      BY <1>1, <2>1, AbortStops DEF Patching
    <2>3. FreshBase(p)' /\ Filling(p)' /\ Written(p)'
      BY <1>1, <1>2, <1>3, <1>4, <2>1, <2>2, StopsBase
    <2> QED
      BY <1>2, <1>3, <1>5, <2>3, PassiveCoherent
  <1>7. CASE db # Gone
    <2>1. /\ Proceed(p) /\ raw'[p] = db
          /\ old'[p] = IF meta # Gone THEN meta.state ELSE IF l1 # Gone THEN l1.state ELSE db.state
      BY <1>7 DEF Patch, TypeOK
    <2>2. \A y \in Step : Ahead(p, y)' <=> Ahead(p, y) /\ y # "patch"
      BY <1>1, <2>1, Passing
    <2>3. /\ (Ahead(p, "fill")' <=> Ahead(p, "fill")) /\ (Ahead(p, "get")' <=> Ahead(p, "get"))
          /\ (Ahead(p, "mfill")' <=> Ahead(p, "mfill")) /\ (Ahead(p, "meta")' <=> Ahead(p, "meta"))
          /\ (Ahead(p, "commit")' <=> Ahead(p, "commit")) /\ (Ahead(p, "clear")' <=> Ahead(p, "clear"))
          /\ (Ahead(p, "drop")' <=> Ahead(p, "drop"))
      BY <2>2 DEF Step
    <2>4. lock = p => old'[p] = db.state
      BY <1>3, <1>4, <1>7, <2>1, NoWindow
    <2>5. FreshBase(p)'
      BY <1>1, <1>2, <1>3, <1>4, <2>1, <2>3, <2>4 DEF Coherent, FreshBase, Working
    <2>6. Filling(p)'
      BY <1>2, <2>3 DEF Coherent, Filling
    <2>7. Written(p)'
      BY <1>2, <1>3, <1>4 DEF Written, Committed
    <2> QED
      BY <1>2, <1>3, <1>5, <2>5, <2>6, <2>7, PassiveCoherent
  <1> QED
    BY <1>6, <1>7

\* What goes into a cache that no fill has overlapped is what Pebble holds, or, of the
\* metadata, of an engram that is gone.
LEMMA FillCoherent ==
    ASSUME TypeOK, Control, Coherent, NEW p \in Proc, Fill(p), ~Overlaps(p) PROVE Coherent'
  <1>1. \A q \in Proc \ {p} : Still(q)
    BY OthersStill DEF Access
  <1>2. /\ op' = op /\ Proceed(p) /\ lock' = lock /\ rec' = rec /\ raw' = raw /\ old' = old
        /\ id' = id /\ done' = done /\ db' = db /\ index' = index
    BY DEF Fill
  <1>3. op[p] \in Locked \/ (lock = Nobody /\ rec[p] = db)
    BY DEF Overlaps, TypeOK
  <1>4. PICK x \in {"fill", "mfill"} :
          /\ At(p, x)
          /\ x = "fill" => l1' = rec[p] /\ meta' = meta
          /\ x = "mfill" => meta' = rec[p] /\ l1' = l1
    BY DEF Fill
  <1>5. Running(p)
    BY <1>4, AtIsRunning
  <1>6. \A y \in Step : Ahead(p, y)' <=> Ahead(p, y) /\ y # x
    BY <1>2, <1>4, <1>5, Passing
  <1>7. /\ ~Ahead(p, "get") /\ ~Ahead(p, "meta") /\ ~Ahead(p, "lock") /\ Ahead(p, x)
        /\ op[p] \in Locked => Ahead(p, "unlock")
        /\ x = "fill" => ~Ahead(p, "mfill")
        /\ x = "mfill" => ~Ahead(p, "fill")
        /\ op[p] \in Clearing => Ahead(p, "clear")
    BY <1>4, <1>5, NextIsFirst, FillOrder, MfillOrder DEF Never, Step, Metaing, Clearing, Patching
  <1>8. ~Window(p) /\ ~Deleting(p)
    BY <1>4, NothingToPublish
  <1>9. op[p] \in Locked => lock = p
    BY <1>5, <1>7 DEF Running, Locking
  <1>10. /\ x = "fill" => rec[p] = db /\ rec[p] # Gone
         /\ x = "mfill" => db = Gone \/ rec[p] = db
    BY <1>3, <1>5, <1>7, <1>9 DEF Coherent, Filling, Running, GotRec
  <1>11. \A q \in Proc \ {p} : FreshBase(q)' /\ Filling(q)' /\ Written(q)'
    <2>1. ASSUME NEW q \in Proc \ {p} PROVE lock # q
      BY <1>3, <1>9
    <2> QED
      BY <1>1, <2>1, OthersCoherent
  <1>12. FreshBase(p)'
    <2>1. /\ (Ahead(p, "drop")' <=> Ahead(p, "drop")) /\ (Ahead(p, "get")' <=> Ahead(p, "get"))
          /\ (Ahead(p, "commit")' <=> Ahead(p, "commit")) /\ (Ahead(p, "clear")' <=> Ahead(p, "clear"))
      BY <1>4, <1>6 DEF Step
    <2>2. op[p] \in Dropping /\ rec[p] = Gone => l1' = Gone
      BY <1>4, <1>5, <1>10, NextIsFirst, MfillOrder DEF Metaing, Dropping
    <2> QED
      BY <1>2, <1>7, <2>1, <2>2 DEF Coherent, FreshBase, Working
  <1>13. Filling(p)'
    <2>1. ~Ahead(p, "fill")' /\ ~Ahead(p, "mfill")'
      BY <1>4, <1>6, <1>7 DEF Step
    <2> QED
      BY <2>1 DEF Filling
  <1>14. Written(p)'
    BY <1>2 DEF Coherent, Written, Committed, Writes, New, NewState
  <1>15. (\A q \in Proc : ~Window(q)') => \A q \in Proc : ~Window(q)
    BY <1>1, <1>8, OthersWindow
  <1>16. db' # Gone /\ (\A q \in Proc : ~Window(q)') => l1' \in {Gone, db'} /\ meta' \in {Gone, db'}
    BY <1>2, <1>4, <1>10, <1>15 DEF Coherent
  <1>17. ASSUME db' = Gone, l1' # Gone PROVE \E q \in Proc : Deleting(q)'
    <2>1. db = Gone /\ l1 # Gone
      BY <1>2, <1>4, <1>10, <1>17
    <2>2. PICK q \in Proc : Deleting(q)
      BY <2>1 DEF Coherent
    <2> QED
      BY <1>1, <1>8, <2>2, OthersWindow
  <1> QED
    BY <1>2, <1>11, <1>12, <1>13, <1>14, <1>16, <1>17 DEF Coherent

\* A writer under the lock bases its write on what Pebble holds.
LEMMA BaseIsDb ==
    ASSUME TypeOK, Control, Coherent, NEW p \in Proc, CommitRecord(p), op[p] \in Locked
    PROVE  /\ lock = p /\ db \in Record /\ rec[p] = db
           /\ raw[p] # Gone => raw[p] = db /\ old[p] = db.state
           /\ op[p] \in Patching => raw[p] # Gone
  <1>1. Working(p) /\ rec[p] \in Record
    BY BaseIsRead
  <1>2. /\ op[p] \in Patching => raw[p] # Gone
        /\ lock = p
    BY <1>1, AtCommit DEF CommitRecord, Working
  <1>3. op[p] \in Dropping \/ op[p] \in Patching
    BY DEF CommitRecord, Writes, Locked, Dropping, Patching
  <1>4. raw[p] # Gone => raw[p] = db /\ old[p] = db.state
    BY <1>1 DEF Coherent, FreshBase
  <1>5. rec[p] = db
    BY <1>1, <1>2, <1>3, <1>4 DEF Coherent, FreshBase
  <1> QED
    BY <1>1, <1>2, <1>4, <1>5

LEMMA CommitRecordCoherent ==
    ASSUME TypeOK, Control, Coherent, NEW p \in Proc, CommitRecord(p), op[p] \in Locked PROVE Coherent'
  <1>1. \A q \in Proc \ {p} : Still(q)
    BY OthersStill DEF Access
  <1>2. /\ op' = op /\ Proceed(p) /\ lock' = lock /\ rec' = rec /\ raw' = raw /\ id' = id
        /\ db' = New(p) /\ index' = Reindex(p) /\ l1' = l1 /\ meta' = meta
        /\ Running(p) /\ At(p, "commit") /\ Writes(p)
    BY AtCommit DEF CommitRecord
  <1>3. done'[p] # NoEffect
    BY DEF CommitRecord, Did, TypeOK, NoEffect
  <1>4. /\ lock = p /\ db \in Record /\ rec[p] = db
        /\ raw[p] # Gone => raw[p] = db /\ old[p] = db.state
        /\ op[p] \in Patching => raw[p] # Gone
    BY BaseIsDb
  <1>5. \A y \in Step : Ahead(p, y)' <=> Ahead(p, y) /\ y # "commit"
    BY <1>2, Passing
  <1>6. /\ ~Ahead(p, "fill") /\ ~Ahead(p, "mfill") /\ ~Ahead(p, "clear") /\ Ahead(p, "commit")
        /\ Ahead(p, "publish") <=> op[p] \in Publishing
    BY <1>2, NextIsFirst, CommitOrder DEF Never, Step
  <1>7. ~Ahead(p, "fill")' /\ ~Ahead(p, "mfill")' /\ (Ahead(p, "publish")' <=> op[p] \in Publishing)
    BY <1>5, <1>6 DEF Step
  <1>8. \A q \in Proc \ {p} : FreshBase(q)' /\ Filling(q)' /\ Written(q)'
    <2>1. ASSUME NEW q \in Proc \ {p} PROVE lock # q
      BY <1>4
    <2> QED
      BY <1>1, <2>1, OthersCoherent
  <1>9. FreshBase(p)' /\ Filling(p)'
    BY <1>3, <1>7 DEF FreshBase, Working, Filling
  <1>10. New(p)' = New(p)
    BY <1>2 DEF New, NewState
  <1>11. Written(p)'
    BY <1>2, <1>10 DEF Written
  <1>12. ASSUME \A q \in Proc : ~Window(q)' PROVE l1' = Gone /\ meta' = Gone
    <2>1. op[p] \notin Publishing
      BY <1>2, <1>3, <1>4, <1>7, <1>12 DEF Window, Committed
    <2>2. op[p] \in Clearing /\ op[p] \notin Leasing /\ done[p] = NoEffect
      BY <1>2, <2>1, AtCommit DEF Writes, Publishing, Clearing, Leasing, Locked
    <2> QED
      BY <1>2, <1>4, <1>6, <2>2 DEF Coherent, FreshBase, Working
  <1>13. New(p) \in Record /\ New(p).state = NewState(p) /\ db' # Gone
    BY <1>2, NewIsRecord DEF New
  <1>14. index' = {NewState(p)}
    <2>1. index = {db.state}
      BY <1>4 DEF Coherent
    <2>2. CASE op[p] = "soft"
      BY <1>2, <1>4, <2>1, <2>2 DEF Reindex, NewState
    <2>3. CASE op[p] \in {"confidence", "tags"}
      BY <1>2, <1>4, <2>1, <2>3 DEF Reindex, NewState
    <2>4. CASE op[p] \in {"touch", "finish", "reopen"}
      <3>1. old[p] = db.state
        BY <1>4, <2>4 DEF Patching
      <3> QED
        BY <1>2, <2>1, <2>4, <3>1 DEF Reindex
    <2> QED
      BY <1>2, <2>2, <2>3, <2>4 DEF Writes, Locked
  <1> QED
    BY <1>2, <1>8, <1>9, <1>11, <1>12, <1>13, <1>14 DEF Coherent

LEMMA CommitDeleteCoherent ==
    ASSUME TypeOK, Control, Coherent, NEW p \in Proc, CommitDelete(p) PROVE Coherent'
  <1>1. \A q \in Proc \ {p} : Still(q)
    BY OthersStill DEF Access
  <1>2. /\ op' = op /\ Proceed(p) /\ lock' = lock /\ rec' = rec /\ db' = Gone /\ l1' = l1
        /\ index' = IF rec[p] = Gone THEN index ELSE index \ {rec[p].state}
        /\ Running(p) /\ At(p, "commit") /\ op[p] = "delete"
    BY AtCommit DEF CommitDelete
  <1>3. done'[p] # NoEffect
    BY DEF CommitDelete, Did, TypeOK, NoEffect
  <1>4. lock = p /\ done[p] = NoEffect /\ Working(p)
    BY <1>2, AtCommit DEF Locked, Working, Leasing
  <1>5. \A y \in Step : Ahead(p, y)' <=> Ahead(p, y) /\ y # "commit"
    BY <1>2, Passing
  <1>6. ~Ahead(p, "fill") /\ ~Ahead(p, "mfill") /\ ~Ahead(p, "get") /\ Ahead(p, "drop")
    BY <1>2, NextIsFirst, CommitOrder DEF Never, Step
  <1>7. ~Ahead(p, "fill")' /\ ~Ahead(p, "mfill")' /\ Ahead(p, "drop")'
    BY <1>5, <1>6 DEF Step
  <1>8. \A q \in Proc \ {p} : FreshBase(q)' /\ Filling(q)' /\ Written(q)'
    <2>1. ASSUME NEW q \in Proc \ {p} PROVE lock # q
      BY <1>4
    <2> QED
      BY <1>1, <2>1, OthersCoherent
  <1>9. FreshBase(p)' /\ Filling(p)' /\ Written(p)'
    BY <1>2, <1>3, <1>7 DEF FreshBase, Working, Filling, Written, Writes
  <1>10. Deleting(p)'
    BY <1>2, <1>3, <1>7 DEF Deleting
  <1>11. index' = {}
    <2>1. CASE db = Gone
      BY <1>2, <2>1 DEF Coherent
    <2>2. CASE db # Gone
      <3>1. rec[p] = db
        BY <1>2, <1>4, <1>6, <2>2 DEF Coherent, FreshBase
      <3> QED
        BY <1>2, <2>2, <3>1 DEF Coherent
    <2> QED
      BY <2>1, <2>2
  <1> QED
    BY <1>2, <1>8, <1>9, <1>10, <1>11 DEF Coherent

LEMMA PublishCoherent ==
    ASSUME TypeOK, Control, Coherent, NEW p \in Proc, Publish(p) PROVE Coherent'
  <1>1. \A q \in Proc \ {p} : Still(q)
    BY OthersStill DEF Access
  <1>2. /\ op' = op /\ Proceed(p) /\ lock' = lock /\ rec' = rec /\ raw' = raw /\ id' = id
        /\ done' = done /\ db' = db /\ index' = index /\ l1' = New(p) /\ meta' = Gone
        /\ Running(p) /\ At(p, "publish")
    BY AtIsRunning DEF Publish
  <1>3. /\ op[p] \in Publishing /\ ~Ahead(p, "lock") /\ Ahead(p, "unlock") /\ ~Ahead(p, "commit")
        /\ ~Ahead(p, "fill") /\ ~Ahead(p, "mfill") /\ op[p] \in Locked \ Reading
    BY <1>2, NextIsFirst, PublishOrder DEF After, Never, Step, Publishing, Locked, Reading
  <1>4. lock = p /\ done[p] # NoEffect
    BY <1>2, <1>3 DEF Running, Locking, Doing, At
  <1>5. db = New(p)
    BY <1>3, <1>4 DEF Coherent, Written, Committed, Writes, Publishing
  <1>6. \A y \in Step : Ahead(p, y)' <=> Ahead(p, y) /\ y # "publish"
    BY <1>2, Passing
  <1>7. ~Ahead(p, "fill")' /\ ~Ahead(p, "mfill")'
    BY <1>3, <1>6 DEF Step
  <1>8. \A q \in Proc \ {p} : FreshBase(q)' /\ Filling(q)' /\ Written(q)'
    <2>1. ASSUME NEW q \in Proc \ {p} PROVE lock # q
      BY <1>4
    <2> QED
      BY <1>1, <2>1, OthersCoherent
  <1>9. FreshBase(p)' /\ Filling(p)'
    BY <1>2, <1>4, <1>7 DEF FreshBase, Working, Filling
  <1>10. Written(p)'
    BY <1>2, <1>5 DEF Written, New, NewState
  <1> QED
    BY <1>2, <1>5, <1>8, <1>9, <1>10 DEF Coherent

LEMMA StepCoherent ==
    ASSUME TypeOK, Control, Coherent, [Next]_vars, ~overlapped' PROVE Coherent'
  <1>1. ASSUME NEW p \in Proc, Access(p) PROVE Coherent'
    <2>1. CASE Fill(p)
      <3>1. ~Overlaps(p)
        BY <2>1 DEF Fill
      <3> QED
        BY <2>1, <3>1, FillCoherent
    <2>2. CASE CommitRecord(p)
      <3>1. op[p] \in Locked
        BY <2>2, NewIsRecord DEF CommitRecord
      <3> QED
        BY <2>2, <3>1, CommitRecordCoherent
    <2> QED
      BY <1>1, <2>1, <2>2, TakeLockCoherent, UnlockCoherent, DropCoherent, GetEngramCoherent,
         GetMetadataCoherent, LookCoherent, CheckCoherent, PatchCoherent, ClearCoherent,
         CommitLeaseCoherent, CommitDeleteCoherent, CommitFailsCoherent, PublishCoherent,
         ReplicateBatchCoherent, ReturnCoherent DEF Access
  <1>2. ASSUME NEW p \in Proc, NEW o \in Op, Start(p, o) PROVE Coherent'
    BY <1>2, StartCoherent
  <1>3. CASE Evict \/ Tick \/ UNCHANGED vars
    <2>1. Passive /\ UNCHANGED <<local, lock>>
      BY <1>3 DEF Passive, Evict, Tick, vars, state
    <2> QED
      BY <2>1, EvictCoherent
  <1> QED
    BY <1>1, <1>2, <1>3 DEF Next

LEMMA OverlappedStays == TypeOK /\ [Next]_vars /\ ~overlapped' => ~overlapped
  BY ZenonT(30) DEF Next, Access, TakeLock, Unlock, Drop, GetEngram, GetMetadata, Fill, Look, Check, Patch, Clear,
     CommitRecord, CommitLease, CommitDelete, CommitFails, Publish, ReplicateBatch, Return, Start,
     Evict, Tick, vars

LEMMA InitCoherent == Init => Coherent
  <1> SUFFICES ASSUME Init PROVE Coherent
    OBVIOUS
  <1>1. \A p \in Proc : lock # p
    BY DEF Init
  <1>2. \A p \in Proc : FreshBase(p) /\ Filling(p) /\ Written(p)
    BY <1>1 DEF FreshBase, Working, Filling, Written, Committed
  <1>3. db # Gone /\ l1 = Gone /\ meta = Gone /\ index = {db.state}
    BY DEF Init, Record, State
  <1> QED
    BY <1>2, <1>3 DEF Coherent

\* The inductive invariant of the caches, of the index and of what writers have read, as
\* long as no writer without the lock has committed and no fill has overlapped a write.
LEMMA CoherentHolds == Spec => [](TypeOK /\ Control /\ (~overlapped => Coherent))
  <1>1. Init => Coherent
    BY InitCoherent
  <1>2. TypeOK /\ Control /\ (~overlapped => Coherent) /\ [Next]_vars => (~overlapped => Coherent)'
    BY StepCoherent, OverlappedStays
  <1> QED
    BY <1>1, <1>2, ControlHolds, PTL DEF Spec

\* No write is lost and none brings a deleted engram back, whatever the caches held, as
\* long as no writer without the lock has committed and no reader's cache fill has
\* overlapped a write (STO-2): every locked write is based on the version it replaces.
THEOREM NoUpdateIsLost == Spec => NoLostUpdate
  <1>1. TypeOK /\ Control /\ (~overlapped => Coherent) /\ [Next]_vars =>
          [\A p \in Proc : CommitRecord(p) /\ ~overlapped' => db # Gone /\ Base(p) = {db.ver}]_vars
    <2> SUFFICES ASSUME TypeOK, Control, Coherent, NEW p \in Proc, CommitRecord(p), ~overlapped'
                 PROVE  db # Gone /\ Base(p) = {db.ver}
      BY DEF CommitRecord
    <2>1. op[p] \in Locked
      BY NewIsRecord DEF CommitRecord
    <2>2. Base(p) = {rec[p].ver} \cup (IF raw[p] = Gone THEN {} ELSE {raw[p].ver})
      BY <2>1, BaseIsRead
    <2> QED
      BY <2>1, <2>2, BaseIsDb
  <1> QED
    BY <1>1, CoherentHolds, PTL DEF Spec, NoLostUpdate

\* Under the same condition the state index lists the engram under its state and no other
\* (STO-3), between the accesses of an operation too: each commit carries its entries.
THEOREM IndexIsExact == Spec => []IndexExact
  <1>1. (~overlapped => Coherent) => IndexExact
    BY DEF Coherent, IndexExact
  <1> QED
    BY <1>1, CoherentHolds, PTL

\* At rest the caches hold what Pebble holds, but for the metadata of a deleted engram.
THEOREM CachesAreCoherent == Spec => []CacheCoherent
  <1>1. TypeOK /\ Control /\ (~overlapped => Coherent) => CacheCoherent
    <2> SUFFICES ASSUME Control, Coherent, Idle
                 PROVE  l1 \in {Gone, db} /\ (db # Gone => meta \in {Gone, db})
      BY DEF CacheCoherent
    <2>1. \A p \in Proc : Reset(p)
      BY NotStarted DEF Idle
    <2>2. \A p \in Proc : ~Window(p) /\ ~Deleting(p)
      BY <2>1 DEF Reset, Window, Committed, Deleting
    <2> QED
      BY <2>2 DEF Coherent
  <1> QED
    BY <1>1, CoherentHolds, PTL

-----------------------------------------------------------------------------
(* The log *)

\* The operations whose batch may be appended after the lock is released.
Late       == {"confidence", "delete"} \cup Unlocked
Pending(p) == done[p] # NoEffect /\ Ahead(p, "append")
Clean ==
    /\ \A i \in 1 .. Len(log) : log[i].op \notin Late
    /\ \A p \in Proc : Pending(p) => op[p] \notin Late

\* A batch still to be appended is what its commit left in Pebble.
PendingIsLast ==
    \A p \in Proc : Pending(p) =>
      /\ Writes(p) => done[p].key = "record" /\ done[p].value = db
      /\ ~Writes(p) => done[p].key = "lease" /\ done[p].value = lease

\* A follower holds what Pebble does, but for the batch still to be appended.
Replayed ==
    /\ (\A p \in Proc : Pending(p) => ~Writes(p)) => ReplayedRecord = db
    /\ (\A p \in Proc : Pending(p) => Writes(p)) => ReplayedLease = lease

HasLast(k) == Entries(k) = {} \/ \E i \in Entries(k) : \A j \in Entries(k) : j <= i
Keys == \A i \in 1 .. Len(log) : log[i].op # "delete" => log[i].key \in {"record", "lease"}

Logged ==
    /\ Keys /\ HasLast("record") /\ HasLast("lease")
    /\ Clean => PendingIsLast /\ Replayed

LEMMA LastIs == ASSUME NEW S \in SUBSET Nat, NEW m \in S, \A j \in S : j <= m PROVE Last(S) = m
  <1>1. \A i \in S : (\A j \in S : j <= i) => i = m
    <2> SUFFICES ASSUME NEW i \in S, \A j \in S : j <= i PROVE i = m
      OBVIOUS
    <2>1. m <= i /\ i <= m /\ i \in Nat /\ m \in Nat
      OBVIOUS
    <2> QED
      BY <2>1
  <1> QED
    BY <1>1 DEF Last

LEMMA AppendLeft ==
    ASSUME NEW o \in All
    PROVE  /\ o \in Reading => Left.append[o] = 0
           /\ o \notin Late \cup Reading =>
                o \in Locked /\ Left.unlock[o] = 1 /\ Left.commit[o] \in {3, 4} /\ Left.lock[o] \in {7, 8, 9}
  BY DEF Left, All, Late, Locked, Unlocked, Reading

\* Those that append under the lock hold it from the commit to the append.
LEMMA PendingHolds ==
    ASSUME Control, NEW p \in Proc, Pending(p)
    PROVE  /\ op[p] \in All \ Reading
           /\ op[p] \notin Late => lock = p
  <1>1. Running(p) /\ op[p] \in All
    BY DEF Control, Reset, Running, Aborting, Pending
  <1>2. Len(todo[p]) \in 0 .. 9 /\ Left.append[op[p]] \in 1 .. Len(todo[p]) /\ ~Ahead(p, "commit")
    BY <1>1 DEF Running, Regular, Doing, Pending, Ahead
  <1>3. op[p] \notin Reading
    <2>1. \A k : 0 \notin 1 .. k
      OBVIOUS
    <2> QED
      BY <1>1, <1>2, <2>1, AppendLeft, Zenon
  <1>4. ASSUME op[p] \notin Late PROVE lock = p
    <2>1. /\ op[p] \in Locked /\ Left.unlock[op[p]] = 1 /\ Left.commit[op[p]] \in {3, 4}
          /\ Left.lock[op[p]] \in {7, 8, 9}
      BY <1>1, <1>3, <1>4, AppendLeft
    <2>2. \A k \in 0 .. 9 : \A c \in {3, 4}, l \in {7, 8, 9} : l \in 1 .. k => c \in 1 .. k
      OBVIOUS
    <2>3. \A k \in 0 .. 9 : \A i \in 1 .. k : 1 \in 1 .. k
      OBVIOUS
    <2>4. ~Ahead(p, "lock") /\ Ahead(p, "unlock")
      BY <1>2, <2>1, <2>2, <2>3, Zenon DEF Ahead
    <2> QED
      BY <1>1, <2>1, <2>4 DEF Running, Locking
  <1> QED
    BY <1>1, <1>3, <1>4

LEMMA OthersPending ==
    ASSUME NEW q \in Proc, Still(q)
    PROVE  /\ Pending(q)' <=> Pending(q)
           /\ op'[q] = op[q] /\ done'[q] = done[q] /\ (Writes(q)' <=> Writes(q))
  BY OthersKeepControl DEF Still, Same, Pending, Writes

\* Steps that neither commit nor append.
LEMMA KeepsLogged ==
    ASSUME Logged, db' = db, lease' = lease, log' = log, NEW p \in Proc,
           \A q \in Proc \ {p} : Still(q), Pending(p)' <=> Pending(p),
           Pending(p) => op'[p] = op[p] /\ done'[p] = done[p]
    PROVE  Logged'
  <1>1. \A q \in Proc : Pending(q)' <=> Pending(q)
    BY OthersPending
  <1>2. \A q \in Proc : Pending(q) => op'[q] = op[q] /\ done'[q] = done[q]
    BY OthersPending
  <1>3. \A q \in Proc : Pending(q) => (Writes(q)' <=> Writes(q))
    BY <1>2 DEF Writes
  <1>4. Clean' <=> Clean
    BY <1>1, <1>2 DEF Clean
  <1>5. ReplayedRecord' = ReplayedRecord /\ ReplayedLease' = ReplayedLease
    BY DEF ReplayedRecord, ReplayedLease, Entries
  <1>6. Keys' /\ HasLast("record")' /\ HasLast("lease")'
    BY DEF Logged, Keys, HasLast, Entries
  <1>7. Clean => PendingIsLast'
    BY <1>1, <1>2, <1>3 DEF Logged, PendingIsLast
  <1>8. Clean => Replayed'
    <2>1. ((\A q \in Proc : Pending(q)' => ~Writes(q)') => \A q \in Proc : Pending(q) => ~Writes(q))
          /\ ((\A q \in Proc : Pending(q)' => Writes(q)') => \A q \in Proc : Pending(q) => Writes(q))
      BY <1>1, <1>3
    <2> QED
      BY <1>5, <2>1 DEF Logged, Replayed
  <1> QED
    BY <1>4, <1>6, <1>7, <1>8 DEF Logged

\* The batch of a commit that is going to be appended under the lock is the only one pending.
LEMMA CommitIsPending ==
    ASSUME TypeOK, Control, NEW p \in Proc, CommitRecord(p) \/ CommitLease(p) \/ CommitDelete(p)
    PROVE  /\ op' = op /\ log' = log /\ ~Pending(p) /\ Pending(p)'
           /\ \A q \in Proc \ {p} : Still(q)
           /\ Clean' => Clean /\ op[p] \notin Late /\ \A q \in Proc : Pending(q)' => q = p
  <1>1. Running(p) /\ At(p, "commit") /\ op' = op /\ Proceed(p) /\ log' = log
    BY AtIsRunning DEF CommitRecord, CommitLease, CommitDelete
  <1>2. done'[p] # NoEffect
    BY DEF CommitRecord, CommitLease, CommitDelete, Did, TypeOK, NoEffect
  <1>3. \A q \in Proc \ {p} : Still(q)
    BY OthersStill DEF Access
  <1>4. done[p] = NoEffect /\ (lock = p <=> op[p] \in Locked) /\ op[p] \in All \ Reading
    BY <1>1, AtCommit
  <1>5. Ahead(p, "append")'
    <2>1. \A y \in Step : Ahead(p, y)' <=> Ahead(p, y) /\ y # "commit"
      BY <1>1, Passing
    <2>2. Ahead(p, "append")
      BY <1>1, NextIsFirst, CommitOrder DEF After, Step
    <2> QED
      BY <2>1, <2>2 DEF Step
  <1>6. ~Pending(p) /\ Pending(p)'
    BY <1>2, <1>4, <1>5 DEF Pending
  <1>7. ASSUME Clean' PROVE Clean /\ op[p] \notin Late /\ \A q \in Proc : Pending(q)' => q = p
    <2>1. op[p] \notin Late
      BY <1>1, <1>6, <1>7 DEF Clean
    <2>2. Clean
      BY <1>1, <1>3, <1>6, <1>7, OthersPending DEF Clean
    <2>3. lock = p
      BY <1>4, <2>1 DEF All, Late
    <2>4. ASSUME NEW q \in Proc \ {p} PROVE ~Pending(q)'
      BY <1>3, <2>2, <2>3, OthersPending, PendingHolds DEF Clean
    <2> QED
      BY <2>1, <2>2, <2>4
  <1> QED
    BY <1>1, <1>3, <1>6, <1>7

LEMMA CommitLogged ==
    ASSUME TypeOK, Control, Logged, NEW p \in Proc, CommitRecord(p) \/ CommitLease(p) \/ CommitDelete(p)
    PROVE  Logged'
  <1>1. /\ op' = op /\ log' = log /\ ~Pending(p) /\ Pending(p)'
        /\ \A q \in Proc \ {p} : Still(q)
        /\ Clean' => Clean /\ op[p] \notin Late /\ \A q \in Proc : Pending(q)' => q = p
    BY CommitIsPending
  <1>2. ReplayedRecord' = ReplayedRecord /\ ReplayedLease' = ReplayedLease
    BY <1>1 DEF ReplayedRecord, ReplayedLease, Entries
  <1>3. Keys' /\ HasLast("record")' /\ HasLast("lease")'
    BY <1>1 DEF Logged, Keys, HasLast, Entries
  <1>4. ASSUME Clean' PROVE PendingIsLast' /\ Replayed'
    <2>1. Clean /\ op[p] \notin Late /\ \A q \in Proc : Pending(q)' => q = p
      BY <1>1, <1>4
    <2>2. \A q \in Proc : ~Pending(q)
      BY <1>1, <2>1, OthersPending
    <2>3. ReplayedRecord = db /\ ReplayedLease = lease
      BY <2>1, <2>2 DEF Logged, Replayed
    <2>4. Writes(p)' <=> Writes(p)
      BY <1>1 DEF Writes
    <2>5. CASE CommitRecord(p)
      <3>1. Writes(p)' /\ lease' = lease /\ done'[p].key = "record" /\ done'[p].value = db'
        BY <2>4, <2>5 DEF CommitRecord, Did, TypeOK
      <3> QED
        BY <1>1, <1>2, <2>1, <2>3, <3>1 DEF PendingIsLast, Replayed
    <2>6. CASE CommitLease(p)
      <3>1. ~Writes(p)' /\ db' = db /\ done'[p].key = "lease" /\ done'[p].value = lease'
        BY <2>4, <2>6 DEF CommitLease, Did, TypeOK, Writes
      <3> QED
        BY <1>1, <1>2, <2>1, <2>3, <3>1 DEF PendingIsLast, Replayed
    <2>7. ~CommitDelete(p)
      BY <2>1 DEF CommitDelete, Late
    <2> QED
      BY <2>5, <2>6, <2>7
  <1> QED
    BY <1>3, <1>4 DEF Logged

LEMMA AppendLogged ==
    ASSUME TypeOK, Control, Logged, NEW p \in Proc, ReplicateBatch(p) PROVE Logged'
  <1> DEFINE n == Len(log) + 1
  <1>1. Running(p) /\ At(p, "append") /\ op' = op /\ Proceed(p) /\ done' = done /\ db' = db /\ lease' = lease
    BY AtIsRunning DEF ReplicateBatch, state
  <1>2. \A q \in Proc \ {p} : Still(q)
    BY OthersStill DEF Access
  <1>3. /\ op[p] \in All \ Reading /\ ~Ahead(p, "commit") /\ Ahead(p, "append")
        /\ ~Ahead(p, "append")'
    <2>1. \A y \in Step : Ahead(p, y)' <=> Ahead(p, y) /\ y # "append"
      BY <1>1, Passing
    <2> QED
      BY <1>1, <2>1, NextIsFirst, AppendOrder DEF Never, Step
  <1>4. done[p] # NoEffect /\ done[p].op = op[p] /\ Pending(p) /\ ~Pending(p)'
    BY <1>1, <1>3 DEF Running, Doing, Pending, At
  <1>5. /\ log \in Seq(Effect) /\ Len(log) \in Nat /\ n \in Nat
        /\ Len(log') = n /\ log'[n] = done[p] /\ \A i \in 1 .. Len(log) : log'[i] = log[i]
    <2>1. log \in Seq(Effect) /\ done[p] \in Effect /\ log' = Append(log, done[p])
      BY DEF TypeOK, ReplicateBatch
    <2> HIDE DEF Effect
    <2> QED
      BY <2>1
  <1>6. \A i \in 1 .. n : i \in 1 .. Len(log) \/ i = n
    BY <1>5
  <1>7. Keys'
    <2>1. done[p].op # "delete" => done[p].key \in {"record", "lease"}
      BY <1>4 DEF TypeOK, Effect
    <2> QED
      BY <1>5, <1>6, <2>1 DEF Logged, Keys
  <1>8. ASSUME NEW k, done[p].key \in {k, "all"}
        PROVE  Entries(k)' \in SUBSET Nat /\ n \in Entries(k)' /\ \A j \in Entries(k)' : j <= n
    <2>1. n \in 1 .. n /\ \A j \in 1 .. n : j <= n /\ j \in Nat
      BY <1>5
    <2>2. Entries(k)' = {i \in 1 .. n : log'[i].key \in {k, "all"}}
      BY <1>5 DEF Entries
    <2> QED
      BY <1>5, <1>8, <2>1, <2>2
  <1>9. ASSUME NEW k, done[p].key \notin {k, "all"}
        PROVE  Entries(k)' = Entries(k) /\ \A i \in Entries(k) : log'[i] = log[i]
    <2>1. Entries(k)' = {i \in 1 .. n : log'[i].key \in {k, "all"}}
      BY <1>5 DEF Entries
    <2>2. \A i \in 1 .. Len(log) : i \in 1 .. n
      BY <1>5
    <2> QED
      BY <1>5, <1>6, <1>9, <2>1, <2>2 DEF Entries
  <1>10. ASSUME NEW k, HasLast(k) PROVE HasLast(k)'
    <2>1. CASE done[p].key \in {k, "all"}
      BY <1>8, <2>1 DEF HasLast
    <2>2. CASE done[p].key \notin {k, "all"}
      BY <1>9, <1>10, <2>2 DEF HasLast
    <2> QED
      BY <2>1, <2>2
  <1>11. ASSUME Clean' PROVE PendingIsLast' /\ Replayed'
    <2>1. op[p] \notin Late
      <3>1. n \in 1 .. n
        BY <1>5
      <3> QED
        BY <1>4, <1>5, <1>11, <3>1 DEF Clean
    <2>2. Clean
      <3>1. \A i \in 1 .. Len(log) : i \in 1 .. n
        BY <1>5
      <3>2. \A i \in 1 .. Len(log) : log[i].op \notin Late
        BY <1>5, <1>11, <3>1 DEF Clean
      <3>3. \A q \in Proc : Pending(q) => op[q] \notin Late
        BY <1>2, <1>11, <2>1, OthersPending DEF Clean
      <3> QED
        BY <3>2, <3>3 DEF Clean
    <2>3. lock = p
      BY <1>4, <2>1, PendingHolds
    <2>4. ASSUME NEW q \in Proc, Pending(q) PROVE q = p
      BY <2>2, <2>3, <2>4, PendingHolds DEF Clean
    <2>5. \A q \in Proc : ~Pending(q)'
      BY <1>2, <1>4, <2>4, OthersPending
    <2>6. /\ Writes(p) => done[p].key = "record" /\ done[p].value = db
          /\ ~Writes(p) => done[p].key = "lease" /\ done[p].value = lease
      BY <1>4, <2>2 DEF Logged, PendingIsLast
    <2>7. CASE Writes(p)
      <3>1. ReplayedRecord' = db
        <4>1. Last(Entries("record")') = n /\ Entries("record")' # {}
          BY <1>8, <2>6, <2>7, LastIs
        <4> QED
          BY <1>5, <2>6, <2>7, <4>1 DEF ReplayedRecord
      <3>2. ReplayedLease' = ReplayedLease
        <4>1. Entries("lease")' = Entries("lease") /\ \A i \in Entries("lease") : log'[i] = log[i]
          BY <1>9, <2>6, <2>7
        <4>2. Entries("lease") = {} \/ Last(Entries("lease")) \in Entries("lease")
          BY DEF Logged, HasLast, Last
        <4> QED
          BY <4>1, <4>2 DEF ReplayedLease
      <3>3. ReplayedLease = lease
        BY <2>2, <2>4, <2>7 DEF Logged, Replayed
      <3> QED
        BY <1>1, <2>5, <3>1, <3>2, <3>3 DEF PendingIsLast, Replayed
    <2>8. CASE ~Writes(p)
      <3>1. ReplayedLease' = lease
        <4>1. Last(Entries("lease")') = n /\ Entries("lease")' # {}
          BY <1>8, <2>6, <2>8, LastIs
        <4> QED
          BY <1>5, <2>6, <2>8, <4>1 DEF ReplayedLease
      <3>2. ReplayedRecord' = ReplayedRecord
        <4>1. Entries("record")' = Entries("record") /\ \A i \in Entries("record") : log'[i] = log[i]
          BY <1>9, <2>6, <2>8
        <4>2. Entries("record") = {} \/ Last(Entries("record")) \in Entries("record")
          BY DEF Logged, HasLast, Last
        <4> QED
          BY <4>1, <4>2 DEF ReplayedRecord
      <3>3. ReplayedRecord = db
        BY <2>2, <2>4, <2>8 DEF Logged, Replayed
      <3> QED
        BY <1>1, <2>5, <3>1, <3>2, <3>3 DEF PendingIsLast, Replayed
    <2> QED
      BY <2>7, <2>8
  <1> QED
    BY <1>7, <1>10, <1>11 DEF Logged

LEMMA OtherAccessLogged ==
    ASSUME TypeOK, Control, Logged, NEW p \in Proc, Access(p), ~CommitRecord(p), ~CommitLease(p),
           ~CommitDelete(p), ~ReplicateBatch(p)
    PROVE  Logged'
  <1>1. \A q \in Proc \ {p} : Still(q)
    BY OthersStill
  <1>2. log' = log /\ lease' = lease /\ db' = db
    BY DEF Access, TakeLock, Unlock, Drop, GetEngram, GetMetadata, Fill, Look, Check, Patch, Clear,
       CommitFails, Publish, Return, state
  <1>3. CASE Return(p)
    <2>1. op[p] # "none" /\ todo[p] = <<>> /\ todo' = todo /\ done'[p] = NoEffect
      BY <1>3 DEF Return, TypeOK
    <2>2. ~Ahead(p, "append")
      <3>1. \A k : k \notin 1 .. 0
        OBVIOUS
      <3> QED
        BY <2>1, <3>1, EmptyIsRegular, Zenon DEF Ahead
    <2>3. ~Pending(p) /\ ~Pending(p)'
      BY <2>1, <2>2 DEF Pending
    <2> QED
      BY <1>1, <1>2, <2>3, KeepsLogged
  <1>4. ASSUME ~Return(p) PROVE op' = op /\ done' = done
    BY <1>4 DEF Access, TakeLock, Unlock, Drop, GetEngram, GetMetadata, Fill, Look, Check, Patch, Clear,
       CommitFails, Publish
  <1>5. ASSUME ~Return(p), NEW x, At(p, x),
               x \in {"look", "lock", "get", "fill", "meta", "mfill", "check", "patch", "clear", "commit"}
        PROVE  Logged'
    <2>1. op[p] \in Reading \/ done[p] = NoEffect
      BY <1>5, NotDone
    <2>2. op[p] \in Reading => ~Ahead(p, "append") /\ ~Ahead(p, "append")'
      <3>1. op[p] \in Reading => Left.append[op[p]] = 0 /\ Left.append[op'[p]] = 0
        BY <1>4, <1>5, AppendLeft DEF All
      <3>2. \A k : 0 \notin 1 .. k
        OBVIOUS
      <3> QED
        BY <3>1, <3>2, Zenon DEF Ahead
    <2>3. ~Pending(p) /\ ~Pending(p)'
      BY <1>4, <1>5, <2>1, <2>2 DEF Pending
    <2> QED
      BY <1>1, <1>2, <2>3, KeepsLogged
  <1>6. ASSUME Unlock(p) \/ Drop(p) \/ Publish(p) PROVE Logged'
    <2>1. /\ op' = op /\ done' = done /\ Proceed(p)
      BY <1>6 DEF Unlock, Drop, Publish
    <2>2. PICK x \in {"unlock", "drop", "publish"} : At(p, x)
      BY <1>6 DEF Unlock, Drop, Publish
    <2>3. CASE Running(p)
      <3>1. \A y \in Step : Ahead(p, y)' <=> Ahead(p, y) /\ y # x
        BY <2>1, <2>2, <2>3, Passing
      <3>2. Ahead(p, "append")' <=> Ahead(p, "append")
        BY <2>2, <3>1 DEF Step
      <3>3. Pending(p)' <=> Pending(p)
        BY <2>1, <3>2 DEF Pending
      <3> QED
        BY <1>1, <1>2, <2>1, <3>3, KeepsLogged
    <2>4. CASE Aborting(p)
      <3>1. ~Pending(p) /\ ~Pending(p)'
        BY <2>1, <2>4 DEF Aborting, Pending
      <3> QED
        BY <1>1, <1>2, <3>1, KeepsLogged
    <2> QED
      BY <2>2, <2>3, <2>4 DEF Control, Reset, At
  <1>7. ASSUME ~Return(p), ~Unlock(p), ~Drop(p), ~Publish(p)
        PROVE  \E x \in {"look", "lock", "get", "fill", "meta", "mfill", "check", "patch", "clear", "commit"} :
                  At(p, x)
    BY <1>7 DEF Access, TakeLock, GetEngram, GetMetadata, Fill, Look, Check, Patch, Clear, CommitFails
  <1> QED
    BY <1>3, <1>5, <1>6, <1>7

LEMMA StepLogged == ASSUME TypeOK, Control, Logged, [Next]_vars PROVE Logged'
  <1>1. ASSUME NEW p \in Proc, Access(p) PROVE Logged'
    BY <1>1, CommitLogged, AppendLogged, OtherAccessLogged
  <1>2. ASSUME NEW p \in Proc, NEW o \in Op, Start(p, o) PROVE Logged'
    <2>1. log' = log /\ lease' = lease /\ db' = db /\ done' = done /\ Reset(p)
      BY <1>2, NotStarted DEF Start, state
    <2>2. ~Pending(p) /\ ~Pending(p)'
      BY <2>1 DEF Reset, Pending
    <2>3. \A q \in Proc \ {p} : Still(q)
      BY <1>2, OthersStill
    <2> QED
      BY <2>1, <2>2, <2>3, KeepsLogged
  <1>3. CASE Evict \/ Tick \/ UNCHANGED vars
    <2>1. log' = log /\ lease' = lease /\ db' = db /\ op' = op /\ todo' = todo /\ done' = done
      BY <1>3 DEF Evict, Tick, vars, state, local
    <2> QED
      BY SMTT(30), <2>1 DEF Logged, Keys, HasLast, Entries, Clean, PendingIsLast, Replayed, Pending, Ahead, Writes,
         ReplayedRecord, ReplayedLease
  <1> QED
    BY <1>1, <1>2, <1>3 DEF Next

LEMMA InitLogged == Init => Logged
  <1> SUFFICES ASSUME Init PROVE Logged
    OBVIOUS
  <1>1. log = <<>> /\ Len(log) = 0 /\ db = [ver |-> 0, state |-> "active"] /\ lease = NoLease
    BY DEF Init
  <1>2. \A k : Entries(k) = {}
    BY <1>1 DEF Entries
  <1>3. \A p \in Proc : ~Pending(p)
    BY DEF Init, Pending
  <1> QED
    BY <1>1, <1>2, <1>3 DEF Logged, Keys, HasLast, PendingIsLast, Replayed, ReplayedRecord, ReplayedLease

\* A follower that has applied the log holds what this node does, as long as every batch
\* was appended under the stripe lock: appends reach the log in the order of the commits.
THEOREM FollowersAgree == Spec => []FollowerAgrees
  <1>1. Init => Logged
    BY InitLogged
  <1>2. TypeOK /\ Control /\ Logged /\ [Next]_vars => Logged'
    BY StepLogged
  <1>3. TypeOK /\ Control /\ Logged => FollowerAgrees
    <2> SUFFICES ASSUME Control, Logged, Idle, \A i \in 1 .. Len(log) : log[i].op \notin Late
                 PROVE  ReplayedRecord = db /\ ReplayedLease = lease
      BY DEF FollowerAgrees, Late
    <2>1. \A p \in Proc : ~Pending(p)
      BY NotStarted DEF Idle, Reset, Pending
    <2> QED
      BY <2>1 DEF Logged, Clean, Replayed
  <1> QED
    BY <1>1, <1>2, <1>3, ControlHolds, PTL DEF Spec
=============================================================================
