------------------------------ MODULE Replication ------------------------------
(***************************************************************************)
(* Log shipping from one Cortex to its Lobes: the ReplicationLog (log.go), *)
(* a NetworkStreamer per Lobe (streamer.go), the Lobe's Applier            *)
(* (applier.go), the join handshake and its snapshot (join.go,             *)
(* snapshot.go), and what the coordinator keeps about its Lobes -          *)
(* replicaSeqs, snapshotSeqs, the periodic prune with its backlog ceiling, *)
(* evictions and removals (coordinator.go).                                *)
(*                                                                         *)
(* An entry is its sequence number.  A Lobe's data is the set of entries   *)
(* it holds, so a hole is a number missing below its cursor.  A connection *)
(* is a pair of FIFO buffers; what is in them when it closes may be read   *)
(* until the Lobe has joined again, or never.                              *)
(***************************************************************************)
EXTENDS Naturals, Sequences, FiniteSets

CONSTANTS
    Lobe,        \* the followers
    None,        \* replicaSeqs has no value for the Lobe
    Snapshots,   \* TRUE: join handler and client have a database and ship
                 \* snapshots; the server wires them without one
    Pruning,     \* TRUE: the periodic prune runs
    MaxBacklog,  \* ClusterConfig.MaxLogBacklog; 0 is no ceiling
    BatchLimit,  \* entries one ReadSince returns (1000)
    SyncEvery,   \* applierSyncInterval (100)
    Faults,      \* which kinds of fault may happen, a subset of FaultKind
    MaxFaults,   \* bound on the number of faults
    MaxSeq,      \* bound on the entries written
    MaxWire      \* bound on the frames a connection buffers each way

FaultKind == {"disconnect", "restart", "crash", "wipe", "cortex", "remove",
              "sdown", "busy", "apply"}

ASSUME ReplicationAssumption ==
    /\ IsFiniteSet(Lobe)
    /\ None \notin Nat
    /\ Snapshots \in BOOLEAN /\ Pruning \in BOOLEAN
    /\ MaxBacklog \in Nat
    /\ BatchLimit \in Nat \ {0} /\ SyncEvery \in Nat \ {0}
    /\ Faults \subseteq FaultKind
    /\ MaxFaults \in Nat /\ MaxSeq \in Nat /\ MaxWire \in Nat

Entry    == 1 .. MaxSeq
Position == 0 .. MaxSeq     \* a place in the log: the last entry before it

VARIABLES
    head,        \* ReplicationLog.seq
    pruned,      \* the log holds the entries pruned+1 .. head
    prune,       \* a cycle of the periodic prune: stage, upto, behind
    replicaSeq,  \* ClusterCoordinator.replicaSeqs
    snapSeq,     \* ClusterCoordinator.snapshotSeqs; 0 for no value
    late,        \* acks read from a replaced connection, not stored yet
    conn,        \* the join connection: "down", "snap" (snapshot), "up"
    wire, acks,  \* what it buffers: entries to the Lobe, acks to the Cortex
    phase,       \* the Lobe's streamer: "off", "read", "send", "idle", "wait"
    lastSeq,     \* NetworkStreamer.lastSeq
    from, till,  \* what is left of the batch ReadSince returned
    wake,        \* the streamer's notification is pending
    applied,     \* Applier.lastApplied
    since,       \* Applier.appliedSince
    synced,      \* the value of lastApplied that survives a power loss
    held,        \* the entries the Lobe's database reflects
    failed,      \* history: the entries whose Apply returned an error
    faults       \* the number of faults so far

logVars   == <<head, pruned, prune>>
ackVars   == <<replicaSeq, snapSeq, late>>
connVars  == <<conn, wire, acks>>
sendVars  == <<phase, lastSeq, from, till, wake>>
lobeVars  == <<applied, since, synced, held, failed>>
vars == <<logVars, ackVars, connVars, sendVars, lobeVars, faults>>

NoPrune == [stage |-> "none", upto |-> 0, behind |-> {}]

Init ==
    /\ head = 0 /\ pruned = 0 /\ prune = NoPrune
    /\ replicaSeq = [l \in Lobe |-> None]
    /\ snapSeq = [l \in Lobe |-> 0]
    /\ late = [l \in Lobe |-> {}]
    /\ conn = [l \in Lobe |-> "down"]
    /\ wire = [l \in Lobe |-> <<>>] /\ acks = [l \in Lobe |-> <<>>]
    /\ phase = [l \in Lobe |-> "off"]
    /\ lastSeq = [l \in Lobe |-> 0]
    /\ from = [l \in Lobe |-> 0] /\ till = [l \in Lobe |-> 0]
    /\ wake = [l \in Lobe |-> FALSE]
    /\ applied = [l \in Lobe |-> 0]
    /\ since = [l \in Lobe |-> 0] /\ synced = [l \in Lobe |-> 0]
    /\ held = [l \in Lobe |-> {}]
    /\ failed = [l \in Lobe |-> {}]
    /\ faults = 0

Larger(a, b)  == IF a < b THEN b ELSE a
Smaller(a, b) == IF a < b THEN a ELSE b

Acked == {l \in Lobe : replicaSeq[l] # None}

(***************************************************************************)
(* The Cortex: appending, and streaming to one Lobe.                       *)
(***************************************************************************)
\* Mutant of Write: an unbuffered channel, which only a waiting streamer hears.
UnbufferedWrite ==
    /\ head < MaxSeq
    /\ head' = head + 1
    /\ wake' = [l \in Lobe |-> wake[l] \/ phase[l] = "wait"]
    /\ UNCHANGED <<pruned, prune, ackVars, connVars, phase, lastSeq, from, till,
                   lobeVars, faults>>

\* Append commits the entry and the counter in one synced batch, then
\* notifies every subscriber; a notification already pending is enough.
Write ==
    /\ head < MaxSeq
    /\ head' = head + 1
    /\ wake' = [l \in Lobe |-> phase[l] # "off"]
    /\ UNCHANGED <<pruned, prune, ackVars, connVars, phase, lastSeq, from, till,
                   lobeVars, faults>>

\* Mutants of StartSeq: the head of the log; where the last stream got to.
HeadStartSeq(l)   == head
ResumeStartSeq(l) == lastSeq[l]

\* streamStartSeq: the larger of the last ack and the snapshot's seq.
StartSeq(l) ==
    Larger(IF replicaSeq[l] = None THEN 0 ELSE replicaSeq[l], snapSeq[l])

\* A streamer starts by subscribing and draining what the log already holds.
StartStream(l) ==
    /\ phase'   = [phase EXCEPT ![l] = "read"]
    /\ lastSeq' = [lastSeq EXCEPT ![l] = StartSeq(l)]
    /\ from' = [from EXCEPT ![l] = 0] /\ till' = [till EXCEPT ![l] = 0]
    /\ wake' = [wake EXCEPT ![l] = FALSE]

\* Mutants of ReadBatch: the scan has no upper end; its start is exclusive.
UnboundedReadBatch(l) ==
    /\ phase[l] = "read"
    /\ phase' = [phase EXCEPT ![l] = "send"]
    /\ from' = [from EXCEPT ![l] = lastSeq[l] + 1]
    /\ till' = [till EXCEPT ![l] = lastSeq[l] + BatchLimit]
    /\ UNCHANGED <<logVars, ackVars, connVars, lastSeq, wake, lobeVars, faults>>
ExclusiveReadBatch(l) ==
    /\ phase[l] = "read"
    /\ IF lastSeq[l] + 2 <= head
       THEN /\ phase' = [phase EXCEPT ![l] = "send"]
            /\ from' = [from EXCEPT ![l] = lastSeq[l] + 2]
            /\ till' = [till EXCEPT ![l] = head]
       ELSE /\ phase' = [phase EXCEPT ![l] = "idle"]
            /\ UNCHANGED <<from, till>>
    /\ UNCHANGED <<logVars, ackVars, connVars, lastSeq, wake, lobeVars, faults>>

\* ReadSince scans the entries after lastSeq that are still in the log; it
\* starts at the first survivor, wherever that is.  An empty batch ends the
\* drain, and only then does the streamer wait for a notification.
ReadBatch(l) ==
    /\ phase[l] = "read"
    /\ LET first == Larger(lastSeq[l], pruned) + 1
           last  == Smaller(head, first + BatchLimit - 1)
       IN  IF first <= head
           THEN /\ phase' = [phase EXCEPT ![l] = "send"]
                /\ from' = [from EXCEPT ![l] = first]
                /\ till' = [till EXCEPT ![l] = last]
           ELSE /\ phase' = [phase EXCEPT ![l] = "idle"]
                /\ UNCHANGED <<from, till>>
    /\ UNCHANGED <<logVars, ackVars, connVars, lastSeq, wake, lobeVars, faults>>

\* The next entry of the batch goes on the wire; the last one sends the
\* streamer back to the log.
SendEntry(l) ==
    /\ phase[l] = "send" /\ Len(wire[l]) < MaxWire
    /\ wire'    = [wire EXCEPT ![l] = Append(@, from[l])]
    /\ lastSeq' = [lastSeq EXCEPT ![l] = from[l]]
    /\ from'    = [from EXCEPT ![l] = @ + 1]
    /\ phase'   = [phase EXCEPT ![l] = IF from[l] = till[l] THEN "read" ELSE @]
    /\ UNCHANGED <<logVars, ackVars, conn, acks, till, wake, lobeVars, faults>>

Await(l) ==
    /\ phase[l] = "idle"
    /\ phase' = [phase EXCEPT ![l] = "wait"]
    /\ UNCHANGED <<logVars, ackVars, connVars, lastSeq, from, till, wake, lobeVars, faults>>

Wake(l) ==
    /\ phase[l] = "wait" /\ wake[l]
    /\ wake'  = [wake EXCEPT ![l] = FALSE]
    /\ phase' = [phase EXCEPT ![l] = "read"]
    /\ UNCHANGED <<logVars, ackVars, connVars, lastSeq, from, till, lobeVars, faults>>

(***************************************************************************)
(* The Lobe: applying and acknowledging.                                   *)
(***************************************************************************)
\* The ack sent after every entry frame quotes lastApplied; on a closed
\* connection it is lost.
SendAck(l, seq) ==
    acks' = [acks EXCEPT ![l] = IF conn[l] = "up" THEN Append(@, seq) ELSE @]

\* Apply skips what the cursor already covers and checks nothing else.  Every
\* SyncEvery entries it syncs; the commits in between are NoSync.
Apply(l) ==
    /\ wire[l] # <<>> /\ Len(acks[l]) < MaxWire
    /\ LET seq  == Head(wire[l])
           new  == seq > applied[l]
           sync == new /\ since[l] + 1 >= SyncEvery
       IN  /\ applied' = [applied EXCEPT ![l] = Larger(@, seq)]
           /\ held'   = [held EXCEPT ![l] = IF new THEN @ \cup {seq} ELSE @]
           /\ failed' = [failed EXCEPT ![l] = IF new THEN @ \ {seq} ELSE @]
           /\ since'  = [since EXCEPT ![l] = IF sync THEN 0 ELSE IF new THEN @ + 1 ELSE @]
           /\ synced' = [synced EXCEPT ![l] = IF sync THEN seq ELSE @]
           /\ SendAck(l, Larger(applied[l], seq))
    /\ wire' = [wire EXCEPT ![l] = Tail(@)]
    /\ UNCHANGED <<logVars, ackVars, conn, sendVars, faults>>

\* Mutant of HandleAck: the Lobe is taken to have what it was sent.
SentHandleAck(l) ==
    /\ acks[l] # <<>>
    /\ replicaSeq' = [replicaSeq EXCEPT ![l] = lastSeq[l]]
    /\ acks' = [acks EXCEPT ![l] = Tail(@)]
    /\ UNCHANGED <<logVars, snapSeq, late, conn, wire, sendVars, lobeVars, faults>>

\* UpdateReplicaSeq is a plain store, whatever was stored before.
HandleAck(l) ==
    /\ acks[l] # <<>>
    /\ replicaSeq' = [replicaSeq EXCEPT ![l] = Head(acks[l])]
    /\ acks' = [acks EXCEPT ![l] = Tail(@)]
    /\ UNCHANGED <<logVars, snapSeq, late, conn, wire, sendVars, lobeVars, faults>>

\* The reader of a replaced connection stores the ack it had already read.
HandleLateAck(l) ==
    /\ \E seq \in late[l] :
          /\ replicaSeq' = [replicaSeq EXCEPT ![l] = seq]
          /\ late' = [late EXCEPT ![l] = @ \ {seq}]
    /\ UNCHANGED <<logVars, snapSeq, connVars, sendVars, lobeVars, faults>>

(***************************************************************************)
(* Joining, and leaving by whatever way a connection ends.                 *)
(***************************************************************************)
\* The Cortex closes a connection: the acks in it are gone, but for one that
\* its reader may have taken and not stored yet.
DropAcks(l) ==
    /\ acks' = [acks EXCEPT ![l] = <<>>]
    /\ \/ UNCHANGED late
       \/ /\ acks[l] # <<>>
          /\ late' = [late EXCEPT ![l] = @ \cup {Head(acks[l])}]

\* HandleIncomingJoin registers the new connection, which closes the one it
\* replaces.  Without snapshots the streamer starts at once.
Join(l) ==
    /\ conn[l] = "down"
    /\ wire' = [wire EXCEPT ![l] = <<>>]
    /\ DropAcks(l)
    /\ IF Snapshots
       THEN /\ conn' = [conn EXCEPT ![l] = "snap"]
            /\ snapSeq' = [snapSeq EXCEPT ![l] = head]
            /\ UNCHANGED sendVars
       ELSE /\ conn' = [conn EXCEPT ![l] = "up"]
            /\ StartStream(l)
            /\ UNCHANGED snapSeq
    /\ UNCHANGED <<logVars, replicaSeq, lobeVars, faults>>

\* Mutant of SnapshotDone: the counter is read after the view was taken.
LateCounterSnapshotDone(l) ==
    /\ conn[l] = "snap"
    /\ \E seq \in snapSeq[l] .. head : \E view \in snapSeq[l] .. seq :
          /\ applied' = [applied EXCEPT ![l] = seq]
          /\ synced'  = [synced EXCEPT ![l] = seq]
          /\ held'    = [held EXCEPT ![l] = 1 .. view]
    /\ since'  = [since EXCEPT ![l] = 0]
    /\ failed' = [failed EXCEPT ![l] = {}]
    /\ conn'   = [conn EXCEPT ![l] = "up"]
    /\ StartStream(l)
    /\ UNCHANGED <<logVars, ackVars, wire, acks, faults>>

\* The sender reads the counter, then takes its view of the database; the
\* Lobe ends with that view and rebases its cursor onto the counter.  The
\* Cortex streams from the seq quoted when the Lobe joined.
SnapshotDone(l) ==
    /\ conn[l] = "snap"
    /\ \E seq \in snapSeq[l] .. head : \E view \in seq .. head :
          /\ applied' = [applied EXCEPT ![l] = seq]
          /\ synced'  = [synced EXCEPT ![l] = seq]
          /\ held'    = [held EXCEPT ![l] = 1 .. view]
    /\ since'  = [since EXCEPT ![l] = 0]
    /\ failed' = [failed EXCEPT ![l] = {}]
    /\ conn'   = [conn EXCEPT ![l] = "up"]
    /\ StartStream(l)
    /\ UNCHANGED <<logVars, ackVars, wire, acks, faults>>

\* What a closed connection means for both ends; a snapshot cut short may have
\* wiped the Lobe's data already.
StopStream(l) ==
    /\ phase' = [phase EXCEPT ![l] = "off"]
    /\ wake'  = [wake EXCEPT ![l] = FALSE]
    /\ UNCHANGED <<lastSeq, from, till>>

LeftOver(l) == IF conn[l] = "snap" THEN {held[l], {}} ELSE {held[l]}

CloseConn(l) ==
    /\ conn' = [conn EXCEPT ![l] = "down"]
    /\ StopStream(l)

\* One more fault of a kind the instance allows.
Fault(kind) ==
    /\ kind \in Faults /\ faults < MaxFaults
    /\ faults' = faults + 1

\* The connection breaks, or the Lobe leaves the cluster.
Disconnect(l) ==
    /\ Fault("disconnect") /\ conn[l] # "down"
    /\ CloseConn(l)
    /\ \E rest \in LeftOver(l) : held' = [held EXCEPT ![l] = rest]
    /\ UNCHANGED <<logVars, ackVars, wire, acks, applied, since, synced, failed>>

\* A clean restart closes the database, which writes everything out.
LobeRestart(l) ==
    /\ Fault("restart") /\ conn[l] = "up"
    /\ CloseConn(l)
    /\ wire' = [wire EXCEPT ![l] = <<>>]
    /\ synced' = [synced EXCEPT ![l] = applied[l]]
    /\ since'  = [since EXCEPT ![l] = 0]
    /\ UNCHANGED <<logVars, ackVars, acks, applied, held, failed>>

\* A power loss: of the commits since the last sync, a prefix survives.  An
\* OpBatch commits its data before its cursor, so one more entry may be there.
LobeCrash(l) ==
    /\ Fault("crash")
    /\ CloseConn(l)
    /\ wire' = [wire EXCEPT ![l] = <<>>]
    /\ \E cursor \in synced[l] .. applied[l], rest \in LeftOver(l) :
       \E data \in cursor .. Smaller(cursor + 1, applied[l]) :
          /\ applied' = [applied EXCEPT ![l] = cursor]
          /\ synced'  = [synced EXCEPT ![l] = cursor]
          /\ held'    = [held EXCEPT ![l] =
                 {e \in rest : e \in 1 .. data \/ e > applied[l]}]
    /\ since' = [since EXCEPT ![l] = 0]
    /\ UNCHANGED <<logVars, ackVars, acks, failed>>

\* The operator stops the Lobe and deletes its data directory.
LobeWipe(l) ==
    /\ Fault("wipe")
    /\ CloseConn(l)
    /\ wire' = [wire EXCEPT ![l] = <<>>]
    /\ applied' = [applied EXCEPT ![l] = 0] /\ synced' = [synced EXCEPT ![l] = 0]
    /\ since' = [since EXCEPT ![l] = 0]
    /\ held' = [held EXCEPT ![l] = {}] /\ failed' = [failed EXCEPT ![l] = {}]
    /\ UNCHANGED <<logVars, ackVars, acks>>

\* The Cortex restarts as Cortex: it keeps the log and loses all the rest.
CortexRestart ==
    /\ Fault("cortex")
    /\ prune' = NoPrune
    /\ replicaSeq' = [l \in Lobe |-> None] /\ snapSeq' = [l \in Lobe |-> 0]
    /\ late' = [l \in Lobe |-> {}]
    /\ conn' = [l \in Lobe |-> "down"] /\ acks' = [l \in Lobe |-> <<>>]
    /\ phase' = [l \in Lobe |-> "off"] /\ wake' = [l \in Lobe |-> FALSE]
    /\ \E cut \in SUBSET {l \in Lobe : conn[l] = "snap"} :
          held' = [l \in Lobe |-> IF l \in cut THEN {} ELSE held[l]]
    /\ UNCHANGED <<head, pruned, wire, lastSeq, from, till, applied, since, synced, failed>>

\* RemoveNode forgets the Lobe; it may join again later.
RemoveNode(l) ==
    /\ Fault("remove")
    /\ replicaSeq' = [replicaSeq EXCEPT ![l] = None]
    /\ snapSeq' = [snapSeq EXCEPT ![l] = 0]
    /\ CloseConn(l) /\ DropAcks(l)
    /\ \E rest \in LeftOver(l) : held' = [held EXCEPT ![l] = rest]
    /\ UNCHANGED <<logVars, wire, applied, since, synced, failed>>

\* OnRecover: the Lobe was SDOWN and answers again, its streamer is replaced.
\* The old one stops before its next entry, and what it had sent is already
\* ahead in the same connection.
RestartStream(l) ==
    /\ Fault("sdown") /\ conn[l] = "up"
    /\ StartStream(l)
    /\ UNCHANGED <<logVars, ackVars, connVars, lobeVars>>

\* sendBulk found the write slot busy too often: Stream returns its error, the
\* goroutine logs it and ends.  The connection stays open.
StreamGivesUp(l) ==
    /\ Fault("busy") /\ phase[l] = "send"
    /\ StopStream(l)
    /\ UNCHANGED <<logVars, ackVars, connVars, lobeVars>>

\* Apply fails on an entry: streamFromCortex logs it, acks and reads on.
ApplyFails(l) ==
    /\ Fault("apply")
    /\ wire[l] # <<>> /\ Len(acks[l]) < MaxWire
    /\ Head(wire[l]) > applied[l]
    /\ failed' = [failed EXCEPT ![l] = @ \cup {Head(wire[l])}]
    /\ wire' = [wire EXCEPT ![l] = Tail(@)]
    /\ SendAck(l, applied[l])
    /\ UNCHANGED <<logVars, ackVars, conn, sendVars, applied, since, synced, held>>

(***************************************************************************)
(* The periodic prune.                                                     *)
(***************************************************************************)
\* Mutant of MinReplicatedSeq: all but the newest entry has surely arrived.
HopefulReplicatedSeq == IF head = 0 THEN 0 ELSE head - 1

\* MinReplicatedSeq: the Lobes that have acked are all it knows of.
MinReplicatedSeq ==
    IF Acked = {} THEN 0
    ELSE CHOOSE seq \in {replicaSeq[l] : l \in Acked} :
            \A l \in Acked : seq <= replicaSeq[l]

\* Where the ceiling puts the watermark when the acks would put it lower.
Ceiling == IF MaxBacklog = 0 \/ head <= MaxBacklog THEN 0 ELSE head - MaxBacklog

\* The tick computes the watermark, unless a snapshot is in transfer.
PruneTick ==
    /\ Pruning /\ prune = NoPrune
    /\ \A l \in Lobe : conn[l] # "snap"
    /\ LET upto == Larger(MinReplicatedSeq, Ceiling)
       IN  /\ upto > 0
           /\ prune' = [stage  |-> IF Ceiling > MinReplicatedSeq THEN "collect" ELSE "evict",
                         upto   |-> upto,
                         behind |-> {}]
    /\ UNCHANGED <<head, pruned, ackVars, connVars, sendVars, lobeVars, faults>>

\* evictLobesBehind: first the list of those whose ack is below the watermark,
CollectBehind ==
    /\ prune.stage = "collect"
    /\ prune' = [prune EXCEPT !.stage  = "evict",
                              !.behind = {l \in Acked : replicaSeq[l] < prune.upto}]
    /\ UNCHANGED <<head, pruned, ackVars, connVars, sendVars, lobeVars, faults>>

\* then each is dropped and forgotten,
EvictLobe(l) ==
    /\ l \in prune.behind
    /\ prune' = [prune EXCEPT !.behind = @ \ {l}]
    /\ replicaSeq' = [replicaSeq EXCEPT ![l] = None]
    /\ CloseConn(l) /\ DropAcks(l)
    /\ \E rest \in LeftOver(l) : held' = [held EXCEPT ![l] = rest]
    /\ UNCHANGED <<head, pruned, snapSeq, wire, applied, since, synced, failed, faults>>

\* and the entries go.  Prune never takes the head of the log, nor anything
\* twice.
PruneLog ==
    /\ prune.stage = "evict" /\ prune.behind = {}
    /\ pruned' = IF prune.upto >= head THEN pruned ELSE Larger(pruned, prune.upto)
    /\ prune' = NoPrune
    /\ UNCHANGED <<head, ackVars, connVars, sendVars, lobeVars, faults>>

-------------------------------------------------------------------------------
\* What the Cortex, a streamer and a Lobe do of themselves.
Ship(l) == ReadBatch(l) \/ SendEntry(l) \/ Await(l) \/ Wake(l)
Receive(l) == Apply(l) \/ HandleAck(l) \/ HandleLateAck(l)
Connect(l) == Join(l) \/ SnapshotDone(l)
PruneCycle == PruneTick \/ CollectBehind \/ (\E l \in Lobe : EvictLobe(l)) \/ PruneLog

\* What may go wrong.
GoWrong(l) ==
    \/ Disconnect(l) \/ LobeRestart(l) \/ LobeCrash(l) \/ LobeWipe(l)
    \/ RemoveNode(l) \/ RestartStream(l) \/ StreamGivesUp(l) \/ ApplyFails(l)

Next ==
    \/ Write \/ PruneCycle \/ CortexRestart
    \/ \E l \in Lobe : Ship(l) \/ Receive(l) \/ Connect(l) \/ GoWrong(l)

Spec == Init /\ [][Next]_vars

\* Every goroutine that can run does: a streamer and a reader are blocked only
\* by their own connection, and streamReplication joins again for ever.
Fairness ==
    \A l \in Lobe : /\ WF_vars(Join(l)) /\ WF_vars(SnapshotDone(l))
                    /\ WF_vars(Ship(l)) /\ WF_vars(Apply(l)) /\ WF_vars(HandleAck(l))

FairSpec == Spec /\ Fairness

(***************************************************************************)
(* Properties.                                                             *)
(***************************************************************************)
TypeOK ==
    /\ head \in Position /\ pruned \in Position
    /\ prune \in [stage : {"none", "collect", "evict"}, upto : Position,
                  behind : SUBSET Lobe]
    /\ replicaSeq \in [Lobe -> Position \cup {None}]
    /\ snapSeq \in [Lobe -> Position]
    /\ late \in [Lobe -> SUBSET Position]
    /\ conn \in [Lobe -> {"down", "snap", "up"}]
    /\ wire \in [Lobe -> Seq(Entry)]
    /\ acks \in [Lobe -> Seq(Position)]
    /\ phase \in [Lobe -> {"off", "read", "send", "idle", "wait"}]
    /\ lastSeq \in [Lobe -> Position]
    /\ from \in [Lobe -> Nat] /\ till \in [Lobe -> Nat]
    /\ wake \in [Lobe -> BOOLEAN]
    /\ applied \in [Lobe -> Position]
    /\ since \in [Lobe -> Nat]
    /\ synced \in [Lobe -> Position]
    /\ held \in [Lobe -> SUBSET Entry]
    /\ failed \in [Lobe -> SUBSET Entry]
    /\ faults \in Nat

\* A Lobe's cursor covers only entries its data reflects: lastApplied = n
\* means 1..n are there.  Apply checks no contiguity, so this rests on what
\* the Cortex streams and on where it starts.
NoGap == \A l \in Lobe : conn[l] = "up" => 1 .. applied[l] \subseteq held[l]

\* What is on its way to the Lobe.
OnWire(l) == {wire[l][i] : i \in 1 .. Len(wire[l])}

\* A streamer's position covers only entries that the Lobe holds or that are
\* on the wire: streamStartSeq is what the Cortex "can PROVE the Lobe already
\* holds" and ReadSince leaves nothing out.
NothingSkipped ==
    \A l \in Lobe : phase[l] # "off" => 1 .. lastSeq[l] \subseteq held[l] \cup OnWire(l)

\* The position recorded for a Lobe is "what it has actually applied".
AckIsTrue == \A l \in Acked : 1 .. replicaSeq[l] \subseteq held[l]

\* An entry leaves the log only when every connected Lobe has it (the
\* caller's responsibility in the comment on ReplicationLog.Prune).
PrunedIsApplied ==
    \A l \in Lobe : conn[l] = "up" => 1 .. pruned \subseteq held[l]

\* A hole in a Lobe's data has one of two causes: the entry left the log
\* before it was sent, or its Apply returned an error.
HolesAreExplained ==
    \A l \in Lobe : conn[l] = "up" =>
        1 .. applied[l] \ held[l] \subseteq 1 .. pruned \cup failed[l]

\* allReplicasConverged, the condition a graceful failover waits for before it
\* hands over: the docs say all Lobes have acked the current seq by then.
AllReplicasConverged == \A l \in Acked : replicaSeq[l] >= head
ConvergedMeansAcked ==
    Acked # {} /\ AllReplicasConverged => \A l \in Lobe : conn[l] = "up" => applied[l] >= head

\* A Lobe whose cursor is behind the prune point gets a snapshot when it
\* joins, not a stream that starts after the hole (max_log_backlog's doc).
LeftBehindResnapshots ==
    [][\A l \in Lobe : conn[l] = "down" /\ conn'[l] = "up" => applied[l] >= pruned]_vars

\* Once the faults are over, every Lobe comes to hold the whole log.
Converges == <>[](\A l \in Lobe : held[l] = 1 .. head)

\* With a ceiling, a Lobe may miss data, yet once the faults are over its cursor
\* reaches the head: the head entry is never pruned, no wakeup is lost, and an
\* evicted Lobe is served again (evictLobesBehind, Prune, Stream).  Two Lobes are
\* excepted: one whose streamer gave up on a busy connection, and one on which
\* the head entry itself failed to apply.
CursorCatchesUp ==
    <>[](\A l \in Lobe : \/ applied[l] = head
                         \/ conn[l] = "up" /\ phase[l] = "off"
                         \/ head \in failed[l])

\* A streamer that gave up is rebuilt, as the comment on maxBusyRetries says,
\* or the connection ends.
DeadStreamIsRebuilt ==
    \A l \in Lobe : conn[l] = "up" /\ phase[l] = "off" ~> phase[l] # "off" \/ conn[l] # "up"

\* The promise of the design, stated without log, acks or connections: each
\* Lobe holds a prefix of the Cortex's writes and extends it entry by entry.
Prefix == INSTANCE PrefixReplication WITH store <- held
RefinesPrefix == Prefix!Spec
===============================================================================
