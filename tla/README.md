# A TLA+ development of MuninnDB's concurrent core

MuninnDB is a memory database written in Go. One process is a full server on
its own; several form a cluster in which one node, the *Cortex*, takes all the
writes and ships them to the others, its *Lobes*. Two kinds of code in it are
hard to get right and harder to test: what several machines agree on, in which
order, after which failures (`internal/replication`), and what goroutines of one
process do to the same engram, cache, channel or vault
(`internal/storage`, `internal/index/fts`, `internal/engine`). This development
models both.

| Module | What it is | Proofs |
|---|---|---|
| `Election` | leader election: votes, claims, epochs, promotion, demotion, handoff and recovery | `ElectionProofs` |
| `Heartbeat` | the failure detector that starts an election | `HeartbeatProofs` |
| `RoleSupervisor` | one node between its election, its role and its supervisor | `RoleSupervisorProofs` |
| `Handoff` | the planned handoff of leadership, with claims, crashes and restarts | `HandoffProofs` |
| `Replication` | log shipping: log, streamers, appliers, joins, snapshots, prune | `ReplicationProofs` |
| `PrefixReplication` | the abstract specification of what log shipping promises | |
| `Succession` | log shipping across changes of Cortex | `SuccessionProofs` |
| `EngramStore` | one engram: its record, index, lease, caches, lock and replicated batches | `EngramStoreProofs` |
| `FtsWorker` | the pool behind the keyword index, with rebuild and clear of a vault | `FtsWorkerProofs` |

`MC<module>` extends each module for TLC. `PROJECT.json` maps every definition to
the lines it models and lists the runs, the mutants that show that each property
can fail, the hazards and the findings.

To check a run: `tlc -config rep_prefix.cfg MCReplication.tla`. To check proofs:
`tlapm ElectionProofs.tla`. A run takes from seconds to three minutes with two
workers, a module of proofs up to five.

## 1. Inventory of the system

Paths are relative to `src/internal`.

### 1.1 The replication layer

**Leader election** (`replication/election.go`, `epoch.go`). State: the epoch, on
disk (`EpochStore`); in memory the election state, the known leader, the epoch
of the current candidacy, votes received and votes given per epoch, the voter
registry. Operations: `StartElection`, `HandleVoteRequest`,
`HandleVoteResponse`, `tryPromote`, `HandleCortexClaim`, `StepDown`,
`ClearLeader`, `ResetCandidate`. The mutex is released between counting a quorum
and `tryPromote`, and before the promotion and demotion callbacks. Joins move
the epoch without taking the mutex at all. Correct when: nobody votes twice in
an epoch; at most one node wins an epoch; a majority durably knows a won epoch;
a role of Cortex implies leadership.

**Replication log** (`log.go`). State: the last sequence number and the entries
in Pebble, the subscriptions. Operations: `Append` (entry and counter in one
synced batch, then notify), `ReadSince`, `Prune`, `Subscribe`. Correct when: the
head entry is never pruned, nothing a connected Lobe needs is pruned, and no
wakeup is lost.

**Streamer and applier** (`streamer.go`, `applier.go`). A `NetworkStreamer` per
Lobe drains the log from a start position, then waits for a notification. The
Lobe's `Applier` skips what its cursor covers and applies the rest without
looking for gaps; it syncs every hundredth entry only. The Lobe acks after each
frame. Correct when: the cursor covers only what the data reflect.

**Join and snapshot** (`join.go`, `snapshot.go`, `jointoken.go`). A join
registers the connection, exchanges epochs, may ship a snapshot (capture the log
counter, then the database view), and ends with a stream. Correct when: the
counter is not ahead of the view, and a Lobe left behind the prune point gets a
snapshot.

**Coordinator** (`coordinator.go`, `hello.go`). Knows per Lobe the last ack
(`replicaSeqs`) and the seq quoted at the join (`snapshotSeqs`); starts, stops
and restarts streamers; runs the periodic prune with its backlog ceiling and
evictions; runs promotion and demotion; the role supervisor; graceful failover;
the quorum watch. It is where all the other parts meet.

**Connections** (`conn_manager.go`, `peer_conn.go`, `tls.go`). One live
connection per peer. A new one closes its predecessor, whose readers may still
deliver one frame. Bulk sends give up on a busy write slot.

**Heartbeats** (`msp.go`, `reachability.go`). Suspicion (SDOWN) by silence,
agreement on it (ODOWN) by gossiped votes, reported once per episode. Correct
when: ODOWN needs a quorum that found the peer down, a new episode is reported
anew, a crash is reported in the end.

**Role supervisor** (`coordinator.go`, `hello.go`). A loop that leads, follows or
waits for a quorum; calls that set the role and push events onto a channel of
four; a periodic quorum check that makes a Cortex step down; a failover driver
that campaigns until there is a leader. Correct when: role and election never
part for good, the loop follows the role, the driver ends.

**Graceful failover** (`coordinator.go`, `epoch.go`). Drain, wait for
convergence, HANDOFF, an ack with a timeout, demotion; on the target the epoch,
the persisted role, a claim and a promotion, in that order. Correct when:
leadership is neither lost nor doubled for long, whatever crashes on the way.

**Lease-based elector** (`leader.go`, `lease.go`, `memory_backend.go`,
`fence.go`). An alternative to the vote: whoever holds the lease leads, with a
fencing token. Correct when: two holders never share a token.

**Reconciliation** (`reconcile.go`, `ccs.go`). Samples association weights on
every node after a failover and repairs the differences.

### 1.2 The write path and the other concurrent parts

**Engram store** (`storage/engram.go`, `lease.go`, `cache.go`, `impl.go`,
`striped_mutex.go`). One engram is a record under two keys, an entry in the state
index, a lease; in front of it the L1 cache of records and a cache of metadata.
Readers fill the caches without a lock. Most writers hold the engram's stripe
lock from their read to their commit, some do not. Correct when: no update is
lost, the index and the caches agree with the record, a live lease is nobody
else's, the lock is always released.

**Replicated writes** (`storage/impl.go`, `replication/local_append.go`). A batch
is committed, then appended to the log if the node is not a follower. The two are
not atomic. Correct when: the log has the commits of one engram in their order.

**Keyword index** (`index/fts/worker.go`, `engine/engine_reindex_fts.go`,
`engine_vault.go`). Writes submit jobs to a bounded channel; goroutines batch and
index them, survive panics, skip vaults that are being cleared, drain on Stop;
Flush waits on a counter. Correct when: the counter is exact, Stop drains and
returns, no engram goes unindexed without a trace.

**Vault jobs** (`engine/vaultjob/manager.go`): a table of jobs and their states.
**MOL write-ahead log** (`wal/mol.go`): a group committer with a bounded queue.
**Background writers** (`storage/*_batcher.go`, `*_syncer.go`, `*_coalescer.go`,
`transition_cache.go`, ...): queues and maps in front of Pebble.

### 1.3 The rest

The memory engine, cognitive workers, queries and plugins compute over floats and
text; transports, auth, backup, configuration, commands and SDKs are I/O around
them. They are listed in `PROJECT.json` with the reason why each is left out.

### 1.4 How the parts interact

    client write -> storage batch -> Append -> notify -> NetworkStreamer
        -> PeerConn -> Applier -> ack -> UpdateReplicaSeq -> prune watermark
    MSP suspicion -> Election -> OnPromoted/OnDemoted -> role -> supervisor
        -> streamReplication -> join -> (snapshot) -> stream
    join, hello -> epochs and claims -> Election
    GracefulFailover -> HANDOFF -> claim -> Election, ack -> demotion
    Write -> Submit -> channel -> batch -> postings;  reindex, clear -> skip

Where two modules meet: what `Heartbeat` calls ODOWN is `ODown` in
`RoleSupervisor`, and a suspicion that may come at any time in `Election`. The
candidacies and claims that `Election` decides are the environment of
`RoleSupervisor` and the frames of `Handoff`. The convergence check that `Handoff`
takes as a delay reads `Replication`'s acks; what those acks mean after a change
of Cortex is `Succession`'s subject. The batches `EngramStore` appends are the
entries `Replication` ships.

## 2. Plan

Each run asks one question of one instance, and a property goes into an existing
instance before it gets a new one, so that the whole can be checked in minutes.

Done: `Election`, `Replication` and its refinement to `PrefixReplication`,
`Heartbeat`, `RoleSupervisor`, `Handoff`, `Succession`, `EngramStore`,
`FtsWorker`, with proofs about all of them.

Left, in this order:

1. `SnapshotTransfer` - chunks, the completion sentinel, crashes of either side;
   refines the one-step snapshot of `Replication`. Worth it once the server wires
   snapshots (section 10).
2. `TransitionCache` - the delta map of `storage/transition_cache.go` between its
   loads, flushes and evictions (section 10).
3. The voter registry while peers join, and the quorum that depends on it.

Dropped after reading the code: the lease-based elector, which nothing
constructs; the group committer, whose batches nothing in production waits for;
the table of vault jobs, a map under one mutex.

## 3. Election

One action is one critical section of `Election.mu`.

| Code | Model |
|---|---|
| `EpochStore`: epoch and role | `epoch`, `crumbs`; all that `Restart` keeps |
| `state`, `currentLeader`, `candidateEpoch` | `estate`, `leader`, `candidateEpoch` |
| `votes`, `votedFor` | the same, per epoch |
| a quorum counted, `tryPromote` not yet entered | `promoting` |
| `OnPromoted` / `OnDemoted` not yet run | `callbacks` |
| `ClusterCoordinator.role` | `role` |
| where a node is in `GracefulFailover` | `failover` |
| calls of `HandleHandoff` on their way; a recovery at the start | `takeovers` |
| frames in flight | `msgs`, a set; a frame that is never read is lost |
| `HandleVoteRequest` | `RejectVoteRequest`, `RepeatVote`, `GrantVote` |
| `HandleVoteResponse` | `HandleVoteResponse` |
| `tryPromote` | `Promote`, `LoseRace`, `AbandonPromotion` |
| `HandleCortexClaim` | `IgnoreClaim`, `ReassertClaim`, `FollowClaim` |
| `handlePromotion`, `handleDemotion` | `RunPromotion`, `RunDemotion` |
| `runAsCortex` of a designated primary | `BootDefer`, `BootElect`, `BootAssert` |
| `runAsCortex` with a persisted role | `Restart` with `Recovers`, then `TakeLead`, `PromoteTaker`, `FinishTakeover` |
| `GracefulFailover`, `HandleHandoffAck` | `Drain`, `SendHandoff`, `GiveUp`, `HandleHandoffAck`, `Retire` |
| `HandleHandoff` | `HandleHandoff`, `PersistRole`, `AbortHandoff`, `TakeLead`, `PromoteTaker`, `FinishTakeover` |
| join and hello as carriers of epochs | `AcceptJoin`, `JoinConn`, `HelloClaim` |

Abstractions. A failure detector may suspect anybody at any time. Denied votes
change nothing at their receiver and are not sent. Identical frames in flight are
one. `JoinConn` loads and advances the epoch in one step: `Advance` refuses to go
back, so a step in between commutes with one of the two. Errors of the disk stop
the process in the store below, so `Advance` does not fail. The voter registry is
fixed, and `AdoptForSnapshot` is not modelled. The convergence that a drain waits for
is a delay. A target handles one handoff of a sender at a time, as the reader of that
connection is blocked in the call. A claim goes out in one step with the persisting
or the clearing of the role next to it: a node that stops between the two is one whose
claim nobody reads, or a `FinishTakeover` that keeps the role.

Three ways lead to the lead without a vote: `bootstrapPromoteIfDesignatedPrimary`,
`HandleHandoff`, and `runAsCortex` where the role `cortex` is persisted (an auto node
as well as a primary; lobes, sentinels and observers do not read it). So
`LeaderIsBacked` does not ask for votes: it asks that the chain of handoffs by which
a node came to lead starts at a vote or at a designated primary. The history `handed`
has who handed which epoch to whom, and the second conjunct asks the same of every
sender: otherwise a node that handed over without a mandate would vouch for its
target.

| Run | Instance | What it shows |
|---|---|---|
| `election_safety` | 2 candidates, 1 sentinel, 2 epochs | single votes, honest tallies, one winner per epoch, role implies leadership |
| `election_crash` | `BootstrappedSpec`: a designated primary that may hand over, a second node, both may crash, joins and hellos, 2 epochs | types; a majority remembers every won epoch; who may lead without votes, through handoffs and recoveries; no candidacy in an epoch voted in |
| `election_duel` | 2 primaries and an observer, `SettleSpec` | the duel ends with one leader |

Three nodes are the least with a majority that is not everybody; two epochs let
every action meet an older and a newer epoch, and a third adds only repetition
of those. `MaxClaims` bounds frames that a Cortex may send again and again. With
crashes two nodes are enough for what a run can ask: the properties of
`election_crash` are about one node and its own past, or about a majority, which
is then both. Joins and hellos are enabled there (`MaxClaims`); what they mean for
the properties of `election_safety` is proved (`VoteOnceTheorem`,
`ElectedOnceTheorem`), not run. `election_crash` starts from `Bootstrapped`, a state
`CrashSpec` reaches (the designated primary has led epoch 1 on its own vote before the
other node came up). `Draining`, the nodes on which an operator calls
`GracefulFailover`, is the primary there and empty in the other runs: the other node is
the one that leads without being designated, takes over, crashes and recovers. What
happens from the empty start on, with any nodes draining and replicas as targets, is
proved.

*Fairness.* `SettleSpec` is the start-up with nobody suspected: connections stay
up, so every frame is read, and each goroutine that can take its next step does.
There is no liveness property of a failover: candidates retry after random
delays, and without a probability nothing excludes that they split votes for
ever.

*Proved* in `ElectionProofs`, for every set of nodes and every bound:
`TypeCorrect`, `QuorumRemembersTheorem`, `NeverReproposesTheorem`,
`PrimaryIsLeaderTheorem`, `LeaderIsBackedTheorem`, `CountedVotesTheorem` with
crashes; `VoteOnceTheorem` and `ElectedOnceTheorem` without. The argument: a vote
that was cast is in the voter's `votedFor` or its epoch has moved past it
(`VoteInv`); every counted vote was cast, so a winner has a majority of cast
votes; two majorities share a voter; that voter voted once. With crashes only the
durable half survives (`DurableInv`): a cast vote's epoch is at most the voter's
epoch. That is enough for `QuorumRemembers` and not for `ElectedOnce`, which fails
with crashes (section 10).

`LeaderIsBacked` is not inductive: a node becomes Leader from a call that is under way
or from a role on disk. `BackedInv` says that whatever can end in a lead rests on a
mandate already (`Holds`: the lead, the role, a call of `GracefulFailover`, a takeover,
a persisted role), that a HANDOFF in flight is in `handed`, and that only designated
primaries run the boot sequence. A mandate is never lost, because epochs and histories
only grow (`MandateGrows`); a handoff of `e` in `handed` is one for its
target (`HandleHandoffKeepsBacked`) once its epoch is past `e`, and the epoch it has advanced to outlives its
crash with the role.

## 4. Replication

One Cortex and its Lobes. An entry is its sequence number, a Lobe's data the set
of entries its database reflects.

| Code | Model |
|---|---|
| `ReplicationLog.seq`, the pruned part | `head`, `pruned` |
| `replicaSeqs`, `snapshotSeqs` | `replicaSeq`, `snapSeq` |
| a `PeerConn` | `conn`, and two FIFO buffers, `wire` and `acks` |
| the reader of a replaced connection | `late` |
| `NetworkStreamer.Stream` | `phase`, `lastSeq`, `from`..`till`, `wake` |
| `Applier` | `applied`, `since`, `synced` (what a power loss leaves) |
| `Append` and notify | `Write` |
| `ReadSince`, `sendBulk`, waiting | `ReadBatch`, `SendEntry`, `Await`, `Wake` |
| `Apply` and the ack | `Apply`; its error path, `ApplyFails` |
| `UpdateReplicaSeq` | `HandleAck`, `HandleLateAck` |
| `HandleIncomingJoin`, `joinConn` | `Join`, `SnapshotDone` |
| the periodic prune | `PruneTick`, `CollectBehind`, `EvictLobe`, `PruneLog` |
| `OnRecover`, `RemoveNode`, a streamer that gives up | `RestartStream`, `RemoveNode`, `StreamGivesUp` |
| connection and process failures | `Disconnect`, `LobeRestart`, `LobeCrash`, `LobeWipe`, `CortexRestart` |

Abstractions. Frames left in a closed connection may be read until the Lobe joins
again. The streamer that `OnRecover` cancels may send one more entry; it is ahead
on the same FIFO, so the replacement is one step. A streamer started while a
snapshot is copied cuts that snapshot short, which is `Disconnect` in that phase.
A snapshot is one step at its end, with its two reads in order; what it leaves
when it is cut short is the old data or none. `ResetTo`'s path that does not
persist the cursor matters only after a restart, which takes a new snapshot.
Sentinels and observers replicate like any Lobe. A failed `Append` is fatal.
`Snapshots = FALSE` is how the server wires it (`replication/coordinator.go:228`
and `:230`), `TRUE` how the tests and the documents have it.

| Run | Instance | What it shows |
|---|---|---|
| `rep_prefix` | 2 Lobes that keep their disks, 2 faults | no gap, nothing skipped, acks are true, refinement of `PrefixReplication` |
| `rep_prune` | `FairSpec`, 1 Lobe, pruning by acks, 3 faults | nothing needed is pruned; in the end the Lobe holds the whole log |
| `rep_holes` | `FairSpec`, 1 Lobe, snapshots, backlog ceiling, crashes, wiped disks, failing applies, 2 faults | holes have one of two causes; in the end the cursor reaches the head |

Lobes interact only through the prune and a Cortex restart, so two are enough;
where pruning is the subject one suffices, because the watermark is a minimum.
Two or three entries give batches of one and of more than one (`BatchLimit = 2`),
a synced and an unsynced entry (`SyncEvery = 2`), a pruned entry and the head
that is never pruned. The buffers hold two frames, so that one can be read and
one lost. Deadlock is not checked: the system may rest when all is shipped, and
the bounds stop it.

`rep_prune` checks `PrunedIsApplied` where it does hold: with one Lobe no other
Lobe's ack can move the watermark. Section 10 has the instance with two.

`CursorCatchesUp` excepts two Lobes. A streamer that gave up leaves its Lobe
behind while the connection lives (section 10), and a Lobe on which the head
entry failed to apply waits for the next write.

*Fairness.* Weak fairness of joining, shipping, applying and reading acks. Each
is a loop of a goroutine of its own, blocked only by its own connection, and
`streamReplication` joins again for ever. Nothing is assumed of writes, faults,
the prune and late acks. The faults are bounded, so the claims read: once the
faults are over.

*Proved* in `ReplicationProofs`, for every set of Lobes, every bound and every
set of faults except where a named condition says otherwise:

- `TypeCorrect`, with no condition. It needs `BatchOK`: what is left of a batch
  is a range of entries of the log.
- `HolesTheorem` if `KeepsDisk`: joins bring snapshots, or no Lobe loses data.
- `NoGapTheorem` and `NothingSkippedTheorem` if moreover `Lossless`: no pruning
  and no failing apply. `AckIsTrueTheorem` if moreover no snapshots.
- `RefinementTheorem` if `Kept` (no snapshots, no data lost) and `Lossless`:
  `Spec => RefinesPrefix`.
- `PruneTheorem` if `Kept` and `PrunesByAck`: one Lobe, no ceiling on the backlog
  and no failing apply. Each condition is needed: TLC violates `PrunedIsApplied`
  when any of them, or the kept disk, is dropped (section 10 has the second Lobe).

The invariant (`LobeInv`) counts an entry as had when the Lobe holds it, it was
pruned, or its apply failed. Every recorded position (cursor, ack in any stage,
snapshot seq) covers only entries had; each frame comes after all it builds on
(`Frames`); the streamer's position covers only entries had or on the wire
(`Stream`). `NoGap` by itself is not inductive: `Apply` looks at no gap, so one
must know the order on the wire, that order needs the streamer's position, and
that position needs every ack that may become a start position. A Lobe that may
lose data is promised this only while connected or while frames of its old
connection are left (`Intact`). While a snapshot is copied, all that is known of
the Lobe is older than the seq quoted at its join (`Copying`). With `Lossless`, the
other two causes disappear and "had" is "held" (`WholeInv`). For the refinement,
a Lobe's data are also no more than its cursor (`PrefixInv`), so an entry that is
applied is the next one.

For the prune (`PrunedInv`), the watermark of a cycle in progress and the prune
point are held by the Lobe: the ack that gave the watermark covers only what was
had, by `IInv`, and what a Lobe on a kept disk holds it keeps.

*Only model-checked*: the liveness properties (`Converges`, `CursorCatchesUp`),
which rest on fairness and are out of the prover's reach.

## 5. Heartbeat, RoleSupervisor and Handoff

### 5.1 Heartbeat

One peer, `Target`, and all who watch it: votes about different peers never meet.

| Code | Model |
|---|---|
| `PeerState.LastSeen` against `missedThreshold` | `miss`, beats since the target was heard |
| `SDown`, `odownFired`, `votedDown` | `sdown`, `fired`, `votes` |
| vote frames in flight, heartbeats sent before a crash | `gossip`, `late` |
| `HandleHeartbeat`, `AddPeer` | `HandleHeartbeat`, `Rejoin` |
| `tick` with `gossipSDown` | `Tick` |
| `RecordDownVote` | `RecordDownVote`; a connection that breaks, `LoseVote` |

Run `heartbeat`: three watchers, one of them an observer that may stop, with
`Missed = 0`: the threshold only delays. A crash and a return of the target, late
heartbeats and lost votes are all unbounded. `ODownHasQuorum` counts those who ever
found the target down and not those who do now, because a vote is never taken
back; `CrashIsDeclared` excepts a lost vote, because none is sent twice, and
demands that enough steady voters can agree. Three watchers are the least where
the votes of one come in two orders around another's verdict. `Fairness`: a node
that keeps running ticks, and reads the frames of a connection that stays; nothing
of the target is fair.

Proved for every set of watchers: types, `LatchEndsWithEpisode`,
`ODownHasQuorum`. The last needs that a voter in somebody's `votes` or in flight
is in `suspected`, and that a latch was set when the count was complete.

### 5.2 RoleSupervisor

| Code | Model |
|---|---|
| `role`, `Election.state`, `currentLeader` | `role`, `estate`, `leader` |
| `supervise`, `leadTerm`, `followTerm`, `waitQuorumTerm` | `mode`, `pc` |
| `roleCh` | `events`, a sequence bounded by `Buffer` |
| goroutines in `handlePromotion`, `handleDemotion`, `checkQuorumHealth` | `calls`, how many are at each of twelve stages |
| `hadQuorum`, `quorumLostSince` | `hadQuorum`, `lost` |
| `startElectionWithJitter` | `driver` |
| claims, votes and peers of the other nodes | `OtherClaims`, `Win`, `SplitVote`, `GiveWay`, `PeersChange` |

Goroutines at one stage are interchangeable, so they are counted and not named. A
supervisor step that checks, looks up and acts is two steps, as in the code. Where
a timer only delays, its round is left out.

Run `supervisor`: two calls in progress and a channel of one event. With a channel
of one, losing an event is common and not rare; with two calls every pair of
stages meets. `DemotedFollows` and `DriverSucceeds` are about a node left alone in
the end (`<>[]`): with claims and quorum changes for ever nothing settles. `Fairness`:
each goroutine that can step does; `select` does not starve a ready case, so
`Receive` is strongly fair; of ever new candidacies with random back-off one is won
in the end (`hello.go:258`), so `Win` is too. `DriverSucceeds` excepts `Deposed`, a
leader whose role a late demotion took (section 10).

Proved for every number of calls and every capacity: types, `PrimaryLeads`,
`BootstrapStands`. The invariant has two parts besides: the goroutines at the
twelve stages add up to `Calls` (`Conserved`), so that a step's count does not
exceed its bound, and a set latch was earned by a check that found a quorum
(`LatchIsEarned`), so that a call on its way to step down is evidence of one.

### 5.3 Handoff

| Code | Model |
|---|---|
| `EpochStore`: epoch and role | `epoch`, `crumb` |
| `GracefulFailover` on the Cortex | `call`: idle, drain, await, demote |
| `HandleHandoff` on the target | `stage`, per sender: one stage per effect |
| a connection's reader, blocked in that call | `busy` |
| frames in flight | `net`, a FIFO per ordered pair |
| `HandleCortexClaim` | `ReassertClaim`, `FollowClaim`, `IgnoreClaim` |
| `runAsCortex` and `runAsLobe` at a start | `Restart`; `Recovers` reads the persisted role |
| the claim on a new connection | `Hello` |

Nobody campaigns here and a settled Cortex does not crash: `Election` and
`Heartbeat` have that, and with it leadership may of course lapse until a vote. A
demotion runs at once with its claim; `Election` has the gap. `Election` has the same
calls as steps among votes, suspicions and joins, for the question who may lead at all;
here are FIFO channels, connections that break and a bounded number of attempts, for
the questions whether somebody leads and for how long two do.

Run `handoff`: three nodes, two attempts, one crash or broken connection. Three
nodes let a handoff's claim and a second handoff's meet at a third party, two
attempts let an ack of the first meet the second, and one fault at every step is
what the persisted role is for. `LeadershipIsKept` excepts `mistaken`: a call that
takes another handoff's ack for its own or retires a node that came to lead again,
a retired node that defends a tie (`ReassertClaim`), and an ack that clears the
persisted role of another handoff (`ClearRole`). `DualIsBrief` excepts faults and
`overrun`, a claim that is handled between a node's own claim and its lead. These
exceptions are findings (section 10). The last two of `mistaken` take three attempts
to matter: the proof found them, beyond the bounds of the run. No run checks liveness
of a handoff: the failover may always be refused.

Proved in `HandoffProofs`, for every set of nodes and every number of attempts and
faults: types; `DualIsBrief` (`DualIsEnded`); and `LeadershipIsKept`
(`LeadershipStays`) if no node is configured as replica or there is no fault. With
both, a target that stops after its claim starts as a replica again, `runAsLobe` does
not read the persisted role, and nobody is left to lead: TLC finds it with
`Node = {1, 2}`, `Lobe = {1, 2}`, one attempt and one fault.

Both rest on `Sound`: a Cortex leads in its election (`Leading`); what `HandleHandoff`
has done at each stage and what it left on disk (`Staged`, `Crumbed`); no frame goes
from a node to itself (`Alone`); what a call waits for (`Calling`). For `DualIsBrief`, as long as
nothing has gone wrong, every two nodes know of each other's lead: the other's epoch
is at least as high, or a claim is on its way, or about to be sent (`Told`); and of a
tie one of the two is being told (`Tied`). For `LeadershipIsKept`, "some node leads" is
not inductive, since a claim may end any lead but the best. The invariant is that
there is a holder (a node that leads, is about to, or will when it restarts) whose
claim no rival's beats by the rule of `HandleCortexClaim` - a higher epoch, or the same
and a lower id - where rivals are nodes that lead, claims in flight, stages past
their claim, and acks that will make their receiver retire (`Top`). When such an ack
retires the holder, the one who sent it is the next.

## 6. Succession

Every node keeps the log of what it took as Cortex, numbered by its own counter,
and one cursor for what anybody streams to it. Leadership passes from any node to
any other; connections are reliable and nothing is pruned, so what goes wrong goes
wrong without a fault. No snapshot is taken, as the server wires it.

| Code | Model |
|---|---|
| `ReplicationLog.seq` and its entries | `log`, per node; the counter is its length |
| `Applier.lastApplied`, the database | `applied`, `data` |
| `replicaSeqs`, a streamer's position | `acked`, `stream` |
| `Append`, only on a node that leads (`LocalAppendFunc`) | `Accept` |
| `streamStartSeq`, `Apply` and the ack | `Join`, `Ship` |
| `handleDemotion`, `handlePromotion` | `Succeed`; nothing but the streamers is reset |

`found_succession` has three nodes and finds the data loss in eight states. Between
two nodes there is none: the cursor of the one counts the log of the other and of
nobody else. That is proved (`TwoNodesAreSafe`) for every number of writes,
failovers, restarts and reconnections. The invariant: every cursor is a prefix of
the other node's log whose writes are in the data, no ack is ahead of its cursor,
and no stream ahead of either.

## 7. EngramStore

One engram. A method is a program, the sequence of its accesses to shared state
in the order of the code, and one action runs one access of one process; readers
and the writers without a lock fall between any two.

| Code | Model |
|---|---|
| keys 0x01 and 0x02; the 0x0B index; the 0x2A lease | `db`, `index`, `lease` |
| `casLocks.For(id)` | `lock` |
| `L1Cache`, the metadata cache | `l1`, `meta` |
| `UpdateConfidence`, `SoftDelete`, `UpdateTags`, `TouchAccess` | `ConfidenceProgram`, `SoftProgram`, `TagsProgram`, `TouchProgram` |
| `CompareAndSet` on the state; on the lease, under `Claim` and `Release` | `CasProgram`; `LeaseProgram` with `Retry` |
| `DeleteEngram`, `UpdateRelevance` and its like, `Restore` | `DeleteProgram`, `PatchProgram`, `RestoreProgram` |
| early returns and failed commits | `Abort`, `CommitFails`, `Cleanup` |
| `replicateBatch` | `ReplicateBatch`, where each method calls it |
| eviction, the clock | `Evict`, `Tick` |

Left out are errors in reading, patching and encoding a record, which return before
the first write as any early return does (`Abort`), and the metadata fill of
`GetMetadata` inside `UpdateRelevance` and `UpdateMetadata` (`engram.go:270,353`): the
method drops both caches again before it commits, so until then it does what a reader
at that point would.

A record is its lifecycle state and the number of the write that made it: who
built on what is all the properties ask. `TTL = 0` with one tick makes a lease that
has and has not expired. Stripes are one lock: another engram on the same stripe
only waits longer.

Run `store_locked`: two callers run any three of the thirteen operations. Two of
them race and the third meets what they left in the caches, which is where every
violation found while writing this needed it. `NoLostUpdate`, `IndexExact` and
`CacheCoherent` hold as long as no writer without the lock has committed and no
reader's cache fill has overlapped a write (`overlapped`); `LockedReadsAreFresh`
forgives readers and asks only that no unlocked writer came in between
(`intruded`). These conditions are the boundary of what the code guarantees, and
section 10 says what happens past it. `FollowerAgrees` excepts the two methods
that append after they unlock. Deadlock is not checked because `MaxOps` ends the
run; a lost lock is `LockWillBeReleased`.

Proved in `EngramStoreProofs`, for every set of processes and operations, every
number of retries and every clock: types, and all six properties. The argument:

- A running program is a suffix of the method's accesses. The table `Left` gives for
  each access the lengths that may be left when it is due, so that "this access is
  still to come" is a fact about lengths; `Control` says that every process has such a
  suffix and holds the lock exactly between its lock and its unlock.
  `LockWillBeReleased` follows, and so does everything that needs one writer at a time.
- `Leases`: a caller that is told of a grant holds the stored lease, and one that
  looked at it under the lock knows what is stored.
- `FreshRead`: what a writer under the lock took from Pebble is still there when it
  commits, unless `intruded`.
- `Coherent`: as long as `~overlapped`, every cached entry is what is stored, or its
  holder is still going to drop it; a reader's fill not yet done has the stored value.
  `NoLostUpdate`, `IndexExact` and `CacheCoherent` are read off it. None is inductive:
  a cache is wrong between the commit and the drop, and what makes that harmless is
  that the lock is held.
- `Logged`: replaying the log yields what is stored, but for a commit whose append is
  still due under the lock.

The one assumption beyond the bounds is that `Gone` and `NoLease` differ from every
record and lease.

## 8. FtsWorker

| Code | Model |
|---|---|
| `Engine.Write` up to `Submit`; its check, its send, its count | `Store`, `Send`, `Count` |
| `input`, `pending` | `queue`, `pending` |
| `runLoop`, `run`, `flush` of a goroutine | `pc`, `batch`, `busy` |
| a job skipped, indexed, failed; a panic | `Skip`, `Indexed`, `Failed`, `Panic` |
| `Stop`: flag, close, wait | `Stop`, three steps |
| `ReindexFTSVault`, `ClearVault` | `ClearFTSKeys`, `Scan`, `ClearVault`, `Unmark` |

Postings are one element per engram. `Flush` changes nothing and is its condition,
`FlushReturnsNil`. A scan may break off at any point (`Unmark`), on Stop, its caller's
context or an error of the store: the engrams it has not come to are `late`.

Run `fts_worker`: two writes, two goroutines, a channel of one, one error or panic,
one Stop and one rebuild or clear. A channel of one is full at once, so a refused
job is common; two goroutines let one exit while the other flushes. `early`,
`lost` and `late` name the ways in which an engram may go unindexed: its job failed,
was refused, or came too late for the scan; `NothingVanishes` says there is no
other. `Fairness`: a goroutine that can run does, and `Stop` goes on once it is
called. Deadlock is checked: `Terminated` is the one place to rest.

Proved for every set of jobs and goroutines and every capacity: types,
`PendingCounts`, `StopDrains`, `NothingVanishes`. The invariant (`IInv`): a job is
in one place at most - the channel or one batch - and its writer is past the send
(`Placed`, `Submitted`); without it a job taken off twice would be counted once. A
goroutine past its drain has left the channel empty of what was sent early
(`Draining`), and the scan's set and the marks know every engram stored since it
began (`ScanKnows`).

## 9. What is only model-checked

Liveness (`Converges`, `CursorCatchesUp`, `DuelResolved`, `CrashIsDeclared`,
`DemotedFollows`, `DriverSucceeds`, `JobsAreDealtWith`, `StopReturns`), which rests
on fairness and is out of the prover's reach. Every invariant, every action property
and the refinement that a passing run checks is also a theorem.

## 10. Findings

`found_succession` is the run that TLC finds violated; `PROJECT.json` quotes the
sentences that the program does not live up to. After a failover with two Lobes,
the new Cortex numbers its writes from 1 (its own counter, `log.go:83`, which
`Applier.Apply` does not move), the other Lobe skips all of them up to its cursor as
applied already (`applier.go:63`) and acks the cursor, and so looks up to date to
the prune, to the convergence check and to every later stream.
`docs/internals/invariants.md:320` knows the danger ("a promoted Lobe restarts
numbering at 1") and relies on snapshots, which `NewClusterCoordinator` does not
wire (`coordinator.go:228-230`). `integration_phase3_test.go:228`
(`TestP3Integration_FailoverUnderWriteLoad`) builds the entries after the failover by
hand with consecutive numbers and cannot see it.

The others have no run of their own. The modules state each property; the
instance that shows it is given here. Where none is named, take the constants of
the module's run and replace its properties.

**Elections**

- `ElectedOnce` with crashes: votes are in memory, so a voter that restarts votes
  again (`election.go:295`), while `election.go:26` says "at most one Cortex may hold
  a given epoch". `CrashSpec`, `Node = {1, 2, 3}`, all crashing, `MaxEpoch = 1`,
  `MaxClaims = 0`.
- `NoZombieLeader`: a demotion that runs late (`coordinator.go:1675`) turns a
  re-elected leader's role to Replica. `Spec`, two nodes, `MaxEpoch = 3`,
  `MaxClaims = 0`.
- `NoDuelWithoutTwoPrimaries`: `HandleVoteRequest` (`election.go:280`) moves a
  leader's epoch to the one it votes in and leaves it leader, next to that
  epoch's winner, although the comment at `election.go:446` calls two leaders at
  one epoch reachable only with two nodes misconfigured as primary. `Spec`,
  three nodes, no primary, `MaxEpoch = 2`, `MaxClaims = 0`.
- `RoleSupervisor!WaitEnds` and `CortexLeads`, which `coordinator.go:1042` and `:62`
  promise, fail with a channel that loses events in the wrong order, and
  `GatedAfresh` (`:1679`) because a demotion resets the latch of the term that has
  begun since.
- Heartbeat: a down-vote is never retracted and never sent again, and `RecordDownVote`
  counts senders it does not know as voters (`msp.go:350`).

**Handoffs**

- `OnlyCortexHandsOff`: the role is checked at the start and not again before the
  HANDOFF is sent (`coordinator.go:2051`).
- `CrumbIsCortex`: where the ack cannot be sent the persisted role stays
  (`coordinator.go:2250`), and a later start takes the lead from it; a node
  configured as replica never reads it (`runAsLobe`).
- The exemptions. An ack is matched neither to target nor to epoch
  (`coordinator.go:2499`), and the demotion does not ask whether the node has come
  to lead again. A claim that is accepted between a node's own broadcast and
  `coordinator.go:2231` is overwritten there. The ack of one handoff clears the persisted
  role whichever handoff wrote it (`coordinator.go:2262`).
- A retired Cortex stays leader in its election until a claim reaches it
  (`coordinator.go:2119` runs the demotion and not `StepDown`). If its connection to the
  target breaks, so that the target's claim is lost, and a later handoff back to it is in
  progress, it answers a claim of the same epoch as if it led (`election.go:453`): the
  target steps down for it, and it for the target's own claim. `Attempts = 3`,
  one fault, 27 steps, without the exemption of `ReassertClaim`.
- A target configured as replica that stops between its claim and its lead: the old
  Cortex has followed the claim and the target does not read its persisted role
  (`runAsLobe`). `LeadershipIsKept` with `Node = {1, 2}`, `Lobe = {1, 2}`,
  `Attempts = 1`, `Faults = 1`.
- By reading: draining blocks no write (nothing calls `IsDraining`, while
  `docs/cluster-operations.md:315` has a drained Cortex take none); the success ack
  is sent even where `handlePromotion` backed out; a crash between the advance of
  the epoch and the persisted role leaves the target's epoch ahead of the Cortex's.

**Log shipping**

- `PrunedIsApplied` with two Lobes: the watermark (`coordinator.go:2005`) ignores a
  connected Lobe that has not acked yet, while `log.go:205` leaves the care to its
  caller. `Spec`, two Lobes, `Pruning = TRUE`, no ceiling, no faults, `MaxSeq = 2`.
- `LeftBehindResnapshots`: as wired, an evicted Lobe rejoins without a snapshot,
  against `docs/cluster-operations.md:520`. `Spec`, one Lobe, `Pruning = TRUE`,
  `MaxBacklog = 1`, no faults, `MaxSeq = 3`.
- `AckIsTrue` after a failed `Apply`: the next entry's ack covers it
  (`coordinator.go:815`). `Spec`, one Lobe, `Faults = {"apply"}`, `MaxSeq = 2`.
- `ConvergedMeansAcked`: the convergence check (`coordinator.go:2153`) ignores Lobes
  that have not acked yet, against `docs/cluster-operations.md:317`. `Spec`, two
  Lobes, no faults, `MaxSeq = 1`.
- `NoGap` under a ceiling: `evictLobesBehind` (`coordinator.go:2376`) ranges over
  the Lobes that have acked, so a forced prune drops no other Lobe and that one
  streams on over the hole; `coordinator.go:2364` says the eviction "is what makes
  the backlog ceiling safe". `Spec`, one Lobe, `Snapshots = TRUE`,
  `Pruning = TRUE`, `MaxBacklog = 1`, no faults, `MaxSeq = 2`.
- `NothingSkipped` after a power loss: a Lobe acks entries that its applier
  committed without a sync (`applier.go:124`) and a join does not reset
  `replicaSeqs`, so the stream resumes past the loss. `Spec`, one Lobe,
  `Faults = {"crash"}`, `MaxSeq = 2`.
- `DeadStreamIsRebuilt`: the goroutine of a streamer whose `sendBulk` gave up logs
  the error and ends (`coordinator.go:1740`), while `peer_conn.go:285` has the
  caller's supervisor rebuild the stream. `FairSpec`, one Lobe,
  `Faults = {"busy"}`, `MaxSeq = 1`.

**Engrams**

- `AppliedAsExpected`: `CompareAndSet` compares with a state it may have from a cache
  that a reader filled late, while `lease.go:150` says it "closes the
  lifecycle-state TOCTOU".
- `DeleteEngram` never drops the metadata entry, so `Claim` may succeed on an engram
  that is gone (`engram.go:517`); `UpdateConfidence` and `DeleteEngram` append after
  they unlock, so a follower may apply two writes in the other order; `UpdateRelevance`,
  `UpdateTrust`, `StampValidUntil`, `Restore` and the deduplication
  (`consolidation/dedup.go:249`) write without the lock, against STO-2
  (`docs/internals/invariants.md:263`). The conditions of the properties of section 7
  are these.
- `L1Cache.Set` counts a replaced entry as a new one (`cache.go:72`): the count drifts
  up until every `Set` evicts and the cache holds about one entry.

**Keyword index**

- `FlushWaits`: a job is counted after it is sent, so `Flush` may return while an
  accepted job is held, against `worker.go:162` and `worker_test.go:107`.
- `OnlyDelayed`: an engram stored during a rebuild after its scan began, whose job the
  workers skip, is never indexed, while `worker.go:37` has its visibility delayed only.
- A `Submit` between its check and its send while `Stop` completes leaves an accepted
  job in the channel; a panic during `Stop` ends its goroutine without a drain.

**Read and not modelled**

- `wal/mol.go:127`: the glob `mol-*.log` of `Recover` also matches `mol-active.log`, so
  a torn last record, which a crash leaves as a matter of course, makes `Recover` fail
  and the server exit at its start. `SafePrune` compares segments with sequence
  numbers of the replication log (`coordinator.go:2421`).
- `storage/transition_cache.go`: a flush of a source that was not loaded overwrites the
  persisted total with the delta, and a dirty mark is removed after an `Incr` that
  came in between, so an eviction loses it.

## 11. Not modelled

Of the modelled components these are missing: changes of the voter registry;
snapshot chunks; authentication of joins; the pull streamer, which nothing in
production starts; the reclaiming of disk space after a prune; write slots and
timeouts of a connection; peer discovery; copies and exports of vaults; writing a
new engram, associations, entities and embeddings.

The map covers a small share of the implementation, and that share cannot grow by
much without modules that say nothing. The longest files - the engine
(`engine/engine.go`), activation (`engine/activation`), the MCP handlers, the REST
server, associations, the command line - are request decoding, scoring over
floats, text, and reads and writes of one key after another; their state between
two calls is in the store, whose concurrent core is `EngramStore`. What is left
with state and interleavings of its own is in the plan. `PROJECT.json` names the
reason for each component that is left out.
