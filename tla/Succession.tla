------------------------------ MODULE Succession ------------------------------
(***************************************************************************)
(* Log shipping across changes of Cortex.  Every node keeps the log of the *)
(* writes it took as Cortex, numbered by a counter of its own, and one     *)
(* cursor for whatever is streamed to it by whoever leads.  Elections are  *)
(* abstract: leadership passes from a node to any other.  Connections are  *)
(* reliable and nothing is pruned, snapshots are not wired (as in the      *)
(* server), so that what goes wrong here goes wrong without any fault but  *)
(* the failover itself.                                                    *)
(***************************************************************************)
EXTENDS Naturals, Sequences

CONSTANTS
    Node,
    Designated,  \* the node that leads first
    MaxWrites,   \* bounds issued
    MaxReigns    \* bounds the changes of Cortex

Parameters == Designated \in Node /\ MaxWrites \in Nat /\ MaxReigns \in Nat

VARIABLES
    cortex,
    log,       \* per node, its own replication log; the counter is its length
    data,      \* per node, the writes its database reflects
    applied,   \* per node, lastApplied: on disk, and never set back
    acked,     \* replicaSeqs: per node, what each other acked to it; in memory
    stream,    \* per Lobe, the position of its streamer, or Off
    issued, reigns

vars == <<cortex, log, data, applied, acked, stream, issued, reigns>>

Off   == MaxWrites + 1
Lobes == Node \ {cortex}
Write == 1..MaxWrites

TypeOK ==
    /\ cortex \in Node
    /\ log \in [Node -> Seq(Write)] /\ data \in [Node -> SUBSET Write]
    /\ applied \in [Node -> 0..MaxWrites]
    /\ acked \in [Node -> [Node -> 0..MaxWrites]]
    /\ stream \in [Node -> 0..Off]
    /\ issued \in 0..MaxWrites /\ reigns \in 0..MaxReigns

Init ==
    /\ cortex = Designated
    /\ log = [n \in Node |-> <<>>] /\ data = [n \in Node |-> {}]
    /\ applied = [n \in Node |-> 0]
    /\ acked = [n \in Node |-> [l \in Node |-> 0]]
    /\ stream = [n \in Node |-> Off]
    /\ issued = 0 /\ reigns = 0

-----------------------------------------------------------------------------
\* A write is committed and appended under the next number of the node's own
\* counter, which applying other nodes' entries has not moved.
Accept ==
    /\ issued < MaxWrites /\ issued' = issued + 1
    /\ log' = [log EXCEPT ![cortex] = Append(@, issued + 1)]
    /\ data' = [data EXCEPT ![cortex] = @ \cup {issued + 1}]
    /\ UNCHANGED <<cortex, applied, acked, stream, reigns>>

\* A join is accepted: the stream starts at the Lobe's last ack to this node.
Join(l) ==
    /\ l \in Lobes /\ stream[l] = Off
    /\ stream' = [stream EXCEPT ![l] = acked[cortex][l]]
    /\ UNCHANGED <<cortex, log, data, applied, acked, issued, reigns>>

Disconnect(l) ==
    /\ stream[l] # Off
    /\ stream' = [stream EXCEPT ![l] = Off]
    /\ UNCHANGED <<cortex, log, data, applied, acked, issued, reigns>>

\* The next entry is sent, applied if the cursor does not cover its number, and
\* the cursor acked in either case.
Ship(l) ==
    /\ stream[l] # Off /\ stream[l] < Len(log[cortex])
    /\ LET seq == stream[l] + 1
       IN  /\ stream' = [stream EXCEPT ![l] = seq]
           /\ data' = [data EXCEPT ![l] = IF seq <= applied[l] THEN @
                                          ELSE @ \cup {log[cortex][seq]}]
           /\ applied' = [applied EXCEPT ![l] = IF seq <= @ THEN @ ELSE seq]
           /\ acked' = [acked EXCEPT ![cortex][l] = applied'[l]]
    /\ UNCHANGED <<cortex, log, issued, reigns>>

\* A failover or a handoff: the old Cortex stops its streamers and nothing else
\* is reset, in either node.
Succeed(n) ==
    /\ n \in Lobes /\ reigns < MaxReigns /\ reigns' = reigns + 1
    /\ cortex' = n
    /\ stream' = [l \in Node |-> Off]
    /\ UNCHANGED <<log, data, applied, acked, issued>>

\* A restart keeps what is on disk.  A Cortex that restarts fast enough leads on.
Restart(n) ==
    /\ acked' = [acked EXCEPT ![n] = [l \in Node |-> 0]]
    /\ stream' = [l \in Node |-> IF n \in {l, cortex} THEN Off ELSE stream[l]]
    /\ UNCHANGED <<cortex, log, data, applied, issued, reigns>>

Next ==
    \/ Accept
    \/ \E n \in Node : Join(n) \/ Disconnect(n) \/ Ship(n) \/ Succeed(n) \/ Restart(n)

Spec == Init /\ [][Next]_vars

-----------------------------------------------------------------------------
(***************************************************************************)
(* What a Lobe has acked to the Cortex it holds.  The stream starts from   *)
(* there, the prune and the convergence check of a handoff go by it, and   *)
(* streamStartSeq calls it what the Cortex can prove the Lobe holds.  It   *)
(* takes three nodes to fail: between two, the cursor of the one counts    *)
(* the log of the other and of nobody else.                                *)
(***************************************************************************)
AckedIsHeld ==
    \A l \in Lobes : \A i \in 1..Len(log[cortex]) :
        i <= acked[cortex][l] => log[cortex][i] \in data[l]
=============================================================================
