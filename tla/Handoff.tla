-------------------------------- MODULE Handoff --------------------------------
(***************************************************************************)
(* The planned handoff of leadership (internal/replication, coordinator.go:*)
(* GracefulFailover on the Cortex, HandleHandoff on its target), composed  *)
(* with the claims of leadership it sends (election.go) and the recovery   *)
(* from the persisted role.  The wait for the replicas to converge is a    *)
(* delay here; what it looks at is Replication's.                          *)
(*                                                                         *)
(* Nobody campaigns: what a failure detector and a vote add is in          *)
(* Heartbeat and Election.  So a settled Cortex does not crash here; any   *)
(* other node may.  A demotion runs at once with its claim; Election has   *)
(* the gap between the two.                                                *)
(***************************************************************************)
EXTENDS Naturals, Sequences, FiniteSets

CONSTANTS
    Node,      \* node ids; claims are tie-broken by their order
    Lobe,      \* the nodes configured role=replica
    None,      \* no node
    Attempts,  \* bound on the calls of GracefulFailover
    Faults     \* bound on crashes and broken connections

ASSUME HandoffAssumption ==
    /\ Node \subseteq Nat /\ IsFiniteSet(Node) /\ Node # {}
    /\ Lobe \subseteq Node /\ None \notin Node
    /\ Attempts \in Nat /\ Faults \in Nat

VARIABLES
    up, epoch, crumb,   \* the process runs; EpochStore: epoch and role, on disk
    estate, leader,     \* Election.state is Leader; Election.currentLeader
    role,               \* ClusterCoordinator.role
    call,               \* GracefulFailover on each node
    stage,              \* HandleHandoff on each node, per sender
    busy,               \* <<n, s>>: n's reader of its connection to s is in that call
    net,                \* frames in flight, in order on each connection
    attempts, faults,   \* bounds
    mistaken,           \* history: a call ended a term its handoff did not hand over,
                        \* or one of the two slips at ReassertClaim and ClearRole
    overrun             \* history: a claim came between a node's own and its lead

vars == <<up, epoch, crumb, estate, leader, role, call, stage, busy, net,
          attempts, faults, mistaken, overrun>>
disk    == <<epoch, crumb>>
lead    == <<estate, leader, role>>
handle  == <<stage, busy>>
history == <<up, attempts, faults, mistaken, overrun>>

Idle  == [at |-> "idle", target |-> None, epoch |-> 0, ack |-> "none"]
Quiet == [at |-> "none", epoch |-> 0]

Message == [type : {"Handoff", "Ack", "Claim"}, epoch : Nat]

TypeOK ==
    /\ up \in [Node -> BOOLEAN] /\ crumb \in [Node -> BOOLEAN]
    /\ epoch \in [Node -> Nat \ {0}]
    /\ estate \in [Node -> {"Leader", "Other"}]
    /\ leader \in [Node -> Node \cup {None}]
    /\ role \in [Node -> {"Primary", "Replica"}]
    /\ call \in [Node -> [at : {"idle", "drain", "await", "demote"},
                          target : Node \cup {None}, epoch : Nat,
                          ack : {"none", "right", "wrong"}]]
    /\ stage \in [Node -> [Node -> [at : {"none", "advanced", "persisted", "claimed",
                                         "leading", "promoted", "acked"}, epoch : Nat]]]
    /\ busy \subseteq {c \in Node \X Node : stage[c[1]][c[2]].at # "none"}
    /\ net \in [Node \X Node -> Seq(Message)]
    /\ attempts \in 0 .. Attempts /\ faults \in 0 .. Faults
    /\ mistaken \in BOOLEAN /\ overrun \in BOOLEAN

\* One Cortex, which the others follow.
Init ==
    /\ up = [n \in Node |-> TRUE]
    /\ epoch = [n \in Node |-> 1] /\ crumb = [n \in Node |-> FALSE]
    /\ \E c \in Node :
         /\ estate = [n \in Node |-> IF n = c THEN "Leader" ELSE "Other"]
         /\ role = [n \in Node |-> IF n = c THEN "Primary" ELSE "Replica"]
         /\ leader = [n \in Node |-> c]
    /\ call = [n \in Node |-> Idle] /\ stage = [n \in Node |-> [s \in Node |-> Quiet]]
    /\ busy = {} /\ net = [c \in Node \X Node |-> <<>>]
    /\ attempts = 0 /\ faults = 0
    /\ mistaken = FALSE /\ overrun = FALSE

-----------------------------------------------------------------------------
Others(n) == Node \ {n}
Claim(e) == [type |-> "Claim", epoch |-> e]

\* Frames to each of the nodes that run; and one read off a connection, by a reader
\* that is not in a handler.
Broadcast(N, n, f) == [c \in Node \X Node |->
    IF c[1] = n /\ c[2] # n /\ up[c[2]] THEN Append(N[c], f) ELSE N[c]]
Send(N, n, d, f) == [c \in Node \X Node |->
    IF c = <<n, d>> /\ up[d] THEN Append(N[c], f) ELSE N[c]]
Reads(n, s, type) ==
    /\ net[<<s, n>>] # <<>> /\ <<n, s>> \notin busy
    /\ Head(net[<<s, n>>]).type = type
Frame(n, s) == Head(net[<<s, n>>])
Read(n, s) == [net EXCEPT ![<<s, n>>] = Tail(@)]

-----------------------------------------------------------------------------
(* GracefulFailover, on node n *)

Drain(n, t) ==
    /\ role[n] = "Primary" /\ call[n].at = "idle" /\ t # n
    /\ attempts < Attempts /\ attempts' = attempts + 1
    /\ call' = [call EXCEPT ![n] = [Idle EXCEPT !.at = "drain", !.target = t]]
    /\ UNCHANGED <<disk, lead, handle, net, up, faults, mistaken, overrun>>

\* The HANDOFF goes out with the epoch of the moment; whether the node is still
\* the Cortex is not asked again.
SendHandoff(n) ==
    /\ call[n].at = "drain"
    /\ call' = [call EXCEPT ![n].at = "await", ![n].epoch = epoch[n]]
    /\ net' = Send(net, n, call[n].target, [type |-> "Handoff", epoch |-> epoch[n]])
    /\ UNCHANGED <<disk, lead, handle, history>>

\* No convergence, no connection, no ack in time, or the caller gave up.
GiveUp(n) ==
    /\ call[n].at \in {"drain", "await"}
    /\ call' = [call EXCEPT ![n] = Idle]
    /\ UNCHANGED <<disk, lead, handle, net, history>>

\* HandleHandoffAck: whoever waits gets it, whichever handoff it answers.
HandleHandoffAck(n, s) ==
    /\ Reads(n, s, "Ack") /\ net' = Read(n, s)
    /\ LET right == s = call[n].target /\ Frame(n, s).epoch = call[n].epoch + 1
       IN  call' = IF call[n].at = "await" /\ call[n].ack = "none"
                     THEN [call EXCEPT ![n].ack = IF right THEN "right" ELSE "wrong"]
                     ELSE call
    /\ UNCHANGED <<disk, lead, handle, history>>

TakeAck(n) ==
    /\ call[n].at = "await" /\ call[n].ack # "none"
    /\ call' = [call EXCEPT ![n].at = "demote"]
    /\ mistaken' = (mistaken \/ call[n].ack = "wrong")
    /\ UNCHANGED <<disk, lead, handle, net, up, attempts, faults, overrun>>

\* handleDemotion: the role goes, Election.state stays until a claim comes.  Whether
\* the node leads a newer term by now is not asked.
Retire(n) ==
    /\ call[n].at = "demote"
    /\ role' = [role EXCEPT ![n] = "Replica"]
    /\ call' = [call EXCEPT ![n] = Idle]
    /\ mistaken' = (mistaken \/ (role[n] = "Primary" /\ epoch[n] > call[n].epoch
                                   /\ leader[n] = n))
    /\ UNCHANGED <<disk, estate, leader, handle, net, up, attempts, faults, overrun>>

-----------------------------------------------------------------------------
(* HandleHandoff, on its target *)

At(n, s, x) == up[n] /\ stage[n][s].at = x
Enter(n, s, x) == stage' = [stage EXCEPT ![n][s].at = x] /\ UNCHANGED busy
Leave(n, s) == stage' = [stage EXCEPT ![n][s] = Quiet] /\ busy' = busy \ {<<n, s>>}

\* An epoch that does not advance this node's refuses the handoff.
HandleHandoff(n, s) ==
    /\ Reads(n, s, "Handoff") /\ At(n, s, "none") /\ net' = Read(n, s)
    /\ LET new == Frame(n, s).epoch + 1
       IN  IF new > epoch[n]
             THEN /\ epoch' = [epoch EXCEPT ![n] = new]
                  /\ stage' = [stage EXCEPT ![n][s] = [at |-> "advanced", epoch |-> new]]
                  /\ busy' = busy \cup {<<n, s>>}
             ELSE UNCHANGED <<epoch, handle>>
    /\ UNCHANGED <<crumb, lead, call, history>>

PersistRole(n, s) ==
    /\ At(n, s, "advanced")
    /\ IF epoch[n] = stage[n][s].epoch
         THEN crumb' = [crumb EXCEPT ![n] = TRUE] /\ Enter(n, s, "persisted")
         ELSE Leave(n, s) /\ UNCHANGED crumb
    /\ UNCHANGED <<epoch, lead, call, net, history>>

BroadcastClaim(n, s) ==
    /\ At(n, s, "persisted") /\ Enter(n, s, "claimed")
    /\ net' = Broadcast(net, n, Claim(stage[n][s].epoch))
    /\ UNCHANGED <<disk, lead, call, history>>

TakeLead(n, s) ==
    /\ At(n, s, "claimed") /\ Enter(n, s, "leading")
    /\ estate' = [estate EXCEPT ![n] = "Leader"] /\ leader' = [leader EXCEPT ![n] = n]
    /\ UNCHANGED <<disk, role, call, net, history>>

\* handlePromotion; where it backs out, the ack follows all the same.
HandlePromotion(n, s) ==
    /\ At(n, s, "leading") /\ Enter(n, s, "promoted")
    /\ role' = [role EXCEPT ![n] = IF estate[n] = "Leader" THEN "Primary" ELSE @]
    /\ UNCHANGED <<disk, estate, leader, call, net, history>>

SendAck(n, s) ==
    /\ At(n, s, "promoted") /\ Enter(n, s, "acked")
    /\ net' = Send(net, n, s, [type |-> "Ack", epoch |-> stage[n][s].epoch])
    /\ UNCHANGED <<disk, lead, call, history>>

\* The ack cannot be sent: the persisted role stays.
FailAck(n, s) ==
    /\ At(n, s, "promoted") /\ faults > 0 /\ Leave(n, s)
    /\ UNCHANGED <<disk, lead, call, net, history>>

\* There is one persisted role; the history notes one that another handoff still needs.
ClearRole(n, s) ==
    /\ At(n, s, "acked") /\ Leave(n, s)
    /\ crumb' = [crumb EXCEPT ![n] = FALSE]
    /\ mistaken' = (mistaken \/ \E x \in Node \ {s} :
                        stage[n][x].at \in {"persisted", "claimed", "leading"})
    /\ UNCHANGED <<epoch, lead, call, net, up, attempts, faults, overrun>>

-----------------------------------------------------------------------------
(* HandleCortexClaim *)

WinsTie(n, s, e) == e = epoch[n] /\ estate[n] = "Leader" /\ n < s

\* The role is not asked for; the history notes a node that has retired.
ReassertClaim(n, s, e) ==
    /\ WinsTie(n, s, e)
    /\ net' = Broadcast(Read(n, s), n, Claim(e))
    /\ mistaken' = (mistaken \/ ~ \/ role[n] = "Primary"
                                  \/ \E x \in Node : stage[n][x].at = "leading")
    /\ UNCHANGED <<disk, lead, call, handle, up, attempts, faults, overrun>>

\* Mutant of Stale: a claim must be newer.
StaleOrEqual(n, e) == e <= epoch[n]

Stale(n, e) == e < epoch[n]

\* A leader is demoted too; a handoff of its own is no longer draining, but goes on.
FollowClaim(n, s, e) ==
    /\ ~Stale(n, e) /\ ~WinsTie(n, s, e) /\ net' = Read(n, s)
    /\ epoch' = [epoch EXCEPT ![n] = e]
    /\ estate' = [estate EXCEPT ![n] = "Other"] /\ leader' = [leader EXCEPT ![n] = s]
    /\ role' = [role EXCEPT ![n] = IF estate[n] = "Leader" THEN "Replica" ELSE @]
    /\ overrun' = (overrun \/ \E x \in Node : stage[n][x].at \in {"persisted", "claimed"})
    /\ UNCHANGED <<crumb, call, handle, up, attempts, faults, mistaken>>

IgnoreClaim(n, s, e) ==
    /\ Stale(n, e) /\ net' = Read(n, s)
    /\ UNCHANGED <<disk, lead, call, handle, history>>

HandleCortexClaim(n, s) ==
    /\ Reads(n, s, "Claim")
    /\ LET e == Frame(n, s).epoch
       IN  ReassertClaim(n, s, e) \/ FollowClaim(n, s, e) \/ IgnoreClaim(n, s, e)

-----------------------------------------------------------------------------
(* Faults *)

\* sendClaim on a new connection, by whichever end is a Cortex; N is what is in
\* flight on the others.
Hello(n, d, N) == [c \in Node \X Node |->
    IF {c[1], c[2]} # {n, d} \/ n = d THEN N[c]
    ELSE IF role[c[1]] = "Primary" THEN <<Claim(epoch[c[1]])>> ELSE <<>>]

\* A connection breaks with the frames on it, and is made anew; a handler of the
\* old one runs on.
Reconnect(n, d) ==
    /\ n < d /\ up[n] /\ up[d]
    /\ faults < Faults /\ faults' = faults + 1
    /\ net' = Hello(n, d, net) /\ busy' = busy \ {<<n, d>>, <<d, n>>}
    /\ UNCHANGED <<disk, lead, call, stage, up, attempts, mistaken, overrun>>

\* Of a process that stops only the EpochStore is left; what it sent
\* before may still arrive.
Crash(n) ==
    /\ up[n] /\ (role[n] # "Primary" \/ crumb[n])
    /\ faults < Faults /\ faults' = faults + 1
    /\ up' = [up EXCEPT ![n] = FALSE]
    /\ estate' = [estate EXCEPT ![n] = "Other"] /\ leader' = [leader EXCEPT ![n] = None]
    /\ role' = [role EXCEPT ![n] = "Replica"]
    /\ call' = [call EXCEPT ![n] = Idle]
    /\ stage' = [stage EXCEPT ![n] = [s \in Node |-> Quiet]]
    /\ busy' = {b \in busy : b[1] # n}
    /\ net' = [c \in Node \X Node |-> IF c[2] = n THEN <<>> ELSE net[c]]
    /\ UNCHANGED <<disk, attempts, mistaken, overrun>>

\* Mutant of Recovers: the persisted role is not read.
NeverRecovers(n) == FALSE

\* runAsCortex reads the persisted role; runAsLobe does not.
Recovers(n) == crumb[n] /\ n \notin Lobe

\* The start: a Cortex again, or a node that hears from one on its connections.
Restart(n) ==
    /\ ~up[n] /\ up' = [up EXCEPT ![n] = TRUE]
    /\ IF Recovers(n)
         THEN /\ estate' = [estate EXCEPT ![n] = "Leader"]
              /\ leader' = [leader EXCEPT ![n] = n]
              /\ role' = [role EXCEPT ![n] = "Primary"]
              /\ crumb' = [crumb EXCEPT ![n] = FALSE]
         ELSE UNCHANGED <<lead, crumb>>
    /\ net' = [c \in Node \X Node |->
                 IF c[1] = n /\ c[2] # n /\ up[c[2]] /\ Recovers(n)
                   THEN <<Claim(epoch[n])>>
                 ELSE IF c[2] = n /\ role[c[1]] = "Primary" THEN <<Claim(epoch[c[1]])>>
                 ELSE IF n \in {c[1], c[2]} THEN <<>> ELSE net[c]]
    /\ UNCHANGED <<epoch, call, handle, attempts, faults, mistaken, overrun>>

-----------------------------------------------------------------------------
Call(n) == \/ \E t \in Node : Drain(n, t)
           \/ SendHandoff(n) \/ GiveUp(n) \/ TakeAck(n) \/ Retire(n)

Handle(n, s) == \/ PersistRole(n, s) \/ BroadcastClaim(n, s) \/ TakeLead(n, s)
                \/ HandlePromotion(n, s) \/ SendAck(n, s) \/ FailAck(n, s) \/ ClearRole(n, s)

Deliver(n, s) == HandleHandoff(n, s) \/ HandleHandoffAck(n, s) \/ HandleCortexClaim(n, s)

Fault(n) == Crash(n) \/ Restart(n) \/ \E d \in Node : Reconnect(n, d)

Next == \E n \in Node : \/ Call(n) \/ Fault(n)
                        \/ \E s \in Node : Handle(n, s) \/ Deliver(n, s)

Spec == Init /\ [][Next]_vars

-----------------------------------------------------------------------------
\* Leadership is never lost in a handoff, whatever is retried, crashes or times
\* out: there is a Cortex, or a node on its way from its claim to its promotion,
\* or one that will take the lead when it restarts (HandleHandoff's persisted role).
\* Exempt is a call that takes another handoff's ack for its own,
\* or that retires the node from a term it came to lead since; a retired node that
\* reasserts a claim; and an ack that clears the role another handoff has persisted.
Succeeding(n) ==
    \/ \E s \in Node : stage[n][s].at \in {"persisted", "claimed", "leading"}
    \/ ~up[n] /\ Recovers(n)
LeadershipIsKept ==
    \/ \E n \in Node : role[n] = "Primary" \/ Succeeding(n)
    \/ mistaken

\* Two Cortexes are not for long: as long as no connection broke, a claim that will
\* end one of them is on its way between the two, or about to be sent.  Exempt is a
\* claim that met a node between its own claim and its lead.
Ending(n, m) ==
    \/ \E i \in DOMAIN net[<<n, m>>] :
          net[<<n, m>>][i].type = "Claim" /\ net[<<n, m>>][i].epoch >= epoch[m]
    \/ \E s \in Node : /\ stage[n][s].at \in {"advanced", "persisted"}
                       /\ stage[n][s].epoch = epoch[n] /\ epoch[n] >= epoch[m]
DualIsBrief ==
    \A n, m \in Node :
        n < m /\ role[n] = "Primary" /\ role[m] = "Primary" =>
            Ending(n, m) \/ Ending(m, n) \/ faults > 0 \/ overrun

\* Only a Cortex hands leadership over (GracefulFailover's first check).
OnlyCortexHandsOff ==
    [][\A n \in Node : call[n].at = "drain" /\ call'[n].at = "await" => role[n] = "Primary"]_vars

\* A persisted role is that of the Cortex (coordinator.go:2256).
CrumbIsCortex ==
    \A n \in Node : up[n] /\ crumb[n] =>
        role[n] = "Primary" \/ \E s \in Node : stage[n][s].at # "none"
=============================================================================
