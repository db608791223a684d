----------------------------- MODULE MCElection -----------------------------
(***************************************************************************)
(* Instances of Election for TLC.  Node ids are numbers because claims are *)
(* tie-broken by their order, so no symmetry set is used.                  *)
(***************************************************************************)
EXTENDS Election

\* The designated primary p has led epoch 1 on its own vote before any other node
\* has come up.
Bootstrapped(p) ==
    /\ epoch = [n \in Node |-> IF n = p THEN 1 ELSE 0]
    /\ estate = [n \in Node |-> IF n = p THEN "Leader" ELSE "Idle"]
    /\ leader = [n \in Node |-> IF n = p THEN p ELSE None]
    /\ candidateEpoch = [n \in Node |-> IF n = p THEN 1 ELSE 0]
    /\ votes = [n \in Node |-> [e \in Epoch |-> IF n = p /\ e = 1 THEN {p} ELSE {}]]
    /\ votedFor = [n \in Node |-> [e \in Epoch |-> IF n = p /\ e = 1 THEN p ELSE None]]
    /\ promoting = [n \in Node |-> {}] /\ callbacks = [n \in Node |-> {}]
    /\ role = [n \in Node |-> IF n = p THEN "Primary" ELSE "Unknown"]
    /\ boot = [n \in Node |-> IF n \in Primary \ {p} THEN "start" ELSE "done"]
    /\ msgs = {}
    /\ crumbs = {} /\ failover = [n \in Node |-> "idle"]
    /\ takeovers = [n \in Node |-> {}]
    /\ cast = {<<p, 1, p>>} /\ elected = {} /\ handed = {}

BootstrappedSpec == (\E p \in Primary : Bootstrapped(p)) /\ [][CrashNext]_vars
=============================================================================
