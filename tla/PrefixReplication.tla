--------------------------- MODULE PrefixReplication ---------------------------
(***************************************************************************)
(* What log shipping promises a Lobe that keeps its disk, as long as the   *)
(* log is not pruned: at any moment its data are the first k writes of the *)
(* Cortex, and k only grows, one write at a time.                          *)
(***************************************************************************)
EXTENDS Naturals

CONSTANT Lobe
VARIABLES head, store

Init == head = 0 /\ store = [l \in Lobe |-> {}]

Append ==
    /\ head' = head + 1
    /\ UNCHANGED store

Replicate(l) ==
    /\ \E k \in 1 .. head :
          /\ store[l] = 1 .. (k - 1)
          /\ store' = [store EXCEPT ![l] = 1 .. k]
    /\ UNCHANGED head

Next == Append \/ \E l \in Lobe : Replicate(l)

Spec == Init /\ [][Next]_<<head, store>>
===============================================================================
