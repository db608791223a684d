---------------------------- MODULE MCEngramStore ----------------------------
(***************************************************************************)
(* Instances of EngramStore for TLC.                                       *)
(***************************************************************************)
EXTENDS EngramStore, TLC

Symmetry == Permutations(Proc)
=============================================================================
