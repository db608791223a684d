------------------------------ MODULE MCFtsWorker ------------------------------
(***************************************************************************)
(* Instances of FtsWorker for TLC.                                         *)
(***************************************************************************)
EXTENDS FtsWorker
=============================================================================
