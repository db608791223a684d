--------------------------- MODULE MCRoleSupervisor ---------------------------
(***************************************************************************)
(* Instances of RoleSupervisor for TLC.                                    *)
(***************************************************************************)
EXTENDS RoleSupervisor
=============================================================================
