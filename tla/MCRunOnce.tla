------------------------------ MODULE MCRunOnce ------------------------------
(***************************************************************************)
(* Instances of RunOnce for TLC.                                           *)
(***************************************************************************)
EXTENDS RunOnce, MCNodes
=============================================================================
