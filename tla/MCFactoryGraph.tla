--------------------------- MODULE MCFactoryGraph ---------------------------
(***************************************************************************)
(* Instances of FactoryGraph for TLC.                                      *)
(***************************************************************************)
EXTENDS FactoryGraph, MCNodes
=============================================================================
