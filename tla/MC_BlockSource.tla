---------------------------- MODULE MC_BlockSource ----------------------------
(***************************************************************************)
(* Instances of BlockSource for TLC.                                       *)
(***************************************************************************)
EXTENDS BlockSource
=============================================================================
