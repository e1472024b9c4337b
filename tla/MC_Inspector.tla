---------------------------- MODULE MC_Inspector ----------------------------
(***************************************************************************)
(* The instance of Inspector for TLC: one command at a time.                *)
(***************************************************************************)
EXTENDS Inspector
=============================================================================
