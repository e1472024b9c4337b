---------------------------- MODULE MC_WorkQueue ----------------------------
(***************************************************************************)
(* Instances of WorkQueue for TLC.                                         *)
(***************************************************************************)
EXTENDS WorkQueue

(* Two messages upwards and three downwards, the last one short; nothing.  *)
BothDirections == {<<1, 6>>, <<8, 1>>, <<4, 4>>}
OneRange == {<<6, 1>>}
=============================================================================
