------------------------- MODULE MC_InspectBlocks -------------------------
(***************************************************************************)
(* Instances of InspectBlocks for TLC.                                     *)
(***************************************************************************)
EXTENDS InspectBlocks, TLC

(* The tables the summary needs, two of them COPYed, two without a key. *)
ShortTables ==
  << "blocks", "classified_traces", "arbitrages", "liquidations",
     "sandwiches", "miner_payments" >>

(* Inspectors are alike. *)
InspectorSymmetry == Permutations(Inspectors)
=============================================================================
