---------------------------- MODULE MC_Handover ----------------------------
(***************************************************************************)
(* An instance of Handover for TLC: two processes, of which the one that   *)
(* is down takes over from the other.                                      *)
(***************************************************************************)
EXTENDS Handover

ShortTables ==
  << "blocks", "classified_traces", "arbitrages", "liquidations",
     "sandwiches", "miner_payments" >>
=============================================================================
