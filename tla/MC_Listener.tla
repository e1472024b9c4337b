---------------------------- MODULE MC_Listener ----------------------------
(***************************************************************************)
(* Instances of Listener for TLC.                                          *)
(***************************************************************************)
EXTENDS Listener

ShortTables ==
  << "blocks", "classified_traces", "arbitrages", "liquidations",
     "sandwiches", "miner_payments" >>
=============================================================================
