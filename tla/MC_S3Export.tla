---------------------------- MODULE MC_S3Export ----------------------------
(***************************************************************************)
(* Instances of S3Export for TLC: tables that an inspection writes in one  *)
(* order and an export reads in another.                                   *)
(***************************************************************************)
EXTENDS S3Export

ThreeTables == << "mev_summary", "arbitrages", "blocks" >>
ThreeRewritten == << "blocks", "arbitrages", "mev_summary" >>
=============================================================================
