------------------------------- MODULE Schema -------------------------------
(***************************************************************************)
(* The tables of the inspect database that one inspection rewrites, and    *)
(* the two facts about each that decide what a step of an inspection can   *)
(* do to it: whether its primary key is made of block contents, and        *)
(* whether its writer leaves the transaction open.                         *)
(***************************************************************************)
EXTENDS Naturals, Sequences

(***************************************************************************)
(* The order in which inspect_many_blocks deletes and writes the tables.   *)
(***************************************************************************)
AllTables ==
  << "blocks", "classified_traces", "transfers", "swaps", "arbitrages",
     "liquidations", "sandwiches", "punk_bids", "punk_bid_acceptances",
     "punk_snipes", "nft_trades", "miner_payments" >>

(***************************************************************************)
(* Arbitrages and sandwiches get a fresh uuid for every row, so inserting  *)
(* the same arbitrage twice succeeds.  Every other table is keyed by what  *)
(* the chain says (block, transaction, trace address), so that inserting   *)
(* the rows of a block twice is an IntegrityError.                         *)
(***************************************************************************)
Unkeyed == {"arbitrages", "sandwiches"}

(***************************************************************************)
(* write_as_csv sends these two tables with COPY and returns without a     *)
(* commit: the rows become durable with the session's next commit.         *)
(***************************************************************************)
Copied == {"blocks", "classified_traces"}

(***************************************************************************)
(* The tables the two INSERT ... SELECT statements of the summary join.    *)
(***************************************************************************)
Joined == {"blocks", "classified_traces", "miner_payments"}
Summarised == {"arbitrages", "liquidations"}
=============================================================================
