-------------------------------- MODULE Prices --------------------------------
(***************************************************************************)
(* prices.py, crud/prices.py and the two places of the summary that ask    *)
(* for a price.  A fetch asks the market for one token after the other and *)
(* writes what it has when it has them all; inspections put the dollars of *)
(* a block into the summary whenever they come, before, between or after   *)
(* the fetches.  Nothing but another inspection of the block changes what  *)
(* is in the summary.                                                      *)
(*                                                                         *)
(* One arbitrage of one block stands for all: its profit is in the token   *)
(* Profit, and its miner was paid in Ether.  No price is the value None.   *)
(***************************************************************************)
EXTENDS Integers, Sequences, FiniteSetsExt

CONSTANTS
  Tokens,     \* TOKEN_ADDRESSES, a sequence
  Profit,     \* profit_token_address
  Ether,      \* ETH_TOKEN_ADDRESS
  BlockTime,  \* the block's timestamp
  Series      \* bound: what the market may answer, sets of [time, usd]

VARIABLES
  prices,   \* the table, rows [token, time, usd]
  fetched,  \* what the running fetch has got
  at,       \* the token it is at
  summary   \* the block's row: the prices it was computed with, or None

vars == <<prices, fetched, at, summary>>

None == [time |-> 0, usd |-> 0]

Keys(rows) == {<<p.token, p.time>> : p \in rows}

Init ==
  /\ prices = {} /\ fetched = {} /\ at = 1
  /\ summary = [profit |-> None, miner |-> None]

-----------------------------------------------------------------------------
(* fetch_prices, and fetch_prices_range for a shorter time.                *)

(* Defect: the new price replaces the one that is there. *)
InsertedOver(rows) ==
  {p \in prices : <<p.token, p.time>> \notin Keys(rows)} \cup rows

(* INSERT ... ON CONFLICT DO NOTHING. *)
Inserted(rows) ==
  prices \cup {p \in rows : <<p.token, p.time>> \notin Keys(prices)}

FetchToken ==
  /\ at \in DOMAIN Tokens
  /\ \E series \in Series :
       fetched' = fetched \cup
         {[token |-> Tokens[at], time |-> s.time, usd |-> s.usd] : s \in series}
  /\ at' = at + 1
  /\ UNCHANGED <<prices, summary>>

(* The market does not answer: the command ends and has written nothing.   *)
FetchFails ==
  /\ at \in DOMAIN Tokens
  /\ fetched' = {} /\ at' = 1
  /\ UNCHANGED <<prices, summary>>

(* One statement and its commit. *)
WritePrices ==
  /\ at > Len(Tokens)
  /\ prices' = Inserted(fetched)
  /\ fetched' = {} /\ at' = 1
  /\ UNCHANGED summary

-----------------------------------------------------------------------------
(* The last price that is not from after the block, if there is one. *)
PriceOf(token) ==
  LET known == {p \in prices : p.token = token /\ p.time <= BlockTime}
      last == Max({p.time : p \in known})
  IN  IF known = {} THEN None
      ELSE CHOOSE s \in [time : {last}, usd : {p.usd : p \in known}] :
             [token |-> token, time |-> s.time, usd |-> s.usd] \in known

(* The block is inspected, for the first time or again. *)
Summarise ==
  /\ summary' = [profit |-> PriceOf(Profit), miner |-> PriceOf(Ether)]
  /\ UNCHANGED <<prices, fetched, at>>

Next == FetchToken \/ FetchFails \/ WritePrices \/ Summarise
Spec == Init /\ [][Next]_vars

-----------------------------------------------------------------------------
(* Properties.                                                             *)

(***************************************************************************)
(* Whatever the market says later of a day it has already given a price    *)
(* for, an inspection of a block that is repeated computes its dollars     *)
(* with the same price as before or with one from nearer to the block, and *)
(* never loses one.                                                        *)
(***************************************************************************)
RepeatIsNearer ==
  \A column \in {"profit", "miner"} :
    summary'[column] # summary[column] =>
      /\ summary[column].time < summary'[column].time
      /\ summary'[column].time <= BlockTime

RepeatsComeNearer == [][RepeatIsNearer]_summary
=============================================================================
