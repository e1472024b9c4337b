-------------------------------- MODULE Punks --------------------------------
(***************************************************************************)
(* punks.py: the bids for CryptoPunks in a block, the acceptances of bids, *)
(* and the snipes: a seller accepts any bid of at least her minimum price, *)
(* and someone bids more, to be the one whose bid is accepted.             *)
(*                                                                         *)
(* Bids and acceptances are taken in the order of their transactions'      *)
(* hashes (get_traces_by_transaction_hash sorts by them) and, within a     *)
(* transaction, of their trace addresses.  Only the order of these two     *)
(* plays a part: here they are numbers.                                    *)
(***************************************************************************)
EXTENDS Integers, Sequences, FiniteSets

CONSTANT
  Blocks  \* bound: the sets of decoded traces to look at

VARIABLES
  traces,  \* the bids and acceptances of the block
  at,      \* the acceptance the loop is at
  snipes   \* punk_snipe_list

vars == <<traces, at, snipes>>

Before(s, t) == s.tx < t.tx \/ (s.tx = t.tx /\ s.address < t.address)

(* The i-th of a list has i - 1 before it. *)
InOrder(S) ==
  [i \in 1 .. Cardinality(S) |->
     CHOOSE t \in S : Cardinality({s \in S : Before(s, t)}) = i - 1]

(* A bid counts although its call failed, an acceptance does not. *)
Bids == InOrder({t \in traces : t.kind = "bid"})
Acceptances == InOrder({t \in traces : t.kind = "accept" /\ ~t.failed})

(* Defect: of equal bids the last one wins. *)
OutbidsOrEquals(b, best) == best = 0 \/ Bids[b].price >= Bids[best].price

Outbids(b, best) == best = 0 \/ Bids[b].price > Bids[best].price

(* _get_highest_punk_bid_per_index: the place of the bid, 0 for None. *)
HighestBid(punk) ==
  LET best[b \in 0 .. Len(Bids)] ==
        IF b = 0 THEN 0
        ELSE IF Bids[b].punk = punk /\ Outbids(b, best[b - 1]) THEN b
        ELSE best[b - 1]
  IN  best[Len(Bids)]

(* A snipe has the place and the price of the bid. *)
Snipe(b, acceptance) ==
  [tx |-> b.tx, address |-> b.address, punk |-> b.punk,
   minPrice |-> acceptance.price, price |-> b.price]

-----------------------------------------------------------------------------
Init ==
  /\ traces \in Blocks
  /\ at = 1
  /\ snipes = <<>>

IsSniped(acceptance) ==
  LET b == HighestBid(acceptance.punk)
  IN  b # 0 /\ Bids[b].price > acceptance.price

Visit == at \in DOMAIN Acceptances /\ at' = at + 1 /\ UNCHANGED traces

VisitSniped ==
  /\ Visit
  /\ IsSniped(Acceptances[at])
  /\ snipes' = Append(snipes, Snipe(Bids[HighestBid(Acceptances[at].punk)],
                                    Acceptances[at]))

VisitOther ==
  /\ Visit
  /\ ~IsSniped(Acceptances[at])
  /\ UNCHANGED snipes

Next == VisitSniped \/ VisitOther
Spec == Init /\ [][Next]_vars

-----------------------------------------------------------------------------
(* Properties.                                                             *)

(* The bids that a seller of the punk could at best have accepted. *)
BestBids(punk) ==
  {b \in traces : /\ b.kind = "bid" /\ b.punk = punk
                  /\ \A c \in traces : c.kind = "bid" /\ c.punk = punk
                                         => c.price <= b.price}

Earliest(S) == CHOOSE b \in S : \A c \in S : b = c \/ Before(b, c)

(* The acceptances so far that are sniped, and the place of each of them. *)
IsToBeSniped(a) == \E b \in BestBids(a.punk) : b.price > a.price
Sniped == {k \in 1 .. at - 1 : IsToBeSniped(Acceptances[k])}
Rank(k) == Cardinality({j \in Sniped : j <= k})

(***************************************************************************)
(* get_punk_snipes reports a snipe for each acceptance that stands, in     *)
(* their order, for which a better bid than the minimum was in the block,  *)
(* and it is the best bid, the first one of equals.                        *)
(***************************************************************************)
SnipesAreExact ==
  /\ Len(snipes) = Cardinality(Sniped)
  /\ \A k \in Sniped :
       snipes[Rank(k)] = Snipe(Earliest(BestBids(Acceptances[k].punk)), Acceptances[k])

(***************************************************************************)
(* The table punk_snipes has one row for a block, a transaction and a      *)
(* trace address: no two snipes that get_punk_snipes returns for a block   *)
(* have the same transaction and trace address.                            *)
(***************************************************************************)
SnipeKeysDiffer ==
  \A i, j \in DOMAIN snipes :
    snipes[i].tx = snipes[j].tx /\ snipes[i].address = snipes[j].address
      => i = j
=============================================================================
