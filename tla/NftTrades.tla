------------------------------- MODULE NftTrades -------------------------------
(***************************************************************************)
(* get_nft_trades of nft_trades.py on the traces of one transaction, with  *)
(* the classifier of OpenSea: a call that matches two orders is a trade if *)
(* the transfers within it say who got the token and what the seller got.  *)
(*                                                                         *)
(* A trace is named by its place in the order of the trace addresses.      *)
(* trace[i] has a tx, an address and a kind: "match", "transfer" (of       *)
(* tokens, of a collection's or of ETH) or "other".  A match has a buyer,  *)
(* a seller and a collection; a transfer has from, to, token and amount,   *)
(* which in a collection is the number of the token.                       *)
(***************************************************************************)
EXTENDS TraceTree, Accounts, FiniteSets

CONSTANTS
  ExchangeWallet,  \* OPENSEA_WALLET_ADDRESS
  Transactions     \* bound: the lists of traces to look at

VARIABLES
  trace,  \* ordered_traces
  at,     \* the trace the loop is at
  trades  \* nft_trades: the match, the transfer of the token, the payment

vars == <<trace, at, trades>>

Places == 1 .. Len(trace)
IsBelow(i, p) == IsChildTrace(trace[i], trace[p].tx, trace[p].address)

(* The transfers within match m, but none that is part of another.         *)
ChildTransfers(m) ==
  LET transfers == {i \in Places : trace[i].kind = "transfer" /\ IsBelow(i, m)}
  IN  {i \in transfers : \A p \in transfers : ~IsBelow(i, p)}

FilterTransfers(S, from, to) ==
  {i \in S : trace[i].to \in to /\ trace[i].from \in from}

Anybody == {trace[i].from : i \in Places}

(* The exchange takes its fees from the seller, or from the buyer. *)
Fees(m, S) ==
  FilterTransfers(S, {trace[m].seller}, {ExchangeWallet})
    \cup FilterTransfers(S, {trace[m].buyer}, {ExchangeWallet})

(* Defect: fees are added to the price. *)
PaymentWithFees(m, S, payment) ==
  trace[payment].amount + MapThenSumSet(LAMBDA i : trace[i].amount, Fees(m, S))

PaymentAmount(m, S, payment) ==
  trace[payment].amount - MapThenSumSet(LAMBDA i : trace[i].amount, Fees(m, S))

(* create_nft_trade_from_transfers on the child transfers S of match m.    *)
CreateNftTrade(m, S) ==
  LET toBuyer == FilterTransfers(S, Anybody, {trace[m].buyer})
      toSeller == FilterTransfers(S, Anybody, {trace[m].seller})
  IN  IF Cardinality(toBuyer) # 1 \/ Cardinality(toSeller) # 1 THEN {}
      ELSE LET token == Max(toBuyer)
               payment == Max(toSeller)
           IN  IF trace[token].token # trace[m].collection THEN {}
               ELSE {[match |-> m, token |-> token,
                      currency |-> trace[payment].token,
                      amount |-> PaymentAmount(m, S, payment)]}

-----------------------------------------------------------------------------
Init ==
  /\ trace \in Transactions
  /\ at = 1
  /\ trades = {}

Visit == at \in Places /\ at' = at + 1 /\ UNCHANGED trace

VisitMatch ==
  /\ Visit
  /\ trace[at].kind = "match"
  /\ trades' = trades \cup CreateNftTrade(at, ChildTransfers(at))

VisitOther ==
  /\ Visit
  /\ trace[at].kind # "match"
  /\ UNCHANGED trades

Next == VisitMatch \/ VisitOther
Spec == Init /\ [][Next]_vars

-----------------------------------------------------------------------------
(* Properties.                                                             *)

(* The transfers in a match that no other transfer contains.               *)
Outer(m) ==
  {i \in Places :
     /\ trace[i].kind = "transfer" /\ CalledBy(trace[i], trace[m])
     /\ ~\E p \in Places : /\ trace[p].kind = "transfer"
                           /\ CalledBy(trace[p], trace[m])
                           /\ CalledBy(trace[i], trace[p])}

In(token, m) == {i \in Outer(m) : trace[i].token = token}

(* What a seller pays to the exchange only, in the currency of the sale.   *)
PaysFeesOnly(w) ==
  LET m == w.match
      paid == {i \in Outer(m) : trace[i].from = trace[m].seller}
  IN  \A i \in paid \ {w.token} :
        trace[i].to = ExchangeWallet /\ trace[i].token = w.currency

BuyersFees(w) ==
  {i \in Outer(w.match) : /\ trace[i].from = trace[w.match].buyer
                          /\ trace[i].to = ExchangeWallet}

(***************************************************************************)
(* The price that get_nft_trades reports is what the sale leaves the       *)
(* seller with, less what the buyer paid to the exchange: the transfers    *)
(* inside a token's transfer change nothing in it, and no fee is missed.   *)
(* (The code takes fees to be paid in the currency of the sale, and what   *)
(* the seller sends to the exchange for a fee: the exchange itself does    *)
(* not buy.)                                                               *)
(***************************************************************************)
PriceIsProceeds ==
  \A w \in trades :
    PaysFeesOnly(w) /\ trace[w.match].buyer \notin {trace[w.match].seller, ExchangeWallet} =>
      w.amount = Gain(trace, In(w.currency, w.match) \ {w.token},
                      {trace[w.match].seller})
                 - Spent(trace, BuyersFees(w), {trace[w.match].buyer})
=============================================================================
