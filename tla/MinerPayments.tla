----------------------------- MODULE MinerPayments -----------------------------
(***************************************************************************)
(* get_miner_payments of miner_payments.py: what the miner of a block gets *)
(* for each transaction, by the price of gas and by transfers of ETH.      *)
(*                                                                         *)
(* trace[i] has a tx, an address, from, to and amount; plain says that the *)
(* input is empty, which makes it a simple transfer of ETH; reverted, that *)
(* it or a call that it is part of failed, which nothing here looks at.    *)
(* (Nor does it look for delegated calls, which move nothing: nobody       *)
(* delegates an empty call to a miner, and no trace here is one.)          *)
(* A receipt has a tx, the gas used and its price.                         *)
(***************************************************************************)
EXTENDS Accounts, Sequences, FiniteSets, TraceTree

CONSTANTS
  Miner,    \* miner_address, in lower case
  Blocks    \* bound: the pairs of receipts and traces to look at

VARIABLES
  receipts,  \* receipts
  trace,     \* traces, in whatever order
  at,        \* the receipt the loop is at
  payments   \* miner_payments

vars == <<receipts, trace, at, payments>>

Of(tx) == {i \in DOMAIN trace : trace[i].tx = tx}

(* first_trace *)
First(tx) ==
  CHOOSE i \in Of(tx) :
    \A j \in Of(tx) : i = j \/ AddressBefore(trace[i].address, trace[j].address)

(* Defect: only what the transaction itself sends counts. *)
MinerEthTransfersTop(tx) ==
  {i \in Of(tx) : /\ trace[i].plain /\ trace[i].amount > 0
                  /\ trace[i].to = Miner /\ trace[i].address = <<>>}

MinerEthTransfers(tx) ==
  {i \in Of(tx) : /\ trace[i].plain /\ trace[i].amount > 0
                  /\ trace[i].to = Miner}

(***************************************************************************)
(* The quotient is taken of floats and cut to an int by the row, which is  *)
(* division without its rest, but for what floats round away.              *)
(***************************************************************************)
PriceWithCoinbase(receipt, coinbase) ==
  IF receipt.gas = 0 THEN 0
  ELSE (receipt.price * receipt.gas + coinbase) \div receipt.gas

(* What of the row is not a copy of the block's or the receipt's fields.   *)
Payment(receipt) ==
  LET coinbase == Received(trace, MinerEthTransfers(receipt.tx), {Miner})
  IN  [tx |-> receipt.tx, coinbase |-> coinbase,
       priceWithCoinbase |-> PriceWithCoinbase(receipt, coinbase),
       from |-> trace[First(receipt.tx)].from,
       to |-> trace[First(receipt.tx)].to]

-----------------------------------------------------------------------------
Init ==
  /\ \E block \in Blocks : receipts = block[1] /\ trace = block[2]
  /\ at = 1
  /\ payments = <<>>

Visit == at \in DOMAIN receipts /\ at' = at + 1 /\ UNCHANGED <<receipts, trace>>

Pay ==
  /\ Visit
  /\ Of(receipts[at].tx) # {}
  /\ payments' = Append(payments, Payment(receipts[at]))

(* A receipt without traces is passed over. *)
PassOver ==
  /\ Visit
  /\ Of(receipts[at].tx) = {}
  /\ UNCHANGED payments

Next == Pay \/ PassOver
Spec == Init /\ [][Next]_vars

-----------------------------------------------------------------------------
(* Properties.                                                             *)

Undone(tx) == {i \in Of(tx) : trace[i].reverted}

(* Whatever pays the miner is a simple transfer, and she pays nobody.      *)
PaysPlainly(tx) ==
  \A i \in Of(tx) : /\ trace[i].to = Miner /\ trace[i].amount > 0 => trace[i].plain
                    /\ trace[i].from # Miner

(* The receipts with traces, and the place among them of the k-th receipt. *)
Visited == {k \in 1 .. at - 1 : Of(receipts[k].tx) # {}}
Rank(k) == Cardinality({j \in Visited : j <= k})

(* What the miner earned by each unit of gas more than its price. *)
Extra(payment, receipt) == payment.priceWithCoinbase - receipt.price

PaidRight(payment, receipt) ==
  /\ payment.tx = receipt.tx
  /\ PaysPlainly(receipt.tx) =>
       payment.coinbase
         = Gain(trace, Of(receipt.tx) \ Undone(receipt.tx), {Miner})
             + Gain(trace, Undone(receipt.tx), {Miner})
  /\ IF receipt.gas = 0 THEN payment.priceWithCoinbase = 0
     ELSE /\ Extra(payment, receipt) * receipt.gas <= payment.coinbase
          /\ payment.coinbase < (Extra(payment, receipt) + 1) * receipt.gas
  /\ \E t \in Of(receipt.tx) :
       /\ trace[t].address = <<>>
       /\ payment.from = trace[t].from /\ payment.to = trace[t].to

(***************************************************************************)
(* get_miner_payments has one payment for each receipt whose transaction   *)
(* has traces, in the receipts' order although the traces have another.    *)
(* Its coinbase transfer is what the miner gained wherever in the          *)
(* transaction she was paid, as long as it is by simple transfers, and     *)
(* what she would have gained by those that were undone, which count all   *)
(* the same; spread over the gas, it is what the price with it exceeds the *)
(* price by.                                                               *)
(***************************************************************************)
PaymentsAddUp ==
  /\ Len(payments) = Cardinality(Visited)
  /\ \A k \in Visited : PaidRight(payments[Rank(k)], receipts[k])
=============================================================================
