------------------------------- MODULE MC_Punks -------------------------------
(***************************************************************************)
(* An instance of Punks for TLC: the bids and acceptances of one punk, in  *)
(* transactions of their own, that the contract of the CryptoPunks lets    *)
(* happen one after the other.  It keeps one bid at a time; a bid has to   *)
(* be above it, and an acceptance takes it if it is at least her minimum.  *)
(***************************************************************************)
EXTENDS Punks

Calls == [kind : {"bid", "accept"}, price : 1 .. 3]

(* The bid that stands after the first i calls, 0 if there is none. *)
Standing(calls) ==
  LET bid[i \in 0 .. Len(calls)] ==
        IF i = 0 THEN 0
        ELSE IF calls[i].kind = "bid"
             THEN IF calls[i].price > bid[i - 1]
                  THEN calls[i].price ELSE bid[i - 1]
             ELSE IF calls[i].price <= bid[i - 1] THEN 0 ELSE bid[i - 1]
  IN  bid

(* A call that changes nothing has failed. *)
Happened(calls) ==
  {[tx |-> i, address |-> 1, kind |-> calls[i].kind, punk |-> "P",
    price |-> calls[i].price,
    failed |-> Standing(calls)[i] = Standing(calls)[i - 1]] :
     i \in DOMAIN calls}

PossibleBlocks == {Happened(calls) : calls \in [1 .. 4 -> Calls]}
=============================================================================
