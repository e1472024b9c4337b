-------------------------------- MODULE Swaps --------------------------------
(***************************************************************************)
(* get_swaps of swaps.py, on the traces of one transaction: they are       *)
(* visited in the order of their trace addresses, and each trace that is   *)
(* classified as a swap is matched with the transfers before it and the    *)
(* transfers below it.                                                     *)
(*                                                                         *)
(* A trace is named by its place in that order.  trace[i] has its address  *)
(* and its kind:                                                           *)
(*   "transfer"   a decoded token transfer                                 *)
(*   "eth"        a plain payment in ETH, which is never decoded           *)
(*   "pool"       a swap that its pool's transfers tell                    *)
(*   "recipient"  a swap that the recipient's transfers tell               *)
(*   "other"      anything else                                            *)
(* from and to are the parties of a transfer; a swap's to is its pool.     *)
(* A swap may bring ETH of its own (pays).  Amounts are left out: in a     *)
(* swap they go with the transfer.                                         *)
(***************************************************************************)
EXTENDS TraceTree, FiniteSets, FiniteSetsExt

CONSTANT
  Transactions  \* bound: the lists of traces to look at

VARIABLES
  trace,  \* the traces of the transaction, sorted
  at,     \* the trace the loop is at
  prior,  \* prior_transfers
  swaps   \* the swaps found: the trace, the transfer in, the transfer out

vars == <<trace, at, prior, swaps>>

Traces == 1 .. Len(trace)

Below(i, p) == IsChildTraceAddress(trace[i].address, trace[p].address)

IsTransfer(i) == trace[i].kind \in {"transfer", "eth"}

(* Defect: all transfers after the swap began are taken for its own. *)
ChildTransfersAfter(s) == {i \in Traces : IsTransfer(i) /\ i > s}

ChildTransfers(s) == {i \in Traces : IsTransfer(i) /\ Below(i, s)}

(* What a token does to carry out a transfer is not another transfer.      *)
RemoveChildTransfers(transfers) ==
  {t \in transfers : \A p \in transfers : p < t => ~Below(t, p)}

-----------------------------------------------------------------------------
(* The two ways to tell a swap.                                            *)

(* The token that trace i moves: a swap's own payment is in ETH. *)
Token(i) == IF trace[i].kind = "transfer" THEN trace[i].token ELSE "ETH"

From(transfers, a) == {t \in transfers : trace[t].from = a}
To(transfers, a) == {t \in transfers : trace[t].to = a}
Found(s, in, out) == {[trace |-> s, in |-> in, out |-> out]}

(***************************************************************************)
(* What the pool was paid: the ETH of the call, or else the last transfer  *)
(* before the swap, or else the last one within it.                        *)
(***************************************************************************)
PaidToPool(s, before, children) ==
  LET pool == trace[s].to
  IN  IF trace[s].pays THEN {s}
      ELSE IF To(before, pool) # {} THEN To(before, pool)
      ELSE To(children, pool)

(* create_swap_from_pool_transfers. *)
SwapFromPool(s, before, children) ==
  LET ins == PaidToPool(s, before, children)
      outs == From(To(children, trace[s].recipient), trace[s].to)
  IN  IF ins = {} \/ Cardinality(outs) # 1 THEN {}
      ELSE LET in == Max(ins)
               out == Max(outs)
           IN  IF Token(in) = Token(out) THEN {} ELSE Found(s, in, out)

(* create_swap_from_recipient_transfers. *)
SwapFromRecipient(s, before, children) ==
  LET ins == From(before \cup children, trace[s].recipient)
      outs == To(children, trace[s].recipient)
  IN  IF Cardinality(ins) # 1 \/ Cardinality(outs) # 1 THEN {}
      ELSE Found(s, Max(ins), Max(outs))

ParseSwap(s, before, children) ==
  IF trace[s].kind = "pool" THEN SwapFromPool(s, before, children)
                            ELSE SwapFromRecipient(s, before, children)

-----------------------------------------------------------------------------
(* The loop.                                                               *)

Init ==
  /\ trace \in Transactions
  /\ at = 1 /\ prior = {} /\ swaps = {}

Advance == at \in Traces /\ at' = at + 1 /\ UNCHANGED trace

VisitTransfer ==
  /\ Advance
  /\ trace[at].kind = "transfer"
  /\ prior' = prior \cup {at}
  /\ UNCHANGED swaps

(* Defect: the transfers within the swap are taken as they are. *)
VisitSwapUnfiltered ==
  /\ Advance
  /\ trace[at].kind \in {"pool", "recipient"}
  /\ swaps' = swaps \cup
       ParseSwap(at, RemoveChildTransfers(prior), ChildTransfers(at))
  /\ UNCHANGED prior

VisitSwap ==
  /\ Advance
  /\ trace[at].kind \in {"pool", "recipient"}
  /\ swaps' = swaps \cup
       ParseSwap(at, RemoveChildTransfers(prior),
                 RemoveChildTransfers(ChildTransfers(at)))
  /\ UNCHANGED prior

VisitOther ==
  /\ Advance
  /\ trace[at].kind \in {"eth", "other"}
  /\ UNCHANGED <<prior, swaps>>

Next == VisitTransfer \/ VisitSwap \/ VisitOther
Spec == Init /\ [][Next]_vars

-----------------------------------------------------------------------------
(* Properties.                                                             *)

IsAncestor(p, i) ==
  \E n \in 0 .. Len(trace[i].address) - 1 :
    trace[p].address = SubSeq(trace[i].address, 1, n)

(* The transfers that no transfer in S contains. *)
Outermost(S) == {t \in S : ~\E p \in S : IsAncestor(p, t)}

Outer == Outermost({i \in Traces : IsTransfer(i)})
OuterTokens == Outermost({i \in Traces : trace[i].kind = "transfer"})
InsideTransfer(s) == \E p \in Traces : IsTransfer(p) /\ IsAncestor(p, s)

(***************************************************************************)
(* How a token carries out its transfers does not matter: of a swap that   *)
(* is not itself inside a transfer, the loop finds what there is to find   *)
(* if all that happens within transfers is ignored, wherever in the tree   *)
(* it happens.                                                             *)
(***************************************************************************)
InnerTransfersDoNotMatter ==
  \A s \in 1 .. at - 1 :
    trace[s].kind \in {"pool", "recipient"} /\ ~InsideTransfer(s) =>
      {w \in swaps : w.trace = s} =
        ParseSwap(s, {t \in OuterTokens : t < s},
                  {t \in Outer : IsAncestor(s, t)})

(***************************************************************************)
(* A swap gives out within its own call, it takes in what came before it   *)
(* or within, and no two swaps give out by the same transfer unless one of *)
(* them is a part of the other.                                            *)
(***************************************************************************)
SwapsStayApart ==
  \A w \in swaps :
    /\ IsAncestor(w.trace, w.out)
    /\ w.in <= w.trace \/ IsAncestor(w.trace, w.in)
    /\ \A v \in swaps :
         v.out = w.out /\ v # w => IsAncestor(v.trace, w.trace)
                                     \/ IsAncestor(w.trace, v.trace)
=============================================================================
