----------------------------- MODULE Liquidations -----------------------------
(***************************************************************************)
(* get_liquidations of liquidations.py, with the three classifiers of Aave,*)
(* Compound and Cream: a call that liquidates a loan, who it is reported   *)
(* to have paid, and what for.  A call of a proxy shows as two calls that  *)
(* liquidate, one below the other, and only one of them may be reported.   *)
(*                                                                         *)
(* The traces come in the order of the block: the transactions one after   *)
(* the other, a call before what it calls.  A trace is named by its place. *)
(* trace[i] has a tx, an address, a kind, and failed, which says that its  *)
(* error is "Reverted".  The kinds are                                     *)
(*   "aave", "ceth", "ctoken"  a call that liquidates: at Aave, at the     *)
(*                market for ETH or at another market of Compound or Cream *)
(*   "transfer"   a transfer of tokens or ETH (whichever get_transfer sees)*)
(*   "seize"      the call by which the collateral changes hands           *)
(*   "other"      any other call                                           *)
(* from and to are the caller of a liquidation or the parties of a         *)
(* transfer, pays says that the call of a liquidation brings ETH.          *)
(***************************************************************************)
EXTENDS TraceTree, FiniteSets, FiniteSetsExt

CONSTANT
  BlockTraces  \* bound: the lists of traces to look at

VARIABLES
  trace,         \* classified_traces
  at,            \* the trace the loop is at
  parents,       \* parent_liquidations
  liquidations,  \* what was found: the call, the debt paid, the collateral
  raised         \* parsing raised a KeyError, and the inspection ends

vars == <<trace, at, parents, liquidations, raised>>

Places == 1 .. Len(trace)
Liquidate == {i \in Places : trace[i].kind \in {"aave", "ceth", "ctoken"}}

IsBelow(i, p) == IsChildTrace(trace[i], trace[p].tx, trace[p].address)
ChildrenOf(p) == {i \in Places : IsBelow(i, p)}
OfKind(S, kind) == {i \in S : trace[i].kind = kind}
FirstOf(S) == IF S = {} THEN 0 ELSE Min(S)

-----------------------------------------------------------------------------
(* parse_liquidation.                                                      *)

GetReceivedTransfer(p) ==
  FirstOf({i \in OfKind(ChildrenOf(p), "transfer") : trace[i].to = trace[p].from})

GetDebtTransfer(p) ==
  FirstOf({i \in OfKind(ChildrenOf(p), "transfer") : trace[i].from = trace[p].from})

GetSeizeCall(p) == FirstOf(OfKind(ChildrenOf(p), "seize"))

(* A debt of 0 is what the call itself brings, or names as repayAmount. *)
Legs(p, debt, received) ==
  IF received = 0 THEN {}
                  ELSE {[trace |-> p, debt |-> debt, received |-> received]}

ParseAave(p) ==
  IF GetDebtTransfer(p) = 0
    THEN {} ELSE Legs(p, GetDebtTransfer(p), GetReceivedTransfer(p))

ParseCompound(p) ==
  Legs(p, GetDebtTransfer(p),
       IF GetReceivedTransfer(p) # 0 THEN GetReceivedTransfer(p)
                                     ELSE GetSeizeCall(p))

ParseLiquidation(p) ==
  IF trace[p].kind = "aave" THEN ParseAave(p) ELSE ParseCompound(p)

(* The market for ETH has no repayAmount to fall back to. *)
RepaysNothing(p) == trace[p].kind = "ceth" /\ ~trace[p].pays

-----------------------------------------------------------------------------
(* The loop.                                                               *)

Init ==
  /\ trace \in BlockTraces
  /\ at = 1
  /\ parents = {} /\ liquidations = {} /\ raised = FALSE

IsChildLiquidation(i) == \E p \in parents : IsBelow(i, p)

(* Defect: what is below a reported liquidation is looked at as well. *)
IsAnyLiquidation(i) == i \in Liquidate /\ ~trace[i].failed

IsLiquidation(i) ==
  i \in Liquidate /\ ~IsChildLiquidation(i) /\ ~trace[i].failed

Advance == at \in Places /\ ~raised /\ at' = at + 1 /\ UNCHANGED trace

(* Defect: only a call that could be parsed hides what is below it. *)
VisitLiquidationParsed ==
  /\ Advance
  /\ IsLiquidation(at) /\ ~RepaysNothing(at)
  /\ parents' = IF ParseLiquidation(at) = {} THEN parents ELSE parents \cup {at}
  /\ liquidations' = liquidations \cup ParseLiquidation(at)
  /\ UNCHANGED raised

VisitLiquidation ==
  /\ Advance
  /\ IsLiquidation(at) /\ ~RepaysNothing(at)
  /\ parents' = parents \cup {at}
  /\ liquidations' = liquidations \cup ParseLiquidation(at)
  /\ UNCHANGED raised

VisitEmptyRepayment ==
  /\ Advance
  /\ IsLiquidation(at) /\ RepaysNothing(at)
  /\ raised' = TRUE
  /\ parents' = parents \cup {at}
  /\ UNCHANGED liquidations

VisitOther ==
  /\ Advance
  /\ ~IsLiquidation(at)
  /\ UNCHANGED <<parents, liquidations, raised>>

Next == VisitLiquidation \/ VisitEmptyRepayment \/ VisitOther
Spec == Init /\ [][Next]_vars

-----------------------------------------------------------------------------
(* Properties.                                                             *)

(* The calls that liquidate and are not part of another one.               *)
Outermost ==
  {i \in Liquidate :
     /\ ~trace[i].failed
     /\ \A p \in Liquidate : CalledBy(trace[i], trace[p]) => trace[p].failed}

Moves(i, kind) ==
  {m \in Places : trace[m].kind = kind /\ CalledBy(trace[m], trace[i])}

Pays(i) == \E m \in Moves(i, "transfer") : trace[m].from = trace[i].from
Earns(i) == \E m \in Moves(i, "transfer") : trace[m].to = trace[i].from

IsComplete(i) ==
  IF trace[i].kind = "aave" THEN Pays(i) /\ Earns(i)
                            ELSE Earns(i) \/ Moves(i, "seize") # {}

(***************************************************************************)
(* get_liquidations reports the outermost of nested calls that liquidate,  *)
(* each once, if its legs can be told; a reverted one hides nothing, and   *)
(* one whose legs cannot be told still hides the calls below it.           *)
(***************************************************************************)
OutermostAreReported ==
  ~raised => {l.trace : l \in liquidations}
               = {i \in Outermost : i < at /\ IsComplete(i)}

(***************************************************************************)
(* Nobody's collateral is counted twice: no transfer or seizure is a leg   *)
(* of two liquidations of get_liquidations, and it is both legs of one     *)
(* only if the liquidator paid herself.                                    *)
(***************************************************************************)
LegsStayApart ==
  \A l, k \in liquidations :
    /\ l # k => \A leg \in {l.debt, l.received} \ {0} : leg \notin {k.debt, k.received}
    /\ l.debt = l.received => trace[l.debt].from = trace[l.debt].to
=============================================================================
