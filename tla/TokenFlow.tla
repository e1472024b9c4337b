------------------------------- MODULE TokenFlow -------------------------------
(***************************************************************************)
(* run_tokenflow of tokenflow.py: how much ETH (or WETH, which counts as   *)
(* ETH) and how many dollars the contract that a transaction calls takes   *)
(* in and gives out, told from the traces of the transaction.              *)
(*                                                                         *)
(* trace[i] has a type, from, to and amount, which is the value of a call  *)
(* or the balance of a contract that destroys itself, and reverted: it or  *)
(* a call that it is part of failed, so that what it moved was put back.   *)
(* The node marks what failed with an error, which nothing here looks at.  *)
(* A call has a method: "transfer" or "transferFrom" (told by the length   *)
(* and the selector of its input) with the arguments src, dst and sum, or  *)
(* another.  The node writes addresses in lower case.                      *)
(***************************************************************************)
EXTENDS Accounts, Sequences, FiniteSets

CONSTANTS
  Weth,          \* weth_address
  Stablecoins,   \* those that is_stablecoin_address lists in lower case
  Routers,       \* those that is_known_router_address lists in lower case
  Transactions   \* bound: the pairs of a receipt's to address and the traces

VARIABLES
  toAddress,  \* the to address of the receipt, "" for none
  trace,      \* tx_traces
  at,         \* the trace the loops are at
  flows,      \* [ethIn, ethOut, usdIn, usdOut]
  raised      \* run_tokenflow ended with a ValueError

vars == <<toAddress, trace, at, flows, raised>>

Places == 1 .. Len(trace)

TxProxies ==
  {trace[i].to : i \in {j \in Places : /\ trace[j].type = "delegatecall"
                                       /\ trace[j].from = toAddress}}

(* addresses_to_check *)
Checked == TxProxies \cup ({toAddress} \ Routers)

-----------------------------------------------------------------------------
IsCall(t) == t.type \in {"call", "delegatecall"}

EtherGot(t) ==
  IF t.type = "call" /\ t.from # Weth /\ t.to \in Checked
    THEN t.amount ELSE 0

EtherGiven(t) ==
  IF t.type = "call" /\ t.to # Weth /\ t.from \in Checked
    THEN t.amount ELSE 0

(* A balance is read as "0x" and what the node gives, which has its 0x.    *)
CannotBeRead(t) == t.type = "suicide" /\ t.to \in Checked

(* A transfer of tokens to one of Checked is income, whoever it is from. *)
TokensGot(t) ==
  IF t.method \in {"transfer", "transferFrom"} /\ t.dst \in Checked
    THEN t.sum ELSE 0

(* Defect: the caller of transferFrom is taken for the one who pays. *)
TokensGivenByCaller(t) ==
  IF t.method \in {"transfer", "transferFrom"} /\ t.dst \notin Checked
     /\ t.from \in Checked
    THEN t.sum ELSE 0

TokensGiven(t) ==
  IF /\ t.dst \notin Checked
     /\ \/ t.method = "transfer" /\ t.from \in Checked
        \/ t.method = "transferFrom" /\ t.src \in Checked
    THEN t.sum ELSE 0

-----------------------------------------------------------------------------
Init ==
  /\ \E tx \in Transactions : toAddress = tx[1] /\ trace = tx[2]
  /\ at = 1
  /\ flows = [ethIn |-> 0, ethOut |-> 0, usdIn |-> 0, usdOut |-> 0]
  /\ raised = FALSE

(* The two loops are taken as one: neither reads what the other counts.    *)
Visit ==
  /\ ~raised /\ toAddress # "" /\ at \in Places
  /\ ~CannotBeRead(trace[at])
  /\ at' = at + 1
  /\ UNCHANGED <<toAddress, trace, raised>>

(* A call of the WETH contract, which may bring ETH as well. *)
VisitWeth ==
  LET t == trace[at]
  IN  /\ Visit
      /\ IsCall(t) /\ t.to = Weth
      /\ flows' = [flows EXCEPT !.ethIn = @ + EtherGot(t) + TokensGot(t),
                                !.ethOut = @ + EtherGiven(t) + TokensGiven(t)]

(* The second loop, get_dollar_flows, takes calls of stablecoins as well.  *)
VisitStablecoin ==
  LET t == trace[at]
  IN  /\ Visit
      /\ IsCall(t) /\ t.to \in Stablecoins
      /\ flows' = [ethIn |-> flows.ethIn + EtherGot(t),
                   ethOut |-> flows.ethOut + EtherGiven(t),
                   usdIn |-> flows.usdIn + TokensGot(t),
                   usdOut |-> flows.usdOut + TokensGiven(t)]

VisitOther ==
  LET t == trace[at]
  IN  /\ Visit
      /\ ~(IsCall(t) /\ t.to \in {Weth} \cup Stablecoins)
      /\ flows' = [flows EXCEPT !.ethIn = @ + EtherGot(t),
                                !.ethOut = @ + EtherGiven(t)]

Raise ==
  /\ ~raised /\ raised' = TRUE
  /\ UNCHANGED <<toAddress, trace, at, flows>>

(* No to address: that is found before any trace is read. *)
NobodyIsCalled == toAddress = "" /\ Raise

(* What the loops have counted is lost. *)
RefundIsRead ==
  toAddress # "" /\ at \in Places /\ CannotBeRead(trace[at]) /\ Raise

Next == VisitWeth \/ VisitStablecoin \/ VisitOther \/ NobodyIsCalled \/ RefundIsRead
Spec == Init /\ [][Next]_vars

-----------------------------------------------------------------------------
(* Properties.                                                             *)

(* What the machine does: a delegatecall moves nothing, a deposit of WETH  *)
(* or its withdrawal changes ETH into WETH or back.                        *)
EtherMoves ==
  {i \in 1 .. at - 1 : /\ trace[i].type \in {"call", "suicide"}
                       /\ Weth \notin {trace[i].from, trace[i].to}}

TransfersOf(tokens) ==
  {i \in 1 .. at - 1 : /\ trace[i].type = "call" /\ trace[i].to \in tokens
                       /\ trace[i].method \in {"transfer", "transferFrom"}}

TokenMove ==
  [i \in Places |->
     [from |-> IF trace[i].method = "transfer" THEN trace[i].from
                                               ELSE trace[i].src,
      to |-> trace[i].dst, amount |-> trace[i].sum]]

Undone(moves) == {i \in moves : trace[i].reverted}

(* What is kept, and what would have been kept besides had nothing failed. *)
Counted(move, moves) ==
  Gain(move, moves \ Undone(moves), Checked) + Gain(move, Undone(moves), Checked)

(* What the code takes for income alone: tokens that one of the addresses  *)
(* sends to another; and what it does not see, a contract's own end.       *)
Internal(transfers) ==
  \E i \in transfers : TokenMove[i].from \in Checked /\ TokenMove[i].to \in Checked

Destroyed ==
  \E i \in 1 .. at - 1 : trace[i].type = "suicide" /\ trace[i].from \in Checked

(* What the code counts although no tokens move: the code of a token that  *)
(* another contract runs as its own, by a delegatecall.                    *)
Borrowed(tokens) ==
  \E i \in 1 .. at - 1 : /\ trace[i].type = "delegatecall" /\ trace[i].to \in tokens
                         /\ trace[i].method \in {"transfer", "transferFrom"}

EtherNetIsGain ==
  LET transfers == TransfersOf({Weth})
  IN  Weth \notin Checked /\ ~Destroyed
        /\ ~Internal(transfers) /\ ~Borrowed({Weth}) =>
        flows.ethIn - flows.ethOut
          = Counted(trace, EtherMoves) + Counted(TokenMove, transfers)

DollarNetIsGain ==
  LET transfers == TransfersOf(Stablecoins)
  IN  ~Internal(transfers) /\ ~Borrowed(Stablecoins) =>
        flows.usdIn - flows.usdOut = Counted(TokenMove, transfers)

(***************************************************************************)
(* As long as nothing is raised, the net ether flow of get_ether_flows is  *)
(* what the contract and its proxies gained in ETH and WETH together,      *)
(* however it was wrapped, unwrapped and passed on, and what they would    *)
(* have gained by the calls that were undone, which count all the same;    *)
(* unless they send WETH to each other, destroy themselves or are the WETH *)
(* contract.  So is the net of get_dollar_flows in stablecoins, unless     *)
(* they send each other some; and neither if a contract delegates a        *)
(* transfer to the code of a token.                                        *)
(***************************************************************************)
NetFlowsAreGains == ~raised => EtherNetIsGain /\ DollarNetIsGain
=============================================================================
