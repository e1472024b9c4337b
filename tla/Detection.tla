------------------------------ MODULE Detection ------------------------------
(***************************************************************************)
(* The modules without sessions and processes: the classification of       *)
(* traces, the algorithms that inspect_many_blocks calls one after the     *)
(* other, token flow, prices, and the reader of text.  They share nothing: *)
(* a behaviour here is one algorithm on one input, and the algorithms take *)
(* turns with the same variables.                                          *)
(***************************************************************************)
EXTENDS Integers, Sequences, FiniteSets

CONSTANTS
  SwapTransactions,   \* bound: what get_swaps runs on
  LegTransactions,    \* bound: what get_arbitrages runs on
  BlockSwaps,         \* bound: what get_sandwiches runs on
  SandwichRouters,    \* the routers that it knows
  BidBlocks,          \* bound: what get_punk_snipes runs on
  LiquidationBlocks,  \* bound: what get_liquidations runs on
  FlowTransactions,   \* bound: what token flow runs on
  Weth, Stablecoins, FlowRouters,  \* what it knows
  SaleTransactions,   \* bound: what get_nft_trades runs on
  ExchangeWallet,     \* the wallet that it knows
  PaidBlocks,         \* bound: what get_miner_payments runs on
  Miner,              \* the miner of these blocks
  CallTraces,         \* bound: what classify runs on
  Texts, Sizes,       \* bound: what is read, and how much at a time
  Tokens, Profit, Ether, BlockTime, Series  \* prices: see there

VARIABLES
  algorithm,  \* which one runs
  input,      \* what it runs on
  extra,      \* more input, or more state
  at,         \* the element its loop is at
  memo,       \* what it remembers
  result      \* what it found

variables == <<algorithm, input, extra, at, memo, result>>

Unused == 0

-----------------------------------------------------------------------------
(* The algorithms, each with its own use of the variables.                 *)

S == INSTANCE Swaps WITH
       Transactions <- SwapTransactions, trace <- input, prior <- memo, swaps <- result
A == INSTANCE Arbitrages WITH
       Transactions <- LegTransactions, swap <- input, used <- memo, found <- extra
W == INSTANCE Sandwiches WITH
       Routers <- SandwichRouters,
       swap <- input, front <- extra, victims <- memo, sandwiches <- result
P == INSTANCE Punks WITH
       Blocks <- BidBlocks, traces <- input, snipes <- result
L == INSTANCE Liquidations WITH
       BlockTraces <- LiquidationBlocks, trace <- input, parents <- memo,
       raised <- extra, liquidations <- result
T == INSTANCE TokenFlow WITH
       Routers <- FlowRouters, Transactions <- FlowTransactions,
       trace <- input, toAddress <- extra, raised <- memo, flows <- result
N == INSTANCE NftTrades WITH
       Transactions <- SaleTransactions,
       trace <- input, trades <- result
M == INSTANCE MinerPayments WITH
       Blocks <- PaidBlocks,
       trace <- input, receipts <- extra, payments <- result
C == INSTANCE Classifier WITH
       Traces <- CallTraces, trace <- input, classified <- result
R == INSTANCE TextIO WITH
       ends <- input, taken <- at, buff <- memo,
       request <- extra, pieces <- result
D == INSTANCE Prices WITH
       prices <- input, fetched <- extra, summary <- result

-----------------------------------------------------------------------------
(* What every input is.                                                    *)

(* The traces of a transaction, sorted by their addresses. *)
IsSorted(list) ==
  /\ Len(list) \in Nat
  /\ \A i \in 1 .. Len(list) : list[i].address \in Seq(Nat)
  /\ \A i, j \in 1 .. Len(list) :
       i < j => S!AddressBefore(list[i].address, list[j].address)

TransactionsAreSorted == \A list \in SwapTransactions : IsSorted(list)

ASSUME SwapsAssumption == TransactionsAreSorted

(* The swaps of a block or a transaction are a list. *)
ListsEnd == \A list \in BlockSwaps \cup LegTransactions : Len(list) \in Nat

ASSUME ListsAssumption == ListsEnd

(* The traces of a block in the order in which the calls began. *)
IsCallOrder(list) ==
  /\ Len(list) \in Nat
  /\ \A i \in 1 .. Len(list) : list[i].address \in Seq(Nat)
  /\ \A i, j \in 1 .. Len(list) :
       i < j /\ list[i].tx = list[j].tx
         => L!AddressBefore(list[i].address, list[j].address)

BlocksAreInCallOrder == \A list \in LiquidationBlocks : IsCallOrder(list)

ASSUME LiquidationsAssumption == BlocksAreInCallOrder

(* What the ends of chunks are: no chunk has less than nothing. *)
Ascends(e) ==
  /\ e \in Seq(Nat)
  /\ \A i \in 1 .. Len(e) : (IF i = 1 THEN 0 ELSE e[i - 1]) <= e[i]

TextsAndSizes == (\A e \in Texts : Ascends(e)) /\ Sizes \subseteq Nat

ASSUME TextAssumption == TextsAndSizes

(***************************************************************************)
(* The market gives one price for a time, and no token is listed twice, as *)
(* in TOKEN_ADDRESSES.                                                     *)
(***************************************************************************)
OnePriceATime ==
  /\ Len(Tokens) \in Nat /\ DOMAIN Tokens = 1 .. Len(Tokens)
  /\ \A i, j \in DOMAIN Tokens : Tokens[i] = Tokens[j] => i = j
  /\ \A series \in Series :
       /\ \A s \in series : s.time \in Nat \ {0}
       /\ \A r, s \in series : r.time = s.time => r = s
  /\ BlockTime \in Nat

ASSUME PricesAssumption == OnePriceATime

(* No two traces of a block have one place, and bids count wei. *)
BidsHavePlaces ==
  \A block \in BidBlocks :
    /\ IsFiniteSet(block)
    /\ \A t \in block : t.tx \in Nat /\ t.address \in Nat /\ t.price \in Nat
    /\ \A s, t \in block : s.tx = t.tx /\ s.address = t.address => s = t

ASSUME BidsAssumption == BidsHavePlaces

(***************************************************************************)
(* Traces count wei and units of tokens, and no token is a stablecoin and  *)
(* WETH at once.                                                           *)
(***************************************************************************)
FlowsAreAmounts ==
  /\ Weth \notin Stablecoins
  /\ \A tx \in FlowTransactions :
       /\ Len(tx[2]) \in Nat
       /\ \A i \in 1 .. Len(tx[2]) :
            tx[2][i].amount \in Nat /\ tx[2][i].sum \in Nat

ASSUME FlowsAssumption == FlowsAreAmounts

(* The traces of a transaction with sales, and amounts as tokens count. *)
SalesAreTransactions ==
  \A list \in SaleTransactions :
    /\ Len(list) \in Nat
    /\ \A i \in 1 .. Len(list) : /\ list[i].address \in Seq(Nat)
                                /\ list[i].amount \in Nat

ASSUME SalesAssumption == SalesAreTransactions

(***************************************************************************)
(* The receipts of a block are a list, and the traces of a transaction are *)
(* all that it called, with the transaction itself, whose address is <<>>. *)
(***************************************************************************)
IsPaidBlock(receipts, traces) ==
  /\ Len(receipts) \in Nat /\ DOMAIN receipts = 1 .. Len(receipts)
  /\ \A k \in DOMAIN receipts : receipts[k].gas \in Nat /\ receipts[k].price \in Nat
  /\ Len(traces) \in Nat /\ DOMAIN traces = 1 .. Len(traces)
  /\ \A i \in DOMAIN traces : /\ traces[i].address \in Seq(Nat)
                             /\ traces[i].amount \in Nat
  /\ \A i, j \in DOMAIN traces : /\ traces[i].tx = traces[j].tx
                                /\ traces[i].address = traces[j].address => i = j
  /\ \A i \in DOMAIN traces : \E j \in DOMAIN traces :
       traces[j].tx = traces[i].tx /\ traces[j].address = <<>>

BlocksArePaid == \A block \in PaidBlocks : IsPaidBlock(block[1], block[2])

ASSUME PaymentsAssumption == BlocksArePaid

-----------------------------------------------------------------------------
(* One of them runs.                                                       *)

Init ==
  \/ algorithm = "swaps" /\ S!Init /\ extra = Unused
  \/ algorithm = "arbitrages" /\ A!Init
  \/ algorithm = "sandwiches" /\ W!Init
  \/ algorithm = "punks" /\ P!Init /\ extra = Unused /\ memo = Unused
  \/ algorithm = "liquidations" /\ L!Init
  \/ algorithm = "token flow" /\ T!Init
  \/ algorithm = "nft trades" /\ N!Init /\ extra = Unused /\ memo = Unused
  \/ algorithm = "miner payments" /\ M!Init /\ memo = Unused
  \/ algorithm = "classify" /\ C!Init /\ extra = Unused /\ memo = Unused
  \/ algorithm = "copy" /\ R!Init
  \/ algorithm = "prices" /\ D!Init /\ memo = Unused

Next ==
  \/ algorithm = "swaps" /\ S!Next /\ UNCHANGED <<algorithm, extra>>
  \/ algorithm = "arbitrages" /\ A!Next /\ UNCHANGED algorithm
  \/ algorithm = "sandwiches" /\ W!Next /\ UNCHANGED algorithm
  \/ algorithm = "punks" /\ P!Next /\ UNCHANGED <<algorithm, extra, memo>>
  \/ algorithm = "liquidations" /\ L!Next /\ UNCHANGED algorithm
  \/ algorithm = "token flow" /\ T!Next /\ UNCHANGED algorithm
  \/ algorithm = "nft trades" /\ N!Next /\ UNCHANGED <<algorithm, extra, memo>>
  \/ algorithm = "miner payments" /\ M!Next /\ UNCHANGED <<algorithm, memo>>
  \/ algorithm = "classify" /\ C!Next /\ UNCHANGED <<algorithm, extra, memo>>
  \/ algorithm = "copy" /\ R!Next /\ UNCHANGED algorithm
  \/ algorithm = "prices" /\ D!Next /\ UNCHANGED <<algorithm, memo>>

Spec == Init /\ [][Next]_variables

-----------------------------------------------------------------------------
(* The properties of the modules.                                          *)

(* How tokens carry out transfers makes no difference to get_swaps. *)
InnerTransfersDoNotMatter == algorithm = "swaps" => S!InnerTransfersDoNotMatter

(* No two swaps of get_swaps give out by one transfer, unless nested. *)
SwapsStayApart == algorithm = "swaps" => S!SwapsStayApart

(* The routes of get_arbitrages are chains, and none is shorter. *)
RoutesAreShortest == algorithm = "arbitrages" => A!RoutesAreShortest

(* get_arbitrages opens and closes no two arbitrages with one swap. *)
OpensAndClosesOnce == algorithm = "arbitrages" => A!OpensAndClosesOnce

(* get_arbitrages leaves no swaps that would make another arbitrage. *)
LeftoversHaveNoRoute == algorithm = "arbitrages" => A!LeftoversHaveNoRoute

(* get_sandwiches finds the sandwiches there are, and nothing else. *)
SandwichesAreExact == algorithm = "sandwiches" => W!SandwichesAreExact

(* get_punk_snipes finds the snipes there are, with the best bid of each. *)
SnipesAreExact == algorithm = "punks" => P!SnipesAreExact

(* get_liquidations reports the outermost calls that liquidate. *)
OutermostAreReported == algorithm = "liquidations" => L!OutermostAreReported

(* get_liquidations counts no debt and no collateral twice. *)
LegsStayApart == algorithm = "liquidations" => L!LegsStayApart

(* The net flows of get_ether_flows and get_dollar_flows are the gains and *)
(* what was undone.                                                        *)
NetFlowsAreGains == algorithm = "token flow" => T!NetFlowsAreGains

(* The price that get_nft_trades reports is what the seller is left with. *)
PriceIsProceeds == algorithm = "nft trades" => N!PriceIsProceeds

(* get_miner_payments has all that the miner gains, and what was undone,   *)
(* once.                                                                   *)
PaymentsAddUp == algorithm = "miner payments" => M!PaymentsAddUp

(* get_classifier finds the classifier by which a call was classified. *)
ClassifierIsFoundAgain == algorithm = "classify" => C!ClassifierIsFoundAgain

(* classify takes transfers for transfers, whoever knows them otherwise. *)
TransfersHaveTheirPayer == algorithm = "classify" => C!TransfersHaveTheirPayer

(* classify lets nobody overrule those who list a contract. *)
ListedContractsAreTheirOwn ==
  algorithm = "classify" => C!ListedContractsAreTheirOwn

(* The files of text_io.py read as their text. *)
ReadsAreTheText == algorithm = "copy" => R!ReadsAreTheText

(* update_summary values a block again at the same or a nearer price. *)
RepeatsComeNearer ==
  [][algorithm = "prices" => D!RepeatIsNearer]_result
=============================================================================
