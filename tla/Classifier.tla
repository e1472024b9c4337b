------------------------------- MODULE Classifier -------------------------------
(***************************************************************************)
(* TraceClassifier of classifiers/trace.py: a call is offered to one spec  *)
(* after the other, and the first whose contracts and whose ABI fit it     *)
(* says what it is.  get_classifier finds the classifier again, later on,  *)
(* by what was written into the trace; get_transfer asks it who paid whom. *)
(*                                                                         *)
(* A trace has a type, the contract that is called, the function, from     *)
(* (the caller), src and dst (the arguments that say who pays whom, if     *)
(* there are any), and fits, which says that the arguments can be decoded. *)
(***************************************************************************)
EXTENDS ClassifierSpecs, SequencesExt

CONSTANT
  Traces  \* bound: the traces to look at

VARIABLES
  trace,      \* the trace to classify
  at,         \* the spec that it is offered to
  classified  \* what comes of it

vars == <<trace, at, classified>>

Specs == ALL_CLASSIFIER_SPECS
Outcome(kind, abi, protocol, class) ==
  [kind |-> kind, abi |-> abi, protocol |-> protocol,
   classification |-> Classification(class)]

Pending == Outcome("pending", "none", "none", "none")

-----------------------------------------------------------------------------
(* The ABIs.  A function that is in several of them is named if one of its *)
(* specs lists no contracts, or if two of them list the same; one name     *)
(* stands for several functions of the same ABIs (increaseAllowance and    *)
(* decreaseAllowance, deposit and withdraw, borrow and all that CEther and *)
(* CToken share).  The functions that no other spec can be asked for are   *)
(* one, which has the name of the ABI.                                     *)

TokenAbis ==
  {"ERC20", "WETH9", "CurveTokenV1", "CurveTokenV2", "CurveTokenV3",
   "CurveTokenV4", "UniswapV2Pair", "aTokens", "zrxToken", "etherToken",
   "BPool", "CEther", "CToken"}

NamedTokens == TokenAbis \ {"aTokens"}
Positions == {"NonfungiblePositionManager"}

Owned ==
  {"ProxyAdmin", "exchangeProxyAllowanceTarget",
   "exchangeProxyTransformerDeployer", "staking", "stakingProxy", "zrxVault",
   "IOwnableFeature", "WyvernExchange", "BancorNetwork"}

AbisWith ==
  [transfer |-> TokenAbis,
   transferFrom |-> TokenAbis \cup Positions,
   approve |-> TokenAbis \cup Positions,
   allowance |-> TokenAbis,
   increaseAllowance |-> {"ERC20", "CurveTokenV4"},
   balanceOf |-> TokenAbis \cup Positions \cup {"zrxVault", "cryptopunks"},
   totalSupply |-> TokenAbis \cup Positions \cup {"cryptopunks"},
   decimals |-> NamedTokens \cup {"cryptopunks"},
   symbol |-> NamedTokens \cup Positions \cup {"cryptopunks"},
   name |-> NamedTokens \cup Positions \cup {"cryptopunks", "WyvernExchange"},
   DOMAIN_SEPARATOR |-> Positions \cup {"UniswapV2Pair"},
   getReserves |-> {"UniswapV2Pair", "AaveLendingPool"},
   token0 |-> {"UniswapV3Pool", "UniswapV2Pair"},
   factory |-> Positions \cup {"Quoter", "SwapRouter", "V3Migrator",
                               "UniswapV2Router", "UniswapV3Pool", "UniswapV2Pair"},
   fee |-> {"UniswapV3Pool"},
   uniswapV3SwapCallback |->
     {"Quoter", "SwapRouter", "IUniswapV3SwapCallback", "IUniswapV3Feature"},
   uniswapV3MintCallback |-> Positions \cup {"IUniswapV3MintCallback"},
   owner |-> Owned \cup {"UniswapV3Factory", "exchangeProxyFlashWallet",
                         "exchangeProxyLiquidityProviderSandbox"},
   transferOwnership |-> Owned,
   deposit |-> {"WETH9", "etherToken"},
   borrow |-> {"CEther", "CToken"}]

(* All that is in these is in others as well. *)
NothingElse ==
  {"ERC20", "WETH9", "etherToken", "zrxToken", "IUniswapV3SwapCallback",
   "IUniswapV3MintCallback"}

Abi(spec) ==
  DOMAIN spec.classifiers
  \cup {f \in DOMAIN AbisWith : spec.abi \in AbisWith[f]}
  \cup (IF "exchange" \in DOMAIN spec.classifiers THEN {"fee", "owner"} ELSE {})
  \cup ({spec.abi} \ NothingElse)

(* _decoders_by_abi_name: of specs with one name the last one's is kept. *)
Decoder(name) ==
  Abi(Specs[SelectLastInSeq(Specs, LAMBDA s : s.abi = name)])

Decodes(spec) == trace.fits /\ trace.function \in Decoder(spec.abi)

(* Defect: the addresses that a spec lists are ignored. *)
CoversAll(spec) == spec.contracts # {}

Covers(spec) == spec.contracts = Anywhere \/ trace.to \in spec.contracts

ClassOf(spec, function) ==
  IF function \in DOMAIN spec.classifiers THEN spec.classifiers[function]
                                          ELSE "none"

-----------------------------------------------------------------------------
Init ==
  /\ trace \in Traces
  /\ at = 1
  /\ classified = Pending

Offered ==
  /\ classified = Pending
  /\ trace.type = "call" /\ at \in DOMAIN Specs
  /\ UNCHANGED trace

PassOn ==
  /\ Offered
  /\ ~(Covers(Specs[at]) /\ Decodes(Specs[at]))
  /\ at' = at + 1
  /\ UNCHANGED classified

(* The first spec that can read the call, with a classifier or without. *)
Claim ==
  /\ Offered
  /\ Covers(Specs[at]) /\ Decodes(Specs[at])
  /\ classified' = Outcome("decoded", Specs[at].abi, Specs[at].protocol,
                           ClassOf(Specs[at], trace.function))
  /\ UNCHANGED at

Unclaimed ==
  /\ classified = Pending /\ at > Len(Specs)
  /\ classified' = Outcome("call", "none", "none", "none")
  /\ UNCHANGED <<trace, at>>

(* The block reward belongs to no transaction and is left out. *)
NotACall ==
  /\ classified = Pending /\ trace.type # "call"
  /\ classified' = Outcome(IF trace.type = "reward" THEN "dropped" ELSE "other",
                           "none", "none", "none")
  /\ UNCHANGED <<trace, at>>

Next == PassOn \/ Claim \/ Unclaimed \/ NotACall
Spec == Init /\ [][Next]_vars

-----------------------------------------------------------------------------
(* What the algorithms make of a classified trace.                         *)

(* Defect: the protocol plays no part. *)
FindByAbi(abi, protocol) == SelectLastInSeq(Specs, LAMBDA s : s.abi = abi)

(* _SPECS_BY_ABI_NAME_AND_PROTOCOL: the last one of equals is kept. *)
FindSpec(abi, protocol) ==
  SelectLastInSeq(Specs, LAMBDA s : s.abi = abi /\ s.protocol = protocol)

GetClassifier(t) ==
  IF t.kind # "decoded" THEN "none"
  ELSE ClassOf(Specs[FindSpec(t.abi, t.protocol)], trace.function)

(* The classifiers of transfers; WETH's takes the caller for the payer. *)
TransferOf(t) ==
  LET class == GetClassifier(t)
      ByArgument == trace.function = "transferFrom"
                      \/ class = "AaveTransferClassifier"
  IN  IF Classification(class) # "transfer" THEN <<>>
      ELSE <<IF class = "WethTransferClassifier" \/ ~ByArgument
               THEN trace.from ELSE trace.src, trace.dst>>

-----------------------------------------------------------------------------
(* Properties.                                                             *)

(***************************************************************************)
(* get_classifier gives back the classifier of the spec that claimed the   *)
(* call, although two protocols share ABIs and two specs share both the    *)
(* ABI and the protocol.                                                   *)
(***************************************************************************)
ClassifierIsFoundAgain ==
  classified.kind = "decoded" =>
    /\ GetClassifier(classified) = ClassOf(Specs[at], trace.function)
    /\ Classification(GetClassifier(classified)) = classified.classification

IsTokenTransfer ==
  trace.type = "call" /\ trace.fits /\ trace.function \in Transfers

(***************************************************************************)
(* Every transfer or transferFrom that can be decoded, of whatever         *)
(* contract, is a transfer from the one who pays to the one who is paid:   *)
(* no spec that knows the function and makes nothing or something else of  *)
(* it comes first (the classifier of WETH would name the wrong payer).     *)
(***************************************************************************)
TransfersHaveTheirPayer ==
  IsTokenTransfer /\ classified # Pending =>
    TransferOf(classified) =
      <<IF trace.function = "transfer" THEN trace.from ELSE trace.src, trace.dst>>

(***************************************************************************)
(* No spec without a list of contracts changes what a spec that lists the  *)
(* contract makes of a call.  If such specs classify the function, the     *)
(* call is decoded and gets the protocol and the classification of one of  *)
(* them; if they know the function and do not classify it, the call is     *)
(* decoded and nobody classifies it.  (Transfers are one thing for all     *)
(* contracts.  Of calls without a classification, the name of the ABI and  *)
(* the protocol may be another spec's: owner of WyvernExchange is of 0x,   *)
(* and a token's approve and balanceOf are ERC20's.)                       *)
(***************************************************************************)
ListedContractsAreTheirOwn ==
  LET knowing == {i \in DOMAIN Specs : /\ trace.to \in Specs[i].contracts
                                       /\ trace.function \in Abi(Specs[i])}
      speakers == {i \in knowing : trace.function \in DOMAIN Specs[i].classifiers}
  IN  /\ classified # Pending /\ trace.type = "call" /\ trace.fits
      /\ trace.function \notin Transfers /\ knowing # {}
      => /\ classified.kind = "decoded"
         /\ IF speakers = {} THEN classified.classification = "unknown"
            ELSE \E i \in speakers :
                   /\ classified.protocol = Specs[i].protocol
                   /\ classified.classification
                        = Classification(ClassOf(Specs[i], trace.function))
=============================================================================
