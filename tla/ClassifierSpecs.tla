---------------------------- MODULE ClassifierSpecs ----------------------------
(***************************************************************************)
(* classifiers/specs: which contracts' calls are understood, by which ABI, *)
(* and which functions of an ABI have a classifier.                        *)
(*                                                                         *)
(* Contracts stand for the addresses that a spec lists; Anywhere is no     *)
(* list at all.  A contract that only one spec lists has its ABI's name.   *)
(* A function stands for its signature.  A classifier is its class; what a *)
(* class makes of the call is in other modules.                            *)
(***************************************************************************)
EXTENDS Integers, Sequences

Anywhere == {"*"}

ClassifierSpec(abi, protocol, contracts, classifiers) ==
  [abi |-> abi, protocol |-> protocol, contracts |-> contracts,
   classifiers |-> classifiers]

(* Specs without classifiers, and classifiers that all are of one class. *)
Nothing == [f \in {} |-> ""]
All(functions, class) == [f \in functions |-> class]

PlainSpecs(abis, protocol) ==
  [i \in DOMAIN abis |-> ClassifierSpec(abis[i], protocol, {abis[i]}, Nothing)]

GeneralSpecs(abis, protocol) ==
  [i \in DOMAIN abis |-> ClassifierSpec(abis[i], protocol, Anywhere, Nothing)]

Transfers == {"transfer", "transferFrom"}

-----------------------------------------------------------------------------
ERC20_SPEC ==
  ClassifierSpec("ERC20", "none", Anywhere,
                 All(Transfers, "ERC20TransferClassifier"))

WETH_SPEC ==
  ClassifierSpec("WETH9", "weth", {"weth"},
                 All(Transfers, "WethTransferClassifier"))

(* The pools of coins that are lent out can be paid in what they stand for.*)
CurvePool(abi, functions) ==
  ClassifierSpec(abi, "curve", {abi}, All(functions, "CurveSwapClassifier"))

Plain(abi) == CurvePool(abi, {"exchange"})
Lending(abi) == CurvePool(abi, {"exchange", "exchange_underlying"})
Lendings(abis) == [i \in DOMAIN abis |-> Lending(abis[i])]

CURVE_BASE_POOLS ==
  PlainSpecs(<<"CurveTokenV1", "CurveTokenV2", "CurveTokenV3", "CurveTokenV4">>,
             "curve") \o
  <<Plain("StableSwap3Pool"), Lending("StableSwapAAVE"),
    Plain("StableSwapAETH"), Lending("StableSwapBUSD"), Lending("StableSwapCompound"),
    Plain("StableSwapEURS"), Plain("StableSwaphBTC"),
    Lending("StableSwapIronBank"), Plain("StableSwapLink"),
    Lending("StableSwapPAX"), Plain("StableSwaprenBTC"),
    Plain("StableSwaprETH"), Lending("StableSwapsAAVE"),
    Plain("StableSwapsBTC"), Plain("StableSwapsETH"),
    Plain("StableSwapstETH"), Lending("StableSwapsUSD"),
    Lending("StableSwapUSDT"), Lending("StableSwapY"),
    Lending("StableSwapYv2")>>
  \o PlainSpecs(<<"DepositBUSD", "DepositCompound", "DepositPAX", "DepositsUSD",
                  "DepositTriCrypto", "DepositUSDT", "DepositY">>, "curve")

(* Two ABIs come a second time, with other contracts. *)
CURVE_META_POOLS ==
  <<ClassifierSpec("CurveTokenV2", "curve", {"MetaTokenV2"}, Nothing),
    ClassifierSpec("CurveTokenV3", "curve", {"MetaTokenV3"}, Nothing)>>
  \o PlainSpecs(<<"DepositbBTC", "DepositDUSD", "DepositGUSD", "DepositHUSD",
                  "DepositLinkUSD", "DepositMUSD", "DepositoBTC", "DepositpBTC",
                  "DepositRSV", "DeposittBTC", "DepositUSD", "DepositUST">>,
                "curve")
  \o Lendings(<<"StableSwapbBTC", "StableSwapDUSD", "StableSwapGUSD",
                "StableSwapHUSD", "StableSwapLinkUSD", "StableSwapMUSD",
                "StableSwapoBTC", "StableSwappBTC", "StableSwapRSV",
                "StableSwaptBTC", "StableSwapUSD", "StableSwapUSDP",
                "StableSwapUST">>)

UNISWAP_V3_CONTRACT_SPECS ==
  PlainSpecs(<<"UniswapV3Factory", "Multicall2", "ProxyAdmin", "TickLens",
               "Quoter", "SwapRouter", "NFTDescriptor",
               "NonfungibleTokenPositionDescriptor",
               "TransparentUpgradeableProxy", "NonfungiblePositionManager",
               "V3Migrator">>, "uniswap_v3")

UNISWAP_V3_GENERAL_SPECS ==
  <<ClassifierSpec("UniswapV3Pool", "uniswap_v3", Anywhere,
         All({"swapV3"}, "UniswapV3SwapClassifier"))>>
  \o GeneralSpecs(<<"IUniswapV3SwapCallback", "IUniswapV3MintCallback",
                    "IUniswapV3FlashCallback">>, "none")

UNISWAPPY_V2_CONTRACT_SPECS ==
  <<ClassifierSpec("UniswapV2Router", "uniswap_v2", {"UniswapV2Router02"}, Nothing),
    ClassifierSpec("UniswapV2Router", "sushiswap", {"SushiswapV2Router02"}, Nothing)>>

UNISWAPPY_V2_PAIR_SPEC ==
  ClassifierSpec("UniswapV2Pair", "uniswap_v2", Anywhere,
       All({"swapV2"}, "UniswapV2SwapClassifier"))

AAVE_CLASSIFIER_SPECS ==
  <<ClassifierSpec("AaveLendingPool", "aave", Anywhere,
         All({"liquidationCall"}, "AaveLiquidationClassifier")),
    ClassifierSpec("aTokens", "aave", Anywhere,
         All({"transferOnLiquidation"}, "AaveTransferClassifier"))>>

(* etherToken is the WETH contract once more, and the proxy is known by    *)
(* exchangeProxy and by the interface of the orders.                       *)
ZEROX_CONTRACT_SPECS ==
  <<ClassifierSpec("exchangeProxy", "0x", {"exchangeProxy"}, Nothing)>>
  \o PlainSpecs(<<"exchangeProxyAllowanceTarget", "exchangeProxyFlashWallet",
                  "exchangeProxyGovernor",
                  "exchangeProxyLiquidityProviderSandbox",
                  "exchangeProxyTransformerDeployer", "wethTransformer",
                  "payTakerTransformer", "fillQuoteTransformer",
                  "affiliateFeeTransformer", "staking", "stakingProxy",
                  "zrxToken", "zrxVault", "devUtils">>, "0x")
  \o <<ClassifierSpec("etherToken", "0x", {"weth"}, Nothing),
       ClassifierSpec("erc20BridgeSampler", "0x", {"erc20BridgeSampler"}, Nothing)>>

LimitOrders == {"fillLimitOrder", "fillOrKillLimitOrder", "_fillLimitOrder"}
RfqOrders == {"fillRfqOrder", "_fillRfqOrder"}

ZEROX_GENERIC_SPECS ==
  GeneralSpecs(<<"IBatchFillNativeOrdersFeature", "IFeature",
                 "IFundRecoveryFeature", "ILiquidityProviderFeature",
                 "IMetaTransactionsFeature", "IMultiplexFeature">>, "0x")
  \o <<ClassifierSpec("INativeOrdersFeature", "0x", {"exchangeProxy"},
            All(LimitOrders \cup RfqOrders, "ZeroExSwapClassifier"))>>
  \o GeneralSpecs(<<"IOtcOrdersFeature", "IOwnableFeature",
                    "IPancakeSwapFeature", "ISimpleFunctionRegistryFeature",
                    "ITestSimpleFunctionRegistryFeature",
                    "ITokenSpenderFeature", "ITransformERC20Feature",
                    "IUniswapFeature", "IUniswapV3Feature",
                    "IBootstrapFeature">>, "0x")

BALANCER_V1_SPECS ==
  <<ClassifierSpec("BPool", "balancer_v1", Anywhere,
         All({"swapExactAmountIn", "swapExactAmountOut"},
             "BalancerSwapClassifier"))>>

(* liquidateBorrow has an amount to repay at a CToken, and none at CEther. *)
CEtherSpec(protocol, contracts, class) ==
  ClassifierSpec("CEther", protocol, contracts,
       [liquidateBorrowEther |-> class, seize |-> "SeizeClassifier"])

CTokenSpec(protocol, contracts, class) ==
  ClassifierSpec("CToken", protocol, contracts,
       [liquidateBorrow |-> class, seize |-> "SeizeClassifier"])

COMPOUND_CLASSIFIER_SPECS ==
  <<CEtherSpec("compound_v2", {"cETH"}, "CompoundLiquidationClassifier"),
    CTokenSpec("compound_v2", {"cDAI"}, "CompoundLiquidationClassifier")>>

CREAM_CRETH_SPEC == CEtherSpec("cream", {"crETH"}, "CreamLiquidationClassifier")

(* crETH is in this list as well. *)
CREAM_CTOKEN_SPEC ==
  CTokenSpec("cream", {"crETH", "crDAI"}, "CreamLiquidationClassifier")

CRYPTO_PUNKS_SPEC ==
  ClassifierSpec("cryptopunks", "cryptopunks", {"cryptopunks"},
       [enterBidForPunk |-> "PunkBidClassifier",
        acceptBidForPunk |-> "PunkBidAcceptanceClassifier"])

OPENSEA_SPEC ==
  ClassifierSpec("WyvernExchange", "opensea", {"WyvernExchange"},
       All({"atomicMatch_"}, "OpenseaClassifier"))

BANCOR_NETWORK_SPEC ==
  ClassifierSpec("BancorNetwork", "bancor", {"BancorNetwork"},
       All({"convertByPath"}, "BancorSwapClassifier"))

-----------------------------------------------------------------------------
UNISWAP_CLASSIFIER_SPECS ==
  UNISWAP_V3_CONTRACT_SPECS \o UNISWAPPY_V2_CONTRACT_SPECS
  \o UNISWAP_V3_GENERAL_SPECS \o <<UNISWAPPY_V2_PAIR_SPEC>>

AllAfterWeth ==
  CURVE_BASE_POOLS \o CURVE_META_POOLS \o UNISWAP_CLASSIFIER_SPECS
  \o AAVE_CLASSIFIER_SPECS \o ZEROX_CONTRACT_SPECS \o ZEROX_GENERIC_SPECS
  \o BALANCER_V1_SPECS \o COMPOUND_CLASSIFIER_SPECS
  \o <<CREAM_CRETH_SPEC, CREAM_CTOKEN_SPEC, CRYPTO_PUNKS_SPEC, OPENSEA_SPEC,
       BANCOR_NETWORK_SPEC>>

(* Defect: the special token comes before tokens in general. *)
WethFirst == <<WETH_SPEC, ERC20_SPEC>> \o AllAfterWeth

ALL_CLASSIFIER_SPECS == <<ERC20_SPEC, WETH_SPEC>> \o AllAfterWeth

(* get_classification, a method of the class. *)
Classification(class) ==
  CASE class \in {"ERC20TransferClassifier", "WethTransferClassifier",
                  "AaveTransferClassifier"} -> "transfer"
    [] class \in {"CurveSwapClassifier", "UniswapV3SwapClassifier",
                  "UniswapV2SwapClassifier", "ZeroExSwapClassifier",
                  "BalancerSwapClassifier", "BancorSwapClassifier"} -> "swap"
    [] class \in {"AaveLiquidationClassifier", "CompoundLiquidationClassifier",
                  "CreamLiquidationClassifier"} -> "liquidate"
    [] class = "SeizeClassifier" -> "seize"
    [] class = "PunkBidClassifier" -> "punk_bid"
    [] class = "PunkBidAcceptanceClassifier" -> "punk_accept_bid"
    [] class = "OpenseaClassifier" -> "nft_trade"
    [] OTHER -> "unknown"
=============================================================================
