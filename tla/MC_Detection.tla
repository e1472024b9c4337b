----------------------------- MODULE MC_Detection -----------------------------
(***************************************************************************)
(* An instance of Detection for TLC: all the small inputs of each of its   *)
(* algorithms.                                                             *)
(***************************************************************************)
EXTENDS Detection

-----------------------------------------------------------------------------
(* The trees of traces: four traces of many kinds, five of few.            *)

Node(kind, from, to, token, recipient, pays) ==
  [kind |-> kind, from |-> from, to |-> to, token |-> token,
   recipient |-> recipient, pays |-> pays]

Moves(from, to, token) == Node("transfer", from, to, token, "", FALSE)

FewNodes ==
  {Moves("user", "p", "A"), Moves("p", "user", "B"), Moves("p", "user", "A"),
   Node("pool", "user", "p", "", "user", FALSE)}

ManyNodes ==
  FewNodes \cup
  {Node("eth", "p", "user", "", "", FALSE),
   Node("pool", "user", "p", "", "user", TRUE),
   Node("recipient", "user", "p", "", "user", FALSE),
   Node("other", "user", "x", "", "", FALSE)}

Tree(addresses, nodes) ==
  [i \in DOMAIN nodes |->
     [address |-> addresses[i], kind |-> nodes[i].kind, from |-> nodes[i].from,
      to |-> nodes[i].to, token |-> nodes[i].token,
      recipient |-> nodes[i].recipient, pays |-> nodes[i].pays]]

SmallShapes ==
  {<< <<0>>, <<1>>, <<1, 0>>, <<1, 0, 0>> >>,
   << <<0>>, <<0, 0>>, <<1>>, <<1, 0>> >>,
   << <<>>, <<0>>, <<0, 0>>, <<0, 1>> >>}

LargeShapes ==
  {<< <<0>>, <<0, 0>>, <<1>>, <<1, 0>>, <<1, 0, 0>> >>,
   << <<0>>, <<1>>, <<1, 0>>, <<2>>, <<2, 0>> >>,
   << <<0>>, <<0, 0>>, <<0, 0, 0>>, <<0, 0, 0, 0>>, <<0, 1>> >>}

Trees ==
  {Tree(t[1], t[2]) :
     t \in (SmallShapes \X [1 .. 4 -> ManyNodes])
             \cup (LargeShapes \X [1 .. 5 -> FewNodes])}

-----------------------------------------------------------------------------
(* The swaps of a transaction: four of three tokens, and five that go      *)
(* different ways through four tokens.                                     *)

Leg(pool, from, to, tokenIn, tokenOut, in, out) ==
  [pool |-> pool, from |-> from, to |-> to, tokenIn |-> tokenIn,
   tokenOut |-> tokenOut, amountIn |-> in, amountOut |-> out]

BotLegs(pools, directions) ==
  {Leg(pool, "bot", "bot", d[1], d[2], 1000, 1000) :
     pool \in pools, d \in directions}

(* Pools that pay the next pool. *)
RoutedLegs ==
  {Leg("p", "bot", "q", "A", "B", 1000, 1000),
   Leg("q", "p", "bot", "B", "A", 1000, 1000),
   Leg("q", "p", "r", "B", "C", 1000, 1000),
   Leg("r", "q", "bot", "C", "A", 1000, 1000)}

(* Amounts that differ by a little, and by too much. *)
UnevenLegs ==
  {Leg("r", "bot", "bot", "A", "B", 1000, 1007),
   Leg("r", "bot", "bot", "B", "A", 1014, 1000)}

Templates ==
  BotLegs({"p", "q"}, {<<"A", "B">>, <<"B", "A">>, <<"B", "C">>, <<"C", "A">>})
  \cup RoutedLegs \cup UnevenLegs

Detours ==
  BotLegs({"p"}, {<<"A", "B">>, <<"B", "C">>, <<"C", "D">>})
  \cup BotLegs({"q"}, {<<"B", "D">>, <<"D", "A">>, <<"C", "A">>})

LegLists == [1 .. 4 -> Templates] \cup [1 .. 5 -> Detours]

-----------------------------------------------------------------------------
(* The swaps of a block: four of many kinds, five of few.                  *)

InPool(pool, from, to, tokenIn, tokenOut) ==
  [pool |-> pool, from |-> from, to |-> to, tokenIn |-> tokenIn,
   tokenOut |-> tokenOut]

FewSwaps ==
  {InPool("p", "bot", "bot", "A", "B"), InPool("p", "bot", "bot", "B", "A"),
   InPool("p", "user", "user", "A", "B"), InPool("p", "user", "user", "B", "A"),
   InPool("p", "user", "bot", "A", "B")}

(* Another pool, another token, and swaps that pay or come from a router.  *)
ManySwaps ==
  FewSwaps \cup
  {InPool("q", "bot", "bot", "B", "A"), InPool("p", "user", "user", "A", "C"),
   InPool("p", "user", "router", "A", "B"),
   InPool("p", "router", "user", "B", "A")}

(* Swaps of one transaction are next to each other. *)
InTransactions(list, tx) ==
  [i \in DOMAIN list |->
     [tx |-> tx[i], pool |-> list[i].pool, from |-> list[i].from,
      to |-> list[i].to, tokenIn |-> list[i].tokenIn,
      tokenOut |-> list[i].tokenOut]]

SwapLists ==
  {InTransactions(s[1], s[2]) :
     s \in ([1 .. 4 -> ManySwaps]
              \X {<<1, 2, 3, 4>>, <<1, 1, 2, 3>>, <<1, 2, 2, 3>>, <<1, 2, 3, 3>>})
             \cup ([1 .. 5 -> FewSwaps] \X {<<1, 2, 3, 4, 5>>, <<1, 1, 2, 3, 3>>})}

-----------------------------------------------------------------------------
(* The bids and acceptances of a block: at most one at each of four places.*)

PunkTrace(kind, punk, price, failed) ==
  [kind |-> kind, punk |-> punk, price |-> price, failed |-> failed]

Nothing == PunkTrace("nothing", "", 0, FALSE)

PunkTraces ==
  {PunkTrace("bid", "P", price, FALSE) : price \in 2 .. 4}
  \cup {PunkTrace("accept", "P", price, FALSE) : price \in 1 .. 3}
  \cup {PunkTrace("bid", "Q", 3, FALSE), PunkTrace("accept", "Q", 2, FALSE),
        PunkTrace("bid", "P", 4, TRUE), PunkTrace("accept", "P", 1, TRUE)}

PunkPlaces == {<<1, 1>>, <<1, 2>>, <<2, 1>>, <<3, 1>>}

PunkBlocks ==
  {{[tx |-> p[1], address |-> p[2], kind |-> f[p].kind, punk |-> f[p].punk,
     price |-> f[p].price, failed |-> f[p].failed] :
       p \in {q \in PunkPlaces : f[q] # Nothing}} :
     f \in [PunkPlaces -> PunkTraces \cup {Nothing}]}

-----------------------------------------------------------------------------
(* Calls that liquidate, one below the other or in two transactions.       *)

LoanTrace(kind, from, to, pays, failed) ==
  [kind |-> kind, from |-> from, to |-> to, pays |-> pays, failed |-> failed]

LoanTraces ==
  {LoanTrace("aave", "bot", "market", TRUE, FALSE),
   LoanTrace("aave", "bot", "market", TRUE, TRUE),
   LoanTrace("ceth", "bot", "market", TRUE, FALSE),
   LoanTrace("ceth", "bot", "market", FALSE, FALSE),
   LoanTrace("ctoken", "market", "market", FALSE, FALSE),
   LoanTrace("transfer", "bot", "market", FALSE, FALSE),
   LoanTrace("transfer", "market", "bot", FALSE, FALSE),
   LoanTrace("transfer", "bot", "bot", FALSE, FALSE),
   LoanTrace("seize", "market", "market", FALSE, FALSE)}

LoanBlock(shape, kinds) ==
  [i \in DOMAIN shape |->
     [tx |-> shape[i][1], address |-> shape[i][2], kind |-> kinds[i].kind,
      from |-> kinds[i].from, to |-> kinds[i].to, pays |-> kinds[i].pays,
      failed |-> kinds[i].failed]]

SmallLoans ==
  {<< <<1, <<>>>>, <<1, <<0>>>>, <<1, <<0, 0>>>>, <<1, <<0, 0, 0>>>> >>,
   << <<1, <<0>>>>, <<1, <<0, 0>>>>, <<2, <<>>>>, <<2, <<0>>>> >>}

LargeLoan ==
  << <<1, <<>>>>, <<1, <<0>>>>, <<1, <<0, 0>>>>, <<1, <<0, 1>>>>, <<1, <<1>>>> >>

LoanBlocks ==
  {LoanBlock(b[1], b[2]) :
     b \in (SmallLoans \X [1 .. 4 -> LoanTraces])
            \cup ({LargeLoan} \X [1 .. 5 -> LoanTraces])}

-----------------------------------------------------------------------------
(* What a contract and its proxy do with ETH, WETH and a stablecoin.       *)

Payment(type, from, to, amount) ==
  [type |-> type, from |-> from, to |-> to, amount |-> amount,
   reverted |-> FALSE, method |-> "", src |-> "", dst |-> "", sum |-> 0]

TokenCall(token, from, method, src, dst) ==
  [type |-> "call", from |-> from, to |-> token, amount |-> 0,
   reverted |-> FALSE, method |-> method, src |-> src, dst |-> dst, sum |-> 3]

Reverted(t) == [t EXCEPT !.reverted = TRUE]

FlowTraces ==
  {Payment("call", a[1], a[2], 1) :
     a \in {<<"user", "bot">>, <<"bot", "user">>, <<"bot", "proxy">>,
            <<"weth", "bot">>, <<"bot", "weth">>, <<"proxy", "user">>}}
  \cup
  {Payment("delegatecall", "bot", "proxy", 1), Payment("suicide", "user", "bot", 2),
   Payment("suicide", "bot", "user", 2), Payment("create", "user", "bot", 1)}
  \cup
  {TokenCall(token, a[1], a[2], a[3], a[4]) :
     token \in {"weth", "usd"},
     a \in {<<"bot", "transfer", "", "user">>, <<"user", "transfer", "", "bot">>,
            <<"bot", "transferFrom", "user", "bot">>,
            <<"user", "transferFrom", "proxy", "user">>,
            <<"bot", "transferFrom", "user", "user">>,
            <<"bot", "transfer", "", "proxy">>, <<"bot", "balanceOf", "", "user">>}}
  \cup
  {[TokenCall(token, "user", "transfer", "", "bot") EXCEPT !.type = "delegatecall"] :
     token \in {"weth", "usd"}}
  \cup
  {Reverted(Payment("call", "user", "bot", 1)),
   Reverted(Payment("call", "bot", "weth", 1)),
   Reverted(Payment("suicide", "bot", "user", 2)),
   Reverted(TokenCall("weth", "bot", "transfer", "", "user")),
   Reverted(TokenCall("usd", "user", "transfer", "", "bot"))}

(* What the WETH contract and nobody do, in two traces only. *)
FlowInputs ==
  {<<f[1], f[2]>> :
     f \in ({"bot", "router"} \X [1 .. 3 -> FlowTraces])
            \cup ({"weth", ""} \X [1 .. 2 -> FlowTraces])}

-----------------------------------------------------------------------------
(* A sale of a token of a collection, its payment and its fees.            *)

SaleTrace(kind, from, to, token, amount) ==
  [kind |-> kind, from |-> from, to |-> to, token |-> token, amount |-> amount,
   buyer |-> "buyer", seller |-> "seller", collection |-> "art"]

SaleTraces ==
  {SaleTrace("match", "", "", "", 0), SaleTrace("other", "", "", "", 0),
   SaleTrace("transfer", "seller", "buyer", "art", 7),
   SaleTrace("transfer", "buyer", "seller", "eth", 100),
   SaleTrace("transfer", "exchange", "seller", "eth", 90),
   SaleTrace("transfer", "seller", "exchange", "eth", 10),
   SaleTrace("transfer", "buyer", "exchange", "eth", 5)}

SaleShapes ==
  {<< <<>>, <<0>>, <<1>>, <<2>>, <<3>> >>,
   << <<0>>, <<0, 0>>, <<0, 0, 0>>, <<0, 1>>, <<1>> >>,
   << <<>>, <<0>>, <<0, 0>>, <<0, 1>>, <<1>> >>}

Sales ==
  {[i \in 1 .. 5 |->
      [tx |-> 1, address |-> shape[i], kind |-> f[i].kind, from |-> f[i].from,
       to |-> f[i].to, token |-> f[i].token, amount |-> f[i].amount,
       buyer |-> f[i].buyer, seller |-> f[i].seller,
       collection |-> f[i].collection]] :
     shape \in SaleShapes, f \in [1 .. 5 -> SaleTraces]}

-----------------------------------------------------------------------------
(* Three receipts, two with traces, which come in several orders.          *)

Call(from, to, amount, plain) ==
  [from |-> from, to |-> to, amount |-> amount, plain |-> plain,
   reverted |-> FALSE]

MinerCalls ==
  {Call("bot", "miner", 3, TRUE), Call("bot", "miner", 0, TRUE),
   Call("bot", "miner", 3, FALSE), Call("user", "bot", 2, TRUE),
   Call("miner", "user", 2, TRUE), Reverted(Call("bot", "miner", 3, TRUE)),
   Reverted(Call("user", "miner", 4, TRUE))}

CallOrders ==
  {<< <<1, <<>>>>, <<1, <<0>>>>, <<1, <<1>>>>, <<2, <<>>>> >>,
   << <<2, <<>>>>, <<1, <<0, 1>>>>, <<1, <<0>>>>, <<1, <<>>>> >>}

MinerBlocks ==
  {<< <<[tx |-> 2, gas |-> 2, price |-> 5], [tx |-> 3, gas |-> 1, price |-> 5],
        [tx |-> 1, gas |-> gas, price |-> 7]>>,
      [i \in 1 .. 4 |->
         [tx |-> order[i][1], address |-> order[i][2], from |-> f[i].from,
          to |-> f[i].to, amount |-> f[i].amount, plain |-> f[i].plain,
          reverted |-> f[i].reverted]] >> :
     gas \in {0, 4}, order \in CallOrders, f \in [1 .. 4 -> MinerCalls]}

-----------------------------------------------------------------------------
(* Calls of all functions, to contracts that one spec, two or none list.   *)

Classified ==
  {"transfer", "transferFrom", "exchange", "exchange_underlying", "swapV3",
   "swapV2", "liquidationCall", "transferOnLiquidation", "fillLimitOrder",
   "_fillRfqOrder", "swapExactAmountIn", "liquidateBorrow",
   "liquidateBorrowEther", "seize", "enterBidForPunk", "acceptBidForPunk",
   "atomicMatch_", "convertByPath"}

(* Functions without a classifier that several ABIs have, that only one    *)
(* has, and that none has.                                                 *)
Others ==
  {"approve", "allowance", "increaseAllowance", "balanceOf", "totalSupply",
   "decimals", "symbol", "name", "DOMAIN_SEPARATOR", "getReserves", "token0",
   "factory", "fee", "uniswapV3SwapCallback", "uniswapV3MintCallback", "owner",
   "transferOwnership", "deposit", "borrow", "WyvernExchange", "BancorNetwork",
   "CurveTokenV2", "CToken", "UniswapV3Pool", "IOwnableFeature",
   "exchangeProxy", "someOther"}

Contracts ==
  {"weth", "cETH", "cDAI", "crETH", "crDAI", "exchangeProxy", "zrxToken",
   "StableSwap3Pool", "StableSwapUST", "CurveTokenV2", "CurveTokenV4",
   "MetaTokenV2", "DepositY", "UniswapV2Router02", "Quoter", "ProxyAdmin",
   "NonfungiblePositionManager", "zrxVault", "cryptopunks", "WyvernExchange",
   "BancorNetwork", "anyOther"}

CallOf(contract, function, fits, caller) ==
  [type |-> "call", to |-> contract, function |-> function, fits |-> fits,
   from |-> caller, src |-> "payer", dst |-> "payee"]

CalledTraces ==
  {CallOf(contract, function, TRUE, caller) :
     contract \in Contracts, function \in Classified, caller \in {"payer", "spender"}}
  \cup
  {CallOf(contract, function, TRUE, "payer") :
     contract \in Contracts, function \in Others}
  \cup
  {CallOf(contract, function, FALSE, "payer") :
     contract \in {"weth", "anyOther"}, function \in Classified}
  \cup
  {[type |-> type, to |-> "", function |-> "", fits |-> FALSE, from |-> "",
    src |-> "", dst |-> ""] : type \in {"create", "suicide", "reward"}}

-----------------------------------------------------------------------------
(* Texts of up to four chunks, which may be empty.                         *)

EndsOf(lengths) ==
  LET end[i \in 0 .. Len(lengths)] ==
        IF i = 0 THEN 0 ELSE end[i - 1] + lengths[i]
  IN  [i \in DOMAIN lengths |-> end[i]]

SmallTexts ==
  {EndsOf(lengths) : lengths \in UNION {[1 .. n -> 0 .. 3] : n \in 0 .. 4}}

-----------------------------------------------------------------------------
(* What the market may say of a token on three days, the block's being the *)
(* second: nothing, more every day, another price for the first or second. *)

On(time, usd) == [time |-> time, usd |-> usd]

MarketAnswers ==
  {{}, {On(1, 5)}, {On(1, 6)}, {On(1, 5), On(2, 5)}, {On(1, 5), On(2, 6)},
   {On(1, 6), On(2, 6), On(3, 7)}}

-----------------------------------------------------------------------------
(* ETH and the token of the profit. *)
TokenList == <<"ETH", "A">>
=============================================================================
