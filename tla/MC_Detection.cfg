CONSTANTS
  SwapTransactions <- Trees
  LegTransactions <- LegLists
  BlockSwaps <- SwapLists
  SandwichRouters = {"router"}
  BidBlocks <- PunkBlocks
  LiquidationBlocks <- LoanBlocks
  FlowTransactions <- FlowInputs
  Weth = "weth"
  Stablecoins = {"usd"}
  FlowRouters = {"router"}
  SaleTransactions <- Sales
  ExchangeWallet = "exchange"
  PaidBlocks <- MinerBlocks
  Miner = "miner"
  CallTraces <- CalledTraces
  Texts <- SmallTexts
  Sizes = {1, 2, 5}
  Tokens <- TokenList
  Profit = "A"
  Ether = "ETH"
  BlockTime = 2
  Series <- MarketAnswers
SPECIFICATION Spec
CHECK_DEADLOCK FALSE
INVARIANTS
  InnerTransfersDoNotMatter
  SwapsStayApart
  RoutesAreShortest
  OpensAndClosesOnce
  LeftoversHaveNoRoute
  SandwichesAreExact
  SnipesAreExact
  OutermostAreReported
  LegsStayApart
  NetFlowsAreGains
  PriceIsProceeds
  PaymentsAddUp
  ClassifierIsFoundAgain
  TransfersHaveTheirPayer
  ListedContractsAreTheirOwn
  ReadsAreTheText
PROPERTY RepeatsComeNearer
