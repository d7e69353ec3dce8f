SPECIFICATION Spec
CONSTANTS
  MaxAttempts = 3
  Symbols <- MCSymbols
  MaxBarPages = 1
  MaxNewsPages = 1
  CandidateCap = 2
  IndexReplies <- MCIndexReplies
  BarReplies <- MCBarReplies
  NewsReplies <- MCNewsReplies
  ChainReplies <- MCChainReplies
  PositionSets <- MCPositionSets
  HandedIn <- MCHandedIn
  StockReplies <- MCStockReplies
  MarketReplies <- MCMarketReplies
  NewsVerdicts <- MCNewsVerdicts
  Replaced = {"portfolio", "options"}
  MaxFaults = 1
  LastCrash = 2
CHECK_DEADLOCK FALSE
INVARIANTS
  RunsTellTheContext
  GivesUpForACause
  NewsOfHoldings
  BestOfAWholeChain
