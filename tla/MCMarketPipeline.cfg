CONSTANTS
  quote = quote
  later = later
  fresh = fresh
  bar = bar
  client = client
  Events <- MCEvents
  SymbolOf <- MCSymbolOf
  TsOf <- MCTsOf
  KindOf <- MCKindOf
  ArrivesAt <- MCArrivesAt
  Second = 2
  Versions = {}
  StrategyOf <- NoStrategy
  SymbolsOf <- NoStrategy
  NeedsOf <- NoStrategy
  MaxBreaks = 1
  Clients = {client}
  Wants <- MCWants
  ReplayTimes = {2}
  PageLimit = 2
  MaxFailures = 2
SPECIFICATION PipelineSpec
INVARIANT CursorIsHonest
INVARIANT OnlyOvertakenAreLeftOut
PROPERTY ImplementsFeed
PROPERTY EverythingArrives
PROPERTY QuotesReachInOrder
