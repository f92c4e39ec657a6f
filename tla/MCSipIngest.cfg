CONSTANTS
  bar = bar
  next = next
  quote = quote
  again = again
  other = other
  fresh = fresh
  momentum = momentum
  revised = revised
  Events <- MCEvents
  SymbolOf <- MCSymbolOf
  TsOf <- MCTsOf
  KindOf <- MCKindOf
  ArrivesAt <- MCArrivesAt
  Second = 2
  Versions = {momentum, revised}
  StrategyOf <- MCStrategyOf
  SymbolsOf <- MCSymbolsOf
  NeedsOf <- MCNeedsOf
  MaxBreaks = 2
SPECIFICATION IngestSpec
INVARIANT IngestTypeOK
INVARIANT QuotesSampledInOrder
INVARIANT DerivedIsStored
INVARIANT ReturnSpansTime
INVARIANT SignalFitsItsEvent
INVARIANT StoredIsDerived
PROPERTY SignalsFollowActivation
