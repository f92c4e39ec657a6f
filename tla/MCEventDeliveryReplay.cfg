CONSTANTS
  quote = quote
  later = later
  bar = bar
  other = other
  client = client
  Events <- MCEvents
  SymbolOf <- MCSymbolOf
  TsOf <- MCTsOf
  Clients = {client}
  Wants <- MCWants
  ReplayTimes = {0, 2}
  PageLimit = 2
  MaxFailures = 2
SPECIFICATION DeliverySpec
INVARIANT StartCoversReplay
