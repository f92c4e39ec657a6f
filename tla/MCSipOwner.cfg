CONSTANTS
  AAPL = AAPL
  Odd = Odd
  Symbols <- MCSymbols
  Malformed <- MCMalformed
  StrategyIds = {momentum}
  Definitions <- MCDefinitions
  Principals = {desk, lab}
  MaxLease = 2
  MaxDelay = 1
  ReadyTicks = 0
  RefreshTicks = 1
  FiniteRun = TRUE
  MaxCrashes = 1
SPECIFICATION SipSpec
INVARIANT SipTypeOK
PROPERTY QuietRegistryKeepsConnection
PROPERTY RecordableIsStreamed
PROPERTY UnwantedIsDropped
