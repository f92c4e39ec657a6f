CONSTANTS
  AAPL = AAPL
  Odd = Odd
  Symbols <- MCSymbols
  Malformed <- MCMalformed
  StrategyIds = {momentum}
  Definitions <- MCOddDefinitions
  Principals = {desk}
  MaxLease = 2
  MaxDelay = 1
  ReadyTicks = 0
  RefreshTicks = 1
  FiniteRun = FALSE
  MaxCrashes = 1
SPECIFICATION SipSpec
PROPERTY WantedIsStreamed
