CONSTANTS
  AAPL = AAPL
  MSFT = MSFT
  Symbols <- MCSymbols
  Malformed = {}
  StrategyIds = {momentum}
  Definitions <- MCDefinitions
  Principals = {desk}
  MaxLease = 1
  MaxDelay = 1
  ReadyTicks = 1
  RefreshTicks = 1
  FiniteRun = TRUE
  MaxCrashes = 1
SPECIFICATION ReadySpec
VIEW MCView
INVARIANT RowNamesTheStream
INVARIANT ConnectedRowIsThisWindow
PROPERTY ReadyOnlyWhenAnswered
PROPERTY DeadOwnerIsNoticed
