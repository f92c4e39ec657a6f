CONSTANTS
  FirstWeekday = 0
  Symbols = {"AAPL", "MSFT"}
  Rows <- MCRows
  Instants <- MCInstants
  NoTime = NoTime
  Requests <- MCRequests
  Nothing = Nothing
SPECIFICATION HistorySpec
INVARIANT HistoryTypeOK
INVARIANT GapsAreReal
INVARIANT HolesAreReported
