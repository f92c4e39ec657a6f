CONSTANTS
  Threads = {t1, t2}
  Ids = {entry, close}
  MaxFaults = 2
SPECIFICATION PaperSpec
INVARIANT PaperTypeOK
INVARIANT ConfirmedIsPlaced
PROPERTY DuplicateIsNoFailure
PROPERTY RetryIsConfirmed
