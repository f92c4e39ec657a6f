CONSTANTS
  main = main
  worker = worker
  second = second
  p1 = p1
  p2 = p2
  Threads <- MCThreads
  ProcessOf <- MCProcessOf
SPECIFICATION LockSpec
INVARIANT MarkHasOneThread
PROPERTY ImplementsMutex
PROPERTY LockIsReturned
