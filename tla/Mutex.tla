-------------------------------- MODULE Mutex --------------------------------
(***************************************************************************)
(* What ProcessLock promises: at most one thread of any process is inside  *)
(* the with block at a time.  A thread that dies inside has left it.       *)
(***************************************************************************)
CONSTANT Threads

VARIABLE inside   \* the threads inside, one at most

MutexInit == inside = {}

Enter(t) == inside = {} /\ inside' = {t}
Leave == inside' = {}

MutexNext == (\E t \in Threads : Enter(t)) \/ Leave

MutexSpec == MutexInit /\ [][MutexNext]_inside
=============================================================================
