---------------------------- MODULE MCProcessLock ----------------------------
(* Two threads of one process and one thread of another.                     *)
EXTENDS ProcessLock, TLC

CONSTANTS main, worker, second, p1, p2

MCThreads == {main, worker, second}
MCProcessOf == main :> p1 @@ worker :> p1 @@ second :> p2
=============================================================================
