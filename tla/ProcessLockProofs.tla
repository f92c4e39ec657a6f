-------------------------- MODULE ProcessLockProofs --------------------------
(***************************************************************************)
(* TLAPS proofs about ProcessLock, for any threads and processes: it       *)
(* implements Mutex.  The argument: whoever is past LockFile and has not   *)
(* left holds the lock of the file, and one thread at a time can.          *)
(***************************************************************************)
EXTENDS ProcessLock, TLAPS

USE ProcessLockAssumption

Processes == {ProcessOf[t] : t \in Threads}

\* Whoever relies on the lock of the file has it, and whoever has it is still
\* on a path that gives it back.
FileLockInv ==
  /\ \A t \in Threads : pc[t] \in {"locked", "in"} => filelock = t
  /\ \A t \in Threads : filelock = t => pc[t] \in {"locked", "in", "unwind"}

\* MarkHasOneThread, thread by thread.
MarkInv ==
  /\ \A t \in Threads : pc[t] # "out" => ProcessOf[t] \in held \ broken
  /\ \A p \in held \ broken : \E t \in Threads : ProcessOf[t] = p /\ pc[t] # "out"
  /\ broken \subseteq held
  /\ \A t, u \in Threads :
       pc[t] # "out" /\ pc[u] # "out" /\ ProcessOf[t] = ProcessOf[u] => t = u

LockIInv == LockTypeOK /\ FileLockInv /\ MarkInv

-----------------------------------------------------------------------------
LEMMA InitHasInv == LockInit => LockIInv
BY DEF LockInit, LockIInv, LockTypeOK, PCs, FileLockInv, MarkInv

\* One step of one thread.
LEMMA ThreadKeepsInv ==
  ASSUME LockIInv, NEW t \in Threads,
         Mark(t) \/ Proceed(t) \/ CloseFails(t) \/ Unlock(t) \/ UnlockFails(t)
  PROVE  LockIInv'
<1> USE DEF LockIInv
<1>1. LockTypeOK'
  BY DEF LockTypeOK, PCs, Mark, Proceed, LockFile, EnterFails, Entered, CloseHandle,
         CloseFails, FreedBy, Discard, Unlock, UnlockFails
<1>2. /\ pc \in [Threads -> PCs]
      /\ \A u \in Threads : u # "nobody" /\ u # "leaked"
  BY DEF LockTypeOK
<1>3. CASE Mark(t)
  BY <1>1, <1>2, <1>3 DEF Mark, FileLockInv, MarkInv
<1>4. CASE LockFile(t)
  BY <1>1, <1>2, <1>4 DEF LockFile, FileLockInv, MarkInv
<1>5. CASE EnterFails(t)
  BY <1>1, <1>2, <1>5 DEF EnterFails, FileLockInv, MarkInv
<1>6. CASE Entered(t)
  BY <1>1, <1>2, <1>6 DEF Entered, FileLockInv, MarkInv
<1>7. CASE CloseHandle(t)
  BY <1>1, <1>2, <1>7 DEF CloseHandle, FreedBy, FileLockInv, MarkInv
<1>8. CASE Discard(t)
  BY <1>1, <1>2, <1>8 DEF Discard, FileLockInv, MarkInv
<1>9. CASE Unlock(t)
  BY <1>1, <1>2, <1>9 DEF Unlock, FileLockInv, MarkInv
<1>10. CASE UnlockFails(t)
  BY <1>1, <1>2, <1>10 DEF UnlockFails, FileLockInv, MarkInv
<1>11. CASE CloseFails(t)
  <2>1. FileLockInv'
    BY <1>1, <1>2, <1>11 DEF CloseFails, FreedBy, FileLockInv
  <2>2. MarkInv'
    BY <1>1, <1>2, <1>11 DEF CloseFails, MarkInv
  <2> QED
    BY <1>1, <2>1, <2>2
<1> QED
  BY <1>3, <1>4, <1>5, <1>6, <1>7, <1>8, <1>9, <1>10, <1>11 DEF Proceed

LEMMA KilledKeepsInv ==
  ASSUME LockIInv, NEW p \in Processes, Killed(p)
  PROVE  LockIInv'
<1>1. LockTypeOK'
  BY DEF LockIInv, LockTypeOK, PCs, Killed
<1>2. \A t \in Threads : pc'[t] = IF ProcessOf[t] = p THEN "out" ELSE pc[t]
  BY DEF Killed
<1>3. FileLockInv'
  BY <1>2 DEF LockIInv, FileLockInv, Killed
<1>4. MarkInv'
  BY <1>2 DEF LockIInv, MarkInv, Killed
<1> QED
  BY <1>1, <1>3, <1>4 DEF LockIInv

LEMMA NextKeepsInv ==
  ASSUME LockIInv, [LockNext]_lockVars
  PROVE  LockIInv'
<1>1. ASSUME NEW t \in Threads,
             Mark(t) \/ Proceed(t) \/ CloseFails(t) \/ Unlock(t) \/ UnlockFails(t)
      PROVE  LockIInv'
  BY <1>1, ThreadKeepsInv
<1>2. ASSUME NEW p \in Processes, Killed(p)
      PROVE  LockIInv'
  BY <1>2, KilledKeepsInv
<1>3. CASE Collected
  BY <1>3 DEF Collected, LockIInv, LockTypeOK, FileLockInv, MarkInv
<1>4. CASE UNCHANGED lockVars
  BY <1>4 DEF lockVars, LockIInv, LockTypeOK, FileLockInv, MarkInv
<1> QED
  BY <1>1, <1>2, <1>3, <1>4 DEF LockNext, Processes

\* The mark, the lock of the file and the place of every thread fit together.
THEOREM LockInvariant == LockSpec => []LockIInv
BY InitHasInv, NextKeepsInv, PTL DEF LockSpec

\* The variables of the lock keep their types.
THEOREM LockTypeCorrect == LockSpec => []LockTypeOK
<1>1. LockIInv => LockTypeOK
  BY DEF LockIInv
<1> QED
  BY <1>1, LockInvariant, PTL

\* A mark in _held stands for one thread, after every refusal, failure and kill,
\* or is what a close that failed has left, and then shuts its process out
\* (runtime.py:27-30, 48-53, 90-94).
THEOREM MarkAlwaysHasOneThread == LockSpec => []MarkHasOneThread
<1>1. LockIInv => MarkHasOneThread
  BY DEF LockIInv, MarkInv, MarkHasOneThread
<1> QED
  BY <1>1, LockInvariant, PTL

\* A file that is locked has a holder on a path that gives it back: inside the with
\* block, on its way in or out after a failure, or a handle that waits to be collected.
\* No mark, refusal or kill leaves a lock that nobody returns (runtime.py:25-53, 72-94);
\* LockIsReturned adds that the holders move.
LockHasAHolder ==
  filelock # "nobody" =>
    \/ filelock = "leaked"
    \/ filelock \in Threads /\ pc[filelock] \in {"locked", "in", "unwind"}

THEOREM LockAlwaysHasAHolder == LockSpec => []LockHasAHolder
<1>1. LockIInv => LockHasAHolder
  BY DEF LockIInv, LockTypeOK, FileLockInv, LockHasAHolder
<1> QED
  BY <1>1, LockInvariant, PTL

-----------------------------------------------------------------------------
(* The refinement *)

LEMMA StepRefinesMutex ==
  ASSUME LockIInv, [LockNext]_lockVars
  PROVE  [Lock!MutexNext]_Inside
<1>1. \A t \in Inside : t \in Threads /\ filelock = t
  BY DEF Inside, LockIInv, FileLockInv
<1>2. pc \in [Threads -> PCs]
  BY DEF LockIInv, LockTypeOK
<1>3. ASSUME NEW t \in Threads, Entered(t)
      PROVE  Lock!Enter(t)
  <2>1. filelock = t /\ t \notin Inside
    BY <1>3 DEF Entered, LockIInv, FileLockInv, Inside
  <2>2. Inside = {}
    BY <1>1, <2>1
  <2>3. Inside' = {t}
    BY <1>2, <1>3, <2>2 DEF Entered, Inside
  <2> QED
    BY <2>2, <2>3 DEF Lock!Enter
<1>4. ASSUME NEW t \in Threads, Unlock(t) \/ UnlockFails(t)
      PROVE  Lock!Leave
  <2>1. t \in Inside
    BY <1>4 DEF Unlock, UnlockFails, Inside
  <2>2. Inside' = {}
    BY <1>1, <1>2, <1>4, <2>1 DEF Unlock, UnlockFails, Inside
  <2> QED
    BY <2>2 DEF Lock!Leave
<1>5. ASSUME NEW t \in Threads,
             \/ Mark(t) \/ LockFile(t) \/ EnterFails(t)
             \/ CloseHandle(t) \/ CloseFails(t) \/ Discard(t)
      PROVE  UNCHANGED Inside
  BY <1>2, <1>5 DEF Mark, LockFile, EnterFails, CloseHandle, CloseFails, Discard, Inside
<1>6. ASSUME NEW p \in Processes, Killed(p)
      PROVE  Inside' = Inside \/ Lock!Leave
  <2>1. Inside' \subseteq Inside
    BY <1>6 DEF Killed, Inside
  <2>2. \A t, u \in Inside : t = u
    BY <1>1
  <2> QED
    BY <2>1, <2>2 DEF Lock!Leave
<1>7. CASE Collected \/ UNCHANGED lockVars
  BY <1>7 DEF Collected, lockVars, Inside
<1> QED
  BY <1>3, <1>4, <1>5, <1>6, <1>7 DEF LockNext, Proceed, Lock!MutexNext, Processes

\* One thread of one process at a time is inside the with block, so that one
\* SIP owner at most runs (run_sip_owner.py:277-278).
THEOREM LockImplementsMutex == LockSpec => ImplementsMutex
<1>1. LockInit => Lock!MutexInit
  BY DEF LockInit, Lock!MutexInit, Inside
<1>2. LockIInv /\ [LockNext]_lockVars => [Lock!MutexNext]_Inside
  BY StepRefinesMutex
<1> QED
  BY <1>1, <1>2, LockInvariant, PTL DEF LockSpec, ImplementsMutex, Lock!MutexSpec
=============================================================================
