----------------------------- MODULE ProcessLock -----------------------------
(***************************************************************************)
(* runtime.py, ProcessLock: the lock file that keeps the SIP owner alone   *)
(* (scripts/run_sip_owner.py, main).  It has two layers.  Inside a process *)
(* the class attribute _held, guarded by _guard, names the locked paths;   *)
(* between processes flock or msvcrt.locking on an open handle does.  One  *)
(* path is modelled.  Any call on the file may fail, the close of the      *)
(* exception handler included; any process may be killed at any time, and  *)
(* the operating system frees what a dead process had locked.              *)
(***************************************************************************)
CONSTANTS
  Threads,    \* threads that may enter a ProcessLock of the path
  ProcessOf   \* thread -> its process

ASSUME ProcessLockAssumption == Threads \cap {"nobody", "leaked"} = {}

VARIABLES
  pc,      \* thread -> where it is, see PCs
  held,    \* the processes whose _held contains the path
  filelock,  \* who holds the lock of the file: a thread's open handle, "nobody",
             \* or "leaked": a handle that was dropped without being closed
  broken   \* history: the processes in which a close failed in __enter__

lockVars == <<pc, held, filelock, broken>>

\* out: not in the lock.  marked: path added to _held.  locked: the file is
\* locked, the process id is being written.  in: __enter__ returned.  unwind:
\* an exception is caught, the handle not closed.  clear: the handle is closed
\* or gone, the path still in _held.
PCs == {"out", "marked", "locked", "in", "unwind", "clear"}

LockTypeOK ==
  /\ pc \in [Threads -> PCs]
  /\ held \subseteq {ProcessOf[t] : t \in Threads}
  /\ filelock \in Threads \cup {"nobody", "leaked"}
  /\ broken \subseteq {ProcessOf[t] : t \in Threads}

LockInit ==
  /\ pc = [t \in Threads |-> "out"]
  /\ held = {}
  /\ filelock = "nobody"
  /\ broken = {}

-----------------------------------------------------------------------------
(* __enter__ *)

\* Mistake: a refused thread clears the mark of the one that holds the lock.
MarkOrClear(t) ==
  /\ pc[t] = "out"
  /\ IF ProcessOf[t] \in held
     THEN held' = held \ {ProcessOf[t]} /\ UNCHANGED pc
     ELSE held' = held \cup {ProcessOf[t]} /\ pc' = [pc EXCEPT ![t] = "marked"]
  /\ UNCHANGED <<filelock, broken>>

\* Under _guard: LockUnavailableError if the path is in _held, which changes
\* nothing, else it is added.
Mark(t) ==
  /\ pc[t] = "out"
  /\ ProcessOf[t] \notin held
  /\ held' = held \cup {ProcessOf[t]}
  /\ pc' = [pc EXCEPT ![t] = "marked"]
  /\ UNCHANGED <<filelock, broken>>

\* Mistake: the lock of the file is taken for granted.
LockFileUnchecked(t) ==
  /\ pc[t] = "marked"
  /\ pc' = [pc EXCEPT ![t] = "locked"]
  /\ filelock' = t
  /\ UNCHANGED <<held, broken>>

\* _lock: the file is open and its lock is free.
LockFile(t) ==
  /\ pc[t] = "marked"
  /\ filelock = "nobody"
  /\ filelock' = t
  /\ pc' = [pc EXCEPT ![t] = "locked"]
  /\ UNCHANGED <<held, broken>>

\* The file cannot be opened, or another handle has its lock, or the process
\* id cannot be written although it was locked.
EnterFails(t) ==
  /\ pc[t] \in {"marked", "locked"}
  /\ pc' = [pc EXCEPT ![t] = "unwind"]
  /\ UNCHANGED <<held, filelock, broken>>

Entered(t) ==
  /\ pc[t] = "locked"
  /\ pc' = [pc EXCEPT ![t] = "in"]
  /\ UNCHANGED <<held, filelock, broken>>

\* Mistake: the exception handler forgets the handle.
CloseHandleForgotten(t) ==
  /\ pc[t] = "unwind"
  /\ pc' = [pc EXCEPT ![t] = "clear"]
  /\ UNCHANGED <<held, filelock, broken>>

\* The file of t is closed, and its lock free if t had it.
FreedBy(t) == IF filelock = t THEN "nobody" ELSE filelock

\* handle.close() in the exception handler.
CloseHandle(t) ==
  /\ pc[t] = "unwind"
  /\ pc' = [pc EXCEPT ![t] = "clear"]
  /\ filelock' = FreedBy(t)
  /\ UNCHANGED <<held, broken>>

\* close() flushes what write or flush could not: it raises once more, though
\* the file is closed by then.  The exception leaves __enter__ from within its
\* handler, and _held.discard is skipped.
CloseFails(t) ==
  /\ pc[t] = "unwind"
  /\ pc' = [pc EXCEPT ![t] = "out"]
  /\ filelock' = FreedBy(t)
  /\ broken' = broken \cup {ProcessOf[t]}
  /\ UNCHANGED held

\* _held.discard(self.path) under _guard, the last thing of either path.
Discard(t) ==
  /\ pc[t] = "clear"
  /\ pc' = [pc EXCEPT ![t] = "out"]
  /\ held' = held \ {ProcessOf[t]}
  /\ UNCHANGED <<filelock, broken>>

-----------------------------------------------------------------------------
(* __exit__ *)

Unlock(t) ==
  /\ pc[t] = "in"
  /\ pc' = [pc EXCEPT ![t] = "clear"]
  /\ filelock' = "nobody"
  /\ UNCHANGED <<held, broken>>

\* Unlocking raises: close() is skipped, the finally clause drops the handle.
UnlockFails(t) ==
  /\ pc[t] = "in"
  /\ pc' = [pc EXCEPT ![t] = "clear"]
  /\ filelock' = "leaked"
  /\ UNCHANGED <<held, broken>>

-----------------------------------------------------------------------------
(* The operating system *)

\* The dropped handle is collected, and closed by that.
Collected ==
  /\ filelock = "leaked"
  /\ filelock' = "nobody"
  /\ UNCHANGED <<pc, held, broken>>

\* A process is killed, or ends by an interrupt, which no handler of __enter__
\* catches: its threads, its memory and its locks are gone.
Killed(p) ==
  /\ pc' = [t \in Threads |-> IF ProcessOf[t] = p THEN "out" ELSE pc[t]]
  /\ held' = held \ {p}
  /\ broken' = broken \ {p}
  /\ filelock' = IF filelock \in {t \in Threads : ProcessOf[t] = p}
                 THEN "nobody" ELSE filelock

-----------------------------------------------------------------------------
\* What a thread does by itself once it has begun, up to the with block.
Proceed(t) == LockFile(t) \/ EnterFails(t) \/ Entered(t) \/ CloseHandle(t) \/ Discard(t)

LockNext ==
  \/ \E t \in Threads : \/ Mark(t) \/ Proceed(t) \/ CloseFails(t)
                         \/ Unlock(t) \/ UnlockFails(t)
  \/ \E p \in {ProcessOf[t] : t \in Threads} : Killed(p)
  \/ Collected

\* Threads run and dropped handles are collected.  Nobody has to try, nor to
\* leave the with block.
LockSpec ==
  /\ LockInit
  /\ [][LockNext]_lockVars
  /\ \A t \in Threads : WF_lockVars(Proceed(t))
  /\ WF_lockVars(Collected)

-----------------------------------------------------------------------------
Inside == {t \in Threads : pc[t] = "in"}

Lock == INSTANCE Mutex WITH inside <- Inside

\* Two SIP owners never run at once, whatever fails or dies in whichever
\* order: ProcessLock implements a mutual exclusion (run_sip_owner.py:277).
ImplementsMutex == Lock!MutexSpec

\* The mark in _held stands for one thread of the process, which is on its way
\* in, inside or on its way out: no refusal, failure or kill adds a second one or
\* takes away another's mark.  Only a close that fails while __enter__ fails leaves
\* a mark behind; that process then never enters again, though the lock is free.
\* (runtime.py:27-30, 48-53, 90-94)
MarkHasOneThread ==
  \A p \in {ProcessOf[t] : t \in Threads} :
    LET busy == {t \in Threads : ProcessOf[t] = p /\ pc[t] # "out"}
    IN  /\ p \in held <=> busy # {} \/ p \in broken
        /\ p \in broken => busy = {}
        /\ \A t, u \in busy : t = u

\* The lock of the file is given back: once taken it is some day free, or belongs to
\* a thread inside the with block.  No failure or kill, at any place, keeps other
\* processes out.  (runtime.py:48-53, 77-94)
LockIsReturned == (filelock # "nobody") ~> (filelock = "nobody" \/ filelock \in Inside)
=============================================================================
