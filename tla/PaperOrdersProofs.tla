-------------------------- MODULE PaperOrdersProofs --------------------------
(***************************************************************************)
(* TLAPS proofs about PaperOrders, for any number of threads and ids.      *)
(***************************************************************************)
EXTENDS PaperOrders, TLAPS

USE PaperAssumption

\* What each step keeps: nobody is confirmed an order that is not there, and an
\* order that is there stays.
PaperIInv == PaperTypeOK /\ ConfirmedIsPlaced

LEMMA PlaceTyped ==
  ASSUME PaperTypeOK, NEW id \in Ids, Place(id)
  PROVE  /\ orders' \in [Ids -> {"none", "open", "closed"}]
         /\ \A i \in Ids : orders'[i] = orders[i] \/ orders'[i] # "none"
         /\ orders'[id] # "none"
BY DEF PaperTypeOK, Place

LEMMA GoToTyped ==
  ASSUME PaperTypeOK, NEW t \in Threads, NEW stage \in Stages, GoTo(t, stage)
  PROVE  /\ at' \in [Threads -> Stages]
         /\ \A u \in Threads : at'[u] = IF u = t THEN stage ELSE at[u]
         /\ confirmed' = confirmed
BY DEF PaperTypeOK, GoTo

LEMMA AnswerTyped ==
  ASSUME PaperTypeOK, NEW t \in Threads, Answer(t, "ok")
  PROVE  /\ at' \in [Threads -> Stages]
         /\ \A u \in Threads : at'[u] = IF u = t THEN "ok" ELSE at[u]
         /\ confirmed' = confirmed \cup {for[t]}
BY DEF PaperTypeOK, Answer, Stages, Resting, Answers

\* A thread at work belongs to a process whose gate is open.
LEMMA BusyHasGate ==
  ASSUME PaperTypeOK, NEW t \in Threads, at[t] \notin Resting
  PROVE  writes
BY DEF PaperTypeOK

LEMMA SubmitKeepsInv ==
  ASSUME PaperIInv, NEW t \in Threads, NEW id \in Ids, Submit(t, id) \/ Cancel(t, id)
  PROVE  PaperIInv'
<1>1. /\ for' \in [Threads -> Ids]
      /\ UNCHANGED <<writes, orders, stray, faults, confirmed>>
  BY DEF Submit, Cancel, PaperIInv, PaperTypeOK, GoTo
<1>2. PICK stage \in {"lookup", "cancel", "disabled"} :
        /\ GoTo(t, stage)
        /\ writes \/ stage = "disabled"
  BY DEF Submit, Cancel
<1>3. /\ at' \in [Threads -> Stages]
      /\ \A u \in Threads : at'[u] = IF u = t THEN stage ELSE at[u]
  BY <1>2, GoToTyped DEF PaperIInv, Stages, Resting, Answers
<1>4. writes' \/ \A u \in Threads : at'[u] \in Resting
  <2>1. CASE writes
    BY <1>1, <2>1
  <2>2. CASE ~writes
    BY <1>2, <1>3, <2>2 DEF PaperIInv, PaperTypeOK, Resting, Answers
  <2> QED
    BY <2>1, <2>2
<1> QED
  BY <1>1, <1>3, <1>4 DEF PaperIInv, PaperTypeOK, ConfirmedIsPlaced

LEMMA ServeKeepsInv ==
  ASSUME PaperIInv, NEW t \in Threads, Serve(t)
  PROVE  PaperIInv'
<1>1. writes /\ UNCHANGED <<writes, for, stray, faults>>
  BY BusyHasGate DEF Serve, Lookup, Accepted, Refused, Rejected, Cancelled, PaperIInv,
                     Resting, Answers
<1>2. for[t] \in Ids
  BY DEF PaperIInv, PaperTypeOK
<1>3. CASE Lookup(t)
  <2>1. CASE Answer(t, "ok") /\ orders[for[t]] # "none"
    BY <1>1, <1>2, <1>3, <2>1, AnswerTyped
       DEF Lookup, PaperIInv, PaperTypeOK, ConfirmedIsPlaced
  <2>2. CASE GoTo(t, "post") \/ GoTo(t, "failed")
    <3>1. /\ at' \in [Threads -> Stages]
          /\ confirmed' = confirmed
      BY <2>2, GoToTyped DEF PaperIInv, Stages, Resting, Answers
    <3> QED
      BY <1>1, <1>3, <3>1 DEF Lookup, PaperIInv, PaperTypeOK, ConfirmedIsPlaced
  <2> QED
    BY <1>3, <2>1, <2>2 DEF Lookup
<1>4. CASE Accepted(t)
  BY <1>1, <1>2, <1>4, AnswerTyped, PlaceTyped
     DEF Accepted, PaperIInv, PaperTypeOK, ConfirmedIsPlaced
<1>5. CASE Refused(t) \/ Rejected(t)
  <2>1. /\ at' \in [Threads -> Stages]
        /\ confirmed' = confirmed
    BY <1>5, GoToTyped DEF Refused, Rejected, PaperIInv, Stages, Resting, Answers
  <2> QED
    BY <1>1, <1>5, <2>1 DEF Refused, Rejected, PaperIInv, PaperTypeOK, ConfirmedIsPlaced
<1>6. CASE Cancelled(t)
  <2>1. /\ at' \in [Threads -> Stages]
        /\ confirmed' = confirmed
    BY <1>6, GoToTyped DEF Cancelled, PaperIInv, Stages, Resting, Answers
  <2>2. /\ orders' \in [Ids -> {"none", "open", "closed"}]
        /\ \A i \in Ids : orders[i] # "none" => orders'[i] # "none"
    BY <1>2, <1>6 DEF Cancelled, PaperIInv, PaperTypeOK
  <2> QED
    BY <1>1, <2>1, <2>2 DEF PaperIInv, PaperTypeOK, ConfirmedIsPlaced
<1> QED
  BY <1>3, <1>4, <1>5, <1>6 DEF Serve

LEMMA FailuresKeepInv ==
  ASSUME PaperIInv,
         \/ \E t \in Threads : CallFails(t)
         \/ \E id \in Ids : StrayArrives(id) \/ OrderCloses(id)
         \/ ApiRestarts
  PROVE  PaperIInv'
<1>1. ASSUME NEW t \in Threads, CallFails(t)
      PROVE  PaperIInv'
  <2>1. writes /\ UNCHANGED <<writes, for>> /\ faults' \in 0..MaxFaults
    BY <1>1, BusyHasGate DEF CallFails, Fault, PaperIInv, PaperTypeOK
  <2>2. /\ at' \in [Threads -> Stages]
        /\ confirmed' = confirmed
    BY <1>1, GoToTyped DEF CallFails, PaperIInv, Stages, Resting, Answers
  <2>3. /\ orders' \in [Ids -> {"none", "open", "closed"}]
        /\ \A i \in Ids : orders[i] # "none" => orders'[i] # "none"
        /\ stray' \subseteq Ids
    <3>1. for[t] \in Ids
      BY DEF PaperIInv, PaperTypeOK
    <3> QED
      BY <1>1, <3>1, PlaceTyped DEF CallFails, PaperIInv, PaperTypeOK
  <2> QED
    BY <2>1, <2>2, <2>3 DEF PaperIInv, PaperTypeOK, ConfirmedIsPlaced
<1>2. ASSUME NEW id \in Ids, StrayArrives(id)
      PROVE  PaperIInv'
  <2>1. /\ orders' \in [Ids -> {"none", "open", "closed"}]
        /\ \A i \in Ids : orders[i] # "none" => orders'[i] # "none"
    BY <1>2, PlaceTyped DEF StrayArrives, PaperIInv, PaperTypeOK
  <2> QED
    BY <1>2, <2>1 DEF StrayArrives, PaperIInv, PaperTypeOK, ConfirmedIsPlaced
<1>3. ASSUME NEW id \in Ids, OrderCloses(id)
      PROVE  PaperIInv'
  BY <1>3 DEF OrderCloses, PaperIInv, PaperTypeOK, ConfirmedIsPlaced
<1>4. CASE ApiRestarts
  <2>1. /\ at' \in [Threads -> Stages]
        /\ \A t \in Threads : at'[t] \in Resting
    BY <1>4 DEF ApiRestarts, PaperIInv, PaperTypeOK, Stages, Resting, Answers
  <2>2. stray' \subseteq Ids /\ faults' \in 0..MaxFaults /\ writes' \in BOOLEAN
        /\ UNCHANGED <<for, orders, confirmed>>
    BY <1>4 DEF ApiRestarts, Fault, PaperIInv, PaperTypeOK
  <2> QED
    BY <2>1, <2>2 DEF PaperIInv, PaperTypeOK, ConfirmedIsPlaced
<1> QED
  BY <1>1, <1>2, <1>3, <1>4

\* The invariant holds of every behaviour: the basis of what follows.
THEOREM PaperInvariant == PaperSpec => []PaperIInv
<1>1. PaperInit => PaperIInv
  BY DEF PaperInit, PaperIInv, PaperTypeOK, ConfirmedIsPlaced, Stages, Resting
<1>2. PaperIInv /\ [PaperNext]_paperVars => PaperIInv'
  <2> SUFFICES ASSUME PaperIInv, [PaperNext]_paperVars
               PROVE  PaperIInv'
    OBVIOUS
  <2>1. CASE PaperNext
    BY <2>1, SubmitKeepsInv, ServeKeepsInv, FailuresKeepInv DEF PaperNext
  <2>2. CASE UNCHANGED paperVars
    BY <2>2 DEF paperVars, PaperIInv, PaperTypeOK, ConfirmedIsPlaced
  <2> QED
    BY <2>1, <2>2
<1> QED
  BY <1>1, <1>2, PTL DEF PaperSpec

\* Type correctness, with the gate: a process that may not write has no
\* submission or cancellation under way.  (alpaca_paper.py:182-195)
THEOREM PaperTypeCorrect == PaperSpec => []PaperTypeOK
<1>1. PaperIInv => PaperTypeOK
  BY DEF PaperIInv
<1> QED
  BY <1>1, PaperInvariant, PTL

\* Whatever is refused, lost or raced for, a 200 stands for an order that the
\* broker has.  (alpaca_paper.py:192-211)
THEOREM ConfirmedIsAlwaysPlaced == PaperSpec => []ConfirmedIsPlaced
<1>1. PaperIInv => ConfirmedIsPlaced
  BY DEF PaperIInv
<1> QED
  BY <1>1, PaperInvariant, PTL

\* No thread reports a failure because another one with its id succeeded.
\* (alpaca_paper.py:204-208)
THEOREM DuplicateIsNeverAFailure == PaperSpec => DuplicateIsNoFailure
<1> DEFINE NoFalseFailure ==
      \A t \in Threads :
        at[t] \in {"post", "relookup"} /\ at'[t] = "failed" /\ faults' = faults
          => orders[for[t]] = "none"
<1>1. PaperIInv /\ [PaperNext]_paperVars => NoFalseFailure
  <2> SUFFICES ASSUME PaperIInv, [PaperNext]_paperVars, NEW t \in Threads,
                      at[t] \in {"post", "relookup"}, at'[t] = "failed",
                      faults' = faults
               PROVE  orders[for[t]] = "none"
    OBVIOUS
  <2>1. at # at'
    OBVIOUS
  <2>2. PaperTypeOK /\ at[t] \notin Resting
    BY DEF PaperIInv, Resting, Answers
  <2>3. ~ApiRestarts /\ \A u \in Threads : ~CallFails(u)
    BY <2>2 DEF ApiRestarts, CallFails, Fault, PaperTypeOK
  <2>4. ~ \E u \in Threads, id \in Ids : Submit(u, id) \/ Cancel(u, id)
    <3> SUFFICES ASSUME NEW u \in Threads, NEW id \in Ids,
                        Submit(u, id) \/ Cancel(u, id)
                 PROVE  FALSE
      OBVIOUS
    <3>1. u # t
      BY <2>2 DEF Submit, Cancel
    <3>2. at'[t] = at[t]
      BY <2>2, <3>1 DEF Submit, Cancel, GoTo, PaperTypeOK
    <3> QED
      BY <3>2
  <2>5. PICK u \in Threads : Serve(u)
    BY <2>1, <2>3, <2>4 DEF PaperNext, paperVars, StrayArrives, OrderCloses
  <2>6. u = t
    BY <2>2, <2>5
       DEF Serve, Lookup, Accepted, Refused, Rejected, Cancelled, GoTo, Answer,
           PaperTypeOK
  <2>7. Lookup(t)
    BY <2>2, <2>5, <2>6
       DEF Serve, Accepted, Refused, Rejected, Cancelled, GoTo, Answer, PaperTypeOK
  <2> QED
    BY <2>2, <2>7 DEF Lookup, Answer, PaperTypeOK
<1> QED
  BY <1>1, PaperInvariant, PTL DEF PaperSpec, DuplicateIsNoFailure
=============================================================================
