----------------------------- MODULE PaperOrders -----------------------------
(***************************************************************************)
(* Paper orders: POST /v1/paper/orders and DELETE .../orders/cancel of the *)
(* API (api.py, handle) over AlpacaPaperBroker (alpaca_paper.py, _submit   *)
(* and cancel_order), the broker behind it, and clients that repeat a      *)
(* submission with the same client_order_id until it is confirmed.         *)
(*                                                                         *)
(* Each request has a thread of its own; between its lookup and its POST   *)
(* others do the same with the same id.  Requests and answers between API  *)
(* and broker get lost, answers may be 5xx, and a POST whose caller gave   *)
(* up may still arrive.                                                    *)
(***************************************************************************)
EXTENDS Integers

CONSTANTS
  Threads,     \* threads of the API, one request each at a time
  Ids,         \* client order ids
  MaxFaults    \* bound: lost or failed broker calls and API restarts

ASSUME PaperAssumption == MaxFaults \in Nat

VARIABLES
  writes,     \* writes_enabled of the running API process
  at,         \* thread -> where its request is, see Stages
  for,        \* thread -> the client_order_id of its last request
  orders,     \* the broker's orders: id -> "none", "open" or "closed"
  stray,      \* ids whose POST is still under way though its caller gave up
  confirmed,  \* ids a client got an order for, with status 200
  faults      \* faults so far

paperVars == <<writes, at, for, orders, stray, confirmed, faults>>

\* idle: answered or not begun.  lookup, relookup: before the broker answers
\* get_order_by_client_id.  post, cancel: before it answers POST or DELETE.
\* ok, failed, rejected, disabled, nothing: idle after that answer: 200, 502, 502
\* for an order the broker does not want, 403 or, where an httpx error escapes
\* handle, a closed connection.
Answers == {"ok", "failed", "rejected", "disabled", "nothing"}
Resting == {"idle"} \cup Answers
Stages == {"lookup", "post", "relookup", "cancel"} \cup Resting

PaperTypeOK ==
  /\ writes \in BOOLEAN
  /\ at \in [Threads -> Stages]
  /\ for \in [Threads -> Ids]
  /\ orders \in [Ids -> {"none", "open", "closed"}]
  /\ stray \subseteq Ids
  /\ confirmed \subseteq Ids
  /\ faults \in 0..MaxFaults
  /\ writes \/ \A t \in Threads : at[t] \in Resting

PaperInit ==
  /\ writes \in BOOLEAN
  /\ at = [t \in Threads |-> "idle"]
  /\ for \in [Threads -> Ids]
  /\ orders = [i \in Ids |-> "none"]
  /\ stray = {}
  /\ confirmed = {}
  /\ faults = 0

Answer(t, answer) ==
  /\ at' = [at EXCEPT ![t] = answer]
  /\ confirmed' = IF answer = "ok" THEN confirmed \cup {for[t]} ELSE confirmed

GoTo(t, stage) == at' = [at EXCEPT ![t] = stage] /\ UNCHANGED confirmed

Fault == faults < MaxFaults /\ faults' = faults + 1

\* The broker takes the order; it may be done with it at once.
Place(id) == \E status \in {"open", "closed"} : orders' = [orders EXCEPT ![id] = status]

-----------------------------------------------------------------------------
(* _submit *)

\* Mistake: the gate guards cancel_order alone.
SubmitUngated(t, id) ==
  /\ at[t] \in Resting
  /\ for' = [for EXCEPT ![t] = id]
  /\ GoTo(t, "lookup")
  /\ UNCHANGED <<writes, orders, stray, faults>>

\* A submission begins: BrokerWritesDisabledError comes before everything.
Submit(t, id) ==
  /\ at[t] \in Resting
  /\ for' = [for EXCEPT ![t] = id]
  /\ GoTo(t, IF writes THEN "lookup" ELSE "disabled")
  /\ UNCHANGED <<writes, orders, stray, faults>>

\* Mistake: only open orders are looked through.
LookupOpenOrders(t) ==
  /\ at[t] \in {"lookup", "relookup"}
  /\ IF orders[for[t]] = "open" THEN Answer(t, "ok")
     ELSE GoTo(t, IF at[t] = "lookup" THEN "post" ELSE "failed")
  /\ UNCHANGED <<writes, for, orders, stray, faults>>

\* get_order_by_client_id: an order the broker has is the answer.  With none,
\* the first lookup leads to the POST, the second raises BrokerError.
Lookup(t) ==
  /\ at[t] \in {"lookup", "relookup"}
  /\ IF orders[for[t]] # "none" THEN Answer(t, "ok")
     ELSE GoTo(t, IF at[t] = "lookup" THEN "post" ELSE "failed")
  /\ UNCHANGED <<writes, for, orders, stray, faults>>

Accepted(t) ==
  /\ at[t] = "post"
  /\ orders[for[t]] = "none"
  /\ Place(for[t])
  /\ Answer(t, "ok")
  /\ UNCHANGED <<writes, for, stray, faults>>

\* Mistake: a refusal is an error, whatever it was for.
RefusedAtOnce(t) ==
  /\ at[t] = "post"
  /\ GoTo(t, "failed")
  /\ UNCHANGED <<writes, for, orders, stray, faults>>

\* Mistake: a refusal can only mean that the order exists.
RefusedAsDuplicate(t) ==
  /\ at[t] = "post"
  /\ Answer(t, "ok")
  /\ UNCHANGED <<writes, for, orders, stray, faults>>

\* HTTP 422: the id is taken, or the order is not valid.
Refused(t) ==
  /\ at[t] = "post"
  /\ GoTo(t, "relookup")
  /\ UNCHANGED <<writes, for, orders, stray, faults>>

\* Any other 4xx, as for want of buying power: BrokerError, without a second lookup.
Rejected(t) ==
  /\ at[t] = "post"
  /\ GoTo(t, "rejected")
  /\ UNCHANGED <<writes, for, orders, stray, faults>>

-----------------------------------------------------------------------------
(* cancel_order *)

Cancel(t, id) ==
  /\ at[t] \in Resting
  /\ for' = [for EXCEPT ![t] = id]
  /\ GoTo(t, IF writes THEN "cancel" ELSE "disabled")
  /\ UNCHANGED <<writes, orders, stray, faults>>

\* 404 answers cancelled:false, a closed order is a BrokerError.
Cancelled(t) ==
  /\ at[t] = "cancel"
  /\ orders' = [orders EXCEPT ![for[t]] = IF @ = "none" THEN "none" ELSE "closed"]
  /\ GoTo(t, IF orders[for[t]] = "closed" THEN "failed" ELSE "idle")
  /\ UNCHANGED <<writes, for, stray, faults>>

-----------------------------------------------------------------------------
(* Failures *)

\* A call to the broker fails: 5xx, or a 4xx of a lookup or DELETE, which are
\* answered 502, or an httpx error, which is not.  A POST may have been lost, may
\* have been carried out, or may be under way still.
CallFails(t) ==
  /\ at[t] \notin Resting
  /\ Fault
  /\ \E answer \in {"failed", "nothing"} : GoTo(t, answer)
  /\ \/ UNCHANGED <<orders, stray>>
     \/ /\ at[t] = "post"
        /\ \/ orders[for[t]] = "none" /\ Place(for[t]) /\ UNCHANGED stray
           \/ stray' = stray \cup {for[t]} /\ UNCHANGED orders
  /\ UNCHANGED <<writes, for>>

\* The API process is restarted, with the gate as its environment now says.
ApiRestarts ==
  /\ Fault
  /\ writes' \in BOOLEAN
  /\ at' = [t \in Threads |-> IF at[t] \in Resting THEN at[t] ELSE "nothing"]
  /\ stray' = stray \cup {for[t] : t \in {u \in Threads : at[u] = "post"}}
  /\ UNCHANGED <<for, orders, confirmed>>

\* A POST nobody waits for arrives; the broker refuses an id it knows.
StrayArrives(id) ==
  /\ id \in stray
  /\ stray' = stray \ {id}
  /\ \/ orders[id] = "none" /\ Place(id)
     \/ UNCHANGED orders
  /\ UNCHANGED <<writes, at, for, confirmed, faults>>

\* The order is filled or expires.
OrderCloses(id) ==
  /\ orders[id] = "open"
  /\ orders' = [orders EXCEPT ![id] = "closed"]
  /\ UNCHANGED <<writes, at, for, stray, confirmed, faults>>

-----------------------------------------------------------------------------
Serve(t) ==
  Lookup(t) \/ Accepted(t) \/ Refused(t) \/ Rejected(t) \/ Cancelled(t)

PaperNext ==
  \/ \E t \in Threads :
       \/ \E id \in Ids : Submit(t, id) \/ Cancel(t, id)
       \/ Serve(t) \/ CallFails(t)
  \/ \E id \in Ids : StrayArrives(id) \/ OrderCloses(id)
  \/ ApiRestarts

\* The client submits an id again until it is confirmed.
Retry(id) == id \notin confirmed /\ \E t \in Threads : Submit(t, id)

\* Threads run, and clients repeat what is not confirmed.
PaperSpec ==
  /\ PaperInit
  /\ [][PaperNext]_paperVars
  /\ \A t \in Threads : WF_paperVars(Serve(t))
  /\ \A id \in Ids : SF_paperVars(Retry(id))

-----------------------------------------------------------------------------
\* A client that got a 200 has an order: whatever was refused, lost, repeated
\* or raced for, the id it was confirmed for is known to the broker.
\* (alpaca_paper.py:192-211)
ConfirmedIsPlaced == \A id \in confirmed : orders[id] # "none"

\* docs/API.md:710: a duplicate id is looked up again.  Of several threads
\* that submit one id at the same time, none is told that it failed because
\* another succeeded: a thread that the broker refused with 422, as it does a
\* duplicate, fails only if there is no order of that id.  (alpaca_paper.py:204-208)
DuplicateIsNoFailure ==
  [][\A t \in Threads :
       at[t] \in {"post", "relookup"} /\ at'[t] = "failed" /\ faults' = faults
         => orders[for[t]] = "none"]_paperVars

\* docs/API.md:710: repeating a submission with the same id is the safe way out
\* of a network failure.  An order that exists, be it open, filled or
\* cancelled, is some day confirmed to a client that goes on asking, unless
\* the write gate has been closed.
RetryIsConfirmed ==
  \A id \in Ids : (orders[id] # "none") ~> (id \in confirmed \/ ~writes)
=============================================================================
