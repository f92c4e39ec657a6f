----------------------------- MODULE ReliableFeed -----------------------------
(***************************************************************************)
(* What the event interface promises its clients, without cursors, pages   *)
(* or connections: a log that only grows, and clients that each see the    *)
(* entries of the symbols they asked for, from the place where they        *)
(* attached, in the order of the log and without a hole.                   *)
(* docs/API.md:312, 394, 398, 423.                                         *)
(***************************************************************************)
EXTENDS Integers, Sequences

CONSTANTS Events, Clients, SymbolOf, Wants

VARIABLES
  log,   \* the stored events; an event's sequence number is its place
  from,  \* client -> where it attached: it sees what comes later; -1 before
  seen   \* client -> sequence numbers it has been shown

feedVars == <<log, from, seen>>

\* Sequence numbers of the stored events a client has a claim to.
Due(c) ==
  {i \in 1..Len(log) : from[c] >= 0 /\ i > from[c] /\ SymbolOf[log[i]] \in Wants[c]}

FeedInit ==
  /\ log = <<>>
  /\ from = [c \in Clients |-> -1]
  /\ seen = [c \in Clients |-> {}]

Publish(e) ==
  /\ \A i \in 1..Len(log) : log[i] # e
  /\ log' = Append(log, e)
  /\ UNCHANGED <<from, seen>>

Attach(c, n) ==
  /\ from[c] = -1
  /\ from' = [from EXCEPT ![c] = n]
  /\ UNCHANGED <<log, seen>>

\* The client is shown all it has a claim to up to n; showing it again what
\* it has seen is allowed, leaving something out is not.
Deliver(c, n) ==
  /\ seen' = [seen EXCEPT ![c] = @ \cup {i \in Due(c) : i <= n}]
  /\ UNCHANGED <<log, from>>

FeedNext ==
  \/ \E e \in Events : Publish(e)
  \/ \E c \in Clients, n \in 0..Len(log) : Attach(c, n) \/ Deliver(c, n)

FeedSpec == FeedInit /\ [][FeedNext]_feedVars
=============================================================================
