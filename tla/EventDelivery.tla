---------------------------- MODULE EventDelivery ----------------------------
(***************************************************************************)
(* How clients of the API read the event ledger: the subscription that     *)
(* hands out a start cursor, the Server-Sent-Events loop of one thread per *)
(* connection (api.py, prepare_market_stream and _stream_market_data), the *)
(* polling GET /v1/market-data/events (api.py, handle), and clients that   *)
(* lose connections and answers, crash, and come back.                     *)
(*                                                                         *)
(* Sets of sequence numbers stand for the pages and for the bytes on a     *)
(* connection: both are written and read in ascending order.               *)
(***************************************************************************)
EXTENDS EventLedger

CONSTANTS
  Clients,
  Wants,        \* client -> the symbols of its requests
  ReplayTimes,  \* the replay_from_utc clients may ask for
  PageLimit,    \* limit of list_after: 1000 in the stream, a parameter in a poll
  MaxFailures   \* bound: lost connections, lost answers and client crashes

ASSUME EventDeliveryAssumption ==
  /\ ReplayTimes \subseteq Nat
  /\ PageLimit \in Nat \ {0}
  /\ MaxFailures \in Nat

VARIABLES
  link,      \* client -> "new", "closed", "stream" or "poll"
  replay,    \* client -> the replay_from_utc of its subscription
  start,     \* client -> start_after_sequence it was given, -1 before
  position,  \* client -> the last sequence it saved: its next cursor
  cursor,    \* client -> the cursor of the thread that serves its stream
  page,      \* client -> fetched rows that thread has not written yet
  wire,      \* client -> rows written, not yet read by the client
  got,       \* client -> rows the client has processed
  failures   \* how many failures there have been

clientVars == <<link, replay, start, position, cursor, page, wire, got, failures>>
deliveryVars == <<ledger, clientVars>>

DeliveryTypeOK ==
  /\ LedgerTypeOK
  /\ link \in [Clients -> {"new", "closed", "stream", "poll"}]
  /\ replay \in [Clients -> Nat]
  /\ start \in [Clients -> Int]
  /\ position \in [Clients -> Nat]
  /\ cursor \in [Clients -> Nat]
  /\ page \in [Clients -> SUBSET Nat]
  /\ wire \in [Clients -> SUBSET Nat]
  /\ got \in [Clients -> SUBSET Nat]
  /\ failures \in 0..MaxFailures

DeliveryInit ==
  /\ LedgerInit
  /\ link = [c \in Clients |-> "new"]
  /\ replay = [c \in Clients |-> 0]
  /\ start = [c \in Clients |-> -1]
  /\ position = [c \in Clients |-> 0]
  /\ cursor = [c \in Clients |-> 0]
  /\ page = [c \in Clients |-> {}]
  /\ wire = [c \in Clients |-> {}]
  /\ got = [c \in Clients |-> {}]
  /\ failures = 0

First(s, set) == s \in set /\ \A i \in set : s <= i
Last(s, set) == s \in set /\ \A i \in set : i <= s

-----------------------------------------------------------------------------
\* The SIP owner stores an event, or stores one again.
StoreEvent(e) ==
  /\ AppendEvent(e)
  /\ UNCHANGED clientVars

\* POST /v1/market-data/subscriptions, after the lease is written: the answer
\* holds sequence_before(replay_from_utc).
GetStart(c, ts) ==
  /\ link[c] = "new"
  /\ link' = [link EXCEPT ![c] = "closed"]
  /\ replay' = [replay EXCEPT ![c] = ts]
  /\ start' = [start EXCEPT ![c] = SequenceBefore(ts)]
  /\ position' = [position EXCEPT ![c] = SequenceBefore(ts)]
  /\ UNCHANGED <<ledger, cursor, page, wire, got, failures>>

\* Mistake: a stream starts with the next event that is stored.
OpenStreamAtTheEnd(c) ==
  /\ link[c] = "closed"
  /\ link' = [link EXCEPT ![c] = "stream"]
  /\ cursor' = [cursor EXCEPT ![c] = Len(ledger)]
  /\ UNCHANGED <<ledger, replay, start, position, page, wire, got, failures>>

\* GET /v1/market-data/stream: the cursor is Last-Event-ID, unless the URL
\* still carries the after of the first request, which wins.
OpenStream(c) ==
  /\ link[c] = "closed"
  /\ link' = [link EXCEPT ![c] = "stream"]
  /\ \E after \in {start[c], position[c]} :
       /\ cursor' = [cursor EXCEPT ![c] = after]
       /\ position' = [position EXCEPT ![c] = after]
  /\ UNCHANGED <<ledger, replay, start, page, wire, got, failures>>

\* The loop of _stream_market_data asks for the next page ...
FetchPage(c) ==
  /\ link[c] = "stream"
  /\ page[c] = {}
  /\ page' = [page EXCEPT ![c] = ListAfter(cursor[c], Wants[c], PageLimit)]
  /\ page'[c] # {}
  /\ UNCHANGED <<ledger, link, replay, start, position, cursor, wire, got, failures>>

\* ... and writes it event by event, the cursor following each.
WriteEvent(c) ==
  /\ link[c] = "stream"
  /\ \E s \in page[c] :
       /\ First(s, page[c])
       /\ wire' = [wire EXCEPT ![c] = @ \cup {s}]
       /\ cursor' = [cursor EXCEPT ![c] = s]
       /\ page' = [page EXCEPT ![c] = @ \ {s}]
  /\ UNCHANGED <<ledger, link, replay, start, position, got, failures>>

\* The client processes the next event and saves its id.
ReadEvent(c) ==
  /\ link[c] = "stream"
  /\ \E s \in wire[c] :
       /\ First(s, wire[c])
       /\ got' = [got EXCEPT ![c] = @ \cup {s}]
       /\ position' = [position EXCEPT ![c] = s]
       /\ wire' = [wire EXCEPT ![c] = @ \ {s}]
  /\ UNCHANGED <<ledger, link, replay, start, cursor, page, failures>>

\* GET /v1/market-data/events?after=position: the answer is on its way.
PollRequest(c) ==
  /\ link[c] = "closed"
  /\ link' = [link EXCEPT ![c] = "poll"]
  /\ wire' = [wire EXCEPT ![c] = ListAfter(position[c], Wants[c], PageLimit)]
  /\ UNCHANGED <<ledger, replay, start, position, cursor, page, got, failures>>

\* Mistake: next_sequence repeats the after of the request.
PollAnswerWithoutCursor(c) ==
  /\ link[c] = "poll"
  /\ link' = [link EXCEPT ![c] = "closed"]
  /\ got' = [got EXCEPT ![c] = @ \cup wire[c]]
  /\ wire' = [wire EXCEPT ![c] = {}]
  /\ UNCHANGED <<ledger, replay, start, position, cursor, page, failures>>

\* The answer arrives: its events are processed, then next_sequence is saved,
\* the last event's sequence or the after of an empty answer.
PollAnswer(c) ==
  /\ link[c] = "poll"
  /\ link' = [link EXCEPT ![c] = "closed"]
  /\ got' = [got EXCEPT ![c] = @ \cup wire[c]]
  /\ \/ wire[c] = {} /\ UNCHANGED position
     \/ \E s \in wire[c] : /\ Last(s, wire[c])
                           /\ position' = [position EXCEPT ![c] = s]
  /\ wire' = [wire EXCEPT ![c] = {}]
  /\ UNCHANGED <<ledger, replay, start, cursor, page, failures>>

Disconnect(c) ==
  /\ failures < MaxFailures
  /\ failures' = failures + 1
  /\ link[c] \in {"stream", "poll"}
  /\ link' = [link EXCEPT ![c] = "closed"]
  /\ page' = [page EXCEPT ![c] = {}]
  /\ wire' = [wire EXCEPT ![c] = {}]
  /\ UNCHANGED <<ledger, replay, start, position, cursor>>

\* The connection, the answer or the API process is lost.
ConnectionLost(c) ==
  /\ Disconnect(c)
  /\ UNCHANGED got

\* The client stops after it processed some of what it read and before it
\* saved how far it got.
ClientCrash(c) ==
  /\ Disconnect(c)
  /\ \E n \in wire[c] : got' = [got EXCEPT ![c] = @ \cup {i \in wire[c] : i <= n}]

ServeStream(c) == FetchPage(c) \/ WriteEvent(c)
Connect(c) == OpenStream(c) \/ PollRequest(c)

ClientStep ==
  \E c \in Clients :
    \/ \E ts \in ReplayTimes : GetStart(c, ts)
    \/ Connect(c) \/ ServeStream(c) \/ ReadEvent(c) \/ PollAnswer(c)
    \/ ConnectionLost(c) \/ ClientCrash(c)

DeliveryNext == (\E e \in Events : StoreEvent(e)) \/ ClientStep

\* A thread serves each stream; a client that has a cursor keeps coming back
\* and reads what it is sent.
DeliveryFairness ==
  \A c \in Clients : /\ WF_deliveryVars(ServeStream(c))
                     /\ WF_deliveryVars(Connect(c))
                     /\ WF_deliveryVars(ReadEvent(c))
                     /\ WF_deliveryVars(PollAnswer(c))

DeliverySpec == DeliveryInit /\ [][DeliveryNext]_deliveryVars /\ DeliveryFairness

-----------------------------------------------------------------------------
\* The abstract feed this implements.
Feed == INSTANCE ReliableFeed WITH log <- ledger, from <- start, seen <- got

\* Cursors, pages and reconnects implement the feed: whatever a client is
\* shown is, together with what it saw, all it has a claim to up to some
\* place of the log (feature_store.py:82-108, api.py:430-448, 597-646).
ImplementsFeed == Feed!FeedSpec

\* A saved cursor never runs ahead of what was processed: whatever a client
\* has a claim to up to the sequence it would continue from was processed, no
\* matter which connections and answers were lost before.
CursorIsHonest ==
  \A c \in Clients : \A i \in Feed!Due(c) : i <= position[c] => i \in got[c]

\* Events are met for the first time in the order of the ledger, although
\* answers may repeat them.
FirstSeenInOrder ==
  [][\A c \in Clients : \A i \in got'[c] \ got[c] : \A j \in got[c] : j < i]_deliveryVars

\* Every event stored after a client's start cursor for a symbol it asks for
\* reaches that client some day, over whichever of the two interfaces.
EverythingArrives ==
  \A c \in Clients : \A i \in 1..Cardinality(Events) :
    (i \in Feed!Due(c)) ~> (i \in got[c])

\* What start_after_sequence is good for: it leaves out an event of replay_from_utc or
\* later only if an event of an earlier time was stored after it, so nothing as long as
\* the ledger is in the order of time (feature_store.py:73-80).
OnlyOvertakenAreLeftOut ==
  \A c \in Clients : \A i \in Matching(Wants[c]) :
    i <= start[c] /\ TsOf[ledger[i]] >= replay[c]
    => \E j \in i + 1..start[c] : TsOf[ledger[j]] < replay[c]

\* docs/API.md:312: reading from start_after_sequence replays the stored
\* events from replay_from_utc on.  So no event of that time or later may lie
\* at or before the cursor.
StartCoversReplay ==
  \A c \in Clients : start[c] >= 0 =>
    \A i \in Matching(Wants[c]) : TsOf[ledger[i]] >= replay[c] => i > start[c]
=============================================================================
