------------------------------- MODULE SipOwner -------------------------------
(***************************************************************************)
(* The SIP owner: scripts/run_sip_owner.py (_run and _consume_window), the *)
(* AlpacaSipStream generator of market_data.py it drives, and the restart  *)
(* loop of scripts/run_local_sip_owner.ps1, together with the API writes   *)
(* that change what the owner must subscribe to.                           *)
(*                                                                         *)
(* One process runs at a time: main holds a ProcessLock around _run        *)
(* (module ProcessLock).  Inside it asyncio interleaves two coroutines at  *)
(* their awaits: the window loop, and the generator, which moves only      *)
(* while the loop sits in asyncio.wait (pc = "wait").  Other processes and *)
(* the network interleave with every registry access.                      *)
(***************************************************************************)
EXTENDS MarketRegistry

CONSTANTS
  RefreshTicks,   \* --refresh-seconds, in ticks
  FiniteRun,      \* TRUE iff --max-seconds is set
  MaxCrashes      \* bound: how often the process is killed or its time runs out

ASSUME SipOwnerAssumption ==
  /\ RefreshTicks \in Nat
  /\ FiniteRun \in BOOLEAN
  /\ MaxCrashes \in Nat

VARIABLES
  pc,        \* where _run is, see PCs
  symbols,   \* the symbols of the current iteration and window
  seen,      \* the part of the union read so far by active_market_symbols
  beat,      \* age of heartbeat_at, the clock reading of the current record
  timer,     \* ticks until next_refresh is due
  connectedAt,  \* "set" iff the window's connected_at is not None
  sock,      \* the websocket of the window's stream, see Sockets
  authAt,    \* "set" iff stream.connected_at_utc is not None
  deadline,  \* "passed" once --max-seconds are used up
  crashes,   \* how often the process was killed or its time ran out
  asked,     \* history: the symbols of the last subscribe message of this process
             \* that was answered, whatever the answer
  carried,   \* external: the symbols the provider streams on the socket
  moved      \* history: a side of the union changed since symbols began to be read

ownerVars == <<pc, symbols, seen, beat, timer, connectedAt, sock, authAt,
               deadline, crashes, asked, carried, moved>>
sipVars == <<registryVars, ownerVars>>

\* down: not running.  top: head of the loop of _run.  union: between the two
\* reads of active_market_symbols.  record: before the row is written.
\* idle: asleep without symbols.  wait: in asyncio.wait of the window.
\* beat_union, beat_record: the same inside a refresh of the window.
\* returned, failed: the window ended, its row is not yet written.
\* backoff: the sleep after a failure.
Window == {"wait", "beat_union", "beat_record"}
PCs == {"down", "top", "union", "record", "idle", "returned", "failed",
        "backoff"} \cup Window

\* none: no window.  opening: connect() retries, no socket yet.  handshake: in
\* _subscribe.  open: it returned.  draining: closed by the peer, received
\* frames still queued.  lost: ConnectionClosed caught, connect() retries.
Sockets == {"none", "opening", "handshake", "open", "draining", "lost"}

SipTypeOK ==
  /\ RegistryTypeOK
  /\ pc \in PCs
  /\ symbols \in SUBSET Symbols
  /\ seen \in SUBSET Symbols
  /\ beat \in 0..MaxDelay
  /\ timer \in 0..RefreshTicks
  /\ connectedAt \in {"none", "set"}
  /\ sock \in Sockets
  /\ authAt \in {"none", "set"}
  /\ deadline \in {"ahead", "passed"}
  /\ crashes \in 0..MaxCrashes
  /\ asked \in SUBSET Symbols
  /\ carried \in SUBSET Symbols
  /\ moved \in {"no", "yes"}

SipInit ==
  /\ RegistryInit
  /\ pc = "down"
  /\ symbols = {} /\ seen = {}
  /\ beat = 0 /\ timer = 0
  /\ connectedAt = "none"
  /\ sock = "none" /\ authAt = "none"
  /\ deadline = "ahead"
  /\ crashes = 0
  /\ asked = {} /\ carried = {} /\ moved = "no"

\* The window is closed: aclosing closes the generator and its socket.
StreamClosed ==
  /\ sock' = "none"
  /\ carried' = {}
  /\ authAt' = "none"
  /\ connectedAt' = "none"

\* Only a killed or refused process leaves everything it held in memory.
ProcessGone ==
  /\ pc' = "down"
  /\ StreamClosed
  /\ symbols' = {} /\ seen' = {}
  /\ beat' = 0 /\ timer' = 0
  /\ deadline' = "ahead"
  /\ UNCHANGED asked

-----------------------------------------------------------------------------
(* The outer loop, _run *)

\* Mistake: the first record is left to the first iteration of the loop.
StartWithoutRecord ==
  /\ pc = "down"
  /\ pc' = "top"
  /\ asked' = {}
  /\ UNCHANGED <<registryVars, symbols, seen, beat, timer, connectedAt, sock,
                 authAt, deadline, crashes, carried, moved>>

\* The restart loop starts the process; _run records STARTING.
Start ==
  /\ pc = "down"
  /\ RecordMarketRuntime("starting", {}, 0)
  /\ pc' = "top"
  /\ asked' = {}
  /\ UNCHANGED <<symbols, seen, beat, timer, connectedAt, sock, authAt, deadline,
                 crashes, carried, moved>>

\* max_seconds is used up: STOPPED is recorded and the process ends.
Stop ==
  /\ pc = "top"
  /\ deadline = "passed"
  /\ RecordMarketRuntime("stopped", {}, 0)
  /\ ProcessGone
  /\ UNCHANGED <<crashes, moved>>

\* heartbeat_at is read, then the strategies of active_market_symbols.
ReadStrategies ==
  /\ pc = "top"
  /\ deadline = "ahead"
  /\ pc' = "union"
  /\ seen' = StrategySymbols
  /\ beat' = 0
  /\ moved' = "no"
  /\ UNCHANGED <<registryVars, symbols, timer, connectedAt, sock, authAt,
                 deadline, crashes, asked, carried>>

\* ... and its leases, as of heartbeat_at.
ReadLeases ==
  /\ pc = "union"
  /\ pc' = "record"
  /\ symbols' = seen \cup LeasedSymbols(beat)
  /\ seen' = {}
  /\ UNCHANGED <<registryVars, beat, timer, connectedAt, sock, authAt, deadline,
                 crashes, asked, carried, moved>>

\* Nothing to subscribe to: WAITING_FOR_SUBSCRIPTION, then sleep.
RecordWaiting ==
  /\ pc = "record"
  /\ symbols = {}
  /\ RecordMarketRuntime("waiting_for_subscription", {}, beat)
  /\ pc' = "idle"
  /\ beat' = 0
  /\ UNCHANGED <<symbols, seen, timer, connectedAt, sock, authAt, deadline,
                 crashes, asked, carried, moved>>

Wake ==
  /\ pc \in {"idle", "backoff"}
  /\ pc' = "top"
  /\ UNCHANGED <<registryVars, symbols, seen, beat, timer, connectedAt, sock,
                 authAt, deadline, crashes, asked, carried, moved>>

\* Mistake: CONNECTING is recorded with the empty set of a process that waits.
OpenWindowUnnamed ==
  /\ pc = "record"
  /\ symbols # {}
  /\ RecordMarketRuntime("connecting", {}, beat)
  /\ pc' = "wait"
  /\ beat' = 0
  /\ timer' = 0
  /\ sock' = "opening"
  /\ UNCHANGED <<symbols, seen, connectedAt, authAt, deadline, crashes, asked,
                 carried, moved>>

\* CONNECTING is recorded, the stream is built and the window entered; its
\* first refresh is due after min(refresh_seconds, 1 s), less than a tick.
OpenWindow ==
  /\ pc = "record"
  /\ symbols # {}
  /\ RecordMarketRuntime("connecting", symbols, beat)
  /\ pc' = "wait"
  /\ beat' = 0
  /\ timer' = 0
  /\ sock' = "opening"
  /\ UNCHANGED <<symbols, seen, connectedAt, authAt, deadline, crashes, asked,
                 carried, moved>>

\* record_market_runtime raises on a malformed symbol.  The call stands
\* before the try block, so the exception ends the process.
RecordRejected ==
  /\ pc = "record"
  /\ ~Recordable(symbols)
  /\ ProcessGone
  /\ UNCHANGED <<registryVars, crashes, moved>>

\* The window returned: RECONNECTING with the window's symbols.
RecordReconnecting ==
  /\ pc = "returned"
  /\ RecordMarketRuntime("reconnecting", symbols, 0)
  /\ pc' = "top"
  /\ UNCHANGED <<symbols, seen, beat, timer, connectedAt, sock, authAt, deadline,
                 crashes, asked, carried, moved>>

\* The window raised: ERROR, then a sleep of 1 s.
RecordError ==
  /\ pc = "failed"
  /\ RecordMarketRuntime("error", symbols, 0)
  /\ pc' = "backoff"
  /\ UNCHANGED <<symbols, seen, beat, timer, connectedAt, sock, authAt, deadline,
                 crashes, asked, carried, moved>>

-----------------------------------------------------------------------------
(* The window, _consume_window *)

CloseWindow(next) ==
  /\ pc' = next
  /\ StreamClosed
  /\ beat' = 0 /\ timer' = 0
  /\ seen' = {}

\* The head of the window's loop finds the deadline passed.
WindowDeadline ==
  /\ pc = "wait"
  /\ deadline = "passed"
  /\ CloseWindow("returned")
  /\ UNCHANGED <<registryVars, symbols, deadline, crashes, asked, moved>>

\* The head of the loop copies stream.connected_at_utc, finds the refresh due,
\* reads the clock and the strategies.
BeginRefresh ==
  /\ pc = "wait"
  /\ deadline = "ahead"
  /\ timer = 0
  /\ pc' = "beat_union"
  /\ connectedAt' = authAt
  /\ beat' = 0
  /\ seen' = StrategySymbols
  /\ UNCHANGED <<registryVars, symbols, timer, sock, authAt, deadline, crashes,
                 asked, carried, moved>>

\* Mistake: a refresh compares the leases alone with the window's symbols.
RefreshLeasesOnly ==
  /\ pc = "beat_union"
  /\ pc' = "beat_record"
  /\ seen' = LeasedSymbols(beat)
  /\ UNCHANGED <<registryVars, symbols, beat, timer, connectedAt, sock, authAt,
                 deadline, crashes, asked, carried, moved>>

\* Mistake: a refresh only ever adds symbols.
RefreshAddsSymbols ==
  /\ pc = "beat_union"
  /\ pc' = "beat_record"
  /\ seen' = seen \cup LeasedSymbols(beat) \cup symbols
  /\ UNCHANGED <<registryVars, symbols, beat, timer, connectedAt, sock, authAt,
                 deadline, crashes, asked, carried, moved>>

RefreshLeases ==
  /\ pc = "beat_union"
  /\ pc' = "beat_record"
  /\ seen' = seen \cup LeasedSymbols(beat)
  /\ UNCHANGED <<registryVars, symbols, beat, timer, connectedAt, sock, authAt,
                 deadline, crashes, asked, carried, moved>>

\* Mistake: an open window counts as a connection.
HeartbeatAlwaysConnected == "connected"

HeartbeatState == IF connectedAt = "set" THEN "connected" ELSE "connecting"

\* Mistake: the time the refresh took is added instead of taken off.
KeepWindowLonger ==
  /\ pc = "beat_record"
  /\ seen = symbols
  /\ RecordMarketRuntime(HeartbeatState, symbols, beat)
  /\ pc' = "wait"
  /\ timer' = RefreshTicks + beat
  /\ beat' = 0
  /\ seen' = {}
  /\ UNCHANGED <<symbols, connectedAt, sock, authAt, deadline, crashes, asked,
                 carried, moved>>

\* The heartbeat is recorded; the window goes on while the union is the one
\* it subscribed.  next_refresh counts from the head of the loop.
KeepWindow ==
  /\ pc = "beat_record"
  /\ seen = symbols
  /\ RecordMarketRuntime(HeartbeatState, symbols, beat)
  /\ pc' = "wait"
  /\ timer' = IF RefreshTicks > beat THEN RefreshTicks - beat ELSE 0
  /\ beat' = 0
  /\ seen' = {}
  /\ UNCHANGED <<symbols, connectedAt, sock, authAt, deadline, crashes, asked,
                 carried, moved>>

\* ... and returns as soon as it is another one.
LeaveWindow ==
  /\ pc = "beat_record"
  /\ seen # symbols
  /\ RecordMarketRuntime(HeartbeatState, symbols, beat)
  /\ CloseWindow("returned")
  /\ UNCHANGED <<symbols, deadline, crashes, asked, moved>>

\* An event of a carried symbol is ingested; the first one of a window that did
\* not know it was connected records CONNECTED at once.  A dropped quote records
\* nothing, but the head of the loop copies stream.connected_at_utc either way.
Event ==
  /\ pc = "wait"
  /\ sock \in {"open", "draining"} /\ carried # {}
  /\ connectedAt' = authAt
  /\ \/ /\ connectedAt = "none"
        /\ RecordMarketRuntime("connected", symbols, 0)
     \/ UNCHANGED registryVars
  /\ UNCHANGED <<pc, symbols, seen, beat, timer, sock, authAt, deadline, crashes,
                 asked, carried, moved>>

\* An exception leaves the window: a rejected handshake, a connect() error
\* that is not retried, a malformed frame, a failed store access.
WindowFails ==
  /\ pc \in Window
  /\ CloseWindow("failed")
  /\ UNCHANGED <<registryVars, symbols, deadline, crashes, asked, moved>>

-----------------------------------------------------------------------------
(* The generator, AlpacaSipStream.events, and its socket *)

\* Mistake: connect() is asked for one socket only.
SocketOpensOnce ==
  /\ pc = "wait"
  /\ sock = "opening"
  /\ sock' = "handshake"
  /\ authAt' = "none"
  /\ UNCHANGED <<registryVars, pc, symbols, seen, beat, timer, connectedAt,
                 deadline, crashes, asked, carried, moved>>

\* connect() yields a socket: connected_at_utc is reset only now.
SocketOpens ==
  /\ pc = "wait"
  /\ sock \in {"opening", "lost"}
  /\ sock' = "handshake"
  /\ authAt' = "none"
  /\ UNCHANGED <<registryVars, pc, symbols, seen, beat, timer, connectedAt,
                 deadline, crashes, asked, carried, moved>>

\* _subscribe: authenticated, subscribed, and an answer received.  It is not looked
\* at: the provider may carry the symbols, some of them, or none.
SubscribeAnswered ==
  /\ pc = "wait"
  /\ sock = "handshake"
  /\ sock' = "open"
  /\ authAt' = "set"
  /\ asked' = symbols
  /\ carried' \in SUBSET symbols
  /\ UNCHANGED <<registryVars, pc, symbols, seen, beat, timer, connectedAt,
                 deadline, crashes, moved>>

\* The peer or the network closes the socket, whatever the owner is doing.
SocketDrops ==
  /\ sock = "open"
  /\ sock' = "draining"
  /\ UNCHANGED <<registryVars, pc, symbols, seen, beat, timer, connectedAt,
                 authAt, deadline, crashes, asked, carried, moved>>

\* The generator catches ConnectionClosed and asks connect() for a new socket.
ConnectionClosed ==
  /\ pc = "wait"
  /\ sock = "draining"
  /\ sock' = "lost"
  /\ carried' = {}
  /\ UNCHANGED <<registryVars, pc, symbols, seen, beat, timer, connectedAt,
                 authAt, deadline, crashes, asked, moved>>

-----------------------------------------------------------------------------
(* The rest of the world *)

\* The history variable moved: the strategies' or the leases' side of the union
\* has changed.
UnionMoves ==
  moved' = IF \/ StrategySymbols' # StrategySymbols
              \/ LeasedSymbols(0)' # LeasedSymbols(0)
           THEN "yes" ELSE moved

Crash ==
  /\ pc # "down"
  /\ crashes < MaxCrashes
  /\ crashes' = crashes + 1
  /\ ProcessGone
  /\ UNCHANGED <<registryVars, moved>>

ActivateStrategy(s, def) ==
  /\ Register(s, def)
  /\ UnionMoves
  /\ UNCHANGED <<pc, symbols, seen, beat, timer, connectedAt, sock, authAt,
                 deadline, crashes, asked, carried>>

Subscribe(p, req, left) ==
  /\ SetMarketSubscription(p, req, left)
  /\ UnionMoves
  /\ UNCHANGED <<pc, symbols, seen, beat, timer, connectedAt, sock, authAt,
                 deadline, crashes, asked, carried>>

DeadlinePasses ==
  /\ FiniteRun
  /\ pc # "down"
  /\ deadline = "ahead"
  /\ crashes < MaxCrashes
  /\ crashes' = crashes + 1
  /\ deadline' = "passed"
  /\ UNCHANGED <<registryVars, pc, symbols, seen, beat, timer, connectedAt,
                 sock, authAt, asked, carried, moved>>

\* heartbeat_at is in use: it ages until its record is written.
Reading == {"union", "record", "beat_union", "beat_record"}

OwnerTick ==
  /\ pc \in Reading => beat < MaxDelay
  /\ Ageing
  /\ UnionMoves
  /\ beat' = IF pc \in Reading THEN beat + 1 ELSE 0
  /\ timer' = IF timer > 0 THEN timer - 1 ELSE 0
  /\ UNCHANGED <<pc, symbols, seen, connectedAt, sock, authAt, deadline, crashes,
                 asked, carried>>

-----------------------------------------------------------------------------
OuterLoop == \/ Start \/ Stop \/ ReadStrategies \/ ReadLeases \/ RecordWaiting
             \/ Wake \/ OpenWindow \/ RecordRejected \/ RecordReconnecting
             \/ RecordError
Refresh == BeginRefresh \/ RefreshLeases \/ KeepWindow \/ LeaveWindow
Generator == SocketOpens \/ SubscribeAnswered \/ SocketDrops \/ ConnectionClosed
Writers ==
  \/ \E s \in StrategyIds, def \in Definitions : ActivateStrategy(s, def)
  \/ \E p \in Principals, req \in SUBSET Symbols, left \in 1..MaxLease :
        Subscribe(p, req, left)

\* Every step but the passing of time.
SipStep == \/ OuterLoop \/ Refresh \/ WindowDeadline \/ Event \/ WindowFails
           \/ Generator \/ Crash \/ Writers \/ DeadlinePasses

SipNext == SipStep \/ OwnerTick

\* The scheduler runs the process and the clock; connect() retries until a
\* socket opens, and Alpaca answers a handshake that is repeated for ever.
SipFairness ==
  /\ WF_sipVars(OuterLoop)
  /\ WF_sipVars(Refresh)
  /\ WF_sipVars(WindowDeadline)
  /\ SF_sipVars(ConnectionClosed)
  /\ WF_sipVars(OwnerTick)
  /\ SF_sipVars(SocketOpens)
  /\ SF_sipVars(SubscribeAnswered)

SipSpec == SipInit /\ [][SipNext]_sipVars /\ SipFairness

-----------------------------------------------------------------------------
(* Safety *)

\* While the stream is subscribed, or its subscription is being renewed, the row
\* of market_data_runtime names exactly the symbols it was asked for: what
\* /v1/market-data/status reports of the owner (api.py _market_status) is what the
\* subscribe message of the one SIP connection names, and the connection carries
\* nothing else.
RowNamesTheStream ==
  sock \in {"open", "draining", "lost"} =>
    /\ runtime.symbols = symbols
    /\ asked = symbols
    /\ carried \subseteq runtime.symbols

\* A row that says CONNECTED while the process lives belongs to the current
\* window, which asked the provider for those very symbols and was answered; at
\* most the row of its end is still to be written.  No row of an earlier window,
\* of another symbol set or of a dead process survives a restart.
ConnectedRowIsThisWindow ==
  runtime.state = "connected" =>
    /\ runtime.symbols = asked
    /\ pc # "down" => /\ pc \in Window \cup {"returned", "failed"}
                      /\ runtime.symbols = symbols

WindowReturns == pc \in Window /\ pc' = "returned"

\* The owner gives up a working connection for the deadline or because active
\* strategies or leases changed since it read them: nothing else a refresh
\* does, at any interleaving, makes it reconnect.  PROGRESS.md:88-89.  (The
\* union itself need not have changed: what goes from a lease to a strategy
\* between the two reads of active_market_symbols is in neither.)
QuietRegistryKeepsConnection ==
  [][WindowReturns => (moved = "yes" \/ deadline = "passed")]_sipVars

-----------------------------------------------------------------------------
(* Liveness *)

Streamed(s) == sock = "open" /\ s \in carried

\* The provider has answered the subscription, and not with all of it.
Declined == sock \in {"open", "draining"} /\ carried # symbols

\* docs/API.md:298 promises the holder of a lease that the owner subscribes its
\* symbols: every well-formed symbol that an active strategy or an unexpired
\* lease asks for is some day streamed, unless nobody asks for it any more or the
\* provider declines.  It fails where a strategy may be registered with a malformed
\* symbol: that registration is accepted, and the owner then exits whenever it
\* records the union (run_sip_owner.py:202).
WantedIsStreamed ==
  \A s \in Symbols \ Malformed :
    (s \in Desired) ~> (Streamed(s) \/ s \notin Desired \/ Declined)

\* The same while no strategy asks for a malformed symbol: through restarts,
\* failures of the stream, deadlines and changes of the union, a wanted symbol is
\* some day streamed, or refused in an answer of the provider.  (run_sip_owner.py,
\* _run)
RecordableIsStreamed ==
  \A s \in Symbols \ Malformed :
    (s \in Desired) ~>
      (Streamed(s) \/ s \notin Desired \/ Declined \/ ~Recordable(Desired))

\* A symbol nobody asks for any more is some day no longer streamed.
UnwantedIsDropped ==
  \A s \in Symbols \ Malformed : (s \notin Desired) ~> (~Streamed(s) \/ s \in Desired)
=============================================================================
