---------------------------- MODULE MarketRegistry ----------------------------
(***************************************************************************)
(* The part of cloud_strategy_platform/registry.py (SQLite) through which  *)
(* the API process and the SIP owner process talk about market data: the   *)
(* active strategy versions, the subscription leases and the one row of    *)
(* table market_data_runtime.  Every operator below is one SQL statement,  *)
(* committed by itself (isolation_level=None), so it is one atomic step    *)
(* of whichever process executes it.                                       *)
(*                                                                         *)
(* Time is relative: a lease keeps the time it has left, the runtime row   *)
(* the age of its heartbeat, and Ageing moves both on by one tick.  A tick *)
(* is the unit of RefreshTicks and ReadyTicks (30 s with the defaults).    *)
(***************************************************************************)
EXTENDS Integers, FiniteSets

CONSTANTS
  Symbols,        \* every symbol a definition or a lease may name
  Malformed,      \* those that [A-Z][A-Z0-9.-]{0,15} does not match
  StrategyIds,    \* strategies that may be registered
  Definitions,    \* the symbol sets their versions may carry
  Principals,     \* API principals that may hold a lease
  MaxLease,       \* bound: the longest lease, in ticks
  MaxDelay,       \* bound: ticks between a clock reading and its last use
  ReadyTicks      \* the 90 s of _runtime_is_ready, in ticks

ASSUME MarketRegistryAssumption ==
  /\ Malformed \subseteq Symbols
  /\ Definitions \subseteq SUBSET Symbols
  /\ {} \notin Definitions
  /\ MaxLease \in Nat \ {0}
  /\ MaxDelay \in Nat
  /\ ReadyTicks \in Nat

VARIABLES
  active,   \* strategy id -> symbols of its active version, {} if none
  leases,   \* principal -> [symbols, left]: its row of market_data_subscriptions
  runtime   \* [state, symbols, age]: the row of market_data_runtime

registryVars == <<active, leases, runtime>>

\* contracts.py, MarketDataRuntimeState; "absent" is the missing row
RuntimeStates == {"absent", "starting", "waiting_for_subscription", "connecting",
                  "connected", "reconnecting", "error", "stopped"}

\* Ages above this are all too old for every reader, so they are one.
MaxAge == ReadyTicks + MaxDelay + 1

RegistryTypeOK ==
  /\ active \in [StrategyIds -> SUBSET Symbols]
  /\ leases \in [Principals -> [symbols : SUBSET (Symbols \ Malformed),
                                left : (-MaxDelay)..MaxLease]]
  /\ runtime \in [state : RuntimeStates,
                  symbols : SUBSET (Symbols \ Malformed),
                  age : 0..MaxAge]

RegistryInit ==
  /\ active = [s \in StrategyIds |-> {}]
  /\ leases = [p \in Principals |-> [symbols |-> {}, left |-> -MaxDelay]]
  /\ runtime = [state |-> "absent", symbols |-> {}, age |-> 0]

-----------------------------------------------------------------------------
(* Writes *)

\* register(definition, activate=True): one BEGIN IMMEDIATE transaction, so
\* the old version goes inactive and the new one active in a single step.
Register(s, symbols) ==
  /\ symbols \in Definitions
  /\ active' = [active EXCEPT ![s] = symbols]
  /\ UNCHANGED <<leases, runtime>>

\* set_market_subscription: rejects an empty or malformed set and an expiry
\* that is not in the future, else replaces the principal's lease.
SetMarketSubscription(p, symbols, left) ==
  /\ left > 0
  /\ symbols # {}
  /\ symbols \cap Malformed = {}
  /\ leases' = [leases EXCEPT ![p] = [symbols |-> symbols, left |-> left]]
  /\ UNCHANGED <<active, runtime>>

\* The contract MarketDataRuntime, which record_market_runtime builds before
\* it writes, raises on a symbol set that is not recordable.
Recordable(symbols) == symbols \cap Malformed = {}

\* record_market_runtime: the upsert of the row, with a heartbeat read from
\* the clock age ticks ago.
RecordMarketRuntime(state, symbols, age) ==
  /\ Recordable(symbols)
  /\ runtime' = [state |-> state, symbols |-> symbols, age |-> age]
  /\ UNCHANGED <<active, leases>>

-----------------------------------------------------------------------------
(* Reads *)

\* active_strategies, as active_market_symbols uses it: its first read.
StrategySymbols == UNION {active[s] : s \in StrategyIds}

\* The second read of active_market_symbols: the leases that had not expired
\* at a moment age ticks ago (expires_at_utc > at_utc).
LeasedSymbols(age) ==
  UNION {leases[p].symbols : p \in {q \in Principals : leases[q].left + age > 0}}

\* The union the registry stands for now, read in one instant.
Desired == StrategySymbols \cup LeasedSymbols(0)

\* Mistake: any heartbeat of the past will do.
RuntimeIsReadyAtAnyAge(symbols, elapsed) ==
  /\ symbols # {}
  /\ runtime.state = "connected"
  /\ runtime.symbols = symbols
  /\ runtime.age - elapsed >= 0

\* _runtime_is_ready, for a clock read elapsed ticks ago and the symbols that
\* were active then.
RuntimeIsReady(symbols, elapsed) ==
  /\ symbols # {}
  /\ runtime.state = "connected"
  /\ runtime.symbols = symbols
  /\ runtime.age - elapsed >= 0
  /\ runtime.age - elapsed <= ReadyTicks

-----------------------------------------------------------------------------
(* Time *)

Ageing ==
  /\ leases' = [p \in Principals |->
       [leases[p] EXCEPT !.left = IF @ > -MaxDelay THEN @ - 1 ELSE @]]
  /\ runtime' = [runtime EXCEPT !.age = IF @ < MaxAge THEN @ + 1 ELSE @]
  /\ UNCHANGED active
=============================================================================
