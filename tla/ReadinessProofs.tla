--------------------------- MODULE ReadinessProofs ---------------------------
(***************************************************************************)
(* TLAPS proofs about SipOwner and Readiness, for every set of symbols,    *)
(* strategies and principals and every value of the time bounds.           *)
(*                                                                         *)
(* The safety properties are not inductive: that a CONNECTED row names an  *)
(* answered subscription needs to be known of the values the owner         *)
(* carries in memory until it writes the row.  SipIInv adds that.          *)
(***************************************************************************)
EXTENDS Readiness, TLAPS

\* What the owner holds in memory, when it may still write it.
MemoryInv ==
  /\ sock # "none" => pc \in Window
  /\ pc \in Window \cup {"returned", "failed"} => runtime.symbols = symbols
  /\ authAt = "set" => pc \in Window /\ asked = symbols
  /\ connectedAt = "set" => pc \in Window /\ asked = symbols
  /\ carried # {} => sock \in {"open", "draining"}

SipIInv ==
  /\ SipTypeOK
  /\ RowNamesTheStream
  /\ ConnectedRowIsThisWindow
  /\ MemoryInv

\* The constants, as every lemma below uses them.
USE MarketRegistryAssumption, SipOwnerAssumption

\* The registry's tables are well typed after each write.
LEMMA RecordTyped ==
  ASSUME SipTypeOK,
         NEW state \in RuntimeStates,
         NEW set \in SUBSET Symbols,
         NEW age \in 0..MaxDelay,
         RecordMarketRuntime(state, set, age)
  PROVE  RegistryTypeOK'
<1>1. set \in SUBSET (Symbols \ Malformed)
  BY DEF RecordMarketRuntime, Recordable
<1>2. age \in 0..MaxAge
  BY DEF MaxAge
<1> QED
  BY <1>1, <1>2 DEF RecordMarketRuntime, SipTypeOK, RegistryTypeOK, MaxAge

\* Reads return sets of symbols.
LEMMA UnionTyped ==
  ASSUME RegistryTypeOK
  PROVE  /\ StrategySymbols \in SUBSET Symbols
         /\ \A age : LeasedSymbols(age) \in SUBSET Symbols
BY DEF RegistryTypeOK, StrategySymbols, LeasedSymbols

LEMMA AgeingTyped ==
  ASSUME RegistryTypeOK, Ageing
  PROVE  RegistryTypeOK'
<1>1. leases' \in [Principals -> [symbols : SUBSET (Symbols \ Malformed),
                                  left : (-MaxDelay)..MaxLease]]
  <2>1. SUFFICES ASSUME NEW p \in Principals
                 PROVE  leases'[p] \in [symbols : SUBSET (Symbols \ Malformed),
                                        left : (-MaxDelay)..MaxLease]
    BY DEF Ageing
  <2>2. leases[p] \in [symbols : SUBSET (Symbols \ Malformed),
                       left : (-MaxDelay)..MaxLease]
    BY DEF RegistryTypeOK
  <2>3. leases'[p] = [leases[p] EXCEPT !.left =
                        IF leases[p].left > -MaxDelay THEN leases[p].left - 1
                        ELSE leases[p].left]
    BY DEF Ageing
  <2> QED
    BY <2>2, <2>3
<1>2. runtime' \in [state : RuntimeStates,
                    symbols : SUBSET (Symbols \ Malformed),
                    age : 0..MaxAge]
  <2>1. runtime \in [state : RuntimeStates,
                     symbols : SUBSET (Symbols \ Malformed),
                     age : 0..MaxAge]
    BY DEF RegistryTypeOK
  <2>2. runtime' = [runtime EXCEPT !.age =
                      IF runtime.age < MaxAge THEN runtime.age + 1
                      ELSE runtime.age]
    BY DEF Ageing
  <2> QED
    BY <2>1, <2>2 DEF MaxAge
<1> QED
  BY <1>1, <1>2 DEF Ageing, RegistryTypeOK

-----------------------------------------------------------------------------
(* The owner's steps *)

LEMMA OwnerInit == SipInit => SipIInv
BY DEF SipInit, RegistryInit, SipIInv, SipTypeOK, RegistryTypeOK, RuntimeStates,
       PCs, Window, Sockets, RowNamesTheStream, ConnectedRowIsThisWindow,
       MemoryInv, MaxAge

LEMMA OuterLoopKeepsInv ==
  ASSUME SipIInv, OuterLoop
  PROVE  SipIInv'
<1> USE DEF SipIInv, SipTypeOK, PCs, Window, Sockets, RowNamesTheStream,
            ConnectedRowIsThisWindow, MemoryInv
<1>1. CASE Start
  <2>1. RegistryTypeOK'
    BY <1>1, RecordTyped DEF Start, RuntimeStates
  <2> QED
    BY <1>1, <2>1 DEF Start, RecordMarketRuntime
<1>2. CASE Stop
  <2>1. RegistryTypeOK'
    BY <1>2, RecordTyped DEF Stop, RuntimeStates
  <2> QED
    BY <1>2, <2>1 DEF Stop, RecordMarketRuntime, ProcessGone, StreamClosed
<1>3. CASE ReadStrategies
  BY <1>3, UnionTyped DEF ReadStrategies, registryVars, RegistryTypeOK
<1>4. CASE ReadLeases
  BY <1>4, UnionTyped DEF ReadLeases, registryVars, RegistryTypeOK
<1>5. CASE RecordWaiting
  <2>1. RegistryTypeOK'
    BY <1>5, RecordTyped DEF RecordWaiting, RuntimeStates
  <2> QED
    BY <1>5, <2>1 DEF RecordWaiting, RecordMarketRuntime
<1>6. CASE Wake
  BY <1>6 DEF Wake, registryVars, RegistryTypeOK
<1>7. CASE OpenWindow
  <2>1. RegistryTypeOK'
    BY <1>7, RecordTyped DEF OpenWindow, RuntimeStates
  <2> QED
    BY <1>7, <2>1 DEF OpenWindow, RecordMarketRuntime
<1>8. CASE RecordRejected
  BY <1>8 DEF RecordRejected, ProcessGone, StreamClosed, registryVars, RegistryTypeOK
<1>9. CASE RecordReconnecting
  <2>1. RegistryTypeOK'
    BY <1>9, RecordTyped DEF RecordReconnecting, RuntimeStates
  <2> QED
    BY <1>9, <2>1 DEF RecordReconnecting, RecordMarketRuntime
<1>10. CASE RecordError
  <2>1. RegistryTypeOK'
    BY <1>10, RecordTyped DEF RecordError, RuntimeStates
  <2> QED
    BY <1>10, <2>1 DEF RecordError, RecordMarketRuntime
<1> QED
  BY <1>1, <1>2, <1>3, <1>4, <1>5, <1>6, <1>7, <1>8, <1>9, <1>10 DEF OuterLoop

LEMMA WindowKeepsInv ==
  ASSUME SipIInv, Refresh \/ WindowDeadline \/ Event \/ WindowFails
  PROVE  SipIInv'
<1> USE DEF SipIInv, SipTypeOK, PCs, Window, Sockets, RowNamesTheStream,
            ConnectedRowIsThisWindow, MemoryInv
<1>1. CASE BeginRefresh
  BY <1>1, UnionTyped DEF BeginRefresh, registryVars, RegistryTypeOK
<1>2. CASE RefreshLeases
  BY <1>2, UnionTyped DEF RefreshLeases, registryVars, RegistryTypeOK
<1>3. HeartbeatState \in RuntimeStates /\ (HeartbeatState = "connected" => connectedAt = "set")
  BY DEF HeartbeatState, RuntimeStates
<1>4. CASE KeepWindow
  <2>1. RegistryTypeOK'
    BY <1>3, <1>4, RecordTyped DEF KeepWindow
  <2> QED
    BY <1>3, <1>4, <2>1 DEF KeepWindow, RecordMarketRuntime
<1>5. CASE LeaveWindow
  <2>1. RegistryTypeOK'
    BY <1>3, <1>5, RecordTyped DEF LeaveWindow
  <2> QED
    BY <1>3, <1>5, <2>1
       DEF LeaveWindow, RecordMarketRuntime, CloseWindow, StreamClosed
<1>6. CASE WindowDeadline
  BY <1>6 DEF WindowDeadline, CloseWindow, StreamClosed, registryVars, RegistryTypeOK
<1>7. CASE Event
  <2>1. CASE UNCHANGED registryVars
    BY <1>7, <2>1 DEF Event, registryVars, RegistryTypeOK
  <2>2. CASE RecordMarketRuntime("connected", symbols, 0)
    <3>1. RegistryTypeOK'
      BY <2>2, RecordTyped DEF RuntimeStates
    <3> QED
      BY <1>7, <2>2, <3>1 DEF Event, RecordMarketRuntime
  <2> QED
    BY <1>7, <2>1, <2>2 DEF Event
<1>8. CASE WindowFails
  BY <1>8 DEF WindowFails, CloseWindow, StreamClosed, registryVars, RegistryTypeOK
<1> QED
  BY <1>1, <1>2, <1>4, <1>5, <1>6, <1>7, <1>8 DEF Refresh

LEMMA WorldKeepsInv ==
  ASSUME SipIInv, Generator \/ Crash \/ Writers \/ DeadlinePasses \/ OwnerTick
  PROVE  SipIInv'
<1> USE DEF SipIInv, SipTypeOK, PCs, Window, Sockets, RowNamesTheStream,
            ConnectedRowIsThisWindow, MemoryInv
<1>1. CASE SocketOpens
  BY <1>1 DEF SocketOpens, registryVars, RegistryTypeOK
<1>2. CASE SubscribeAnswered
  BY <1>2 DEF SubscribeAnswered, registryVars, RegistryTypeOK
<1>3. CASE SocketDrops
  BY <1>3 DEF SocketDrops, registryVars, RegistryTypeOK
<1>4. CASE ConnectionClosed
  BY <1>4 DEF ConnectionClosed, registryVars, RegistryTypeOK
<1>5. CASE Crash
  BY <1>5 DEF Crash, ProcessGone, StreamClosed, registryVars, RegistryTypeOK
<1>6. SipTypeOK /\ UnionMoves => moved' \in {"no", "yes"}
  BY DEF UnionMoves
<1>7. ASSUME NEW s \in StrategyIds, NEW def \in Definitions, ActivateStrategy(s, def)
      PROVE  SipIInv'
  <2>1. RegistryTypeOK'
    BY <1>7 DEF ActivateStrategy, Register, RegistryTypeOK
  <2> QED
    BY <1>6, <1>7, <2>1 DEF ActivateStrategy, Register
<1>8. ASSUME NEW p \in Principals, NEW set \in SUBSET Symbols, NEW left \in 1..MaxLease,
             Subscribe(p, set, left)
      PROVE  SipIInv'
  <2>1. RegistryTypeOK'
    <3>1. [symbols |-> set, left |-> left] \in
             [symbols : SUBSET (Symbols \ Malformed), left : (-MaxDelay)..MaxLease]
      BY <1>8 DEF Subscribe, SetMarketSubscription
    <3> QED
      BY <1>8, <3>1 DEF Subscribe, SetMarketSubscription, RegistryTypeOK
  <2> QED
    BY <1>6, <1>8, <2>1 DEF Subscribe, SetMarketSubscription
<1>9. CASE DeadlinePasses
  BY <1>9 DEF DeadlinePasses, registryVars, RegistryTypeOK
<1>10. CASE OwnerTick
  <2>1. RegistryTypeOK'
    BY <1>10, AgeingTyped DEF OwnerTick
  <2>2. runtime'.state = runtime.state /\ runtime'.symbols = runtime.symbols
    BY <1>10 DEF OwnerTick, Ageing, RegistryTypeOK
  <2>3. beat' \in 0..MaxDelay /\ timer' \in 0..RefreshTicks
    BY <1>10 DEF OwnerTick
  <2> QED
    BY <1>6, <1>10, <2>1, <2>2, <2>3 DEF OwnerTick
<1> QED
  BY <1>1, <1>2, <1>3, <1>4, <1>5, <1>7, <1>8, <1>9, <1>10 DEF Generator, Writers

LEMMA StutterKeepsInv ==
  ASSUME SipIInv, UNCHANGED sipVars
  PROVE  SipIInv'
BY DEF SipIInv, SipTypeOK, RegistryTypeOK, RowNamesTheStream,
       ConnectedRowIsThisWindow, MemoryInv, sipVars, registryVars, ownerVars

LEMMA SipStepKeepsInv ==
  ASSUME SipIInv, SipStep
  PROVE  SipIInv'
BY OuterLoopKeepsInv, WindowKeepsInv, WorldKeepsInv DEF SipStep

THEOREM SipInvariant == SipSpec => []SipIInv
<1>1. SipIInv /\ [SipNext]_sipVars => SipIInv'
  BY SipStepKeepsInv, WorldKeepsInv, StutterKeepsInv DEF SipNext
<1> QED
  BY <1>1, OwnerInit, PTL DEF SipSpec

\* The type invariant of the owner and the registry.
THEOREM SipTypeCorrect == SipSpec => []SipTypeOK
<1>1. SipIInv => SipTypeOK
  BY DEF SipIInv
<1> QED
  BY <1>1, SipInvariant, PTL

\* The runtime row names the symbols of the one stream.
THEOREM RowAlwaysNamesTheStream == SipSpec => []RowNamesTheStream
<1>1. SipIInv => RowNamesTheStream
  BY DEF SipIInv
<1> QED
  BY <1>1, SipInvariant, PTL

\* A CONNECTED row stands for an answered subscription of this window.
THEOREM ConnectedRowIsAlwaysThisWindow == SipSpec => []ConnectedRowIsThisWindow
<1>1. SipIInv => ConnectedRowIsThisWindow
  BY DEF SipIInv
<1> QED
  BY <1>1, SipInvariant, PTL

-----------------------------------------------------------------------------
(* Why a window returns *)

\* While neither side of the union has moved, what the owner has read is what the
\* registry stands for, though the leases are read as of an earlier moment.
QuietInv ==
  moved = "no" =>
    /\ pc \in Reading => LeasedSymbols(beat) = LeasedSymbols(0)
    /\ pc \in {"union", "beat_union"} => seen = StrategySymbols
    /\ pc \in {"record"} \cup Window => symbols = Desired
    /\ pc = "beat_record" => seen = Desired

\* A clock reading that ages sees the leases it saw when it was taken.
LEMMA AgeingKeepsReading ==
  ASSUME RegistryTypeOK, Ageing, NEW age \in 0..MaxDelay, age < MaxDelay
  PROVE  LeasedSymbols(age + 1)' = LeasedSymbols(age)
<1>1. ASSUME NEW p \in Principals
      PROVE  /\ leases'[p].symbols = leases[p].symbols
             /\ leases'[p].left + (age + 1) > 0 <=> leases[p].left + age > 0
  <2>1. /\ leases[p].left \in Int /\ -MaxDelay <= leases[p].left
        /\ leases[p] \in [symbols : SUBSET (Symbols \ Malformed),
                          left : (-MaxDelay)..MaxLease]
    BY DEF RegistryTypeOK
  <2>2. leases'[p] = [leases[p] EXCEPT !.left =
                        IF leases[p].left > -MaxDelay THEN leases[p].left - 1
                        ELSE leases[p].left]
    BY DEF Ageing
  <2> QED
    BY <2>1, <2>2
<1>2. {q \in Principals : leases'[q].left + (age + 1) > 0}
        = {q \in Principals : leases[q].left + age > 0}
  BY <1>1
<1> QED
  BY <1>1, <1>2 DEF LeasedSymbols

\* A lease that is replaced moves the union of an earlier moment only if it moves
\* today's.
LEMMA SubscribeKeepsReading ==
  ASSUME RegistryTypeOK, NEW age \in 0..MaxDelay,
         NEW p \in Principals, NEW set \in SUBSET Symbols, NEW left \in 1..MaxLease,
         SetMarketSubscription(p, set, left),
         LeasedSymbols(age) = LeasedSymbols(0), LeasedSymbols(0)' = LeasedSymbols(0)
  PROVE  LeasedSymbols(age)' = LeasedSymbols(0)'
<1>1. /\ leases'[p] = [symbols |-> set, left |-> left]
      /\ \A q \in Principals \ {p} : leases'[q] = leases[q]
  BY DEF SetMarketSubscription, RegistryTypeOK
<1>2. \A q \in Principals : leases[q].left \in Int /\ leases'[q].left \in Int
  BY <1>1 DEF RegistryTypeOK
<1>3. LeasedSymbols(0)' \subseteq LeasedSymbols(age)'
  BY <1>2 DEF LeasedSymbols
<1>4. ASSUME NEW s \in LeasedSymbols(age)' PROVE s \in LeasedSymbols(0)'
  <2>1. PICK q \in Principals : s \in leases'[q].symbols /\ leases'[q].left + age > 0
    BY DEF LeasedSymbols
  <2>2. CASE q = p
    <3>1. leases'[p].left + 0 > 0
      BY <1>1
    <3> QED
      BY <2>1, <2>2, <3>1 DEF LeasedSymbols
  <2>3. CASE q # p
    <3>1. s \in LeasedSymbols(age)
      BY <1>1, <2>1, <2>3 DEF LeasedSymbols
    <3> QED
      BY <3>1
  <2> QED
    BY <2>2, <2>3
<1> QED
  BY <1>3, <1>4

LEMMA OuterLoopKeepsQuiet ==
  ASSUME SipIInv, QuietInv, OuterLoop
  PROVE  QuietInv'
<1> USE DEF QuietInv, Window, Reading, Desired, StrategySymbols, LeasedSymbols
<1>1. CASE Start \/ Stop \/ RecordWaiting \/ Wake \/ RecordRejected
           \/ RecordReconnecting \/ RecordError
  BY <1>1 DEF Start, Stop, RecordWaiting, Wake, RecordRejected, RecordReconnecting,
              RecordError, ProcessGone
<1>2. CASE ReadStrategies
  BY <1>2 DEF ReadStrategies, registryVars
<1>3. CASE ReadLeases
  BY <1>3 DEF ReadLeases, registryVars
<1>4. CASE OpenWindow
  BY <1>4 DEF OpenWindow, RecordMarketRuntime
<1> QED
  BY <1>1, <1>2, <1>3, <1>4 DEF OuterLoop

LEMMA WindowKeepsQuiet ==
  ASSUME SipIInv, QuietInv, Refresh \/ WindowDeadline \/ Event \/ WindowFails
  PROVE  QuietInv'
<1> USE DEF QuietInv, Window, Reading, Desired, StrategySymbols, LeasedSymbols
<1>1. CASE BeginRefresh
  BY <1>1 DEF BeginRefresh, registryVars
<1>2. CASE RefreshLeases
  BY <1>2 DEF RefreshLeases, registryVars
<1>3. CASE KeepWindow
  BY <1>3 DEF KeepWindow, RecordMarketRuntime
<1>4. CASE LeaveWindow \/ WindowDeadline \/ WindowFails
  BY <1>4 DEF LeaveWindow, WindowDeadline, WindowFails, CloseWindow
<1>5. CASE Event
  BY <1>5 DEF Event, RecordMarketRuntime, registryVars
<1> QED
  BY <1>1, <1>2, <1>3, <1>4, <1>5 DEF Refresh

LEMMA WorldKeepsQuiet ==
  ASSUME SipIInv, QuietInv, Generator \/ Crash \/ Writers \/ DeadlinePasses \/ OwnerTick
  PROVE  QuietInv'
<1>1. CASE Generator \/ DeadlinePasses
  BY <1>1 DEF Generator, SocketOpens, SubscribeAnswered, SocketDrops, ConnectionClosed,
              DeadlinePasses, registryVars, QuietInv, Desired, StrategySymbols, LeasedSymbols
<1>2. CASE Crash
  BY <1>2 DEF Crash, ProcessGone, QuietInv, Window, Reading
<1>3. RegistryTypeOK /\ beat \in 0..MaxDelay
  BY DEF SipIInv, SipTypeOK
<1>4. ASSUME UnionMoves, moved' = "no"
      PROVE  /\ moved = "no"
             /\ StrategySymbols' = StrategySymbols /\ LeasedSymbols(0)' = LeasedSymbols(0)
             /\ Desired' = Desired
  BY <1>4 DEF UnionMoves, Desired
<1>5. ASSUME NEW s \in StrategyIds, NEW def \in Definitions, ActivateStrategy(s, def)
      PROVE  QuietInv'
  <2>1. UNCHANGED <<pc, symbols, seen, beat, leases>> /\ UnionMoves
    BY <1>5 DEF ActivateStrategy, Register
  <2>2. LeasedSymbols(beat)' = LeasedSymbols(beat)
    BY <2>1 DEF LeasedSymbols
  <2> QED
    BY <1>4, <2>1, <2>2 DEF QuietInv
<1>6. ASSUME NEW p \in Principals, NEW set \in SUBSET Symbols, NEW left \in 1..MaxLease,
             Subscribe(p, set, left)
      PROVE  QuietInv'
  <2>1. UNCHANGED <<pc, symbols, seen, beat>> /\ UnionMoves
        /\ SetMarketSubscription(p, set, left)
    BY <1>6 DEF Subscribe
  <2>2. moved' = "no" /\ pc \in Reading => LeasedSymbols(beat)' = LeasedSymbols(0)'
    <3>1. SUFFICES ASSUME moved' = "no", pc \in Reading
                   PROVE  LeasedSymbols(beat)' = LeasedSymbols(0)'
      OBVIOUS
    <3>2. LeasedSymbols(beat) = LeasedSymbols(0) /\ LeasedSymbols(0)' = LeasedSymbols(0)
      BY <1>4, <2>1, <3>1 DEF QuietInv
    <3>3. ASSUME NEW age \in 0..MaxDelay, LeasedSymbols(age) = LeasedSymbols(0)
          PROVE  LeasedSymbols(age)' = LeasedSymbols(0)'
      BY <1>3, <2>1, <3>2, <3>3, SubscribeKeepsReading
    <3>4. PICK age \in 0..MaxDelay : age = beat /\ age = beat'
      BY <1>3, <2>1
    <3>5. LeasedSymbols(age)' = LeasedSymbols(0)'
      BY <3>2, <3>3, <3>4
    <3> QED
      BY <3>4, <3>5 DEF LeasedSymbols
  <2> QED
    BY <1>4, <2>1, <2>2 DEF QuietInv
<1>7. CASE OwnerTick
  <2>1. /\ UNCHANGED <<pc, symbols, seen>> /\ UnionMoves /\ Ageing
        /\ pc \in Reading => beat < MaxDelay /\ beat' = beat + 1
    BY <1>7 DEF OwnerTick
  <2>2. pc \in Reading => LeasedSymbols(beat)' = LeasedSymbols(beat)
    <3>1. SUFFICES ASSUME pc \in Reading PROVE LeasedSymbols(beat)' = LeasedSymbols(beat)
      OBVIOUS
    <3>2. ASSUME NEW age \in 0..MaxDelay, age < MaxDelay
          PROVE  LeasedSymbols(age + 1)' = LeasedSymbols(age)
      BY <1>3, <2>1, <3>2, AgeingKeepsReading
    <3> QED
      BY <1>3, <2>1, <3>1, <3>2 DEF LeasedSymbols
  <2> QED
    BY <1>4, <2>1, <2>2 DEF QuietInv
<1> QED
  BY <1>1, <1>2, <1>5, <1>6, <1>7 DEF Writers

THEOREM QuietInvariant == SipSpec => []QuietInv
<1>1. SipInit => QuietInv
  BY DEF SipInit, QuietInv, Reading, Window
<1>2. SipIInv /\ QuietInv /\ [SipNext]_sipVars => QuietInv'
  <2>1. SipIInv /\ QuietInv /\ UNCHANGED sipVars => QuietInv'
    BY DEF QuietInv, sipVars, registryVars, ownerVars, Desired, StrategySymbols,
           LeasedSymbols
  <2> QED
    BY <2>1, OuterLoopKeepsQuiet, WindowKeepsQuiet, WorldKeepsQuiet DEF SipNext, SipStep
<1> QED
  BY <1>1, <1>2, SipInvariant, PTL DEF SipSpec

\* A window is given up for the deadline, or because strategies or leases moved
\* since they were read: never because of how the reads of the union fell.
\* (run_sip_owner.py:84-138)
THEOREM QuietRegistryAlwaysKeepsConnection == SipSpec => QuietRegistryKeepsConnection
<1>1. ASSUME SipIInv, QuietInv, [SipNext]_sipVars, WindowReturns
      PROVE  moved = "yes" \/ deadline = "passed"
  <2>1. WindowDeadline \/ LeaveWindow
    <3>1. pc \in Window /\ pc' = "returned" /\ pc' # pc
      BY <1>1 DEF WindowReturns, Window
    <3>2. ~OuterLoop
      BY <3>1 DEF OuterLoop, Start, Stop, ReadStrategies, ReadLeases, RecordWaiting, Wake,
                  OpenWindow, RecordRejected, RecordReconnecting, RecordError, Window
    <3>3. ~Generator /\ ~Crash /\ ~Writers /\ ~DeadlinePasses /\ ~OwnerTick /\ ~Event
      BY <3>1 DEF Generator, SocketOpens, SubscribeAnswered, SocketDrops, ConnectionClosed,
                  Crash, ProcessGone, Writers, ActivateStrategy, Subscribe, DeadlinePasses,
                  OwnerTick, Event
    <3>4. ~WindowFails /\ ~BeginRefresh /\ ~RefreshLeases /\ ~KeepWindow
      BY <3>1 DEF WindowFails, CloseWindow, BeginRefresh, RefreshLeases, KeepWindow
    <3> QED
      BY <1>1, <3>1, <3>2, <3>3, <3>4 DEF SipNext, SipStep, Refresh, sipVars, ownerVars
  <2>2. CASE WindowDeadline
    BY <2>2 DEF WindowDeadline
  <2>3. CASE LeaveWindow
    BY <1>1, <2>3 DEF LeaveWindow, QuietInv, SipIInv, SipTypeOK, Window
  <2> QED
    BY <2>1, <2>2, <2>3
<1> QED
  BY <1>1, SipInvariant, QuietInvariant, PTL DEF SipSpec, QuietRegistryKeepsConnection

-----------------------------------------------------------------------------
(* The composition with GET /ready *)

\* The age of the row is never less than the time since its writer lived:
\* every row but STOPPED is written by a process that goes on living.
AgeInv ==
  /\ pc # "down" => deadFor = 0
  /\ deadFor <= runtime.age

ReadyIInv ==
  /\ SipIInv
  /\ ReadyTypeOK
  /\ AgeInv

LEMMA ReadyInitInv == ReadyInit => ReadyIInv
<1> SUFFICES ASSUME ReadyInit PROVE ReadyIInv
  OBVIOUS
<1>1. SipIInv
  BY OwnerInit DEF ReadyInit
<1>2. pc = "down" /\ runtime.age = 0
  BY DEF ReadyInit, SipInit, RegistryInit
<1> QED
  BY <1>1, <1>2 DEF ReadyInit, ReadyIInv, SipIInv, ReadyTypeOK, AgeInv, ReqStages,
                    Resting, Answered, MaxAge

\* Nobody writes the row while no process runs.
LEMMA DownLeavesRow ==
  ASSUME SipStep, pc = "down", pc' = "down"
  PROVE  runtime' = runtime
<1>1. CASE OuterLoop
  BY <1>1 DEF OuterLoop, Start, Stop, ReadStrategies, ReadLeases, RecordWaiting,
              Wake, OpenWindow, RecordRejected, RecordReconnecting, RecordError
<1>2. CASE Refresh \/ WindowDeadline \/ Event \/ WindowFails
  BY <1>2 DEF Refresh, BeginRefresh, RefreshLeases, KeepWindow, LeaveWindow,
              WindowDeadline, Event, WindowFails, Window
<1>3. CASE Generator
  BY <1>3 DEF Generator, SocketOpens, SubscribeAnswered, SocketDrops, ConnectionClosed,
              registryVars
<1>4. CASE Crash \/ DeadlinePasses
  BY <1>4 DEF Crash, DeadlinePasses
<1>5. CASE Writers
  BY <1>5 DEF Writers, ActivateStrategy, Register, Subscribe, SetMarketSubscription
<1> QED
  BY <1>1, <1>2, <1>3, <1>4, <1>5 DEF SipStep

LEMMA ReadyStepKeepsInv ==
  ASSUME ReadyIInv, [ReadyNext]_readyVars
  PROVE  ReadyIInv'
<1>1. CASE OwnerMoves
  <2>1. SipIInv'
    BY <1>1, SipStepKeepsInv DEF OwnerMoves, ReadyIInv
  <2>2. AgeInv' /\ deadFor' \in 0..MaxAge /\ blindFor' \in 0..MaxAge
    <3>1. runtime.age \in 0..MaxAge /\ runtime'.age \in 0..MaxAge
      BY <2>1 DEF ReadyIInv, SipIInv, SipTypeOK, RegistryTypeOK
    <3>2. CASE pc = "down" /\ pc' = "down"
      BY <1>1, <3>1, <3>2, DownLeavesRow
         DEF OwnerMoves, Witnessed, ReadyIInv, ReadyTypeOK, AgeInv, MaxAge
    <3>3. CASE pc # "down" \/ pc' # "down"
      BY <1>1, <3>1, <3>3
         DEF OwnerMoves, Witnessed, ReadyIInv, ReadyTypeOK, AgeInv, MaxAge
    <3> QED
      BY <3>2, <3>3
  <2> QED
    BY <1>1, <2>1, <2>2 DEF OwnerMoves, ReadyIInv, ReadyTypeOK, SipIInv
<1>2. CASE ReadyStrategies \/ ReadyLeases \/ ReadyAnswer
  <2>1. UNCHANGED sipVars /\ UNCHANGED <<deadFor, blindFor>>
    BY <1>2 DEF ReadyStrategies, ReadyLeases, ReadyAnswer
  <2>2. SipIInv'
    BY <2>1, StutterKeepsInv DEF ReadyIInv
  <2>3. AgeInv'
    BY <2>1 DEF ReadyIInv, AgeInv, sipVars, registryVars, ownerVars
  <2>4. req' \in [at : ReqStages, symbols : SUBSET Symbols, elapsed : 0..MaxDelay]
    <3>1. StrategySymbols \in SUBSET Symbols
          /\ \A age : LeasedSymbols(age) \in SUBSET Symbols
      BY UnionTyped DEF ReadyIInv, SipIInv, SipTypeOK
    <3>2. CASE ReadyStrategies
      BY <3>1, <3>2 DEF ReadyStrategies, ReqStages
    <3>3. CASE ReadyLeases
      BY <3>1, <3>3 DEF ReadyLeases, ReqStages, ReadyIInv, ReadyTypeOK
    <3>4. CASE ReadyAnswer
      BY <3>4 DEF ReadyAnswer, Answered, ReqStages, Resting
    <3> QED
      BY <1>2, <3>2, <3>3, <3>4
  <2> QED
    BY <2>1, <2>2, <2>3, <2>4 DEF ReadyIInv, ReadyTypeOK, SipIInv
<1>3. CASE Tick
  <2>1. SipIInv'
    BY <1>3, WorldKeepsInv DEF Tick, ReadyIInv
  <2>2. pc' = pc /\ runtime'.age = IF runtime.age < MaxAge THEN runtime.age + 1
                                   ELSE runtime.age
    BY <1>3 DEF Tick, OwnerTick, Ageing, ReadyIInv, SipIInv, SipTypeOK, RegistryTypeOK
  <2>3. runtime.age \in 0..MaxAge
    BY DEF ReadyIInv, SipIInv, SipTypeOK, RegistryTypeOK
  <2>4. AgeInv' /\ deadFor' \in 0..MaxAge /\ blindFor' \in 0..MaxAge
    BY <1>3, <2>2, <2>3 DEF Tick, Older, ReadyIInv, ReadyTypeOK, AgeInv, MaxAge
  <2>5. req' \in [at : ReqStages, symbols : SUBSET Symbols, elapsed : 0..MaxDelay]
    BY <1>3 DEF Tick, ReadyIInv, ReadyTypeOK
  <2> QED
    BY <2>1, <2>4, <2>5 DEF ReadyIInv, ReadyTypeOK, SipIInv
<1>4. CASE UNCHANGED readyVars
  <2>1. SipIInv'
    BY <1>4, StutterKeepsInv DEF ReadyIInv, readyVars
  <2> QED
    BY <1>4, <2>1 DEF ReadyIInv, SipIInv, ReadyTypeOK, AgeInv, readyVars, sipVars,
                      registryVars, ownerVars
<1> QED
  BY <1>1, <1>2, <1>3, <1>4 DEF ReadyNext

THEOREM ReadyInvariant == ReadySpec => []ReadyIInv
BY ReadyInitInv, ReadyStepKeepsInv, PTL DEF ReadySpec

\* The type invariant of the composition.
THEOREM ReadyTypeCorrect == ReadySpec => []ReadyTypeOK
<1>1. ReadyIInv => ReadyTypeOK
  BY DEF ReadyIInv
<1> QED
  BY <1>1, ReadyInvariant, PTL

LEMMA AnswerIsReady ==
  ASSUME ReadyTypeOK, [ReadyNext]_readyVars, AnswersReady
  PROVE  RuntimeIsReady(req.symbols, req.elapsed)
<1>1. ~OwnerMoves /\ ~Tick /\ ~ReadyStrategies /\ ~ReadyLeases
  <2>1. ~OwnerMoves
    BY DEF AnswersReady, OwnerMoves
  <2>2. ~Tick
    BY DEF AnswersReady, Tick, ReadyTypeOK
  <2>3. ~ReadyStrategies /\ ~ReadyLeases
    BY DEF AnswersReady, ReadyStrategies, ReadyLeases, Resting
  <2> QED
    BY <2>1, <2>2, <2>3
<1>2. readyVars' # readyVars
  BY DEF AnswersReady, readyVars
<1>3. ReadyAnswer
  BY <1>1, <1>2 DEF ReadyNext
<1> QED
  BY <1>3 DEF ReadyAnswer, Answered, AnswersReady

\* /ready answers 200 only for the symbols this owner asked for and was answered
\* about, and its connection carries no others: for any symbols, strategies, leases
\* and time bounds.  (api.py:131-164)
THEOREM ReadyIsAnswered == ReadySpec => ReadyOnlyWhenAnswered
<1>1. ASSUME ReadyIInv, [ReadyNext]_readyVars, AnswersReady
      PROVE  req.symbols # {} /\ req.symbols = asked /\ carried \subseteq req.symbols
  <2>1. runtime.state = "connected" /\ runtime.symbols = req.symbols /\ req.symbols # {}
    BY <1>1, AnswerIsReady DEF RuntimeIsReady, ReadyIInv
  <2>2. runtime.symbols = asked
    BY <1>1, <2>1 DEF ReadyIInv, SipIInv, ConnectedRowIsThisWindow
  <2>3. carried \subseteq runtime.symbols
    BY <1>1 DEF ReadyIInv, SipIInv, MemoryInv, RowNamesTheStream
  <2> QED
    BY <2>1, <2>2, <2>3
<1> QED
  BY <1>1, ReadyInvariant, PTL DEF ReadySpec, ReadyOnlyWhenAnswered

\* /ready notices a dead owner within the window of the heartbeat.
THEOREM DeadOwnerIsAlwaysNoticed == ReadySpec => DeadOwnerIsNoticed
<1>1. ASSUME ReadyIInv, [ReadyNext]_readyVars, AnswersReady
      PROVE  deadFor - req.elapsed <= ReadyTicks
  <2>1. runtime.age \in Nat /\ deadFor \in Nat /\ req.elapsed \in Nat
    BY <1>1 DEF ReadyIInv, ReadyTypeOK, SipIInv, SipTypeOK, RegistryTypeOK
  <2> QED
    BY <1>1, <2>1, AnswerIsReady DEF RuntimeIsReady, ReadyIInv, AgeInv
<1> QED
  BY <1>1, ReadyInvariant, PTL DEF ReadySpec, DeadOwnerIsNoticed
=============================================================================
