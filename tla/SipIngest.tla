------------------------------ MODULE SipIngest ------------------------------
(***************************************************************************)
(* What the SIP owner does with the events of its stream: sampling of      *)
(* quotes (scripts/run_sip_owner.py, _should_ingest), the raw ledger, the  *)
(* feature library (feature_store.py) and the signals of the active        *)
(* strategies (platform.py, process_sip_event; registry.py,                *)
(* publish_signal).  process_sip_event has no await, but each of its       *)
(* database calls commits alone: strategies are activated, the provider    *)
(* sends, a call fails or the process is killed between any two of them.   *)
(***************************************************************************)
EXTENDS EventLedger

CONSTANTS
  KindOf,      \* event -> "bar" or "quote"
  ArrivesAt,   \* event -> when the provider sends it: a bar once its minute is over
  Second,      \* ticks of ts_utc per second
  Versions,    \* strategy versions that may be activated
  StrategyOf,  \* version -> its strategy
  SymbolsOf,   \* version -> the symbols of its definition
  NeedsOf,     \* version -> the features its expression reads
  MaxBreaks    \* bound: failed calls and kills together

ASSUME SipIngestAssumption ==
  /\ "none" \notin Events
  /\ KindOf \in [Events -> {"bar", "quote"}]
  /\ ArrivesAt \in [Events -> Nat]
  /\ Second \in Nat \ {0}
  /\ MaxBreaks \in Nat

\* The provider closes a minute once.  What corrects a bar later comes on another
\* channel, to which the owner does not subscribe.  (market_data.py:157)
ASSUME OneBarAMinute ==
  \A e, f \in Events :
    KindOf[e] = "bar" /\ KindOf[f] = "bar" /\ SymbolOf[e] = SymbolOf[f] /\ TsOf[e] = TsOf[f]
    => e = f

VARIABLES
  coming,    \* the events the provider has yet to send
  frame,     \* events received in this window and not yet yielded
  sampled,   \* sampled_seconds: symbol -> second of its last sampled quote, or -1
  pc,        \* where the owner is, see Steps
  event,     \* the event being processed, or "none"
  base,      \* the bar whose close is previous_close, or "none"
  left,      \* features of event still to be put
  vector,    \* the vector that ingest returned: a set of features
  todo,      \* active versions still to be evaluated
  features,  \* table feature_values, see Feature
  signals,   \* table derived_signals, see Signal
  active,    \* the active strategy versions
  breaks,    \* failed calls and kills so far
  since      \* history: versions active at some moment since event was stored

jobVars == <<event, base, left, vector, todo>>
ingestVars == <<ledger, coming, frame, sampled, pc, jobVars, features, signals,
                active, breaks, since>>

\* down: no process.  between: no window.  window: in asyncio.wait of a window.
\* The others: before that database call of process_sip_event.
Steps == {"append", "previous", "put", "vector", "strategies", "publish"}

BarFeatures == <<"close", "volume", "vwap", "minute_return">>
QuoteFeatures == <<"nbbo_midpoint", "nbbo_spread_bps">>
FeaturesOf(e) == IF KindOf[e] = "bar" THEN BarFeatures ELSE QuoteFeatures

RangeOf(seq) == {seq[i] : i \in 1..Len(seq)}
Names == RangeOf(BarFeatures) \cup RangeOf(QuoteFeatures)
EventSymbols == {SymbolOf[e] : e \in Events}
SecondOf(e) == TsOf[e] \div Second

\* A row of feature_values: computed from event, minute_return also from the
\* close of base, and null if that is "none".  Symbol and asof_utc are event's.
Feature == [name : Names, event : Events, base : Events \cup {"none"}]

\* A row of derived_signals.  The vector it rests on decides action and reason.
Signal == [version : Versions, event : Events, vector : SUBSET Feature]

IngestTypeOK ==
  /\ ledger \in Seq(Events)
  /\ coming \subseteq Events
  /\ frame \in Seq(Events)
  /\ sampled \in [EventSymbols -> {SecondOf(e) : e \in Events} \cup {-1}]
  /\ pc \in {"down", "between", "window"} \cup Steps
  /\ event \in Events \cup {"none"} /\ (event = "none" <=> pc \notin Steps)
  /\ base \in Events \cup {"none"}
  /\ left \in Seq(Names)
  /\ vector \subseteq Feature
  /\ todo \subseteq Versions
  /\ features \subseteq Feature
  /\ \A g \in signals : g.version \in Versions /\ g.event \in Events
                        /\ g.vector \subseteq Feature
  /\ active \subseteq Versions
  /\ \A v, w \in active : StrategyOf[v] = StrategyOf[w] => v = w
  /\ breaks \in 0..MaxBreaks
  /\ since \subseteq Versions

NoJob ==
  /\ event' = "none" /\ base' = "none"
  /\ left' = <<>> /\ vector' = {} /\ todo' = {}

IngestInit ==
  /\ ledger = <<>>
  /\ coming = Events
  /\ frame = <<>>
  /\ sampled = [s \in EventSymbols |-> -1]
  /\ pc = "down"
  /\ event = "none" /\ base = "none"
  /\ left = <<>> /\ vector = {} /\ todo = {}
  /\ features = {} /\ signals = {}
  /\ active = {}
  /\ breaks = 0
  /\ since = {}

-----------------------------------------------------------------------------
(* Windows *)

\* The restart loop waits 5 s first: the quotes the live provider still sends
\* are of later seconds than any that was stored.
Restart ==
  /\ pc = "down"
  /\ pc' = "between"
  /\ sampled' = [s \in EventSymbols |-> -1]
  /\ coming' = {e \in coming : KindOf[e] = "quote" =>
       \A f \in RangeOf(ledger) : KindOf[f] = "quote" => SecondOf(f) < SecondOf(e)}
  /\ UNCHANGED <<ledger, frame, jobVars, features, signals, active, breaks, since>>

\* Mistake: sampled_seconds is a local variable of the window.
OpenWindowUnsampled ==
  /\ pc = "between"
  /\ pc' = "window"
  /\ sampled' = [s \in EventSymbols |-> -1]
  /\ UNCHANGED <<ledger, coming, frame, jobVars, features, signals, active, breaks, since>>

OpenWindow ==
  /\ pc = "between"
  /\ pc' = "window"
  /\ UNCHANGED <<ledger, coming, frame, sampled, jobVars, features, signals, active,
                 breaks, since>>

\* The window returns or fails: its deadline passed, the union of symbols changed,
\* the stream ended or a frame did not parse.  The generator is closed with what it
\* had still to yield, the other events of that frame included.
LeaveWindow ==
  /\ pc = "window"
  /\ pc' = "between"
  /\ frame' = <<>>
  /\ UNCHANGED <<ledger, coming, sampled, jobVars, features, signals, active,
                 breaks, since>>

\* The provider sends the next event, in either order those of the same moment.
\* parse_market_data_frame makes a bar or a quote of it and skips anything else; the
\* events of one frame are several of these steps.  Without a window it reaches nobody.
Send(e) ==
  /\ e \in coming
  /\ \A f \in coming : ArrivesAt[e] <= ArrivesAt[f]
  /\ coming' = coming \ {e}
  /\ frame' = IF pc \in {"window"} \cup Steps THEN Append(frame, e) ELSE frame
  /\ UNCHANGED <<ledger, sampled, pc, jobVars, features, signals, active, breaks,
                 since>>

\* Mistake: a quote of any other second will do.
ShouldIngestOtherSeconds(e) ==
  KindOf[e] = "quote" => sampled[SymbolOf[e]] # SecondOf(e)

\* _should_ingest: every bar, and the first quote of a later second.
ShouldIngest(e) ==
  KindOf[e] = "quote" => sampled[SymbolOf[e]] < SecondOf(e)

\* The generator yields the next event and the loop takes or drops it.
Yield ==
  /\ pc = "window"
  /\ frame # <<>>
  /\ frame' = Tail(frame)
  /\ IF ShouldIngest(Head(frame))
     THEN /\ pc' = "append"
          /\ event' = Head(frame)
          /\ sampled' = IF KindOf[event'] = "bar" THEN sampled
                        ELSE [sampled EXCEPT ![SymbolOf[event']] = SecondOf(event')]
     ELSE UNCHANGED <<pc, event, sampled>>
  /\ UNCHANGED <<ledger, coming, base, left, vector, todo, features, signals, active,
                 breaks, since>>

-----------------------------------------------------------------------------
(* process_sip_event *)

\* Mistake: the insert is never committed.
AppendRawUncommitted ==
  /\ pc = "append"
  /\ since' = active
  /\ pc' = "previous"
  /\ UNCHANGED <<ledger, coming, frame, sampled, jobVars, features, signals, active,
                 breaks>>

AppendRaw ==
  /\ pc = "append"
  /\ AppendEvent(event)
  /\ since' = active
  /\ pc' = "previous"
  /\ UNCHANGED <<coming, frame, sampled, jobVars, features, signals, active, breaks>>

\* Mistake: the newest rows, whatever their asof_utc.
LatestVectorOfAll(symbol, asof) ==
  LET rows == {f \in features : SymbolOf[f.event] = symbol}
  IN  {f \in rows : \A g \in rows : g.name = f.name => TsOf[g.event] <= TsOf[f.event]}

\* latest_vector: of each feature of the symbol the newest row that is not
\* newer than asof.
LatestVector(symbol, asof) ==
  LET rows == {f \in features : SymbolOf[f.event] = symbol /\ TsOf[f.event] <= asof}
  IN  {f \in rows : \A g \in rows : g.name = f.name => TsOf[g.event] <= TsOf[f.event]}

\* ingest reads the previous close and has the names it will put in order.
ReadPrevious ==
  /\ pc = "previous"
  /\ base' = LET closes == {f \in LatestVector(SymbolOf[event], TsOf[event]) :
                              f.name = "close"}
             IN  IF closes = {} THEN "none" ELSE (CHOOSE f \in closes : TRUE).event
  /\ left' = FeaturesOf(event)
  /\ pc' = "put"
  /\ UNCHANGED <<ledger, coming, frame, sampled, event, vector, todo, features,
                 signals, active, breaks, since>>

NextFeature == [name |-> Head(left), event |-> event,
                base |-> IF Head(left) = "minute_return" THEN base ELSE "none"]

SameKey(f, g) == /\ f.name = g.name
                 /\ SymbolOf[f.event] = SymbolOf[g.event]
                 /\ TsOf[f.event] = TsOf[g.event]

\* Mistake: a feature whose value is null is not stored.
PutValuesOnly ==
  /\ pc = "put"
  /\ features' = IF \/ \E f \in features : SameKey(f, NextFeature)
                    \/ Head(left) = "minute_return" /\ base = "none"
                 THEN features ELSE features \cup {NextFeature}
  /\ left' = Tail(left)
  /\ pc' = IF Len(left) = 1 THEN "vector" ELSE "put"
  /\ UNCHANGED <<ledger, coming, frame, sampled, event, base, vector, todo, signals,
                 active, breaks, since>>

\* Mistake: the previous close is looked up when minute_return is put.
PutWithLatestClose ==
  /\ pc = "put"
  /\ LET closes == {f \in LatestVector(SymbolOf[event], TsOf[event]) : f.name = "close"}
         row == IF closes = {} THEN NextFeature
                ELSE [NextFeature EXCEPT !.base =
                        IF Head(left) = "minute_return"
                        THEN (CHOOSE f \in closes : TRUE).event ELSE "none"]
     IN  features' = IF \E f \in features : SameKey(f, row)
                     THEN features ELSE features \cup {row}
  /\ left' = Tail(left)
  /\ pc' = IF Len(left) = 1 THEN "vector" ELSE "put"
  /\ UNCHANGED <<ledger, coming, frame, sampled, event, base, vector, todo, signals,
                 active, breaks, since>>

\* put: INSERT OR IGNORE on symbol, name and asof_utc, one feature at a time.
Put ==
  /\ pc = "put"
  /\ features' = IF \E f \in features : SameKey(f, NextFeature)
                 THEN features ELSE features \cup {NextFeature}
  /\ left' = Tail(left)
  /\ pc' = IF Len(left) = 1 THEN "vector" ELSE "put"
  /\ UNCHANGED <<ledger, coming, frame, sampled, event, base, vector, todo, signals,
                 active, breaks, since>>

ReadVector ==
  /\ pc = "vector"
  /\ vector' = LatestVector(SymbolOf[event], TsOf[event])
  /\ pc' = "strategies"
  /\ UNCHANGED <<ledger, coming, frame, sampled, event, base, left, todo, features,
                 signals, active, breaks, since>>

\* Mistake: versions that are registered but no longer active are read too.
ReadAllStrategies ==
  /\ pc = "strategies"
  /\ todo' = {v \in Versions : SymbolOf[event] \in SymbolsOf[v]}
  /\ pc' = "publish"
  /\ UNCHANGED <<ledger, coming, frame, sampled, event, base, left, vector, features,
                 signals, active, breaks, since>>

\* active_strategies, and of these the ones with the event's symbol.
ReadStrategies ==
  /\ pc = "strategies"
  /\ todo' = {v \in active : SymbolOf[event] \in SymbolsOf[v]}
  /\ pc' = "publish"
  /\ UNCHANGED <<ledger, coming, frame, sampled, event, base, left, vector, features,
                 signals, active, breaks, since>>

\* A fact is available if the vector has it and it is not null.
Available(name) ==
  \E f \in vector : f.name = name /\ (name = "minute_return" => f.base # "none")

\* _evaluate, then publish_signal if it comes to a decision.
Publish(v) ==
  /\ pc = "publish"
  /\ v \in todo
  /\ todo' = todo \ {v}
  /\ signals' = IF \A name \in NeedsOf[v] : Available(name)
                THEN signals \cup {[version |-> v, event |-> event, vector |-> vector]}
                ELSE signals
  /\ UNCHANGED <<ledger, coming, frame, sampled, pc, event, base, left, vector,
                 features, active, breaks, since>>

Finish ==
  /\ pc = "publish"
  /\ todo = {}
  /\ pc' = "window"
  /\ NoJob
  /\ UNCHANGED <<ledger, coming, frame, sampled, features, signals, active, breaks, since>>

\* A database call raises: _run records ERROR and the window is gone.
CallFails ==
  /\ pc \in Steps
  /\ breaks < MaxBreaks
  /\ breaks' = breaks + 1
  /\ pc' = "between"
  /\ NoJob
  /\ frame' = <<>>
  /\ UNCHANGED <<ledger, coming, sampled, features, signals, active, since>>

-----------------------------------------------------------------------------
(* The rest of the world *)

Killed ==
  /\ pc # "down"
  /\ breaks < MaxBreaks
  /\ breaks' = breaks + 1
  /\ pc' = "down"
  /\ NoJob
  /\ frame' = <<>>
  /\ UNCHANGED <<ledger, coming, sampled, features, signals, active, since>>

\* Mistake: the version that was active stays so.
ActivateBeside(v) ==
  /\ v \notin active
  /\ active' = active \cup {v}
  /\ since' = since \cup {v}
  /\ UNCHANGED <<ledger, coming, frame, sampled, pc, jobVars, features, signals,
                 breaks>>

\* register(definition, activate=True): one version per strategy is active.
Activate(v) ==
  /\ v \notin active
  /\ active' = {w \in active : StrategyOf[w] # StrategyOf[v]} \cup {v}
  /\ since' = since \cup {v}
  /\ UNCHANGED <<ledger, coming, frame, sampled, pc, jobVars, features, signals,
                 breaks>>

Processing == \/ AppendRaw \/ ReadPrevious \/ Put \/ ReadVector \/ ReadStrategies
              \/ Finish \/ CallFails
              \/ \E v \in Versions : Publish(v)

IngestNext ==
  \/ Restart \/ OpenWindow \/ LeaveWindow \/ Yield \/ Killed
  \/ Processing
  \/ \E e \in Events : Send(e)
  \/ \E v \in Versions : Activate(v)

IngestSpec == IngestInit /\ [][IngestNext]_ingestVars

-----------------------------------------------------------------------------
\* README.md:91: the ledger keeps at most one quote per symbol and UTC second,
\* and in the order of the seconds, across windows, failures and restarts, in
\* whatever order the provider sends.  (run_sip_owner.py:30-42)
QuotesSampledInOrder ==
  \A i, j \in 1..Len(ledger) :
    i < j /\ KindOf[ledger[i]] = "quote" /\ KindOf[ledger[j]] = "quote"
          /\ SymbolOf[ledger[i]] = SymbolOf[ledger[j]]
    => SecondOf(ledger[i]) < SecondOf(ledger[j])

\* Whatever was derived can be traced to stored events: no feature, and no
\* vector a signal rests on, comes from an event that a kill has lost.
DerivedIsStored ==
  /\ \A f \in features : f.event \in RangeOf(ledger)
                         /\ f.base \in RangeOf(ledger) \cup {"none"}
  /\ \A g \in signals : g.event \in RangeOf(ledger) /\ g.vector \subseteq features

\* minute_return compares two bars, the base before the other: never a bar with
\* itself, though ingest stores its close first.  (feature_store.py:249, 258)
ReturnSpansTime ==
  \A f \in features : f.base # "none" =>
    /\ KindOf[f.base] = "bar"
    /\ TsOf[f.base] < TsOf[f.event]

\* A signal rests on nothing newer than its event, also when the event arrives
\* after newer ones, and on all features of the event itself.
\* (feature_store.py:204-239, platform.py:59-82)
SignalFitsItsEvent ==
  \A g \in signals :
    /\ \A f \in g.vector : TsOf[f.event] <= TsOf[g.event]
    /\ \A name \in RangeOf(FeaturesOf(g.event)) :
         \E f \in g.vector : f.name = name /\ f.event = g.event

\* Every stored event has all its features, except the one in progress and one
\* for each time that processing was broken off.  (platform.py:59-61)
StoredIsDerived ==
  LET whole(e) == \A name \in RangeOf(FeaturesOf(e)) :
                    \E f \in features : f.name = name /\ f.event = e
  IN  Cardinality({e \in RangeOf(ledger) \ {event} : ~whole(e)}) <= breaks

\* A version that was inactive from the moment the event was stored on gives no
\* signal for it: deactivation holds for every later event.  (platform.py:63)
SignalsFollowActivation ==
  [][\A g \in signals' \ signals : g.version \in since]_ingestVars
=============================================================================
