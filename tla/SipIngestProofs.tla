--------------------------- MODULE SipIngestProofs ---------------------------
(***************************************************************************)
(* TLAPS proofs about SipIngest, for any events, strategy versions and     *)
(* bounds.                                                                 *)
(*                                                                         *)
(* That the ledger has one quote per second is not inductive: it rests on  *)
(* what sampled_seconds knows of the ledger, and after a restart, when it  *)
(* knows nothing, on what the provider still sends (SampleInv).  DerivedInv *)
(* and ActiveInv say what the job in progress holds in memory.  FitInv, on *)
(* top of these, relates features, vectors and signals to their events.    *)
(***************************************************************************)
EXTENDS SipIngest, SequenceTheorems, FiniteSetTheorems, TLAPS

USE EventLedgerAssumption, SipIngestAssumption

IsQuote(e, s) == KindOf[e] = "quote" /\ SymbolOf[e] = s

StoredQuotes(s) == {e \in RangeOf(ledger) : IsQuote(e, s)}

\* sampled_seconds knows the last second of s that was stored.
Known(s) == \A e \in StoredQuotes(s) : SecondOf(e) <= sampled[s]

\* Only quotes of later seconds are still to come.
Ahead(s) == \A e \in StoredQuotes(s), f \in coming \cup RangeOf(frame) :
              IsQuote(f, s) => SecondOf(e) < SecondOf(f)

SampleInv ==
  /\ pc = "down" => frame = <<>>
  /\ pc # "down" => \A s \in EventSymbols : Known(s) \/ Ahead(s)
  /\ pc = "append" /\ KindOf[event] = "quote" =>
       /\ sampled[SymbolOf[event]] = SecondOf(event)
       /\ \A e \in StoredQuotes(SymbolOf[event]) : SecondOf(e) < SecondOf(event)

DerivedInv ==
  /\ pc \in Steps \ {"append"} => event \in RangeOf(ledger)
  /\ base \in RangeOf(ledger) \cup {"none"}
  /\ vector \subseteq features
  /\ pc = "put" => left # <<>>

ActiveInv ==
  /\ pc \in Steps \ {"append"} => active \subseteq since
  /\ pc = "publish" => todo \subseteq since

IngestIInv ==
  /\ IngestTypeOK
  /\ QuotesSampledInOrder
  /\ DerivedIsStored
  /\ SampleInv
  /\ DerivedInv
  /\ ActiveInv

-----------------------------------------------------------------------------
(* Sequences *)

LEMMA AppendRange ==
  ASSUME NEW S, NEW seq \in Seq(S), NEW e \in S
  PROVE  /\ Append(seq, e) \in Seq(S)
         /\ RangeOf(Append(seq, e)) = RangeOf(seq) \cup {e}
<1>1. /\ Append(seq, e) \in Seq(S)
      /\ Len(Append(seq, e)) = Len(seq) + 1
      /\ \A i \in 1..Len(seq) : Append(seq, e)[i] = seq[i]
      /\ Append(seq, e)[Len(seq) + 1] = e
      /\ Len(seq) \in Nat
  OBVIOUS
<1>2. 1..(Len(seq) + 1) = 1..Len(seq) \cup {Len(seq) + 1}
  BY <1>1
<1> QED
  BY <1>1, <1>2 DEF RangeOf

LEMMA TailRange ==
  ASSUME NEW S, NEW seq \in Seq(S), seq # <<>>
  PROVE  /\ Tail(seq) \in Seq(S)
         /\ Head(seq) \in S
         /\ Head(seq) \in RangeOf(seq)
         /\ RangeOf(Tail(seq)) \subseteq RangeOf(seq)
         /\ Len(seq) # 1 => Tail(seq) # <<>>
<1>1. /\ Len(seq) \in Nat \ {0}
      /\ Tail(seq) \in Seq(S)
      /\ Len(Tail(seq)) = Len(seq) - 1
      /\ Head(seq) = seq[1]
  OBVIOUS
<1>2. \A i \in 1..Len(Tail(seq)) : Tail(seq)[i] = seq[i + 1] /\ i + 1 \in 1..Len(seq)
  BY <1>1
<1>3. RangeOf(Tail(seq)) \subseteq RangeOf(seq)
  BY <1>1, <1>2 DEF RangeOf
<1>4. 1 \in 1..Len(seq) /\ seq[1] \in S
  BY <1>1
<1>5. Len(seq) # 1 => Len(Tail(seq)) # 0
  BY <1>1
<1>6. Tail(seq) = <<>> => Len(Tail(seq)) = 0
  BY EmptySeq, Zenon
<1> QED
  BY <1>1, <1>3, <1>4, <1>5, <1>6 DEF RangeOf

LEMMA EmptyRange == RangeOf(<<>>) = {}
BY DEF RangeOf

LEMMA SecondTyped == \A e \in Events : SecondOf(e) \in Int
BY DEF SecondOf

LEMMA FeatureNames ==
  \A e \in Events : FeaturesOf(e) \in Seq(Names) /\ FeaturesOf(e) # <<>>
<1>1. BarFeatures \in Seq(RangeOf(BarFeatures)) /\ BarFeatures # <<>>
  BY DEF BarFeatures, RangeOf
<1>2. QuoteFeatures \in Seq(RangeOf(QuoteFeatures)) /\ QuoteFeatures # <<>>
  BY DEF QuoteFeatures, RangeOf
<1> QED
  BY <1>1, <1>2 DEF FeaturesOf, Names

-----------------------------------------------------------------------------
(* What the parts of the invariant are kept by *)

\* Nothing about sampling changes but what is to come, which gets less.
LEMMA SampleKept ==
  ASSUME SampleInv, ledger' = ledger, sampled' = sampled,
         coming' \cup RangeOf(frame') \subseteq coming \cup RangeOf(frame),
         pc # "down", pc' # "append" \/ (pc' = pc /\ event' = event),
         pc' = "down" => frame' = <<>>
  PROVE  SampleInv'
<1>1. \A s : StoredQuotes(s)' = StoredQuotes(s)
  BY DEF StoredQuotes, IsQuote
<1>2. \A s \in EventSymbols : Known(s)' \/ Ahead(s)'
  <2> SUFFICES ASSUME NEW s \in EventSymbols
               PROVE  Known(s)' \/ Ahead(s)'
    OBVIOUS
  <2>1. CASE Known(s)
    BY <1>1, <2>1 DEF Known
  <2>2. CASE Ahead(s)
    BY <1>1, <2>2 DEF Ahead, IsQuote
  <2> QED
    BY <2>1, <2>2 DEF SampleInv
<1>3. pc' = "append" /\ KindOf[event'] = "quote" =>
        /\ sampled'[SymbolOf[event']] = SecondOf(event')
        /\ \A e \in StoredQuotes(SymbolOf[event])' : SecondOf(e) < SecondOf(event')
  BY <1>1 DEF SampleInv
<1> QED
  BY <1>2, <1>3 DEF SampleInv

LEMMA LedgerKept ==
  ASSUME ledger' = ledger
  PROVE  /\ QuotesSampledInOrder => QuotesSampledInOrder'
         /\ features' = features /\ signals' = signals
              => (DerivedIsStored => DerivedIsStored')
BY DEF QuotesSampledInOrder, DerivedIsStored

-----------------------------------------------------------------------------
(* Windows *)

LEMMA RestartKeepsInv ==
  ASSUME IngestIInv, Restart
  PROVE  IngestIInv'
<1>1. IngestTypeOK'
  BY DEF Restart, IngestIInv, IngestTypeOK, jobVars, Steps
<1>2. SampleInv'
  <2>1. frame' = <<>> /\ ledger' = ledger /\ pc' = "between"
    BY DEF Restart, IngestIInv, SampleInv
  <2>2. \A s \in EventSymbols : Ahead(s)'
    <3> SUFFICES ASSUME NEW s \in EventSymbols, NEW e \in StoredQuotes(s)',
                        NEW f \in coming', IsQuote(f, s)
                 PROVE  SecondOf(e) < SecondOf(f)
      BY <2>1, EmptyRange DEF Ahead, IsQuote
    <3>1. e \in RangeOf(ledger) /\ KindOf[e] = "quote" /\ KindOf[f] = "quote"
      BY <2>1 DEF StoredQuotes, IsQuote
    <3> QED
      BY <3>1 DEF Restart
  <2> QED
    BY <2>1, <2>2 DEF SampleInv
<1>3. DerivedInv' /\ ActiveInv'
  BY DEF Restart, IngestIInv, DerivedInv, ActiveInv, jobVars, Steps
<1> QED
  BY <1>1, <1>2, <1>3, LedgerKept DEF IngestIInv, Restart

LEMMA WindowKeepsInv ==
  ASSUME IngestIInv, OpenWindow \/ LeaveWindow
  PROVE  IngestIInv'
<1>1. IngestTypeOK'
  <2>1. frame' \in {frame, <<>>} /\ frame \in Seq(Events) /\ <<>> \in Seq(Events)
    BY EmptySeq DEF OpenWindow, LeaveWindow, IngestIInv, IngestTypeOK
  <2>2. pc' \in {"between", "window"} /\ pc \notin Steps
    BY DEF OpenWindow, LeaveWindow, Steps
  <2>3. UNCHANGED <<ledger, coming, sampled, jobVars, features, signals, active,
                    breaks, since>>
    BY DEF OpenWindow, LeaveWindow
  <2> QED
    BY <2>1, <2>2, <2>3 DEF IngestIInv, IngestTypeOK, jobVars, Steps
<1>2. SampleInv'
  BY SampleKept, EmptyRange DEF OpenWindow, LeaveWindow, IngestIInv
<1>3. DerivedInv' /\ ActiveInv'
  BY DEF OpenWindow, LeaveWindow, IngestIInv, DerivedInv, ActiveInv, jobVars, Steps
<1> QED
  BY <1>1, <1>2, <1>3, LedgerKept DEF IngestIInv, OpenWindow, LeaveWindow

LEMMA SendKeepsInv ==
  ASSUME IngestIInv, NEW e \in Events, Send(e)
  PROVE  IngestIInv'
<1>1. /\ frame' \in Seq(Events)
      /\ coming' \cup RangeOf(frame') \subseteq coming \cup RangeOf(frame)
  <2>1. CASE pc \in {"window"} \cup Steps
    <3>1. frame \in Seq(Events) /\ frame' = Append(frame, e)
      BY <2>1 DEF Send, IngestIInv, IngestTypeOK
    <3>2. e \in coming /\ coming' = coming \ {e}
      BY DEF Send
    <3> QED
      BY <3>1, <3>2, AppendRange
  <2>2. CASE pc \notin {"window"} \cup Steps
    BY <2>2 DEF Send, IngestIInv, IngestTypeOK
  <2> QED
    BY <2>1, <2>2
<1>2. IngestTypeOK'
  BY <1>1 DEF Send, IngestIInv, IngestTypeOK, jobVars
<1>3. SampleInv'
  <2>1. CASE pc = "down"
    <3>1. frame' = <<>> /\ pc' = "down"
      BY <2>1 DEF Send, Steps, IngestIInv, SampleInv
    <3> QED
      BY <3>1 DEF SampleInv
  <2>2. CASE pc # "down"
    BY <1>1, <2>2, SampleKept DEF Send, IngestIInv, jobVars
  <2> QED
    BY <2>1, <2>2
<1>4. DerivedInv' /\ ActiveInv'
  BY DEF Send, IngestIInv, DerivedInv, ActiveInv, jobVars
<1> QED
  BY <1>2, <1>3, <1>4, LedgerKept DEF IngestIInv, Send

LEMMA BreakKeepsInv ==
  ASSUME IngestIInv, Killed \/ CallFails
  PROVE  IngestIInv'
<1>1. IngestTypeOK'
  <2>1. frame' \in Seq(Events) /\ left' \in Seq(Names)
    BY EmptySeq DEF Killed, CallFails, NoJob
  <2>2. breaks' \in 0..MaxBreaks
    BY DEF Killed, CallFails, IngestIInv, IngestTypeOK
  <2> QED
    BY <2>1, <2>2 DEF Killed, CallFails, NoJob, IngestIInv, IngestTypeOK, Steps
<1>2. SampleInv'
  BY SampleKept, EmptyRange DEF Killed, CallFails, IngestIInv, Steps
<1>3. DerivedInv' /\ ActiveInv'
  BY DEF Killed, CallFails, NoJob, IngestIInv, DerivedInv, ActiveInv, Steps
<1> QED
  BY <1>1, <1>2, <1>3, LedgerKept DEF IngestIInv, Killed, CallFails

\* The sampled second is set before the event is stored: what is stored is older.
LEMMA YieldKeepsInv ==
  ASSUME IngestIInv, Yield
  PROVE  IngestIInv'
<1> DEFINE head == Head(frame)
<1>1. /\ frame' = Tail(frame) /\ frame' \in Seq(Events)
      /\ head \in Events /\ head \in RangeOf(frame)
      /\ RangeOf(frame') \subseteq RangeOf(frame)
  BY TailRange DEF Yield, IngestIInv, IngestTypeOK
<1>2. /\ pc = "window" /\ event = "none" /\ ledger' = ledger /\ coming' = coming
      /\ base' = base
  BY DEF Yield, IngestIInv, IngestTypeOK, Steps
<1>3. CASE ~ShouldIngest(head)
  <2>1. pc' = pc /\ event' = event /\ sampled' = sampled
    BY <1>3 DEF Yield
  <2>2. IngestTypeOK'
    BY <1>1, <2>1 DEF Yield, IngestIInv, IngestTypeOK
  <2>3. SampleInv'
    BY <1>1, <1>2, <2>1, SampleKept DEF IngestIInv
  <2>4. DerivedInv' /\ ActiveInv'
    BY <2>1 DEF Yield, IngestIInv, DerivedInv, ActiveInv
  <2> QED
    BY <2>2, <2>3, <2>4, LedgerKept DEF IngestIInv, Yield
<1>4. CASE ShouldIngest(head)
  <2>1. /\ pc' = "append" /\ event' = head
        /\ sampled' = IF KindOf[head] = "bar" THEN sampled
                      ELSE [sampled EXCEPT ![SymbolOf[head]] = SecondOf(head)]
    BY <1>4 DEF Yield
  <2>2. SymbolOf[head] \in EventSymbols /\ KindOf[head] \in {"bar", "quote"}
    BY <1>1 DEF EventSymbols
  <2>3. sampled' \in [EventSymbols -> {SecondOf(e) : e \in Events} \cup {-1}]
    BY <1>1, <2>1, <2>2 DEF IngestIInv, IngestTypeOK
  <2>4. IngestTypeOK'
    BY <1>1, <2>1, <2>3 DEF Yield, IngestIInv, IngestTypeOK, Steps
  <2>5. \A s : StoredQuotes(s)' = StoredQuotes(s) /\ StoredQuotes(s) \subseteq Events
    BY <1>2 DEF StoredQuotes, IsQuote, RangeOf, IngestIInv, IngestTypeOK
  <2>6. ASSUME KindOf[head] = "quote"
        PROVE  \A e \in StoredQuotes(SymbolOf[head]) : SecondOf(e) < SecondOf(head)
    <3>1. CASE Known(SymbolOf[head])
      <4>1. sampled[SymbolOf[head]] < SecondOf(head)
        BY <1>4, <2>6 DEF ShouldIngest
      <4>2. sampled[SymbolOf[head]] \in Int
        <5>1. sampled[SymbolOf[head]] \in {SecondOf(e) : e \in Events} \cup {-1}
          BY <2>2 DEF IngestIInv, IngestTypeOK
        <5> QED
          BY <5>1, SecondTyped
      <4> QED
        BY <1>1, <2>5, <3>1, <4>1, <4>2, SecondTyped DEF Known
    <3>2. CASE Ahead(SymbolOf[head])
      BY <1>1, <2>6, <3>2 DEF Ahead, IsQuote
    <3> QED
      BY <1>2, <2>2, <3>1, <3>2 DEF IngestIInv, SampleInv
  <2>7. ASSUME NEW s \in EventSymbols PROVE Known(s)' \/ Ahead(s)'
    <3>1. CASE KindOf[head] = "quote" /\ s = SymbolOf[head]
      <4>1. sampled'[s] = SecondOf(head)
        BY <2>1, <2>2, <3>1 DEF IngestIInv, IngestTypeOK
      <4> QED
        BY <1>1, <2>5, <2>6, <3>1, <4>1, SecondTyped DEF Known
    <3>2. CASE ~(KindOf[head] = "quote" /\ s = SymbolOf[head])
      <4>1. sampled'[s] = sampled[s]
        BY <2>1, <2>2, <3>2 DEF IngestIInv, IngestTypeOK
      <4>2. Known(s) => Known(s)'
        BY <2>5, <4>1 DEF Known
      <4>3. Ahead(s) => Ahead(s)'
        BY <1>1, <1>2, <2>5 DEF Ahead, IsQuote
      <4> QED
        BY <1>2, <4>2, <4>3 DEF IngestIInv, SampleInv
    <3> QED
      BY <3>1, <3>2
  <2>8. SampleInv'
    <3>1. KindOf[head] = "quote" => sampled'[SymbolOf[head]] = SecondOf(head)
      BY <2>1, <2>2 DEF IngestIInv, IngestTypeOK
    <3> QED
      BY <2>1, <2>5, <2>6, <2>7, <3>1 DEF SampleInv
  <2>9. DerivedInv' /\ ActiveInv'
    BY <2>1 DEF Yield, IngestIInv, DerivedInv, ActiveInv, Steps
  <2> QED
    BY <2>4, <2>8, <2>9, LedgerKept DEF IngestIInv, Yield
<1> QED
  BY <1>3, <1>4

-----------------------------------------------------------------------------
(* process_sip_event *)

\* The event that is stored has the newest second of its symbol, if it is a quote.
LEMMA AppendKeepsInv ==
  ASSUME IngestIInv, AppendRaw
  PROVE  IngestIInv'
<1>1. /\ pc = "append" /\ pc' = "previous" /\ event' = event /\ event \in Events
      /\ sampled' = sampled /\ base' = base /\ vector' = vector /\ left' = left
      /\ features' = features /\ signals' = signals /\ active' = active
      /\ since' = active /\ ledger \in Seq(Events)
  BY DEF AppendRaw, jobVars, IngestIInv, IngestTypeOK, Steps
<1>2. CASE Stored(event)
  <2>1. ledger' = ledger /\ event \in RangeOf(ledger)
    BY <1>2 DEF AppendRaw, AppendEvent, Stored, RangeOf
  <2>2. IngestTypeOK'
    BY <2>1 DEF AppendRaw, jobVars, IngestIInv, IngestTypeOK, Steps
  <2>3. SampleInv'
    BY <1>1, <2>1, SampleKept DEF AppendRaw, IngestIInv
  <2>4. DerivedInv' /\ ActiveInv'
    BY <1>1, <2>1 DEF IngestIInv, DerivedInv, ActiveInv
  <2> QED
    BY <1>1, <2>1, <2>2, <2>3, <2>4, LedgerKept DEF IngestIInv
<1>3. CASE ~Stored(event)
  <2>1. /\ ledger' = Append(ledger, event)
        /\ ledger' \in Seq(Events)
        /\ RangeOf(ledger)' = RangeOf(ledger) \cup {event}
    BY <1>1, <1>3, AppendRange DEF AppendRaw, AppendEvent, RangeOf
  <2>2. IngestTypeOK'
    BY <1>1, <2>1 DEF AppendRaw, jobVars, IngestIInv, IngestTypeOK, Steps
  <2>3. QuotesSampledInOrder'
    <3> SUFFICES ASSUME NEW i \in 1..Len(ledger'), NEW j \in 1..Len(ledger'), i < j,
                        IsQuote(ledger'[i], SymbolOf[ledger'[j]]),
                        KindOf[ledger'[j]] = "quote"
                 PROVE  SecondOf(ledger'[i]) < SecondOf(ledger'[j])
      BY DEF QuotesSampledInOrder, IsQuote
    <3>1. /\ Len(ledger) \in Nat /\ Len(ledger') = Len(ledger) + 1
          /\ \A k \in 1..Len(ledger) : ledger'[k] = ledger[k]
          /\ ledger'[Len(ledger) + 1] = event
      BY <1>1, <2>1
    <3>2. i \in 1..Len(ledger) /\ ledger'[i] = ledger[i]
      BY <3>1
    <3>3. CASE j \in 1..Len(ledger)
      BY <3>1, <3>2, <3>3 DEF IngestIInv, QuotesSampledInOrder, IsQuote
    <3>4. CASE j = Len(ledger) + 1
      <4>1. ledger'[j] = event /\ ledger[i] \in StoredQuotes(SymbolOf[event])
        BY <3>1, <3>2, <3>4 DEF StoredQuotes, RangeOf
      <4> QED
        BY <1>1, <3>2, <4>1 DEF IngestIInv, SampleInv
    <3> QED
      BY <3>1, <3>3, <3>4
  <2>4. DerivedIsStored'
    BY <1>1, <2>1 DEF IngestIInv, DerivedIsStored
  <2>5. SampleInv'
    <3> SUFFICES ASSUME NEW s \in EventSymbols
                 PROVE  Known(s)' \/ Ahead(s)'
      BY <1>1 DEF SampleInv
    <3>1. StoredQuotes(s)' = StoredQuotes(s) \cup
                               (IF IsQuote(event, s) THEN {event} ELSE {})
      BY <2>1 DEF StoredQuotes, IsQuote
    <3>2. CASE IsQuote(event, s)
      <4>1. \A e \in StoredQuotes(s)' : e \in Events /\ SecondOf(e) <= sampled'[s]
        <5> SUFFICES ASSUME NEW e \in StoredQuotes(s)'
                     PROVE  e \in Events /\ SecondOf(e) <= sampled'[s]
          OBVIOUS
        <5>1. sampled'[s] = SecondOf(event)
          BY <1>1, <3>2 DEF IsQuote, IngestIInv, SampleInv
        <5>2. e = event \/ SecondOf(e) < SecondOf(event)
          BY <1>1, <3>1, <3>2 DEF IsQuote, IngestIInv, SampleInv
        <5>3. e \in Events
          BY <1>1, <2>1 DEF StoredQuotes, RangeOf
        <5> QED
          BY <1>1, <5>1, <5>2, <5>3, SecondTyped
      <4> QED
        BY <4>1 DEF Known
    <3>3. CASE ~IsQuote(event, s)
      <4>1. StoredQuotes(s)' = StoredQuotes(s)
        BY <3>1, <3>3
      <4>2. Known(s) => Known(s)'
        BY <1>1, <4>1 DEF Known
      <4>3. Ahead(s) => Ahead(s)'
        BY <4>1 DEF Ahead, IsQuote, AppendRaw
      <4> QED
        BY <1>1, <4>2, <4>3 DEF IngestIInv, SampleInv
    <3> QED
      BY <3>2, <3>3
  <2>6. DerivedInv' /\ ActiveInv'
    BY <1>1, <2>1 DEF IngestIInv, DerivedInv, ActiveInv
  <2> QED
    BY <2>2, <2>3, <2>4, <2>5, <2>6 DEF IngestIInv
<1> QED
  BY <1>2, <1>3

LEMMA ReadPreviousKeepsInv ==
  ASSUME IngestIInv, ReadPrevious
  PROVE  IngestIInv'
<1>1. /\ pc = "previous" /\ pc' = "put" /\ ledger' = ledger /\ event' = event
      /\ event \in RangeOf(ledger) /\ event \in Events
  BY DEF ReadPrevious, IngestIInv, IngestTypeOK, DerivedInv, Steps
<1>2. base' = "none" \/ \E f \in features : base' = f.event
  BY DEF ReadPrevious, LatestVector
<1>3. /\ base' \in Events \cup {"none"}
      /\ base' \in RangeOf(ledger) \cup {"none"}
  BY <1>2 DEF IngestIInv, IngestTypeOK, DerivedIsStored, Feature
<1>4. left' \in Seq(Names) /\ left' # <<>>
  BY <1>1, FeatureNames DEF ReadPrevious
<1>5. IngestTypeOK'
  BY <1>1, <1>3, <1>4 DEF ReadPrevious, IngestIInv, IngestTypeOK, Steps
<1>6. SampleInv'
  BY <1>1, SampleKept DEF ReadPrevious, IngestIInv
<1>7. DerivedInv' /\ ActiveInv'
  BY <1>1, <1>3, <1>4 DEF ReadPrevious, IngestIInv, DerivedInv, ActiveInv, Steps
<1> QED
  BY <1>5, <1>6, <1>7, LedgerKept DEF IngestIInv, ReadPrevious

LEMMA PutKeepsInv ==
  ASSUME IngestIInv, Put
  PROVE  IngestIInv'
<1>1. /\ pc = "put" /\ pc' \in {"put", "vector"} /\ ledger' = ledger /\ event' = event
      /\ event \in RangeOf(ledger) /\ event \in Events
      /\ left \in Seq(Names) /\ left # <<>> /\ left' = Tail(left)
  BY DEF Put, IngestIInv, IngestTypeOK, DerivedInv, Steps
<1>2. /\ left' \in Seq(Names)
      /\ Head(left) \in Names
      /\ pc' = "put" => left' # <<>>
  BY <1>1, TailRange DEF Put
<1>3. NextFeature \in Feature /\ NextFeature.event = event
      /\ NextFeature.base \in RangeOf(ledger) \cup {"none"}
  BY <1>1, <1>2 DEF NextFeature, Feature, IngestIInv, IngestTypeOK, DerivedInv
<1>4. features \subseteq features' /\ features' \subseteq features \cup {NextFeature}
  BY DEF Put
<1>5. IngestTypeOK'
  BY <1>1, <1>2, <1>3, <1>4 DEF Put, IngestIInv, IngestTypeOK, Steps
<1>6. SampleInv'
  BY <1>1, SampleKept DEF Put, IngestIInv
<1>7. DerivedIsStored'
  <2>1. \A f \in features' : f.event \in RangeOf(ledger)
                             /\ f.base \in RangeOf(ledger) \cup {"none"}
    BY <1>1, <1>3, <1>4 DEF IngestIInv, DerivedIsStored
  <2>2. \A g \in signals' : g.event \in RangeOf(ledger) /\ g.vector \subseteq features'
    BY <1>4 DEF Put, IngestIInv, DerivedIsStored
  <2> QED
    BY <1>1, <2>1, <2>2 DEF DerivedIsStored
<1>8. DerivedInv' /\ ActiveInv'
  BY <1>1, <1>2, <1>4 DEF Put, IngestIInv, DerivedInv, ActiveInv, Steps
<1> QED
  BY <1>1, <1>5, <1>6, <1>7, <1>8, LedgerKept DEF IngestIInv

\* The steps that only read, and the end of the job.
LEMMA ReadsKeepInv ==
  ASSUME IngestIInv, ReadVector \/ ReadStrategies \/ Finish
  PROVE  IngestIInv'
<1>1. /\ pc \in Steps \ {"append"} /\ pc' \in {"strategies", "publish", "window"}
      /\ pc' # "window" => event' = event
      /\ UNCHANGED <<ledger, coming, frame, sampled, features, signals, active, breaks, since>>
  BY DEF ReadVector, ReadStrategies, Finish, Steps
<1>2. event \in RangeOf(ledger) /\ event \in Events
  BY <1>1 DEF IngestIInv, IngestTypeOK, DerivedInv, Steps
<1>3. vector' \subseteq features /\ base' \in {base, "none"} /\ left' \in Seq(Names)
  <2>1. vector \subseteq features /\ left \in Seq(Names) /\ <<>> \in Seq(Names)
    BY EmptySeq DEF IngestIInv, IngestTypeOK, DerivedInv
  <2>2. CASE ReadVector
    BY <2>1, <2>2 DEF ReadVector, LatestVector
  <2>3. CASE ReadStrategies
    BY <2>1, <2>3 DEF ReadStrategies
  <2>4. CASE Finish
    BY <2>1, <2>4 DEF Finish, NoJob
  <2> QED
    BY <2>2, <2>3, <2>4
<1>4. todo' \subseteq Versions /\ (pc' = "publish" => todo' \subseteq active)
  BY DEF ReadVector, ReadStrategies, Finish, NoJob, IngestIInv, IngestTypeOK
<1>5. /\ event' \in Events \cup {"none"}
      /\ event' = "none" <=> pc' = "window"
  BY <1>1, <1>2 DEF ReadVector, ReadStrategies, Finish, NoJob
<1>6. IngestTypeOK'
  BY <1>1, <1>3, <1>4, <1>5 DEF IngestIInv, IngestTypeOK, Steps
<1>7. SampleInv'
  BY <1>1, SampleKept DEF IngestIInv, Steps
<1>8. DerivedInv' /\ ActiveInv'
  BY <1>1, <1>2, <1>3, <1>4 DEF IngestIInv, DerivedInv, ActiveInv, Steps
<1> QED
  BY <1>1, <1>6, <1>7, <1>8, LedgerKept DEF IngestIInv

LEMMA PublishKeepsInv ==
  ASSUME IngestIInv, NEW v \in Versions, Publish(v)
  PROVE  IngestIInv'
<1> DEFINE signal == [version |-> v, event |-> event, vector |-> vector]
<1>1. /\ pc = "publish" /\ event \in RangeOf(ledger) /\ event \in Events
      /\ vector \subseteq features /\ vector \subseteq Feature
      /\ signals' \subseteq signals \cup {signal}
  BY DEF Publish, IngestIInv, IngestTypeOK, DerivedInv, Steps
<1>2. IngestTypeOK'
  BY <1>1 DEF Publish, IngestIInv, IngestTypeOK
<1>3. DerivedIsStored'
  BY <1>1 DEF Publish, IngestIInv, DerivedIsStored, RangeOf
<1>4. SampleInv'
  BY <1>1, SampleKept DEF Publish, IngestIInv
<1>5. DerivedInv' /\ ActiveInv'
  BY DEF Publish, IngestIInv, DerivedInv, ActiveInv, RangeOf
<1> QED
  BY <1>2, <1>3, <1>4, <1>5, LedgerKept DEF IngestIInv, Publish

-----------------------------------------------------------------------------
(* The rest of the world *)

LEMMA ActivateKeepsInv ==
  ASSUME IngestIInv, NEW v \in Versions, Activate(v)
  PROVE  IngestIInv'
<1>1. IngestTypeOK'
  BY DEF Activate, IngestIInv, IngestTypeOK, jobVars
<1>2. SampleInv'
  <2>1. \A s : StoredQuotes(s)' = StoredQuotes(s)
    BY DEF Activate, StoredQuotes, IsQuote, RangeOf
  <2> QED
    BY <2>1 DEF Activate, IngestIInv, SampleInv, Known, Ahead, IsQuote, jobVars, RangeOf
<1>3. DerivedInv' /\ ActiveInv'
  BY DEF Activate, IngestIInv, DerivedInv, ActiveInv, jobVars, RangeOf
<1> QED
  BY <1>1, <1>2, <1>3, LedgerKept DEF IngestIInv, Activate

\* What the theorems rest on.
THEOREM IngestInvariant == IngestSpec => []IngestIInv
<1>1. IngestInit => IngestIInv
  <2> SUFFICES ASSUME IngestInit PROVE IngestIInv
    OBVIOUS
  <2>1. <<>> \in Seq(Events) /\ <<>> \in Seq(Names) /\ Len(<<>>) = 0
    BY EmptySeq
  <2>2. IngestTypeOK
    BY <2>1 DEF IngestInit, IngestTypeOK, Steps
  <2>3. QuotesSampledInOrder
    BY <2>1 DEF IngestInit, QuotesSampledInOrder
  <2> QED
    BY <2>2, <2>3
    DEF IngestInit, IngestIInv, DerivedIsStored, SampleInv, DerivedInv, ActiveInv, Steps
<1>2. IngestIInv /\ [IngestNext]_ingestVars => IngestIInv'
  <2> SUFFICES ASSUME IngestIInv, [IngestNext]_ingestVars
               PROVE  IngestIInv'
    OBVIOUS
  <2>1. CASE IngestNext
    BY <2>1, RestartKeepsInv, WindowKeepsInv, YieldKeepsInv, BreakKeepsInv,
       AppendKeepsInv, ReadPreviousKeepsInv, PutKeepsInv, ReadsKeepInv,
       PublishKeepsInv, SendKeepsInv, ActivateKeepsInv
    DEF IngestNext, Processing
  <2>2. CASE UNCHANGED ingestVars
    <3>1. IngestTypeOK'
      BY <2>2 DEF ingestVars, jobVars, IngestIInv, IngestTypeOK
    <3>2. \A s : StoredQuotes(s)' = StoredQuotes(s)
      BY <2>2 DEF ingestVars, StoredQuotes, IsQuote, RangeOf
    <3>3. SampleInv'
      BY <2>2, <3>2
      DEF ingestVars, jobVars, IngestIInv, SampleInv, Known, Ahead, IsQuote, RangeOf
    <3>4. DerivedInv' /\ ActiveInv'
      BY <2>2 DEF ingestVars, jobVars, IngestIInv, DerivedInv, ActiveInv, RangeOf
    <3> QED
      BY <2>2, <3>1, <3>3, <3>4, LedgerKept DEF ingestVars, IngestIInv
  <2> QED
    BY <2>1, <2>2
<1> QED
  BY <1>1, <1>2, PTL DEF IngestSpec

\* Type correctness.  One version per strategy is active, whatever is activated
\* and in whatever order.  (registry.py:56-89)
THEOREM IngestTypeCorrect == IngestSpec => []IngestTypeOK
<1>1. IngestIInv => IngestTypeOK
  BY DEF IngestIInv
<1> QED
  BY <1>1, IngestInvariant, PTL

\* The ledger has one quote per symbol and second, in the order of the seconds.
\* (run_sip_owner.py:30-42)
THEOREM QuotesAlwaysSampledInOrder == IngestSpec => []QuotesSampledInOrder
<1>1. IngestIInv => QuotesSampledInOrder
  BY DEF IngestIInv
<1> QED
  BY <1>1, IngestInvariant, PTL

\* No feature and no signal outlives the event it was derived from, though each
\* table is written in a transaction of its own.  (platform.py:59-82)
THEOREM DerivedIsAlwaysStored == IngestSpec => []DerivedIsStored
<1>1. IngestIInv => DerivedIsStored
  BY DEF IngestIInv
<1> QED
  BY <1>1, IngestInvariant, PTL

\* An event gives signals only of versions that were active at some moment since
\* it was stored, however activations interleave.  (platform.py:63)
THEOREM SignalsAlwaysFollowActivation == IngestSpec => SignalsFollowActivation
<1> DEFINE NewAreActive == \A g \in signals' \ signals : g.version \in since
<1>1. IngestIInv /\ [IngestNext]_ingestVars => NewAreActive
  <2> SUFFICES ASSUME IngestIInv, [IngestNext]_ingestVars, NEW g \in signals' \ signals
               PROVE  g.version \in since
    OBVIOUS
  <2>1. PICK v \in Versions : Publish(v)
    BY DEF IngestNext, Processing, ingestVars, Restart, OpenWindow, LeaveWindow, Yield,
           Killed, AppendRaw, ReadPrevious, Put, ReadVector, ReadStrategies, Finish,
           CallFails, Send, Activate
  <2>2. g = [version |-> v, event |-> event, vector |-> vector] /\ v \in todo
    BY <2>1 DEF Publish
  <2> QED
    BY <2>1, <2>2 DEF Publish, IngestIInv, ActiveInv
<1> QED
  BY <1>1, IngestInvariant, PTL DEF IngestSpec, SignalsFollowActivation

-----------------------------------------------------------------------------
(* What features, vectors and signals are computed from *)

Waiting == coming \cup RangeOf(frame)

\* An event comes once, and has no features until it is processed.
FreshInv ==
  /\ \A e \in coming : e \notin RangeOf(frame)
  /\ \A i, j \in 1..Len(frame) : frame[i] = frame[j] => i = j
  /\ event \notin Waiting
  /\ \A f \in features : /\ f.event \notin Waiting
                         /\ pc \in {"append", "previous"} => f.event # event

\* Bars have bar features, quotes have quote features.
NameInv == \A f \in features : f.name \in RangeOf(FeaturesOf(f.event))

BaseInv ==
  pc = "put" /\ KindOf[event] = "bar" /\ base # "none" =>
    KindOf[base] = "bar" /\ TsOf[base] < TsOf[event]

Derived(name) == \E f \in features : f.name = name /\ f.event = event

PutInv ==
  /\ pc = "put" => RangeOf(left) \subseteq RangeOf(FeaturesOf(event))
  /\ pc = "vector" => left = <<>>
  /\ pc \in {"put", "vector"} =>
       \A name \in RangeOf(FeaturesOf(event)) : name \in RangeOf(left) \/ Derived(name)

Fits(facts, e) ==
  /\ \A f \in facts : TsOf[f.event] <= TsOf[e]
  /\ \A name \in RangeOf(FeaturesOf(e)) : \E f \in facts : f.name = name /\ f.event = e

VectorInv == pc \in {"strategies", "publish"} => Fits(vector, event)

FitInv ==
  /\ FreshInv
  /\ NameInv
  /\ BaseInv
  /\ PutInv
  /\ VectorInv
  /\ ReturnSpansTime
  /\ SignalFitsItsEvent

LEMMA KindNames ==
  ASSUME NEW e \in Events
  PROVE  /\ KindOf[e] = "bar" =>
              RangeOf(FeaturesOf(e)) = {"close", "volume", "vwap", "minute_return"}
         /\ KindOf[e] = "quote" =>
              RangeOf(FeaturesOf(e)) = {"nbbo_midpoint", "nbbo_spread_bps"}
         /\ KindOf[e] \in {"bar", "quote"}
<1>1. RangeOf(BarFeatures) = {"close", "volume", "vwap", "minute_return"}
  BY DEF BarFeatures, RangeOf
<1>2. RangeOf(QuoteFeatures) = {"nbbo_midpoint", "nbbo_spread_bps"}
  BY DEF QuoteFeatures, RangeOf
<1> QED
  BY <1>1, <1>2 DEF FeaturesOf

LEMMA HeadAndTail ==
  ASSUME NEW S, NEW seq \in Seq(S), seq # <<>>
  PROVE  /\ RangeOf(seq) = {Head(seq)} \cup RangeOf(Tail(seq))
         /\ Len(seq) = 1 => Tail(seq) = <<>>
<1>1. /\ Len(seq) \in Nat \ {0}
      /\ Tail(seq) \in Seq(S)
      /\ Len(Tail(seq)) = Len(seq) - 1
      /\ Head(seq) = seq[1]
      /\ \A i \in 1..Len(seq) - 1 : Tail(seq)[i] = seq[i + 1]
  OBVIOUS
<1>2. ASSUME NEW x \in RangeOf(seq) PROVE x = Head(seq) \/ x \in RangeOf(Tail(seq))
  <2>1. PICK i \in 1..Len(seq) : x = seq[i]
    BY DEF RangeOf
  <2>2. CASE i = 1
    BY <1>1, <2>1, <2>2
  <2>3. CASE i # 1
    <3>1. i - 1 \in 1..Len(Tail(seq)) /\ Tail(seq)[i - 1] = x
      BY <1>1, <2>1, <2>3
    <3> QED
      BY <3>1 DEF RangeOf
  <2> QED
    BY <2>2, <2>3
<1>3. Head(seq) \in RangeOf(seq) /\ RangeOf(Tail(seq)) \subseteq RangeOf(seq)
  BY TailRange
<1>4. Len(seq) = 1 => Tail(seq) = <<>>
  <2>1. Len(seq) = 1 => Len(Tail(seq)) = 0
    BY <1>1
  <2> QED
    BY <1>1, <2>1, EmptySeq
<1> QED
  BY <1>2, <1>3, <1>4

\* No two stored events give the same key: quotes by the sampling, bars by the
\* provider.
LEMMA StoredKeys ==
  ASSUME IngestIInv, NEW e \in RangeOf(ledger), NEW f \in RangeOf(ledger),
         KindOf[e] = KindOf[f], SymbolOf[e] = SymbolOf[f], TsOf[e] = TsOf[f]
  PROVE  e = f
<1>1. e \in Events /\ f \in Events /\ ledger \in Seq(Events)
  BY DEF IngestIInv, IngestTypeOK, RangeOf
<1>2. CASE KindOf[e] = "bar"
  BY <1>1, <1>2, OneBarAMinute
<1>3. CASE KindOf[e] = "quote"
  <2>1. PICK i \in 1..Len(ledger), j \in 1..Len(ledger) : e = ledger[i] /\ f = ledger[j]
    BY DEF RangeOf
  <2>2. SecondOf(e) = SecondOf(f) /\ SecondOf(e) \in Int
    BY <1>1, SecondTyped DEF SecondOf
  <2>3. /\ i < j => SecondOf(e) < SecondOf(f)
        /\ j < i => SecondOf(f) < SecondOf(e)
    BY <1>3, <2>1 DEF IngestIInv, QuotesSampledInOrder
  <2>4. i = j
    BY <1>1, <2>2, <2>3
  <2> QED
    BY <2>1, <2>4
<1> QED
  BY <1>1, <1>2, <1>3, KindNames

\* No job, and nothing new but less to come.
LEMMA IdleKeepsFit ==
  ASSUME FitInv, coming' \subseteq coming, frame' = frame \/ frame' = <<>>,
         features' = features, signals' = signals, pc' \notin Steps,
         event' \notin Waiting'
  PROVE  FitInv'
<1>1. FreshInv'
  <2>1. RangeOf(frame') \subseteq RangeOf(frame) /\ Waiting' \subseteq Waiting
    BY EmptyRange DEF Waiting
  <2>2. \A i, j \in 1..Len(frame') : frame'[i] = frame'[j] => i = j
    <3>1. Len(<<>>) = 0
      BY EmptySeq
    <3> QED
      BY <3>1 DEF FitInv, FreshInv
  <2> QED
    BY <2>1, <2>2 DEF FitInv, FreshInv, Steps
<1>2. NameInv' /\ ReturnSpansTime' /\ SignalFitsItsEvent'
  BY DEF FitInv, NameInv, ReturnSpansTime, SignalFitsItsEvent
<1>3. BaseInv' /\ PutInv' /\ VectorInv'
  BY DEF BaseInv, PutInv, VectorInv, Steps
<1> QED
  BY <1>1, <1>2, <1>3 DEF FitInv

LEMMA WindowKeepsFit ==
  ASSUME IngestIInv, FitInv, Restart \/ OpenWindow \/ LeaveWindow \/ Killed \/ CallFails
  PROVE  FitInv'
<1>1. /\ coming' \subseteq coming /\ frame' \in {frame, <<>>}
      /\ features' = features /\ signals' = signals /\ pc' \notin Steps
  BY DEF Restart, OpenWindow, LeaveWindow, Killed, CallFails, Steps
<1>2. event' = "none"
  BY DEF Restart, OpenWindow, LeaveWindow, Killed, CallFails, NoJob, jobVars, Steps,
         IngestIInv, IngestTypeOK
<1>3. Waiting' \subseteq Events
  BY <1>1, EmptyRange DEF Waiting, RangeOf, IngestIInv, IngestTypeOK
<1> QED
  BY <1>1, <1>2, <1>3, IdleKeepsFit

LEMMA SendKeepsFit ==
  ASSUME IngestIInv, FitInv, NEW e \in Events, Send(e)
  PROVE  FitInv'
<1>1. /\ coming' = coming \ {e} /\ e \in coming /\ frame \in Seq(Events)
      /\ UNCHANGED <<pc, event, base, left, vector, features, signals>>
  BY DEF Send, jobVars, IngestIInv, IngestTypeOK
<1>2. FreshInv'
  <2>1. CASE frame' = Append(frame, e)
    <3>1. /\ RangeOf(frame') = RangeOf(frame) \cup {e}
          /\ Len(frame') = Len(frame) + 1 /\ Len(frame) \in Nat
          /\ frame'[Len(frame) + 1] = e
          /\ \A i \in 1..Len(frame) : frame'[i] = frame[i] /\ frame[i] \in RangeOf(frame)
      BY <1>1, <2>1, AppendRange DEF RangeOf
    <3>2. Waiting' = Waiting
      BY <1>1, <3>1 DEF Waiting
    <3>3. \A i, j \in 1..Len(frame') : frame'[i] = frame'[j] => i = j
      <4> SUFFICES ASSUME NEW i \in 1..Len(frame'), NEW j \in 1..Len(frame'),
                          frame'[i] = frame'[j]
                   PROVE  i = j
        OBVIOUS
      <4>1. e \notin RangeOf(frame)
        BY <1>1 DEF FitInv, FreshInv
      <4>2. /\ i \in 1..Len(frame) \/ i = Len(frame) + 1
            /\ j \in 1..Len(frame) \/ j = Len(frame) + 1
        BY <3>1
      <4> QED
        BY <3>1, <4>1, <4>2 DEF FitInv, FreshInv
    <3> QED
      BY <1>1, <3>1, <3>2, <3>3 DEF FitInv, FreshInv
  <2>2. CASE frame' = frame
    BY <1>1, <2>2 DEF FitInv, FreshInv, Waiting
  <2> QED
    BY <2>1, <2>2 DEF Send
<1>3. NameInv' /\ BaseInv' /\ PutInv' /\ VectorInv' /\ ReturnSpansTime' /\ SignalFitsItsEvent'
  BY <1>1 DEF FitInv, NameInv, BaseInv, PutInv, Derived, VectorInv, ReturnSpansTime,
              SignalFitsItsEvent
<1> QED
  BY <1>2, <1>3 DEF FitInv

LEMMA YieldKeepsFit ==
  ASSUME IngestIInv, FitInv, Yield
  PROVE  FitInv'
<1>1. /\ pc = "window" /\ frame # <<>> /\ frame \in Seq(Events) /\ frame' = Tail(frame)
      /\ \/ pc' = pc /\ event' = event
         \/ pc' = "append" /\ event' = Head(frame)
      /\ UNCHANGED <<coming, features, signals>>
  BY DEF Yield, IngestIInv, IngestTypeOK
<1>2. /\ Len(frame) \in Nat \ {0} /\ Head(frame) = frame[1]
      /\ Len(frame') = Len(frame) - 1
      /\ \A i \in 1..Len(frame') : frame'[i] = frame[i + 1] /\ i + 1 \in 1..Len(frame)
  BY <1>1
<1>3. Head(frame) \in RangeOf(frame) /\ RangeOf(frame') \subseteq RangeOf(frame)
  BY <1>1, TailRange
<1>4. \A i, j \in 1..Len(frame') : frame'[i] = frame'[j] => i = j
  BY <1>2 DEF FitInv, FreshInv
<1>5. Head(frame) \notin RangeOf(frame')
  <2> SUFFICES ASSUME NEW i \in 1..Len(frame'), frame'[i] = frame[1]
               PROVE  FALSE
    BY <1>2 DEF RangeOf
  <2>1. frame[i + 1] = frame[1] /\ i + 1 \in 1..Len(frame) /\ 1 \in 1..Len(frame)
    BY <1>2
  <2> QED
    BY <2>1 DEF FitInv, FreshInv
<1>6. FreshInv'
  <2>1. Waiting' \subseteq Waiting /\ Head(frame) \in Waiting
    BY <1>1, <1>3 DEF Waiting
  <2>2. event' \notin Waiting'
    BY <1>1, <1>3, <1>5, <2>1 DEF FitInv, FreshInv, Waiting
  <2> QED
    BY <1>1, <1>3, <1>4, <2>1, <2>2 DEF FitInv, FreshInv
<1>7. NameInv' /\ BaseInv' /\ PutInv' /\ VectorInv' /\ ReturnSpansTime' /\ SignalFitsItsEvent'
  BY <1>1 DEF FitInv, NameInv, BaseInv, PutInv, VectorInv, ReturnSpansTime,
              SignalFitsItsEvent
<1> QED
  BY <1>6, <1>7 DEF FitInv

\* The base is another bar: this one has no features yet.
LEMMA ReadPreviousKeepsFit ==
  ASSUME IngestIInv, FitInv, ReadPrevious
  PROVE  FitInv'
<1>1. /\ pc = "previous" /\ pc' = "put" /\ event \in Events /\ left' = FeaturesOf(event)
      /\ UNCHANGED <<coming, frame, event, vector, features, signals>>
  BY DEF ReadPrevious, IngestIInv, IngestTypeOK, Steps
<1>2. ASSUME base' # "none", KindOf[event] = "bar"
      PROVE  KindOf[base'] = "bar" /\ TsOf[base'] < TsOf[event]
  <2>1. PICK f \in features : /\ base' = f.event /\ f.name = "close"
                              /\ SymbolOf[f.event] = SymbolOf[event]
                              /\ TsOf[f.event] <= TsOf[event]
    BY <1>2 DEF ReadPrevious, LatestVector
  <2>2. f.event \in Events /\ f.event # event
    BY <1>1, <2>1 DEF IngestIInv, IngestTypeOK, Feature, FitInv, FreshInv
  <2>3. KindOf[f.event] = "bar"
    BY <2>1, <2>2, KindNames DEF FitInv, NameInv
  <2>4. TsOf[f.event] # TsOf[event]
    BY <1>1, <1>2, <2>1, <2>2, <2>3, OneBarAMinute
  <2>5. TsOf[f.event] \in Nat /\ TsOf[event] \in Nat
    BY <1>1, <2>2
  <2> QED
    BY <2>1, <2>3, <2>4, <2>5
<1>3. BaseInv' /\ PutInv' /\ VectorInv'
  BY <1>1, <1>2 DEF BaseInv, PutInv, VectorInv
<1>4. FreshInv' /\ NameInv' /\ ReturnSpansTime' /\ SignalFitsItsEvent'
  BY <1>1 DEF FitInv, FreshInv, Waiting, NameInv, ReturnSpansTime, SignalFitsItsEvent
<1> QED
  BY <1>3, <1>4 DEF FitInv

\* A feature that is there already under the same key is the event's own.
LEMMA PutKeepsFit ==
  ASSUME IngestIInv, FitInv, Put
  PROVE  FitInv'
<1> DEFINE next == NextFeature
           name == Head(left)
<1>1. /\ pc = "put" /\ pc' \in {"put", "vector"} /\ event \in Events
      /\ event \in RangeOf(ledger) /\ left \in Seq(Names) /\ left # <<>>
      /\ left' = Tail(left) /\ pc' = (IF Len(left) = 1 THEN "vector" ELSE "put")
      /\ UNCHANGED <<coming, frame, event, base, vector, signals>>
  BY DEF Put, IngestIInv, IngestTypeOK, DerivedInv, Steps
<1>2. /\ RangeOf(left) = {name} \cup RangeOf(left')
      /\ pc' = "vector" => left' = <<>>
      /\ name \in RangeOf(FeaturesOf(event))
  BY <1>1, HeadAndTail DEF FitInv, PutInv
<1>3. next.name = name /\ next.event = event
      /\ next.base = IF name = "minute_return" THEN base ELSE "none"
  BY DEF NextFeature
<1>4. features \subseteq features' /\ features' \subseteq features \cup {next}
  BY DEF Put
<1> HIDE DEF next, name
<1>5. \E f \in features' : f.name = name /\ f.event = event
  <2>1. CASE \E f \in features : SameKey(f, next)
    <3>1. PICK f \in features : f.name = name /\ SymbolOf[f.event] = SymbolOf[event]
                                /\ TsOf[f.event] = TsOf[event]
      BY <1>3, <2>1 DEF SameKey
    <3>2. f.event \in RangeOf(ledger) /\ f.event \in Events
      BY DEF IngestIInv, DerivedIsStored, IngestTypeOK, Feature
    <3>3. KindOf[f.event] = KindOf[event]
      <4>1. f.name \in RangeOf(FeaturesOf(f.event))
        BY DEF FitInv, NameInv
      <4>2. name \in RangeOf(FeaturesOf(f.event)) /\ name \in RangeOf(FeaturesOf(event))
        BY <1>2, <3>1, <4>1
      <4>3. /\ KindOf[event] = "bar" => name \in {"close", "volume", "vwap", "minute_return"}
            /\ KindOf[event] = "quote" => name \in {"nbbo_midpoint", "nbbo_spread_bps"}
            /\ KindOf[event] \in {"bar", "quote"}
        BY <1>1, <4>2, KindNames
      <4>4. /\ KindOf[f.event] = "bar" => name \in {"close", "volume", "vwap", "minute_return"}
            /\ KindOf[f.event] = "quote" => name \in {"nbbo_midpoint", "nbbo_spread_bps"}
            /\ KindOf[f.event] \in {"bar", "quote"}
        BY <3>2, <4>2, KindNames
      <4> QED
        BY <4>3, <4>4
    <3>4. f.event = event
      BY <1>1, <3>1, <3>2, <3>3, StoredKeys
    <3> QED
      BY <1>4, <3>1, <3>4
  <2>2. CASE ~\E f \in features : SameKey(f, next)
    <3>1. next \in features'
      BY <2>2 DEF Put, next
    <3> QED
      BY <1>3, <3>1
  <2> QED
    BY <2>1, <2>2
<1>6. PutInv'
  <2>1. ASSUME NEW n \in RangeOf(FeaturesOf(event))
        PROVE  n \in RangeOf(left') \/ Derived(n)'
    <3>1. n \in RangeOf(left) \/ Derived(n)
      BY <1>1 DEF FitInv, PutInv
    <3>2. Derived(n) => Derived(n)'
      BY <1>1, <1>4 DEF Derived
    <3>3. n = name => Derived(n)'
      BY <1>1, <1>5 DEF Derived
    <3> QED
      BY <1>2, <3>1, <3>2, <3>3
  <2> QED
    BY <1>1, <1>2, <2>1 DEF FitInv, PutInv
<1>7. FreshInv'
  <2>1. event \notin Waiting /\ Waiting' = Waiting
    BY <1>1 DEF FitInv, FreshInv, Waiting
  <2> QED
    BY <1>1, <1>3, <1>4, <2>1 DEF FitInv, FreshInv
<1>8. NameInv'
  BY <1>2, <1>3, <1>4 DEF FitInv, NameInv
<1>9. ReturnSpansTime'
  <2>1. next.base # "none" => KindOf[event] = "bar"
    BY <1>1, <1>2, <1>3, KindNames
  <2>2. next.base # "none" => KindOf[next.base] = "bar" /\ TsOf[next.base] < TsOf[next.event]
    BY <1>1, <1>3, <2>1 DEF FitInv, BaseInv
  <2> QED
    BY <1>4, <2>2 DEF FitInv, ReturnSpansTime
<1>10. BaseInv' /\ VectorInv' /\ SignalFitsItsEvent'
  BY <1>1 DEF FitInv, BaseInv, VectorInv, SignalFitsItsEvent
<1> QED
  BY <1>6, <1>7, <1>8, <1>9, <1>10 DEF FitInv

\* The event's features are the newest that its own time lets through.
LEMMA ReadVectorKeepsFit ==
  ASSUME IngestIInv, FitInv, ReadVector
  PROVE  FitInv'
<1>1. /\ pc = "vector" /\ pc' = "strategies" /\ event \in Events
      /\ vector' = LatestVector(SymbolOf[event], TsOf[event])
      /\ UNCHANGED <<coming, frame, event, base, left, features, signals>>
  BY DEF ReadVector, IngestIInv, IngestTypeOK, Steps
<1>2. \A f \in vector' : TsOf[f.event] <= TsOf[event]
  BY <1>1 DEF LatestVector
<1>3. ASSUME NEW n \in RangeOf(FeaturesOf(event))
      PROVE  \E f \in vector' : f.name = n /\ f.event = event
  <2>1. PICK f \in features : f.name = n /\ f.event = event
    BY <1>1, EmptyRange DEF FitInv, PutInv, Derived
  <2>2. TsOf[event] \in Nat
    BY <1>1
  <2>3. f \in vector'
    BY <1>1, <2>1, <2>2 DEF LatestVector
  <2> QED
    BY <2>1, <2>3
<1>4. VectorInv'
  BY <1>1, <1>2, <1>3 DEF VectorInv, Fits
<1>5. FreshInv' /\ NameInv' /\ BaseInv' /\ PutInv' /\ ReturnSpansTime' /\ SignalFitsItsEvent'
  BY <1>1 DEF FitInv, FreshInv, Waiting, NameInv, BaseInv, PutInv, ReturnSpansTime,
              SignalFitsItsEvent
<1> QED
  BY <1>4, <1>5 DEF FitInv

LEMMA PublishKeepsFit ==
  ASSUME IngestIInv, FitInv, NEW v \in Versions, Publish(v)
  PROVE  FitInv'
<1>1. /\ pc = "publish" /\ pc' = pc
      /\ signals' \subseteq signals \cup {[version |-> v, event |-> event, vector |-> vector]}
      /\ UNCHANGED <<coming, frame, event, base, left, vector, features>>
  BY DEF Publish
<1>2. Fits(vector, event)
  BY <1>1 DEF FitInv, VectorInv
<1>3. SignalFitsItsEvent'
  BY <1>1, <1>2 DEF Fits, FitInv, SignalFitsItsEvent
<1>4. FreshInv' /\ NameInv' /\ BaseInv' /\ PutInv' /\ VectorInv' /\ ReturnSpansTime'
  BY <1>1 DEF FitInv, FreshInv, Waiting, NameInv, BaseInv, PutInv, VectorInv, ReturnSpansTime
<1> QED
  BY <1>3, <1>4 DEF FitInv

\* The steps between these leave features and vector alone.
LEMMA OthersKeepFit ==
  ASSUME IngestIInv, FitInv,
         AppendRaw \/ ReadStrategies \/ Finish \/ \E v \in Versions : Activate(v)
  PROVE  FitInv'
<1>1. CASE Finish
  <2>1. /\ pc' = "window" /\ event' = "none"
        /\ UNCHANGED <<coming, frame, features, signals>>
    BY <1>1 DEF Finish, NoJob
  <2>2. Waiting' \subseteq Events
    BY <2>1 DEF Waiting, RangeOf, IngestIInv, IngestTypeOK
  <2> QED
    BY <2>1, <2>2, IdleKeepsFit DEF Steps
<1>2. CASE AppendRaw \/ ReadStrategies \/ \E v \in Versions : Activate(v)
  <2>1. /\ \/ pc' = pc
           \/ pc = "append" /\ pc' = "previous"
           \/ pc = "strategies" /\ pc' = "publish"
        /\ UNCHANGED <<coming, frame, event, base, left, vector, features, signals>>
    BY <1>2 DEF AppendRaw, ReadStrategies, Activate, jobVars
  <2>2. FreshInv' /\ NameInv' /\ ReturnSpansTime' /\ SignalFitsItsEvent'
    BY <2>1 DEF FitInv, FreshInv, Waiting, NameInv, ReturnSpansTime, SignalFitsItsEvent
  <2>3. BaseInv' /\ PutInv' /\ VectorInv'
    BY <2>1 DEF FitInv, BaseInv, PutInv, Derived, VectorInv
  <2> QED
    BY <2>2, <2>3 DEF FitInv
<1> QED
  BY <1>1, <1>2

THEOREM FitInvariant == IngestSpec => []FitInv
<1>1. IngestInit => FitInv
  <2> SUFFICES ASSUME IngestInit PROVE FitInv
    OBVIOUS
  <2>1. Len(<<>>) = 0
    BY EmptySeq
  <2> QED
    BY <2>1, EmptyRange
    DEF IngestInit, FitInv, FreshInv, Waiting, NameInv, BaseInv, PutInv, VectorInv,
        ReturnSpansTime, SignalFitsItsEvent
<1>2. IngestIInv /\ FitInv /\ [IngestNext]_ingestVars => FitInv'
  <2> SUFFICES ASSUME IngestIInv, FitInv, [IngestNext]_ingestVars
               PROVE  FitInv'
    OBVIOUS
  <2>1. CASE IngestNext
    BY <2>1, WindowKeepsFit, SendKeepsFit, YieldKeepsFit, ReadPreviousKeepsFit,
       PutKeepsFit, ReadVectorKeepsFit, PublishKeepsFit, OthersKeepFit
    DEF IngestNext, Processing
  <2>2. CASE UNCHANGED ingestVars
    <3>1. UNCHANGED <<pc, coming, frame, event, base, left, vector, features, signals>>
      BY <2>2 DEF ingestVars, jobVars
    <3> QED
      BY <3>1 DEF FitInv, FreshInv, Waiting, NameInv, BaseInv, PutInv, Derived, VectorInv,
                  ReturnSpansTime, SignalFitsItsEvent
  <2> QED
    BY <2>1, <2>2
<1> QED
  BY <1>1, <1>2, IngestInvariant, PTL DEF IngestSpec

\* minute_return compares a bar with an earlier one, never with itself.
\* (feature_store.py:249, 258)
THEOREM ReturnsAlwaysSpanTime == IngestSpec => []ReturnSpansTime
<1>1. FitInv => ReturnSpansTime
  BY DEF FitInv
<1> QED
  BY <1>1, FitInvariant, PTL

\* A signal rests on all features of its event and on nothing newer, though the
\* table fills in any order and INSERT OR IGNORE drops what is there already.
\* (feature_store.py:204-239, platform.py:59-82)
THEOREM SignalsAlwaysFit == IngestSpec => []SignalFitsItsEvent
<1>1. FitInv => SignalFitsItsEvent
  BY DEF FitInv
<1> QED
  BY <1>1, FitInvariant, PTL

-----------------------------------------------------------------------------
(* What breaks cost *)

Whole(e) == \A name \in RangeOf(FeaturesOf(e)) :
              \E f \in features : f.name = name /\ f.event = e

Broken == {e \in RangeOf(ledger) \ {event} : ~Whole(e)}

LEMMA BrokenIsFinite == IngestTypeOK => IsFiniteSet(Broken)
<1> SUFFICES ASSUME IngestTypeOK PROVE IsFiniteSet(Broken)
  OBVIOUS
<1>1. Broken \subseteq Events
  BY DEF Broken, RangeOf, IngestTypeOK
<1> QED
  BY <1>1, FS_Subset

LEMMA WholeStaysWhole ==
  ASSUME features \subseteq features'
  PROVE  \A e : Whole(e) => Whole(e)'
BY DEF Whole

LEMMA FewerAreBroken ==
  ASSUME IngestTypeOK, StoredIsDerived, Broken' \subseteq Broken, breaks' = breaks
  PROVE  StoredIsDerived'
<1>1. IsFiniteSet(Broken) /\ Cardinality(Broken) <= breaks
  BY BrokenIsFinite DEF StoredIsDerived, Broken, Whole
<1>2. Cardinality(Broken') <= Cardinality(Broken) /\ IsFiniteSet(Broken')
  BY <1>1, FS_Subset
<1>3. Cardinality(Broken') \in Nat /\ Cardinality(Broken) \in Nat /\ breaks \in Nat
  BY <1>1, <1>2, FS_CardinalityType DEF IngestTypeOK
<1>4. Cardinality(Broken') <= breaks'
  BY <1>1, <1>2, <1>3
<1> QED
  BY <1>4 DEF StoredIsDerived, Broken, Whole

\* A break costs the event in progress, and no other.
LEMMA BreakCostsOne ==
  ASSUME IngestTypeOK, StoredIsDerived, CallFails \/ Killed
  PROVE  StoredIsDerived'
<1>1. IsFiniteSet(Broken) /\ Cardinality(Broken) <= breaks
  BY BrokenIsFinite DEF StoredIsDerived, Broken, Whole
<1>2. Broken' \subseteq Broken \cup {event}
  BY DEF CallFails, Killed, Broken, Whole, RangeOf
<1>3. /\ IsFiniteSet(Broken \cup {event})
      /\ Cardinality(Broken \cup {event}) <= Cardinality(Broken) + 1
  <2>1. /\ IsFiniteSet(Broken \cup {event})
        /\ \/ Cardinality(Broken \cup {event}) = Cardinality(Broken)
           \/ Cardinality(Broken \cup {event}) = Cardinality(Broken) + 1
    BY <1>1, FS_AddElement
  <2> QED
    BY <1>1, <2>1, FS_CardinalityType
<1>4. IsFiniteSet(Broken') /\ Cardinality(Broken') <= Cardinality(Broken \cup {event})
  BY <1>2, <1>3, FS_Subset
<1>5. /\ Cardinality(Broken') \in Nat /\ Cardinality(Broken) \in Nat
      /\ Cardinality(Broken \cup {event}) \in Nat /\ breaks \in Nat
  BY <1>1, <1>3, <1>4, FS_CardinalityType DEF IngestTypeOK
<1>6. breaks' = breaks + 1
  BY DEF CallFails, Killed
<1>7. Cardinality(Broken') <= breaks'
  BY <1>1, <1>3, <1>4, <1>5, <1>6
<1> QED
  BY <1>7 DEF StoredIsDerived, Broken, Whole

LEMMA StepsKeepDerived ==
  ASSUME IngestIInv, FitInv, StoredIsDerived, [IngestNext]_ingestVars
  PROVE  StoredIsDerived'
<1> USE DEF IngestIInv
<1>1. CASE CallFails \/ Killed
  BY <1>1, BreakCostsOne
<1>2. CASE AppendRaw
  <2>1. /\ RangeOf(ledger)' \subseteq RangeOf(ledger) \cup {event}
        /\ UNCHANGED <<event, features, breaks>>
    <3>1. event \in Events /\ ledger \in Seq(Events)
      BY <1>2 DEF AppendRaw, IngestTypeOK, Steps
    <3>2. ledger' = ledger \/ ledger' = Append(ledger, event)
      BY <1>2 DEF AppendRaw, AppendEvent
    <3>3. RangeOf(Append(ledger, event)) = RangeOf(ledger) \cup {event}
      BY <3>1, AppendRange
    <3> QED
      BY <1>2, <3>2, <3>3 DEF AppendRaw, jobVars, RangeOf
  <2>2. Broken' \subseteq Broken
    BY <2>1 DEF Broken, Whole
  <2> QED
    BY <2>1, <2>2, FewerAreBroken
<1>3. CASE Put
  <2>1. features \subseteq features' /\ UNCHANGED <<event, breaks>>
        /\ RangeOf(ledger)' = RangeOf(ledger)
    BY <1>3 DEF Put, RangeOf
  <2>2. Broken' \subseteq Broken
    BY <2>1, WholeStaysWhole DEF Broken
  <2> QED
    BY <2>1, <2>2, FewerAreBroken
<1>4. CASE Finish
  <2>1. UNCHANGED <<features, breaks>> /\ RangeOf(ledger)' = RangeOf(ledger)
        /\ pc = "publish"
    BY <1>4 DEF Finish, RangeOf
  <2>2. Whole(event)
    BY <2>1 DEF FitInv, VectorInv, Fits, Whole, DerivedInv
  <2>3. Broken' \subseteq Broken
    BY <2>1, <2>2, WholeStaysWhole DEF Broken
  <2> QED
    BY <2>1, <2>3, FewerAreBroken
<1>5. CASE Yield
  <2>1. UNCHANGED <<features, breaks>> /\ RangeOf(ledger)' = RangeOf(ledger)
        /\ event = "none"
    BY <1>5 DEF Yield, IngestTypeOK, Steps, RangeOf
  <2>2. RangeOf(ledger) \subseteq Events
    BY DEF RangeOf, IngestTypeOK
  <2>3. Broken' \subseteq Broken
    BY <2>1, <2>2, WholeStaysWhole DEF Broken
  <2> QED
    BY <2>1, <2>3, FewerAreBroken
<1>6. CASE \/ Restart \/ OpenWindow \/ LeaveWindow \/ ReadPrevious \/ ReadVector
           \/ ReadStrategies \/ UNCHANGED ingestVars
           \/ \E e \in Events : Send(e)
           \/ \E v \in Versions : Publish(v) \/ Activate(v)
  <2>1. UNCHANGED <<event, features, breaks>> /\ RangeOf(ledger)' = RangeOf(ledger)
    BY <1>6 DEF Restart, OpenWindow, LeaveWindow, ReadPrevious, ReadVector, ReadStrategies,
                Send, Publish, Activate, jobVars, ingestVars, RangeOf
  <2>2. Broken' \subseteq Broken
    BY <2>1, WholeStaysWhole DEF Broken
  <2> QED
    BY <2>1, <2>2, FewerAreBroken
<1> QED
  BY <1>1, <1>2, <1>3, <1>4, <1>5, <1>6 DEF IngestNext, Processing

\* Every stored event has all its features, except the one in progress and one for
\* each failed call or kill.  (platform.py:59-61)
THEOREM StoredIsAlwaysDerived == IngestSpec => []StoredIsDerived
<1>1. IngestInit => StoredIsDerived
  <2> SUFFICES ASSUME IngestInit PROVE StoredIsDerived
    OBVIOUS
  <2>1. Broken = {}
    BY EmptyRange DEF IngestInit, Broken
  <2>2. Cardinality(Broken) = 0 /\ breaks = 0
    BY <2>1, FS_EmptySet DEF IngestInit
  <2> QED
    BY <2>2 DEF StoredIsDerived, Broken, Whole
<1> QED
  BY <1>1, StepsKeepDerived, IngestInvariant, FitInvariant, PTL DEF IngestSpec
=============================================================================
