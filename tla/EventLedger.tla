----------------------------- MODULE EventLedger -----------------------------
(***************************************************************************)
(* RawSipEventStore of feature_store.py: the append-only table of raw SIP  *)
(* events and the three queries made of it.  Each is one SQL statement.    *)
(* The SIP owner appends; every API thread reads.                          *)
(***************************************************************************)
EXTENDS Integers, Sequences, FiniteSets

CONSTANTS
  Events,     \* distinct events: what sha256 of the serialised event tells apart
  SymbolOf,   \* event -> its symbol
  TsOf        \* event -> its ts_utc; a bar carries the start of its minute

ASSUME EventLedgerAssumption ==
  /\ TsOf \in [Events -> Nat]
  /\ IsFiniteSet(Events)

VARIABLE ledger   \* the rows in the order of their AUTOINCREMENT sequence

LedgerTypeOK == ledger \in Seq(Events)

LedgerInit == ledger = <<>>

Stored(e) == \E i \in 1..Len(ledger) : ledger[i] = e

\* append: INSERT OR IGNORE on the event's digest, so that an event that is
\* stored already changes nothing.
AppendEvent(e) ==
  ledger' = IF Stored(e) THEN ledger ELSE Append(ledger, e)

\* The sequence numbers of the events with one of these symbols.
Matching(symbols) == {i \in 1..Len(ledger) : SymbolOf[ledger[i]] \in symbols}

\* Mistake: the events of that very time are left out as well.
SequenceUpTo(ts) ==
  LET earlier == {i \in 1..Len(ledger) : TsOf[ledger[i]] <= ts}
      last == {i \in earlier : \A j \in earlier : j <= i}
  IN  IF last = {} THEN 0 ELSE CHOOSE i \in last : TRUE

\* sequence_before: MAX(sequence) WHERE ts_utc < ts, 0 if there is none.
SequenceBefore(ts) ==
  LET earlier == {i \in 1..Len(ledger) : TsOf[ledger[i]] < ts}
      last == {i \in earlier : \A j \in earlier : j <= i}
  IN  IF last = {} THEN 0 ELSE CHOOSE i \in last : TRUE

\* Mistake: ORDER BY sequence DESC, the newest rows first.
ListNewest(after, symbols, limit) ==
  LET newer(n) == {j \in Matching(symbols) : n <= j}
  IN  {i \in Matching(symbols) : after < i /\ Cardinality(newer(i)) <= limit}

\* list_after: WHERE sequence > after AND symbol IN symbols ORDER BY sequence
\* LIMIT limit, as the set of the rows' sequence numbers.
ListAfter(after, symbols, limit) ==
  LET upTo(n) == {j \in Matching(symbols) : after < j /\ j <= n}
  IN  {i \in Matching(symbols) : after < i /\ Cardinality(upTo(i)) <= limit}
=============================================================================
