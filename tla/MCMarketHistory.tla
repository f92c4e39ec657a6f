--------------------------- MODULE MCMarketHistory ---------------------------
(***************************************************************************)
(* A small instance of MarketHistory: the last minutes of the Friday       *)
(* before summer time begins and the first of the Monday after, with a     *)
(* request that starts within a minute, one that ends within one, one that *)
(* covers the weekend only and one whose end is not after its start.       *)
(***************************************************************************)
EXTENDS MarketHistory, FiniteSets

\* Day 0 is a Monday and summer time begins on day 13.
Friday == 11 * Day + Clock(21, 0)
Monday == 14 * Day + Clock(13, 30)
MCInstants == {Friday - 4, Friday - 2, Friday, Monday, Monday + 2}

MCRows ==
  [symbol : {"AAPL"}, at : {Friday - 4, Friday - 2, Monday}]
    \cup [symbol : {"MSFT"}, at : {Friday - 2, NoTime}]

MCRequests ==
  [kind : {"bars"}, symbols : {{"AAPL"}, {"AAPL", "MSFT"}}, start : {Friday - 4, Friday - 3},
   end : {Friday - 4, Friday - 1, Monday + 1, Monday + 3}]
    \cup [kind : {"quotes", "news"}, symbols : {{"MSFT"}, {}}, start : {Friday - 2},
          end : {Monday}]
    \cup {[kind |-> "bars", symbols |-> {"AAPL"}, start |-> Friday, end |-> Monday]}

\* Intervals are the maximal runs of missing minutes, in order, and count them.
ASSUME IntervalsAreRuns ==
  \A missing \in SUBSET {2 * i : i \in 0..6} :
    LET intervals == MissingIntervals(missing)
        of(run) == {m \in missing : run.start <= m /\ m < run.end}
    IN  /\ missing = UNION {of(intervals[i]) : i \in DOMAIN intervals}
        /\ \A i \in DOMAIN intervals :
             /\ Cardinality(of(intervals[i])) = intervals[i].minutes
             /\ intervals[i].minutes * Minute = intervals[i].end - intervals[i].start
             /\ i > 1 => intervals[i - 1].end < intervals[i].start
=============================================================================
