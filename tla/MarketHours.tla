----------------------------- MODULE MarketHours -----------------------------
(***************************************************************************)
(* The session clock of market_health.py.  An instant is a number of half  *)
(* minutes, so that a request may start within a minute; day 0 is the 1st  *)
(* of March, UTC, and instants lie between then and the end of February.   *)
(* The code derives the summer time of New York in two ways, from a UTC    *)
(* instant and from a date.                                                *)
(***************************************************************************)
EXTENDS Integers, Sequences, FiniteSets

CONSTANT FirstWeekday  \* the weekday of day 0; Monday is 0

ASSUME MarketHoursAssumption == FirstWeekday \in 0..6

Minute == 2
Hour == 60 * Minute
Day == 24 * Hour
Clock(hours, minutes) == hours * Hour + minutes * Minute
MinuteOf(t) == t - (t % Minute)

Weekday(day) == (FirstWeekday + day) % 7
IsWeekday(day) == Weekday(day) < 5

\* `first' is the first day of a month.
NthSunday(first, n) == first + 6 - Weekday(first) + 7 * (n - 1)
SummerStart == NthSunday(0, 2)
SummerEnd == NthSunday(245, 1)

EasternOffsetAt(t) ==
  IF SummerStart * Day + 7 * Hour <= t /\ t < SummerEnd * Day + 6 * Hour
  THEN 4 * Hour ELSE 5 * Hour

EasternOffsetOn(day) == IF SummerStart <= day /\ day < SummerEnd THEN 4 * Hour ELSE 5 * Hour

Eastern(t) == t - EasternOffsetAt(t)
EasternDate(t) == Eastern(t) \div Day
EasternClock(t) == Eastern(t) % Day

RegularOpen == Clock(9, 30)
RegularClose == Clock(16, 0)

\* describe_market_session
Session(t) ==
  LET between(from, to) == IsWeekday(EasternDate(t)) /\ EasternClock(t) \in from..to - 1
  IN  CASE between(Clock(4, 0), RegularOpen) -> "pre_market"
        [] between(RegularOpen, RegularClose) -> "regular"
        [] between(RegularClose, Clock(20, 0)) -> "after_hours"
        [] OTHER -> "closed"

RegularTimestamp(t) ==
  /\ IsWeekday(EasternDate(t))
  /\ RegularOpen <= EasternClock(t) /\ EasternClock(t) < RegularClose

\* Mistake: New York is five hours behind all the year.
RegularWindowInWinter(day) ==
  [open |-> day * Day + RegularOpen + 5 * Hour, close |-> day * Day + RegularClose + 5 * Hour]

RegularWindow(day) ==
  [open  |-> day * Day + RegularOpen + EasternOffsetOn(day),
   close |-> day * Day + RegularClose + EasternOffsetOn(day)]

Later(a, b) == IF a < b THEN b ELSE a
Earlier(a, b) == IF a < b THEN a ELSE b

\* The microsecond before `end' lies in the half minute before it.
RequestedRegularDates(start, end) ==
  {day \in EasternDate(start)..EasternDate(end - 1) :
     /\ IsWeekday(day)
     /\ Later(start, RegularWindow(day).open) < Earlier(end, RegularWindow(day).close)}

\* Mistake: the minute in which the request starts is expected too.
ExpectedFromTheMinute(start, end) ==
  UNION {{m \in MinuteOf(Later(start, RegularWindow(day).open))
                  ..Earlier(end, RegularWindow(day).close) - 1 : m % Minute = 0}
           : day \in RequestedRegularDates(start, end)}

\* The whole minutes of the sessions that start within the request.
ExpectedMinutes(start, end) ==
  UNION {LET cursor == MinuteOf(Later(start, RegularWindow(day).open))
             first == IF cursor < start THEN cursor + Minute ELSE cursor
         IN  {m \in first..Earlier(end, RegularWindow(day).close) - 1 : m % Minute = 0}
           : day \in RequestedRegularDates(start, end)}

\* sorted(set(...)), by the number of smaller minutes.
Ascending(minutes) ==
  [i \in 1..Cardinality(minutes) |->
     CHOOSE m \in minutes : Cardinality({k \in minutes : k < m}) = i - 1]

\* One turn of the loop: a run of minutes, with the intervals before it, goes on or
\* ends.
IntervalOf(run) ==
  [start |-> run.start, end |-> run.previous + Minute,
   minutes |-> (run.previous + Minute - run.start) \div Minute]

NextRun(run, m) ==
  IF m = run.previous + Minute
  THEN [start |-> run.start, previous |-> m, before |-> run.before]
  ELSE [start |-> m, previous |-> m, before |-> Append(run.before, IntervalOf(run))]

\* The run after each minute.
Runs(sorted) ==
  LET run[i \in 1..Len(sorted)] ==
        IF i = 1 THEN [start |-> sorted[1], previous |-> sorted[1], before |-> <<>>]
        ELSE NextRun(run[i - 1], sorted[i])
  IN  run

MissingIntervals(missing) ==
  LET last == Runs(Ascending(missing))[Cardinality(missing)]
  IN  IF missing = {} THEN <<>> ELSE Append(last.before, IntervalOf(last))
=============================================================================
