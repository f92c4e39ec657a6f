------------------------- MODULE MarketHistoryProofs -------------------------
(***************************************************************************)
(* TLAPS proofs about MarketHours and MarketHistory, for any year, archive *)
(* and requests.                                                           *)
(*                                                                         *)
(* The two ways in which the code derives summer time differ for some      *)
(* hours of two Sundays.  WindowIsRegular shows that no weekday is among   *)
(* them; ExpectedMinutesAre then describes the expected minutes without    *)
(* windows, dates or roundings, and the properties of an answer follow     *)
(* from CoverageInv.                                                       *)
(*                                                                         *)
(* What the loop over the missing minutes returns needs induction.  The    *)
(* library's induction principles take a predicate as a parameter, which   *)
(* no prover at hand instantiates; LeastNumber says the same of sets, and  *)
(* a proof looks at the least number that something does not hold of.      *)
(***************************************************************************)
EXTENDS MarketHistory, FiniteSetTheorems, WellFoundedInduction, TLAPS

USE MarketHoursAssumption

-----------------------------------------------------------------------------
(* Dates *)

\* The date of an instant of New York, and its clock.
LEMMA DateAndClock ==
  ASSUME NEW x \in Int
  PROVE  /\ x \div Day \in Int /\ x % Day \in Int
         /\ x % Day \in 0..Day - 1
         /\ x = (x \div Day) * Day + (x % Day)
         /\ (x \div Day) * Day <= x /\ x < (x \div Day) * Day + Day
         /\ \A d \in Int : d * Day <= x /\ x < d * Day + Day => x \div Day = d
  BY DEF Day, Hour, Minute

\* Summer time begins and ends on Sundays.
LEMMA SummerDays ==
  /\ SummerStart \in Int /\ SummerEnd \in Int /\ SummerStart < SummerEnd
  /\ ~IsWeekday(SummerStart) /\ ~IsWeekday(SummerEnd)
<1>1. SummerStart = 13 - FirstWeekday /\ SummerEnd = 251 - ((FirstWeekday + 245) % 7)
  BY DEF SummerStart, SummerEnd, NthSunday, Weekday
<1>2. SummerStart \in 7..13 /\ (FirstWeekday + SummerStart) % 7 = 6
  BY <1>1
<1>3. SummerEnd \in 245..251 /\ (FirstWeekday + SummerEnd) % 7 = 6
  BY <1>1
<1> QED
  BY <1>2, <1>3 DEF IsWeekday, Weekday

\* The offset of an instant is that of its date, but for the two Sundays.
LEMMA OffsetsAgree ==
  ASSUME NEW t \in Int
  PROVE  /\ EasternDate(t) \in Int /\ Eastern(t) \in Int
         /\ IsWeekday(EasternDate(t)) => EasternOffsetAt(t) = EasternOffsetOn(EasternDate(t))
<1> DEFINE d == EasternDate(t)
<1>1. EasternOffsetAt(t) \in {4 * Hour, 5 * Hour} /\ Eastern(t) \in Int
  BY DEF EasternOffsetAt, Eastern, Hour, Minute
<1>2. d \in Int /\ d * Day <= Eastern(t) /\ Eastern(t) < d * Day + Day
  <2>1. /\ Eastern(t) \div Day \in Int /\ (Eastern(t) \div Day) * Day <= Eastern(t)
        /\ Eastern(t) < (Eastern(t) \div Day) * Day + Day
    BY <1>1, DateAndClock
  <2> QED
    BY <2>1 DEF EasternDate
<1> HIDE DEF d
<1>3. ASSUME IsWeekday(d) PROVE EasternOffsetAt(t) = EasternOffsetOn(d)
  <2>1. d # SummerStart /\ d # SummerEnd
    BY <1>3, SummerDays
  <2>2. CASE SummerStart * Day + 7 * Hour <= t /\ t < SummerEnd * Day + 6 * Hour
    <3>1. EasternOffsetAt(t) = 4 * Hour /\ Eastern(t) = t - 4 * Hour
      BY <2>2 DEF EasternOffsetAt, Eastern
    <3>2. SummerStart <= d /\ d <= SummerEnd
      BY <1>2, <2>2, <3>1, SummerDays DEF Day, Hour, Minute
    <3> QED
      BY <1>2, <2>1, <3>1, <3>2, SummerDays DEF EasternOffsetOn
  <2>3. CASE ~(SummerStart * Day + 7 * Hour <= t /\ t < SummerEnd * Day + 6 * Hour)
    <3>1. EasternOffsetAt(t) = 5 * Hour /\ Eastern(t) = t - 5 * Hour
      BY <2>3 DEF EasternOffsetAt, Eastern
    <3>2. d <= SummerStart \/ SummerEnd <= d
      BY <1>2, <2>3, <3>1, SummerDays DEF Day, Hour, Minute
    <3> QED
      BY <1>2, <2>1, <3>1, <3>2, SummerDays DEF EasternOffsetOn
  <2> QED
    BY <2>2, <2>3
<1> QED
  BY <1>1, <1>2, <1>3 DEF d

\* Dates do not run backwards, though the clock of New York does.
LEMMA DatesAreMonotone ==
  ASSUME NEW t \in Int, NEW u \in Int, t <= u
  PROVE  EasternDate(t) <= EasternDate(u)
<1>1. \A v \in Int : /\ EasternDate(v) \in Int
                     /\ EasternDate(v) * Day <= Eastern(v)
                     /\ Eastern(v) < EasternDate(v) * Day + Day
  <2> SUFFICES ASSUME NEW v \in Int
               PROVE  /\ EasternDate(v) \in Int
                      /\ EasternDate(v) * Day <= Eastern(v)
                      /\ Eastern(v) < EasternDate(v) * Day + Day
    OBVIOUS
  <2>1. Eastern(v) \in Int
    BY OffsetsAgree
  <2>2. /\ Eastern(v) \div Day \in Int /\ (Eastern(v) \div Day) * Day <= Eastern(v)
        /\ Eastern(v) < (Eastern(v) \div Day) * Day + Day
    BY <2>1, DateAndClock
  <2> QED
    BY <2>2 DEF EasternDate
<1>2. CASE EasternOffsetAt(t) = 4 * Hour /\ EasternOffsetAt(u) = 5 * Hour
  <2>1. t < SummerEnd * Day + 6 * Hour /\ SummerStart * Day + 7 * Hour <= t
    BY <1>2 DEF EasternOffsetAt, Hour, Minute
  <2>2. SummerEnd * Day + 6 * Hour <= u
    BY <1>2, <2>1, SummerDays DEF EasternOffsetAt, Day, Hour, Minute
  <2>3. Eastern(t) < SummerEnd * Day + 2 * Hour /\ SummerEnd * Day + Hour <= Eastern(u)
    BY <1>2, <2>1, <2>2, SummerDays DEF Eastern, Day, Hour, Minute
  <2>4. EasternDate(t) <= SummerEnd /\ SummerEnd <= EasternDate(u)
    BY <1>1, <2>3, SummerDays, OffsetsAgree DEF Day, Hour, Minute
  <2> QED
    BY <1>1, <2>4, SummerDays
<1>3. CASE ~(EasternOffsetAt(t) = 4 * Hour /\ EasternOffsetAt(u) = 5 * Hour)
  <2>1. Eastern(t) <= Eastern(u)
    BY <1>3 DEF Eastern, EasternOffsetAt, Hour, Minute
  <2> QED
    BY <1>1, <2>1, OffsetsAgree DEF Day, Hour, Minute
<1> QED
  BY <1>2, <1>3

\* An instant is of the regular session, as derived from the instant, exactly if
\* it is in the window that is derived from its date.
LEMMA WindowIsRegular ==
  ASSUME NEW t \in Int, NEW day \in Int, IsWeekday(day)
  PROVE  RegularWindow(day).open <= t /\ t < RegularWindow(day).close
           <=> RegularTimestamp(t) /\ EasternDate(t) = day
<1> DEFINE off == EasternOffsetOn(day)
<1>1. off \in {4 * Hour, 5 * Hour}
      /\ RegularWindow(day).open = day * Day + RegularOpen + off
      /\ RegularWindow(day).close = day * Day + RegularClose + off
  BY DEF EasternOffsetOn, RegularWindow
<1>2. RegularOpen = 1140 /\ RegularClose = 1920 /\ Hour = 120 /\ Day = 2880
  BY DEF RegularOpen, RegularClose, Clock, Day, Hour, Minute
<1> HIDE DEF off
<1>3. ASSUME RegularWindow(day).open <= t, t < RegularWindow(day).close
      PROVE  RegularTimestamp(t) /\ EasternDate(t) = day
  <2>1. EasternDate(t) = day
    <3>1. day * Day <= Eastern(t) /\ Eastern(t) < day * Day + Day /\ Eastern(t) \in Int
      BY <1>1, <1>2, <1>3 DEF Eastern, EasternOffsetAt
    <3> QED
      BY <3>1, DateAndClock DEF EasternDate
  <2>2. EasternOffsetAt(t) = off
    BY <2>1, OffsetsAgree DEF off
  <2>3. Eastern(t) = t - off /\ Eastern(t) \in Int
    BY <1>1, <1>2, <2>2 DEF Eastern
  <2>4. EasternClock(t) \in Int /\ Eastern(t) = day * Day + EasternClock(t)
    <3>1. /\ EasternClock(t) \in Int
          /\ Eastern(t) = EasternDate(t) * Day + EasternClock(t)
      BY <2>3, DateAndClock DEF EasternDate, EasternClock
    <3> QED
      BY <3>1, <2>1, Zenon
  <2>5. RegularOpen <= EasternClock(t) /\ EasternClock(t) < RegularClose
    BY <1>1, <1>2, <1>3, <2>3, <2>4
  <2> QED
    BY <2>1, <2>5 DEF RegularTimestamp
<1>4. ASSUME RegularTimestamp(t), EasternDate(t) = day
      PROVE  RegularWindow(day).open <= t /\ t < RegularWindow(day).close
  <2>1. EasternOffsetAt(t) = off
    BY <1>4, OffsetsAgree DEF off
  <2>2. Eastern(t) = t - off /\ Eastern(t) \in Int
    BY <1>1, <1>2, <2>1 DEF Eastern
  <2>3. EasternClock(t) \in Int /\ Eastern(t) = day * Day + EasternClock(t)
    <3>1. /\ EasternClock(t) \in Int
          /\ Eastern(t) = EasternDate(t) * Day + EasternClock(t)
      BY <2>2, DateAndClock DEF EasternDate, EasternClock
    <3> QED
      BY <3>1, <1>4, Zenon
  <2> QED
    BY <1>1, <1>2, <1>4, <2>2, <2>3 DEF RegularTimestamp
<1> QED
  BY <1>3, <1>4

\* The expected minutes are the whole minutes within the request that are of the
\* regular session, for any year and any request.  (market_health.py:78-113)
THEOREM ExpectedMinutesAre ==
  ASSUME NEW start \in Int, NEW end \in Int, NEW m \in Int
  PROVE  m \in ExpectedMinutes(start, end)
           <=> /\ m % Minute = 0 /\ RegularTimestamp(m)
               /\ start <= m /\ m < end
<1> DEFINE open(d) == RegularWindow(d).open
           close(d) == RegularWindow(d).close
           cursor(d) == MinuteOf(Later(start, open(d)))
           first(d) == IF cursor(d) < start THEN cursor(d) + Minute ELSE cursor(d)
           minutes(d) == {k \in first(d)..Earlier(end, close(d)) - 1 : k % Minute = 0}
<1>1. ExpectedMinutes(start, end) = UNION {minutes(d) : d \in RequestedRegularDates(start, end)}
  BY DEF ExpectedMinutes
<1>2. ASSUME NEW d \in Int
      PROVE  open(d) \in Int /\ close(d) \in Int /\ open(d) % Minute = 0
  <2>1. EasternOffsetOn(d) = 480 \/ EasternOffsetOn(d) = 600
    BY DEF EasternOffsetOn, Hour, Minute
  <2>2. /\ open(d) = d * 2880 + 1140 + EasternOffsetOn(d)
        /\ close(d) = d * 2880 + 1920 + EasternOffsetOn(d)
    BY DEF RegularWindow, RegularOpen, RegularClose, Clock, Day, Hour, Minute
  <2> QED
    BY <2>1, <2>2 DEF Minute
<1>3. ASSUME NEW d \in Int
      PROVE  m \in minutes(d) <=> /\ m % Minute = 0
                                  /\ start <= m /\ m < end
                                  /\ open(d) <= m /\ m < close(d)
  <2>1. open(d) \in Int /\ close(d) \in Int /\ open(d) % Minute = 0
    BY <1>2
  <2> HIDE DEF open, close
  <2>2. first(d) \in Int /\ Earlier(end, close(d)) \in Int
    BY <2>1 DEF MinuteOf, Later, Earlier, Minute
  <2>3. m < Earlier(end, close(d)) <=> m < end /\ m < close(d)
    BY <2>1 DEF Earlier
  <2>4. m % Minute = 0 => (first(d) <= m <=> start <= m /\ open(d) <= m)
    BY <2>1 DEF MinuteOf, Later, Minute
  <2>5. m \in minutes(d) <=> first(d) <= m /\ m < Earlier(end, close(d)) /\ m % Minute = 0
    <3> HIDE DEF first
    <3> QED
      BY <2>1, <2>2 DEF Earlier
  <2> QED
    BY <2>3, <2>4, <2>5
<1>4. \A d \in RequestedRegularDates(start, end) : d \in Int /\ IsWeekday(d)
  BY OffsetsAgree DEF RequestedRegularDates
<1>5. ASSUME m \in ExpectedMinutes(start, end)
      PROVE  m % Minute = 0 /\ RegularTimestamp(m) /\ start <= m /\ m < end
  <2>1. PICK d \in RequestedRegularDates(start, end) : m \in minutes(d)
    BY <1>1, <1>5
  <2> HIDE DEF minutes
  <2>2. /\ m % Minute = 0 /\ start <= m /\ m < end
        /\ open(d) <= m /\ m < close(d)
    BY <1>3, <1>4, <2>1
  <2> QED
    BY <1>4, <2>2, WindowIsRegular
<1>6. ASSUME m % Minute = 0, RegularTimestamp(m), start <= m, m < end
      PROVE  m \in ExpectedMinutes(start, end)
  <2> DEFINE d == EasternDate(m)
  <2>1. d \in Int /\ IsWeekday(d)
    BY <1>6, OffsetsAgree DEF RegularTimestamp
  <2>2. open(d) <= m /\ m < close(d)
    BY <1>6, <2>1, WindowIsRegular
  <2>3. EasternDate(start) <= d /\ d <= EasternDate(end - 1)
    BY <1>6, DatesAreMonotone
  <2>4. Later(start, open(d)) < Earlier(end, close(d))
    BY <1>2, <1>6, <2>1, <2>2 DEF Later, Earlier
  <2>5. d \in RequestedRegularDates(start, end)
    BY <2>1, <2>3, <2>4, OffsetsAgree DEF RequestedRegularDates
  <2>6. m \in minutes(d)
    BY <1>3, <1>6, <2>1, <2>2
  <2> HIDE DEF minutes
  <2> QED
    BY <1>1, <2>5, <2>6
<1> QED
  BY <1>5, <1>6

-----------------------------------------------------------------------------
(* Missing intervals *)

\* Every set of natural numbers has a least one: the form in which the proofs below
\* use induction.  The initial segments of the numbers are finite sets, which strict
\* inclusion orders well.
LEMMA LeastNumber ==
  ASSUME NEW T \in SUBSET Nat, T # {}
  PROVE  \E x \in T : \A y \in T : x <= y
<1> DEFINE segments == {0..n : n \in T}
<1>1. segments \subseteq FiniteSubsetsOf(Nat) /\ segments # {}
  <2>1. \A n \in T : IsFiniteSet(0..n) /\ 0..n \in SUBSET Nat
    BY FS_Interval
  <2> QED
    BY <2>1 DEF FiniteSubsetsOf
<1>2. PICK s \in segments : \A r \in segments : ~(<<r, s>> \in StrictSubsetOrdering(Nat))
  <2> HIDE DEF segments
  <2> QED
    BY <1>1, FS_StrictSubsetOrderingWellFounded, WFMin
<1>3. PICK x \in T : s = 0..x
  BY <1>2
<1>4. ASSUME NEW y \in T, y < x
      PROVE  FALSE
  <2>1. 0..y \in segments
    OBVIOUS
  <2>2. 0..y \subseteq 0..x /\ 0..y # 0..x /\ 0..y \in SUBSET Nat /\ 0..x \in SUBSET Nat
    <3>1. x \in 0..x /\ x \notin 0..y
      BY <1>4
    <3> QED
      BY <1>4, <3>1
  <2>3. <<0..y, s>> \in StrictSubsetOrdering(Nat)
    BY <1>3, <2>2 DEF StrictSubsetOrdering
  <2> QED
    BY <1>2, <2>1, <2>3
<1> QED
  BY <1>4

\* Ascending enumerates a finite set of integers in order.
LEMMA AscendingIs ==
  ASSUME NEW S \in SUBSET Int, IsFiniteSet(S)
  PROVE  /\ Cardinality(S) \in Nat
         /\ Ascending(S) \in [1..Cardinality(S) -> S]
         /\ \A i, j \in 1..Cardinality(S) : i < j => Ascending(S)[i] < Ascending(S)[j]
         /\ \A m \in S : \E i \in 1..Cardinality(S) : Ascending(S)[i] = m
<1> DEFINE n == Cardinality(S)
           smaller(m) == {k \in S : k < m}
           rank(m) == Cardinality(smaller(m))
<1>1. n \in Nat
  BY FS_CardinalityType
<1>2. ASSUME NEW m \in S
      PROVE  IsFiniteSet(smaller(m)) /\ rank(m) \in Nat /\ rank(m) < n
  <2>1. smaller(m) \in SUBSET S /\ smaller(m) # S
    BY <1>2
  <2>2. IsFiniteSet(smaller(m)) /\ rank(m) <= n /\ (n = rank(m) => S = smaller(m))
    BY <2>1, FS_Subset
  <2>3. rank(m) \in Nat
    BY <2>2, FS_CardinalityType
  <2> QED
    BY <1>1, <2>1, <2>2, <2>3
<1>3. ASSUME NEW m \in S, NEW l \in S, m < l
      PROVE  rank(m) < rank(l)
  <2>1. smaller(m) \in SUBSET smaller(l) /\ smaller(m) # smaller(l)
    <3>1. m \in smaller(l) /\ m \notin smaller(m)
      BY <1>3
    <3>2. \A k \in smaller(m) : k \in smaller(l)
      BY <1>3
    <3> QED
      BY <3>1, <3>2
  <2>2. rank(m) <= rank(l) /\ (rank(l) = rank(m) => smaller(l) = smaller(m))
    <3> HIDE DEF smaller
    <3> QED
      BY <1>2, <2>1, FS_Subset
  <2> QED
    BY <1>2, <2>1, <2>2
<1> HIDE DEF smaller, rank, n
<1>4. \A i \in 1..n : \E m \in S : rank(m) = i - 1
  <2> DEFINE f == [m \in S |-> rank(m) + 1]
  <2>1. f \in [S -> 1..n]
    BY <1>1, <1>2
  <2>2. \A m, l \in S : f[m] = f[l] => m = l
    BY <1>2, <1>3
  <2>3. f \in Injection(S, 1..n)
    <3> HIDE DEF f
    <3> QED
      BY <2>1, <2>2 DEF Injection, IsInjective
  <2>4. IsFiniteSet(1..n) /\ Cardinality(1..n) = n
    BY <1>1, FS_Interval
  <2>5. f \in Surjection(S, 1..n)
    <3> HIDE DEF f
    <3> QED
      BY <2>3, <2>4, FS_Injection DEF n
  <2>6. \A i \in 1..n : \E m \in S : f[m] = i
    <3> HIDE DEF f
    <3> QED
      BY <2>5 DEF Surjection
  <2> SUFFICES ASSUME NEW i \in 1..n
               PROVE  \E m \in S : rank(m) = i - 1
    OBVIOUS
  <2>7. PICK m \in S : f[m] = i
    BY <2>6
  <2>8. rank(m) \in Nat /\ rank(m) + 1 = i
    BY <1>2, <2>7
  <2> QED
    BY <2>8
<1>5. /\ Ascending(S) \in [1..n -> S]
      /\ \A i \in 1..n : rank(Ascending(S)[i]) = i - 1
  <2>1. Ascending(S) = [i \in 1..n |-> CHOOSE m \in S : rank(m) = i - 1]
    BY DEF Ascending, rank, smaller, n
  <2>2. \A i \in 1..n : LET m == CHOOSE k \in S : rank(k) = i - 1 IN m \in S /\ rank(m) = i - 1
    BY <1>4
  <2> QED
    BY <2>1, <2>2
<1>6. \A m, l \in S : rank(m) < rank(l) => m < l
  <2> SUFFICES ASSUME NEW m \in S, NEW l \in S, rank(m) < rank(l)
               PROVE  m < l
    OBVIOUS
  <2>1. m # l /\ ~(l < m)
    BY <1>2, <1>3
  <2> QED
    BY <2>1
<1>7. \A m, l \in S : rank(m) = rank(l) => m = l
  <2> SUFFICES ASSUME NEW m \in S, NEW l \in S, rank(m) = rank(l)
               PROVE  m = l
    OBVIOUS
  <2>1. ~(m < l) /\ ~(l < m)
    BY <1>2, <1>3
  <2> QED
    BY <2>1
<1>8. ASSUME NEW i \in 1..n, NEW j \in 1..n, i < j
      PROVE  Ascending(S)[i] < Ascending(S)[j]
  <2>1. /\ Ascending(S)[i] \in S /\ Ascending(S)[j] \in S
        /\ rank(Ascending(S)[i]) < rank(Ascending(S)[j])
    BY <1>1, <1>5, <1>8
  <2> QED
    BY <1>6, <2>1
<1>9. ASSUME NEW m \in S
      PROVE  \E i \in 1..n : Ascending(S)[i] = m
  <2>1. rank(m) + 1 \in 1..n
    BY <1>1, <1>2
  <2>2. Ascending(S)[rank(m) + 1] \in S /\ rank(Ascending(S)[rank(m) + 1]) = rank(m)
    BY <1>2, <1>5, <2>1
  <2> QED
    BY <1>7, <2>1, <2>2
<1> QED
  BY <1>1, <1>5, <1>8, <1>9 DEF n

\* The recursion of the loop has a solution: each run is the last one, continued.
LEMMA RunsAre ==
  ASSUME NEW s, Len(s) \in Nat
  PROVE  Runs(s) = [i \in 1..Len(s) |->
                      IF i = 1 THEN [start |-> s[1], previous |-> s[1], before |-> <<>>]
                      ELSE NextRun(Runs(s)[i - 1], s[i])]
<1> DEFINE one == [start |-> s[1], previous |-> s[1], before |-> <<>>]
           turn(f, i) == IF i = 1 THEN one ELSE NextRun(f[i - 1], s[i])
           solves(f, n) == f = [i \in 1..n |-> turn(f, i)]
           unsolved == {n \in Nat : ~\E f : solves(f, n)}
<1>1. unsolved = {}
  <2> SUFFICES ASSUME unsolved # {}
               PROVE  FALSE
    OBVIOUS
  <2>1. PICK n \in unsolved : \A k \in unsolved : n <= k
    <3>1. unsolved \in SUBSET Nat
      OBVIOUS
    <3> HIDE DEF unsolved
    <3> QED
      BY <3>1, LeastNumber
  <2>2. n # 0
    <3>1. solves([i \in 1..0 |-> one], 0)
      OBVIOUS
    <3> QED
      BY <3>1
  <2>3. n - 1 \in Nat /\ n - 1 \notin unsolved
    <3>1. n \in Nat
      OBVIOUS
    <3> HIDE DEF unsolved
    <3> QED
      BY <2>1, <2>2, <3>1
  <2>4. PICK f : solves(f, n - 1)
    BY <2>3
  <2> DEFINE g == [i \in 1..n |-> IF i < n THEN f[i] ELSE turn(f, n)]
  <2> HIDE DEF one
  <2>5. \A i \in 1..n : g[i] = turn(g, i)
    <3> SUFFICES ASSUME NEW i \in 1..n
                 PROVE  g[i] = turn(g, i)
      OBVIOUS
    <3>1. i # 1 => i - 1 \in 1..n /\ g[i - 1] = f[i - 1]
      BY <2>1
    <3>2. turn(g, i) = turn(f, i)
      <4> HIDE DEF g
      <4> QED
        BY <3>1
    <3>3. CASE i < n
      <4>1. i \in 1..n - 1 /\ g[i] = f[i]
        BY <2>1, <3>3
      <4>2. f[i] = turn(f, i)
        <5> HIDE DEF turn
        <5> QED
          BY <2>4, <4>1
      <4> QED
        BY <3>2, <4>1, <4>2
    <3>4. CASE i = n
      BY <3>2, <3>4
    <3> QED
      BY <2>1, <3>3, <3>4
  <2>6. g = [i \in 1..n |-> turn(g, i)]
    <3>1. g = [i \in 1..n |-> g[i]]
      OBVIOUS
    <3> HIDE DEF g, turn
    <3> QED
      BY <2>5, <3>1
  <2>7. solves(g, n)
    <3> HIDE DEF g, turn
    <3> QED
      BY <2>6
  <2> QED
    BY <2>1, <2>7
<1>2. \E f : solves(f, Len(s))
  BY <1>1
<1>3. Runs(s) = CHOOSE f : solves(f, Len(s))
  BY DEF Runs
<1>4. solves(Runs(s), Len(s))
  <2> HIDE DEF solves
  <2> QED
    BY <1>2, <1>3
<1> QED
  BY <1>4

\* What the loop knows of the run it is in, and of an interval it has reported.
Interval == [start : Int, end : Int, minutes : Int]

Continues(missing, run) ==
  /\ run.start \in Int /\ run.start % Minute = 0
  /\ run.previous \in missing /\ run.start <= run.previous
  /\ \A m \in Int : m % Minute = 0 /\ run.start <= m /\ m <= run.previous => m \in missing

Reports(missing, interval) ==
  /\ interval.start % Minute = 0 /\ interval.end % Minute = 0 /\ interval.start < interval.end
  /\ interval.minutes * Minute = interval.end - interval.start
  /\ \A m \in Int : m % Minute = 0 /\ interval.start <= m /\ m < interval.end => m \in missing

Within(m, intervals) == \E j \in DOMAIN intervals : intervals[j].start <= m /\ m < intervals[j].end

\* In order, and with a minute between any two that is not missing.
Apart(intervals) ==
  \A j, k \in DOMAIN intervals : j < k => intervals[j].end < intervals[k].start

Sound(missing, intervals) ==
  /\ intervals \in Seq(Interval)
  /\ \A j \in DOMAIN intervals : Reports(missing, intervals[j])
  /\ Apart(intervals)

\* A run that ends becomes an interval.
LEMMA RunEnds ==
  ASSUME NEW missing \in SUBSET Int, \A m \in missing : m % Minute = 0,
         NEW run, Continues(missing, run), Sound(missing, run.before),
         \A j \in DOMAIN run.before : run.before[j].end < run.start
  PROVE  /\ Sound(missing, Append(run.before, IntervalOf(run)))
         /\ \A j \in DOMAIN Append(run.before, IntervalOf(run)) :
              Append(run.before, IntervalOf(run))[j].end <= run.previous + Minute
         /\ \A m \in Int : Within(m, run.before) \/ (run.start <= m /\ m <= run.previous)
              => Within(m, Append(run.before, IntervalOf(run)))
<1> DEFINE b == run.before
           v == IntervalOf(run)
           all == Append(b, v)
<1>1. /\ v \in Interval /\ v.start = run.start /\ v.end = run.previous + Minute
      /\ v.minutes = (run.previous + Minute - run.start) \div Minute
      /\ run.start \in Int /\ run.previous \in Int /\ run.start <= run.previous
      /\ run.start % Minute = 0 /\ run.previous % Minute = 0
  <2>1. /\ run.start \in Int /\ run.previous \in Int /\ run.start <= run.previous
        /\ run.start % Minute = 0 /\ run.previous % Minute = 0
    BY DEF Continues
  <2>2. /\ v.start = run.start /\ v.end = run.previous + Minute
        /\ v.minutes = (run.previous + Minute - run.start) \div Minute
        /\ v = [start |-> v.start, end |-> v.end, minutes |-> v.minutes]
    BY DEF IntervalOf
  <2>3. v.start \in Int /\ v.end \in Int /\ v.minutes \in Int
    BY <2>1, <2>2 DEF Minute
  <2> HIDE DEF v
  <2>4. v \in Interval
    BY <2>2, <2>3 DEF Interval
  <2> QED
    BY <2>1, <2>2, <2>4
<1>2. Reports(missing, v)
  <2>1. v.end % Minute = 0 /\ v.minutes * Minute = v.end - v.start /\ v.start < v.end
    BY <1>1 DEF Minute
  <2>2. \A m \in Int : m % Minute = 0 /\ m < v.end => m <= run.previous
    BY <1>1 DEF Minute
  <2> QED
    BY <1>1, <2>1, <2>2 DEF Reports, Continues
<1>3. b \in Seq(Interval) /\ Len(b) \in Nat /\ DOMAIN b = 1..Len(b)
  BY DEF Sound
<1> HIDE DEF v, b
<1>4. /\ all \in Seq(Interval) /\ DOMAIN all = 1..Len(b) + 1
      /\ \A j \in DOMAIN b : j \in DOMAIN all /\ all[j] = b[j]
      /\ all[Len(b) + 1] = v
      /\ \A j \in DOMAIN all : j \in DOMAIN b \/ j = Len(b) + 1
  BY <1>1, <1>3
<1> HIDE DEF all
<1>5. \A j \in DOMAIN b : /\ b[j] \in Interval /\ Reports(missing, b[j]) /\ b[j].end < v.start
                          /\ b[j].end \in Int
  <2> SUFFICES ASSUME NEW j \in DOMAIN b
               PROVE  /\ b[j] \in Interval /\ Reports(missing, b[j]) /\ b[j].end < v.start
                      /\ b[j].end \in Int
    OBVIOUS
  <2>1. b[j] \in Interval
    BY <1>3
  <2>2. b[j].end \in Int
    BY <2>1 DEF Interval
  <2>3. Reports(missing, b[j]) /\ b[j].end < v.start
    BY <1>1 DEF Sound, b
  <2> QED
    BY <2>1, <2>2, <2>3
<1>6. \A j \in DOMAIN all : Reports(missing, all[j])
  BY <1>2, <1>4, <1>5
<1>7. Apart(all)
  <2> SUFFICES ASSUME NEW j \in DOMAIN all, NEW k \in DOMAIN all, j < k
               PROVE  all[j].end < all[k].start
    BY DEF Apart
  <2>1. j \in DOMAIN b
    BY <1>3, <1>4
  <2>2. CASE k \in DOMAIN b
    BY <1>4, <2>1, <2>2 DEF Sound, Apart, b
  <2>3. CASE k = Len(b) + 1
    BY <1>4, <1>5, <2>1, <2>3
  <2> QED
    BY <1>4, <2>2, <2>3
<1>8. \A j \in DOMAIN all : all[j].end <= run.previous + Minute
  BY <1>1, <1>4, <1>5 DEF Minute
<1>9. \A m \in Int : Within(m, b) \/ (run.start <= m /\ m <= run.previous) => Within(m, all)
  <2> SUFFICES ASSUME NEW m \in Int, Within(m, b) \/ (run.start <= m /\ m <= run.previous)
               PROVE  Within(m, all)
    OBVIOUS
  <2>1. CASE Within(m, b)
    BY <1>4, <2>1 DEF Within
  <2>2. CASE run.start <= m /\ m <= run.previous
    <3>1. v.start <= m /\ m < v.end
      BY <1>1, <2>2 DEF Minute
    <3>2. Len(b) + 1 \in DOMAIN all
      BY <1>3, <1>4
    <3> QED
      BY <1>4, <3>1, <3>2 DEF Within
  <2> QED
    BY <2>1, <2>2
<1> QED
  BY <1>4, <1>6, <1>7, <1>8, <1>9 DEF Sound, b, v, all

\* The intervals of a finite set of minutes are its maximal runs, in order: together
\* they hold these minutes and no other, and each counts its own.
\* (market_health.py:116-148)
THEOREM MissingIntervalsAre ==
  ASSUME NEW missing \in SUBSET Int, IsFiniteSet(missing),
         \A m \in missing : m % Minute = 0
  PROVE  /\ Sound(missing, MissingIntervals(missing))
         /\ \A m \in missing : Within(m, MissingIntervals(missing))
<1> DEFINE n == Cardinality(missing)
           s == Ascending(missing)
           run == Runs(s)
<1>1. /\ n \in Nat /\ s \in [1..n -> missing]
      /\ \A i, j \in 1..n : i < j => s[i] < s[j]
      /\ \A m \in missing : \E i \in 1..n : s[i] = m
  BY AscendingIs
<1>2. s \in Seq(missing) /\ Len(s) = n
  <2> HIDE DEF s, n
  <2> QED
    BY <1>1
<1> HIDE DEF s, n
<1>3. run = [i \in 1..n |-> IF i = 1 THEN [start |-> s[1], previous |-> s[1], before |-> <<>>]
                            ELSE NextRun(run[i - 1], s[i])]
  BY <1>1, <1>2, RunsAre
<1> HIDE DEF run
<1> DEFINE known(i) ==
             /\ run[i].previous = s[i]
             /\ Continues(missing, run[i])
             /\ Sound(missing, run[i].before)
             /\ \A j \in DOMAIN run[i].before : run[i].before[j].end < run[i].start
             /\ \A k \in 1..i : Within(s[k], run[i].before)
                                \/ (run[i].start <= s[k] /\ s[k] <= run[i].previous)
<1>4. 1 \in 1..n => known(1)
  <2> SUFFICES ASSUME 1 \in 1..n
               PROVE  known(1)
    OBVIOUS
  <2>1. run[1] = [start |-> s[1], previous |-> s[1], before |-> <<>>]
    BY <1>3
  <2>2. s[1] \in missing /\ s[1] \in Int /\ s[1] % Minute = 0
    BY <1>1
  <2>3. Continues(missing, run[1])
    BY <2>1, <2>2 DEF Continues
  <2>4. Sound(missing, run[1].before)
    BY <2>1 DEF Sound, Apart
  <2> QED
    BY <2>1, <2>2, <2>3, <2>4
<1>5. ASSUME NEW i \in 1..n, i # 1, known(i - 1)
      PROVE  known(i)
  <2> DEFINE r == run[i - 1]
             m == s[i]
  <2>1. i - 1 \in 1..n /\ i - 1 < i /\ run[i] = NextRun(r, m)
    BY <1>1, <1>3, <1>5
  <2>2. /\ m \in missing /\ m \in Int /\ m % Minute = 0 /\ r.previous = s[i - 1]
        /\ r.previous \in missing /\ r.previous \in Int /\ r.previous % Minute = 0
        /\ r.previous < m
    BY <1>1, <1>5, <2>1
  <2>3. /\ Continues(missing, r) /\ Sound(missing, r.before)
        /\ \A j \in DOMAIN r.before : r.before[j].end < r.start
        /\ \A k \in 1..i - 1 : Within(s[k], r.before) \/ (r.start <= s[k] /\ s[k] <= r.previous)
    BY <1>5
  <2>4. \A k \in 1..i : (k \in 1..i - 1 \/ k = i) /\ s[k] \in Int
    <3>1. \A k \in 1..i : (k \in 1..i - 1 \/ k = i) /\ k \in 1..n
      BY <1>1
    <3> QED
      BY <1>1, <3>1
  <2> HIDE DEF r, m
  <2>5. CASE m = r.previous + Minute
    <3>1. run[i] = [start |-> r.start, previous |-> m, before |-> r.before]
      BY <2>1, <2>5 DEF NextRun
    <3>2. Continues(missing, run[i])
      <4>1. \A k \in Int : k % Minute = 0 /\ k <= m => k <= r.previous \/ k = m
        BY <2>2, <2>5 DEF Minute
      <4>2. r.start \in Int /\ r.start % Minute = 0 /\ r.start <= m
        BY <2>2, <2>3 DEF Continues
      <4> QED
        BY <2>2, <2>3, <3>1, <4>1, <4>2 DEF Continues
    <3>3. \A k \in 1..i : Within(s[k], r.before) \/ (r.start <= s[k] /\ s[k] <= m)
      <4> SUFFICES ASSUME NEW k \in 1..i, ~Within(s[k], r.before)
                   PROVE  r.start <= s[k] /\ s[k] <= m
        OBVIOUS
      <4>1. s[k] \in Int /\ r.start \in Int /\ r.start <= r.previous
        BY <2>3, <2>4 DEF Continues
      <4>2. CASE k \in 1..i - 1
        BY <2>2, <2>3, <4>1, <4>2
      <4>3. CASE k = i
        BY <2>2, <4>1, <4>3 DEF m
      <4> QED
        BY <2>4, <4>2, <4>3
    <3> QED
      BY <2>3, <3>1, <3>2, <3>3 DEF m
  <2>6. CASE m # r.previous + Minute
    <3> DEFINE all == Append(r.before, IntervalOf(r))
    <3>1. run[i] = [start |-> m, previous |-> m, before |-> all]
      BY <2>1, <2>6 DEF NextRun
    <3>2. /\ Sound(missing, all)
          /\ \A j \in DOMAIN all : all[j].end <= r.previous + Minute
          /\ \A k \in Int : Within(k, r.before) \/ (r.start <= k /\ k <= r.previous)
               => Within(k, all)
      BY <2>3, RunEnds
    <3> HIDE DEF all
    <3>3. r.previous + Minute < m
      BY <2>2, <2>6 DEF Minute
    <3>4. \A j \in DOMAIN all : all[j].end < m
      <4>1. \A j \in DOMAIN all : all[j].end \in Int
        <5>1. \A j \in DOMAIN all : all[j] \in Interval
          BY <3>2 DEF Sound
        <5> QED
          BY <5>1 DEF Interval
      <4> QED
        BY <2>2, <3>2, <3>3, <4>1 DEF Minute
    <3>5. Continues(missing, run[i])
      BY <2>2, <3>1 DEF Continues
    <3>6. \A k \in 1..i : Within(s[k], all) \/ (m <= s[k] /\ s[k] <= m)
      <4> SUFFICES ASSUME NEW k \in 1..i
                   PROVE  Within(s[k], all) \/ (m <= s[k] /\ s[k] <= m)
        OBVIOUS
      <4>1. s[k] \in Int
        BY <2>4
      <4>2. CASE k \in 1..i - 1
        BY <2>3, <3>2, <4>1, <4>2
      <4>3. CASE k = i
        BY <2>2, <4>3 DEF m
      <4> QED
        BY <2>4, <4>2, <4>3
    <3> QED
      BY <3>1, <3>2, <3>4, <3>5, <3>6 DEF m
  <2> QED
    BY <2>5, <2>6
<1>6. \A i \in 1..n : known(i)
  <2> DEFINE unknown == {i \in 1..n : ~known(i)}
  <2> SUFFICES ASSUME unknown # {}
               PROVE  FALSE
    OBVIOUS
  <2>1. PICK i \in unknown : \A k \in unknown : i <= k
    <3>1. unknown \in SUBSET Nat
      BY <1>1
    <3> HIDE DEF unknown
    <3> QED
      BY <3>1, LeastNumber
  <2>2. i \in 1..n /\ ~known(i)
    OBVIOUS
  <2> HIDE DEF known
  <2>3. i # 1
    BY <1>4, <2>2
  <2>4. i - 1 \in 1..n /\ i - 1 \notin unknown
    <3>1. i - 1 \in 1..n /\ ~(i <= i - 1)
      BY <1>1, <2>2, <2>3
    <3> HIDE DEF unknown
    <3> QED
      BY <2>1, <3>1
  <2>5. known(i - 1)
    BY <2>4
  <2> QED
    BY <1>5, <2>2, <2>3, <2>5
<1>7. CASE missing = {}
  <2>1. MissingIntervals(missing) = <<>>
    BY <1>7 DEF MissingIntervals
  <2>2. <<>> \in Seq(Interval) /\ DOMAIN <<>> = {}
    OBVIOUS
  <2>3. Sound(missing, <<>>)
    BY <2>2 DEF Sound, Apart
  <2> QED
    BY <1>7, <2>1, <2>3
<1>8. CASE missing # {}
  <2>1. n \in 1..n
    <3>1. PICK m \in missing : TRUE
      BY <1>8
    <3>2. PICK i \in 1..n : s[i] = m
      BY <1>1, <3>1
    <3> QED
      BY <1>1, <3>2
  <2>2. MissingIntervals(missing) = Append(run[n].before, IntervalOf(run[n]))
    BY <1>8 DEF MissingIntervals, run, s, n
  <2>3. known(n)
    BY <1>6, <2>1
  <2>4. /\ Sound(missing, MissingIntervals(missing))
        /\ \A m \in Int : Within(m, run[n].before) \/ (run[n].start <= m /\ m <= run[n].previous)
             => Within(m, MissingIntervals(missing))
    BY <2>2, <2>3, RunEnds
  <2>5. \A m \in missing : Within(m, MissingIntervals(missing))
    BY <1>1, <2>3, <2>4
  <2> QED
    BY <2>4, <2>5
<1> QED
  BY <1>7, <1>8

\* There are finitely many expected minutes.
LEMMA ExpectedMinutesFinite ==
  ASSUME NEW start \in Int, NEW end \in Int
  PROVE  /\ ExpectedMinutes(start, end) \in SUBSET Int
         /\ IsFiniteSet(ExpectedMinutes(start, end))
<1>1. ASSUME NEW m \in ExpectedMinutes(start, end)
      PROVE  m \in Int
  <2>1. PICK d \in RequestedRegularDates(start, end) :
          LET cursor == MinuteOf(Later(start, RegularWindow(d).open))
              first == IF cursor < start THEN cursor + Minute ELSE cursor
          IN  m \in first..Earlier(end, RegularWindow(d).close) - 1
    BY <1>1 DEF ExpectedMinutes
  <2> QED
    BY <2>1
<1>2. ExpectedMinutes(start, end) \in SUBSET (start..end)
  <2>1. \A m \in ExpectedMinutes(start, end) : m \in Int /\ start <= m /\ m < end
    BY <1>1, ExpectedMinutesAre
  <2> QED
    BY <2>1
<1>3. IsFiniteSet(ExpectedMinutes(start, end))
  BY <1>2, FS_Interval, FS_Subset
<1> QED
  BY <1>1, <1>3

-----------------------------------------------------------------------------
(* Answers *)

USE MarketHistoryAssumption

\* The rows of an answer are of the archive, and have every row of it that the
\* request is about and was there before.
CoverageInv ==
  /\ rows \subseteq archive
  /\ request # Nothing => answer.http = 0
  /\ Bars => /\ asked \in Requests
             /\ answer.coverage = Coverage(asked, rows)
             /\ Held(asked, before) \subseteq rows

\* The status of an answer is one of four.
LEMMA OverallTyped ==
  ASSUME NEW statuses
  PROVE  Overall(statuses) \in Statuses
  BY DEF Overall, Statuses

\* What a 200 says of bars and quotes is their coverage.
LEMMA AnsweredIs ==
  ASSUME NEW found, Answered(found)
  PROVE  /\ request' = Nothing /\ answer'.http = 200
         /\ request.kind # "news" =>
              /\ answer'.coverage = Coverage(request, found)
              /\ DOMAIN answer'.coverage.missing = request.symbols
              /\ answer'.coverage.status \in Statuses
<1>1. request' = Nothing /\ answer'.http = 200
      /\ (request.kind # "news" => answer'.coverage = Coverage(request, found))
  BY DEF Answered
<1>2. /\ DOMAIN Coverage(request, found).missing = request.symbols
      /\ Coverage(request, found).status
           = Overall({StatusOf(request, s, found) : s \in request.symbols})
  BY DEF Coverage
<1> QED
  BY <1>1, <1>2, OverallTyped

\* A page adds rows of the archive, and the last one brings what was missing; the
\* other steps leave an answer alone or take it back.
LEMMA HistoryStep ==
  ASSUME HistoryTypeOK, CoverageInv, [HistoryNext]_historyVars
  PROVE  HistoryTypeOK' /\ CoverageInv'
<1>1. CASE UNCHANGED historyVars
  BY <1>1 DEF historyVars, HistoryTypeOK, CoverageInv, Bars
<1>2. ASSUME NEW r \in Requests, Ask(r)
      PROVE  HistoryTypeOK' /\ CoverageInv'
  <2>1. /\ asked' = r /\ rows' = {} /\ before' = archive /\ archive' = archive
        /\ r # Nothing
    BY <1>2 DEF Ask, MarketHistoryAssumption
  <2>2. CASE r.start < r.end /\ (r.kind = "news" \/ r.symbols # {})
    <3>1. request' = r /\ answer'.http = 0
      BY <1>2, <2>2 DEF Ask, Serve, NoAnswer
    <3> QED
      BY <2>1, <2>2, <3>1 DEF HistoryTypeOK, CoverageInv, Bars
  <2>3. CASE ~(r.start < r.end /\ (r.kind = "news" \/ r.symbols # {}))
    <3>1. request' = Nothing /\ answer'.http = 400
      BY <1>2, <2>3 DEF Ask, Refuse
    <3> QED
      BY <2>1, <3>1 DEF HistoryTypeOK, CoverageInv, Bars
  <2> QED
    BY <2>2, <2>3
<1>3. CASE PageFails
  <2>1. /\ request' = Nothing /\ answer'.http = 502 /\ rows' = {}
        /\ UNCHANGED <<archive, asked, before>>
    BY <1>3 DEF PageFails, Refuse
  <2> QED
    BY <2>1 DEF HistoryTypeOK, CoverageInv, Bars
<1>4. ASSUME NEW more \in BOOLEAN, Page(more)
      PROVE  HistoryTypeOK' /\ CoverageInv'
  <2>1. request # Nothing /\ request \in Requests /\ request = asked
    BY <1>4 DEF Page, HistoryTypeOK
  <2>2. /\ rows' \subseteq archive /\ archive \subseteq Rows
        /\ UNCHANGED <<archive, asked, before>>
    BY <1>4 DEF Page, Held, CoverageInv, HistoryTypeOK
  <2>3. CASE more
    <3>1. UNCHANGED <<request, answer>>
      BY <1>4, <2>3 DEF Page
    <3> QED
      BY <2>1, <2>2, <3>1 DEF HistoryTypeOK, CoverageInv, Bars
  <2>4. CASE ~more
    <3>1. Held(request, before) \subseteq rows' /\ Answered(rows')
      BY <1>4, <2>4 DEF Page
    <3>2. /\ request' = Nothing /\ answer'.http = 200
          /\ request.kind # "news" =>
               /\ answer'.coverage = Coverage(request, rows')
               /\ DOMAIN answer'.coverage.missing = request.symbols
               /\ answer'.coverage.status \in Statuses
      BY <3>1, AnsweredIs
    <3>3. HistoryTypeOK'
      BY <2>1, <2>2, <3>2 DEF HistoryTypeOK
    <3>4. CoverageInv'
      BY <2>1, <2>2, <3>1, <3>2 DEF CoverageInv, Bars, Held, InRange, Coverage
    <3> QED
      BY <3>3, <3>4
  <2> QED
    BY <2>3, <2>4
<1>5. ASSUME NEW row \in Rows, Arrive(row)
      PROVE  HistoryTypeOK' /\ CoverageInv'
  <2>1. archive' = archive \cup {row} /\ UNCHANGED <<request, asked, rows, answer, before>>
    BY <1>5 DEF Arrive
  <2> QED
    BY <2>1 DEF HistoryTypeOK, CoverageInv, Bars
<1> QED
  BY <1>1, <1>2, <1>3, <1>4, <1>5 DEF HistoryNext, TurnPage

\* There is no answer yet.
LEMMA HistoryInvInit ==
  ASSUME HistoryInit
  PROVE  HistoryTypeOK /\ CoverageInv
<1>1. answer.http = 0 /\ request = Nothing /\ asked = Nothing
  BY DEF HistoryInit, NoAnswer
<1> QED
  BY <1>1 DEF HistoryInit, HistoryTypeOK, CoverageInv, Bars

\* Types and CoverageInv hold for good.
LEMMA HistoryAlwaysInv == HistorySpec => [](HistoryTypeOK /\ CoverageInv)
  BY HistoryInvInit, HistoryStep, PTL DEF HistorySpec

\* Requests, rows and answers are of their types, and no request whose end is not
\* after its start is served (alpaca_market_data.py:38-53).
THEOREM HistoryAlwaysTyped == HistorySpec => []HistoryTypeOK
  BY HistoryAlwaysInv, PTL

\* What the coverage of bars says of a symbol.
LEMMA MissingIs ==
  ASSUME HistoryTypeOK, CoverageInv, Bars, NEW s \in asked.symbols
  PROVE  /\ asked.start \in Int /\ asked.end \in Int /\ asked.kind = "bars"
         /\ answer.coverage.missing[s]
              = ExpectedMinutes(asked.start, asked.end) \ ObservedMinutes(s, rows)
         /\ \A row \in archive : row \in Row
<1>1. asked \in Request /\ archive \subseteq Row
  BY DEF CoverageInv, HistoryTypeOK
<1>2. answer.coverage.missing[s] = Missing(asked, s, rows)
  BY DEF CoverageInv, Coverage
<1> QED
  BY <1>1, <1>2 DEF Bars, Request, Missing

\* A timestamp of a row of the archive, if it can be read, is an instant.
LEMMA RowTimes ==
  ASSUME HistoryTypeOK, NEW row \in before, row.at # NoTime
  PROVE  row.at \in Int
<1>1. row \in Row
  BY DEF HistoryTypeOK
<1>2. row.at \in Instants
  BY <1>1 DEF Row
<1> QED
  BY <1>2

\* And its intervals are those of what it says is missing.
LEMMA IntervalsAre ==
  ASSUME HistoryTypeOK, CoverageInv, Bars, NEW s \in asked.symbols
  PROVE  /\ answer.coverage.missing[s] \in SUBSET Int
         /\ Sound(answer.coverage.missing[s], answer.coverage.intervals[s])
         /\ \A m \in answer.coverage.missing[s] : Within(m, answer.coverage.intervals[s])
<1> DEFINE missing == answer.coverage.missing[s]
           expected == ExpectedMinutes(asked.start, asked.end)
<1>1. /\ asked.start \in Int /\ asked.end \in Int
      /\ missing = expected \ ObservedMinutes(s, rows)
  BY MissingIs
<1>2. answer.coverage.intervals[s] = MissingIntervals(missing)
  BY DEF CoverageInv, Coverage
<1>3. expected \in SUBSET Int /\ IsFiniteSet(expected)
  BY <1>1, ExpectedMinutesFinite
<1>4. \A m \in expected : m % Minute = 0
  BY <1>1, <1>3, ExpectedMinutesAre
<1> HIDE DEF expected, missing
<1>5. missing \in SUBSET expected
  BY <1>1
<1>6. missing \in SUBSET Int /\ IsFiniteSet(missing) /\ \A m \in missing : m % Minute = 0
  BY <1>3, <1>4, <1>5, FS_Subset
<1>7. /\ Sound(missing, MissingIntervals(missing))
      /\ \A m \in missing : Within(m, MissingIntervals(missing))
  BY <1>6, MissingIntervalsAre
<1> QED
  BY <1>2, <1>6, <1>7 DEF missing

\* No minute that the provider had a bar of is reported, for any request, however
\* the pages are cut and whatever arrives while they are read.
THEOREM GapsAreAlwaysReal == HistorySpec => []GapsAreReal
<1>1. ASSUME HistoryTypeOK, CoverageInv, Bars,
             NEW s \in asked.symbols, NEW m \in answer.coverage.missing[s],
             NEW row \in before, row.symbol = s, row.at # NoTime, MinuteOf(row.at) = m
      PROVE  FALSE
  <2>1. /\ asked.start \in Int /\ asked.end \in Int /\ asked.kind = "bars"
        /\ m \in ExpectedMinutes(asked.start, asked.end) /\ m \notin ObservedMinutes(s, rows)
    BY <1>1, MissingIs
  <2>2. row.at \in Int
    BY <1>1, RowTimes
  <2>3. m \in Int /\ m <= row.at /\ row.at <= m + 1 /\ m % Minute = 0
    BY <1>1, <2>2 DEF MinuteOf, Minute
  <2>4. RegularTimestamp(m) /\ asked.start <= m /\ m < asked.end
    BY <2>1, <2>3, ExpectedMinutesAre
  <2>5. row \in rows
    BY <1>1, <2>1, <2>2, <2>3, <2>4 DEF CoverageInv, Held, InRange
  <2>6. RegularTimestamp(row.at)
    <3> DEFINE day == EasternDate(m)
    <3>1. day \in Int /\ IsWeekday(day)
      BY <2>3, <2>4, OffsetsAgree DEF RegularTimestamp
    <3>2. RegularWindow(day).open <= m /\ m < RegularWindow(day).close
      BY <2>3, <2>4, <3>1, WindowIsRegular
    <3>3. RegularWindow(day).open \in Int /\ RegularWindow(day).close \in Int
          /\ RegularWindow(day).close % Minute = 0
      <4>1. EasternOffsetOn(day) = 480 \/ EasternOffsetOn(day) = 600
        BY DEF EasternOffsetOn, Hour, Minute
      <4>2. /\ RegularWindow(day).open = day * 2880 + 1140 + EasternOffsetOn(day)
            /\ RegularWindow(day).close = day * 2880 + 1920 + EasternOffsetOn(day)
        BY DEF RegularWindow, RegularOpen, RegularClose, Clock, Day, Hour, Minute
      <4> QED
        BY <3>1, <4>1, <4>2 DEF Minute
    <3>4. RegularWindow(day).open <= row.at /\ row.at < RegularWindow(day).close
      BY <2>2, <2>3, <3>2, <3>3 DEF Minute
    <3> QED
      BY <2>2, <3>1, <3>4, WindowIsRegular
  <2>7. m \in ObservedMinutes(s, rows)
    BY <1>1, <2>5, <2>6 DEF ObservedMinutes, Timestamps, Selected
  <2> QED
    BY <2>1, <2>7
<1>2. ASSUME HistoryTypeOK, CoverageInv, Bars,
             NEW s \in asked.symbols, NEW i \in DOMAIN answer.coverage.intervals[s],
             NEW row \in before, row.symbol = s, row.at # NoTime,
             answer.coverage.intervals[s][i].start <= row.at,
             row.at < answer.coverage.intervals[s][i].end
      PROVE  FALSE
  <2> DEFINE v == answer.coverage.intervals[s][i]
             m == MinuteOf(row.at)
  <2>1. row.at \in Int
    BY <1>2, RowTimes
  <2>2. v \in Interval /\ Reports(answer.coverage.missing[s], v)
    BY <1>2, IntervalsAre DEF Sound
  <2>3. v.start \in Int /\ v.end \in Int /\ v.start % Minute = 0 /\ v.end % Minute = 0
    BY <2>2 DEF Interval, Reports
  <2>4. v.start <= row.at /\ row.at < v.end
    BY <1>2
  <2> HIDE DEF v
  <2>5. m \in Int /\ m % Minute = 0 /\ v.start <= m /\ m < v.end
    BY <2>1, <2>3, <2>4 DEF MinuteOf, Minute
  <2>6. m \in answer.coverage.missing[s]
    BY <2>2, <2>5 DEF Reports
  <2> QED
    BY <1>1, <1>2, <2>6
<1>3. ASSUME HistoryTypeOK, CoverageInv
      PROVE  GapsAreReal
  <2> SUFFICES ASSUME Bars, NEW s \in asked.symbols
               PROVE  /\ \A m \in answer.coverage.missing[s] : ~HasBar(before, s, m)
                      /\ \A i \in DOMAIN answer.coverage.intervals[s], row \in before :
                           LET run == answer.coverage.intervals[s][i]
                           IN  row.symbol = s /\ row.at # NoTime
                                 => row.at < run.start \/ run.end <= row.at
    BY DEF GapsAreReal
  <2>1. \A m \in answer.coverage.missing[s] : ~HasBar(before, s, m)
    BY <1>1, <1>3 DEF HasBar
  <2>2. ASSUME NEW i \in DOMAIN answer.coverage.intervals[s], NEW row \in before,
               row.symbol = s, row.at # NoTime
        PROVE  \/ row.at < answer.coverage.intervals[s][i].start
               \/ answer.coverage.intervals[s][i].end <= row.at
    <3>1. row.at \in Int
      BY <1>3, <2>2, RowTimes
    <3>2. /\ answer.coverage.intervals[s][i].start \in Int
          /\ answer.coverage.intervals[s][i].end \in Int
      <4>1. answer.coverage.intervals[s][i] \in Interval
        BY <1>3, IntervalsAre DEF Sound
      <4> QED
        BY <4>1 DEF Interval
    <3> QED
      BY <1>2, <1>3, <2>2, <3>1, <3>2
  <2> QED
    BY <2>1, <2>2
<1> QED
  BY <1>3, HistoryAlwaysInv, PTL

\* A minute of the session without a bar makes the status worse than observed and
\* asks for a fallback.
LEMMA MissingIsSeen ==
  ASSUME NEW r \in Requests, r.kind = "bars", NEW found, NEW s \in r.symbols,
         NEW m \in Missing(r, s, found)
  PROVE  Coverage(r, found).status # "observed" /\ Coverage(r, found).fallback
<1> DEFINE status == StatusOf(r, s, found)
<1>1. status \in {"empty", "invalid_timestamps", "gaps_detected"}
  BY DEF StatusOf
<1>2. Overall({StatusOf(r, q, found) : q \in r.symbols}) # "observed"
  <2> DEFINE statuses == {StatusOf(r, q, found) : q \in r.symbols}
  <2>1. \A q \in r.symbols : StatusOf(r, q, found) \in Statuses
    BY DEF StatusOf, Statuses
  <2>2. statuses \subseteq Statuses /\ status \in statuses
    BY <2>1
  <2>3. Overall(statuses) # "observed"
    <3> HIDE DEF statuses, status
    <3> QED
      BY <1>1, <2>2 DEF Overall, Statuses
  <2> QED
    BY <2>3
<1>3. RequestedRegularDates(r.start, r.end) # {}
  BY DEF Missing, ExpectedMinutes
<1>4. WantsFallback(r, s, found)
  BY <1>1, <1>3 DEF WantsFallback
<1> QED
  BY <1>2, <1>4 DEF Coverage

\* Whatever minute of the session has no bar is reported, for any year, request and
\* archive, by itself and within one of the intervals.
\* (README.md:40, market_health.py:19-30, 100-148, 160-218)
THEOREM HolesAreAlwaysReported == HistorySpec => []HolesAreReported
<1>1. ASSUME HistoryTypeOK, CoverageInv, Bars,
             NEW s \in asked.symbols, NEW m \in Instants,
             m % Minute = 0, Session(m) = "regular", asked.start <= m, m < asked.end,
             ~HasBar(archive, s, m)
      PROVE  /\ m \in answer.coverage.missing[s]
             /\ Within(m, answer.coverage.intervals[s])
             /\ answer.coverage.status # "observed" /\ answer.coverage.fallback
  <2>1. /\ asked.start \in Int /\ asked.end \in Int /\ asked.kind = "bars"
        /\ answer.coverage.missing[s]
             = ExpectedMinutes(asked.start, asked.end) \ ObservedMinutes(s, rows)
    BY <1>1, MissingIs
  <2>2. RegularTimestamp(m)
    <3>1. EasternClock(m) \in Int
      BY OffsetsAgree, DateAndClock DEF EasternClock
    <3>2. RegularOpen = 1140 /\ RegularClose = 1920
      BY DEF RegularOpen, RegularClose, Clock, Hour, Minute
    <3>3. IsWeekday(EasternDate(m)) /\ EasternClock(m) \in RegularOpen..RegularClose - 1
      BY <1>1 DEF Session
    <3> QED
      BY <3>1, <3>2, <3>3 DEF RegularTimestamp
  <2>3. m \in ExpectedMinutes(asked.start, asked.end)
    BY <1>1, <2>1, <2>2, ExpectedMinutesAre
  <2>4. m \notin ObservedMinutes(s, rows)
    BY <1>1 DEF ObservedMinutes, Timestamps, Selected, HasBar, CoverageInv
  <2>5. m \in Missing(asked, s, rows) /\ answer.coverage = Coverage(asked, rows)
        /\ asked \in Requests
    BY <1>1, <2>1, <2>3, <2>4 DEF Missing, CoverageInv
  <2>6. Within(m, answer.coverage.intervals[s])
    BY <1>1, <2>1, <2>3, <2>4, IntervalsAre
  <2> QED
    BY <2>1, <2>3, <2>4, <2>5, <2>6, MissingIsSeen
<1>2. HistoryTypeOK /\ CoverageInv => HolesAreReported
  BY <1>1 DEF HolesAreReported, Within
<1> QED
  BY <1>2, HistoryAlwaysInv, PTL
=============================================================================
