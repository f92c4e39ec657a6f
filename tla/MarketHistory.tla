---------------------------- MODULE MarketHistory ----------------------------
(***************************************************************************)
(* GET /v1/market-data/bars, quotes and news: the adapter that collects    *)
(* the pages of the provider (alpaca_market_data.py) and the coverage the  *)
(* service computes from the rows (market_health.py, api.py).  The archive *)
(* of the provider grows while pages are read.  The provider is external:  *)
(* it may cut its rows into pages as it likes, but sends no row twice, has *)
(* a row in every page but the last, and ends only after all rows that     *)
(* were there when the request was made.  Rows are of the kind asked for.  *)
(***************************************************************************)
EXTENDS MarketHours

CONSTANTS
  Symbols,   \* symbols of rows and requests
  Rows,      \* rows that may get into the archive, see Row
  Instants,  \* timestamps of rows
  NoTime,    \* stands for a timestamp the service cannot read
  Requests,  \* requests of clients, see Request
  Nothing    \* no request, no coverage

VARIABLES
  archive,  \* what the provider holds
  request,  \* the request being served, or Nothing
  asked,    \* the last request
  rows,     \* the rows collected so far
  answer,   \* the last answer: HTTP status and coverage
  before    \* history: what the provider held when the last request was made

historyVars == <<archive, request, asked, rows, answer, before>>

Row == [symbol : Symbols, at : Instants \cup {NoTime}]
Request == [kind : {"bars", "quotes", "news"}, symbols : SUBSET Symbols, start : Int, end : Int]
Statuses == {"empty", "invalid_timestamps", "gaps_detected", "observed"}

ASSUME MarketHistoryAssumption ==
  /\ Instants \subseteq Int
  /\ NoTime \notin Instants
  /\ Rows \subseteq Row
  /\ Requests \subseteq Request
  /\ Nothing \notin Requests

-----------------------------------------------------------------------------
(* build_historical_coverage *)

Selected(symbol, found) == {row \in found : row.symbol = symbol}
Timestamps(symbol, found) == {row.at : row \in Selected(symbol, found)} \ {NoTime}

ObservedMinutes(symbol, found) ==
  {MinuteOf(t) : t \in {u \in Timestamps(symbol, found) : RegularTimestamp(u)}}

Missing(r, symbol, found) ==
  IF r.kind = "bars" THEN ExpectedMinutes(r.start, r.end) \ ObservedMinutes(symbol, found)
  ELSE {}

PotentialMissingDates(r, symbol, found) ==
  IF r.kind = "bars"
  THEN RequestedRegularDates(r.start, r.end)
         \ {EasternDate(m) : m \in ObservedMinutes(symbol, found)}
  ELSE {}

StatusOf(r, symbol, found) ==
  CASE Selected(symbol, found) = {} -> "empty"
    [] Selected(symbol, found) # {} /\ Timestamps(symbol, found) = {} -> "invalid_timestamps"
    [] Timestamps(symbol, found) # {} /\ Missing(r, symbol, found) # {} -> "gaps_detected"
    [] OTHER -> "observed"

\* An empty result outside of the regular session is no reason to look elsewhere.
WantsFallback(r, symbol, found) ==
  LET status == StatusOf(r, symbol, found)
  IN  \/ status \in {"invalid_timestamps", "gaps_detected"}
      \/ status = "empty" /\ RequestedRegularDates(r.start, r.end) # {}

\* "empty" is worse than "invalid_timestamps", and that than "gaps_detected".
Overall(statuses) ==
  CASE "empty" \in statuses -> "empty"
    [] "empty" \notin statuses /\ "invalid_timestamps" \in statuses -> "invalid_timestamps"
    [] statuses \subseteq {"gaps_detected", "observed"} /\ "gaps_detected" \in statuses
         -> "gaps_detected"
    [] OTHER -> "observed"

Coverage(r, found) ==
  [status    |-> Overall({StatusOf(r, s, found) : s \in r.symbols}),
   fallback  |-> \E s \in r.symbols : WantsFallback(r, s, found),
   missing   |-> [s \in r.symbols |-> Missing(r, s, found)],
   intervals |-> [s \in r.symbols |-> MissingIntervals(Missing(r, s, found))],
   dates     |-> [s \in r.symbols |-> PotentialMissingDates(r, s, found)]]

-----------------------------------------------------------------------------
(* A request *)

InRange(r, row) ==
  /\ r.kind = "news" \/ row.symbol \in r.symbols
  /\ row.at # NoTime => r.start <= row.at /\ row.at <= r.end
Held(r, stock) == {row \in stock : InRange(r, row)}

HistoryTypeOK ==
  /\ archive \subseteq Rows
  /\ request \in Requests \cup {Nothing}
  /\ asked \in Requests \cup {Nothing}
  /\ request # Nothing => request = asked /\ request.start < request.end
  /\ rows \subseteq Rows
  /\ before \subseteq archive
  /\ answer.http \in {0, 200, 400, 502}
  /\ answer.http = 200 /\ asked.kind # "news" =>
       DOMAIN answer.coverage.missing = asked.symbols /\ answer.coverage.status \in Statuses

NoAnswer == [http |-> 0, coverage |-> Nothing]

HistoryInit ==
  /\ archive \in SUBSET Rows
  /\ request = Nothing /\ asked = Nothing
  /\ rows = {}
  /\ answer = NoAnswer
  /\ before = {}

Serve(r) ==
  /\ request' = r
  /\ answer' = NoAnswer

Refuse(status) ==
  /\ request' = Nothing
  /\ answer' = [http |-> status, coverage |-> Nothing]

\* Mistake: any two UTC times are an interval.
AskUnordered(r) ==
  /\ request = Nothing
  /\ asked' = r
  /\ rows' = {}
  /\ before' = archive
  /\ Serve(r)
  /\ UNCHANGED archive

\* handle and _validate: symbols are needed for bars and quotes, and end after start.
Ask(r) ==
  /\ request = Nothing
  /\ asked' = r
  /\ rows' = {}
  /\ before' = archive
  /\ IF r.start < r.end /\ (r.kind = "news" \/ r.symbols # {}) THEN Serve(r) ELSE Refuse(400)
  /\ UNCHANGED archive

Answered(found) ==
  /\ request' = Nothing
  /\ answer' = [http |-> 200,
                coverage |-> IF request.kind = "news" THEN Nothing
                             ELSE Coverage(request, found)]

\* One turn of the loop in _pages or news; what is no row of the right shape is
\* passed over, and next_page_token is there if there is more.
Page(more) ==
  /\ request # Nothing
  /\ \E found \in SUBSET (Held(request, archive) \ rows) :
       /\ rows' = rows \cup found
       /\ IF more THEN found # {} /\ UNCHANGED <<request, answer>>
          ELSE Held(request, before) \subseteq rows' /\ Answered(rows')
  /\ UNCHANGED <<archive, asked, before>>

\* Mistake: a page that fails is the last one.
PageFailsQuietly ==
  /\ request # Nothing
  /\ Answered(rows)
  /\ UNCHANGED <<archive, asked, rows, before>>

\* HTTP errors, the timeout of 30 s among them, and payloads of the wrong shape:
\* MarketDataError, the pages that came before are lost.
PageFails ==
  /\ request # Nothing
  /\ rows' = {}
  /\ Refuse(502)
  /\ UNCHANGED <<archive, asked, before>>

\* The provider comes to know another row.
Arrive(row) ==
  /\ archive' = archive \cup {row}
  /\ UNCHANGED <<request, asked, rows, answer, before>>

TurnPage == PageFails \/ Page(TRUE) \/ Page(FALSE)

HistoryNext ==
  \/ \E r \in Requests : Ask(r)
  \/ TurnPage
  \/ \E row \in Rows : Arrive(row)

HistorySpec == HistoryInit /\ [][HistoryNext]_historyVars

-----------------------------------------------------------------------------
HasBar(stock, symbol, minute) ==
  \E row \in stock : row.symbol = symbol /\ row.at # NoTime /\ MinuteOf(row.at) = minute

Bars == answer.http = 200 /\ asked.kind = "bars"

\* A minute is reported missing only if the provider had no bar of it when the
\* request was made: none because of a page that failed or was cut short, and none
\* of a minute the request covers in part.  No interval spans a bar either.
\* (alpaca_market_data.py:75-100, market_health.py:100-148)
GapsAreReal ==
  Bars => \A s \in asked.symbols :
    /\ \A m \in answer.coverage.missing[s] : ~HasBar(before, s, m)
    /\ \A i \in DOMAIN answer.coverage.intervals[s], row \in before :
         LET run == answer.coverage.intervals[s][i]
         IN  row.symbol = s /\ row.at # NoTime => row.at < run.start \/ run.end <= row.at

\* README.md:40: regular-session gaps and empty upstream responses are never
\* represented as a healthy list.  A minute that starts within the request, and is
\* one of the regular session as describe_market_session tells it, has a bar or is
\* reported, and then the whole answer is neither "observed" nor without a fallback.
\* (market_health.py:19-30, 100-113, 160-218)
HolesAreReported ==
  Bars => \A s \in asked.symbols, m \in Instants :
    /\ m % Minute = 0 /\ Session(m) = "regular"
    /\ asked.start <= m /\ m < asked.end
    /\ ~HasBar(archive, s, m)
    => /\ m \in answer.coverage.missing[s]
       /\ \E i \in DOMAIN answer.coverage.intervals[s] :
            LET run == answer.coverage.intervals[s][i] IN run.start <= m /\ m < run.end
       /\ answer.coverage.status # "observed" /\ answer.coverage.fallback
=============================================================================
