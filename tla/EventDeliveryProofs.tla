------------------------- MODULE EventDeliveryProofs -------------------------
(***************************************************************************)
(* TLAPS proofs about EventDelivery, for any number of clients and events, *)
(* any page limit and any number of failures: the cursor protocol          *)
(* implements ReliableFeed, and the safety properties the model checker    *)
(* checks on a small ledger.  The last part is about MarketPipeline, where *)
(* the SIP owner writes that ledger.                                       *)
(*                                                                         *)
(* The argument: the rows between a client's saved position and the cursor *)
(* of the thread that serves it are all on the wire, the rows of its page  *)
(* follow the cursor without a hole, and a page is a prefix of what        *)
(* follows its cursor.                                                     *)
(***************************************************************************)
EXTENDS MarketPipeline, SipIngestProofs

USE EventLedgerAssumption, EventDeliveryAssumption

\* The rows a client has a claim to.
Claim(c) == Feed!Due(c)

\* set holds every claim between low and any of its own members.
NoHole(c, set, low) ==
  \A j \in set : \A i \in Claim(c) : low < i /\ i < j => i \in set

GotInv(c) ==
  /\ got[c] \subseteq Claim(c)
  /\ NoHole(c, got[c], 0)
  /\ \A i \in Claim(c) : i <= position[c] => i \in got[c]

LinkInv(c) ==
  /\ link[c] = "new" => start[c] = -1
  /\ link[c] # "new" => start[c] >= 0 /\ start[c] <= position[c]
  /\ position[c] <= Len(ledger)
  /\ link[c] # "stream" => page[c] = {}
  /\ link[c] \notin {"stream", "poll"} => wire[c] = {}

WireInv(c) ==
  /\ wire[c] \subseteq {i \in Claim(c) : i > position[c]}
  /\ NoHole(c, wire[c], position[c])

StreamInv(c) ==
  link[c] = "stream" =>
    /\ position[c] <= cursor[c] /\ cursor[c] <= Len(ledger)
    /\ \A i \in wire[c] : i <= cursor[c]
    /\ \A i \in Claim(c) : position[c] < i /\ i <= cursor[c] => i \in wire[c]
    /\ page[c] \subseteq {i \in Claim(c) : i > cursor[c]}
    /\ NoHole(c, page[c], cursor[c])

ClientInv(c) == GotInv(c) /\ LinkInv(c) /\ WireInv(c) /\ StreamInv(c)

DeliveryIInv == DeliveryTypeOK /\ \A c \in Clients : ClientInv(c)

-----------------------------------------------------------------------------
(* The queries *)

\* sequence_before answers with a place of the ledger.
LEMMA SequenceBeforeIsAPlace ==
  ASSUME DeliveryTypeOK, NEW ts
  PROVE  SequenceBefore(ts) \in 0..Len(ledger)
<1> DEFINE earlier == {i \in 1..Len(ledger) : TsOf[ledger[i]] < ts}
           last == {i \in earlier : \A j \in earlier : j <= i}
<1>1. Len(ledger) \in Nat
  BY DEF DeliveryTypeOK, LedgerTypeOK
<1>2. CASE last = {}
  BY <1>1, <1>2 DEF SequenceBefore
<1>3. CASE last # {}
  <2>1. (CHOOSE i \in last : TRUE) \in last
    BY <1>3
  <2> QED
    BY <1>1, <1>3, <2>1 DEF SequenceBefore
<1> QED
  BY <1>2, <1>3

LEMMA PlacesAreFinite ==
  ASSUME DeliveryTypeOK
  PROVE  IsFiniteSet(1..Len(ledger))
<1>1. 1 \in Int /\ Len(ledger) \in Int
  BY DEF DeliveryTypeOK, LedgerTypeOK
<1> QED
  BY <1>1, FS_Interval

\* A page of list_after lies after its cursor and leaves nothing out before
\* its last row, whatever its limit.
LEMMA PageIsPrefix ==
  ASSUME DeliveryTypeOK, NEW c \in Clients, NEW after \in Nat,
         start[c] >= 0, start[c] <= after
  PROVE  /\ ListAfter(after, Wants[c], PageLimit)
              \subseteq {i \in Claim(c) : i > after}
         /\ NoHole(c, ListAfter(after, Wants[c], PageLimit), after)
<1> DEFINE limited(i) == {j \in Matching(Wants[c]) : after < j /\ j <= i}
<1>1. Len(ledger) \in Nat /\ start[c] \in Int
  BY DEF DeliveryTypeOK, LedgerTypeOK
<1>2. ListAfter(after, Wants[c], PageLimit) =
        {i \in Matching(Wants[c]) : after < i /\ Cardinality(limited(i)) <= PageLimit}
  BY DEF ListAfter
<1>3. \A i \in Matching(Wants[c]) : after < i => i \in Claim(c)
  BY <1>1 DEF Matching, Claim, Feed!Due
<1>4. \A i \in Claim(c) : i \in Matching(Wants[c]) /\ i \in Nat
  BY <1>1 DEF Matching, Claim, Feed!Due
<1>5. ASSUME NEW i \in Matching(Wants[c]), NEW j \in Matching(Wants[c]), i < j,
             Cardinality(limited(j)) <= PageLimit
      PROVE  Cardinality(limited(i)) <= PageLimit
  <2>1. limited(i) \subseteq limited(j)
    BY <1>1, <1>5 DEF Matching
  <2>2. IsFiniteSet(limited(j))
    <3>1. IsFiniteSet(1..Len(ledger))
      BY PlacesAreFinite
    <3>2. limited(j) \subseteq 1..Len(ledger)
      BY DEF Matching
    <3> QED
      BY <3>1, <3>2, FS_Subset
  <2>3. /\ Cardinality(limited(i)) <= Cardinality(limited(j))
        /\ IsFiniteSet(limited(i))
    BY <2>1, <2>2, FS_Subset
  <2>4. Cardinality(limited(i)) \in Nat /\ Cardinality(limited(j)) \in Nat
    BY <2>2, <2>3, FS_CardinalityType
  <2> QED
    BY <1>5, <2>3, <2>4
<1>6. ListAfter(after, Wants[c], PageLimit) \subseteq {i \in Claim(c) : i > after}
  BY <1>1, <1>2, <1>3 DEF Matching
<1>7. NoHole(c, ListAfter(after, Wants[c], PageLimit), after)
  BY <1>2, <1>4, <1>5 DEF NoHole
<1> QED
  BY <1>6, <1>7

-----------------------------------------------------------------------------
(* Steps and the clients they leave alone *)

\* A client none of whose variables change keeps its invariant.
LEMMA ClientUntouched ==
  ASSUME NEW c \in Clients, ClientInv(c),
         ledger' = ledger, link'[c] = link[c], start'[c] = start[c],
         position'[c] = position[c], cursor'[c] = cursor[c],
         page'[c] = page[c], wire'[c] = wire[c], got'[c] = got[c]
  PROVE  ClientInv(c)'
<1>1. Claim(c)' = Claim(c)
  BY DEF Claim, Feed!Due
<1> QED
  BY <1>1 DEF ClientInv, GotInv, LinkInv, WireInv, StreamInv, NoHole

\* A stored event adds one claim at most, behind all others.
LEMMA StoreAddsLast ==
  ASSUME DeliveryTypeOK, NEW e \in Events, StoreEvent(e)
  PROVE  /\ LedgerTypeOK'
         /\ Len(ledger') \in Nat /\ Len(ledger) \in Nat
         /\ Len(ledger) <= Len(ledger')
         /\ \A c \in Clients : /\ Claim(c) \subseteq Claim(c)'
                               /\ \A i \in Claim(c)' :
                                    i \in Nat /\ (i \in Claim(c) \/ i > Len(ledger))
                               /\ \A i \in Claim(c) : i \in 1..Len(ledger)
<1>1. ledger \in Seq(Events) /\ Len(ledger) \in Nat
  BY DEF DeliveryTypeOK, LedgerTypeOK
<1>2. UNCHANGED start
  BY DEF StoreEvent, clientVars
<1>3. CASE Stored(e)
  BY <1>1, <1>2, <1>3 DEF StoreEvent, AppendEvent, LedgerTypeOK, Claim, Feed!Due
<1>4. CASE ~Stored(e)
  <2>1. ledger' = Append(ledger, e)
    BY <1>4 DEF StoreEvent, AppendEvent
  <2>2. /\ ledger' \in Seq(Events) /\ Len(ledger') = Len(ledger) + 1
        /\ \A i \in 1..Len(ledger) : ledger'[i] = ledger[i]
    BY <1>1, <2>1
  <2> QED
    BY <1>1, <1>2, <2>2 DEF LedgerTypeOK, Claim, Feed!Due
<1> QED
  BY <1>3, <1>4

LEMMA StoreKeepsInv ==
  ASSUME DeliveryIInv, NEW e \in Events, StoreEvent(e)
  PROVE  DeliveryIInv'
<1>1. DeliveryTypeOK'
  BY StoreAddsLast DEF DeliveryIInv, DeliveryTypeOK, StoreEvent, clientVars
<1>2. ASSUME NEW c \in Clients
      PROVE  ClientInv(c)'
  <2>1. ClientInv(c)
    BY DEF DeliveryIInv
  <2>2. UNCHANGED <<link, start, position, cursor, page, wire, got>>
    BY DEF StoreEvent, clientVars
  <2>3. /\ Len(ledger') \in Nat /\ Len(ledger) \in Nat
        /\ Len(ledger) <= Len(ledger')
        /\ Claim(c) \subseteq Claim(c)'
        /\ \A i \in Claim(c)' : i \in Nat /\ (i \in Claim(c) \/ i > Len(ledger))
        /\ \A i \in Claim(c) : i \in 1..Len(ledger)
    BY StoreAddsLast DEF DeliveryIInv
  <2>4. position[c] \in Nat /\ cursor[c] \in Nat /\ start[c] \in Int
    BY DEF DeliveryIInv, DeliveryTypeOK
  <2>5. /\ position[c] <= Len(ledger)
        /\ got[c] \subseteq Claim(c) /\ wire[c] \subseteq Claim(c)
        /\ link[c] = "stream" => page[c] \subseteq Claim(c) /\ cursor[c] <= Len(ledger)
    BY <2>1 DEF ClientInv, GotInv, LinkInv, WireInv, StreamInv
  <2>6. \A set, low : set \subseteq Claim(c) /\ NoHole(c, set, low)
                       => \A j \in set : \A i \in Claim(c)' :
                            low < i /\ i < j => i \in set
    BY <2>3 DEF NoHole
  <2>7. GotInv(c)'
    BY <2>1, <2>2, <2>3, <2>4, <2>5, <2>6 DEF ClientInv, GotInv, NoHole
  <2>8. LinkInv(c)'
    BY <2>1, <2>2, <2>3, <2>4 DEF ClientInv, LinkInv
  <2>9. WireInv(c)'
    BY <2>1, <2>2, <2>3, <2>5, <2>6 DEF ClientInv, WireInv, NoHole
  <2>10. StreamInv(c)'
    BY <2>1, <2>2, <2>3, <2>4, <2>5, <2>6 DEF ClientInv, StreamInv, NoHole
  <2> QED
    BY <2>7, <2>8, <2>9, <2>10 DEF ClientInv
<1> QED
  BY <1>1, <1>2 DEF DeliveryIInv

\* A step that moves one client has to be looked at for that client only.
LEMMA OneClientMoves ==
  ASSUME DeliveryIInv, NEW c \in Clients, ledger' = ledger,
         DeliveryTypeOK', ClientInv(c)',
         \A d \in Clients \ {c} :
           /\ link'[d] = link[d] /\ start'[d] = start[d]
           /\ position'[d] = position[d] /\ cursor'[d] = cursor[d]
           /\ page'[d] = page[d] /\ wire'[d] = wire[d] /\ got'[d] = got[d]
  PROVE  DeliveryIInv'
<1>1. ASSUME NEW d \in Clients \ {c}
      PROVE  ClientInv(d)'
  BY <1>1, ClientUntouched DEF DeliveryIInv
<1> QED
  BY <1>1 DEF DeliveryIInv

LEMMA ClaimsAreNumbers ==
  ASSUME DeliveryTypeOK, NEW c \in Clients
  PROVE  /\ Len(ledger) \in Nat
         /\ Claim(c) \subseteq 1..Len(ledger)
         /\ Claim(c) \subseteq Nat
         /\ \A i \in Claim(c) : i > start[c]
BY DEF DeliveryTypeOK, LedgerTypeOK, Claim, Feed!Due

LEMMA GetStartKeepsInv ==
  ASSUME DeliveryIInv, NEW c \in Clients, NEW ts \in ReplayTimes, GetStart(c, ts)
  PROVE  DeliveryIInv'
<1>1. SequenceBefore(ts) \in 0..Len(ledger) /\ Len(ledger) \in Nat
  BY SequenceBeforeIsAPlace, ClaimsAreNumbers DEF DeliveryIInv
<1>2. DeliveryTypeOK'
  BY <1>1 DEF GetStart, DeliveryIInv, DeliveryTypeOK, LedgerTypeOK
<1>3. ClientInv(c)'
  <2>1. ClientInv(c) /\ DeliveryTypeOK
    BY DEF DeliveryIInv
  <2>2. /\ start'[c] = SequenceBefore(ts) /\ position'[c] = SequenceBefore(ts)
        /\ link'[c] = "closed" /\ ledger' = ledger
        /\ UNCHANGED <<got, page, wire>>
    BY <2>1 DEF GetStart, DeliveryTypeOK
  <2>3. got[c] = {} /\ wire[c] = {} /\ page[c] = {}
    <3>1. Claim(c) = {}
      BY <2>1 DEF Claim, Feed!Due, ClientInv, LinkInv, GetStart
    <3> QED
      BY <2>1, <3>1 DEF ClientInv, GotInv, WireInv, LinkInv, GetStart
  <2>4. \A i \in Claim(c)' : i > position'[c] /\ i \in Nat
    BY <1>1, <1>2, <2>2 DEF Claim, Feed!Due
  <2> QED
    BY <1>1, <2>2, <2>3, <2>4
       DEF ClientInv, GotInv, LinkInv, WireInv, StreamInv, NoHole
<1> QED
  BY <1>2, <1>3, OneClientMoves DEF GetStart, DeliveryIInv, DeliveryTypeOK

LEMMA OpenStreamKeepsInv ==
  ASSUME DeliveryIInv, NEW c \in Clients, OpenStream(c)
  PROVE  DeliveryIInv'
<1>1. ClientInv(c) /\ DeliveryTypeOK
  BY DEF DeliveryIInv
<1>2. PICK after \in {start[c], position[c]} :
        /\ cursor' = [cursor EXCEPT ![c] = after]
        /\ position' = [position EXCEPT ![c] = after]
  BY DEF OpenStream
<1>3. after \in Nat /\ start[c] <= after /\ after <= position[c]
  BY <1>1, <1>2 DEF ClientInv, LinkInv, OpenStream, DeliveryTypeOK
<1>4. DeliveryTypeOK'
  BY <1>1, <1>2, <1>3 DEF OpenStream, DeliveryTypeOK, LedgerTypeOK
<1>5. ClientInv(c)'
  <2>1. /\ position'[c] = after /\ cursor'[c] = after /\ link'[c] = "stream"
        /\ link[c] = "closed"
        /\ UNCHANGED <<ledger, start, page, wire, got>>
    BY <1>1, <1>2 DEF OpenStream, DeliveryTypeOK
  <2>2. Claim(c)' = Claim(c)
    BY <2>1 DEF Claim, Feed!Due
  <2>3. page[c] = {} /\ wire[c] = {}
    BY <1>1, <2>1 DEF ClientInv, LinkInv
  <2>4. position[c] \in Nat /\ start[c] \in Int
    BY <1>1 DEF DeliveryTypeOK
  <2> QED
    BY <1>1, <1>3, <2>1, <2>2, <2>3, <2>4, ClaimsAreNumbers
       DEF ClientInv, GotInv, LinkInv, WireInv, StreamInv, NoHole
<1> QED
  BY <1>1, <1>2, <1>4, <1>5, OneClientMoves DEF OpenStream, DeliveryTypeOK

LEMMA FetchPageKeepsInv ==
  ASSUME DeliveryIInv, NEW c \in Clients, FetchPage(c)
  PROVE  DeliveryIInv'
<1>1. ClientInv(c) /\ DeliveryTypeOK
  BY DEF DeliveryIInv
<1>2. /\ ListAfter(cursor[c], Wants[c], PageLimit) \subseteq {i \in Claim(c) : i > cursor[c]}
      /\ NoHole(c, ListAfter(cursor[c], Wants[c], PageLimit), cursor[c])
  <2>1. start[c] >= 0 /\ start[c] <= cursor[c] /\ cursor[c] \in Nat
    BY <1>1 DEF ClientInv, LinkInv, StreamInv, FetchPage, DeliveryTypeOK
  <2> QED
    BY <1>1, <2>1, PageIsPrefix
<1>3. DeliveryTypeOK'
  BY <1>1, <1>2, ClaimsAreNumbers DEF FetchPage, DeliveryTypeOK, LedgerTypeOK
<1>4. ClientInv(c)'
  <2>1. /\ page'[c] = ListAfter(cursor[c], Wants[c], PageLimit)
        /\ UNCHANGED <<ledger, link, start, position, cursor, wire, got>>
    BY <1>1 DEF FetchPage, DeliveryTypeOK
  <2>2. Claim(c)' = Claim(c)
    BY <2>1 DEF Claim, Feed!Due
  <2> QED
    BY <1>1, <1>2, <2>1, <2>2
       DEF FetchPage, ClientInv, GotInv, LinkInv, WireInv, StreamInv, NoHole
<1> QED
  BY <1>1, <1>3, <1>4, OneClientMoves DEF FetchPage, DeliveryTypeOK

LEMMA WriteEventKeepsInv ==
  ASSUME DeliveryIInv, NEW c \in Clients, WriteEvent(c)
  PROVE  DeliveryIInv'
<1>1. ClientInv(c) /\ DeliveryTypeOK
  BY DEF DeliveryIInv
<1>2. PICK s \in page[c] :
        /\ First(s, page[c])
        /\ wire' = [wire EXCEPT ![c] = @ \cup {s}]
        /\ cursor' = [cursor EXCEPT ![c] = s]
        /\ page' = [page EXCEPT ![c] = @ \ {s}]
  BY DEF WriteEvent
<1>3. /\ s \in Claim(c) /\ s > cursor[c] /\ s \in Nat /\ s <= Len(ledger)
      /\ position[c] <= cursor[c] /\ Claim(c) \subseteq Nat
      /\ position[c] \in Nat /\ cursor[c] \in Nat /\ Len(ledger) \in Nat
  BY <1>1, ClaimsAreNumbers
     DEF WriteEvent, ClientInv, StreamInv, DeliveryTypeOK
<1>4. DeliveryTypeOK'
  BY <1>1, <1>2, <1>3 DEF WriteEvent, DeliveryTypeOK, LedgerTypeOK
<1>5. ClientInv(c)'
  <2>1. /\ wire'[c] = wire[c] \cup {s} /\ cursor'[c] = s /\ page'[c] = page[c] \ {s}
        /\ link[c] = "stream"
        /\ UNCHANGED <<ledger, link, start, position, got>>
    BY <1>1, <1>2 DEF WriteEvent, DeliveryTypeOK
  <2>2. Claim(c)' = Claim(c)
    BY <2>1 DEF Claim, Feed!Due
  \* Nothing the client has a claim to lies between the cursor and s.
  <2>3. \A i \in Claim(c) : cursor[c] < i /\ i < s => FALSE
    BY <1>1, <1>2, <1>3, <2>1 DEF ClientInv, StreamInv, NoHole, First
  <2>4. \A i \in Claim(c) : position[c] < i /\ i <= s => i \in wire'[c]
    BY <1>1, <1>3, <2>1, <2>3 DEF ClientInv, StreamInv
  <2>5. GotInv(c)' /\ LinkInv(c)'
    BY <1>1, <2>1, <2>2 DEF ClientInv, GotInv, LinkInv, NoHole
  <2>6. \A i \in wire'[c] : i \in Claim(c) /\ i > position[c] /\ i <= s
    BY <1>1, <1>3, <2>1 DEF ClientInv, WireInv, StreamInv
  <2>7. WireInv(c)'
    BY <1>3, <2>1, <2>2, <2>4, <2>6 DEF WireInv, NoHole
  <2>8. \A i \in page'[c] : i \in Claim(c) /\ i > s
    BY <1>1, <1>2, <1>3, <2>1 DEF ClientInv, StreamInv, First
  <2>9. NoHole(c, page[c] \ {s}, s)
    BY <1>1, <1>3, <2>1, <2>8 DEF ClientInv, StreamInv, NoHole
  <2>10. StreamInv(c)'
    BY <1>3, <2>1, <2>2, <2>4, <2>6, <2>8, <2>9 DEF StreamInv, NoHole
  <2> QED
    BY <2>5, <2>7, <2>10 DEF ClientInv
<1> QED
  BY <1>1, <1>2, <1>4, <1>5, OneClientMoves DEF WriteEvent, DeliveryTypeOK

\* What the client adds when it reads the first row of the wire, or the rows
\* of the wire up to one of them: all it has a claim to so far.
LEMMA ReadIsComplete ==
  ASSUME DeliveryIInv, NEW c \in Clients, NEW n \in wire[c]
  PROVE  /\ n \in Claim(c) /\ n \in Nat /\ n > position[c]
         /\ got[c] \cup {i \in wire[c] : i <= n} = got[c] \cup {i \in Claim(c) : i <= n}
<1>1. ClientInv(c) /\ DeliveryTypeOK /\ position[c] \in Nat
  BY DEF DeliveryIInv, DeliveryTypeOK
<1>2. n \in Claim(c) /\ n > position[c] /\ wire[c] \subseteq Claim(c)
  BY <1>1 DEF ClientInv, WireInv
<1>3. Claim(c) \subseteq Nat
  BY <1>1, ClaimsAreNumbers
<1>4. ASSUME NEW i \in Claim(c), i <= n
      PROVE  i \in got[c] \/ i \in wire[c]
  <2>1. CASE i <= position[c]
    BY <1>1, <2>1 DEF ClientInv, GotInv
  <2>2. CASE i = n
    BY <2>2
  <2>3. CASE position[c] < i /\ i < n
    BY <1>1, <1>2, <2>3 DEF ClientInv, WireInv, NoHole
  <2> QED
    BY <1>1, <1>2, <1>3, <1>4, <2>1, <2>2, <2>3
<1> QED
  BY <1>2, <1>3, <1>4

\* Having processed all claims up to n keeps what got is required to be.
LEMMA CompleteKeepsGot ==
  ASSUME NEW c \in Clients, DeliveryTypeOK, GotInv(c), NEW n \in Nat,
         NEW set, set = got[c] \cup {i \in Claim(c) : i <= n}
  PROVE  /\ set \subseteq Claim(c)
         /\ NoHole(c, set, 0)
         /\ \A i \in Claim(c) : i <= n => i \in set
<1>1. Claim(c) \subseteq Nat
  BY ClaimsAreNumbers
<1> QED
  BY <1>1 DEF GotInv, NoHole

LEMMA ReadEventKeepsInv ==
  ASSUME DeliveryIInv, NEW c \in Clients, ReadEvent(c)
  PROVE  DeliveryIInv'
<1>1. ClientInv(c) /\ DeliveryTypeOK
  BY DEF DeliveryIInv
<1>2. PICK s \in wire[c] :
        /\ First(s, wire[c])
        /\ got' = [got EXCEPT ![c] = @ \cup {s}]
        /\ position' = [position EXCEPT ![c] = s]
        /\ wire' = [wire EXCEPT ![c] = @ \ {s}]
  BY DEF ReadEvent
<1>3. /\ s \in Claim(c) /\ s \in Nat /\ s > position[c]
      /\ got[c] \cup {i \in wire[c] : i <= s} = got[c] \cup {i \in Claim(c) : i <= s}
      /\ Claim(c) \subseteq Nat /\ Claim(c) \subseteq 1..Len(ledger) /\ Len(ledger) \in Nat
      /\ \A i \in Claim(c) : i > start[c]
      /\ wire[c] \subseteq Claim(c)
  BY <1>1, ReadIsComplete, ClaimsAreNumbers DEF ClientInv, WireInv
<1>4. {i \in wire[c] : i <= s} = {s}
  BY <1>2, <1>3 DEF First
<1>5. DeliveryTypeOK'
  BY <1>1, <1>2, <1>3 DEF ReadEvent, DeliveryTypeOK, LedgerTypeOK
<1>6. ClientInv(c)'
  <2>1. /\ got'[c] = got[c] \cup {s} /\ position'[c] = s /\ wire'[c] = wire[c] \ {s}
        /\ link[c] = "stream" /\ position[c] \in Nat /\ cursor[c] \in Nat
        /\ start[c] \in Int
        /\ UNCHANGED <<ledger, link, start, cursor, page>>
    BY <1>1, <1>2 DEF ReadEvent, DeliveryTypeOK
  <2>2. Claim(c)' = Claim(c)
    BY <2>1 DEF Claim, Feed!Due
  <2>3. GotInv(c)'
    <3>1. got'[c] = got[c] \cup {i \in Claim(c) : i <= s}
      BY <1>3, <1>4, <2>1
    <3>2. /\ got'[c] \subseteq Claim(c)
          /\ NoHole(c, got'[c], 0)
          /\ \A i \in Claim(c) : i <= s => i \in got'[c]
      BY <1>1, <1>3, <3>1, CompleteKeepsGot DEF ClientInv
    <3> QED
      BY <2>1, <2>2, <3>2 DEF GotInv, NoHole
  <2>4. LinkInv(c)'
    BY <1>1, <1>3, <2>1 DEF ClientInv, LinkInv
  <2>5. WireInv(c)'
    BY <1>1, <1>2, <1>3, <2>1, <2>2 DEF ClientInv, WireInv, NoHole, First
  <2>6. StreamInv(c)'
    <3>1. s <= cursor[c]
      BY <1>1, <2>1 DEF ClientInv, StreamInv
    <3> QED
      BY <1>1, <1>3, <2>1, <2>2, <3>1 DEF ClientInv, StreamInv, NoHole
  <2> QED
    BY <2>3, <2>4, <2>5, <2>6 DEF ClientInv
<1> QED
  BY <1>1, <1>2, <1>5, <1>6, OneClientMoves DEF ReadEvent, DeliveryTypeOK

LEMMA PollRequestKeepsInv ==
  ASSUME DeliveryIInv, NEW c \in Clients, PollRequest(c)
  PROVE  DeliveryIInv'
<1>1. ClientInv(c) /\ DeliveryTypeOK /\ position[c] \in Nat
  BY DEF DeliveryIInv, DeliveryTypeOK
<1>2. /\ ListAfter(position[c], Wants[c], PageLimit)
           \subseteq {i \in Claim(c) : i > position[c]}
      /\ NoHole(c, ListAfter(position[c], Wants[c], PageLimit), position[c])
  BY <1>1, PageIsPrefix DEF ClientInv, LinkInv, PollRequest
<1>3. DeliveryTypeOK'
  BY <1>1, <1>2, ClaimsAreNumbers DEF PollRequest, DeliveryTypeOK, LedgerTypeOK
<1>4. ClientInv(c)'
  <2>1. /\ wire'[c] = ListAfter(position[c], Wants[c], PageLimit)
        /\ link[c] = "closed" /\ link'[c] = "poll"
        /\ UNCHANGED <<ledger, start, position, cursor, page, got>>
    BY <1>1 DEF PollRequest, DeliveryTypeOK
  <2>2. Claim(c)' = Claim(c)
    BY <2>1 DEF Claim, Feed!Due
  <2> QED
    BY <1>1, <1>2, <2>1, <2>2
       DEF ClientInv, GotInv, LinkInv, WireInv, StreamInv, NoHole
<1> QED
  BY <1>1, <1>3, <1>4, OneClientMoves DEF PollRequest, DeliveryTypeOK

LEMMA PollAnswerKeepsInv ==
  ASSUME DeliveryIInv, NEW c \in Clients, PollAnswer(c)
  PROVE  DeliveryIInv'
<1>1. ClientInv(c) /\ DeliveryTypeOK
  BY DEF DeliveryIInv
<1>2. /\ link[c] = "poll" /\ link'[c] = "closed" /\ wire'[c] = {}
      /\ got'[c] = got[c] \cup wire[c] /\ page[c] = {}
      /\ UNCHANGED <<ledger, start, cursor, page>>
  BY <1>1 DEF PollAnswer, DeliveryTypeOK, ClientInv, LinkInv
<1>3. Claim(c)' = Claim(c)
  BY <1>2 DEF Claim, Feed!Due
<1>4. Claim(c) \subseteq Nat /\ Claim(c) \subseteq 1..Len(ledger) /\ Len(ledger) \in Nat
      /\ wire[c] \subseteq Claim(c) /\ position[c] \in Nat /\ start[c] \in Int
  BY <1>1, ClaimsAreNumbers DEF ClientInv, WireInv, DeliveryTypeOK
<1>5. CASE wire[c] = {}
  <2>1. UNCHANGED position
    BY <1>5 DEF PollAnswer
  <2>2. DeliveryTypeOK'
    BY <1>1, <1>2, <1>4, <2>1 DEF PollAnswer, DeliveryTypeOK, LedgerTypeOK
  <2>3. ClientInv(c)'
    BY <1>1, <1>2, <1>3, <1>5, <2>1
       DEF ClientInv, GotInv, LinkInv, WireInv, StreamInv, NoHole
  <2> QED
    BY <1>1, <2>1, <2>2, <2>3, OneClientMoves DEF PollAnswer, DeliveryTypeOK
<1>6. CASE wire[c] # {}
  <2>1. PICK s \in wire[c] : /\ Last(s, wire[c])
                             /\ position' = [position EXCEPT ![c] = s]
    BY <1>6 DEF PollAnswer
  <2>2. s \in Claim(c) /\ s \in Nat /\ s > position[c]
        /\ got'[c] = got[c] \cup {i \in Claim(c) : i <= s}
    <3>1. {i \in wire[c] : i <= s} = wire[c]
      BY <1>4, <2>1 DEF Last
    <3> QED
      BY <1>2, <2>1, <3>1, ReadIsComplete
  <2>3. DeliveryTypeOK'
    BY <1>1, <1>2, <1>4, <2>1, <2>2 DEF PollAnswer, DeliveryTypeOK, LedgerTypeOK
  <2>4. ClientInv(c)'
    <3>1. position'[c] = s
      BY <1>1, <2>1 DEF DeliveryTypeOK
    <3>2. /\ got'[c] \subseteq Claim(c)
          /\ NoHole(c, got'[c], 0)
          /\ \A i \in Claim(c) : i <= s => i \in got'[c]
      BY <1>1, <2>2, CompleteKeepsGot DEF ClientInv
    <3>3. GotInv(c)'
      BY <1>3, <3>1, <3>2 DEF GotInv, NoHole
    <3>4. LinkInv(c)'
      BY <1>1, <1>2, <1>4, <2>2, <3>1 DEF ClientInv, LinkInv
    <3>5. WireInv(c)' /\ StreamInv(c)'
      BY <1>2 DEF WireInv, StreamInv, NoHole
    <3> QED
      BY <3>3, <3>4, <3>5 DEF ClientInv
  <2> QED
    BY <1>1, <2>1, <2>3, <2>4, OneClientMoves DEF PollAnswer, DeliveryTypeOK
<1> QED
  BY <1>5, <1>6

LEMMA DisconnectKeepsInv ==
  ASSUME DeliveryIInv, NEW c \in Clients, ConnectionLost(c) \/ ClientCrash(c)
  PROVE  DeliveryIInv'
<1>1. ClientInv(c) /\ DeliveryTypeOK /\ Disconnect(c)
  BY DEF DeliveryIInv, ConnectionLost, ClientCrash
<1>2. /\ link'[c] = "closed" /\ page'[c] = {} /\ wire'[c] = {}
      /\ link[c] # "new"
      /\ UNCHANGED <<ledger, start, position, cursor>>
  BY <1>1 DEF Disconnect, DeliveryTypeOK
<1>3. Claim(c)' = Claim(c)
  BY <1>2 DEF Claim, Feed!Due
<1>4. Claim(c) \subseteq Nat /\ wire[c] \subseteq Claim(c)
  BY <1>1, ClaimsAreNumbers DEF ClientInv, WireInv
<1>5. /\ DeliveryTypeOK' /\ GotInv(c)'
      /\ \A d \in Clients \ {c} : got'[d] = got[d]
  <2>1. CASE ConnectionLost(c)
    BY <1>1, <1>2, <1>3, <2>1
       DEF ConnectionLost, Disconnect, DeliveryTypeOK, LedgerTypeOK, ClientInv, GotInv,
           NoHole
  <2>2. CASE ClientCrash(c)
    <3>1. PICK n \in wire[c] :
            got' = [got EXCEPT ![c] = @ \cup {i \in wire[c] : i <= n}]
      BY <2>2 DEF ClientCrash
    <3>2. n \in Nat /\ n > position[c]
          /\ got'[c] = got[c] \cup {i \in Claim(c) : i <= n}
      BY <1>1, <3>1, ReadIsComplete DEF DeliveryTypeOK
    <3>3. DeliveryTypeOK'
      BY <1>1, <1>2, <1>4, <3>1
         DEF Disconnect, DeliveryTypeOK, LedgerTypeOK
    <3>4. /\ got'[c] \subseteq Claim(c)
          /\ NoHole(c, got'[c], 0)
          /\ \A i \in Claim(c) : i <= n => i \in got'[c]
      BY <1>1, <3>2, CompleteKeepsGot DEF ClientInv
    <3>5. position[c] \in Nat
      BY <1>1 DEF DeliveryTypeOK
    <3>6. GotInv(c)'
      BY <1>2, <1>3, <1>4, <3>2, <3>4, <3>5 DEF GotInv, NoHole
    <3> QED
      BY <1>1, <3>1, <3>3, <3>6 DEF DeliveryTypeOK
  <2> QED
    BY <2>1, <2>2
<1>6. ClientInv(c)'
  BY <1>1, <1>2, <1>5 DEF ClientInv, LinkInv, WireInv, StreamInv, NoHole
<1> QED
  BY <1>1, <1>2, <1>5, <1>6, OneClientMoves DEF Disconnect, DeliveryTypeOK

-----------------------------------------------------------------------------
(* The invariant *)

LEMMA InitHasInv ==
  ASSUME DeliveryInit
  PROVE  DeliveryIInv
<1>1. ledger = <<>> /\ ledger \in Seq(Events) /\ Len(ledger) = 0
  BY DEF DeliveryInit, LedgerInit
<1>2. DeliveryTypeOK
  BY <1>1 DEF DeliveryInit, DeliveryTypeOK, LedgerTypeOK
<1>3. ASSUME NEW c \in Clients
      PROVE  ClientInv(c)
  <2>1. Claim(c) = {}
    BY <1>1 DEF Claim, Feed!Due
  <2> QED
    BY <1>1, <2>1
       DEF DeliveryInit, ClientInv, GotInv, LinkInv, WireInv, StreamInv, NoHole
<1> QED
  BY <1>2, <1>3 DEF DeliveryIInv

LEMMA StutterKeepsInv ==
  ASSUME DeliveryIInv, UNCHANGED deliveryVars
  PROVE  DeliveryIInv'
<1>1. UNCHANGED <<ledger, link, replay, start, position, cursor, page, wire, got, failures>>
  BY DEF deliveryVars, clientVars
<1>2. DeliveryTypeOK'
  BY <1>1 DEF DeliveryIInv, DeliveryTypeOK, LedgerTypeOK
<1>3. ASSUME NEW c \in Clients
      PROVE  ClientInv(c)'
  BY <1>1, ClientUntouched DEF DeliveryIInv
<1> QED
  BY <1>2, <1>3 DEF DeliveryIInv

LEMMA NextKeepsInv ==
  ASSUME DeliveryIInv, [DeliveryNext]_deliveryVars
  PROVE  DeliveryIInv'
<1>1. ASSUME NEW e \in Events, StoreEvent(e)
      PROVE  DeliveryIInv'
  BY <1>1, StoreKeepsInv
<1>2. ASSUME NEW c \in Clients, NEW ts \in ReplayTimes, GetStart(c, ts)
      PROVE  DeliveryIInv'
  BY <1>2, GetStartKeepsInv
<1>3. ASSUME NEW c \in Clients, Connect(c)
      PROVE  DeliveryIInv'
  BY <1>3, OpenStreamKeepsInv, PollRequestKeepsInv DEF Connect
<1>4. ASSUME NEW c \in Clients, ServeStream(c)
      PROVE  DeliveryIInv'
  BY <1>4, FetchPageKeepsInv, WriteEventKeepsInv DEF ServeStream
<1>5. ASSUME NEW c \in Clients, ReadEvent(c)
      PROVE  DeliveryIInv'
  BY <1>5, ReadEventKeepsInv
<1>6. ASSUME NEW c \in Clients, PollAnswer(c)
      PROVE  DeliveryIInv'
  BY <1>6, PollAnswerKeepsInv
<1>7. ASSUME NEW c \in Clients, ConnectionLost(c) \/ ClientCrash(c)
      PROVE  DeliveryIInv'
  BY <1>7, DisconnectKeepsInv
<1>8. CASE UNCHANGED deliveryVars
  BY <1>8, StutterKeepsInv
<1> QED
  BY <1>1, <1>2, <1>3, <1>4, <1>5, <1>6, <1>7, <1>8 DEF DeliveryNext, ClientStep

\* Whatever connections and answers are lost, the cursor of every client, the
\* page and the wire of its connection fit together.
THEOREM DeliveryInvariant == DeliverySpec => []DeliveryIInv
<1>1. DeliveryInit => DeliveryIInv
  BY InitHasInv
<1>2. DeliveryIInv /\ [DeliveryNext]_deliveryVars => DeliveryIInv'
  BY NextKeepsInv
<1> QED
  BY <1>1, <1>2, PTL DEF DeliverySpec

\* The variables of the delivery keep their types.
THEOREM DeliveryTypeCorrect == DeliverySpec => []DeliveryTypeOK
<1>1. DeliveryIInv => DeliveryTypeOK
  BY DEF DeliveryIInv
<1> QED
  BY <1>1, DeliveryInvariant, PTL

\* A client's saved cursor never runs ahead of what it processed (docs/API.md:423
\* tells it to save the id after processing): continuing from it loses nothing.
THEOREM CursorIsAlwaysHonest == DeliverySpec => []CursorIsHonest
<1>1. DeliveryIInv => CursorIsHonest
  BY DEF DeliveryIInv, ClientInv, GotInv, CursorIsHonest, Claim
<1> QED
  BY <1>1, DeliveryInvariant, PTL

-----------------------------------------------------------------------------
(* Order *)

\* Claims are only added behind the ledger's end, so an event that is new to a
\* client comes after all it has seen: otherwise it would fill a hole.
LEMMA StepMeetsInOrder ==
  ASSUME DeliveryIInv, DeliveryIInv', [DeliveryNext]_deliveryVars, NEW c \in Clients,
         NEW i \in got'[c] \ got[c], NEW j \in got[c]
  PROVE  j < i
<1>1. /\ got[c] \subseteq Claim(c) /\ got'[c] \subseteq Claim(c)'
      /\ NoHole(c, got[c], 0)
  BY DEF DeliveryIInv, ClientInv, GotInv
<1>2. /\ Claim(c) \subseteq 1..Len(ledger) /\ Len(ledger) \in Nat
      /\ i \in 1..Len(ledger') /\ Len(ledger') \in Nat
  <2>1. Claim(c) \subseteq 1..Len(ledger) /\ Len(ledger) \in Nat
    BY ClaimsAreNumbers DEF DeliveryIInv
  <2>2. ledger' \in Seq(Events)
    BY DEF DeliveryIInv, DeliveryTypeOK, LedgerTypeOK
  <2>3. i \in 1..Len(ledger')
    BY <1>1 DEF Claim, Feed!Due
  <2> QED
    BY <2>1, <2>2, <2>3
<1>3. i \in Claim(c)
  <2>1. ASSUME NEW e \in Events, StoreEvent(e)
        PROVE  FALSE
    BY <2>1 DEF StoreEvent, clientVars
  <2>2. ASSUME NEW d \in Clients, NEW ts \in ReplayTimes, GetStart(d, ts)
        PROVE  FALSE
    BY <2>2 DEF GetStart
  <2>3. CASE UNCHANGED <<ledger, start>>
    BY <1>1, <2>3 DEF Claim, Feed!Due
  <2> QED
    BY <2>1, <2>2, <2>3
       DEF DeliveryNext, ClientStep, Connect, ServeStream, OpenStream, PollRequest, FetchPage,
           WriteEvent, ReadEvent, PollAnswer, ConnectionLost, ClientCrash, Disconnect,
           deliveryVars, clientVars
<1>4. ~(i < j)
  BY <1>1, <1>2, <1>3 DEF NoHole
<1> QED
  BY <1>1, <1>2, <1>4

\* Events are met for the first time in the order of the ledger.
THEOREM AlwaysFirstSeenInOrder == DeliverySpec => FirstSeenInOrder
<1> DEFINE InOrder == \A c \in Clients : \A i \in got'[c] \ got[c] : \A j \in got[c] : j < i
<1>1. DeliveryIInv /\ DeliveryIInv' /\ [DeliveryNext]_deliveryVars => [InOrder]_deliveryVars
  BY StepMeetsInOrder
<1> QED
  BY <1>1, DeliveryInvariant, PTL DEF DeliverySpec, FirstSeenInOrder

-----------------------------------------------------------------------------
(* The refinement *)

\* Rows a client adds up to one row of its wire are a delivery of the feed.
LEMMA WirePrefixIsDelivery ==
  ASSUME DeliveryIInv, NEW c \in Clients, NEW n \in wire[c],
         got' = [got EXCEPT ![c] = @ \cup {i \in wire[c] : i <= n}],
         UNCHANGED <<ledger, start>>
  PROVE  Feed!FeedNext
<1>1. /\ got[c] \cup {i \in wire[c] : i <= n} = got[c] \cup {i \in Claim(c) : i <= n}
      /\ n \in Claim(c)
  BY ReadIsComplete
<1>2. n \in 0..Len(ledger)
  BY <1>1, ClaimsAreNumbers DEF DeliveryIInv
<1>3. Feed!Deliver(c, n)
  BY <1>1 DEF Feed!Deliver, Claim
<1> QED
  BY <1>2, <1>3 DEF Feed!FeedNext

LEMMA ReadEventIsDelivery ==
  ASSUME DeliveryIInv, NEW c \in Clients, ReadEvent(c)
  PROVE  Feed!FeedNext
<1>1. PICK s \in wire[c] : /\ First(s, wire[c])
                           /\ got' = [got EXCEPT ![c] = @ \cup {s}]
  BY DEF ReadEvent
<1>2. wire[c] \subseteq Nat
  BY DEF DeliveryIInv, DeliveryTypeOK
<1>3. {i \in wire[c] : i <= s} = {s}
  BY <1>1, <1>2 DEF First
<1> QED
  BY <1>1, <1>3, WirePrefixIsDelivery DEF ReadEvent

LEMMA PollAnswerIsDelivery ==
  ASSUME DeliveryIInv, NEW c \in Clients, PollAnswer(c)
  PROVE  [Feed!FeedNext]_(Feed!feedVars)
<1>1. wire[c] \subseteq Nat /\ got \in [Clients -> SUBSET Nat]
  BY DEF DeliveryIInv, DeliveryTypeOK
<1>2. /\ got' = [got EXCEPT ![c] = @ \cup wire[c]]
      /\ UNCHANGED <<ledger, start>>
  BY DEF PollAnswer
<1>3. CASE wire[c] = {}
  <2>1. got' = got
    BY <1>1, <1>2, <1>3
  <2> QED
    BY <1>2, <2>1 DEF Feed!feedVars
<1>4. ASSUME NEW s \in wire[c], Last(s, wire[c])
      PROVE  Feed!FeedNext
  <2>1. {i \in wire[c] : i <= s} = wire[c]
    BY <1>1, <1>4 DEF Last
  <2> QED
    BY <1>2, <2>1, WirePrefixIsDelivery
<1> QED
  BY <1>3, <1>4 DEF PollAnswer

LEMMA StepRefinesFeed ==
  ASSUME DeliveryIInv, [DeliveryNext]_deliveryVars
  PROVE  [Feed!FeedNext]_(Feed!feedVars)
<1>1. ASSUME NEW e \in Events, StoreEvent(e)
      PROVE  [Feed!FeedNext]_(Feed!feedVars)
  <2>1. UNCHANGED <<start, got>>
    BY <1>1 DEF StoreEvent, clientVars
  <2>2. CASE Stored(e)
    BY <1>1, <2>1, <2>2 DEF StoreEvent, AppendEvent, Feed!feedVars
  <2>3. CASE ~Stored(e)
    <3>1. Feed!Publish(e)
      BY <1>1, <2>1, <2>3 DEF StoreEvent, AppendEvent, Stored, Feed!Publish
    <3> QED
      BY <3>1 DEF Feed!FeedNext
  <2> QED
    BY <2>2, <2>3
<1>2. ASSUME NEW c \in Clients, NEW ts \in ReplayTimes, GetStart(c, ts)
      PROVE  Feed!FeedNext
  <2>1. SequenceBefore(ts) \in 0..Len(ledger)
    BY SequenceBeforeIsAPlace DEF DeliveryIInv
  <2>2. start[c] = -1
    BY <1>2 DEF DeliveryIInv, ClientInv, LinkInv, GetStart
  <2>3. Feed!Attach(c, SequenceBefore(ts))
    BY <1>2, <2>2 DEF GetStart, Feed!Attach
  <2> QED
    BY <2>1, <2>3 DEF Feed!FeedNext
<1>3. ASSUME NEW c \in Clients, ReadEvent(c)
      PROVE  Feed!FeedNext
  BY <1>3, ReadEventIsDelivery
<1>4. ASSUME NEW c \in Clients, PollAnswer(c)
      PROVE  [Feed!FeedNext]_(Feed!feedVars)
  BY <1>4, PollAnswerIsDelivery
<1>5. ASSUME NEW c \in Clients, ClientCrash(c)
      PROVE  Feed!FeedNext
  BY <1>5, WirePrefixIsDelivery DEF ClientCrash, Disconnect
<1>6. ASSUME NEW c \in Clients, Connect(c) \/ ServeStream(c) \/ ConnectionLost(c)
      PROVE  UNCHANGED Feed!feedVars
  BY <1>6 DEF Connect, OpenStream, PollRequest, ServeStream, FetchPage, WriteEvent,
              ConnectionLost, Disconnect, Feed!feedVars
<1>7. CASE UNCHANGED deliveryVars
  BY <1>7 DEF deliveryVars, clientVars, Feed!feedVars
<1> QED
  BY <1>1, <1>2, <1>3, <1>4, <1>5, <1>6, <1>7 DEF DeliveryNext, ClientStep

\* The cursors, pages, polls and reconnects of the event interface implement
\* the feed without holes (feature_store.py:82-108, api.py:430-448, 597-646).
THEOREM DeliveryImplementsFeed == DeliverySpec => ImplementsFeed
<1>1. DeliveryInit => Feed!FeedInit
  BY DEF DeliveryInit, LedgerInit, Feed!FeedInit
<1>2. DeliveryIInv /\ [DeliveryNext]_deliveryVars => [Feed!FeedNext]_(Feed!feedVars)
  BY StepRefinesFeed
<1> QED
  BY <1>1, <1>2, DeliveryInvariant, PTL DEF DeliverySpec, ImplementsFeed, Feed!FeedSpec

-----------------------------------------------------------------------------
(* Where a client starts *)

\* The start cursor is the place of an event of an earlier time, or 0.
StartInv ==
  \A c \in Clients : start[c] > 0 =>
    /\ start[c] \in 1..Len(ledger)
    /\ TsOf[ledger[start[c]]] < replay[c]

LEMMA SequenceBeforeIsEarlier ==
  ASSUME NEW ts, SequenceBefore(ts) # 0
  PROVE  /\ SequenceBefore(ts) \in 1..Len(ledger)
         /\ TsOf[ledger[SequenceBefore(ts)]] < ts
<1> DEFINE earlier == {i \in 1..Len(ledger) : TsOf[ledger[i]] < ts}
           last == {i \in earlier : \A j \in earlier : j <= i}
<1>1. last # {} /\ SequenceBefore(ts) = CHOOSE i \in last : TRUE
  BY DEF SequenceBefore
<1>2. SequenceBefore(ts) \in earlier
  BY <1>1
<1> QED
  BY <1>2

LEMMA StepKeepsStart ==
  ASSUME DeliveryIInv, StartInv, [DeliveryNext]_deliveryVars
  PROVE  StartInv'
<1>1. DeliveryTypeOK /\ Len(ledger) \in Nat
  BY DEF DeliveryIInv, DeliveryTypeOK, LedgerTypeOK
<1>2. CASE \E e \in Events : StoreEvent(e)
  <2>1. PICK e \in Events : StoreEvent(e)
    BY <1>2
  <2>2. UNCHANGED <<start, replay>>
    BY <2>1 DEF StoreEvent, clientVars
  <2>3. \A i \in 1..Len(ledger) : i \in 1..Len(ledger') /\ ledger'[i] = ledger[i]
    <3>1. ledger \in Seq(Events)
      BY <1>1 DEF DeliveryTypeOK, LedgerTypeOK
    <3> QED
      BY <1>1, <2>1, <3>1 DEF StoreEvent, AppendEvent
  <2> QED
    BY <2>2, <2>3 DEF StartInv
<1>3. ASSUME NEW c \in Clients, NEW ts \in ReplayTimes, GetStart(c, ts)
      PROVE  StartInv'
  <2>1. /\ ledger' = ledger
        /\ start'[c] = SequenceBefore(ts) /\ replay'[c] = ts
        /\ \A d \in Clients \ {c} : start'[d] = start[d] /\ replay'[d] = replay[d]
    BY <1>1, <1>3 DEF GetStart, DeliveryTypeOK
  <2>2. start'[c] > 0 => /\ start'[c] \in 1..Len(ledger')
                         /\ TsOf[ledger'[start'[c]]] < replay'[c]
    BY <2>1, SequenceBeforeIsEarlier
  <2> QED
    BY <2>1, <2>2 DEF StartInv
<1>4. CASE UNCHANGED <<ledger, start, replay>>
  BY <1>4 DEF StartInv
<1>5. /\ ClientStep =>
           \/ \E c \in Clients, ts \in ReplayTimes : GetStart(c, ts)
           \/ UNCHANGED <<ledger, start, replay>>
      /\ UNCHANGED deliveryVars => UNCHANGED <<ledger, start, replay>>
  BY DEF ClientStep, Connect, OpenStream, PollRequest, ServeStream, FetchPage, WriteEvent,
         ReadEvent, PollAnswer, ConnectionLost, ClientCrash, Disconnect, deliveryVars,
         clientVars
<1> QED
  BY <1>2, <1>3, <1>4, <1>5 DEF DeliveryNext

LEMMA StartIsAlwaysEarlier == DeliverySpec => []StartInv
<1>1. DeliveryInit => StartInv
  BY DEF DeliveryInit, StartInv
<1>2. DeliveryIInv /\ StartInv /\ [DeliveryNext]_deliveryVars => StartInv'
  BY StepKeepsStart
<1> QED
  BY <1>1, <1>2, DeliveryInvariant, PTL DEF DeliverySpec

\* What a replay leaves out was overtaken by an event of an earlier time: the place the
\* start cursor names.
THEOREM OnlyOvertakenAreEverLeftOut == DeliverySpec => []OnlyOvertakenAreLeftOut
<1>1. ASSUME DeliveryIInv, StartInv,
             NEW c \in Clients, NEW i \in Matching(Wants[c]),
             i <= start[c], TsOf[ledger[i]] >= replay[c]
      PROVE  \E j \in i + 1..start[c] : TsOf[ledger[j]] < replay[c]
  <2>1. /\ i \in 1..Len(ledger) /\ Len(ledger) \in Nat
        /\ start[c] \in Int /\ replay[c] \in Nat
        /\ TsOf[ledger[i]] \in Nat
    BY <1>1 DEF Matching, DeliveryIInv, DeliveryTypeOK, LedgerTypeOK
  <2>2. start[c] \in 1..Len(ledger) /\ TsOf[ledger[start[c]]] < replay[c]
    BY <1>1, <2>1 DEF StartInv
  <2>3. i # start[c]
    BY <1>1, <2>1, <2>2
  <2> QED
    BY <1>1, <2>1, <2>2, <2>3
<1>2. DeliveryIInv /\ StartInv => OnlyOvertakenAreLeftOut
  BY <1>1 DEF OnlyOvertakenAreLeftOut
<1> QED
  BY <1>2, DeliveryInvariant, StartIsAlwaysEarlier, PTL

-----------------------------------------------------------------------------
(* No standstill *)

\* list_after finds something whenever there is something to find.
LEMMA PageIsNotEmpty ==
  ASSUME DeliveryTypeOK, NEW c \in Clients, NEW after \in Nat,
         NEW n \in Matching(Wants[c]), after < n
  PROVE  ListAfter(after, Wants[c], PageLimit) # {}
<1> DEFINE upTo(i) == {j \in Matching(Wants[c]) : after < j /\ j <= i}
           candidates == {upTo(i) : i \in upTo(n)}
<1>1. Len(ledger) \in Nat /\ Matching(Wants[c]) \subseteq 1..Len(ledger)
  BY DEF DeliveryTypeOK, LedgerTypeOK, Matching
<1>2. candidates \subseteq FiniteSubsetsOf(Nat) /\ candidates # {}
  <2>1. IsFiniteSet(1..Len(ledger))
    BY PlacesAreFinite
  <2>2. ASSUME NEW i \in upTo(n)
        PROVE  upTo(i) \in SUBSET Nat /\ IsFiniteSet(upTo(i))
    <3>1. upTo(i) \in SUBSET (1..Len(ledger))
      BY <1>1
    <3> QED
      BY <1>1, <2>1, <3>1, FS_Subset
  <2>3. n \in upTo(n)
    BY <1>1
  <2> QED
    BY <2>2, <2>3 DEF FiniteSubsetsOf
<1>3. PICK s \in candidates :
        \A r \in candidates : ~(<<r, s>> \in StrictSubsetOrdering(Nat))
  <2> HIDE DEF candidates
  <2> QED
    BY <1>2, FS_StrictSubsetOrderingWellFounded, WFMin
<1>4. PICK i \in upTo(n) : s = upTo(i)
  BY <1>3
<1>5. i \in Matching(Wants[c]) /\ i \in Nat /\ after < i
  BY <1>1, <1>4
<1>6. upTo(i) = {i}
  <2>1. ASSUME NEW j \in upTo(i), j # i
        PROVE  FALSE
    <3>1. /\ j \in Nat /\ j < i /\ i <= n /\ n \in Nat
          /\ j \in upTo(n)
      BY <1>1, <1>4, <1>5, <2>1
    <3>2. upTo(j) \in candidates
      BY <3>1
    <3>3. upTo(j) \subseteq upTo(i) /\ i \in upTo(i) /\ i \notin upTo(j)
      BY <1>1, <1>5, <3>1
    <3>4. upTo(i) \in SUBSET Nat /\ upTo(j) \in SUBSET Nat
      BY <1>1
    <3> HIDE DEF upTo, candidates
    <3>5. <<upTo(j), upTo(i)>> \in StrictSubsetOrdering(Nat)
      BY <3>3, <3>4 DEF StrictSubsetOrdering
    <3> QED
      BY <1>3, <1>4, <3>2, <3>5
  <2>2. i \in upTo(i)
    BY <1>5
  <2> HIDE DEF upTo, candidates
  <2> QED
    BY <2>1, <2>2
<1>7. Cardinality(upTo(i)) = 1
  BY <1>6, FS_Singleton
<1>8. i \in ListAfter(after, Wants[c], PageLimit)
  BY <1>5, <1>7 DEF ListAfter
<1> QED
  BY <1>8

\* Clients and server never both stand still while a client has not processed all it has
\* a claim to: it may come back, or an answer is on its way, or there are bytes to read, or
\* a page to write or to fetch.  EverythingArrives adds that such steps are taken.
NoStandstill ==
  \A c \in Clients : \A i \in Claim(c) \ got[c] :
    \/ link[c] \in {"closed", "poll"}
    \/ link[c] = "stream" /\ wire[c] \cup page[c] # {}
    \/ link[c] = "stream" /\ ListAfter(cursor[c], Wants[c], PageLimit) # {}

\* An unfinished client always has a step to take that brings it on.
THEOREM NeverAtAStandstill == DeliverySpec => []NoStandstill
<1>1. ASSUME DeliveryIInv, NEW c \in Clients, NEW i \in Claim(c), i \notin got[c],
             link[c] \notin {"closed", "poll"}
      PROVE  /\ link[c] = "stream"
             /\ \/ wire[c] \cup page[c] # {}
                \/ ListAfter(cursor[c], Wants[c], PageLimit) # {}
  <2>1. DeliveryTypeOK /\ ClientInv(c)
    BY <1>1 DEF DeliveryIInv
  <2>2. /\ i \in Matching(Wants[c]) /\ start[c] >= 0
        /\ i \in Nat /\ position[c] \in Nat /\ cursor[c] \in Nat
        /\ link[c] \in {"new", "closed", "stream", "poll"}
    BY <2>1 DEF Claim, Feed!Due, Matching, DeliveryTypeOK, LedgerTypeOK
  <2>3. link[c] = "stream"
    BY <1>1, <2>1, <2>2 DEF ClientInv, LinkInv
  <2>4. position[c] < i
    BY <1>1, <2>1, <2>2 DEF ClientInv, GotInv
  <2>5. CASE i <= cursor[c]
    BY <1>1, <2>1, <2>3, <2>4, <2>5 DEF ClientInv, StreamInv
  <2>6. CASE cursor[c] < i
    BY <2>1, <2>2, <2>3, <2>6, PageIsNotEmpty
  <2> QED
    BY <2>2, <2>3, <2>5, <2>6
<1>2. DeliveryIInv => NoStandstill
  BY <1>1 DEF NoStandstill
<1> QED
  BY <1>2, DeliveryInvariant, PTL

-----------------------------------------------------------------------------
(* The pipeline *)

\* What a step of the owner is to the clients: an event that is stored, or nothing.
LEMMA OwnerStores ==
  ASSUME IngestTypeOK, IngestNext, UNCHANGED clientVars
  PROVE  [DeliveryNext]_deliveryVars
<1>1. CASE AppendRaw
  <2>1. event \in Events
    BY <1>1 DEF AppendRaw, IngestTypeOK, Steps
  <2> QED
    BY <1>1, <2>1 DEF AppendRaw, StoreEvent, DeliveryNext
<1>2. CASE ~AppendRaw
  <2>1. UNCHANGED ledger
    BY <1>2 DEF IngestNext, Processing, Restart, OpenWindow, LeaveWindow, Yield, Killed, Send,
                Activate, ReadPrevious, Put, ReadVector, ReadStrategies, Finish, CallFails,
                Publish
  <2> QED
    BY <2>1 DEF deliveryVars
<1> QED
  BY <1>1, <1>2

\* The clients' steps leave the table alone.
LEMMA ClientsOnlyRead ==
  ASSUME ClientStep
  PROVE  UNCHANGED ledger
  BY DEF ClientStep, GetStart, Connect, OpenStream, PollRequest, ServeStream, FetchPage,
         WriteEvent, ReadEvent, PollAnswer, ConnectionLost, ClientCrash, Disconnect

\* The owner and the API together do what each was modelled to do alone: the events
\* that SipIngest stores are the only environment EventDelivery has, and the other way
\* round.  So whatever holds of one of them alone holds of the two together.
THEOREM PipelineComposes == PipelineSpec => IngestSpec /\ DeliverySpec
<1>1. PipelineInit => IngestInit /\ DeliveryInit
  BY DEF PipelineInit
<1>2. [PipelineNext]_pipelineVars => [IngestNext]_ingestVars
  BY ClientsOnlyRead DEF PipelineNext, pipelineVars, ownerVars, ingestVars
<1>3. IngestTypeOK /\ [PipelineNext]_pipelineVars => [DeliveryNext]_deliveryVars
  BY OwnerStores DEF PipelineNext, DeliveryNext, pipelineVars, deliveryVars
<1>4. PipelineSpec => IngestSpec
  BY <1>1, <1>2, PTL DEF PipelineSpec, IngestSpec
<1>5. PipelineSpec => []IngestTypeOK
  BY <1>4, IngestTypeCorrect, PTL
<1> QED
  BY <1>1, <1>3, <1>4, <1>5, PTL DEF PipelineSpec, DeliverySpec

\* What clients are shown of the quotes goes forward by the second, however often
\* either side breaks off.
THEOREM QuotesAlwaysReachInOrder == PipelineSpec => QuotesReachInOrder
<1> DEFINE InOrder ==
      \A c \in Clients : \A i \in got'[c] \ got[c] : \A j \in got[c] :
        LET new == ledger[i]
            old == ledger[j]
        IN  KindOf[new] = "quote" /\ KindOf[old] = "quote" /\ SymbolOf[new] = SymbolOf[old]
            => SecondOf(old) < SecondOf(new)
<1>1. ASSUME DeliveryIInv, DeliveryIInv', QuotesSampledInOrder', IngestTypeOK,
             [PipelineNext]_pipelineVars
      PROVE  InOrder
  <2> SUFFICES ASSUME NEW c \in Clients, NEW i \in got'[c] \ got[c], NEW j \in got[c]
               PROVE  KindOf[ledger[i]] = "quote" /\ KindOf[ledger[j]] = "quote"
                        /\ SymbolOf[ledger[i]] = SymbolOf[ledger[j]]
                      => SecondOf(ledger[j]) < SecondOf(ledger[i])
    OBVIOUS
  <2>1. [DeliveryNext]_deliveryVars
    BY <1>1, OwnerStores DEF PipelineNext, DeliveryNext, pipelineVars, deliveryVars
  <2>2. j < i
    BY <1>1, <2>1, StepMeetsInOrder
  <2>3. UNCHANGED ledger
    <3>1. got' # got
      OBVIOUS
    <3> QED
      BY <1>1, <3>1, ClientsOnlyRead DEF PipelineNext, pipelineVars, clientVars
  <2>4. i \in 1..Len(ledger) /\ j \in 1..Len(ledger)
    <3>1. Claim(c) \subseteq 1..Len(ledger)
      BY <1>1, ClaimsAreNumbers DEF DeliveryIInv
    <3>2. Claim(c)' \subseteq 1..Len(ledger')
      BY <1>1 DEF DeliveryIInv, Claim, Feed!Due
    <3>3. got[c] \subseteq Claim(c) /\ got'[c] \subseteq Claim(c)'
      BY <1>1 DEF DeliveryIInv, ClientInv, GotInv
    <3> QED
      BY <2>3, <3>1, <3>2, <3>3
  <2> QED
    BY <1>1, <2>2, <2>3, <2>4 DEF QuotesSampledInOrder
<1>2. /\ DeliveryIInv /\ DeliveryIInv' /\ QuotesSampledInOrder' /\ IngestTypeOK
      /\ [PipelineNext]_pipelineVars
      => [InOrder]_pipelineVars
  BY <1>1
<1>3. PipelineSpec => []DeliveryIInv /\ []QuotesSampledInOrder /\ []IngestTypeOK
  BY PipelineComposes, DeliveryInvariant, QuotesAlwaysSampledInOrder, IngestTypeCorrect, PTL
<1> QED
  BY <1>2, <1>3, PTL DEF PipelineSpec, QuotesReachInOrder
=============================================================================
