----------------------------- MODULE OggMuxOrder -----------------------------
(***************************************************************************)
(* The order of the pages on the wire: the links of a chain one after the  *)
(* other, and in each link the BOS pages, the other headers, then data,    *)
(* the times going up.                                                     *)
(*                                                                         *)
(* LinksApart follows from PagesInv once every page is known to be of the  *)
(* link its stream is in (WireInLinks), only pages of this link are queued *)
(* (QueuedHere), every stream of a link is opened in its turn (OpenedInv), *)
(* and the pages picked for a stream are those on the wire (TracedInv).    *)
(*                                                                         *)
(* HeadersFirst compares pages a whole header section apart.  OrderInv     *)
(* says what the section has put on the wire so far (SectionOnWire), what  *)
(* each stream has handed over and still has to (TurnsInv), and that past  *)
(* the section no header is left in a packet, a builder or a queue         *)
(* (DataOnlyInv).                                                          *)
(*                                                                         *)
(* TimeOrder speaks of granules only, so TimesInv says what a page's time  *)
(* is: the latest of its stream's granules up to it (Clocked, WireClock).  *)
(* Ahead relates a page on the wire to all that is queued, and to the      *)
(* latest time of every stream that may still queue a page.                *)
(*                                                                         *)
(* Headed and Fitting are about the caller's extradata.  A stream without  *)
(* header packets that is given none has no page, so no EOS page; header   *)
(* packets beyond the codec's are written as data.                         *)
(***************************************************************************)
EXTENDS OggMuxPages

\* Every stream has extradata, of at least one header packet.
Headed == \A s \in Streams : Headers[s] > 0
\* And of no more packets than its codec has headers.
Fitting == \A s \in Streams : Headers[s] <= Need[s]

-----------------------------------------------------------------------------
(* Links.                                                                  *)

\* A page of a stream was made in the stream's link.
InLink(p) ==
  /\ p.link \in DOMAIN Links
  /\ p.stream # "skeleton" => p.stream \in ToSet(Links[p.link])
WireInLinks == \A i \in 1 .. Len(wire) : InLink(wire[i]) /\ wire[i].link <= link
\* What waits in a queue is of this link, and no BOS page.
QueuedHere ==
  \A s \in Streams : \A i \in 1 .. Len(queue[s]) :
    queue[s][i].page.link = link /\ "bos" \notin queue[s][i].page.flags
\* A stream has a page from its turn in the header section on.
Opened(s) ==
  /\ Blank(s) => headers_remaining[s] = Need[s]
  /\ ~Blank(s) => bos_emitted[s]

\* Filtered loses no page and makes none up.
TracedIn(w, s) ==
  /\ \A m \in 1 .. Len(Filtered(w, s)) :
       \E k \in 1 .. Len(w) : w[k] = Filtered(w, s)[m] /\ w[k].stream = s
  /\ \A k \in 1 .. Len(w) : w[k].stream = s =>
       \E m \in 1 .. Len(Filtered(w, s)) : Filtered(w, s)[m] = w[k]

OpenedInv == \A s \in Streams : Opened(s)
TracedInv == \A s \in Streams : TracedIn(wire, s)
LinksInv == WireInLinks /\ LinksApart /\ QueuedHere /\ OpenedInv /\ TracedInv

-----------------------------------------------------------------------------
(* Headers.                                                                *)

Unopened == ~header_written \/ stage \in {"arm", "fishead"}
BosOpen  == Unopened \/ stage \in BosLoops
InHeaders == Unopened \/ stage \in BosLoops \cup HeaderLoops \cup {"drain_headers"}
BeforeData == InHeaders \/ stage \in {"bone", "index", "skeleton_eos"}

OwnStep(s, ops) == step \in ops /\ writing.s = s

\* Between its BOS page and the end of the section: a header packet a turn,
\* each on a page of its own.
Given(s) == Handed(s) = IF HeadersPassed(s) THEN Headers[s] ELSE 1 + (IF s = Turn THEN extra ELSE 0)
AtTurn(s) ==
  /\ Len(sent[s]) + headers_remaining[s] =
       Need[s] + (IF OwnStep(s, {"put", "stamp"}) THEN 1 ELSE 0)
  /\ buffered[s].segs # <<>> => OwnStep(s, {"stamp", "flush"})
  /\ OwnStep(s, StepNames \ {"none"}) => writing.p = HeaderPacket
  /\ OwnStep(s, {"stamp", "flush", "release"}) => writing.from = 1
HeaderTurns(s) == Section(s) /\ ~Blank(s) => Given(s) /\ AtTurn(s)
TurnsInv == \A s \in Streams : HeaderTurns(s)

\* After it: no header is left anywhere but on the wire.
Resuming(s) == \/ OwnStep(s, {"put", "stamp"})
               \/ OwnStep(s, {"flush", "release"}) /\ LacesLeft > 0
NoHeader(s) ==
  /\ Len(sent[s]) >= Headers[s]
  /\ Resuming(s) => Len(sent[s]) > Headers[s]
  /\ buffered[s].segs # <<>> => buffered[s].segs[1].pkt > Headers[s]
  /\ \A i \in 1 .. Len(queue[s]) : ~IsHeader(queue[s][i].page)
DataOnly(s) == s \in Current /\ ~InHeaders => NoHeader(s)
DataOnlyInv == \A s \in Streams : DataOnly(s)

Here(i) == wire[i].link = link
SectionOnWire ==
  \A i \in 1 .. Len(wire) : Here(i) =>
    /\ ~Unopened
    /\ BosOpen => "bos" \in wire[i].flags
    /\ stage = "theora_bos" => wire[i].stream \in Theora \cup {"skeleton"}
    /\ BeforeData => IsHeader(wire[i])

OrderInv == SectionOnWire /\ HeadersFirst /\ TurnsInv /\ DataOnlyInv

-----------------------------------------------------------------------------
(* Times.                                                                  *)

\* t is the latest time of the pages of s on the wire w and of the first j in
\* its queue q: 0 before there is any.
Latest(w, q, s, j, t) ==
  /\ \A k \in 1 .. Len(w) : w[k].stream = s => GranuleTime(w[k]) <= t
  /\ \A k \in 1 .. j : GranuleTime(q[k].page) <= t
  /\ \/ t = 0
     \/ \E k \in 1 .. Len(w) : w[k].stream = s /\ GranuleTime(w[k]) = t
     \/ \E k \in 1 .. j : GranuleTime(q[k].page) = t
\* A page is queued with the latest time up to it, and n is that of them all.
ClockedBy(w, q, s, n) ==
  /\ \A j \in 1 .. Len(q) : Latest(w, q, s, j, q[j].page.time)
  /\ Latest(w, q, s, Len(q), n)
  /\ q # <<>> => n = q[Len(q)].page.time
Clocked(s) ==
  /\ ClockedBy(wire, queue[s], s, newest_time[s])
  /\ PageTime(s, last_granule[s]) <= newest_time[s]
\* And so it is let out.
ClockAt(w, i) ==
  /\ \A k \in 1 .. i : w[k].stream = w[i].stream => GranuleTime(w[k]) <= w[i].time
  /\ \/ w[i].time = 0
     \/ \E k \in 1 .. i : w[k].stream = w[i].stream /\ GranuleTime(w[k]) = w[i].time
WireClock == \A i \in 1 .. Len(wire) : ClockAt(wire, i)
\* Up to the data no time is past.
Timeless(s) == Later(s) \/ (s \in Current /\ BeforeData)
Still(s) == Timeless(s) => newest_time[s] = 0 /\ buffered[s].granule \in {0, NoPts}
\* What is on the wire is no later than what is to come.
AheadOf(t, s) ==
  /\ \A j \in 1 .. Len(queue[s]) : t <= queue[s][j].page.time
  /\ ~Done(s) => t <= newest_time[s]
Ahead(p) == (BeforeData => p.time = 0) /\ \A s \in Current : AheadOf(p.time, s)
WireAhead == \A i \in 1 .. Len(wire) : Here(i) => Ahead(wire[i])
WireOrdered ==
  \A i \in 2 .. Len(wire) : wire[i - 1].link = wire[i].link => wire[i - 1].time <= wire[i].time
TimesInv ==
  /\ WireClock /\ WireOrdered /\ WireAhead
  /\ \A s \in Streams : Clocked(s) /\ Still(s)

-----------------------------------------------------------------------------
(* Links do not overlap.                                                   *)

LEMMA TracedOn ==
  ASSUME NEW w \in Seq(PageSet), NEW s, NEW p \in PageSet, TracedIn(w, s)
  PROVE  TracedIn(Append(w, p), s)
<1> DEFINE v == Append(w, p)
           x == Filtered(w, s)
           y == Filtered(v, s)
<1>1. OneMore(w, v, p)
  BY Appended
<1>2. y = IF p.stream = s THEN Append(x, p) ELSE x
  BY FilteredGrows
<1>3. x \in Seq(PageSet)
  BY FilteredType
<1>4. p.stream = s => OneMore(x, y, p)
  BY <1>2, <1>3, Appended
<1>5. /\ \A m \in 1 .. Len(x) : \E k \in 1 .. Len(w) : w[k] = x[m] /\ w[k].stream = s
      /\ \A k \in 1 .. Len(w) : w[k].stream = s => \E m \in 1 .. Len(x) : x[m] = w[k]
  BY Zenon DEF TracedIn
<1>6. TracedIn(v, s) <=>
        /\ \A m \in 1 .. Len(y) : \E k \in 1 .. Len(v) : v[k] = y[m] /\ v[k].stream = s
        /\ \A k \in 1 .. Len(v) : v[k].stream = s => \E m \in 1 .. Len(y) : y[m] = v[k]
  BY Zenon DEF TracedIn
<1>7. y = x \/ OneMore(x, y, p)
  BY <1>2, <1>4
<1> HIDE DEF v, x, y
<1>8. \A k \in 1 .. Len(w) : k \in 1 .. Len(v) /\ v[k] = w[k]
  BY <1>1 DEF OneMore
<1>9. Len(w) + 1 \in 1 .. Len(v) /\ v[Len(w) + 1] = p
  BY <1>1 DEF OneMore
<1>10. ASSUME NEW m \in 1 .. Len(y) PROVE \E k \in 1 .. Len(v) : v[k] = y[m] /\ v[k].stream = s
  <2>1. CASE m \in 1 .. Len(x) /\ y[m] = x[m]
    <3>1. PICK k \in 1 .. Len(w) : w[k] = x[m] /\ w[k].stream = s
      BY <1>5, <2>1
    <3>2. k \in 1 .. Len(v) /\ v[k] = w[k]
      BY <1>8
    <3>3. QED BY <2>1, <3>1, <3>2
  <2>2. CASE p.stream = s /\ y[m] = p
    BY <1>9, <2>2
  <2>3. QED BY <1>2, <1>4, <1>10, <2>1, <2>2 DEF OneMore
<1>11. ASSUME NEW k \in 1 .. Len(v), v[k].stream = s PROVE \E m \in 1 .. Len(y) : y[m] = v[k]
  <2>1. CASE k \in 1 .. Len(w)
    <3>1. PICK m \in 1 .. Len(x) : x[m] = v[k]
      BY <1>5, <1>8, <1>11, <2>1
    <3>2. m \in 1 .. Len(y) /\ y[m] = x[m]
      BY <1>7 DEF OneMore
    <3>3. QED BY <3>1, <3>2
  <2>2. CASE k = Len(w) + 1
    <3>1. OneMore(x, y, p) /\ v[k] = p
      BY <1>4, <1>9, <1>11, <2>2
    <3>2. Len(x) + 1 \in 1 .. Len(y) /\ y[Len(x) + 1] = p
      BY <3>1 DEF OneMore
    <3>3. QED BY <3>1, <3>2
  <2>3. QED BY <1>1, <2>1, <2>2 DEF OneMore
<1>12. QED BY <1>6, <1>10, <1>11, Zenon DEF v

\* A stream that is over has its EOS page on the wire.
LEMMA EndedOnWire ==
  ASSUME TypeInv, NEW s \in Streams, StreamInv(s), TracedIn(wire, s), Done(s), Closed(s),
         Pages(s) # <<>>
  PROVE  \E k \in 1 .. Len(wire) : wire[k].stream = s /\ "eos" \in wire[k].flags
<1> DEFINE x == Pages(s)
<1>1. OnWire(s) = Filtered(wire, s)
  BY Zenon DEF OnWire, Filtered
<1>2. /\ Pages(s) \in Seq(PageSet) /\ OnWire(s) \in Seq(PageSet) /\ Queued(s) \in Seq(PageSet)
      /\ Len(Queued(s)) = Len(queue[s])
  BY PagesType DEF TypeInv, DataInv
<1>3. queue[s] = <<>> /\ "eos" \in x[Len(x)].flags
  BY Zenon DEF StreamInv, Ending
<1>4. x = Filtered(wire, s)
  <2>1. Queued(s) = <<>>
    BY <1>2, <1>3
  <2>2. QED BY <1>1, <1>2, <2>1 DEF Pages
<1>5. Len(x) \in 1 .. Len(x)
  BY <1>2, EmptySeq
<1>6. PICK k \in 1 .. Len(wire) : wire[k] = x[Len(x)] /\ wire[k].stream = s
  <2>1. \A m \in 1 .. Len(Filtered(wire, s)) :
          \E k \in 1 .. Len(wire) : wire[k] = Filtered(wire, s)[m] /\ wire[k].stream = s
    BY Zenon DEF TracedIn
  <2> HIDE DEF x
  <2>2. QED BY <1>4, <1>5, <2>1
<1>7. QED BY <1>3, <1>6

\* The pages before the i-th are of its link, or of links that are over.
ApartAt(w, i) ==
  /\ w[i - 1].link <= w[i].link
  /\ w[i - 1].link < w[i].link =>
       \A s \in ToSet(Links[w[i - 1].link]) :
         \E j \in 1 .. i - 1 : w[j].stream = s /\ "eos" \in w[j].flags

LEMMA ApartKept ==
  ASSUME NEW w, NEW v, NEW i \in Nat, i > 1, \A j \in 1 .. i : v[j] = w[j], ApartAt(w, i)
  PROVE  ApartAt(v, i)
<1>1. v[i - 1] = w[i - 1] /\ v[i] = w[i]
  OBVIOUS
<1>2. \A j \in 1 .. i - 1 : v[j] = w[j]
  OBVIOUS
<1>3. w[i - 1].link <= w[i].link
  BY Zenon DEF ApartAt
<1>4. ASSUME w[i - 1].link < w[i].link, NEW s \in ToSet(Links[w[i - 1].link])
      PROVE  \E j \in 1 .. i - 1 : v[j].stream = s /\ "eos" \in v[j].flags
  <2>1. PICK j \in 1 .. i - 1 : w[j].stream = s /\ "eos" \in w[j].flags
    BY <1>4, Zenon DEF ApartAt
  <2>2. v[j].stream = s /\ "eos" \in v[j].flags
    BY <1>2, <2>1
  <2>3. QED BY <2>2
<1>5. QED BY <1>1, <1>3, <1>4, Zenon DEF ApartAt

\* A page of this link, let out.
LEMMA PageOut ==
  ASSUME TypeInv, StreamsInv, LinksInv, NEW p \in PageSet, InLink(p), p.link = link,
         wire' = Append(wire, p), UNCHANGED link
  PROVE  WireInLinks' /\ LinksApart' /\ TracedInv'
<1> DEFINE w == wire'
           n == Len(wire)
<1>1. OneMore(wire, w, p)
  BY Appended DEF TypeInv, DataInv, WireInv
<1>2. link \in Nat
  BY MuxAssumption DEF TypeInv, ControlInv
<1>3. WireInLinks'
  <2>1. \A i \in 1 .. n : InLink(wire[i]) /\ wire[i].link <= link
    BY Zenon DEF LinksInv, WireInLinks
  <2>2. ASSUME NEW i \in 1 .. Len(w) PROVE InLink(w[i]) /\ w[i].link <= link
    <3>1. w[i] = p \/ \E j \in 1 .. n : w[i] = wire[j]
      BY <1>1 DEF OneMore
    <3>2. QED BY <1>2, <2>1, <3>1
  <2>3. QED BY <2>2, Zenon DEF WireInLinks
<1>4. ASSUME n >= 1, wire[n].link < link, NEW s \in ToSet(Links[wire[n].link])
      PROVE  \E k \in 1 .. n : wire[k].stream = s /\ "eos" \in wire[k].flags
  <2>1. n \in 1 .. n
    BY <1>1, <1>4 DEF OneMore
  <2>2. InLink(wire[n])
    BY <2>1, Zenon DEF LinksInv, WireInLinks
  <2>3. wire[n].link \in DOMAIN Links /\ s \in Streams
    BY <1>4, <2>2 DEF InLink, Streams
  <2>4. Earlier(s)
    BY <1>4, <2>3, Zenon DEF Earlier
  <2>5. Done(s) /\ Closed(s) /\ ~Blank(s)
    <3>1. Placed(s)
      BY <2>3, Placing DEF TypeInv, ControlInv
    <3>2. QED BY <2>4, <3>1, Zenon DEF Placed, Done, Closed, Blank
  <2>6. bos_emitted[s] /\ TracedIn(wire, s) /\ StreamInv(s)
    BY <2>3, <2>5, Zenon DEF LinksInv, OpenedInv, TracedInv, Opened, StreamsInv
  <2>7. Pages(s) # <<>>
    BY <2>6, Zenon DEF StreamInv, Numbered
  <2>8. QED BY <2>3, <2>5, <2>6, <2>7, EndedOnWire
<1>5. LinksApart'
  <2>1. \A i \in 2 .. n : ApartAt(wire, i)
    BY Zenon DEF LinksInv, LinksApart, ApartAt
  <2>2. n \in Nat /\ Len(w) = n + 1 /\ (\A i \in 1 .. n : w[i] = wire[i]) /\ w[n + 1] = p
    BY <1>1 DEF OneMore
  <2>3. \A i \in 1 .. n : wire[i].link <= link
    BY Zenon DEF LinksInv, WireInLinks
  <2> SUFFICES ASSUME NEW i \in 2 .. Len(w) PROVE ApartAt(w, i)
    BY Zenon DEF LinksApart, ApartAt
  <2> HIDE DEF w, n
  <2>4. CASE i \in 2 .. n
    <3>1. /\ i \in Nat /\ i > 1 /\ \A j \in 1 .. i : w[j] = wire[j]
      BY <2>2, <2>4
    <3>2. ApartAt(wire, i)
      BY <2>1, <2>4
    <3>3. QED BY <3>1, <3>2, ApartKept
  <2>5. CASE i = n + 1
    <3>1. /\ n >= 1 /\ i - 1 = n /\ w[n] = wire[n] /\ w[i] = p
          /\ \A j \in 1 .. n : w[j] = wire[j]
      BY <2>2, <2>5
    <3>2. wire[n].link <= link
      BY <2>2, <2>3, <3>1
    <3>3. ASSUME wire[n].link < link, NEW s \in ToSet(Links[wire[n].link])
          PROVE  \E k \in 1 .. n : w[k].stream = s /\ "eos" \in w[k].flags
      <4>1. PICK k \in 1 .. n : wire[k].stream = s /\ "eos" \in wire[k].flags
        BY <1>4, <3>1, <3>3 DEF n
      <4>2. w[k] = wire[k]
        BY <3>1
      <4>3. QED BY <4>1, <4>2
    <3>4. QED BY <3>1, <3>2, <3>3, Zenon DEF ApartAt
  <2>6. QED BY <2>2, <2>4, <2>5
<1>6. TracedInv'
  <2> SUFFICES ASSUME NEW s \in Streams PROVE TracedIn(wire', s)
    BY DEF TracedInv
  <2>1. TracedIn(wire, s) /\ wire \in Seq(PageSet)
    BY DEF LinksInv, TracedInv, TypeInv, DataInv, WireInv
  <2>2. TracedIn(Append(wire, p), s)
    BY <2>1, TracedOn
  <2>3. QED BY <2>2
<1>7. QED BY <1>3, <1>5, <1>6

-----------------------------------------------------------------------------
(* A stream is opened in its turn of the header section.                   *)

LEMMA OpenedOn ==
  ASSUME OpenedInv, NEW s \in Streams, StreamInv(s)',
         bos_emitted[s] => bos_emitted'[s],
         headers_remaining'[s] = headers_remaining[s] \/ bos_emitted'[s],
         Blank(s) => Blank(s)' \/ bos_emitted'[s]
  PROVE  Opened(s)'
<1>1. /\ Blank(s) => headers_remaining[s] = Need[s]
      /\ ~Blank(s) => bos_emitted[s]
  BY Zenon DEF OpenedInv, Opened
<1>2. Blank(s)' => ~bos_emitted'[s]
  BY Zenon DEF StreamInv, Unwritten, Numbered
<1>3. Blank(s)' => headers_remaining'[s] = Need[s]
  BY <1>1, <1>2
<1>4. ~Blank(s)' => bos_emitted'[s]
  BY <1>1
<1>5. QED BY <1>3, <1>4, Zenon DEF Opened

\* Steps in which no BOS page is due.
LEMMA BlankStays ==
  ASSUME UNCHANGED <<link, header_written>>, NEW s,
         \/ UNCHANGED <<stage, turn>> \/ ~header_written
         \/ stage \notin {"arm", "fishead"} \cup BosLoops
  PROVE  Blank(s) => Blank(s)'
<1>1. /\ Later(s)' = Later(s) /\ (s \in Current)' = (s \in Current)
  BY LinkKept
<1>2. CASE UNCHANGED <<stage, turn>>
  <2>1. Passed(s)' = Passed(s)
    BY <1>2, Zenon DEF Passed, Order
  <2>2. BosDue(s)' = BosDue(s)
    BY <1>2, <2>1, Zenon DEF BosDue
  <2>3. QED BY <1>1, <2>2, Zenon DEF Blank
<1>3. CASE ~header_written
  BY <1>1, <1>3, Zenon DEF Blank, BosDue
<1>4. CASE stage \notin {"arm", "fishead"} \cup BosLoops
  <2>1. BosDue(s) => ~header_written
    BY <1>4 DEF BosDue, BosLoops
  <2>2. BosDue(s) => BosDue(s)'
    BY <2>1, Zenon DEF BosDue
  <2>3. QED BY <1>1, <2>2, Zenon DEF Blank
<1>5. QED BY <1>2, <1>3, <1>4

\* Steps that neither open a stream nor take its turn from it.
LEMMA OpenedStays ==
  ASSUME OpenedInv, StreamsInv', UNCHANGED <<link, header_written, headers_remaining, bos_emitted>>,
         \/ UNCHANGED <<stage, turn>> \/ ~header_written
         \/ stage \notin {"arm", "fishead"} \cup BosLoops
  PROVE  OpenedInv'
<1> SUFFICES ASSUME NEW s \in Streams PROVE Opened(s)'
  BY DEF OpenedInv
<1>1. StreamInv(s)'
  BY Zenon DEF StreamsInv
<1>2. Blank(s) => Blank(s)'
  BY BlankStays
<1>3. QED BY <1>1, <1>2, OpenedOn

\* Steps after which every stream still without a BOS page is due one.
LEMMA OpenedDue ==
  ASSUME OpenedInv, StreamsInv', UNCHANGED <<headers_remaining, bos_emitted>>,
         \A s \in Streams : Blank(s) => Blank(s)'
  PROVE  OpenedInv'
<1> SUFFICES ASSUME NEW s \in Streams PROVE Opened(s)'
  BY DEF OpenedInv
<1>1. StreamInv(s)'
  BY Zenon DEF StreamsInv
<1>2. QED BY <1>1, OpenedOn

\* A turn of the BOS loops over: its stream is the only one that may be opened.
LEMMA BosTurnOver ==
  ASSUME TypeInv, ProtocolInv, stage \in BosLoops, step = "none", NextTurn,
         UNCHANGED <<link, header_written>>, NEW s \in Streams, Blank(s)
  PROVE  Blank(s)' \/ (s = Turn /\ InPass("theora_bos", "other_bos"))
<1>1. TurnOver /\ header_written = TRUE
  BY TurnPasses, UnderWay DEF TypeInv, BosLoops
<1>2. /\ Later(s)' = Later(s) /\ (s \in Current)' = (s \in Current)
  BY LinkKept
<1>3. /\ stage = "theora_bos" => After(stage) = "other_bos"
      /\ stage = "other_bos" => After(stage) = "theora_headers"
  BY DEF After
<1>4. ASSUME s \in Current, BosDue(s), ~BosDue(s)' PROVE s = Turn /\ InPass("theora_bos", "other_bos")
  <2>1. CASE stage = "theora_bos"
    <3>1. s \in Theora => ~Passed(s)
      BY <1>1, <1>4, <2>1 DEF BosDue
    <3>2. CASE stage' = stage /\ \A r : Passed(r)' <=> Passed(r) \/ r = Turn
      <4>1. s \in Theora /\ s = Turn
        BY <1>4, <2>1, <3>1, <3>2 DEF BosDue
      <4>2. QED BY <2>1, <4>1 DEF InPass, Inside
    <3>3. CASE stage' = After(stage) /\ (\A r : ~Passed(r)') /\ \A r \in Current : Passed(r) \/ r = Turn
      <4>1. stage' = "other_bos" /\ ~Passed(s)' /\ (Passed(s) \/ s = Turn)
        BY <1>3, <1>4, <2>1, <3>3
      <4>2. s \in Theora /\ s = Turn
        BY <1>4, <3>1, <4>1 DEF BosDue
      <4>3. QED BY <2>1, <4>2 DEF InPass, Inside
    <3>4. QED BY <1>1, <3>2, <3>3, Zenon DEF TurnOver
  <2>2. CASE stage = "other_bos"
    <3>1. s \notin Theora /\ ~Passed(s)
      BY <1>1, <1>4, <2>2 DEF BosDue
    <3>2. CASE stage' = stage /\ \A r : Passed(r)' <=> Passed(r) \/ r = Turn
      <4>1. s = Turn
        BY <1>4, <2>2, <3>1, <3>2 DEF BosDue
      <4>2. QED BY <2>2, <3>1, <4>1 DEF InPass, Inside
    <3>3. CASE stage' = After(stage) /\ (\A r : ~Passed(r)') /\ \A r \in Current : Passed(r) \/ r = Turn
      <4>1. s = Turn
        BY <1>4, <3>1, <3>3
      <4>2. QED BY <2>2, <3>1, <4>1 DEF InPass, Inside
    <3>4. QED BY <1>1, <3>2, <3>3, Zenon DEF TurnOver
  <2>3. QED BY <2>1, <2>2 DEF BosLoops
<1>5. QED BY <1>2, <1>4, Zenon DEF Blank

LEMMA WriteHeaderOpened ==
  ASSUME TypeInv, StreamsInv', OpenedInv, WriteHeader
  PROVE  OpenedInv'
<1>1. stage = "idle" /\ ~header_written /\ stage' \in {"fishead", "theora_bos"}
  BY DEF WriteHeader, Idle
<1>2. UNCHANGED <<turn, link, headers_remaining, bos_emitted>>
  BY Zenon DEF WriteHeader, writers
<1>3. \A s \in Streams : Blank(s) => Blank(s)'
  <2> SUFFICES ASSUME NEW s \in Streams, Blank(s) PROVE Blank(s)'
    OBVIOUS
  <2>1. ~Passed(s)
    BY <1>1, FirstTurn DEF TypeInv, Loops, BosLoops, HeaderLoops, ClosingLoops
  <2>2. Passed(s)' = Passed(s) /\ Later(s)' = Later(s) /\ (s \in Current)' = (s \in Current)
    BY <1>2, LinkKept, Zenon DEF Passed, Order
  <2>3. BosDue(s)'
    BY <1>1, <2>1, <2>2 DEF BosDue
  <2>4. QED BY <2>2, <2>3, Zenon DEF Blank
<1>4. QED BY <1>2, <1>3, OpenedDue

LEMMA ArmOpened ==
  ASSUME TypeInv, ProtocolInv, StreamsInv', OpenedInv, Arm
  PROVE  OpenedInv'
<1>1. stage = "arm" /\ NextTurn
  BY DEF Arm, Inside
<1>2. UNCHANGED <<link, header_written, headers_remaining, bos_emitted>>
  BY Zenon DEF Arm
<1>3. CASE ~header_written
  BY <1>2, <1>3, OpenedStays
<1>4. CASE header_written
  <2>1. TurnOver /\ link > 1
    BY <1>1, <1>2, <1>4, TurnPasses DEF TypeInv, ProtocolInv
  <2>2. After(stage) = "theora_bos"
    BY <1>1, <2>1 DEF After
  <2>3. \A s \in Streams : Blank(s) => Blank(s)'
    <3> SUFFICES ASSUME NEW s \in Streams, Blank(s) PROVE Blank(s)'
      OBVIOUS
    <3>1. BosDue(s)'
      BY <1>1, <2>1, <2>2 DEF TurnOver, BosDue
    <3>2. Later(s)' = Later(s) /\ (s \in Current)' = (s \in Current)
      BY <1>2, LinkKept
    <3>3. QED BY <3>1, <3>2, Zenon DEF Blank
  <2>4. QED BY <1>2, <2>3, OpenedDue
<1>5. QED BY <1>3, <1>4

LEMMA FisheadOpened ==
  ASSUME TypeInv, StreamsInv', OpenedInv, WriteSkeletonPage, stage = "fishead"
  PROVE  OpenedInv'
<1>1. stage' = "theora_bos" /\ turn' = turn
  BY DEF WriteSkeletonPage, Inside, NextStage, After
<1>2. UNCHANGED <<link, headers_remaining, bos_emitted>>
  BY Zenon DEF WriteSkeletonPage, writers, calls
<1>3. \A s \in Streams : Blank(s) => Blank(s)'
  <2> SUFFICES ASSUME NEW s \in Streams, Blank(s) PROVE Blank(s)'
    OBVIOUS
  <2>1. ~Passed(s)
    BY FirstTurn DEF TypeInv, Loops, BosLoops, HeaderLoops, ClosingLoops
  <2>2. Passed(s)' = Passed(s) /\ Later(s)' = Later(s) /\ (s \in Current)' = (s \in Current)
    BY <1>1, <1>2, LinkKept, Zenon DEF Passed, Order
  <2>3. BosDue(s)'
    BY <1>1, <2>1, <2>2 DEF BosDue
  <2>4. QED BY <2>2, <2>3, Zenon DEF Blank
<1>4. QED BY <1>2, <1>3, OpenedDue

LEMMA NextLinkOpened ==
  ASSUME TypeInv, StreamsInv', OpenedInv, NextLink, ProtocolInv
  PROVE  OpenedInv'
<1>1. stage = "link" /\ stage' = "arm" /\ link' = link + 1 /\ step = "none"
  BY DEF NextLink, Inside, NextStage, After
<1>2. UNCHANGED <<header_written, headers_remaining, bos_emitted>>
  BY Zenon DEF NextLink, writers
<1>3. header_written = TRUE
  BY <1>1, UnderWay DEF TypeInv
<1>4. \A s \in Streams : Blank(s) => Blank(s)'
  <2> SUFFICES ASSUME NEW s \in Streams, Blank(s) PROVE Blank(s)'
    OBVIOUS
  <2>1. ~BosDue(s)
    BY <1>1, <1>3 DEF BosDue
  <2>2. PICK k \in DOMAIN Links : k > link /\ s \in ToSet(Links[k])
    BY <2>1, Zenon DEF Blank, Later
  <2>3. k \in Nat /\ link \in Nat
    BY MuxAssumption DEF TypeInv, ControlInv
  <2>4. CASE k > link'
    BY <2>2, <2>4, Zenon DEF Blank, Later
  <2>5. CASE k = link'
    <3>1. (s \in Current)'
      BY <2>2, <2>5 DEF Current, Order
    <3>2. BosDue(s)'
      BY <1>1 DEF BosDue
    <3>3. QED BY <3>1, <3>2, Zenon DEF Blank
  <2>6. QED BY <1>1, <2>2, <2>3, <2>4, <2>5
<1>5. QED BY <1>2, <1>4, OpenedDue

LEMMA WriteBosOpened ==
  ASSUME TypeInv, ProtocolInv, StreamsInv', OpenedInv, WriteBos
  PROVE  OpenedInv'
<1>1. stage \in BosLoops /\ step = "none" /\ NextTurn
  BY DEF WriteBos, BosTurn, InPass, Inside, BosLoops
<1>2. UNCHANGED <<link, header_written>>
  BY Zenon DEF WriteBos, calls
<1> SUFFICES ASSUME NEW t \in Streams, t = Turn PROVE OpenedInv'
  BY TurnType DEF TypeInv
<1>3. /\ bos_emitted' = [bos_emitted EXCEPT ![t] = TRUE]
      /\ headers_remaining' = [headers_remaining EXCEPT ![t] = @ - 1]
  BY DEF WriteBos
<1> SUFFICES ASSUME NEW s \in Streams PROVE Opened(s)'
  BY DEF OpenedInv
<1>4. StreamInv(s)'
  BY Zenon DEF StreamsInv
<1>5. bos_emitted \in [Streams -> BOOLEAN] /\ headers_remaining \in [Streams -> Nat]
  BY DEF TypeInv, DataInv, BosInv, HeadersInv
<1>6. Blank(s) => Blank(s)' \/ s = t
  BY <1>1, <1>2, BosTurnOver
<1>7. /\ bos_emitted[s] => bos_emitted'[s]
      /\ s = t => bos_emitted'[s] = TRUE
      /\ s # t => headers_remaining'[s] = headers_remaining[s]
  BY <1>3, <1>5
<1>8. QED BY <1>4, <1>6, <1>7, OpenedOn

LEMMA PassTurnOpened ==
  ASSUME Headed, TypeInv, ProtocolInv, StreamsInv', OpenedInv, PassTurn
  PROVE  OpenedInv'
<1>1. stage \in BosLoops \cup HeaderLoops /\ step = "none" /\ NextTurn /\ ~BosTurn
  BY DEF PassTurn, Inside, BosLoops, HeaderLoops
<1>2. UNCHANGED <<link, header_written, headers_remaining, bos_emitted>>
  BY Zenon DEF PassTurn, writers, calls
<1>3. CASE stage \in HeaderLoops
  <2>1. stage \notin {"arm", "fishead"} \cup BosLoops
    BY <1>3 DEF BosLoops, HeaderLoops
  <2>2. QED BY <1>2, <2>1, OpenedStays
<1>4. CASE stage \in BosLoops
  <2>1. \A s \in Streams : Blank(s) => Blank(s)'
    <3> SUFFICES ASSUME NEW s \in Streams, Blank(s), ~Blank(s)' PROVE FALSE
      OBVIOUS
    <3>1. s = Turn /\ InPass("theora_bos", "other_bos")
      BY <1>1, <1>2, <1>4, BosTurnOver
    <3>2. headers_remaining[s] = Need[s] /\ Headers[s] > 0
      BY Zenon DEF OpenedInv, Opened, Headed
    <3>3. headers_remaining[s] > 0
      BY <3>2, MuxAssumption
    <3>4. QED BY <1>1, <3>1, <3>2, <3>3, Zenon DEF BosTurn
  <2>2. QED BY <1>2, <2>1, OpenedDue
<1>5. QED BY <1>1, <1>3, <1>4

LEMMA StampHeaderOpened ==
  ASSUME TypeInv, ProtocolInv, StreamsInv', OpenedInv, StampHeader
  PROVE  OpenedInv'
<1>1. step = "stamp"
  BY DEF StampHeader, Doing
<1> SUFFICES ASSUME NEW t \in Streams, t = writing.s PROVE OpenedInv'
  BY <1>1, AtWork
<1>2. UNCHANGED <<stage, turn, link, header_written, bos_emitted>>
  BY Zenon DEF StampHeader, GoTo, calls
<1>3. headers_remaining' = [headers_remaining EXCEPT ![t] = @ - 1]
  BY DEF StampHeader
<1>4. ~Blank(t) /\ bos_emitted[t]
  <2>1. ~Blank(t)
    BY <1>1, AtWorkOn
  <2>2. QED BY <2>1, Zenon DEF OpenedInv, Opened
<1> SUFFICES ASSUME NEW s \in Streams PROVE Opened(s)'
  BY DEF OpenedInv
<1>5. StreamInv(s)'
  BY Zenon DEF StreamsInv
<1>6. Blank(s) => Blank(s)'
  BY <1>2, BlankStays
<1>7. headers_remaining'[s] = headers_remaining[s] \/ bos_emitted'[s]
  BY <1>2, <1>3, <1>4 DEF TypeInv, DataInv, HeadersInv
<1>8. QED BY <1>2, <1>5, <1>6, <1>7, OpenedOn

LEMMA FlushPageOpened ==
  ASSUME TypeInv, StreamsInv', OpenedInv, FlushPage
  PROVE  OpenedInv'
<1> SUFFICES ASSUME NEW t \in Streams, t = writing.s PROVE OpenedInv'
  BY AtWork DEF FlushPage, Doing
<1>1. UNCHANGED <<stage, turn, link, header_written, headers_remaining>>
  BY Zenon DEF FlushPage, GoTo, calls
<1>2. bos_emitted' = [bos_emitted EXCEPT ![t] = TRUE]
  BY DEF FlushPage
<1> SUFFICES ASSUME NEW s \in Streams PROVE Opened(s)'
  BY DEF OpenedInv
<1>3. StreamInv(s)'
  BY Zenon DEF StreamsInv
<1>4. Blank(s) => Blank(s)'
  BY <1>1, BlankStays
<1>5. bos_emitted[s] => bos_emitted'[s]
  BY <1>2 DEF TypeInv, DataInv, BosInv
<1>6. QED BY <1>1, <1>3, <1>4, <1>5, OpenedOn

-----------------------------------------------------------------------------
(* The pages queued and those on the wire.                                 *)

\* No page is made or moved.
LEMMA WireSame ==
  ASSUME LinksInv, UNCHANGED wire
  PROVE  LinksApart' /\ TracedInv' /\ (UNCHANGED link => WireInLinks')
<1>1. WireInLinks /\ LinksApart /\ TracedInv
  BY DEF LinksInv
<1>2. LinksApart'
  <2>1. \A i \in 2 .. Len(wire) : ApartAt(wire, i)
    BY <1>1, Zenon DEF LinksApart, ApartAt
  <2>2. \A i \in 2 .. Len(wire') : ApartAt(wire', i)
    BY <2>1
  <2>3. QED BY <2>2, Zenon DEF LinksApart, ApartAt
<1>3. TracedInv'
  BY <1>1, Zenon DEF TracedInv
<1>4. UNCHANGED link => WireInLinks'
  BY <1>1, Zenon DEF WireInLinks
<1>5. QED BY <1>2, <1>3, <1>4

LEMMA WireStays ==
  ASSUME LinksInv, UNCHANGED <<wire, queue, link>>
  PROVE  WireInLinks' /\ LinksApart' /\ QueuedHere' /\ TracedInv'
<1>1. WireInLinks' /\ LinksApart' /\ TracedInv'
  BY WireSame
<1>2. QueuedHere'
  BY Zenon DEF LinksInv, QueuedHere
<1>3. QED BY <1>1, <1>2

LEMMA WriteBosWire ==
  ASSUME TypeInv, StreamsInv, LinksInv, WriteBos
  PROVE  WireInLinks' /\ LinksApart' /\ QueuedHere' /\ TracedInv'
<1> SUFFICES ASSUME NEW t \in Streams, t = Turn, t \in Current
             PROVE  WireInLinks' /\ LinksApart' /\ QueuedHere' /\ TracedInv'
  BY TurnType DEF TypeInv
<1> DEFINE p == Page(t, {"bos"}, 0, <<Lace(1, 1, 1)>>, 0)
<1>1. wire' = Append(wire, p) /\ UNCHANGED <<queue, link>>
  BY DEF WriteBos, calls
<1>2. p \in PageSet
  <2>1. <<Lace(1, 1, 1)>> \in SegsSet
    <3>1. Lace(1, 1, 1) \in LaceSet
      BY DEF Lace, LaceSet
    <3>2. <<Lace(1, 1, 1)>> \in Seq(LaceSet) /\ Len(<<Lace(1, 1, 1)>>) = 1
      BY <3>1
    <3>3. QED BY <3>2, MuxAssumption DEF SegsSet
  <2>2. {"bos"} \in PageFlags /\ 0 \in Granules
    BY DEF PageFlags, Granules
  <2>3. QED BY <2>1, <2>2, PageType DEF TypeInv, DataInv
<1>3. p.stream = t /\ p.link = link
  BY DEF Page
<1> HIDE DEF p
<1>4. InLink(p)
  BY <1>3 DEF InLink, Current, Order, TypeInv, ControlInv
<1>5. WireInLinks' /\ LinksApart' /\ TracedInv'
  BY <1>1, <1>2, <1>3, <1>4, PageOut
<1>6. QueuedHere'
  BY <1>1, Zenon DEF LinksInv, QueuedHere
<1>7. QED BY <1>5, <1>6

LEMMA WriteSkeletonPageWire ==
  ASSUME TypeInv, StreamsInv, LinksInv, WriteSkeletonPage
  PROVE  WireInLinks' /\ LinksApart' /\ QueuedHere' /\ TracedInv'
<1>1. PICK flags \in PageFlags : wire' = Append(wire, SkeletonPage(flags))
  BY DEF WriteSkeletonPage, PageFlags
<1>2. UNCHANGED <<queue, link>>
  BY Zenon DEF WriteSkeletonPage, writers, calls
<1>3. SkeletonPage(flags) \in PageSet
  BY SkeletonPageType DEF TypeInv, DataInv
<1>4. SkeletonPage(flags).stream = "skeleton" /\ SkeletonPage(flags).link = link
  BY DEF SkeletonPage
<1>5. InLink(SkeletonPage(flags))
  BY <1>4 DEF InLink, TypeInv, ControlInv
<1>6. WireInLinks' /\ LinksApart' /\ TracedInv'
  BY <1>1, <1>2, <1>3, <1>4, <1>5, PageOut
<1>7. QueuedHere'
  BY <1>2, Zenon DEF LinksInv, QueuedHere
<1>8. QED BY <1>6, <1>7

\* The oldest queued page of t let out.
LEMMA LetOutWire ==
  ASSUME TypeInv, StreamsInv, LinksInv, NEW t \in Current, queue[t] # <<>>, WritePending(t),
         UNCHANGED link
  PROVE  WireInLinks' /\ LinksApart' /\ QueuedHere' /\ TracedInv'
<1>1. t \in Streams
  BY OrderFacts DEF TypeInv, ControlInv
<1> DEFINE p == Head(queue[t]).page
<1>2. wire' = Append(wire, p) /\ queue' = [queue EXCEPT ![t] = Tail(@)]
  BY DEF WritePending
<1>3. queue \in [Streams -> Seq(ItemSet)] /\ WireInv /\ QueuesInv
  BY DEF TypeInv, DataInv, QueuesInv
<1>4. /\ queue[t] \in Seq(ItemSet) /\ 1 \in 1 .. Len(queue[t]) /\ p = queue[t][1].page
      /\ p \in PageSet
  <2>1. queue[t] \in Seq(ItemSet) /\ Head(queue[t]) \in ItemSet /\ Head(queue[t]) = queue[t][1]
        /\ Len(queue[t]) \in Nat \ {0}
    BY <1>1, <1>3
  <2>2. QED BY <2>1 DEF ItemSet
<1>5. p.stream = t
  <2>1. PICK j \in 1 .. Len(Pages(t)) : Pages(t)[j] = queue[t][1].page
    BY <1>1, <1>3, <1>4, QueuedPage
  <2>2. Numbered(t)
    BY <1>1 DEF StreamsInv, StreamInv
  <2>3. QED BY <1>4, <2>1, <2>2 DEF Numbered
<1>6. p.link = link
  BY <1>1, <1>4 DEF LinksInv, QueuedHere
<1>7. InLink(p)
  BY <1>5, <1>6 DEF InLink, Current, Order, TypeInv, ControlInv
<1> HIDE DEF p
<1>8. WireInLinks' /\ LinksApart' /\ TracedInv'
  BY <1>2, <1>4, <1>6, <1>7, PageOut
<1>9. QueuedHere'
  <2> SUFFICES ASSUME NEW s \in Streams, NEW i \in 1 .. Len(queue'[s])
               PROVE  queue'[s][i].page.link = link /\ "bos" \notin queue'[s][i].page.flags
    BY Zenon DEF QueuedHere
  <2>1. \A j \in 1 .. Len(queue[s]) : queue[s][j].page.link = link /\ "bos" \notin queue[s][j].page.flags
    BY Zenon DEF LinksInv, QueuedHere
  <2>2. CASE s # t
    <3>1. queue'[s] = queue[s]
      BY <1>2, <1>3, <2>2
    <3>2. QED BY <2>1, <3>1
  <2>3. CASE s = t
    <3> DEFINE q == queue[t]
               r == queue'[t]
    <3>1. q \in Seq(ItemSet) /\ q # <<>> /\ r = Tail(q)
      BY <1>1, <1>2, <1>3, <1>4
    <3> HIDE DEF q, r
    <3>2. Len(r) = Len(q) - 1 /\ Len(q) \in Nat /\ \A j \in 1 .. Len(r) : r[j] = q[j + 1]
      BY <3>1, HeadTailProperties
    <3>3. i \in 1 .. Len(r)
      BY <2>3 DEF r
    <3>4. i + 1 \in 1 .. Len(q) /\ r[i] = q[i + 1]
      BY <3>2, <3>3
    <3>5. q[i + 1].page.link = link /\ "bos" \notin q[i + 1].page.flags
      BY <2>1, <2>3, <3>4 DEF q
    <3>6. QED BY <2>3, <3>4, <3>5 DEF r
  <2>4. QED BY <2>2, <2>3
<1>10. QED BY <1>8, <1>9

LEMMA ReleasePageWire ==
  ASSUME TypeInv, StreamsInv, LinksInv, ReleasePage
  PROVE  WireInLinks' /\ LinksApart' /\ QueuedHere' /\ TracedInv'
<1>1. Order[Earliest(1)] \in Current /\ queue[Order[Earliest(1)]] # <<>>
  BY EarliestStream DEF ReleasePage, Releasable, TypeInv, DataInv
<1>2. WritePending(Order[Earliest(1)]) /\ UNCHANGED link
  BY Zenon DEF ReleasePage, calls
<1>3. QED BY <1>1, <1>2, LetOutWire

LEMMA DrainPageWire ==
  ASSUME TypeInv, StreamsInv, LinksInv, DrainPage
  PROVE  WireInLinks' /\ LinksApart' /\ QueuedHere' /\ TracedInv'
<1>1. Order[Earliest(0)] \in Current /\ queue[Order[Earliest(0)]] # <<>>
  BY EarliestStream DEF DrainPage, TypeInv, DataInv
<1>2. WritePending(Order[Earliest(0)]) /\ UNCHANGED link
  BY Zenon DEF DrainPage, calls
<1>3. QED BY <1>1, <1>2, LetOutWire

\* A page at the end of a queue.
LEMMA QueuedOn ==
  ASSUME TypeInv, LinksInv, NEW t \in Streams, NEW item \in ItemSet, item.page.link = link,
         "bos" \notin item.page.flags, queue' = [queue EXCEPT ![t] = Append(@, item)],
         UNCHANGED <<wire, link>>
  PROVE  WireInLinks' /\ LinksApart' /\ QueuedHere' /\ TracedInv'
<1>1. WireInLinks' /\ LinksApart' /\ TracedInv'
  BY WireSame
<1>2. queue \in [Streams -> Seq(ItemSet)]
  BY DEF TypeInv, DataInv, QueuesInv
<1>3. QueuedHere'
  <2> SUFFICES ASSUME NEW s \in Streams, NEW i \in 1 .. Len(queue'[s])
               PROVE  queue'[s][i].page.link = link /\ "bos" \notin queue'[s][i].page.flags
    BY Zenon DEF QueuedHere
  <2>1. \A j \in 1 .. Len(queue[s]) : queue[s][j].page.link = link /\ "bos" \notin queue[s][j].page.flags
    BY Zenon DEF LinksInv, QueuedHere
  <2>2. CASE s # t
    <3>1. queue'[s] = queue[s]
      BY <1>2, <2>2
    <3>2. QED BY <2>1, <3>1
  <2>3. CASE s = t
    <3>1. queue'[s] = Append(queue[s], item) /\ queue[s] \in Seq(ItemSet)
      BY <1>2, <2>3
    <3>2. (i \in 1 .. Len(queue[s]) /\ queue'[s][i] = queue[s][i]) \/ queue'[s][i] = item
      BY <3>1
    <3>3. QED BY <2>1, <3>2
  <2>4. QED BY <2>2, <2>3
<1>4. QED BY <1>1, <1>3

LEMMA FlushPageWire ==
  ASSUME TypeInv, ProtocolInv, LinksInv, FlushPage
  PROVE  WireInLinks' /\ LinksApart' /\ QueuedHere' /\ TracedInv'
<1> SUFFICES ASSUME NEW t \in Streams, t = writing.s
             PROVE  WireInLinks' /\ LinksApart' /\ QueuedHere' /\ TracedInv'
  BY AtWork DEF FlushPage, Doing
<1> DEFINE b     == buffered[t]
           c     == PageTime(t, b.granule)
           time  == IF c > newest_time[t] THEN c ELSE newest_time[t]
           flags == (IF b.cont THEN {"cont"} ELSE {}) \cup (IF bos_emitted[t] THEN {} ELSE {"bos"})
           p     == Page(t, flags, b.granule, b.segs, time)
           item  == [page |-> p, kf |-> b.kf]
<1>1. step = "flush"
  BY DEF FlushPage, Doing
<1>2. queue' = [queue EXCEPT ![t] = Append(@, item)] /\ UNCHANGED <<wire, link>>
  BY DEF FlushPage, calls
<1>3. /\ b \in BuilderSet /\ newest_time[t] \in Nat
      /\ b.granule \in Granules /\ b.kf \in Granules /\ b.segs \in SegsSet
  BY <1>1, AtWork DEF TypeInv, WritingInv, DataInv, ClocksInv, BuilderSet
<1>4. item \in ItemSet
  <2>1. time \in Nat
    BY <1>3, PageTimeType
  <2>2. flags \in PageFlags
    BY DEF PageFlags
  <2> HIDE DEF time, flags
  <2>3. p \in PageSet
    BY <1>3, <2>1, <2>2, PageType DEF TypeInv, DataInv
  <2>4. QED BY <1>3, <2>3 DEF ItemSet
<1>5. bos_emitted[t]
  BY <1>1, AtWorkOn, Zenon DEF LinksInv, OpenedInv, Opened
<1>6. item.page.link = link /\ "bos" \notin item.page.flags
  BY <1>5 DEF Page
<1> HIDE DEF item
<1>7. QED BY <1>2, <1>4, <1>6, QueuedOn

LEMMA CloseStreamWire ==
  ASSUME TypeInv, LinksInv, CloseStream
  PROVE  WireInLinks' /\ LinksApart' /\ QueuedHere' /\ TracedInv'
<1> SUFFICES ASSUME NEW t \in Streams, t = Turn
             PROVE  WireInLinks' /\ LinksApart' /\ QueuedHere' /\ TracedInv'
  BY TurnType DEF TypeInv
<1>1. UNCHANGED <<wire, link>>
  BY Zenon DEF CloseStream, calls
<1>2. queue \in [Streams -> Seq(ItemSet)] /\ queue[t] \in Seq(ItemSet)
  BY DEF TypeInv, DataInv, QueuesInv
<1> DEFINE n == Len(queue[t])
<1>3. CASE n > 0 /\ queue' = [queue EXCEPT ![t][n].page.flags = @ \cup {"eos"}]
  <2>1. WireInLinks' /\ LinksApart' /\ TracedInv'
    BY <1>1, WireSame
  <2>2. QueuedHere'
    <3> SUFFICES ASSUME NEW s \in Streams, NEW i \in 1 .. Len(queue'[s])
                 PROVE  queue'[s][i].page.link = link /\ "bos" \notin queue'[s][i].page.flags
      BY <1>1, Zenon DEF QueuedHere
    <3>1. \A j \in 1 .. Len(queue[s]) : queue[s][j].page.link = link /\ "bos" \notin queue[s][j].page.flags
      BY Zenon DEF LinksInv, QueuedHere
    <3>2. CASE s # t
      <4>1. queue'[s] = queue[s]
        BY <1>2, <1>3, <3>2
      <4>2. QED BY <3>1, <4>1
    <3>3. CASE s = t
      <4> DEFINE old == queue[t][n].page
                 p == [old EXCEPT !.flags = @ \cup {"eos"}]
                 item == [queue[t][n] EXCEPT !.page = p]
      <4>1. n \in 1 .. n /\ queue[t][n] \in ItemSet
        BY <1>2, <1>3
      <4>2. old \in PageSet
        BY <4>1 DEF ItemSet
      <4>3. p.link = old.link /\ p.flags = old.flags \cup {"eos"}
        BY <4>2 DEF PageSet, PageFlags
      <4>4. item.page = p
        BY <4>1 DEF ItemSet
      <4>5. queue'[t] = [queue[t] EXCEPT ![n] = item]
        BY <1>2, <1>3
      <4> HIDE DEF item, p
      <4>6. i \in 1 .. n /\ (queue'[t][i] = item \/ queue'[t][i] = queue[t][i])
        BY <1>2, <3>3, <4>1, <4>5
      <4>7. old.link = link /\ "bos" \notin old.flags
        BY <3>1, <3>3, <4>1
      <4>8. QED BY <3>1, <3>3, <4>3, <4>4, <4>6, <4>7
    <3>4. QED BY <3>2, <3>3
  <2>3. QED BY <2>1, <2>2
<1>4. CASE n = 0 /\ queue' = [queue EXCEPT ![t] = <<[kf |-> NoPts, page |->
                             Page(t, {"eos"}, last_granule[t], <<>>, newest_time[t])]>>]
  <2> DEFINE p == Page(t, {"eos"}, last_granule[t], <<>>, newest_time[t])
             item == [kf |-> NoPts, page |-> p]
  <2>1. p \in PageSet
    <3>1. {"eos"} \in PageFlags /\ <<>> \in SegsSet /\ last_granule[t] \in Granules
          /\ newest_time[t] \in Nat
      BY MuxAssumption DEF PageFlags, SegsSet, Granules, TypeInv, DataInv, ClocksInv
    <3>2. QED BY <3>1, PageType DEF TypeInv, DataInv
  <2>2. item \in ItemSet /\ item.page.link = link /\ "bos" \notin item.page.flags
    BY <2>1 DEF ItemSet, Granules, Page
  <2>3. queue' = [queue EXCEPT ![t] = <<item>>]
    BY <1>4
  <2> HIDE DEF item
  <2>4. queue[t] = <<>>
    BY <1>2, <1>4
  <2>5. Append(<<>>, item) = <<item>>
    OBVIOUS
  <2>6. queue' = [queue EXCEPT ![t] = Append(@, item)]
    BY <1>2, <2>3, <2>4, <2>5
  <2>7. QED BY <1>1, <2>2, <2>6, QueuedOn
<1>5. CASE queue' = queue
  BY <1>1, <1>5, WireStays
<1>6. QED
  <2>1. \/ n > 0 /\ queue' = [queue EXCEPT ![t][n].page.flags = @ \cup {"eos"}]
        \/ n = 0 /\ queue' = [queue EXCEPT ![t] = <<[kf |-> NoPts, page |->
                             Page(t, {"eos"}, last_granule[t], <<>>, newest_time[t])]>>]
        \/ queue' = queue
    BY DEF CloseStream
  <2>2. QED BY <1>3, <1>4, <1>5, <2>1

\* A link is closed with nothing left in a queue.
LEMMA NextLinkWire ==
  ASSUME TypeInv, StreamsInv, LinksInv, NextLink
  PROVE  WireInLinks' /\ LinksApart' /\ QueuedHere' /\ TracedInv'
<1>1. stage = "link" /\ link' = link + 1 /\ UNCHANGED <<wire, queue>>
  BY DEF NextLink, Inside, writers
<1>2. LinksApart' /\ TracedInv'
  BY <1>1, WireSame
<1>3. WireInLinks'
  <2>1. \A i \in 1 .. Len(wire) : InLink(wire[i]) /\ wire[i].link <= link
    BY Zenon DEF LinksInv, WireInLinks
  <2>2. wire \in Seq(PageSet) /\ link \in Nat
    BY MuxAssumption DEF TypeInv, ControlInv, DataInv, WireInv
  <2>3. \A i \in 1 .. Len(wire) : wire[i].link \in Nat
    <3>1. \A p \in PageSet : p.link \in Nat
      BY DEF PageSet
    <3>2. \A i \in 1 .. Len(wire) : wire[i] \in PageSet
      BY <2>2
    <3>3. QED BY <3>1, <3>2
  <2>4. \A i \in 1 .. Len(wire) : InLink(wire[i]) /\ wire[i].link <= link'
    BY <1>1, <2>1, <2>2, <2>3
  <2>5. QED BY <1>1, <2>4, Zenon DEF WireInLinks
<1>4. QueuedHere'
  <2> SUFFICES ASSUME NEW s \in Streams PROVE queue[s] = <<>>
    <3>1. \A s \in Streams : 1 .. Len(queue'[s]) = {}
      BY <1>1
    <3>2. QED BY <3>1, Zenon DEF QueuedHere
  <2>1. Placed(s) /\ StreamInv(s)
    BY Placing DEF TypeInv, ControlInv, StreamsInv
  <2>2. CASE Later(s)
    <3>1. Pages(s) = <<>>
      BY <2>1, <2>2, Zenon DEF StreamInv, Unwritten, Blank
    <3>2. QED BY <3>1, EmptyPages DEF TypeInv, DataInv
  <2>3. CASE ~Later(s)
    <3>1. Closed(s)
      BY <1>1, <2>1, <2>3 DEF Placed, Closed
    <3>2. QED BY <2>1, <3>1, Zenon DEF StreamInv, Ending
  <2>4. QED BY <2>2, <2>3
<1>5. QED BY <1>2, <1>3, <1>4

-----------------------------------------------------------------------------
(* The invariant of the links holds.                                       *)

LEMMA InitLinks == Init => LinksInv
<1> SUFFICES ASSUME Init PROVE LinksInv
  OBVIOUS
<1>1. /\ wire = <<>> /\ stage = "arm" /\ link = 1 /\ ~header_written
      /\ \A s \in Streams : queue[s] = <<>> /\ headers_remaining[s] = Need[s]
  BY DEF Init
<1>2. 1 .. Len(wire) = {} /\ 2 .. Len(wire) = {}
  BY <1>1
<1>3. \A s \in Streams : 1 .. Len(queue[s]) = {}
  BY <1>1
<1>4. WireInLinks /\ LinksApart /\ QueuedHere
  BY <1>2, <1>3, Zenon DEF WireInLinks, LinksApart, QueuedHere
<1>5. OpenedInv
  <2> SUFFICES ASSUME NEW s \in Streams PROVE Opened(s)
    BY DEF OpenedInv
  <2>1. Placed(s)
    BY InitType, Placing DEF TypeInv, ControlInv
  <2>2. ~Earlier(s)
    <3>1. \A k \in DOMAIN Links : ~(k < link)
      BY <1>1, MuxAssumption
    <3>2. QED BY <3>1, Zenon DEF Earlier
  <2>3. BosDue(s)
    BY <1>1, Zenon DEF BosDue
  <2>4. QED BY <1>1, <2>1, <2>2, <2>3, Zenon DEF Placed, Blank, Opened
<1>6. TracedInv
  <2> SUFFICES ASSUME NEW s \in Streams PROVE TracedIn(wire, s)
    BY DEF TracedInv
  <2>1. Filtered(wire, s) = <<>>
    <3> DEFINE parts == [i \in DOMAIN wire |-> IF wire[i].stream = s THEN <<wire[i]>> ELSE <<>>]
    <3>1. parts = <<>>
      BY <1>1
    <3>2. Len(<<>>) = 0
      OBVIOUS
    <3>3. FlattenSeq(<<>>) = <<>>
      BY <3>2, Zenon DEF FlattenSeq
    <3>4. QED BY <3>1, <3>3, Zenon DEF Filtered
  <2>2. 1 .. Len(Filtered(wire, s)) = {}
    BY <2>1
  <2>3. QED BY <1>2, <2>2, Zenon DEF TracedIn
<1>7. QED BY <1>4, <1>5, <1>6 DEF LinksInv

LEMMA StepLinks ==
  ASSUME Protocol, Headed, TypeInv, PagesInv, LinksInv, [Next]_vars
  PROVE  LinksInv'
<1>1. ProtocolInv /\ StreamsInv /\ OpenedInv
  BY Zenon DEF PagesInv, StreamsInv, LinksInv
<1>2. StreamsInv'
  BY StepPages, Zenon DEF PagesInv, StreamsInv
<1> DEFINE WireKept == WireInLinks' /\ LinksApart' /\ QueuedHere' /\ TracedInv'
<1> SUFFICES OpenedInv' /\ WireKept
  BY Zenon DEF LinksInv
<1>3. CASE WriteHeader
  <2>1. UNCHANGED <<wire, queue, link>>
    BY <1>3, Zenon DEF WriteHeader, writers
  <2>2. QED BY <1>1, <1>2, <1>3, <2>1, WireStays, WriteHeaderOpened
<1>4. CASE BeginNewLink \/ WriteTrailer
  <2>1. UNCHANGED <<wire, queue, link, header_written, headers_remaining, bos_emitted>>
    BY <1>4, Zenon DEF BeginNewLink, WriteTrailer, writers, calls
  <2>2. stage \notin {"arm", "fishead"} \cup BosLoops
    BY <1>4 DEF BeginNewLink, WriteTrailer, Idle, BosLoops
  <2>3. QED BY <1>1, <1>2, <2>1, <2>2, WireStays, OpenedStays
<1>5. CASE \E t \in Targets \cup {NoTarget} : SetPageTarget(t)
  <2>1. UNCHANGED <<wire, queue, link, header_written, headers_remaining, bos_emitted, stage, turn>>
    BY <1>5, Zenon DEF SetPageTarget, writers, control
  <2>2. QED BY <1>1, <1>2, <2>1, WireStays, OpenedStays
<1>6. CASE \E s \in Streams : \E p \in Packets[s] : WritePacket(s, p)
  <2>1. UNCHANGED <<wire, queue, link, header_written, headers_remaining, bos_emitted, stage, turn>>
    BY <1>6, Zenon DEF WritePacket, writers, calls
  <2>2. QED BY <1>1, <1>2, <2>1, WireStays, OpenedStays
<1>7. CASE Arm
  <2>1. UNCHANGED <<wire, queue, link>>
    BY <1>7, Zenon DEF Arm
  <2>2. QED BY <1>1, <1>2, <1>7, <2>1, WireStays, ArmOpened
<1>8. CASE ArmSkeleton
  <2>1. UNCHANGED <<wire, queue, link, header_written, headers_remaining, bos_emitted>>
    BY <1>8, Zenon DEF ArmSkeleton, writers
  <2>2. stage \notin {"arm", "fishead"} \cup BosLoops
    BY <1>8 DEF ArmSkeleton, Inside, BosLoops
  <2>3. QED BY <1>1, <1>2, <2>1, <2>2, WireStays, OpenedStays
<1>9. CASE NextLink
  BY <1>1, <1>2, <1>9, NextLinkWire, NextLinkOpened
<1>10. CASE WriteBos
  BY <1>1, <1>2, <1>10, WriteBosWire, WriteBosOpened
<1>11. CASE WriteSecondary
  <2>1. UNCHANGED <<wire, queue, link, header_written, headers_remaining, bos_emitted, stage, turn>>
    BY <1>11, Zenon DEF WriteSecondary, writers, calls
  <2>2. QED BY <1>1, <1>2, <2>1, WireStays, OpenedStays
<1>12. CASE PassTurn
  <2>1. UNCHANGED <<wire, queue, link>>
    BY <1>12, Zenon DEF PassTurn, writers, calls
  <2>2. QED BY <1>1, <1>2, <1>12, <2>1, WireStays, PassTurnOpened
<1>13. CASE WriteSkeletonPage
  <2>1. CASE stage = "fishead"
    BY <1>1, <1>2, <1>13, <2>1, WriteSkeletonPageWire, FisheadOpened
  <2>2. CASE stage # "fishead"
    <3>1. UNCHANGED <<link, header_written, headers_remaining, bos_emitted>>
      BY <1>13, Zenon DEF WriteSkeletonPage, writers, calls
    <3>2. stage \notin {"arm", "fishead"} \cup BosLoops
      BY <1>13, <2>2 DEF WriteSkeletonPage, Inside, BosLoops
    <3>3. QED BY <1>1, <1>2, <1>13, <3>1, <3>2, WriteSkeletonPageWire, OpenedStays
  <2>3. QED BY <2>1, <2>2
<1>14. CASE BeginPacket \/ PutLaces \/ ReleaseDone \/ CloseFlush
  <2>1. UNCHANGED <<wire, queue, link, header_written, headers_remaining, bos_emitted, stage, turn>>
    BY <1>14, Zenon DEF BeginPacket, PutLaces, ReleaseDone, CloseFlush, GoTo, writers, calls
  <2>2. QED BY <1>1, <1>2, <2>1, WireStays, OpenedStays
<1>15. CASE StampHeader
  <2>1. UNCHANGED <<wire, queue, link>>
    BY <1>15, Zenon DEF StampHeader, calls
  <2>2. QED BY <1>1, <1>2, <1>15, <2>1, WireStays, StampHeaderOpened
<1>16. CASE StampContent \/ StampTheora
  <2>1. UNCHANGED <<wire, queue, link, header_written, headers_remaining, bos_emitted>>
    BY <1>16, Zenon DEF StampContent, StampTheora
  <2>2. stage \notin {"arm", "fishead"} \cup BosLoops
    <3>1. step = "stamp"
      BY <1>16, Zenon DEF StampContent, StampTheora, Doing
    <3>2. stage \in {"idle"} \cup HeaderLoops \cup ClosingLoops
      BY <3>1 DEF TypeInv, CallInv
    <3>3. QED BY <3>2 DEF HeaderLoops, ClosingLoops, BosLoops
  <2>3. QED BY <1>1, <1>2, <2>1, <2>2, WireStays, OpenedStays
<1>17. CASE FlushPage
  BY <1>1, <1>2, <1>17, FlushPageWire, FlushPageOpened
<1>18. CASE ReleasePage \/ DrainPage
  <2>1. UNCHANGED <<link, header_written, headers_remaining, bos_emitted, stage, turn>>
    BY <1>18, Zenon DEF ReleasePage, DrainPage, control, calls
  <2>2. QED BY <1>1, <1>2, <1>18, <2>1, ReleasePageWire, DrainPageWire, OpenedStays
<1>19. CASE DrainDone \/ Backfill
  <2>1. UNCHANGED <<wire, queue, link, header_written, headers_remaining, bos_emitted>>
    BY <1>19, Zenon DEF DrainDone, Backfill, writers, calls
  <2>2. stage \notin {"arm", "fishead"} \cup BosLoops
    BY <1>19 DEF DrainDone, Draining, Backfill, Inside, BosLoops
  <2>3. QED BY <1>1, <1>2, <2>1, <2>2, WireStays, OpenedStays
<1>20. CASE CloseStream
  <2>1. UNCHANGED <<link, header_written, headers_remaining, bos_emitted>>
    BY <1>20, Zenon DEF CloseStream, calls
  <2>2. stage \notin {"arm", "fishead"} \cup BosLoops
    BY <1>20 DEF CloseStream, Closing, Inside, BosLoops
  <2>3. QED BY <1>1, <1>2, <1>20, <2>1, <2>2, CloseStreamWire, OpenedStays
<1>21. CASE UNCHANGED vars
  <2>1. UNCHANGED <<wire, queue, link, header_written, headers_remaining, bos_emitted, stage, turn>>
    BY <1>21, Zenon DEF vars, control, calls, writers
  <2>2. QED BY <1>1, <1>2, <2>1, WireStays, OpenedStays
<1>22. QED
  BY <1>3, <1>4, <1>5, <1>6, <1>7, <1>8, <1>9, <1>10, <1>11, <1>12, <1>13, <1>14, <1>15, <1>16,
     <1>17, <1>18, <1>19, <1>20, <1>21, Zenon DEF Next, Calls, Steps, Terminated

\* Links follow each other on the wire, and every stream of a link has its EOS
\* page there before the first page of the next link (mux.rs: begin_new_link,
\* finalize_current_link), for a caller who follows the API and gives every
\* stream extradata with its headers.
THEOREM LinksFollow == Protocol /\ Headed /\ Spec => []LinksApart
<1>1. Protocol /\ Headed /\ Init => TypeInv /\ PagesInv /\ LinksInv
  BY InitType, InitPages, InitLinks
<1>2. Protocol /\ Headed /\ TypeInv /\ PagesInv /\ LinksInv /\ [Next]_vars
        => TypeInv' /\ PagesInv' /\ LinksInv'
  BY TypeStep, StepPages, StepLinks
<1>3. LinksInv => LinksApart
  BY DEF LinksInv
<1>4. Protocol => []Protocol
  OBVIOUS
<1>5. Headed => []Headed
  OBVIOUS
<1>6. QED BY <1>1, <1>2, <1>3, <1>4, <1>5, PTL DEF Spec

-----------------------------------------------------------------------------
(* The header packets of a stream.                                         *)

\* A stream has its BOS page exactly when it is no longer due.
LEMMA BlankKept ==
  ASSUME NEW s \in Streams, StreamInv(s), OpenedInv', bos_emitted'[s] = bos_emitted[s]
  PROVE  Blank(s) => Blank(s)'
<1>1. Blank(s) => ~bos_emitted[s]
  BY Zenon DEF StreamInv, Unwritten, Numbered
<1>2. ~Blank(s)' => bos_emitted'[s]
  BY Zenon DEF OpenedInv, Opened
<1>3. QED BY <1>1, <1>2

\* The header section is over, or begins with the stream still to open.
LEMMA TurnsOutside ==
  ASSUME NEW s \in Streams, StreamInv(s), OpenedInv',
         \/ ~Section(s)'
         \/ (Section(s)' => Blank(s)) /\ bos_emitted'[s] = bos_emitted[s]
  PROVE  HeaderTurns(s)'
<1>1. CASE ~Section(s)'
  BY <1>1, Zenon DEF HeaderTurns
<1>2. CASE (Section(s)' => Blank(s)) /\ bos_emitted'[s] = bos_emitted[s]
  <2>1. Section(s)' => Blank(s)'
    BY <1>2, BlankKept
  <2>2. QED BY <2>1, Zenon DEF HeaderTurns
<1>3. QED BY <1>1, <1>2

\* The call stays where it is.
LEMMA TurnsInPlace ==
  ASSUME NEW s \in Streams, HeaderTurns(s), PlaceKept, UNCHANGED extra, Handed(s)' = Handed(s),
         Section(s) /\ ~Blank(s) /\ Given(s) /\ AtTurn(s) => AtTurn(s)'
  PROVE  HeaderTurns(s)'
<1>1. /\ Blank(s)' = Blank(s) /\ Section(s)' = Section(s) /\ HeadersPassed(s)' = HeadersPassed(s)
      /\ Turn' = Turn
  BY PlaceStays
<1>2. Given(s) => Given(s)'
  BY <1>1, Zenon DEF Given
<1>3. QED BY <1>1, <1>2, Zenon DEF HeaderTurns

\* A stream that is not at work.
LEMMA TurnAside ==
  ASSUME NEW s, AtTurn(s), sent'[s] = sent[s], headers_remaining'[s] = headers_remaining[s],
         buffered'[s].segs = buffered[s].segs,
         step = "none" \/ writing.s # s, step' = "none" \/ writing'.s # s
  PROVE  AtTurn(s)'
<1>1. \A ops \in SUBSET (StepNames \ {"none"}) : ~OwnStep(s, ops) /\ ~OwnStep(s, ops)'
  BY DEF OwnStep, StepNames
<1>2. /\ {"put", "stamp"} \in SUBSET (StepNames \ {"none"})
      /\ {"stamp", "flush"} \in SUBSET (StepNames \ {"none"})
      /\ {"stamp", "flush", "release"} \in SUBSET (StepNames \ {"none"})
      /\ StepNames \ {"none"} \in SUBSET (StepNames \ {"none"})
  BY DEF StepNames
<1>3. /\ ~OwnStep(s, {"put", "stamp"}) /\ ~OwnStep(s, {"put", "stamp"})'
      /\ ~OwnStep(s, {"stamp", "flush"}) /\ ~OwnStep(s, {"stamp", "flush"})'
      /\ ~OwnStep(s, {"stamp", "flush", "release"}) /\ ~OwnStep(s, {"stamp", "flush", "release"})'
      /\ ~OwnStep(s, StepNames \ {"none"}) /\ ~OwnStep(s, StepNames \ {"none"})'
  BY <1>1, <1>2
<1>4. QED BY <1>3, Zenon DEF AtTurn

\* Nothing of it moves.
LEMMA TurnStays ==
  ASSUME NEW s, AtTurn(s), UNCHANGED <<step, writing, sent, headers_remaining, buffered>>
  PROVE  AtTurn(s)'
BY Zenon DEF AtTurn, OwnStep

LEMMA WriteSecondaryTurns ==
  ASSUME TypeInv, ProtocolInv, TurnsInv, WriteSecondary, NEW s \in Streams
  PROVE  HeaderTurns(s)'
<1>1. /\ stage \in HeaderLoops /\ step = "none" /\ extra + 1 < Headers[Turn]
      /\ \/ stage = "theora_headers" /\ Turn \in Theora
         \/ stage = "other_headers" /\ Turn \notin Theora
  BY DEF WriteSecondary, HeaderTurn, InPass, Inside, HeaderLoops
<1>2. /\ step' = "packet" /\ writing' = [s |-> Turn, p |-> HeaderPacket, from |-> 0]
      /\ extra' = extra + 1
  BY DEF WriteSecondary, Call
<1>3. PlaceKept /\ UNCHANGED <<buffered, sent, headers_remaining>>
  BY Zenon DEF WriteSecondary, calls, writers, PlaceKept
<1>4. /\ Blank(s)' = Blank(s) /\ Section(s)' = Section(s) /\ HeadersPassed(s)' = HeadersPassed(s)
      /\ Turn' = Turn
  BY <1>3, PlaceStays
<1> SUFFICES ASSUME Section(s), ~Blank(s), Given(s), AtTurn(s) PROVE Given(s)' /\ AtTurn(s)'
  BY <1>4, Zenon DEF TurnsInv, HeaderTurns
<1>5. CASE s # Turn
  <2>1. Handed(s)' = Handed(s)
    BY <1>1, <1>2, <1>3, <1>5 DEF Handed
  <2>2. Given(s)'
    BY <1>4, <1>5, <2>1, Zenon DEF Given
  <2>3. AtTurn(s)'
    BY <1>1, <1>2, <1>3, <1>5, TurnAside
  <2>4. QED BY <2>2, <2>3
<1>6. CASE s = Turn
  <2>1. Handed(s) = Len(sent[s]) /\ Handed(s)' = Len(sent[s]) + 1
    BY <1>1, <1>2, <1>3, <1>6 DEF Handed
  <2>2. ~HeadersPassed(s)
    <3>1. ~Passed(Turn)
      BY TurnNotPassed DEF TypeInv
    <3>2. QED BY <1>1, <1>6, <3>1 DEF HeadersPassed
  <2>3. Len(sent[s]) \in Nat /\ extra \in Nat
    BY DEF TypeInv, ControlInv, DataInv, SentInv
  <2>4. Handed(s) = 1 + extra
    BY <1>6, <2>2, Zenon DEF Given
  <2>5. Handed(s)' = 1 + extra'
    BY <1>2, <2>1, <2>3, <2>4
  <2>6. Given(s)'
    BY <1>4, <1>6, <2>2, <2>5, Zenon DEF Given
  <2>7. buffered[s].segs = <<>> /\ Len(sent[s]) + headers_remaining[s] = Need[s] + 0
    BY <1>1 DEF AtTurn, OwnStep
  <2>8. AtTurn(s)'
    BY <1>2, <1>3, <2>7 DEF AtTurn, OwnStep
  <2>9. QED BY <2>6, <2>8
<1>7. QED BY <1>5, <1>6

LEMMA BeginPacketTurns ==
  ASSUME TypeInv, TurnsInv, BeginPacket, NEW s \in Streams
  PROVE  HeaderTurns(s)'
<1> SUFFICES ASSUME NEW t \in Streams, t = writing.s PROVE HeaderTurns(s)'
  BY AtWork
<1>1. /\ step = "packet" /\ step' \in {"flush", "put"} /\ writing' = writing
      /\ buffered[t].segs = <<>> => step' = "put"
      /\ sent' = [sent EXCEPT ![t] = Append(@, writing.p)]
  BY DEF BeginPacket, Doing, GoTo
<1>2. PlaceKept /\ UNCHANGED <<buffered, headers_remaining, extra>>
  BY Zenon DEF BeginPacket, GoTo, calls, writers, PlaceKept
<1>3. sent \in [Streams -> Seq(Packet)] /\ writing.p \in Packet
  BY AtWork DEF TypeInv, DataInv, SentInv
<1>4. /\ sent[s] \in Seq(Packet) /\ Len(sent[s]) \in Nat
      /\ Len(sent'[s]) = Len(sent[s]) + (IF s = t THEN 1 ELSE 0)
  BY <1>1, <1>3
<1>5. Handed(s)' = Handed(s)
  <2>1. CASE s = t
    <3>1. Handed(s) = Len(sent[s]) + 1
      BY <1>1, <2>1, Zenon DEF Handed
    <3>2. Handed(s)' = Len(sent'[s]) + 0
      BY <1>1, Zenon DEF Handed
    <3>3. QED BY <1>4, <2>1, <3>1, <3>2
  <2>2. CASE s # t
    <3>1. sent'[s] = sent[s]
      BY <1>1, <1>3, <2>2
    <3>2. QED BY <1>1, <2>2, <3>1 DEF Handed
  <2>3. QED BY <2>1, <2>2
<1>6. AtTurn(s) => AtTurn(s)'
  <2> SUFFICES ASSUME AtTurn(s) PROVE AtTurn(s)'
    OBVIOUS
  <2>1. CASE s # t
    BY <1>1, <1>2, <1>3, <2>1, TurnAside
  <2>2. CASE s = t
    <3>1. /\ buffered[s].segs = <<>> /\ Len(sent[s]) + headers_remaining[s] = Need[s] + 0
          /\ writing.p = HeaderPacket
      BY <1>1, <2>2 DEF AtTurn, OwnStep, StepNames
    <3>2. headers_remaining[s] \in Nat /\ Need[s] \in Nat
      BY MuxAssumption DEF TypeInv, DataInv, HeadersInv
    <3>3. Len(sent'[s]) + headers_remaining'[s] = Need[s] + 1
      <4>1. Len(sent'[s]) = Len(sent[s]) + 1 /\ headers_remaining'[s] = headers_remaining[s]
        BY <1>2, <1>4, <2>2
      <4>2. Len(sent[s]) + headers_remaining[s] = Need[s] /\ Len(sent[s]) \in Nat
        BY <1>4, <3>1, <3>2
      <4>3. QED BY <3>2, <4>1, <4>2
    <3>4. QED BY <1>1, <1>2, <2>2, <3>1, <3>3 DEF AtTurn, OwnStep
  <2>3. QED BY <2>1, <2>2
<1>7. QED BY <1>2, <1>5, <1>6, TurnsInPlace DEF TurnsInv

LEMMA PutLacesTurns ==
  ASSUME TypeInv, TurnsInv, PutLaces, NEW s \in Streams
  PROVE  HeaderTurns(s)'
<1> SUFFICES ASSUME NEW t \in Streams, t = writing.s PROVE HeaderTurns(s)'
  BY AtWork
<1> DEFINE room == MaxSegs - Len(buffered[t].segs)
           take == IF room < LacesLeft THEN room ELSE LacesLeft
<1>1. step = "put" /\ step' = (IF take < LacesLeft THEN "flush" ELSE "stamp")
  BY DEF PutLaces, Doing, GoTo
<1>2. /\ writing' = [writing EXCEPT !.from = @ + take]
      /\ \A r \in Streams : r # t => buffered'[r] = buffered[r]
  BY DEF PutLaces, TypeInv, DataInv, BuffersInv
<1>3. PlaceKept /\ UNCHANGED <<headers_remaining, extra, sent>>
  BY Zenon DEF PutLaces, GoTo, calls, PlaceKept
<1>4. step' # "packet" /\ step' # "put"
  BY <1>1
<1>5. Handed(s)' = Handed(s)
  BY <1>1, <1>3, <1>4, HandedStays
<1>6. AtTurn(s) => AtTurn(s)'
  <2> SUFFICES ASSUME AtTurn(s) PROVE AtTurn(s)'
    OBVIOUS
  <2>1. writing'.s = t /\ writing'.p = writing.p /\ writing'.from = writing.from + take
    BY <1>2 DEF TypeInv, WritingInv, WritingSet
  <2>2. CASE s # t
    BY <1>2, <1>3, <2>1, <2>2, TurnAside
  <2>3. CASE s = t
    <3>1. /\ buffered[s].segs = <<>> /\ Len(sent[s]) + headers_remaining[s] = Need[s] + 1
          /\ writing.p = HeaderPacket
      BY <1>1, <2>3 DEF AtTurn, OwnStep, StepNames
    <3>2. writing.from = 0 /\ LacesLeft = 1
      BY <1>1, <3>1, AtWork, HeaderPacketType DEF TypeInv, WritingInv, LacesLeft
    <3>3. room = MaxSegs
      BY <2>3, <3>1, MuxAssumption
    <3>4. take = 1
      BY <3>2, <3>3, MuxAssumption
    <3>5. step' = "stamp" /\ writing'.from = 1
      BY <1>1, <2>1, <3>2, <3>4
    <3>6. QED BY <1>3, <2>1, <2>3, <3>1, <3>5 DEF AtTurn, OwnStep
  <2>4. QED BY <2>2, <2>3
<1>7. QED BY <1>3, <1>5, <1>6, TurnsInPlace DEF TurnsInv

LEMMA StampHeaderTurns ==
  ASSUME TypeInv, TurnsInv, StampHeader, NEW s \in Streams
  PROVE  HeaderTurns(s)'
<1> SUFFICES ASSUME NEW t \in Streams, t = writing.s PROVE HeaderTurns(s)'
  BY AtWork
<1>1. /\ step = "stamp" /\ step' = "flush" /\ writing' = writing /\ headers_remaining[t] > 0
      /\ headers_remaining' = [headers_remaining EXCEPT ![t] = @ - 1]
      /\ buffered' = [buffered EXCEPT ![t].granule = 0]
  BY DEF StampHeader, Doing, GoTo
<1>2. PlaceKept /\ UNCHANGED <<extra, sent>>
  BY Zenon DEF StampHeader, GoTo, calls, PlaceKept
<1>3. Handed(s)' = Handed(s)
  BY <1>1, <1>2, HandedStays
<1>4. /\ buffered \in [Streams -> BuilderSet] /\ headers_remaining \in [Streams -> Nat]
  BY DEF TypeInv, DataInv, BuffersInv, HeadersInv
<1>5. buffered'[s].segs = buffered[s].segs
  BY <1>1, <1>4 DEF BuilderSet
<1>6. AtTurn(s) => AtTurn(s)'
  <2> SUFFICES ASSUME AtTurn(s) PROVE AtTurn(s)'
    OBVIOUS
  <2>1. CASE s # t
    BY <1>1, <1>2, <1>4, <1>5, <2>1, TurnAside
  <2>2. CASE s = t
    <3>1. /\ Len(sent[s]) + headers_remaining[s] = Need[s] + 1
          /\ writing.p = HeaderPacket /\ writing.from = 1
      BY <1>1, <2>2 DEF AtTurn, OwnStep, StepNames
    <3>2. Need[s] \in Nat /\ Len(sent[s]) \in Nat
      BY MuxAssumption DEF TypeInv, DataInv, SentInv
    <3>3. headers_remaining'[s] = headers_remaining[s] - 1 /\ headers_remaining[s] \in Nat
      BY <1>1, <1>4, <2>2
    <3>4. Len(sent'[s]) + headers_remaining'[s] = Need[s] + 0
      BY <1>2, <3>1, <3>2, <3>3
    <3>5. QED BY <1>1, <2>2, <3>1, <3>4 DEF AtTurn, OwnStep
  <2>3. QED BY <2>1, <2>2
<1>7. QED BY <1>2, <1>3, <1>6, TurnsInPlace DEF TurnsInv

LEMMA FlushPageTurns ==
  ASSUME TypeInv, TurnsInv, FlushPage, NEW s \in Streams
  PROVE  HeaderTurns(s)'
<1> SUFFICES ASSUME NEW t \in Streams, t = writing.s PROVE HeaderTurns(s)'
  BY AtWork
<1>1. /\ step = "flush" /\ step' = "release" /\ writing' = writing
      /\ buffered' = [buffered EXCEPT ![t] = NextBuilder(buffered[t])]
  BY DEF FlushPage, Doing, GoTo
<1>2. PlaceKept /\ UNCHANGED <<extra, sent, headers_remaining>>
  BY Zenon DEF FlushPage, GoTo, calls, PlaceKept
<1>3. Handed(s)' = Handed(s)
  BY <1>1, <1>2, HandedStays
<1>4. buffered \in [Streams -> BuilderSet]
  BY DEF TypeInv, DataInv, BuffersInv
<1>5. s # t => buffered'[s] = buffered[s]
  BY <1>1, <1>4
<1>6. s = t => buffered'[s].segs = <<>>
  BY <1>1, <1>4 DEF NextBuilder, EmptyBuilder
<1>7. AtTurn(s) => AtTurn(s)'
  <2> SUFFICES ASSUME AtTurn(s) PROVE AtTurn(s)'
    OBVIOUS
  <2>1. CASE s # t
    BY <1>1, <1>2, <1>5, <2>1, TurnAside
  <2>2. CASE s = t
    <3>1. /\ Len(sent[s]) + headers_remaining[s] = Need[s] + 0
          /\ writing.p = HeaderPacket /\ writing.from = 1
      BY <1>1, <2>2 DEF AtTurn, OwnStep, StepNames
    <3>2. QED BY <1>1, <1>2, <1>6, <2>2, <3>1 DEF AtTurn, OwnStep
  <2>3. QED BY <2>1, <2>2
<1>8. QED BY <1>2, <1>3, <1>7, TurnsInPlace DEF TurnsInv

LEMMA ReleaseDoneTurns ==
  ASSUME TypeInv, TurnsInv, ReleaseDone, NEW s \in Streams
  PROVE  HeaderTurns(s)'
<1> SUFFICES ASSUME NEW t \in Streams, t = writing.s PROVE HeaderTurns(s)'
  BY AtWork
<1>1. /\ step = "release" /\ step' = (IF LacesLeft > 0 THEN "put" ELSE "none") /\ writing' = writing
  BY DEF ReleaseDone, Doing, GoTo
<1>2. PlaceKept /\ UNCHANGED <<extra, sent, headers_remaining, buffered>>
  BY Zenon DEF ReleaseDone, GoTo, calls, writers, PlaceKept
<1>3. step' # "packet"
  BY <1>1
<1>4. Handed(s)' = Handed(s)
  BY <1>1, <1>2, <1>3, HandedStays
<1>5. AtTurn(s) => AtTurn(s)'
  <2> SUFFICES ASSUME AtTurn(s) PROVE AtTurn(s)'
    OBVIOUS
  <2>1. CASE s # t
    BY <1>1, <1>2, <2>1, TurnAside
  <2>2. CASE s = t
    <3>1. /\ Len(sent[s]) + headers_remaining[s] = Need[s] + 0 /\ buffered[s].segs = <<>>
          /\ writing.p = HeaderPacket /\ writing.from = 1
      BY <1>1, <2>2 DEF AtTurn, OwnStep, StepNames
    <3>2. step' = "none"
      BY <1>1, <3>1, HeaderPacketType DEF LacesLeft
    <3>3. QED BY <1>1, <1>2, <2>2, <3>1, <3>2 DEF AtTurn, OwnStep
  <2>3. QED BY <2>1, <2>2
<1>6. QED BY <1>2, <1>4, <1>5, TurnsInPlace DEF TurnsInv

\* A content packet is none of the header section's.
LEMMA StampedIdle ==
  ASSUME Fitting, TypeInv, ProtocolInv, StreamsInv, TurnsInv, StampContent \/ StampTheora
  PROVE  stage = "idle" /\ stage' = "idle"
<1> SUFFICES ASSUME NEW t \in Streams, t = writing.s PROVE stage = "idle" /\ stage' = "idle"
  BY AtWork
<1>1. step = "stamp" /\ headers_remaining[t] = 0 /\ stage' \in {stage, "idle"}
  BY DEF StampContent, StampTheora, Doing, GoTo
<1>2. stage \in {"idle"} \cup HeaderLoops /\ t \in Current
  BY <1>1 DEF TypeInv, CallInv, ClosingLoops, HeaderLoops
<1>3. stage \notin HeaderLoops
  <2> SUFFICES ASSUME stage \in HeaderLoops PROVE FALSE
    OBVIOUS
  <2>1. Section(t) /\ ~Blank(t)
    BY <1>1, <1>2, AtWorkOn DEF Section
  <2>2. AtTurn(t) /\ Counted(t)
    BY <2>1, Zenon DEF TurnsInv, HeaderTurns, StreamsInv, StreamInv
  <2>3. Len(sent[t]) + headers_remaining[t] = Need[t] + 1
    BY <1>1, <2>2 DEF AtTurn, OwnStep
  <2>4. Handed(t) = Len(sent[t]) + 0
    BY <1>1, Zenon DEF Handed
  <2>5. Handed(t) <= Headers[t] /\ Headers[t] <= Need[t]
    BY <2>1, <2>2 DEF Counted, Fitting
  <2>6. Len(sent[t]) \in Nat /\ Need[t] \in Nat /\ Headers[t] \in Nat
    BY MuxAssumption DEF TypeInv, DataInv, SentInv
  <2>7. QED BY <1>1, <2>3, <2>4, <2>5, <2>6
<1>4. QED BY <1>1, <1>2, <1>3

LEMMA StampTurns ==
  ASSUME Fitting, TypeInv, ProtocolInv, StreamsInv, TurnsInv, StampContent \/ StampTheora,
         NEW s \in Streams
  PROVE  HeaderTurns(s)'
<1>1. stage' = "idle"
  BY StampedIdle
<1>2. QED BY <1>1 DEF HeaderTurns, Section, BosLoops, HeaderLoops

LEMMA WriteBosTurns ==
  ASSUME TypeInv, ProtocolInv, StreamsInv, OpenedInv, OpenedInv', TurnsInv, WriteBos,
         NEW s \in Streams
  PROVE  HeaderTurns(s)'
<1>1. /\ step = "none" /\ NextTurn /\ stage \in BosLoops /\ step' = "none"
      /\ \/ stage = "theora_bos" /\ Turn \in Theora
         \/ stage = "other_bos" /\ Turn \notin Theora
  BY DEF WriteBos, BosTurn, InPass, Inside, BosLoops
<1>2. UNCHANGED <<extra, writing, link, header_written, trailer_written, buffered>>
  BY Zenon DEF WriteBos, calls
<1>3. extra = 0 /\ extra' = 0
  BY <1>1, <1>2, IdleExtra DEF BosLoops, HeaderLoops
<1> SUFFICES ASSUME NEW t \in Streams, t = Turn PROVE HeaderTurns(s)'
  BY TurnType DEF TypeInv
<1>4. /\ sent' = [sent EXCEPT ![t] = Append(@, HeaderPacket)]
      /\ bos_emitted' = [bos_emitted EXCEPT ![t] = TRUE]
      /\ headers_remaining' = [headers_remaining EXCEPT ![t] = @ - 1]
  BY DEF WriteBos
<1>5. TurnOver /\ header_written = TRUE /\ Turn \in Current
  BY <1>1, <1>2, TurnPasses, TurnType, UnderWay DEF TypeInv
<1>6. ~HeadersPassed(s)'
  BY <1>1, <1>5 DEF HeadersPassed, TurnOver, After
<1>7. (IF s = Turn' THEN extra' ELSE 0) = 0
  BY <1>3, Zenon
<1>8. Given(s)' <=> Handed(s)' = 1 + 0
  BY <1>6, <1>7, Zenon DEF Given
<1>9. StreamInv(s)
  BY DEF StreamsInv
<1>10. CASE s # t
  <2>1. /\ bos_emitted'[s] = bos_emitted[s] /\ sent'[s] = sent[s]
        /\ headers_remaining'[s] = headers_remaining[s]
    BY <1>4, <1>10 DEF TypeInv, DataInv, BosInv, SentInv, HeadersInv
  <2> SUFFICES ASSUME Section(s)', ~Blank(s)' PROVE Given(s)' /\ AtTurn(s)'
    BY Zenon DEF HeaderTurns
  <2>2. ~Blank(s)
    BY <1>9, <2>1, BlankKept
  <2>3. Section(s)
    BY <1>1, <1>2, LinkKept DEF Section
  <2>4. Given(s) /\ AtTurn(s)
    BY <2>2, <2>3, Zenon DEF TurnsInv, HeaderTurns
  <2>5. ~HeadersPassed(s)
    BY <1>1 DEF HeadersPassed, BosLoops
  <2>6. Handed(s) = 1 + 0
    BY <1>10, <2>4, <2>5, Zenon DEF Given
  <2>7. Handed(s)' = Handed(s)
    BY <1>1, <2>1 DEF Handed
  <2>8. AtTurn(s)'
    BY <1>1, <1>2, <2>1, <2>4, TurnAside
  <2>9. QED BY <1>8, <2>6, <2>7, <2>8
<1>11. CASE s = t
  <2>1. Blank(s)
    BY <1>1, <1>5, <1>11 DEF Blank, BosDue, TurnOver
  <2>2. buffered[s].segs = <<>> /\ Handed(s) = 0 /\ headers_remaining[s] = Need[s]
    BY <1>9, <2>1, Zenon DEF StreamInv, Unwritten, OpenedInv, Opened
  <2>3. Handed(s) = Len(sent[s]) /\ sent[s] \in Seq(Packet)
    BY <1>1 DEF Handed, TypeInv, DataInv, SentInv
  <2>4. Len(sent'[s]) = 1
    BY <1>4, <1>11, <2>2, <2>3 DEF TypeInv, DataInv, SentInv
  <2>5. Handed(s)' = Len(sent'[s]) + 0
    BY <1>1, Zenon DEF Handed
  <2>6. headers_remaining'[s] = Need[s] - 1 /\ Need[s] \in Nat
    BY <1>4, <1>11, <2>2, MuxAssumption DEF TypeInv, DataInv, HeadersInv
  <2>7. Len(sent'[s]) + headers_remaining'[s] = Need[s] + 0
    BY <2>4, <2>6
  <2>8. AtTurn(s)'
    BY <1>1, <1>2, <2>2, <2>7 DEF AtTurn, OwnStep
  <2>9. QED BY <1>8, <2>4, <2>5, <2>8 DEF HeaderTurns
<1>12. QED BY <1>10, <1>11

\* Its own turn over, a stream is past its headers.
LEMMA HeadersPassOn ==
  ASSUME stage \in HeaderLoops, step = "none", TurnOver, NEW s \in Current
  PROVE  HeadersPassed(s)' <=>
           HeadersPassed(s) \/ (s = Turn /\ InPass("theora_headers", "other_headers"))
<1>1. /\ stage = "theora_headers" => After(stage) = "other_headers"
      /\ stage = "other_headers" => After(stage) = "drain_headers"
  BY DEF After, AfterHeaders
<1>2. InPass("theora_headers", "other_headers") <=>
        \/ stage = "theora_headers" /\ Turn \in Theora
        \/ stage = "other_headers" /\ Turn \notin Theora
  BY DEF InPass, Inside
<1>3. CASE stage' = stage /\ \A r : Passed(r)' <=> Passed(r) \/ r = Turn
  <2>1. Passed(s)' <=> Passed(s) \/ s = Turn
    BY <1>3
  <2>2. QED BY <1>2, <1>3, <2>1 DEF HeadersPassed, HeaderLoops
<1>4. CASE stage' = After(stage) /\ (\A r : ~Passed(r)') /\ \A r \in Current : Passed(r) \/ r = Turn
  <2>1. ~Passed(s)' /\ (Passed(s) \/ s = Turn)
    BY <1>4
  <2>2. QED BY <1>1, <1>2, <1>4, <2>1 DEF HeadersPassed, HeaderLoops
<1>5. QED BY <1>3, <1>4, Zenon DEF TurnOver

LEMMA PassTurnTurns ==
  ASSUME TypeInv, ProtocolInv, StreamsInv, OpenedInv', TurnsInv, PassTurn, NEW s \in Streams
  PROVE  HeaderTurns(s)'
<1>1. /\ stage \in BosLoops \cup HeaderLoops /\ step = "none" /\ step' = "none" /\ NextTurn
      /\ extra' = 0 /\ ~HeaderTurn
  BY DEF PassTurn, Inside, BosLoops, HeaderLoops
<1>2. UNCHANGED <<writing, link, sent, buffered, headers_remaining, bos_emitted>>
  BY Zenon DEF PassTurn, writers, calls
<1>3. TurnOver
  BY <1>1, <1>2, TurnPasses DEF TypeInv
<1> SUFFICES ASSUME Section(s)', ~Blank(s)' PROVE Given(s)' /\ AtTurn(s)'
  BY Zenon DEF HeaderTurns
<1>4. ~Blank(s)
  BY <1>2, BlankKept DEF StreamsInv
<1>5. Section(s) /\ s \in Current
  BY <1>1, <1>2, LinkKept DEF Section
<1>6. Given(s) /\ AtTurn(s) /\ Counted(s)
  BY <1>4, <1>5, Zenon DEF TurnsInv, HeaderTurns, StreamsInv, StreamInv
<1>7. AtTurn(s)'
  BY <1>1, <1>2, <1>6, TurnAside
<1>8. Handed(s)' = Handed(s)
  BY <1>1, <1>2, HandedStays
<1>9. (IF s = Turn' THEN extra' ELSE 0) = 0
  BY <1>1, Zenon
<1>10. Given(s)' <=> Handed(s) = IF HeadersPassed(s)' THEN Headers[s] ELSE 1 + 0
  BY <1>8, <1>9, Zenon DEF Given
<1>11. CASE stage \in BosLoops
  <2>1. extra = 0
    BY <1>11, IdleExtra DEF BosLoops, HeaderLoops
  <2>2. (IF s = Turn THEN extra ELSE 0) = 0
    BY <2>1, Zenon
  <2>3. ~HeadersPassed(s)
    BY <1>11 DEF HeadersPassed, BosLoops
  <2>4. ~HeadersPassed(s)'
    BY <1>3, <1>11 DEF HeadersPassed, TurnOver, After, BosLoops
  <2>5. QED BY <1>6, <1>7, <1>10, <2>2, <2>3, <2>4, Zenon DEF Given
<1>12. CASE stage \in HeaderLoops
  <2> DEFINE own == s = Turn /\ InPass("theora_headers", "other_headers")
  <2>1. HeadersPassed(s)' <=> HeadersPassed(s) \/ own
    BY <1>1, <1>3, <1>5, <1>12, HeadersPassOn
  <2>2. CASE own
    <3>1. ~HeadersPassed(s)
      BY <1>3, <1>12, <2>2 DEF HeadersPassed, TurnOver, InPass, Inside
    <3>2. Handed(s) = 1 + extra
      BY <1>6, <2>2, <3>1, Zenon DEF Given
    <3>3. Handed(s) <= Headers[s] /\ ~(extra + 1 < Headers[s])
      BY <1>1, <1>5, <1>6, <2>2 DEF Counted, HeaderTurn
    <3>4. extra \in Nat /\ Headers[s] \in Nat
      BY MuxAssumption DEF TypeInv, ControlInv
    <3>5. Handed(s) = Headers[s]
      BY <3>2, <3>3, <3>4
    <3>6. QED BY <1>7, <1>10, <2>1, <2>2, <3>5, Zenon
  <2>3. CASE ~own
    <3>1. s = Turn => extra = 0
      BY <1>1, <1>12, <2>3 DEF ProtocolInv, InPass, Inside, HeaderLoops
    <3>2. (IF s = Turn THEN extra ELSE 0) = 0
      BY <3>1, Zenon
    <3>3. QED BY <1>6, <1>7, <1>10, <2>1, <2>3, <3>2, Zenon DEF Given
  <2>4. QED BY <2>2, <2>3
<1>13. QED BY <1>1, <1>11, <1>12

\* Steps outside the header section, or up to it.
LEMMA TurnsElsewhere ==
  ASSUME TypeInv, StreamsInv, OpenedInv',
         \/ WriteHeader \/ BeginNewLink \/ WriteTrailer \/ Arm \/ ArmSkeleton \/ NextLink
         \/ WriteSkeletonPage \/ DrainDone \/ CloseFlush \/ CloseStream \/ Backfill
         \/ \E t \in Targets \cup {NoTarget} : SetPageTarget(t)
         \/ \E r \in Streams : \E p \in Packets[r] : WritePacket(r, p),
         NEW s \in Streams
  PROVE  HeaderTurns(s)'
<1>1. StreamInv(s)
  BY DEF StreamsInv
<1>2. CASE WriteHeader
  <2>1. ~header_written /\ UNCHANGED <<link, bos_emitted>>
    BY <1>2, Zenon DEF WriteHeader, writers
  <2>2. (s \in Current)' => Blank(s)
    BY <2>1, LinkKept, Zenon DEF Blank, BosDue
  <2>3. QED BY <1>1, <2>1, <2>2, TurnsOutside DEF Section
<1>3. CASE Arm
  <2>1. stage = "arm" /\ UNCHANGED <<link, bos_emitted>>
    BY <1>3, Zenon DEF Arm, Inside
  <2>2. (s \in Current)' => Blank(s)
    BY <2>1, LinkKept DEF Blank, BosDue
  <2>3. QED BY <1>1, <2>1, <2>2, TurnsOutside DEF Section
<1>4. CASE WriteSkeletonPage
  <2>1. /\ UNCHANGED <<link, bos_emitted>>
    BY <1>4, Zenon DEF WriteSkeletonPage, writers, calls
  <2>2. stage = "fishead" \/ stage' \in {"bone", "index", "skeleton_eos", "idle"}
    BY <1>4 DEF WriteSkeletonPage, Inside, NextTurn, NextStage, After
  <2>3. CASE stage = "fishead"
    <3>1. (s \in Current)' => Blank(s)
      BY <2>1, <2>3, LinkKept DEF Blank, BosDue
    <3>2. QED BY <1>1, <2>1, <3>1, TurnsOutside DEF Section
  <2>4. CASE stage' \in {"bone", "index", "skeleton_eos", "idle"}
    BY <2>4 DEF HeaderTurns, Section, BosLoops, HeaderLoops
  <2>5. QED BY <2>2, <2>3, <2>4
<1>5. CASE BeginNewLink \/ WriteTrailer \/ ArmSkeleton \/ NextLink \/ Backfill
  BY <1>5 DEF BeginNewLink, WriteTrailer, ArmSkeleton, NextLink, Backfill, NextStage, Inside, After,
              HeaderTurns, Section, BosLoops, HeaderLoops
<1>6. CASE DrainDone
  BY <1>6 DEF DrainDone, Draining, NextStage, Inside, After, HeaderTurns, Section, BosLoops,
              HeaderLoops
<1>7. CASE CloseFlush
  BY <1>7 DEF CloseFlush, Closing, Inside, HeaderTurns, Section, BosLoops, HeaderLoops
<1>8. CASE CloseStream
  BY <1>8 DEF CloseStream, Closing, Inside, NextTurn, After, AfterClose, HeaderTurns, Section,
              BosLoops, HeaderLoops
<1>9. CASE \E t \in Targets \cup {NoTarget} : SetPageTarget(t)
  BY <1>9 DEF SetPageTarget, Idle, control, HeaderTurns, Section, BosLoops, HeaderLoops
<1>10. CASE \E r \in Streams : \E p \in Packets[r] : WritePacket(r, p)
  BY <1>10 DEF WritePacket, Idle, HeaderTurns, Section, BosLoops, HeaderLoops
<1>11. QED BY <1>2, <1>3, <1>4, <1>5, <1>6, <1>7, <1>8, <1>9, <1>10, Zenon

LEMMA TurnsStep ==
  ASSUME Fitting, TypeInv, ProtocolInv, StreamsInv, OpenedInv, OpenedInv', TurnsInv, [Next]_vars
  PROVE  TurnsInv'
<1> SUFFICES ASSUME NEW s \in Streams PROVE HeaderTurns(s)'
  BY DEF TurnsInv
<1>1. CASE Calls \/ Arm \/ ArmSkeleton \/ NextLink \/ WriteSkeletonPage \/ DrainDone \/ CloseFlush
           \/ CloseStream \/ Backfill
  BY <1>1, TurnsElsewhere, Zenon DEF Calls
<1>2. CASE WriteBos \/ PassTurn \/ WriteSecondary
  BY <1>2, WriteBosTurns, PassTurnTurns, WriteSecondaryTurns, Zenon
<1>3. CASE BeginPacket \/ PutLaces \/ StampHeader \/ StampContent \/ StampTheora
  BY <1>3, BeginPacketTurns, PutLacesTurns, StampHeaderTurns, StampTurns, Zenon
<1>4. CASE FlushPage \/ ReleaseDone
  BY <1>4, FlushPageTurns, ReleaseDoneTurns, Zenon
<1>5. CASE ReleasePage \/ DrainPage \/ UNCHANGED vars
  <2>1. PlaceKept /\ UNCHANGED <<extra, step, writing, sent, headers_remaining, buffered>>
    BY <1>5, Zenon DEF ReleasePage, DrainPage, vars, control, calls, writers, PlaceKept
  <2>2. Handed(s)' = Handed(s)
    BY <2>1, Zenon DEF Handed
  <2>3. AtTurn(s) => AtTurn(s)'
    BY <2>1, TurnStays
  <2>4. QED BY <2>1, <2>2, <2>3, TurnsInPlace DEF TurnsInv
<1>6. QED BY <1>1, <1>2, <1>3, <1>4, <1>5, Zenon DEF Next, Steps, Terminated

-----------------------------------------------------------------------------
(* No header is left behind by the header section.                         *)

LEMMA HeaderPage ==
  ASSUME Headed, NEW s \in Streams, NEW p, p.stream = s
  PROVE  IsHeader(p) <=> p.segs # <<>> /\ p.segs[1].pkt <= Headers[s]
<1>1. HeaderCount(s) = Headers[s] /\ s # "skeleton"
  BY MuxAssumption DEF Headed, HeaderCount
<1>2. QED BY <1>1 DEF IsHeader

LEMMA DataOnlyOn ==
  ASSUME NEW s, DataOnly(s), UNCHANGED link, InHeaders => InHeaders', NoHeader(s) => NoHeader(s)'
  PROVE  DataOnly(s)'
<1>1. (s \in Current)' = (s \in Current)
  BY LinkKept
<1>2. QED BY <1>1, Zenon DEF DataOnly

\* The call stays where it is.
LEMMA DataInPlace ==
  ASSUME NEW s, DataOnly(s), UNCHANGED <<link, stage, header_written>>, NoHeader(s) => NoHeader(s)'
  PROVE  DataOnly(s)'
<1>1. InHeaders' = InHeaders
  BY Zenon DEF InHeaders, Unopened
<1>2. QED BY <1>1, DataOnlyOn

LEMMA NoHeaderStays ==
  ASSUME NEW s, NoHeader(s), sent'[s] = sent[s], buffered'[s].segs = buffered[s].segs,
         queue'[s] = queue[s], Resuming(s)' => Resuming(s)
  PROVE  NoHeader(s)'
BY Zenon DEF NoHeader

\* Steps within the header section.
LEMMA DataLater ==
  ASSUME TypeInv, ProtocolInv,
         WriteHeader \/ Arm \/ ArmSkeleton \/ NextLink \/ WriteBos \/ WriteSecondary \/ PassTurn,
         NEW s
  PROVE  DataOnly(s)'
<1> SUFFICES InHeaders'
  BY DEF DataOnly
<1>1. CASE WriteHeader
  BY <1>1 DEF WriteHeader, InHeaders, Unopened, BosLoops
<1>2. CASE Arm
  BY <1>2 DEF Arm, Inside, NextTurn, After, ProtocolInv, InHeaders, Unopened, BosLoops
<1>3. CASE ArmSkeleton
  BY <1>3 DEF ArmSkeleton, Inside, ProtocolInv, InHeaders, Unopened
<1>4. CASE NextLink
  BY <1>4 DEF NextLink, Inside, NextStage, After, InHeaders, Unopened
<1>5. CASE WriteBos \/ PassTurn
  BY <1>5 DEF WriteBos, PassTurn, BosTurn, InPass, Inside, NextTurn, After, AfterHeaders, InHeaders,
              BosLoops, HeaderLoops
<1>6. CASE WriteSecondary
  BY <1>6 DEF WriteSecondary, HeaderTurn, InPass, Inside, InHeaders, HeaderLoops
<1>7. QED BY <1>1, <1>2, <1>3, <1>4, <1>5, <1>6

\* Steps that neither put laces nor make a page.
LEMMA DataAside ==
  ASSUME DataOnlyInv, UNCHANGED <<link, header_written, sent, buffered, queue>>,
         InHeaders => InHeaders', NEW s \in Streams, Resuming(s)' => Resuming(s)
  PROVE  DataOnly(s)'
<1>1. NoHeader(s) => NoHeader(s)'
  BY NoHeaderStays
<1>2. QED BY <1>1, DataOnlyOn DEF DataOnlyInv

LEMMA DataElsewhere ==
  ASSUME DataOnlyInv,
         \/ BeginNewLink \/ WriteTrailer \/ Backfill
         \/ WriteSkeletonPage /\ stage # "fishead"
         \/ DrainDone /\ stage # "drain_headers"
         \/ \E t \in Targets \cup {NoTarget} : SetPageTarget(t)
         \/ UNCHANGED vars,
         NEW s \in Streams
  PROVE  DataOnly(s)'
<1>1. UNCHANGED <<link, header_written, sent, buffered, queue, step, writing>>
  BY Zenon DEF BeginNewLink, WriteTrailer, Backfill, WriteSkeletonPage, DrainDone, SetPageTarget,
               control, calls, writers, vars
<1>2. Resuming(s)' => Resuming(s)
  BY <1>1, Zenon DEF Resuming, OwnStep, LacesLeft
<1>3. stage' = stage \/ stage \notin {"arm", "fishead", "drain_headers"} \cup BosLoops \cup HeaderLoops
  BY DEF BeginNewLink, WriteTrailer, Backfill, WriteSkeletonPage, DrainDone, SetPageTarget, control,
         vars, Idle, Inside, Draining, BosLoops, HeaderLoops
<1>4. InHeaders => InHeaders'
  BY <1>1, <1>3 DEF InHeaders, Unopened
<1>5. QED BY <1>1, <1>2, <1>4, DataAside

\* A call of write_packet, or of flush_page when a link is closed, begins or ends.
LEMMA DataCalls ==
  ASSUME DataOnlyInv,
         \/ CloseFlush \/ ReleaseDone
         \/ \E r \in Streams : \E p \in Packets[r] : WritePacket(r, p),
         NEW s \in Streams
  PROVE  DataOnly(s)'
<1>1. UNCHANGED <<link, header_written, sent, buffered, queue, stage>>
  BY Zenon DEF CloseFlush, ReleaseDone, WritePacket, GoTo, calls, writers
<1>2. InHeaders => InHeaders'
  BY <1>1, Zenon DEF InHeaders, Unopened
<1>3. CASE CloseFlush
  <2>1. step' = "flush" /\ writing' = [s |-> Turn, p |-> HeaderPacket, from |-> 1]
    BY <1>3 DEF CloseFlush, Call
  <2>2. LacesLeft' = 0
    BY <2>1, HeaderPacketType DEF LacesLeft
  <2>3. ~Resuming(s)'
    BY <2>1, <2>2 DEF Resuming, OwnStep
  <2>4. QED BY <1>1, <1>2, <2>3, DataAside
<1>4. CASE ReleaseDone
  <2>1. step = "release" /\ step' = (IF LacesLeft > 0 THEN "put" ELSE "none") /\ writing' = writing
    BY <1>4 DEF ReleaseDone, Doing, GoTo
  <2>2. Resuming(s)' => Resuming(s)
    BY <2>1 DEF Resuming, OwnStep
  <2>3. QED BY <1>1, <1>2, <2>2, DataAside
<1>5. CASE \E r \in Streams : \E p \in Packets[r] : WritePacket(r, p)
  <2>1. step' = "packet"
    BY <1>5 DEF WritePacket, Call
  <2>2. ~Resuming(s)'
    BY <2>1 DEF Resuming, OwnStep
  <2>3. QED BY <1>1, <1>2, <2>2, DataAside
<1>6. QED BY <1>3, <1>4, <1>5

LEMMA BeginPacketData ==
  ASSUME TypeInv, DataOnlyInv, BeginPacket, NEW s \in Streams
  PROVE  DataOnly(s)'
<1> SUFFICES ASSUME NEW t \in Streams, t = writing.s PROVE DataOnly(s)'
  BY AtWork
<1>1. sent' = [sent EXCEPT ![t] = Append(@, writing.p)] /\ writing' = writing
  BY DEF BeginPacket
<1>2. UNCHANGED <<link, header_written, stage, buffered, queue>>
  BY Zenon DEF BeginPacket, GoTo, calls, writers
<1>3. NoHeader(s) => NoHeader(s)'
  <2> SUFFICES ASSUME NoHeader(s) PROVE NoHeader(s)'
    OBVIOUS
  <2>1. CASE s # t
    <3>1. sent'[s] = sent[s]
      BY <1>1, <2>1 DEF TypeInv, DataInv, SentInv
    <3>2. ~Resuming(s)'
      BY <1>1, <2>1 DEF Resuming, OwnStep
    <3>3. QED BY <1>2, <3>1, <3>2, NoHeaderStays
  <2>2. CASE s = t
    <3>1. sent[s] \in Seq(Packet) /\ sent'[s] = Append(sent[s], writing.p)
      BY <1>1, <2>2 DEF TypeInv, DataInv, SentInv
    <3>2. Len(sent'[s]) = Len(sent[s]) + 1 /\ Len(sent[s]) \in Nat
      BY <3>1
    <3>3. Len(sent[s]) >= Headers[s] /\ Headers[s] \in Nat
      BY MuxAssumption DEF NoHeader
    <3>4. Len(sent'[s]) >= Headers[s] /\ Len(sent'[s]) > Headers[s]
      BY <3>2, <3>3
    <3>5. QED BY <1>2, <3>4, Zenon DEF NoHeader
  <2>3. QED BY <2>1, <2>2
<1>4. QED BY <1>2, <1>3, DataInPlace DEF DataOnlyInv

LEMMA PutLacesData ==
  ASSUME TypeInv, DataOnlyInv, PutLaces, NEW s \in Streams
  PROVE  DataOnly(s)'
<1> SUFFICES ASSUME NEW t \in Streams, t = writing.s PROVE DataOnly(s)'
  BY AtWork
<1> DEFINE old == buffered[t].segs
           room == MaxSegs - Len(old)
           take == IF room < LacesLeft THEN room ELSE LacesLeft
           more == [i \in 1 .. take |-> Lace(Len(sent[t]), writing.from + i, writing.p.laces)]
<1>1. /\ step = "put" /\ writing' = [writing EXCEPT !.from = @ + take]
      /\ buffered' = [buffered EXCEPT ![t].segs = @ \o more]
  BY DEF PutLaces, Doing
<1>2. UNCHANGED <<link, header_written, stage, sent, queue>>
  BY Zenon DEF PutLaces, GoTo, calls
<1>3. writing'.s = t
  BY <1>1 DEF TypeInv, WritingInv, WritingSet
<1>4. buffered \in [Streams -> BuilderSet] /\ old \in Seq(LaceSet)
  BY AtWork DEF TypeInv, DataInv, BuffersInv
<1>5. NoHeader(s) => NoHeader(s)'
  <2> SUFFICES ASSUME NoHeader(s) PROVE NoHeader(s)'
    OBVIOUS
  <2>1. CASE s # t
    <3>1. buffered'[s] = buffered[s]
      BY <1>1, <1>4, <2>1
    <3>2. ~Resuming(s)'
      BY <1>3, <2>1 DEF Resuming, OwnStep
    <3>3. QED BY <1>2, <3>1, <3>2, NoHeaderStays
  <2>2. CASE s = t
    <3>1. Resuming(s) /\ Len(sent[s]) > Headers[s]
      BY <1>1, <2>2 DEF Resuming, OwnStep, NoHeader
    <3>2. buffered'[s].segs = old \o more
      BY <1>1, <1>4, <2>2 DEF BuilderSet
    <3>3. take \in Nat
      <4>1. writing.from < writing.p.laces
        BY <1>1 DEF TypeInv, WritingInv
      <4>2. LacesLeft \in Nat
        BY <4>1, AtWork DEF LacesLeft
      <4>3. room \in Nat
        BY AtWork, MuxAssumption
      <4>4. QED BY <4>2, <4>3
    <3>4. Len(more) = take /\ \A i \in 1 .. take : more[i].pkt = Len(sent[t])
      BY <3>3 DEF Lace
    <3> HIDE DEF more, take, room
    <3>5. ASSUME buffered'[s].segs # <<>> PROVE buffered'[s].segs[1].pkt > Headers[s]
      <4>1. CASE old # <<>>
        <5>1. (old \o more)[1] = old[1]
          BY <1>4, <3>3, <3>4, <4>1
        <5>2. old[1].pkt > Headers[s]
          BY <2>2, <4>1 DEF NoHeader
        <5>3. QED BY <3>2, <5>1, <5>2
      <4>2. CASE old = <<>>
        <5>1. old \o more = more
          BY <4>2
        <5>2. QED BY <2>2, <3>1, <3>2, <3>4, <3>5, <4>2
      <4>3. QED BY <4>1, <4>2
    <3>6. QED BY <1>2, <3>1, <3>5, Zenon DEF NoHeader
  <2>3. QED BY <2>1, <2>2
<1>6. QED BY <1>2, <1>5, DataInPlace DEF DataOnlyInv

LEMMA StampData ==
  ASSUME Fitting, TypeInv, ProtocolInv, StreamsInv, TurnsInv, DataOnlyInv,
         StampHeader \/ StampContent \/ StampTheora, NEW s \in Streams
  PROVE  DataOnly(s)'
<1> SUFFICES ASSUME NEW t \in Streams, t = writing.s PROVE DataOnly(s)'
  BY AtWork
<1>1. step = "stamp" /\ step' \in {"flush", "none"} /\ writing' = writing
  BY DEF StampHeader, StampContent, StampTheora, Doing, GoTo
<1>2. UNCHANGED <<link, header_written, sent, queue>>
  BY Zenon DEF StampHeader, StampContent, StampTheora, calls
<1>3. stage' = stage
  <2>1. StampHeader => stage' = stage
    BY DEF StampHeader, GoTo
  <2>2. StampContent \/ StampTheora => stage' = stage
    BY StampedIdle
  <2>3. QED BY <2>1, <2>2
<1>4. buffered'[s].segs = buffered[s].segs
  <2>1. buffered \in [Streams -> BuilderSet]
    BY DEF TypeInv, DataInv, BuffersInv
  <2>2. buffered[s] \in BuilderSet
    BY <2>1
  <2>3. CASE StampHeader
    BY <2>1, <2>2, <2>3 DEF StampHeader, BuilderSet
  <2>4. CASE StampContent
    BY <2>1, <2>2, <2>4 DEF StampContent, BuilderSet
  <2>5. CASE StampTheora
    BY <2>1, <2>2, <2>5 DEF StampTheora, BuilderSet
  <2>6. QED BY <2>3, <2>4, <2>5
<1>5. Resuming(s)' => Resuming(s)
  BY <1>1 DEF Resuming, OwnStep
<1>6. NoHeader(s) => NoHeader(s)'
  BY <1>2, <1>4, <1>5, NoHeaderStays
<1>7. QED BY <1>2, <1>3, <1>6, DataInPlace DEF DataOnlyInv

LEMMA FlushPageData ==
  ASSUME Headed, TypeInv, DataOnlyInv, FlushPage, NEW s \in Streams
  PROVE  DataOnly(s)'
<1> SUFFICES ASSUME NEW t \in Streams, t = writing.s PROVE DataOnly(s)'
  BY AtWork
<1> DEFINE b    == buffered[t]
           c    == PageTime(t, b.granule)
           time == IF c > newest_time[t] THEN c ELSE newest_time[t]
           flags == (IF b.cont THEN {"cont"} ELSE {}) \cup (IF bos_emitted[t] THEN {} ELSE {"bos"})
           page == Page(t, flags, b.granule, b.segs, time)
           item == [page |-> page, kf |-> b.kf]
<1>1. /\ step = "flush" /\ step' = "release" /\ writing' = writing
      /\ queue' = [queue EXCEPT ![t] = Append(@, item)]
      /\ buffered' = [buffered EXCEPT ![t] = NextBuilder(b)]
  BY DEF FlushPage, Doing, GoTo
<1>2. UNCHANGED <<link, header_written, stage, sent>>
  BY Zenon DEF FlushPage, GoTo, calls
<1>3. buffered \in [Streams -> BuilderSet] /\ queue \in [Streams -> Seq(ItemSet)]
  BY DEF TypeInv, DataInv, BuffersInv, QueuesInv
<1>4. b.segs # <<>>
  BY <1>1 DEF TypeInv, WritingInv
<1>5. Resuming(s)' => Resuming(s)
  BY <1>1 DEF Resuming, OwnStep, LacesLeft
<1>6. NoHeader(s) => NoHeader(s)'
  <2> SUFFICES ASSUME NoHeader(s) PROVE NoHeader(s)'
    OBVIOUS
  <2>1. CASE s # t
    <3>1. buffered'[s] = buffered[s] /\ queue'[s] = queue[s]
      BY <1>1, <1>3, <2>1
    <3>2. QED BY <1>2, <1>5, <3>1, NoHeaderStays
  <2>2. CASE s = t
    <3>1. buffered'[s].segs = <<>>
      BY <1>1, <1>3, <2>2 DEF NextBuilder, EmptyBuilder
    <3>2. b.segs[1].pkt > Headers[s]
      BY <1>4, <2>2 DEF NoHeader
    <3>3. item.page.stream = s /\ item.page.segs = b.segs
      BY <2>2 DEF Page
    <3>4. ~IsHeader(item.page)
      <4>1. item.page.segs[1].pkt \in Nat /\ Headers[s] \in Nat
        <5>1. b.segs \in Seq(LaceSet)
          BY AtWork
        <5>2. b.segs[1] \in LaceSet
          BY <1>4, <5>1
        <5>3. QED BY <3>3, <5>2, MuxAssumption DEF LaceSet
      <4> HIDE DEF item
      <4>2. QED BY <3>2, <3>3, <4>1, HeaderPage
    <3> HIDE DEF item, b
    <3>5. queue[s] \in Seq(ItemSet) /\ queue'[s] = Append(queue[s], item)
      BY <1>1, <1>3, <2>2
    <3>6. ASSUME NEW i \in 1 .. Len(queue'[s]) PROVE ~IsHeader(queue'[s][i].page)
      <4>1. queue'[s][i] = item \/ (i \in 1 .. Len(queue[s]) /\ queue'[s][i] = queue[s][i])
        BY <3>5
      <4>2. \A j \in 1 .. Len(queue[s]) : ~IsHeader(queue[s][j].page)
        BY Zenon DEF NoHeader
      <4>3. QED BY <3>4, <4>1, <4>2
    <3>7. /\ Len(sent'[s]) >= Headers[s]
          /\ Resuming(s)' => Len(sent'[s]) > Headers[s]
      BY <1>2, <1>5 DEF NoHeader
    <3>8. QED BY <3>1, <3>6, <3>7, Zenon DEF NoHeader
  <2>3. QED BY <2>1, <2>2
<1>7. QED BY <1>2, <1>6, DataInPlace DEF DataOnlyInv

\* A page let out.
LEMMA LetOutData ==
  ASSUME TypeInv, DataOnlyInv, NEW t \in Streams, WritePending(t), queue[t] # <<>>,
         UNCHANGED <<link, header_written, stage, sent, buffered, step, writing>>, NEW s \in Streams
  PROVE  DataOnly(s)'
<1>1. queue' = [queue EXCEPT ![t] = Tail(@)] /\ queue \in [Streams -> Seq(ItemSet)]
  BY DEF WritePending, TypeInv, DataInv, QueuesInv
<1>2. Resuming(s)' => Resuming(s)
  BY Zenon DEF Resuming, OwnStep, LacesLeft
<1>3. NoHeader(s) => NoHeader(s)'
  <2> SUFFICES ASSUME NoHeader(s) PROVE NoHeader(s)'
    OBVIOUS
  <2>1. CASE s # t
    <3>1. queue'[s] = queue[s]
      BY <1>1, <2>1
    <3>2. QED BY <1>2, <3>1, NoHeaderStays
  <2>2. CASE s = t
    <3>1. queue[s] \in Seq(ItemSet) /\ queue'[s] = Tail(queue[s])
      BY <1>1, <2>2
    <3>2. ASSUME NEW i \in 1 .. Len(queue'[s]) PROVE ~IsHeader(queue'[s][i].page)
      <4>1. i + 1 \in 1 .. Len(queue[s]) /\ queue'[s][i] = queue[s][i + 1]
        BY <2>2, <3>1
      <4>2. QED BY <4>1, Zenon DEF NoHeader
    <3>3. /\ Len(sent'[s]) >= Headers[s]
          /\ Resuming(s)' => Len(sent'[s]) > Headers[s]
      BY <1>2 DEF NoHeader
    <3>4. buffered'[s].segs # <<>> => buffered'[s].segs[1].pkt > Headers[s]
      BY DEF NoHeader
    <3>5. QED BY <3>2, <3>3, <3>4, Zenon DEF NoHeader
  <2>3. QED BY <2>1, <2>2
<1>4. QED BY <1>3, DataInPlace DEF DataOnlyInv

\* The header section over: every header is out.
LEMMA HeadersDrained ==
  ASSUME TypeInv, ProtocolInv, TurnsInv, DrainDone, stage = "drain_headers", NEW s \in Streams
  PROVE  DataOnly(s)'
<1>1. /\ step = "none" /\ step' = "none" /\ Holding(0) = {} /\ header_written = TRUE
  BY UnderWay DEF DrainDone, Draining, Inside, TypeInv
<1>2. UNCHANGED <<link, sent, buffered, queue>>
  BY Zenon DEF DrainDone, writers, calls
<1> SUFFICES ASSUME s \in Current PROVE NoHeader(s)'
  BY <1>2, LinkKept, Zenon DEF DataOnly
<1>3. Section(s) /\ ~Blank(s) /\ HeadersPassed(s)
  <2>1. ~Later(s)
    BY Placing DEF Placed, TypeInv, ControlInv
  <2>2. QED BY <1>1, <2>1 DEF Section, Blank, BosDue, HeadersPassed
<1>4. Given(s) /\ AtTurn(s)
  BY <1>3, Zenon DEF TurnsInv, HeaderTurns
<1>5. Len(sent[s]) = Headers[s]
  <2>1. Handed(s) = Len(sent[s]) + 0
    BY <1>1, Zenon DEF Handed
  <2>2. Handed(s) = Headers[s]
    BY <1>3, <1>4, Zenon DEF Given
  <2>3. Len(sent[s]) \in Nat
    BY DEF TypeInv, DataInv, SentInv
  <2>4. QED BY <2>1, <2>2, <2>3
<1>6. buffered[s].segs = <<>>
  BY <1>1, <1>4 DEF AtTurn, OwnStep
<1>7. queue[s] = <<>>
  <2>1. PICK i \in 1 .. Len(Order) : s = Order[i]
    BY OrderFacts DEF TypeInv, ControlInv
  <2>2. i \in DOMAIN Order
    BY OrderFacts DEF TypeInv, ControlInv
  <2>3. ~(Len(queue[s]) > 0)
    BY <1>1, <2>1, <2>2 DEF Holding
  <2>4. queue[s] \in Seq(ItemSet)
    BY DEF TypeInv, DataInv, QueuesInv
  <2>5. QED BY <2>3, <2>4
<1>8. Headers[s] \in Nat /\ 1 .. Len(queue[s]) = {}
  BY <1>7, MuxAssumption
<1>9. ~Resuming(s)'
  BY <1>1 DEF Resuming, OwnStep
<1>10. QED BY <1>2, <1>5, <1>6, <1>8, <1>9 DEF NoHeader

LEMMA CloseStreamData ==
  ASSUME TypeInv, DataOnlyInv, CloseStream, NEW s \in Streams
  PROVE  DataOnly(s)'
<1> SUFFICES ASSUME NEW t \in Streams, t = Turn PROVE DataOnly(s)'
  BY TurnType DEF TypeInv
<1>1. step = "none" /\ stage \in ClosingLoops
  BY DEF CloseStream, Closing, Inside, ClosingLoops
<1>2. UNCHANGED <<link, header_written, sent, buffered, step>>
  BY Zenon DEF CloseStream, calls
<1>3. queue \in [Streams -> Seq(ItemSet)] /\ queue[t] \in Seq(ItemSet)
  BY DEF TypeInv, DataInv, QueuesInv
<1>4. InHeaders => InHeaders'
  BY <1>1, <1>2 DEF InHeaders, Unopened, ClosingLoops, BosLoops, HeaderLoops
<1>5. ~Resuming(s)'
  BY <1>1, <1>2 DEF Resuming, OwnStep
<1> DEFINE n == Len(queue[t])
<1>6. NoHeader(s) => NoHeader(s)'
  <2> SUFFICES ASSUME NoHeader(s) PROVE NoHeader(s)'
    OBVIOUS
  <2>1. CASE queue'[s] = queue[s]
    BY <1>2, <1>5, <2>1, NoHeaderStays
  <2>2. ASSUME queue'[s] # queue[s], NEW i \in 1 .. Len(queue'[s])
        PROVE  ~IsHeader(queue'[s][i].page)
    <3>1. \A j \in 1 .. Len(queue[s]) : ~IsHeader(queue[s][j].page)
      BY Zenon DEF NoHeader
    <3>2. CASE n > 0 /\ queue' = [queue EXCEPT ![t][n].page.flags = @ \cup {"eos"}]
      <4> DEFINE old == queue[t][n].page
                 p == [old EXCEPT !.flags = @ \cup {"eos"}]
                 item == [queue[t][n] EXCEPT !.page = p]
      <4>1. n \in 1 .. n /\ queue[t][n] \in ItemSet
        BY <1>3, <3>2
      <4>2. old \in PageSet
        BY <4>1 DEF ItemSet
      <4>3. p.stream = old.stream /\ p.segs = old.segs
        BY <4>2 DEF PageSet
      <4>4. item.page = p
        BY <4>1 DEF ItemSet
      <4>5. s = t /\ queue'[t] = [queue[t] EXCEPT ![n] = item]
        BY <1>3, <2>2, <3>2
      <4> HIDE DEF item, p
      <4>6. i \in 1 .. n /\ (queue'[t][i] = item \/ queue'[t][i] = queue[t][i])
        BY <1>3, <2>2, <4>1, <4>5
      <4>7. ~IsHeader(old)
        BY <3>1, <4>1, <4>5
      <4>8. ~IsHeader(p)
        BY <4>3, <4>7 DEF IsHeader
      <4>9. QED BY <3>1, <4>4, <4>5, <4>6, <4>8
    <3>3. CASE queue' = [queue EXCEPT ![t] = <<[kf |-> NoPts, page |->
                           Page(t, {"eos"}, last_granule[t], <<>>, newest_time[t])]>>]
      <4> DEFINE p == Page(t, {"eos"}, last_granule[t], <<>>, newest_time[t])
      <4>1. s = t /\ queue'[s] = <<[kf |-> NoPts, page |-> p]>>
        BY <1>3, <2>2, <3>3
      <4>2. p.segs = <<>> /\ p.stream \in Streams
        BY DEF Page
      <4> HIDE DEF p
      <4>3. p.stream # "skeleton"
        BY <4>2, MuxAssumption
      <4>4. ~IsHeader(p)
        BY <4>2, <4>3 DEF IsHeader
      <4>5. queue'[s][i].page = p
        BY <2>2, <4>1
      <4>6. QED BY <4>4, <4>5
    <3>4. QED BY <2>2, <3>2, <3>3 DEF CloseStream
  <2>3. /\ Len(sent'[s]) >= Headers[s]
        /\ buffered'[s].segs # <<>> => buffered'[s].segs[1].pkt > Headers[s]
    BY <1>2 DEF NoHeader
  <2>4. QED BY <1>5, <2>1, <2>2, <2>3, Zenon DEF NoHeader
<1>7. QED BY <1>2, <1>4, <1>6, DataOnlyOn DEF DataOnlyInv

LEMMA DataStep ==
  ASSUME Headed, Fitting, TypeInv, ProtocolInv, StreamsInv, TurnsInv, DataOnlyInv, [Next]_vars
  PROVE  DataOnlyInv'
<1> SUFFICES ASSUME NEW s \in Streams PROVE DataOnly(s)'
  BY DEF DataOnlyInv
<1>1. CASE WriteHeader \/ Arm \/ ArmSkeleton \/ NextLink \/ WriteBos \/ WriteSecondary \/ PassTurn
  BY <1>1, DataLater
<1>2. CASE WriteSkeletonPage /\ stage = "fishead"
  <2>1. stage' = "theora_bos"
    BY <1>2 DEF WriteSkeletonPage, Inside, NextStage, After
  <2>2. QED BY <2>1 DEF DataOnly, InHeaders, BosLoops
<1>3. CASE DrainDone /\ stage = "drain_headers"
  BY <1>3, HeadersDrained
<1>4. CASE \/ BeginNewLink \/ WriteTrailer \/ Backfill
           \/ WriteSkeletonPage /\ stage # "fishead"
           \/ DrainDone /\ stage # "drain_headers"
           \/ \E t \in Targets \cup {NoTarget} : SetPageTarget(t)
           \/ UNCHANGED vars
  BY <1>4, DataElsewhere
<1>5. CASE \/ CloseFlush \/ ReleaseDone
           \/ \E r \in Streams : \E p \in Packets[r] : WritePacket(r, p)
  BY <1>5, DataCalls
<1>6. CASE BeginPacket \/ PutLaces \/ StampHeader \/ StampContent \/ StampTheora
  BY <1>6, BeginPacketData, PutLacesData, StampData
<1>7. CASE FlushPage \/ CloseStream
  BY <1>7, FlushPageData, CloseStreamData
<1>8. CASE ReleasePage \/ DrainPage
  <2>1. UNCHANGED <<link, header_written, stage, sent, buffered, step, writing>>
    BY <1>8, Zenon DEF ReleasePage, DrainPage, control, calls
  <2>2. PICK n \in {0, 1} : WritePending(Order[Earliest(n)]) /\ Holding(n) # {}
    BY <1>8, Zenon DEF ReleasePage, DrainPage, Releasable
  <2>3. Order[Earliest(n)] \in Streams /\ queue[Order[Earliest(n)]] # <<>>
    BY <2>2, EarliestStream DEF TypeInv, DataInv
  <2>4. QED BY <2>1, <2>2, <2>3, LetOutData
<1>9. QED
  BY <1>1, <1>2, <1>3, <1>4, <1>5, <1>6, <1>7, <1>8, Zenon DEF Next, Calls, Steps, Terminated

-----------------------------------------------------------------------------
(* The header section on the wire.                                         *)

HereAt(p) ==
  /\ ~Unopened
  /\ BosOpen => "bos" \in p.flags
  /\ stage = "theora_bos" => p.stream \in Theora \cup {"skeleton"}
  /\ BeforeData => IsHeader(p)
FirstAt(p, q) ==
  /\ "bos" \in q.flags => "bos" \in p.flags /\ q.stream # "skeleton"
  /\ "bos" \in q.flags /\ q.stream \in Theora => p.stream \in Theora \cup {"skeleton"}
  /\ IsHeader(q) => IsHeader(p)

\* The pages w are those of the wire, before or after the step.
LEMMA SectionAt ==
  ASSUME NEW w, w = wire
  PROVE  SectionOnWire <=> \A i \in 1 .. Len(w) : w[i].link = link => HereAt(w[i])
BY Zenon DEF SectionOnWire, Here, HereAt

LEMMA SectionAtNext ==
  ASSUME NEW w, w = wire'
  PROVE  SectionOnWire' <=> \A i \in 1 .. Len(w) : w[i].link = link' => HereAt(w[i])'
BY Zenon DEF SectionOnWire, Here, HereAt

LEMMA FirstsAt ==
  ASSUME TypeInv
  PROVE  HeadersFirst <=> \A i, j \in 1 .. Len(wire) :
                            i < j /\ wire[i].link = wire[j].link => FirstAt(wire[i], wire[j])
<1>1. DOMAIN wire = 1 .. Len(wire)
  BY DEF TypeInv, DataInv, WireInv
<1>2. QED BY <1>1, Zenon DEF HeadersFirst, FirstAt

\* The section never goes back.
StagesOn ==
  /\ Unopened' => Unopened
  /\ BosOpen' => BosOpen
  /\ stage' = "theora_bos" => stage = "theora_bos" \/ Unopened
  /\ BeforeData' => BeforeData

LEMMA HereOn ==
  ASSUME StagesOn, NEW p, HereAt(p)
  PROVE  HereAt(p)'
BY Zenon DEF StagesOn, HereAt

LEMMA StagesStay ==
  ASSUME UNCHANGED <<stage, header_written>>
  PROVE  StagesOn
<1>1. Unopened' = Unopened
  BY Zenon DEF Unopened
<1>2. BosOpen' = BosOpen /\ InHeaders' = InHeaders
  BY <1>1, Zenon DEF BosOpen, InHeaders
<1>3. QED BY <1>1, <1>2, Zenon DEF BeforeData, StagesOn

\* Before the section, or while no page of it may be out.
LEMMA StagesFromStart ==
  ASSUME Unopened
  PROVE  StagesOn
BY Zenon DEF StagesOn, BosOpen, BeforeData, InHeaders

\* After it.
LEMMA StagesPast ==
  ASSUME header_written',
         stage' \notin {"arm", "fishead", "drain_headers", "bone", "index", "skeleton_eos"}
                       \cup BosLoops \cup HeaderLoops
  PROVE  StagesOn
BY DEF StagesOn, BosOpen, BeforeData, InHeaders, Unopened, BosLoops

\* No page is put on the wire.
LEMMA SectionKept ==
  ASSUME SectionOnWire, HeadersFirst, StagesOn, UNCHANGED <<wire, link>>
  PROVE  SectionOnWire' /\ HeadersFirst'
<1>1. HeadersFirst'
  BY Zenon DEF HeadersFirst
<1>2. SectionOnWire'
  <2> SUFFICES ASSUME NEW w, w = wire PROVE SectionOnWire'
    OBVIOUS
  <2>1. \A i \in 1 .. Len(w) : w[i].link = link => HereAt(w[i])
    BY SectionAt
  <2>2. \A i \in 1 .. Len(w) : w[i].link = link' => HereAt(w[i])'
    BY <2>1, HereOn
  <2>3. w = wire'
    OBVIOUS
  <2>4. QED BY <2>2, <2>3, SectionAtNext
<1>3. QED BY <1>1, <1>2

\* A page of the link comes next.
LEMMA SectionGrows ==
  ASSUME TypeInv, TypeInv', SectionOnWire, HeadersFirst, StagesOn,
         NEW p \in PageSet, p.link = link, wire' = Append(wire, p), UNCHANGED link,
         HereAt(p)',
         "bos" \in p.flags => BosOpen,
         "bos" \in p.flags /\ p.stream = "skeleton" => Unopened,
         "bos" \in p.flags /\ p.stream \in Theora => Unopened \/ stage = "theora_bos",
         IsHeader(p) => BeforeData
  PROVE  SectionOnWire' /\ HeadersFirst'
<1> SUFFICES ASSUME NEW w, w = wire, NEW v, v = wire', NEW n, n = Len(w)
             PROVE  SectionOnWire' /\ HeadersFirst'
  OBVIOUS
<1>1. OneMore(w, v, p)
  BY Appended DEF TypeInv, DataInv, WireInv
<1>2. /\ n \in Nat /\ Len(v) = n + 1 /\ v[n + 1] = p
      /\ \A i \in 1 .. n : v[i] = w[i]
  BY <1>1 DEF OneMore
<1>3. \A i \in 1 .. n : w[i].link = link => HereAt(w[i])
  BY SectionAt
<1>4. SectionOnWire'
  <2>1. ASSUME NEW i \in 1 .. Len(v), v[i].link = link' PROVE HereAt(v[i])'
    <3>1. CASE i \in 1 .. n
      <4>1. v[i] = w[i] /\ HereAt(w[i])
        BY <1>2, <1>3, <2>1, <3>1
      <4>2. HereAt(w[i])'
        BY <4>1, HereOn
      <4>3. QED BY <4>1, <4>2
    <3>2. CASE i = n + 1
      BY <1>2, <3>2
    <3>3. QED BY <1>2, <3>1, <3>2
  <2>2. QED BY <2>1, SectionAtNext
<1>5. ASSUME NEW q, HereAt(q) PROVE FirstAt(q, p)
  BY <1>5, Zenon DEF HereAt, FirstAt
<1>6. HeadersFirst'
  <2>1. \A i, j \in 1 .. n : i < j /\ w[i].link = w[j].link => FirstAt(w[i], w[j])
    BY FirstsAt
  <2>2. ASSUME NEW i \in 1 .. Len(v), NEW j \in 1 .. Len(v), i < j, v[i].link = v[j].link
        PROVE  FirstAt(v[i], v[j])
    <3>1. CASE j \in 1 .. n
      <4>1. i \in 1 .. n
        BY <1>2, <2>2, <3>1
      <4>2. v[i] = w[i] /\ v[j] = w[j]
        BY <1>2, <3>1, <4>1
      <4>3. QED BY <2>1, <2>2, <3>1, <4>1, <4>2
    <3>2. CASE j = n + 1
      <4>1. i \in 1 .. n /\ v[j] = p
        BY <1>2, <2>2, <3>2
      <4>2. v[i] = w[i]
        BY <1>2, <4>1
      <4>3. HereAt(w[i])
        BY <1>3, <2>2, <4>1, <4>2
      <4>4. QED BY <1>5, <4>1, <4>2, <4>3
    <3>3. QED BY <1>2, <3>1, <3>2
  <2>3. DOMAIN v = 1 .. Len(v)
    BY DEF TypeInv, DataInv, WireInv
  <2>4. \A i, j \in DOMAIN v : i < j /\ v[i].link = v[j].link => FirstAt(v[i], v[j])
    BY <2>2, <2>3
  <2>5. v = wire'
    OBVIOUS
  <2>6. \A i, j \in DOMAIN wire' : i < j /\ wire'[i].link = wire'[j].link => FirstAt(wire'[i], wire'[j])
    BY <2>4, <2>5
  <2>7. QED BY <2>6, Zenon DEF HeadersFirst, FirstAt, IsHeader
<1>7. QED BY <1>4, <1>6

LEMMA StepStages ==
  ASSUME Fitting, Protocol, TypeInv, ProtocolInv, StreamsInv, TurnsInv, [Next]_vars, ~NextLink
  PROVE  StagesOn
<1>1. CASE ~header_written \/ Arm \/ (WriteSkeletonPage /\ stage = "fishead")
  BY <1>1, StagesFromStart DEF Arm, Inside, Unopened
<1> SUFFICES ASSUME header_written, ~Arm, ~(WriteSkeletonPage /\ stage = "fishead") PROVE StagesOn
  BY <1>1
<1>2. CASE UNCHANGED <<stage, header_written>>
  BY <1>2, StagesStay
<1>3. CASE BeginNewLink \/ WriteTrailer \/ Backfill \/ CloseStream
  <2>1. header_written' /\ stage' \in ClosingLoops \cup {"idle", "drain", "drain_link"}
    BY <1>3 DEF BeginNewLink, WriteTrailer, Backfill, CloseStream, calls, NextStage, NextTurn, Inside,
                Closing, After, AfterClose, ClosingLoops
  <2>2. QED BY <2>1, StagesPast DEF BosLoops, HeaderLoops, ClosingLoops
<1>4. CASE StampContent \/ StampTheora
  <2>1. stage' = "idle" /\ header_written'
    BY <1>4, StampedIdle DEF StampContent, StampTheora
  <2>2. QED BY <2>1, StagesPast DEF BosLoops, HeaderLoops
<1>5. CASE WriteBos \/ PassTurn
  <2>1. UNCHANGED header_written
    BY <1>5, Zenon DEF WriteBos, PassTurn, calls
  <2>2. stage \in BosLoops \cup HeaderLoops /\ stage' \in {stage, After(stage)}
    BY <1>5 DEF WriteBos, PassTurn, BosTurn, InPass, Inside, NextTurn, BosLoops, HeaderLoops
  <2>3. CASE stage' = stage
    BY <1>2, <2>1, <2>3
  <2>4. CASE stage' = After(stage)
    BY <2>1, <2>2, <2>4 DEF StagesOn, BosOpen, BeforeData, InHeaders, Unopened, BosLoops, HeaderLoops,
                            After, AfterHeaders
  <2>5. QED BY <2>2, <2>3, <2>4
<1>6. CASE WriteSkeletonPage
  <2>1. UNCHANGED header_written
    BY <1>6, Zenon DEF WriteSkeletonPage, calls
  <2>2. stage \in {"bone", "index", "skeleton_eos"} /\ stage' \in {"bone", "index", "skeleton_eos", "idle"}
    BY <1>6 DEF WriteSkeletonPage, Inside, NextTurn, NextStage, After
  <2>3. QED BY <2>1, <2>2 DEF StagesOn, BosOpen, BeforeData, InHeaders, Unopened, BosLoops, HeaderLoops
<1>7. CASE DrainDone
  <2>1. UNCHANGED header_written
    BY <1>7, Zenon DEF DrainDone, calls
  <2>2. stage \in {"drain_headers", "drain_link", "drain"} /\ stage' = After(stage)
    BY <1>7 DEF DrainDone, Draining, Inside, NextStage
  <2>3. CASE stage = "drain_headers"
    BY <2>1, <2>2, <2>3 DEF StagesOn, BosOpen, BeforeData, InHeaders, Unopened, BosLoops, HeaderLoops,
                            After
  <2>4. CASE stage \in {"drain_link", "drain"}
    <3>1. stage' \in {"link", "backfill"}
      BY <2>2, <2>4 DEF After
    <3>2. QED BY <2>1, <3>1, StagesPast DEF BosLoops, HeaderLoops
  <2>5. QED BY <2>2, <2>3, <2>4
<1>8. CASE WriteHeader \/ ArmSkeleton
  BY <1>8 DEF WriteHeader, ArmSkeleton, Inside, ProtocolInv
<1>9. CASE \/ WriteSecondary \/ BeginPacket \/ PutLaces \/ StampHeader \/ FlushPage \/ ReleasePage
           \/ ReleaseDone \/ DrainPage \/ CloseFlush \/ UNCHANGED vars
           \/ \E t \in Targets \cup {NoTarget} : SetPageTarget(t)
           \/ \E s \in Streams : \E p \in Packets[s] : WritePacket(s, p)
  <2>1. UNCHANGED <<stage, header_written>>
    BY <1>9, Zenon DEF WriteSecondary, BeginPacket, PutLaces, StampHeader, FlushPage, ReleasePage,
                       ReleaseDone, DrainPage, CloseFlush, SetPageTarget, WritePacket, GoTo, control,
                       calls, vars
  <2>2. QED BY <2>1, StagesStay
<1>10. QED
  BY <1>3, <1>4, <1>5, <1>6, <1>7, <1>8, <1>9, Zenon DEF Next, Calls, Steps, Terminated

LEMMA WriteBosSection ==
  ASSUME TypeInv, TypeInv', ProtocolInv, SectionOnWire, HeadersFirst, StagesOn, WriteBos
  PROVE  SectionOnWire' /\ HeadersFirst'
<1> SUFFICES ASSUME NEW t \in Streams, t = Turn PROVE SectionOnWire' /\ HeadersFirst'
  BY TurnType DEF TypeInv
<1> SUFFICES ASSUME NEW p, p = Page(t, {"bos"}, 0, <<Lace(1, 1, 1)>>, 0)
             PROVE  SectionOnWire' /\ HeadersFirst'
  OBVIOUS
<1>1. wire' = Append(wire, p) /\ UNCHANGED <<link, header_written>>
  BY DEF WriteBos, calls
<1>2. p \in PageSet
  <2>1. <<Lace(1, 1, 1)>> \in SegsSet
    <3>1. Lace(1, 1, 1) \in LaceSet
      BY DEF Lace, LaceSet
    <3>2. <<Lace(1, 1, 1)>> \in Seq(LaceSet) /\ Len(<<Lace(1, 1, 1)>>) = 1
      BY <3>1
    <3>3. QED BY <3>2, MuxAssumption DEF SegsSet
  <2>2. {"bos"} \in PageFlags /\ 0 \in Granules
    BY DEF PageFlags, Granules
  <2>3. QED BY <2>1, <2>2, PageType DEF TypeInv, DataInv
<1>3. /\ p.stream = t /\ p.link = link /\ p.flags = {"bos"}
      /\ p.segs # <<>> /\ p.segs[1].pkt = 1
  BY DEF Page, Lace
<1>4. /\ stage \in BosLoops /\ step = "none"
      /\ stage' \in {"theora_bos", "other_bos", "theora_headers"}
      /\ stage' = "theora_bos" => stage = "theora_bos"
      /\ stage = "theora_bos" <=> t \in Theora
  BY DEF WriteBos, BosTurn, InPass, Inside, NextTurn, After, BosLoops
<1>5. header_written = TRUE
  BY <1>4, UnderWay DEF TypeInv, BosLoops
<1>6. IsHeader(p)
  BY <1>3, HeaderRange DEF IsHeader
<1>7. IsHeader(p)'
  BY <1>6, Zenon DEF IsHeader, HeaderCount
<1>8. HereAt(p)'
  <2>1. ~Unopened'
    BY <1>1, <1>4, <1>5 DEF Unopened
  <2>2. stage' = "theora_bos" => p.stream \in Theora \cup {"skeleton"}
    BY <1>3, <1>4
  <2>3. QED BY <1>3, <1>7, <2>1, <2>2 DEF HereAt
<1>9. BosOpen /\ BeforeData
  BY <1>4 DEF BosOpen, BeforeData, InHeaders
<1>10. p.stream # "skeleton" /\ (p.stream \in Theora => stage = "theora_bos")
  BY <1>3, <1>4, MuxAssumption
<1>11. QED BY <1>1, <1>2, <1>3, <1>8, <1>9, <1>10, SectionGrows

LEMMA WriteSkeletonPageSection ==
  ASSUME TypeInv, TypeInv', ProtocolInv, SectionOnWire, HeadersFirst, StagesOn, WriteSkeletonPage
  PROVE  SectionOnWire' /\ HeadersFirst'
<1>1. PICK flags \in PageFlags :
        /\ wire' = Append(wire, SkeletonPage(flags))
        /\ \/ stage = "fishead" /\ stage' = "theora_bos" /\ flags = {"bos"}
           \/ /\ stage \in {"bone", "index", "skeleton_eos"} /\ "bos" \notin flags
              /\ stage' \in {"bone", "index", "skeleton_eos", "idle"}
  BY DEF WriteSkeletonPage, PageFlags, Inside, NextStage, NextTurn, After
<1>2. UNCHANGED <<link, header_written>>
  BY Zenon DEF WriteSkeletonPage, calls
<1>3. header_written = TRUE
  BY <1>1, UnderWay DEF TypeInv
<1> SUFFICES ASSUME NEW p, p = SkeletonPage(flags) PROVE SectionOnWire' /\ HeadersFirst'
  OBVIOUS
<1>4. p \in PageSet
  BY SkeletonPageType DEF TypeInv, DataInv
<1>5. p.stream = "skeleton" /\ p.link = link /\ p.flags = flags
  BY DEF SkeletonPage
<1>6. wire' = Append(wire, p)
  BY <1>1
<1>7. IsHeader(p) /\ IsHeader(p)'
  BY <1>5, Zenon DEF IsHeader
<1>8. ~Unopened' /\ (BosOpen' => "bos" \in flags)
  BY <1>1, <1>2, <1>3 DEF Unopened, BosOpen, BosLoops
<1>9. HereAt(p)'
  BY <1>5, <1>7, <1>8, Zenon DEF HereAt
<1>10. ("bos" \in flags => Unopened /\ BosOpen) /\ BeforeData
  BY <1>1 DEF Unopened, BosOpen, BeforeData, InHeaders
<1>11. QED BY <1>2, <1>4, <1>5, <1>6, <1>9, <1>10, SectionGrows

LEMMA LetOutSection ==
  ASSUME Headed, TypeInv, TypeInv', StreamsInv, QueuedHere, DataOnlyInv, SectionOnWire, HeadersFirst,
         NEW t \in Current, queue[t] # <<>>, WritePending(t),
         UNCHANGED <<stage, link, header_written>>, header_written,
         stage \in {"idle", "drain_headers", "drain_link", "drain"} \cup HeaderLoops \cup ClosingLoops
  PROVE  SectionOnWire' /\ HeadersFirst'
<1>1. t \in Streams
  BY OrderFacts DEF TypeInv, ControlInv
<1> SUFFICES ASSUME NEW p, p = Head(queue[t]).page PROVE SectionOnWire' /\ HeadersFirst'
  OBVIOUS
<1>2. wire' = Append(wire, p)
  BY DEF WritePending
<1>3. queue \in [Streams -> Seq(ItemSet)] /\ WireInv /\ QueuesInv
  BY DEF TypeInv, DataInv, QueuesInv
<1>4. /\ queue[t] \in Seq(ItemSet) /\ 1 \in 1 .. Len(queue[t]) /\ p = queue[t][1].page
      /\ p \in PageSet
  <2>1. queue[t] \in Seq(ItemSet) /\ Head(queue[t]) \in ItemSet /\ Head(queue[t]) = queue[t][1]
        /\ Len(queue[t]) \in Nat \ {0}
    BY <1>1, <1>3
  <2>2. QED BY <2>1 DEF ItemSet
<1>5. p.link = link /\ "bos" \notin p.flags
  BY <1>1, <1>4 DEF QueuedHere
<1>6. ~Unopened /\ ~BosOpen /\ stage # "theora_bos"
  BY DEF Unopened, BosOpen, BosLoops, HeaderLoops, ClosingLoops
<1>7. StagesOn
  BY StagesStay
<1>8. BeforeData => IsHeader(p)
  <2> SUFFICES ASSUME BeforeData PROVE IsHeader(p)
    OBVIOUS
  <2>1. Section(t)
    BY <1>6 DEF Section, BeforeData, InHeaders, HeaderLoops, ClosingLoops
  <2>2. HeaderPages(t)
    BY <1>1, <2>1, Zenon DEF StreamsInv, StreamInv, Nil
  <2>3. PICK j \in 1 .. Len(Pages(t)) : Pages(t)[j] = queue[t][1].page
    BY <1>1, <1>3, <1>4, QueuedPage
  <2>4. QED BY <1>4, <2>2, <2>3 DEF HeaderPages
<1>9. IsHeader(p) => BeforeData
  <2>1. ~InHeaders => ~IsHeader(p)
    BY <1>1, <1>4, Zenon DEF DataOnlyInv, DataOnly, NoHeader
  <2>2. QED BY <2>1, Zenon DEF BeforeData
<1>10. HereAt(p)'
  <2>1. Unopened' = Unopened
    BY Zenon DEF Unopened
  <2>2. BosOpen' = BosOpen /\ InHeaders' = InHeaders
    BY <2>1, Zenon DEF BosOpen, InHeaders
  <2>3. BeforeData' = BeforeData
    BY <2>2, Zenon DEF BeforeData
  <2>4. IsHeader(p) => IsHeader(p)'
    BY Zenon DEF IsHeader, HeaderCount
  <2>5. QED BY <1>6, <1>8, <2>1, <2>2, <2>3, <2>4, Zenon DEF HereAt
<1>11. QED BY <1>2, <1>4, <1>5, <1>7, <1>9, <1>10, SectionGrows

LEMMA StepSection ==
  ASSUME Headed, Fitting, Protocol, TypeInv, TypeInv', ProtocolInv, StreamsInv, LinksInv, OrderInv,
         [Next]_vars
  PROVE  SectionOnWire' /\ HeadersFirst'
<1>1. SectionOnWire /\ HeadersFirst /\ TurnsInv /\ DataOnlyInv /\ QueuedHere
  BY Zenon DEF OrderInv, LinksInv
<1>2. CASE NextLink
  <2>1. link' = link + 1 /\ UNCHANGED wire
    BY <1>2, Zenon DEF NextLink
  <2>2. HeadersFirst'
    BY <1>1, <2>1, Zenon DEF HeadersFirst
  <2>3. SectionOnWire'
    <3> SUFFICES ASSUME NEW w, w = wire PROVE SectionOnWire'
      OBVIOUS
    <3>1. \A i \in 1 .. Len(w) : w[i].link <= link
      BY Zenon DEF LinksInv, WireInLinks
    <3>2. \A i \in 1 .. Len(w) : w[i].link \in Nat
      <4>1. \A i \in 1 .. Len(w) : w[i] \in PageSet
        BY DEF TypeInv, DataInv, WireInv
      <4>2. \A p \in PageSet : p.link \in Nat
        BY DEF PageSet
      <4>3. QED BY <4>1, <4>2
    <3>3. link \in Nat
      BY MuxAssumption DEF TypeInv, ControlInv
    <3>4. \A i \in 1 .. Len(w) : w[i].link # link'
      BY <2>1, <3>1, <3>2, <3>3
    <3>5. w = wire'
      BY <2>1
    <3>6. QED BY <3>4, <3>5, SectionAtNext
  <2>4. QED BY <2>2, <2>3
<1>3. CASE ~NextLink
  <2>1. StagesOn
    BY <1>1, <1>3, StepStages
  <2>2. CASE WriteBos \/ WriteSkeletonPage
    BY <1>1, <2>1, <2>2, WriteBosSection, WriteSkeletonPageSection
  <2>3. CASE ReleasePage \/ DrainPage
    <3>1. UNCHANGED <<stage, link, header_written>>
      BY <2>3, Zenon DEF ReleasePage, DrainPage, control, calls
    <3>2. PICK n \in {0, 1} : WritePending(Order[Earliest(n)]) /\ Holding(n) # {}
      BY <2>3, Zenon DEF ReleasePage, DrainPage, Releasable
    <3>3. Order[Earliest(n)] \in Current /\ queue[Order[Earliest(n)]] # <<>>
      BY <3>2, EarliestStream DEF TypeInv, DataInv
    <3>4. CASE ReleasePage
      <4>1. step = "release"
        BY <3>4 DEF ReleasePage, Doing
      <4>2. header_written = TRUE /\ stage \in {"idle"} \cup HeaderLoops \cup ClosingLoops
        BY <4>1, UnderWay DEF TypeInv, CallInv
      <4>3. QED BY <1>1, <3>1, <3>2, <3>3, <4>2, LetOutSection
    <3>5. CASE DrainPage
      <4>1. stage \in {"drain_headers", "drain_link", "drain"}
        BY <3>5 DEF DrainPage, Draining, Inside
      <4>2. header_written = TRUE
        BY <4>1, UnderWay DEF TypeInv
      <4>3. QED BY <1>1, <3>1, <3>2, <3>3, <4>1, <4>2, LetOutSection
    <3>6. QED BY <2>3, <3>4, <3>5
  <2>4. CASE ~(WriteBos \/ WriteSkeletonPage \/ ReleasePage \/ DrainPage)
    <3>1. UNCHANGED <<wire, link>>
      BY <1>3, <2>4, Zenon DEF Next, Calls, Steps, Terminated, vars, calls, WriteHeader, WritePacket,
           SetPageTarget, BeginNewLink, WriteTrailer, Arm, ArmSkeleton, WriteSecondary, PassTurn,
           BeginPacket, PutLaces, StampHeader, StampContent, StampTheora, FlushPage, ReleaseDone,
           DrainDone, CloseFlush, CloseStream, Backfill
    <3>2. QED BY <1>1, <2>1, <3>1, SectionKept
  <2>5. QED BY <2>2, <2>3, <2>4
<1>4. QED BY <1>2, <1>3

-----------------------------------------------------------------------------
(* The theorem.                                                            *)

LEMMA InitOrder == Init => OrderInv
<1> SUFFICES ASSUME Init PROVE OrderInv
  OBVIOUS
<1>1. wire = <<>> /\ stage = "arm" /\ ~header_written
  BY DEF Init
<1>2. DOMAIN wire = {} /\ 1 .. Len(wire) = {}
  BY <1>1
<1>3. SectionOnWire /\ HeadersFirst
  BY <1>2, Zenon DEF SectionOnWire, HeadersFirst
<1>4. TurnsInv
  BY <1>1 DEF TurnsInv, HeaderTurns, Section, BosLoops, HeaderLoops
<1>5. DataOnlyInv
  BY <1>1, Zenon DEF DataOnlyInv, DataOnly, InHeaders, Unopened
<1>6. QED BY <1>3, <1>4, <1>5 DEF OrderInv

LEMMA StepOrder ==
  ASSUME Headed, Fitting, Protocol, TypeInv, TypeInv', PagesInv, LinksInv, LinksInv', OrderInv,
         [Next]_vars
  PROVE  OrderInv'
<1>1. ProtocolInv /\ StreamsInv /\ OpenedInv /\ OpenedInv' /\ TurnsInv /\ DataOnlyInv
  BY Zenon DEF PagesInv, StreamsInv, LinksInv, OrderInv
<1>2. SectionOnWire' /\ HeadersFirst'
  BY <1>1, StepSection
<1>3. TurnsInv'
  BY <1>1, TurnsStep
<1>4. DataOnlyInv'
  BY <1>1, DataStep
<1>5. QED BY <1>2, <1>3, <1>4, Zenon DEF OrderInv

\* In a link the BOS pages come first, the skeleton's before Theora's and
\* Theora's before the others, then the other pages of headers, then data
\* (mux.rs: write_header, release_ready_pages), for a caller who follows the API
\* and gives every stream extradata with headers, no more than its codec has.
THEOREM HeadersLead == Protocol /\ Headed /\ Fitting /\ Spec => []HeadersFirst
<1> DEFINE Inv == TypeInv /\ PagesInv /\ LinksInv /\ OrderInv
<1>1. Protocol /\ Headed /\ Fitting /\ Init => Inv
  BY InitType, InitPages, InitLinks, InitOrder
<1>2. Protocol /\ Headed /\ Fitting /\ Inv /\ [Next]_vars => Inv'
  <2> SUFFICES ASSUME Protocol, Headed, Fitting, Inv, [Next]_vars PROVE Inv'
    OBVIOUS
  <2>1. TypeInv' /\ PagesInv'
    BY TypeStep, StepPages
  <2>2. LinksInv'
    BY StepLinks
  <2>3. QED BY <2>1, <2>2, StepOrder
<1>3. Inv => HeadersFirst
  BY DEF OrderInv
<1>4. Protocol => []Protocol
  OBVIOUS
<1>5. Headed => []Headed
  OBVIOUS
<1>6. Fitting => []Fitting
  OBVIOUS
<1>7. QED BY <1>1, <1>2, <1>3, <1>4, <1>5, <1>6, PTL DEF Spec

-----------------------------------------------------------------------------
(* The time of a page.                                                     *)

LEMMA ProductCommutes == ASSUME NEW m \in Nat, NEW n \in Nat PROVE m * n = n * m
OBVIOUS

\* A page has the time flush_page compares it by, and 0 without a granule.
LEMMA TimeOfPage ==
  ASSUME NEW s \in Streams, NEW p, p.stream = s, p.granule \in Granules
  PROVE  /\ p.granule # NoPts => GranuleTime(p) = PageTime(s, p.granule)
         /\ p.granule = NoPts => GranuleTime(p) = 0
<1>1. s # "skeleton" /\ Scale[s] \in Nat /\ Span \in Nat \ {0} /\ p.granule \in Nat \cup {NoPts}
  BY MuxAssumption DEF Granules
<1>2. CASE p.granule = NoPts
  BY <1>2, Zenon DEF GranuleTime
<1>3. CASE p.granule # NoPts /\ s \in Theora
  <2>1. GranuleTime(p) = Scale[s] * FrameCount(p.granule)
    BY <1>1, <1>3, Zenon DEF GranuleTime
  <2>2. PageTime(s, p.granule) = FrameCount(p.granule) * Scale[s]
    BY <1>3, Zenon DEF PageTime
  <2>3. FrameCount(p.granule) * Scale[s] = Scale[s] * FrameCount(p.granule)
    <3>1. p.granule \div Span \in Nat /\ p.granule % Span \in Nat
      BY <1>1, <1>3
    <3>2. FrameCount(p.granule) \in Nat
      BY <3>1 DEF FrameCount
    <3>3. QED BY <1>1, <3>2, ProductCommutes
  <2>4. QED BY <1>3, <2>1, <2>2, <2>3
<1>4. CASE p.granule # NoPts /\ s \notin Theora
  <2>1. GranuleTime(p) = Scale[s] * p.granule
    BY <1>1, <1>4, Zenon DEF GranuleTime
  <2>2. PageTime(s, p.granule) = p.granule * Scale[s]
    BY <1>4, Zenon DEF PageTime
  <2>3. p.granule * Scale[s] = Scale[s] * p.granule
    BY <1>1, <1>4, ProductCommutes
  <2>4. QED BY <1>4, <2>1, <2>2, <2>3
<1>5. QED BY <1>2, <1>3, <1>4

LEMMA GranuleTimeType ==
  ASSUME ClocksInv, NEW p \in PageSet
  PROVE  GranuleTime(p) \in Nat
<1>1. p.stream \in Streams \cup {"skeleton"} /\ p.granule \in Granules
  BY DEF PageSet
<1>2. CASE p.stream = "skeleton" \/ p.granule = NoPts
  BY <1>2 DEF GranuleTime
<1>3. CASE p.stream \in Streams /\ p.granule # NoPts
  BY <1>1, <1>3, TimeOfPage, PageTimeType DEF ClocksInv
<1>4. QED BY <1>1, <1>2, <1>3

\* A granule of 0 is the time 0.
LEMMA TimeZero ==
  ASSUME NEW s \in Streams, newest_time[s] = 0, NEW g, g \in {0, NoPts}
  PROVE  PageTime(s, g) = 0
<1>1. Scale[s] \in Nat /\ Span \in Nat \ {0}
  BY MuxAssumption
<1>2. CASE g = NoPts
  BY <1>2 DEF PageTime
<1>3. CASE g = 0
  <2>1. FrameCount(0) = 0
    BY <1>1 DEF FrameCount
  <2>2. 0 * Scale[s] = 0 /\ g # NoPts
    BY <1>1, <1>3 DEF NoPts
  <2>3. QED BY <1>3, <2>1, <2>2, Zenon DEF PageTime
<1>4. QED BY <1>2, <1>3

-----------------------------------------------------------------------------
(* The latest time of a stream, as its pages go from the queue to the wire. *)

\* Later up to a later page.
LEMMA LatestGrows ==
  ASSUME NEW w, NEW q, NEW s, NEW i \in Nat, NEW j \in Nat, i <= j, NEW t \in Nat, NEW u \in Nat,
         Latest(w, q, s, i, t), Latest(w, q, s, j, u)
  PROVE  t <= u
<1>1. CASE t = 0
  BY <1>1
<1>2. CASE \E k \in 1 .. Len(w) : w[k].stream = s /\ GranuleTime(w[k]) = t
  BY <1>2 DEF Latest
<1>3. CASE \E k \in 1 .. i : GranuleTime(q[k].page) = t
  <2>1. PICK k \in 1 .. i : GranuleTime(q[k].page) = t
    BY <1>3
  <2>2. k \in 1 .. j
    OBVIOUS
  <2>3. QED BY <2>1, <2>2 DEF Latest
<1>4. QED BY <1>1, <1>2, <1>3 DEF Latest

\* A page put on the wire that is no later.
LEMMA LatestWritten ==
  ASSUME NEW w, NEW v, NEW p, OneMore(w, v, p), NEW q, NEW s, NEW j, NEW t,
         p.stream = s => GranuleTime(p) <= t, Latest(w, q, s, j, t)
  PROVE  Latest(v, q, s, j, t)
<1>1. /\ Len(w) \in Nat /\ Len(v) = Len(w) + 1 /\ v[Len(w) + 1] = p
      /\ \A i \in 1 .. Len(w) : v[i] = w[i]
  BY DEF OneMore
<1>2. \A k \in 1 .. Len(v) : v[k].stream = s => GranuleTime(v[k]) <= t
  <2> SUFFICES ASSUME NEW k \in 1 .. Len(v), v[k].stream = s PROVE GranuleTime(v[k]) <= t
    OBVIOUS
  <2>1. k \in 1 .. Len(w) \/ k = Len(w) + 1
    BY <1>1
  <2>2. CASE k \in 1 .. Len(w)
    <3>1. v[k] = w[k]
      BY <1>1, <2>2
    <3>2. QED BY <2>2, <3>1 DEF Latest
  <2>3. CASE k = Len(w) + 1
    BY <1>1, <2>3
  <2>4. QED BY <2>1, <2>2, <2>3
<1>3. \A k \in 1 .. Len(w) : k \in 1 .. Len(v) /\ v[k] = w[k]
  BY <1>1
<1>4. (\E k \in 1 .. Len(w) : w[k].stream = s /\ GranuleTime(w[k]) = t)
        => \E k \in 1 .. Len(v) : v[k].stream = s /\ GranuleTime(v[k]) = t
  BY <1>3, Zenon
<1>5. QED BY <1>2, <1>4, Zenon DEF Latest

\* The oldest queued page goes to the wire.
FrontOut(w, v, q, r, s, n) ==
  /\ OneMore(w, v, q[1].page) /\ q[1].page.stream = s
  /\ \A k \in 1 .. n : r[k] = q[k + 1]
LEMMA LatestLetOut ==
  ASSUME NEW w, NEW v, NEW q, NEW r, NEW s, NEW n \in Nat, FrontOut(w, v, q, r, s, n),
         NEW j \in 0 .. n, NEW t, Latest(w, q, s, j + 1, t)
  PROVE  Latest(v, r, s, j, t)
<1>1. /\ Len(w) \in Nat /\ q[1].page.stream = s /\ Len(v) = Len(w) + 1 /\ v[Len(w) + 1] = q[1].page
      /\ \A i \in 1 .. Len(w) : v[i] = w[i]
  BY DEF FrontOut, OneMore
<1>2. \A k \in 1 .. Len(w) : k \in 1 .. Len(v) /\ v[k] = w[k]
  BY <1>1
<1>3. 1 \in 1 .. j + 1 /\ Len(w) + 1 \in 1 .. Len(v)
  BY <1>1
<1>4. \A k \in 1 .. j : k + 1 \in 1 .. j + 1 /\ r[k] = q[k + 1]
  BY DEF FrontOut
<1>5. \A k \in 1 .. Len(v) : v[k].stream = s => GranuleTime(v[k]) <= t
  <2> SUFFICES ASSUME NEW k \in 1 .. Len(v), v[k].stream = s PROVE GranuleTime(v[k]) <= t
    OBVIOUS
  <2>1. k \in 1 .. Len(w) \/ k = Len(w) + 1
    BY <1>1
  <2>2. CASE k \in 1 .. Len(w)
    BY <1>2, <2>2 DEF Latest
  <2>3. CASE k = Len(w) + 1
    BY <1>1, <1>3, <2>3 DEF Latest
  <2>4. QED BY <2>1, <2>2, <2>3
<1>6. \A k \in 1 .. j : GranuleTime(r[k].page) <= t
  BY <1>4 DEF Latest
<1>7. CASE t = 0
  BY <1>5, <1>6, <1>7, Zenon DEF Latest
<1>8. CASE \E k \in 1 .. Len(w) : w[k].stream = s /\ GranuleTime(w[k]) = t
  <2>1. \E k \in 1 .. Len(v) : v[k].stream = s /\ GranuleTime(v[k]) = t
    BY <1>2, <1>8, Zenon
  <2>2. QED BY <1>5, <1>6, <2>1, Zenon DEF Latest
<1>9. CASE \E k \in 1 .. j + 1 : GranuleTime(q[k].page) = t
  <2>1. PICK k \in 1 .. j + 1 : GranuleTime(q[k].page) = t
    BY <1>9
  <2>2. CASE k = 1
    <3>1. \E i \in 1 .. Len(v) : v[i].stream = s /\ GranuleTime(v[i]) = t
      BY <1>1, <1>3, <2>1, <2>2
    <3>2. QED BY <1>5, <1>6, <3>1, Zenon DEF Latest
  <2>3. CASE k # 1
    <3>1. k - 1 \in 1 .. j /\ k = (k - 1) + 1
      BY <2>3
    <3>2. GranuleTime(r[k - 1].page) = t
      BY <1>4, <2>1, <3>1
    <3>3. QED BY <1>5, <1>6, <3>1, <3>2, Zenon DEF Latest
  <2>4. QED BY <2>2, <2>3
<1>10. QED BY <1>7, <1>8, <1>9, Zenon DEF Latest

\* A queue whose first j pages have the same times.
LEMMA LatestSame ==
  ASSUME NEW w, NEW q, NEW r, NEW s, NEW j, NEW t, Latest(w, q, s, j, t),
         \A k \in 1 .. j : GranuleTime(r[k].page) = GranuleTime(q[k].page)
  PROVE  Latest(w, r, s, j, t)
BY DEF Latest

\* A page queued behind the others.
LEMMA LatestQueued ==
  ASSUME NEW w, NEW q, NEW s, NEW j \in Nat, NEW t \in Nat, NEW u \in Nat,
         \A k \in 1 .. Len(w) : GranuleTime(w[k]) \in Nat,
         \A k \in 1 .. j + 1 : GranuleTime(q[k].page) \in Nat,
         Latest(w, q, s, j, t), t <= u, GranuleTime(q[j + 1].page) <= u,
         u = t \/ u = GranuleTime(q[j + 1].page)
  PROVE  Latest(w, q, s, j + 1, u)
<1>1. \A k \in 1 .. j + 1 : k \in 1 .. j \/ k = j + 1
  OBVIOUS
<1>2. j + 1 \in 1 .. j + 1 /\ \A k \in 1 .. j : k \in 1 .. j + 1
  OBVIOUS
<1>3. \A k \in 1 .. Len(w) : w[k].stream = s => GranuleTime(w[k]) <= u
  <2>1. \A k \in 1 .. Len(w) : w[k].stream = s => GranuleTime(w[k]) <= t
    BY Zenon DEF Latest
  <2>2. QED BY <2>1
<1>4. \A k \in 1 .. j + 1 : GranuleTime(q[k].page) <= u
  <2>1. \A k \in 1 .. j : GranuleTime(q[k].page) <= t
    BY Zenon DEF Latest
  <2> SUFFICES ASSUME NEW k \in 1 .. j + 1 PROVE GranuleTime(q[k].page) <= u
    OBVIOUS
  <2>2. CASE k \in 1 .. j
    BY <1>2, <2>1, <2>2
  <2>3. CASE k = j + 1
    BY <2>3
  <2>4. QED BY <1>1, <2>2, <2>3
<1>5. CASE u = GranuleTime(q[j + 1].page)
  BY <1>2, <1>3, <1>4, <1>5, Zenon DEF Latest
<1>6. CASE u = t
  BY <1>2, <1>3, <1>4, <1>6, Zenon DEF Latest
<1>7. QED BY <1>5, <1>6

-----------------------------------------------------------------------------
(* Where the muxer stands, as far as times are concerned.                  *)

LEMMA TimedPages ==
  ASSUME TypeInv
  PROVE  /\ \A i \in 1 .. Len(wire) :
              wire[i] \in PageSet /\ GranuleTime(wire[i]) \in Nat /\ wire[i].time \in Nat
         /\ \A s \in Streams : \A j \in 1 .. Len(queue[s]) :
              /\ queue[s][j].page \in PageSet /\ GranuleTime(queue[s][j].page) \in Nat
              /\ queue[s][j].page.time \in Nat
         /\ \A s \in Streams : newest_time[s] \in Nat
<1>1. \A p \in PageSet : GranuleTime(p) \in Nat /\ p.time \in Nat
  <2>1. ClocksInv
    BY DEF TypeInv, DataInv
  <2>2. \A p \in PageSet : p.time \in Nat
    BY DEF PageSet
  <2>3. QED BY <2>1, <2>2, GranuleTimeType
<1>2. \A i \in 1 .. Len(wire) : wire[i] \in PageSet
  BY DEF TypeInv, DataInv, WireInv
<1>3. ASSUME NEW s \in Streams, NEW j \in 1 .. Len(queue[s]) PROVE queue[s][j].page \in PageSet
  <2>1. queue[s] \in Seq(ItemSet)
    BY DEF TypeInv, DataInv, QueuesInv
  <2>2. queue[s][j] \in ItemSet
    BY <2>1
  <2>3. QED BY <2>2 DEF ItemSet
<1>4. \A s \in Streams : newest_time[s] \in Nat
  BY DEF TypeInv, DataInv, ClocksInv
<1>5. QED BY <1>1, <1>2, <1>3, <1>4

LEMMA QueuedStream ==
  ASSUME TypeInv, StreamsInv, NEW s \in Streams, NEW j \in 1 .. Len(queue[s])
  PROVE  queue[s][j].page.stream = s
<1>1. PICK i \in 1 .. Len(Pages(s)) : Pages(s)[i] = queue[s][j].page
  BY QueuedPage DEF TypeInv, DataInv
<1>2. Numbered(s)
  BY DEF StreamsInv, StreamInv
<1>3. QED BY <1>1, <1>2, Zenon DEF Numbered

LEMMA LinkStays == ASSUME [Next]_vars, ~NextLink PROVE UNCHANGED link
BY Zenon DEF Next, Calls, Steps, Terminated, vars, calls, WriteHeader, WritePacket,
     SetPageTarget, BeginNewLink, WriteTrailer, Arm, ArmSkeleton, WriteBos, WriteSecondary, PassTurn,
     WriteSkeletonPage, BeginPacket, PutLaces, StampHeader, StampContent, StampTheora, FlushPage,
     ReleasePage, ReleaseDone, DrainPage, DrainDone, CloseFlush, CloseStream, Backfill

\* A stream that is over stays so.
LEMMA DoneStays ==
  ASSUME TypeInv, ProtocolInv, [Next]_vars, ~NextLink, NEW s, Done(s)
  PROVE  Done(s)'
<1>1. UNCHANGED link
  BY LinkStays
<1>2. Earlier(s)' = Earlier(s) /\ (s \in Current)' = (s \in Current)
  BY <1>1, LinkKept
<1>3. CASE UNCHANGED <<stage, turn, trailer_written>>
  <2>1. Passed(s)' = Passed(s)
    BY <1>1, <1>3, Zenon DEF Passed, Order
  <2>2. QED BY <1>2, <1>3, <2>1, Zenon DEF Done
<1>4. CASE Earlier(s) \/ (trailer_written /\ trailer_written')
  BY <1>2, <1>4, Zenon DEF Done
<1>5. CASE CloseStream
  <2>1. stage \in ClosingLoops /\ NextTurn /\ TurnOver
    BY <1>1, <1>5, TurnPasses DEF CloseStream, Closing, Inside, ClosingLoops, TypeInv
  <2>2. After(stage) \in {"drain_link", "drain"}
    BY <2>1 DEF After, AfterClose, ClosingLoops
  <2>3. UNCHANGED trailer_written
    BY <1>5, Zenon DEF CloseStream, calls
  <2>4. QED BY <1>2, <2>1, <2>2, <2>3 DEF Done, TurnOver, ClosingLoops
<1>6. CASE DrainDone
  <2>1. /\ stage \in {"drain_headers", "drain_link", "drain"} /\ stage' = After(stage)
        /\ UNCHANGED trailer_written
    BY <1>6 DEF DrainDone, Draining, Inside, NextStage, calls
  <2>2. stage = "drain_headers" \/ stage' \in {"link", "backfill"}
    BY <2>1 DEF After
  <2>3. QED BY <1>2, <2>1, <2>2 DEF Done, ClosingLoops
<1>7. CASE Backfill
  BY <1>7 DEF Backfill, Done
<1>8. CASE ~(stage \in {"drain_link", "link", "drain", "backfill"} \cup ClosingLoops)
           /\ trailer_written' = trailer_written
  BY <1>2, <1>8 DEF Done
<1>9. CASE \/ WriteHeader \/ BeginNewLink \/ WriteTrailer \/ Arm \/ ArmSkeleton \/ WriteBos \/ PassTurn
           \/ WriteSkeletonPage
  <2>1. UNCHANGED trailer_written
    BY <1>9, Zenon DEF WriteHeader, BeginNewLink, WriteTrailer, Arm, ArmSkeleton, WriteBos, PassTurn,
                       WriteSkeletonPage, calls
  <2>2. stage \notin {"drain_link", "link", "drain", "backfill"} \cup ClosingLoops
    BY <1>9 DEF WriteHeader, BeginNewLink, WriteTrailer, Arm, ArmSkeleton, WriteBos, PassTurn, BosTurn,
                InPass, WriteSkeletonPage, Idle, Inside, ClosingLoops
  <2>3. QED BY <1>8, <2>1, <2>2
<1>10. CASE StampTheora
  <2>1. UNCHANGED trailer_written /\ step = "stamp" /\ stage \notin {"drain_link", "link", "drain", "backfill"}
    BY <1>10 DEF StampTheora, Doing, TypeInv, CallInv, HeaderLoops, ClosingLoops
  <2>2. stage \notin ClosingLoops
    BY <2>1 DEF TypeInv, CallInv
  <2>3. QED BY <1>8, <2>1, <2>2
<1>11. CASE \/ WriteSecondary \/ BeginPacket \/ PutLaces \/ StampHeader \/ StampContent \/ FlushPage
            \/ ReleasePage \/ ReleaseDone \/ DrainPage \/ CloseFlush \/ UNCHANGED vars
            \/ \E t \in Targets \cup {NoTarget} : SetPageTarget(t)
            \/ \E r \in Streams : \E p \in Packets[r] : WritePacket(r, p)
  <2>1. UNCHANGED <<stage, turn, trailer_written>>
    BY <1>11, Zenon DEF WriteSecondary, BeginPacket, PutLaces, StampHeader, StampContent, FlushPage,
                        ReleasePage, ReleaseDone, DrainPage, CloseFlush, SetPageTarget, WritePacket, GoTo,
                        control, calls, vars
  <2>2. QED BY <1>3, <2>1
<1>12. QED
  BY <1>5, <1>6, <1>7, <1>9, <1>10, <1>11, Zenon DEF Next, Calls, Steps, Terminated

\* No stream goes back to where it has no time yet.
LEMMA TimelessBefore ==
  ASSUME Fitting, Protocol, TypeInv, TypeInv', ProtocolInv, StreamsInv, TurnsInv, [Next]_vars,
         NEW s \in Streams, Timeless(s)'
  PROVE  Timeless(s)
<1>1. CASE NextLink
  <2>1. link' = link + 1
    BY <1>1 DEF NextLink
  <2>2. PICK k \in DOMAIN Links :
          s \in ToSet(Links[k]) /\ \A m \in DOMAIN Links : s \in ToSet(Links[m]) => m = k
    <3>1. PICK k \in DOMAIN Links : s \in ToSet(Links[k])
      BY Zenon DEF Streams
    <3>2. \A j, m \in DOMAIN Links : j # m => ToSet(Links[j]) \cap ToSet(Links[m]) = {}
      BY Zenon, MuxAssumption
    <3>3. \A m \in DOMAIN Links : s \in ToSet(Links[m]) => m = k
      BY <3>1, <3>2
    <3>4. QED BY <3>1, <3>3
  <2>3. DOMAIN Links \subseteq Nat /\ link \in DOMAIN Links /\ link' \in DOMAIN Links
    <3>1. link \in DOMAIN Links /\ link' \in DOMAIN Links
      BY Zenon DEF TypeInv, ControlInv
    <3>2. DOMAIN Links \subseteq Nat
      BY MuxAssumption
    <3>3. QED BY <3>1, <3>2
  <2>4. Later(s)' => k > link'
    BY <2>2, Zenon DEF Later
  <2>5. (s \in Current)' => k = link'
    BY <2>2, <2>3, Zenon DEF Current, Order
  <2>6. k > link
    BY <2>1, <2>3, <2>4, <2>5 DEF Timeless
  <2>7. QED BY <2>2, <2>6, Zenon DEF Timeless, Later
<1>2. CASE ~NextLink
  <2>1. Later(s)' = Later(s) /\ (s \in Current)' = (s \in Current)
    BY <1>2, LinkStays, LinkKept
  <2>2. BeforeData' => BeforeData
    BY <1>2, StepStages, Zenon DEF StagesOn
  <2>3. QED BY <2>1, <2>2, Zenon DEF Timeless
<1>3. QED BY <1>1, <1>2

\* Up to the data a builder has no granule but a header's.
LEMMA BuilderTimes ==
  ASSUME Fitting, TypeInv, ProtocolInv, StreamsInv, TurnsInv, [Next]_vars, NEW s \in Streams, Timeless(s)
  PROVE  buffered'[s].granule \in {buffered[s].granule, 0, NoPts}
<1>1. CASE UNCHANGED buffered
  BY <1>1
<1>2. buffered \in [Streams -> BuilderSet] /\ writing.s \in Streams
  BY AtWork DEF TypeInv, DataInv, BuffersInv
<1>3. CASE PutLaces
  <2>1. buffered'[s].granule = buffered[s].granule
    BY <1>2, <1>3 DEF PutLaces, BuilderSet
  <2>2. QED BY <2>1
<1>4. CASE StampHeader
  BY <1>2, <1>4 DEF StampHeader, BuilderSet
<1>5. CASE StampContent \/ StampTheora
  <2>1. stage = "idle" /\ step = "stamp"
    BY <1>5, StampedIdle DEF StampContent, StampTheora, Doing
  <2>2. header_written = TRUE /\ writing.s \in Current
    BY <2>1, UnderWay DEF TypeInv, CallInv
  <2>3. ~BeforeData
    BY <2>1, <2>2 DEF BeforeData, InHeaders, Unopened, BosLoops, HeaderLoops
  <2>4. Placed(s)
    BY Placing DEF TypeInv, ControlInv
  <2>5. s # writing.s
    BY <2>2, <2>3, <2>4, Zenon DEF Timeless, Placed
  <2>6. buffered'[s] = buffered[s]
    BY <1>2, <1>5, <2>5 DEF StampContent, StampTheora
  <2>7. QED BY <2>6
<1>6. CASE FlushPage
  <2>1. buffered' = [buffered EXCEPT ![writing.s] = NextBuilder(buffered[writing.s])]
    BY <1>6 DEF FlushPage
  <2>2. NextBuilder(buffered[writing.s]).granule = NoPts
    BY DEF NextBuilder, EmptyBuilder
  <2>3. QED BY <1>2, <2>1, <2>2
<1>7. CASE ~(PutLaces \/ StampHeader \/ StampContent \/ StampTheora \/ FlushPage)
  <2>1. UNCHANGED buffered
    BY <1>7, Zenon DEF Next, Calls, Steps, Terminated, vars, writers, WriteHeader, WritePacket,
         SetPageTarget, BeginNewLink, WriteTrailer, Arm, ArmSkeleton, NextLink, WriteBos, WriteSecondary,
         PassTurn, WriteSkeletonPage, BeginPacket, ReleasePage, ReleaseDone, DrainPage, DrainDone,
         CloseFlush, CloseStream, Backfill
  <2>2. QED BY <1>1, <2>1
<1>8. QED BY <1>3, <1>4, <1>5, <1>6, <1>7

-----------------------------------------------------------------------------
(* Steps, stream by stream.                                                *)

\* Nothing about the times of s moves.
LEMMA ClockedStays ==
  ASSUME NEW s, Clocked(s), UNCHANGED wire, queue'[s] = queue[s], newest_time'[s] = newest_time[s],
         last_granule'[s] = last_granule[s]
  PROVE  Clocked(s)'
BY Zenon DEF Clocked, PageTime

\* A granule has its time whatever came before.
LEMMA PageTimeKept ==
  ASSUME NEW s, NEW g, g # NoPts
  PROVE  PageTime(s, g)' = PageTime(s, g)
BY Zenon DEF PageTime

\* A page of time 0 is put on the wire.
LEMMA ClockedWritten ==
  ASSUME TypeInv, NEW p \in PageSet, wire' = Append(wire, p), GranuleTime(p) = 0,
         UNCHANGED <<queue, newest_time, last_granule>>, NEW s \in Streams, Clocked(s)
  PROVE  Clocked(s)'
<1> SUFFICES ASSUME NEW w, w = wire, NEW v, v = wire', NEW q, q = queue[s], NEW n, n = newest_time[s]
             PROVE  Clocked(s)'
  OBVIOUS
<1>1. OneMore(w, v, p)
  BY Appended DEF TypeInv, DataInv, WireInv
<1>2. ClockedBy(w, q, s, n)
  BY DEF Clocked
<1>3. n \in Nat /\ \A j \in 1 .. Len(q) : q[j].page.time \in Nat
  BY TimedPages
<1>4. \A j \in 1 .. Len(q) : Latest(v, q, s, j, q[j].page.time)
  <2> SUFFICES ASSUME NEW j \in 1 .. Len(q) PROVE Latest(v, q, s, j, q[j].page.time)
    OBVIOUS
  <2>1. Latest(w, q, s, j, q[j].page.time) /\ 0 <= q[j].page.time
    BY <1>2, <1>3 DEF ClockedBy
  <2>2. QED BY <1>1, <2>1, LatestWritten
<1>5. Latest(v, q, s, Len(q), n)
  <2>1. Latest(w, q, s, Len(q), n) /\ 0 <= n
    BY <1>2, <1>3 DEF ClockedBy
  <2>2. QED BY <1>1, <2>1, LatestWritten
<1>6. ClockedBy(v, q, s, n)
  BY <1>2, <1>4, <1>5, Zenon DEF ClockedBy
<1>7. v = wire' /\ queue'[s] = q /\ newest_time'[s] = n
  OBVIOUS
<1>8. PageTime(s, last_granule[s])' = PageTime(s, last_granule[s])
  BY Zenon DEF PageTime
<1>9. QED BY <1>6, <1>7, <1>8 DEF Clocked

\* The oldest queued page of t goes to the wire.
LEMMA ClockedLetOut ==
  ASSUME TypeInv, StreamsInv, NEW t \in Streams, queue[t] # <<>>,
         wire' = Append(wire, Head(queue[t]).page), queue' = [queue EXCEPT ![t] = Tail(@)],
         UNCHANGED <<newest_time, last_granule>>, NEW s \in Streams, Clocked(s)
  PROVE  Clocked(s)'
<1> SUFFICES ASSUME NEW w, w = wire, NEW v, v = wire', NEW q, q = queue[s], NEW n, n = newest_time[s],
                    NEW r, r = queue'[s], NEW p, p = Head(queue[t]).page
             PROVE  Clocked(s)'
  OBVIOUS
<1>1. /\ queue[t] \in Seq(ItemSet) /\ 1 \in 1 .. Len(queue[t]) /\ p = queue[t][1].page /\ p \in PageSet
      /\ queue \in [Streams -> Seq(ItemSet)]
  <2>1. queue[t] \in Seq(ItemSet) /\ Head(queue[t]) \in ItemSet /\ Head(queue[t]) = queue[t][1]
        /\ Len(queue[t]) \in Nat \ {0}
    BY DEF TypeInv, DataInv, QueuesInv
  <2>2. queue \in [Streams -> Seq(ItemSet)]
    BY DEF TypeInv, DataInv, QueuesInv
  <2>3. \A item \in ItemSet : item.page \in PageSet
    BY DEF ItemSet
  <2>4. QED BY <2>1, <2>2, <2>3
<1>2. OneMore(w, v, p) /\ p.stream = t
  BY <1>1, Appended, QueuedStream DEF TypeInv, DataInv, WireInv
<1>3. ClockedBy(w, q, s, n)
  BY DEF Clocked
<1>4. CASE s # t
  <2>1. r = q
    BY <1>1, <1>4
  <2>2. \A j \in 1 .. Len(q) : Latest(v, q, s, j, q[j].page.time)
    <3> SUFFICES ASSUME NEW j \in 1 .. Len(q) PROVE Latest(v, q, s, j, q[j].page.time)
      OBVIOUS
    <3>1. Latest(w, q, s, j, q[j].page.time)
      BY <1>3, Zenon DEF ClockedBy
    <3>2. QED BY <1>2, <1>4, <3>1, LatestWritten
  <2>3. Latest(v, q, s, Len(q), n)
    <3>1. Latest(w, q, s, Len(q), n)
      BY <1>3, Zenon DEF ClockedBy
    <3>2. QED BY <1>2, <1>4, <3>1, LatestWritten
  <2>4. ClockedBy(v, r, s, n)
    BY <1>3, <2>1, <2>2, <2>3, Zenon DEF ClockedBy
  <2>5. QED BY <2>4, Zenon DEF Clocked, PageTime
<1>5. CASE s = t
  <2>1. q \in Seq(ItemSet) /\ q # <<>> /\ r = Tail(q)
    BY <1>1, <1>5
  <2>2. Len(r) = Len(q) - 1 /\ Len(q) \in Nat /\ \A j \in 1 .. Len(r) : r[j] = q[j + 1]
    BY <2>1, HeadTailProperties
  <2>3. Len(q) # 0 /\ r \in Seq(ItemSet)
    BY <2>1
  <2>4. Len(r) \in Nat /\ Len(q) = Len(r) + 1
    BY <2>2, <2>3
  <2>5. q[1].page.stream = s /\ OneMore(w, v, q[1].page)
    BY <1>1, <1>2, <1>5
  <2>6. ASSUME NEW j \in 0 .. Len(r), NEW u, Latest(w, q, s, j + 1, u) PROVE Latest(v, r, s, j, u)
    <3>1. FrontOut(w, v, q, r, s, Len(r))
      BY <2>2, <2>5, Zenon DEF FrontOut
    <3>2. QED BY <2>4, <2>6, <3>1, LatestLetOut
  <2>7. \A j \in 1 .. Len(r) : Latest(v, r, s, j, r[j].page.time)
    <3> SUFFICES ASSUME NEW j \in 1 .. Len(r) PROVE Latest(v, r, s, j, r[j].page.time)
      OBVIOUS
    <3>1. j \in 0 .. Len(r) /\ j + 1 \in 1 .. Len(q) /\ r[j] = q[j + 1]
      BY <2>2, <2>4
    <3>2. Latest(w, q, s, j + 1, r[j].page.time)
      BY <1>3, <3>1 DEF ClockedBy
    <3>3. QED BY <2>6, <3>1, <3>2
  <2>8. Latest(v, r, s, Len(r), n)
    <3>1. Latest(w, q, s, Len(r) + 1, n)
      BY <1>3, <2>4 DEF ClockedBy
    <3>2. QED BY <2>4, <2>6, <3>1
  <2>9. r # <<>> => n = r[Len(r)].page.time
    <3> SUFFICES ASSUME r # <<>> PROVE n = r[Len(r)].page.time
      OBVIOUS
    <3>1. Len(r) \in 1 .. Len(r)
      BY <2>3
    <3>2. r[Len(r)] = q[Len(q)]
      BY <2>2, <2>4, <3>1
    <3>3. QED BY <1>3, <2>1, <3>2 DEF ClockedBy
  <2>10. ClockedBy(v, r, s, n)
    BY <2>7, <2>8, <2>9, Zenon DEF ClockedBy
  <2>11. QED BY <2>10, Zenon DEF Clocked, PageTime
<1>6. QED BY <1>4, <1>5

\* A page is queued for t.
LEMMA ClockedQueued ==
  ASSUME TypeInv, NEW t \in Streams, NEW item \in ItemSet, NEW r, r = Append(queue[t], item),
         NEW n, n = newest_time[t], NEW u, u = item.page.time, Clocked(t),
         n <= u, GranuleTime(item.page) <= u, u = n \/ u = GranuleTime(item.page)
  PROVE  ClockedBy(wire, r, t, u)
<1> SUFFICES ASSUME NEW w, w = wire, NEW q, q = queue[t] PROVE ClockedBy(w, r, t, u)
  OBVIOUS
<1>1. /\ \A k \in 1 .. Len(w) : GranuleTime(w[k]) \in Nat
      /\ \A k \in 1 .. Len(q) : GranuleTime(q[k].page) \in Nat
      /\ n \in Nat
  BY TimedPages
<1>2. ClockedBy(w, q, t, n)
  BY DEF Clocked
<1>3. q \in Seq(ItemSet)
  BY DEF TypeInv, DataInv, QueuesInv
<1>4. /\ Len(q) \in Nat /\ Len(r) = Len(q) + 1 /\ r[Len(q) + 1] = item
      /\ \A k \in 1 .. Len(q) : r[k] = q[k]
  BY <1>3
<1>5. item.page \in PageSet /\ u \in Nat /\ GranuleTime(item.page) \in Nat
  <2>1. item.page \in PageSet /\ ClocksInv
    BY DEF ItemSet, TypeInv, DataInv
  <2>2. QED BY <2>1, GranuleTimeType DEF PageSet
<1>6. ASSUME NEW j \in 0 .. Len(q), NEW x, Latest(w, q, t, j, x) PROVE Latest(w, r, t, j, x)
  <2>1. \A k \in 1 .. j : GranuleTime(r[k].page) = GranuleTime(q[k].page)
    BY <1>4
  <2>2. QED BY <1>6, <2>1, LatestSame
<1>7. Latest(w, r, t, Len(q) + 1, u)
  <2>1. Latest(w, r, t, Len(q), n)
    BY <1>2, <1>4, <1>6 DEF ClockedBy
  <2>2. \A k \in 1 .. Len(q) + 1 : GranuleTime(r[k].page) \in Nat
    <3> SUFFICES ASSUME NEW k \in 1 .. Len(q) + 1 PROVE GranuleTime(r[k].page) \in Nat
      OBVIOUS
    <3>1. k \in 1 .. Len(q) \/ k = Len(q) + 1
      BY <1>4
    <3>2. QED BY <1>1, <1>4, <1>5, <3>1
  <2>3. GranuleTime(r[Len(q) + 1].page) = GranuleTime(item.page)
    BY <1>4
  <2>4. QED BY <1>1, <1>4, <1>5, <2>1, <2>2, <2>3, LatestQueued
<1>8. \A j \in 1 .. Len(r) : Latest(w, r, t, j, r[j].page.time)
  <2> SUFFICES ASSUME NEW j \in 1 .. Len(r) PROVE Latest(w, r, t, j, r[j].page.time)
    OBVIOUS
  <2>1. CASE j \in 1 .. Len(q)
    <3>1. r[j] = q[j] /\ Latest(w, q, t, j, q[j].page.time)
      BY <1>2, <1>4, <2>1 DEF ClockedBy
    <3>2. QED BY <1>4, <1>6, <2>1, <3>1
  <2>2. CASE j = Len(q) + 1
    BY <1>4, <1>7, <2>2
  <2>3. QED BY <1>4, <2>1, <2>2
<1>9. QED BY <1>4, <1>7, <1>8 DEF ClockedBy

-----------------------------------------------------------------------------
(* What is on the wire is no later than what is to come.                   *)

\* What a step queues for s is no earlier than the latest page so far, and s is
\* not over.
Onward(s) ==
  /\ newest_time[s] <= newest_time'[s]
  /\ \A j \in 1 .. Len(queue'[s]) :
       \/ \E k \in 1 .. Len(queue[s]) : queue'[s][j].page.time = queue[s][k].page.time
       \/ ~Done(s) /\ newest_time[s] <= queue'[s][j].page.time

LEMMA OnwardStays ==
  ASSUME TypeInv, NEW s \in Streams, queue'[s] = queue[s], newest_time'[s] = newest_time[s]
  PROVE  Onward(s)
<1>1. newest_time[s] <= newest_time'[s]
  BY TimedPages
<1>2. \A j \in 1 .. Len(queue'[s]) :
        \E k \in 1 .. Len(queue[s]) : queue'[s][j].page.time = queue[s][k].page.time
  OBVIOUS
<1>3. QED BY <1>1, <1>2, Zenon DEF Onward

LEMMA AheadStays ==
  ASSUME Fitting, Protocol, TypeInv, TypeInv', ProtocolInv, StreamsInv, TurnsInv, [Next]_vars, ~NextLink,
         \A s \in Streams : Onward(s)
  PROVE  \A p \in PageSet : Ahead(p) => Ahead(p)'
<1> SUFFICES ASSUME NEW p \in PageSet, Ahead(p) PROVE Ahead(p)'
  OBVIOUS
<1>1. BeforeData' => BeforeData
  BY StepStages, Zenon DEF StagesOn
<1>2. p.time \in Nat
  BY DEF PageSet
<1>3. ASSUME NEW s, (s \in Current)' PROVE AheadOf(p.time, s)'
  <2>1. s \in Current /\ s \in Streams
    BY <1>3, LinkStays, LinkKept, OrderFacts DEF TypeInv, ControlInv
  <2>2. AheadOf(p.time, s) /\ Onward(s)
    BY <2>1, Zenon DEF Ahead
  <2>3. newest_time[s] \in Nat /\ newest_time'[s] \in Nat
    BY <2>1 DEF TypeInv, DataInv, ClocksInv
  <2>4. ~Done(s)' => ~Done(s)
    BY DoneStays
  <2>5. ~Done(s) => p.time <= newest_time[s]
    BY <2>2, Zenon DEF AheadOf
  <2>6. newest_time[s] <= newest_time'[s]
    BY <2>2, Zenon DEF Onward
  <2>7. ASSUME NEW j \in 1 .. Len(queue'[s]) PROVE p.time <= queue'[s][j].page.time
    <3>1. CASE \E k \in 1 .. Len(queue[s]) : queue'[s][j].page.time = queue[s][k].page.time
      BY <2>2, <3>1 DEF AheadOf
    <3>2. CASE ~Done(s) /\ newest_time[s] <= queue'[s][j].page.time
      <4>1. queue'[s][j].page.time \in Nat
        <5>1. queue' \in [Streams -> Seq(ItemSet)]
          BY DEF TypeInv, DataInv, QueuesInv
        <5>2. queue'[s][j] \in ItemSet
          BY <2>1, <2>7, <5>1
        <5>3. QED BY <5>2 DEF ItemSet, PageSet
      <4>2. QED BY <1>2, <2>3, <2>5, <3>2, <4>1
    <3>3. QED BY <2>2, <3>1, <3>2, Zenon DEF Onward
  <2>8. ~Done(s)' => p.time <= newest_time'[s]
    BY <1>2, <2>3, <2>4, <2>5, <2>6
  <2>9. QED BY <2>7, <2>8, Zenon DEF AheadOf
<1>4. BeforeData' => p.time = 0
  BY <1>1, Zenon DEF Ahead
<1>5. QED BY <1>3, <1>4, Zenon DEF Ahead

\* A page of time 0 is behind everything.
LEMMA AheadZero ==
  ASSUME TypeInv, NEW p, p.time = 0
  PROVE  Ahead(p)
<1>1. \A s \in Current : s \in Streams
  BY OrderFacts DEF TypeInv, ControlInv
<1>2. \A s \in Streams : newest_time[s] \in Nat /\ \A j \in 1 .. Len(queue[s]) : queue[s][j].page.time \in Nat
  BY TimedPages
<1>3. \A s \in Current : AheadOf(0, s)
  <2> SUFFICES ASSUME NEW s \in Current PROVE AheadOf(0, s)
    OBVIOUS
  <2>1. 0 <= newest_time[s] /\ \A j \in 1 .. Len(queue[s]) : 0 <= queue[s][j].page.time
    BY <1>1, <1>2
  <2>2. QED BY <2>1, Zenon DEF AheadOf
<1>4. QED BY <1>3, Zenon DEF Ahead

LEMMA StillStays ==
  ASSUME Fitting, Protocol, TypeInv, TypeInv', ProtocolInv, StreamsInv, TurnsInv, [Next]_vars,
         NEW s \in Streams, Still(s), Timeless(s) => newest_time'[s] = 0
  PROVE  Still(s)'
<1> SUFFICES ASSUME Timeless(s)' PROVE newest_time'[s] = 0 /\ buffered'[s].granule \in {0, NoPts}
  BY Zenon DEF Still
<1>1. Timeless(s)
  BY TimelessBefore
<1>2. buffered[s].granule \in {0, NoPts}
  BY <1>1, Zenon DEF Still
<1>3. buffered'[s].granule \in {buffered[s].granule, 0, NoPts}
  BY <1>1, BuilderTimes
<1>4. QED BY <1>1, <1>2, <1>3

-----------------------------------------------------------------------------
(* A page on the wire.                                                     *)

LEMMA ClockKept ==
  ASSUME NEW w, NEW v, NEW i \in Nat, \A k \in 1 .. i : v[k] = w[k], ClockAt(w, i), i >= 1
  PROVE  ClockAt(v, i)
<1>1. v[i] = w[i]
  OBVIOUS
<1>2. \A k \in 1 .. i : v[k].stream = v[i].stream => GranuleTime(v[k]) <= v[i].time
  BY <1>1 DEF ClockAt
<1>3. v[i].time = 0 \/ \E k \in 1 .. i : v[k].stream = v[i].stream /\ GranuleTime(v[k]) = v[i].time
  BY <1>1 DEF ClockAt
<1>4. QED BY <1>2, <1>3, Zenon DEF ClockAt

\* A page of this link, no earlier than the others.
LEMMA TimesWritten ==
  ASSUME TypeInv, WireClock, WireOrdered, WireAhead, WireInLinks, UNCHANGED link,
         NEW p \in PageSet, wire' = Append(wire, p), p.link = link, ClockAt(wire', Len(wire) + 1),
         \A i \in 1 .. Len(wire) : Here(i) => wire[i].time <= p.time,
         \A q \in PageSet : Ahead(q) => Ahead(q)', Ahead(p)'
  PROVE  WireClock' /\ WireOrdered' /\ WireAhead'
<1> SUFFICES ASSUME NEW w, w = wire, NEW v, v = wire' PROVE WireClock' /\ WireOrdered' /\ WireAhead'
  OBVIOUS
<1>1. OneMore(w, v, p)
  BY Appended DEF TypeInv, DataInv, WireInv
<1>2. /\ Len(w) \in Nat /\ Len(v) = Len(w) + 1 /\ v[Len(w) + 1] = p
      /\ \A i \in 1 .. Len(w) : v[i] = w[i]
  BY <1>1 DEF OneMore
<1>3. \A i \in 1 .. Len(w) : w[i] \in PageSet
  BY TimedPages
<1>4. WireClock'
  <2>1. ASSUME NEW i \in 1 .. Len(v) PROVE ClockAt(v, i)
    <3>1. CASE i \in 1 .. Len(w)
      <4>1. i \in Nat /\ i >= 1 /\ \A k \in 1 .. i : v[k] = w[k]
        BY <1>2, <3>1
      <4>2. ClockAt(w, i)
        BY <3>1 DEF WireClock
      <4>3. QED BY <4>1, <4>2, ClockKept
    <3>2. CASE i = Len(w) + 1
      BY <3>2
    <3>3. QED BY <1>2, <3>1, <3>2
  <2>2. QED BY <2>1, Zenon DEF WireClock
<1>5. WireOrdered'
  <2>1. ASSUME NEW i \in 2 .. Len(v), v[i - 1].link = v[i].link PROVE v[i - 1].time <= v[i].time
    <3>1. CASE i \in 2 .. Len(w)
      <4>1. v[i] = w[i] /\ v[i - 1] = w[i - 1]
        BY <1>2, <3>1
      <4>2. QED BY <2>1, <3>1, <4>1 DEF WireOrdered
    <3>2. CASE i = Len(w) + 1
      <4>1. v[i] = p /\ v[i - 1] = w[i - 1] /\ i - 1 \in 1 .. Len(w)
        BY <1>2, <3>2
      <4>2. wire[i - 1].link = link
        BY <2>1, <4>1
      <4>3. QED BY <4>1, <4>2 DEF Here
    <3>3. QED BY <1>2, <3>1, <3>2
  <2>2. QED BY <2>1, Zenon DEF WireOrdered
<1>6. WireAhead'
  <2>1. ASSUME NEW i \in 1 .. Len(v), v[i].link = link PROVE Ahead(v[i])'
    <3>1. CASE i \in 1 .. Len(w)
      <4>1. v[i] = w[i] /\ w[i] \in PageSet
        BY <1>2, <1>3, <3>1
      <4>2. Ahead(w[i])
        BY <2>1, <3>1, <4>1, Zenon DEF WireAhead, Here
      <4> SUFFICES ASSUME NEW x \in PageSet, x = w[i] PROVE Ahead(v[i])'
        BY <4>1
      <4>3. Ahead(x)
        BY <4>2, Zenon
      <4>4. Ahead(x)'
        BY <4>3
      <4>5. QED BY <4>1, <4>4
    <3>2. CASE i = Len(w) + 1
      <4>1. v[i] = p
        BY <1>2, <3>2
      <4>2. QED BY <4>1
    <3>3. QED BY <1>2, <3>1, <3>2
  <2>2. QED BY <2>1, Zenon DEF WireAhead, Here
<1>7. QED BY <1>4, <1>5, <1>6

LEMMA TimesUnwritten ==
  ASSUME TypeInv, WireClock, WireOrdered, WireAhead, UNCHANGED <<wire, link>>,
         \A q \in PageSet : Ahead(q) => Ahead(q)'
  PROVE  WireClock' /\ WireOrdered' /\ WireAhead'
<1>1. WireClock' /\ WireOrdered'
  BY Zenon DEF WireClock, WireOrdered
<1>2. WireAhead'
  <2> SUFFICES ASSUME NEW w, w = wire, NEW i \in 1 .. Len(w), w[i].link = link PROVE Ahead(w[i])'
    BY Zenon DEF WireAhead, Here
  <2>1. Ahead(w[i]) /\ w[i] \in PageSet
    BY TimedPages DEF WireAhead, Here
  <2>2. QED BY <2>1
<1>3. QED BY <1>1, <1>2

\* A header page of time 0, put straight on the wire.
LEMMA ZeroWritten ==
  ASSUME Fitting, Protocol, TypeInv, TypeInv', ProtocolInv, StreamsInv, TurnsInv, WireInLinks, TimesInv,
         [Next]_vars, ~NextLink, BeforeData, UNCHANGED <<queue, newest_time, last_granule>>,
         NEW p \in PageSet, wire' = Append(wire, p), p.link = link, p.time = 0, GranuleTime(p) = 0,
         \A k \in 1 .. Len(wire) : wire[k].stream = p.stream => GranuleTime(wire[k]) <= 0
  PROVE  TimesInv'
<1>1. WireClock /\ WireOrdered /\ WireAhead /\ \A s \in Streams : Clocked(s) /\ Still(s)
  BY Zenon DEF TimesInv
<1>2. \A s \in Streams : Onward(s)
  BY OnwardStays
<1>3. \A q \in PageSet : Ahead(q) => Ahead(q)'
  BY <1>2, AheadStays
<1>4. Ahead(p) /\ Ahead(p)'
  BY <1>3, AheadZero
<1>5. \A i \in 1 .. Len(wire) : Here(i) => wire[i].time <= p.time
  <2>1. \A i \in 1 .. Len(wire) : Here(i) => wire[i].time = 0
    BY <1>1, Zenon DEF WireAhead, Ahead
  <2>2. QED BY <2>1
<1>6. ClockAt(wire', Len(wire) + 1)
  <2> SUFFICES ASSUME NEW w, w = wire, NEW v, v = wire' PROVE ClockAt(v, Len(w) + 1)
    OBVIOUS
  <2>1. OneMore(w, v, p)
    BY Appended DEF TypeInv, DataInv, WireInv
  <2>2. /\ Len(w) \in Nat /\ v[Len(w) + 1] = p
        /\ \A i \in 1 .. Len(w) : v[i] = w[i]
    BY <2>1 DEF OneMore
  <2>3. ASSUME NEW k \in 1 .. Len(w) + 1, v[k].stream = p.stream PROVE GranuleTime(v[k]) <= 0
    <3>1. CASE k \in 1 .. Len(w)
      <4>1. v[k] = wire[k]
        BY <2>2, <3>1
      <4>2. QED BY <2>3, <3>1, <4>1
    <3>2. CASE k = Len(w) + 1
      BY <2>2, <3>2
    <3>3. QED BY <2>2, <3>1, <3>2
  <2>4. QED BY <2>2, <2>3, Zenon DEF ClockAt
<1>7. UNCHANGED link
  BY LinkStays
<1>8. WireClock' /\ WireOrdered' /\ WireAhead'
  BY <1>1, <1>3, <1>4, <1>5, <1>6, <1>7, TimesWritten
<1>9. ASSUME NEW s \in Streams PROVE Clocked(s)' /\ Still(s)'
  <2>1. Clocked(s)'
    BY <1>1, ClockedWritten
  <2>2. Timeless(s) => newest_time'[s] = 0
    BY <1>1, Zenon DEF Still
  <2>3. Still(s)'
    BY <1>1, <2>2, StillStays
  <2>4. QED BY <2>1, <2>3
<1>10. QED BY <1>8, <1>9, Zenon DEF TimesInv

LEMMA WriteBosTimes ==
  ASSUME Fitting, Protocol, TypeInv, TypeInv', ProtocolInv, StreamsInv, TurnsInv, WireInLinks, TimesInv,
         [Next]_vars, ~NextLink, WriteBos
  PROVE  TimesInv'
<1> SUFFICES ASSUME NEW t \in Current, t = Turn, t \in Streams PROVE TimesInv'
  BY TurnType DEF TypeInv
<1> DEFINE p == Page(t, {"bos"}, 0, <<Lace(1, 1, 1)>>, 0)
<1>1. wire' = Append(wire, p) /\ UNCHANGED <<queue, newest_time, last_granule>>
  BY DEF WriteBos
<1>2. BeforeData
  BY DEF WriteBos, BosTurn, InPass, Inside, BeforeData, InHeaders, BosLoops
<1>3. p \in PageSet
  <2>1. <<Lace(1, 1, 1)>> \in SegsSet
    <3>1. Lace(1, 1, 1) \in LaceSet
      BY DEF Lace, LaceSet
    <3>2. <<Lace(1, 1, 1)>> \in Seq(LaceSet) /\ Len(<<Lace(1, 1, 1)>>) = 1
      BY <3>1
    <3>3. QED BY <3>2, MuxAssumption DEF SegsSet
  <2>2. {"bos"} \in PageFlags /\ 0 \in Granules
    BY DEF PageFlags, Granules
  <2>3. QED BY <2>1, <2>2, PageType DEF TypeInv, DataInv
<1>4. p.stream = t /\ p.link = link /\ p.time = 0 /\ p.granule = 0
  BY DEF Page
<1> HIDE DEF p
<1>5. Clocked(t) /\ newest_time[t] = 0
  BY <1>2, Zenon DEF TimesInv, Still, Timeless
<1>6. GranuleTime(p) = 0
  <2>1. p.granule \in Granules /\ p.granule # NoPts
    BY <1>4 DEF Granules, NoPts
  <2>2. GranuleTime(p) = PageTime(t, 0)
    BY <1>4, <2>1, TimeOfPage
  <2>3. PageTime(t, 0) = 0
    BY <1>5, TimeZero
  <2>4. QED BY <2>2, <2>3
<1>7. \A k \in 1 .. Len(wire) : wire[k].stream = t => GranuleTime(wire[k]) <= 0
  BY <1>5, Zenon DEF Clocked, ClockedBy, Latest
<1>8. QED BY <1>1, <1>2, <1>3, <1>4, <1>6, <1>7, ZeroWritten

LEMMA WriteSkeletonPageTimes ==
  ASSUME Fitting, Protocol, TypeInv, TypeInv', ProtocolInv, StreamsInv, TurnsInv, WireInLinks, TimesInv,
         [Next]_vars, ~NextLink, WriteSkeletonPage
  PROVE  TimesInv'
<1>1. PICK flags \in PageFlags : wire' = Append(wire, SkeletonPage(flags))
  BY DEF WriteSkeletonPage, PageFlags
<1>2. UNCHANGED <<queue, newest_time, last_granule>>
  BY Zenon DEF WriteSkeletonPage, writers
<1>3. BeforeData
  BY DEF WriteSkeletonPage, Inside, BeforeData, InHeaders, Unopened
<1>4. SkeletonPage(flags) \in PageSet
  BY SkeletonPageType DEF TypeInv, DataInv
<1> DEFINE p == SkeletonPage(flags)
<1>5. p.stream = "skeleton" /\ p.link = link /\ p.time = 0
  BY DEF SkeletonPage
<1> HIDE DEF p
<1>6. \A q : q.stream = "skeleton" => GranuleTime(q) = 0
  BY DEF GranuleTime
<1>7. GranuleTime(p) = 0 /\ \A k \in 1 .. Len(wire) : wire[k].stream = "skeleton" => GranuleTime(wire[k]) <= 0
  BY <1>5, <1>6
<1>8. wire' = Append(wire, p) /\ p \in PageSet
  BY <1>1, <1>4 DEF p
<1>9. QED BY <1>2, <1>3, <1>5, <1>7, <1>8, ZeroWritten

\* The front page of t put on the wire.
LEMMA LetOutTimes ==
  ASSUME Fitting, Protocol, TypeInv, TypeInv', ProtocolInv, StreamsInv, TurnsInv, LinksInv, TimesInv,
         [Next]_vars, ~NextLink, NEW t \in Current, queue[t] # <<>>, WritePending(t),
         UNCHANGED <<newest_time, last_granule>>,
         \A s \in Current : s # t =>
           /\ queue[s] # <<>> => queue[t][1].page.time <= queue[s][1].page.time
           /\ ~Done(s) /\ ~BeforeData => queue[t][1].page.time <= newest_time[s]
  PROVE  TimesInv'
<1>1. WireClock /\ WireOrdered /\ WireAhead /\ \A s \in Streams : Clocked(s) /\ Still(s)
  BY Zenon DEF TimesInv
<1>2. t \in Streams /\ \A s \in Current : s \in Streams
  BY OrderFacts DEF TypeInv, ControlInv
<1>3. UNCHANGED link
  BY LinkStays
<1>4. /\ queue \in [Streams -> Seq(ItemSet)] /\ wire' = Append(wire, Head(queue[t]).page)
      /\ queue' = [queue EXCEPT ![t] = Tail(@)]
  BY DEF WritePending, TypeInv, DataInv, QueuesInv
<1> SUFFICES ASSUME NEW p, p = queue[t][1].page PROVE TimesInv'
  OBVIOUS
<1>5. /\ p \in PageSet /\ wire' = Append(wire, p) /\ 1 \in 1 .. Len(queue[t]) /\ p.stream = t
      /\ p.link = link /\ p.time \in Nat
  <2>1. queue[t] \in Seq(ItemSet) /\ Head(queue[t]) = queue[t][1] /\ 1 \in 1 .. Len(queue[t])
    BY <1>2, <1>4
  <2>2. p.stream = t
    BY <1>2, <2>1, QueuedStream
  <2>3. p.link = link
    BY <1>2, <2>1, Zenon DEF LinksInv, QueuedHere
  <2>4. p \in PageSet /\ p.time \in Nat
    BY <1>2, <2>1, TimedPages
  <2>5. QED BY <1>4, <2>1, <2>2, <2>3, <2>4
<1>6. \A s \in Streams : Len(queue'[s]) \in Nat /\ \A j \in 1 .. Len(queue'[s]) :
        \E k \in 1 .. Len(queue[s]) : queue'[s][j] = queue[s][k]
  <2> SUFFICES ASSUME NEW s \in Streams
               PROVE  Len(queue'[s]) \in Nat /\ \A j \in 1 .. Len(queue'[s]) :
                        \E k \in 1 .. Len(queue[s]) : queue'[s][j] = queue[s][k]
    OBVIOUS
  <2>1. CASE s # t
    <3>1. queue'[s] = queue[s] /\ queue[s] \in Seq(ItemSet)
      BY <1>2, <1>4, <2>1
    <3>2. QED BY <3>1
  <2>2. CASE s = t
    <3> SUFFICES ASSUME NEW q, q = queue[s], NEW r, r = queue'[s]
                 PROVE  Len(r) \in Nat /\ \A j \in 1 .. Len(r) : \E k \in 1 .. Len(q) : r[j] = q[k]
      OBVIOUS
    <3>1. q \in Seq(ItemSet) /\ q # <<>> /\ r = Tail(q)
      BY <1>2, <1>4, <2>2
    <3>2. Len(r) = Len(q) - 1 /\ Len(q) \in Nat /\ r \in Seq(ItemSet) /\ \A j \in 1 .. Len(r) : r[j] = q[j + 1]
      BY <3>1, HeadTailProperties
    <3>3. \A j \in 1 .. Len(r) : j + 1 \in 1 .. Len(q) /\ r[j] = q[j + 1]
      BY <3>2
    <3>4. QED BY <3>2, <3>3
  <2>3. QED BY <2>1, <2>2
<1>7. \A s \in Streams : Onward(s)
  <2> SUFFICES ASSUME NEW s \in Streams PROVE Onward(s)
    OBVIOUS
  <2>1. newest_time[s] <= newest_time'[s]
    BY TimedPages
  <2>2. \A j \in 1 .. Len(queue'[s]) :
          \E k \in 1 .. Len(queue[s]) : queue'[s][j].page.time = queue[s][k].page.time
    BY <1>6
  <2>3. QED BY <2>1, <2>2, Zenon DEF Onward
<1>8. \A q \in PageSet : Ahead(q) => Ahead(q)'
  BY <1>7, AheadStays
<1>9. \A i \in 1 .. Len(wire) : Here(i) => wire[i].time <= p.time
  <2> SUFFICES ASSUME NEW i \in 1 .. Len(wire), Here(i) PROVE wire[i].time <= p.time
    OBVIOUS
  <2>1. AheadOf(wire[i].time, t)
    BY <1>1, Zenon DEF WireAhead, Ahead
  <2>2. QED BY <1>5, <2>1 DEF AheadOf
<1>10. \A s \in Streams : ClockedBy(wire, queue[s], s, newest_time[s])
  BY <1>1, Zenon DEF Clocked
<1>11. \A s \in Streams : newest_time[s] \in Nat /\ Len(queue[s]) \in Nat
  BY <1>4, TimedPages
\* The times of a queue go up.
<1>12. ASSUME NEW s \in Streams, NEW j \in 1 .. Len(queue[s])
       PROVE  /\ queue[s][1].page.time <= queue[s][j].page.time
              /\ queue[s][1].page.time <= newest_time[s]
  <2> SUFFICES ASSUME NEW w, w = wire, NEW q, q = queue[s], NEW n, n = newest_time[s]
               PROVE  q[1].page.time <= q[j].page.time /\ q[1].page.time <= n
    OBVIOUS
  <2>1. 1 \in 1 .. Len(q) /\ j \in Nat /\ 1 <= j /\ 1 <= Len(q) /\ Len(q) \in Nat
    BY <1>11, <1>12
  <2>2. Latest(w, q, s, 1, q[1].page.time) /\ Latest(w, q, s, j, q[j].page.time) /\ Latest(w, q, s, Len(q), n)
    BY <1>10, <1>12, <2>1 DEF ClockedBy
  <2>3. q[1].page.time \in Nat /\ q[j].page.time \in Nat /\ n \in Nat
    BY <1>12, <2>1, TimedPages
  <2>4. QED BY <2>1, <2>2, <2>3, LatestGrows
<1>13. Ahead(p)
  <2>1. BeforeData => p.time = 0
    <3> SUFFICES ASSUME BeforeData PROVE p.time = 0
      OBVIOUS
    <3>1. newest_time[t] = 0
      BY <1>1, <1>2, Zenon DEF Still, Timeless
    <3>2. p.time <= newest_time[t]
      BY <1>2, <1>5, <1>12
    <3>3. QED BY <1>5, <3>1, <3>2
  <2>2. ASSUME NEW s \in Current PROVE AheadOf(p.time, s)
    <3>1. ASSUME NEW j \in 1 .. Len(queue[s]) PROVE p.time <= queue[s][j].page.time
      <4>1. s \in Streams /\ queue[s] \in Seq(ItemSet) /\ 1 \in 1 .. Len(queue[s])
        BY <1>2, <1>4, <1>11, <3>1
      <4>2. queue[s] # <<>>
        BY <4>1
      <4>3. p.time <= queue[s][1].page.time
        BY <1>5, <4>2
      <4>4. queue[s][1].page.time <= queue[s][j].page.time
        BY <1>12, <3>1, <4>1
      <4>5. queue[s][1].page.time \in Nat /\ queue[s][j].page.time \in Nat
        BY <3>1, <4>1, TimedPages
      <4>6. QED BY <1>5, <4>3, <4>4, <4>5
    <3>2. ~Done(s) => p.time <= newest_time[s]
      <4>1. p.time <= newest_time[t]
        BY <1>2, <1>5, <1>12
      <4>2. s # t /\ ~Done(s) /\ ~BeforeData => p.time <= newest_time[s]
        OBVIOUS
      <4>3. p.time = 0 => p.time <= newest_time[s]
        BY <1>2, <1>11
      <4>4. QED BY <2>1, <4>1, <4>2, <4>3
    <3>3. QED BY <3>1, <3>2, Zenon DEF AheadOf
  <2>3. QED BY <2>1, <2>2, Zenon DEF Ahead
<1>14. Ahead(p)'
  BY <1>5, <1>8, <1>13
<1>15. ClockAt(wire', Len(wire) + 1)
  <2> SUFFICES ASSUME NEW w, w = wire, NEW v, v = wire', NEW q, q = queue[t] PROVE ClockAt(v, Len(w) + 1)
    OBVIOUS
  <2>1. OneMore(w, v, p)
    BY <1>5, Appended DEF TypeInv, DataInv, WireInv
  <2>2. Len(w) \in Nat /\ Len(v) = Len(w) + 1 /\ v[Len(w) + 1] = p
    BY <2>1 DEF OneMore
  <2>3. Latest(w, q, t, 1, p.time)
    BY <1>2, <1>5, <1>10 DEF ClockedBy
  <2>4. FrontOut(w, v, q, <<>>, t, 0)
    <3>1. \A k \in 1 .. 0 : <<>>[k] = q[k + 1]
      OBVIOUS
    <3>2. q[1].page = p /\ q[1].page.stream = t
      BY <1>5
    <3>3. QED BY <2>1, <3>1, <3>2, Zenon DEF FrontOut
  <2>5. 0 \in Nat /\ 0 \in 0 .. 0 /\ 0 + 1 = 1
    OBVIOUS
  <2>6. Latest(v, <<>>, t, 0, p.time)
    BY <2>3, <2>4, <2>5, LatestLetOut
  <2>7. 1 .. 0 = {}
    OBVIOUS
  <2>8. \/ p.time = 0
        \/ \E k \in 1 .. Len(v) : v[k].stream = t /\ GranuleTime(v[k]) = p.time
    BY <2>6, <2>7, Zenon DEF Latest
  <2>9. \A k \in 1 .. Len(v) : v[k].stream = t => GranuleTime(v[k]) <= p.time
    BY <2>6, Zenon DEF Latest
  <2>10. QED BY <1>5, <2>2, <2>8, <2>9 DEF ClockAt
<1>16. WireClock' /\ WireOrdered' /\ WireAhead'
  <2>1. WireInLinks
    BY DEF LinksInv
  <2>2. QED BY <1>1, <1>3, <1>5, <1>8, <1>9, <1>14, <1>15, <2>1, TimesWritten
<1>17. ASSUME NEW s \in Streams PROVE Clocked(s)' /\ Still(s)'
  <2>1. Clocked(s)'
    BY <1>1, <1>2, <1>4, ClockedLetOut
  <2>2. Timeless(s) => newest_time'[s] = 0
    BY <1>1, Zenon DEF Still
  <2>3. Still(s)'
    BY <1>1, <2>2, StillStays
  <2>4. QED BY <2>1, <2>3
<1>18. QED BY <1>16, <1>17, Zenon DEF TimesInv

\* release_ready_pages: some page of every other stream is at least as late.
LEMMA ReleasePageTimes ==
  ASSUME Fitting, Protocol, TypeInv, TypeInv', ProtocolInv, StreamsInv, TurnsInv, LinksInv, TimesInv,
         [Next]_vars, ~NextLink, ReleasePage
  PROVE  TimesInv'
<1> SUFFICES ASSUME NEW i \in Holding(1), i = Earliest(1), NEW t \in Current, t = Order[i]
             PROVE  TimesInv'
  BY EarliestFacts, EarliestStream DEF ReleasePage, Releasable, TypeInv, DataInv
<1>1. WritePending(t) /\ UNCHANGED <<newest_time, last_granule>>
  BY Zenon DEF ReleasePage
<1>2. /\ Settled(i) /\ queue[t] # <<>>
      /\ \A j \in Holding(1) : FrontTime(Order[i]) < FrontTime(Order[j]) \/ FrontTime(Order[i]) = FrontTime(Order[j])
  BY EarliestFacts, EarliestStream DEF ReleasePage, Releasable, TypeInv, DataInv
<1>3. \A s \in Streams : queue[s] \in Seq(ItemSet)
  BY DEF TypeInv, DataInv, QueuesInv
<1>4. \A s \in Streams : queue[s] # <<>> => FrontTime(s) = queue[s][1].page.time /\ 1 \in 1 .. Len(queue[s])
  BY <1>3 DEF FrontTime
<1>5. ASSUME NEW s \in Current, s # t
      PROVE  /\ queue[s] # <<>> => queue[t][1].page.time <= queue[s][1].page.time
             /\ ~Done(s) /\ ~BeforeData => queue[t][1].page.time <= newest_time[s]
  <2>1. s \in Streams /\ t \in Streams
    BY OrderFacts DEF TypeInv, ControlInv
  <2>2. PICK j \in DOMAIN Order : s = Order[j]
    BY OrderFacts DEF TypeInv, ControlInv
  <2>3. ~bos_emitted[s] \/ newest_time[s] >= FrontTime(t)
    BY <1>2, <1>5, <2>2 DEF Settled
  <2>4. FrontTime(t) = queue[t][1].page.time /\ FrontTime(t) \in Nat /\ newest_time[s] \in Nat
    BY <1>2, <1>4, <2>1, TimedPages
  <2>5. Placed(s) /\ Opened(s) /\ StreamInv(s)
    BY <2>1, Placing DEF TypeInv, ControlInv, LinksInv, OpenedInv, StreamsInv
  <2>6. ASSUME queue[s] # <<>> PROVE queue[t][1].page.time <= queue[s][1].page.time
    <3>1. queue[s][1].page.time \in Nat /\ FrontTime(s) = queue[s][1].page.time /\ 1 \in 1 .. Len(queue[s])
      BY <1>4, <2>1, <2>6, TimedPages
    <3>2. CASE Len(queue[s]) > 1
      <4>1. j \in Holding(1)
        BY <2>2, <3>2 DEF Holding
      <4>2. QED BY <1>2, <2>2, <2>4, <3>1, <4>1
    <3>3. CASE Len(queue[s]) = 1
      <4>1. newest_time[s] = queue[s][1].page.time
        BY <2>1, <2>6, <3>3 DEF TimesInv, Clocked, ClockedBy
      <4>2. bos_emitted[s]
        <5>1. Pages(s) # <<>>
          <6>1. /\ OnWire(s) \in Seq(PageSet) /\ Queued(s) \in Seq(PageSet)
                /\ Len(Queued(s)) = Len(queue[s])
            BY <2>1, PagesType DEF TypeInv, DataInv
          <6>2. Queued(s) # <<>>
            <7>1. Len(Queued(s)) = 1
              BY <3>3, <6>1
            <7>2. Queued(s) = <<>> => Len(Queued(s)) = 0
              OBVIOUS
            <7>3. QED BY <7>1, <7>2
          <6>3. QED BY <6>1, <6>2 DEF Pages
        <5>2. QED BY <2>5, <5>1, Zenon DEF StreamInv, Numbered
      <4>3. QED BY <2>3, <2>4, <3>1, <4>1, <4>2
    <3>4. Len(queue[s]) \in Nat
      <4>1. queue[s] \in Seq(ItemSet)
        BY <1>3, <2>1
      <4>2. QED BY <4>1
    <3>5. Len(queue[s]) = 1 \/ Len(queue[s]) > 1
      <4> SUFFICES ASSUME NEW n \in Nat, 1 \in 1 .. n PROVE n = 1 \/ n > 1
        BY <3>1, <3>4
      <4>1. QED OBVIOUS
    <3>6. QED BY <3>2, <3>3, <3>5
  <2>7. ASSUME ~Done(s), ~BeforeData PROVE queue[t][1].page.time <= newest_time[s]
    <3>1. ~BosDue(s)
      BY <2>7 DEF BosDue, BeforeData, InHeaders, Unopened, BosLoops
    <3>2. ~Blank(s)
      BY <1>5, <2>5, <3>1, Zenon DEF Blank, Placed
    <3>3. bos_emitted[s]
      BY <2>5, <3>2, Zenon DEF Opened
    <3>4. QED BY <2>3, <2>4, <3>3
  <2>8. QED BY <2>6, <2>7
<1>6. QED BY <1>1, <1>2, <1>5, LetOutTimes

\* drain_all_queued: of the headers, or of a link that is over.
LEMMA DrainPageTimes ==
  ASSUME Fitting, Protocol, TypeInv, TypeInv', ProtocolInv, StreamsInv, TurnsInv, LinksInv, TimesInv,
         [Next]_vars, ~NextLink, DrainPage
  PROVE  TimesInv'
<1> SUFFICES ASSUME NEW i \in Holding(0), i = Earliest(0), NEW t \in Current, t = Order[i]
             PROVE  TimesInv'
  BY EarliestFacts, EarliestStream DEF DrainPage, TypeInv, DataInv
<1>1. WritePending(t) /\ UNCHANGED <<newest_time, last_granule>>
  BY Zenon DEF DrainPage
<1>2. /\ queue[t] # <<>>
      /\ \A j \in Holding(0) : FrontTime(Order[i]) < FrontTime(Order[j]) \/ FrontTime(Order[i]) = FrontTime(Order[j])
  BY EarliestFacts, EarliestStream DEF DrainPage, TypeInv, DataInv
<1>3. \A s \in Streams : queue[s] \in Seq(ItemSet)
  BY DEF TypeInv, DataInv, QueuesInv
<1>4. \A s \in Streams : queue[s] # <<>> => FrontTime(s) = queue[s][1].page.time /\ 1 \in 1 .. Len(queue[s])
  BY <1>3 DEF FrontTime
<1>5. ASSUME NEW s \in Current, s # t
      PROVE  /\ queue[s] # <<>> => queue[t][1].page.time <= queue[s][1].page.time
             /\ ~Done(s) /\ ~BeforeData => queue[t][1].page.time <= newest_time[s]
  <2>1. s \in Streams /\ t \in Streams
    BY OrderFacts DEF TypeInv, ControlInv
  <2>2. PICK j \in DOMAIN Order : s = Order[j]
    BY OrderFacts DEF TypeInv, ControlInv
  <2>3. FrontTime(t) = queue[t][1].page.time /\ FrontTime(t) \in Nat
    BY <1>2, <1>4, <2>1, TimedPages
  <2>4. ASSUME queue[s] # <<>> PROVE queue[t][1].page.time <= queue[s][1].page.time
    <3>1. queue[s][1].page.time \in Nat /\ FrontTime(s) = queue[s][1].page.time
      BY <1>4, <2>1, <2>4, TimedPages
    <3>2. Len(queue[s]) > 0
      BY <1>4, <2>1, <2>4
    <3>3. j \in Holding(0)
      BY <2>2, <3>2 DEF Holding
    <3>4. QED BY <1>2, <2>2, <2>3, <3>1, <3>3
  <2>5. BeforeData \/ Done(s)
    <3>1. stage \in {"drain_headers", "drain_link", "drain"}
      BY DEF DrainPage, Draining, Inside
    <3>2. CASE stage = "drain_headers"
      BY <3>2 DEF BeforeData, InHeaders
    <3>3. CASE stage \in {"drain_link", "drain"}
      BY <1>5, <3>3 DEF Done
    <3>4. QED BY <3>1, <3>2, <3>3
  <2>6. QED BY <2>4, <2>5
<1>6. QED BY <1>1, <1>2, <1>5, LetOutTimes

-----------------------------------------------------------------------------
(* Nothing put on the wire.                                                *)

LEMMA TimesQueued ==
  ASSUME Fitting, Protocol, TypeInv, TypeInv', ProtocolInv, StreamsInv, TurnsInv, TimesInv,
         [Next]_vars, ~NextLink, UNCHANGED wire,
         \A s \in Streams : Onward(s) /\ Clocked(s)' /\ (Timeless(s) => newest_time'[s] = 0)
  PROVE  TimesInv'
<1>1. WireClock /\ WireOrdered /\ WireAhead /\ \A s \in Streams : Still(s)
  BY Zenon DEF TimesInv
<1>2. \A q \in PageSet : Ahead(q) => Ahead(q)'
  BY AheadStays
<1>3. UNCHANGED link
  BY LinkStays
<1>4. WireClock' /\ WireOrdered' /\ WireAhead'
  BY <1>1, <1>2, <1>3, TimesUnwritten
<1>5. \A s \in Streams : Still(s)'
  BY <1>1, StillStays
<1>6. QED BY <1>4, <1>5, Zenon DEF TimesInv

LEMMA TimesStay ==
  ASSUME Fitting, Protocol, TypeInv, TypeInv', ProtocolInv, StreamsInv, TurnsInv, TimesInv,
         [Next]_vars, ~NextLink, UNCHANGED <<wire, queue, newest_time, last_granule>>
  PROVE  TimesInv'
<1> SUFFICES ASSUME NEW s \in Streams
             PROVE  Onward(s) /\ Clocked(s)' /\ (Timeless(s) => newest_time'[s] = 0)
  BY TimesQueued
<1>1. Clocked(s) /\ Still(s)
  BY Zenon DEF TimesInv
<1>2. Onward(s)
  BY OnwardStays
<1>3. Clocked(s)'
  BY <1>1, ClockedStays
<1>4. QED BY <1>1, <1>2, <1>3, Zenon DEF Still

\* flush_page: a page is queued with the latest time of its stream so far.
LEMMA FlushPageTimes ==
  ASSUME Fitting, Protocol, TypeInv, TypeInv', ProtocolInv, StreamsInv, TurnsInv, TimesInv,
         [Next]_vars, ~NextLink, FlushPage
  PROVE  TimesInv'
<1> SUFFICES ASSUME NEW t \in Streams, t = writing.s PROVE TimesInv'
  BY AtWork
<1> DEFINE b    == buffered[t]
           c    == PageTime(t, b.granule)
           time == IF c > newest_time[t] THEN c ELSE newest_time[t]
           flags == (IF b.cont THEN {"cont"} ELSE {}) \cup (IF bos_emitted[t] THEN {} ELSE {"bos"})
           page == Page(t, flags, b.granule, b.segs, time)
           item == [page |-> page, kf |-> b.kf]
<1>1. /\ step = "flush" /\ UNCHANGED wire
      /\ queue' = [queue EXCEPT ![t] = Append(@, item)]
      /\ newest_time' = [newest_time EXCEPT ![t] = time]
      /\ last_granule' = IF b.granule = NoPts THEN last_granule
                         ELSE [last_granule EXCEPT ![t] = b.granule]
  BY DEF FlushPage, Doing
<1>2. /\ queue \in [Streams -> Seq(ItemSet)] /\ newest_time \in [Streams -> Nat]
      /\ last_granule \in [Streams -> Nat]
      /\ b.granule \in Granules /\ b.kf \in Granules /\ b.segs \in SegsSet
  BY <1>1, AtWork DEF TypeInv, WritingInv, DataInv, QueuesInv, ClocksInv, BuilderSet
<1>3. c \in Nat /\ time \in Nat /\ newest_time[t] <= time /\ c <= time
      /\ (time = c \/ time = newest_time[t])
  <2>1. c \in Nat /\ newest_time[t] \in Nat
    BY <1>2, PageTimeType
  <2> HIDE DEF c
  <2>2. QED BY <2>1
<1>4. page \in PageSet
  <2>1. flags \in PageFlags
    BY DEF PageFlags
  <2> HIDE DEF time, flags
  <2>2. QED BY <1>2, <1>3, <2>1, PageType DEF TypeInv, DataInv
<1>5. page.stream = t /\ page.granule = b.granule /\ page.time = time
  BY DEF Page
<1> HIDE DEF page
<1>6. item \in ItemSet /\ item.page = page
  BY <1>2, <1>4 DEF ItemSet
<1> HIDE DEF item, time, b, c
<1>7. Clocked(t)
  BY DEF TimesInv
<1>8. GranuleTime(page) <= time /\ (time = newest_time[t] \/ time = GranuleTime(page))
  <2>1. CASE b.granule = NoPts
    <3>1. c = newest_time[t] /\ GranuleTime(page) = 0
      BY <1>2, <1>5, <2>1, TimeOfPage DEF c, PageTime
    <3>2. QED BY <1>3, <3>1
  <2>2. CASE b.granule # NoPts
    <3>1. GranuleTime(page) = c
      BY <1>2, <1>5, <2>2, TimeOfPage DEF c
    <3>2. QED BY <1>3, <3>1
  <2>3. QED BY <2>1, <2>2
<1>9. queue'[t] = Append(queue[t], item) /\ newest_time'[t] = time
  BY <1>1, <1>2
<1>10. ClockedBy(wire, Append(queue[t], item), t, time)
  <2> SUFFICES ASSUME NEW r, r = Append(queue[t], item), NEW n, n = newest_time[t], NEW u, u = time
               PROVE  ClockedBy(wire, r, t, u)
    OBVIOUS
  <2>1. u = item.page.time /\ n <= u /\ GranuleTime(item.page) <= u /\ (u = n \/ u = GranuleTime(item.page))
    BY <1>3, <1>5, <1>6, <1>8
  <2>2. QED BY <1>6, <1>7, <2>1, ClockedQueued
<1>11. PageTime(t, last_granule[t])' <= time
  <2>1. CASE b.granule = NoPts
    <3>1. last_granule'[t] = last_granule[t] /\ last_granule[t] # NoPts
      BY <1>1, <1>2, <2>1 DEF NoPts
    <3>2. PageTime(t, last_granule[t])' = PageTime(t, last_granule[t])
      BY <3>1, Zenon DEF PageTime
    <3>3. PageTime(t, last_granule[t]) <= newest_time[t] /\ PageTime(t, last_granule[t]) \in Nat
          /\ newest_time[t] \in Nat
      BY <1>2, <1>7, PageTimeType DEF Clocked, Granules
    <3>4. QED BY <1>3, <3>2, <3>3
  <2>2. CASE b.granule # NoPts
    <3>1. last_granule'[t] = b.granule
      BY <1>1, <1>2, <2>2
    <3>2. PageTime(t, last_granule[t])' = c
      BY <2>2, <3>1, Zenon DEF PageTime, c
    <3>3. QED BY <1>3, <3>2
  <2>3. QED BY <2>1, <2>2
<1>12. Clocked(t)'
  BY <1>1, <1>9, <1>10, <1>11 DEF Clocked
<1>13. ~Done(t)
  BY <1>1, AtWorkOn
<1>14. Onward(t)
  <2>1. \A j \in 1 .. Len(queue'[t]) :
          queue'[t][j] = item \/ (j \in 1 .. Len(queue[t]) /\ queue'[t][j] = queue[t][j])
    BY <1>2, <1>9
  <2>2. newest_time[t] <= item.page.time /\ newest_time[t] <= newest_time'[t]
    BY <1>3, <1>5, <1>6, <1>9
  <2>3. \A j \in 1 .. Len(queue'[t]) :
          \/ \E k \in 1 .. Len(queue[t]) : queue'[t][j].page.time = queue[t][k].page.time
          \/ ~Done(t) /\ newest_time[t] <= queue'[t][j].page.time
    BY <1>13, <2>1, <2>2
  <2>4. QED BY <2>2, <2>3, Zenon DEF Onward
<1>15. Timeless(t) => newest_time'[t] = 0
  <2> SUFFICES ASSUME Timeless(t) PROVE time = 0
    BY <1>9
  <2>1. newest_time[t] = 0 /\ b.granule \in {0, NoPts}
    BY Zenon DEF TimesInv, Still, b
  <2>2. c = 0
    BY <2>1, TimeZero DEF c
  <2>3. QED BY <1>3, <2>1, <2>2
<1>16. ASSUME NEW s \in Streams
       PROVE  Onward(s) /\ Clocked(s)' /\ (Timeless(s) => newest_time'[s] = 0)
  <2>1. CASE s = t
    BY <1>12, <1>14, <1>15, <2>1
  <2>2. CASE s # t
    <3>1. queue'[s] = queue[s] /\ newest_time'[s] = newest_time[s] /\ last_granule'[s] = last_granule[s]
      BY <1>1, <1>2, <2>2
    <3>2. Clocked(s) /\ Still(s)
      BY Zenon DEF TimesInv
    <3>3. Onward(s)
      BY <3>1, OnwardStays
    <3>4. Clocked(s)'
      BY <1>1, <3>1, <3>2, ClockedStays
    <3>5. QED BY <3>1, <3>2, <3>3, <3>4, Zenon DEF Still
  <2>3. QED BY <2>1, <2>2
<1>17. QED BY <1>1, <1>16, TimesQueued

\* A flag on a queued page moves no time.
LEMMA ClockedFlagged ==
  ASSUME NEW w, NEW q, NEW r, NEW s, NEW n, ClockedBy(w, q, s, n), q # <<>>,
         Len(r) = Len(q), Len(q) \in Nat \ {0},
         \A j \in 1 .. Len(q) : /\ r[j].page.time = q[j].page.time
                                /\ GranuleTime(r[j].page) = GranuleTime(q[j].page)
  PROVE  ClockedBy(w, r, s, n)
<1>1. ASSUME NEW j \in 0 .. Len(q), NEW t, Latest(w, q, s, j, t) PROVE Latest(w, r, s, j, t)
  <2>1. \A k \in 1 .. j : GranuleTime(r[k].page) = GranuleTime(q[k].page)
    OBVIOUS
  <2>2. QED BY <1>1, <2>1, LatestSame
<1>2. \A j \in 1 .. Len(r) : Latest(w, r, s, j, r[j].page.time)
  <2> SUFFICES ASSUME NEW j \in 1 .. Len(q) PROVE Latest(w, r, s, j, r[j].page.time)
    OBVIOUS
  <2>1. Latest(w, q, s, j, q[j].page.time) /\ r[j].page.time = q[j].page.time
    BY Zenon DEF ClockedBy
  <2>2. j \in 0 .. Len(q)
    OBVIOUS
  <2>3. QED BY <1>1, <2>1, <2>2
<1>3. Latest(w, r, s, Len(r), n)
  <2>1. Latest(w, q, s, Len(q), n) /\ Len(q) \in 0 .. Len(q)
    BY DEF ClockedBy
  <2>2. QED BY <1>1, <2>1
<1>4. n = r[Len(r)].page.time
  <2>1. n = q[Len(q)].page.time /\ Len(q) \in 1 .. Len(q)
    BY DEF ClockedBy
  <2>2. QED BY <2>1
<1>5. QED BY <1>2, <1>3, <1>4, Zenon DEF ClockedBy

\* finalize_current_link: EOS on a queued page, or on a nil page of the last
\* granule.
LEMMA CloseStreamTimes ==
  ASSUME Fitting, Protocol, TypeInv, TypeInv', ProtocolInv, StreamsInv, TurnsInv, TimesInv,
         [Next]_vars, ~NextLink, CloseStream
  PROVE  TimesInv'
<1> SUFFICES ASSUME NEW t \in Streams, t = Turn, t \in Current PROVE TimesInv'
  BY TurnType DEF TypeInv
<1>1. UNCHANGED <<wire, newest_time, last_granule>>
  BY Zenon DEF CloseStream
<1>2. queue \in [Streams -> Seq(ItemSet)] /\ queue[t] \in Seq(ItemSet) /\ newest_time[t] \in Nat
  BY DEF TypeInv, DataInv, QueuesInv, ClocksInv
<1>3. \A s \in Streams : Clocked(s) /\ Still(s)
  BY Zenon DEF TimesInv
<1> DEFINE n == Len(queue[t])
<1>4. SUFFICES \/ queue' = queue
               \/ /\ \A s \in Streams : s # t => queue'[s] = queue[s]
                  /\ Onward(t) /\ ClockedBy(wire, queue'[t], t, newest_time[t])
  <2>1. ASSUME NEW s \in Streams, queue'[s] = queue[s] PROVE Onward(s) /\ Clocked(s)'
    BY <1>1, <1>3, <2>1, OnwardStays, ClockedStays
  <2>2. ASSUME ClockedBy(wire, queue'[t], t, newest_time[t]) PROVE Clocked(t)'
    <3>1. PageTime(t, last_granule[t])' = PageTime(t, last_granule[t])
      BY <1>1, Zenon DEF PageTime
    <3>2. PageTime(t, last_granule[t]) <= newest_time[t]
      BY <1>3, Zenon DEF Clocked
    <3>3. QED BY <1>1, <2>2, <3>1, <3>2 DEF Clocked
  <2>3. \A s \in Streams : Onward(s) /\ Clocked(s)'
    BY <1>4, <2>1, <2>2
  <2>4. \A s \in Streams : Timeless(s) => newest_time'[s] = 0
    BY <1>1, <1>3, Zenon DEF Still
  <2>5. QED BY <1>1, <2>3, <2>4, TimesQueued
<1>5. CASE n > 0 /\ queue' = [queue EXCEPT ![t][n].page.flags = @ \cup {"eos"}]
  <2> DEFINE old == queue[t][n].page
             p == [old EXCEPT !.flags = @ \cup {"eos"}]
             item == [queue[t][n] EXCEPT !.page = p]
  <2>1. n \in 1 .. n /\ queue[t][n] \in ItemSet /\ n \in Nat \ {0}
    BY <1>2, <1>5
  <2>2. old \in PageSet
    BY <2>1 DEF ItemSet
  <2>3. p.stream = old.stream /\ p.granule = old.granule /\ p.time = old.time
    BY <2>2 DEF PageSet
  <2>4. item.page = p
    BY <2>1 DEF ItemSet
  <2>5. queue'[t] = [queue[t] EXCEPT ![n] = item]
    BY <1>2, <1>5
  <2>6. GranuleTime(p) = GranuleTime(old)
    <3> SUFFICES ASSUME NEW x, NEW y, x.stream = y.stream, x.granule = y.granule
                 PROVE  GranuleTime(x) = GranuleTime(y)
      BY <2>3
    <3>1. QED BY Zenon DEF GranuleTime
  <2> HIDE DEF item, p
  <2> SUFFICES ASSUME NEW q, q = queue[t], NEW r, r = queue'[t]
               PROVE  /\ \A s \in Streams : s # t => queue'[s] = queue[s]
                      /\ Onward(t) /\ ClockedBy(wire, r, t, newest_time[t])
    OBVIOUS
  <2>7. Len(r) = Len(q) /\ Len(q) \in Nat \ {0} /\ q # <<>>
    BY <1>2, <2>1, <2>5
  <2>8. \A j \in 1 .. Len(q) : r[j] = q[j] \/ (j = n /\ r[j] = item)
    BY <1>2, <2>1, <2>5
  <2>9. \A j \in 1 .. Len(q) : /\ r[j].page.time = q[j].page.time
                               /\ GranuleTime(r[j].page) = GranuleTime(q[j].page)
    BY <2>3, <2>4, <2>6, <2>8
  <2>10. ClockedBy(wire, q, t, newest_time[t])
    BY <1>3, Zenon DEF Clocked
  <2>11. ClockedBy(wire, r, t, newest_time[t])
    <3> SUFFICES ASSUME NEW w, w = wire, NEW m, m = newest_time[t] PROVE ClockedBy(w, r, t, m)
      OBVIOUS
    <3>1. ClockedBy(w, q, t, m)
      BY <2>10
    <3>2. QED BY <2>7, <2>9, <3>1, ClockedFlagged
  <2>12. Onward(t)
    <3>1. newest_time[t] <= newest_time'[t]
      BY <1>1, <1>2
    <3>2. \A j \in 1 .. Len(r) : \E k \in 1 .. Len(q) : r[j].page.time = q[k].page.time
      BY <2>7, <2>9
    <3>3. QED BY <3>1, <3>2, Zenon DEF Onward
  <2>13. \A s \in Streams : s # t => queue'[s] = queue[s]
    BY <1>2, <1>5
  <2>14. QED BY <2>11, <2>12, <2>13
<1>6. CASE n = 0 /\ queue' = [queue EXCEPT ![t] = <<[kf |-> NoPts, page |->
                             Page(t, {"eos"}, last_granule[t], <<>>, newest_time[t])]>>]
  <2> DEFINE p == Page(t, {"eos"}, last_granule[t], <<>>, newest_time[t])
             item == [kf |-> NoPts, page |-> p]
  <2>1. last_granule[t] \in Granules /\ last_granule[t] # NoPts
    BY DEF Granules, NoPts, TypeInv, DataInv, ClocksInv
  <2>2. p \in PageSet
    <3>1. {"eos"} \in PageFlags /\ <<>> \in SegsSet
      BY MuxAssumption DEF PageFlags, SegsSet
    <3>2. QED BY <1>2, <2>1, <3>1, PageType DEF TypeInv, DataInv
  <2>3. p.stream = t /\ p.granule = last_granule[t] /\ p.time = newest_time[t]
    BY DEF Page
  <2> HIDE DEF p
  <2>4. item \in ItemSet /\ item.page = p
    BY <2>2 DEF ItemSet, Granules
  <2>5. queue' = [queue EXCEPT ![t] = <<item>>]
    BY <1>6 DEF p
  <2> HIDE DEF item
  <2>6. queue[t] = <<>>
    BY <1>2, <1>6
  <2>7. Append(<<>>, item) = <<item>>
    OBVIOUS
  <2>8. queue'[t] = <<item>> /\ \A s \in Streams : s # t => queue'[s] = queue[s]
    BY <1>2, <2>5
  <2>9. GranuleTime(p) <= newest_time[t]
    <3>1. GranuleTime(p) = PageTime(t, last_granule[t])
      BY <2>1, <2>3, TimeOfPage
    <3>2. QED BY <1>3, <3>1 DEF Clocked
  <2>10. ClockedBy(wire, <<item>>, t, newest_time[t])
    <3> SUFFICES ASSUME NEW r, r = <<item>>, NEW m, m = newest_time[t] PROVE ClockedBy(wire, r, t, m)
      OBVIOUS
    <3>1. r = Append(queue[t], item) /\ m = item.page.time /\ m <= m /\ GranuleTime(item.page) <= m
      BY <1>2, <2>3, <2>4, <2>6, <2>7, <2>9
    <3>2. QED BY <1>3, <2>4, <3>1, ClockedQueued
  <2>11. ~Done(t)
    <3>1. step = "none" /\ stage \in ClosingLoops
      BY DEF CloseStream, Closing, Inside, ClosingLoops
    <3>2. trailer_written = FALSE
      BY <3>1, UnderWay DEF TypeInv, ClosingLoops
    <3>3. ~Earlier(t) /\ ~Passed(t)
      BY Placing, TurnNotPassed DEF TypeInv, ControlInv, Placed
    <3>4. QED BY <3>1, <3>2, <3>3 DEF Done, ClosingLoops
  <2>12. Onward(t)
    <3>1. newest_time[t] <= newest_time'[t] /\ newest_time[t] <= item.page.time
      BY <1>1, <1>2, <2>3, <2>4
    <3>2. \A j \in 1 .. Len(queue'[t]) : queue'[t][j] = item
      BY <2>8
    <3>3. \A j \in 1 .. Len(queue'[t]) : ~Done(t) /\ newest_time[t] <= queue'[t][j].page.time
      BY <2>11, <3>1, <3>2
    <3>4. QED BY <3>1, <3>3, Zenon DEF Onward
  <2>13. QED BY <2>8, <2>10, <2>12
<1>7. QED
  <2>1. \/ n > 0 /\ queue' = [queue EXCEPT ![t][n].page.flags = @ \cup {"eos"}]
        \/ n = 0 /\ queue' = [queue EXCEPT ![t] = <<[kf |-> NoPts, page |->
                             Page(t, {"eos"}, last_granule[t], <<>>, newest_time[t])]>>]
        \/ queue' = queue
    BY DEF CloseStream
  <2>2. QED BY <1>5, <1>6, <2>1

\* No page of the next link is on the wire yet.
LEMMA NextLinkTimes ==
  ASSUME Fitting, Protocol, TypeInv, TypeInv', ProtocolInv, StreamsInv, TurnsInv, LinksInv, TimesInv,
         NextLink
  PROVE  TimesInv'
<1>1. link' = link + 1 /\ link \in Nat /\ UNCHANGED <<wire, queue, newest_time, last_granule>>
  BY MuxAssumption DEF NextLink, writers, TypeInv, ControlInv
<1>2. \A i \in 1 .. Len(wire) : wire[i].link <= link /\ wire[i].link \in Nat
  <2>1. \A i \in 1 .. Len(wire) : wire[i].link <= link
    BY Zenon DEF LinksInv, WireInLinks
  <2>2. \A p \in PageSet : p.link \in Nat
    BY DEF PageSet
  <2>3. QED BY <2>1, <2>2, TimedPages
<1>3. WireAhead'
  <2>1. \A i \in 1 .. Len(wire) : ~Here(i)'
    BY <1>1, <1>2 DEF Here
  <2>2. QED BY <1>1, <2>1, Zenon DEF WireAhead
<1>4. WireClock' /\ WireOrdered'
  BY <1>1, Zenon DEF TimesInv, WireClock, WireOrdered
<1>5. ASSUME NEW s \in Streams PROVE Clocked(s)' /\ Still(s)'
  <2>1. Clocked(s) /\ Still(s)
    BY Zenon DEF TimesInv
  <2>2. Clocked(s)'
    BY <1>1, <2>1, ClockedStays
  <2>3. [Next]_vars
    BY Zenon DEF Next, Steps
  <2>4. Still(s)'
    BY <1>1, <2>1, <2>3, StillStays, Zenon DEF Still
  <2>5. QED BY <2>2, <2>4
<1>6. QED BY <1>3, <1>4, <1>5, Zenon DEF TimesInv

-----------------------------------------------------------------------------
(* The invariant of the times holds.                                       *)

LEMMA InitTimes == Init => TimesInv
<1> SUFFICES ASSUME Init PROVE TimesInv
  OBVIOUS
<1>1. /\ wire = <<>>
      /\ \A s \in Streams : /\ queue[s] = <<>> /\ newest_time[s] = 0 /\ last_granule[s] = 0
                            /\ buffered[s] = EmptyBuilder
  BY DEF Init
<1>2. 1 .. Len(wire) = {} /\ 2 .. Len(wire) = {} /\ 1 .. Len(<<>>) = {} /\ Len(<<>>) = 0 /\ 1 .. 0 = {}
  BY <1>1
<1>3. WireClock /\ WireOrdered /\ WireAhead
  BY <1>2, Zenon DEF WireClock, WireOrdered, WireAhead
<1>4. ASSUME NEW s \in Streams PROVE Clocked(s)
  <2>1. Latest(wire, <<>>, s, 0, 0)
    BY <1>2, Zenon DEF Latest
  <2>2. ClockedBy(wire, <<>>, s, 0)
    BY <1>2, <2>1, Zenon DEF ClockedBy
  <2>3. PageTime(s, 0) = 0
    BY <1>1, TimeZero
  <2>4. 0 <= 0
    OBVIOUS
  <2>5. QED BY <1>1, <2>2, <2>3, <2>4 DEF Clocked
<1>5. \A s \in Streams : Still(s)
  BY <1>1 DEF Still, EmptyBuilder
<1>6. QED BY <1>3, <1>4, <1>5, Zenon DEF TimesInv

LEMMA StepTimes ==
  ASSUME Headed, Fitting, Protocol, TypeInv, TypeInv', PagesInv, LinksInv, OrderInv, TimesInv,
         [Next]_vars
  PROVE  TimesInv'
<1>1. ProtocolInv /\ StreamsInv /\ TurnsInv /\ WireInLinks
  BY Zenon DEF PagesInv, StreamsInv, LinksInv, OrderInv
<1>2. CASE NextLink
  BY <1>1, <1>2, NextLinkTimes
<1> SUFFICES ASSUME ~NextLink PROVE TimesInv'
  BY <1>2
<1>3. CASE WriteBos
  BY <1>1, <1>3, WriteBosTimes
<1>4. CASE WriteSkeletonPage
  BY <1>1, <1>4, WriteSkeletonPageTimes
<1>5. CASE ReleasePage
  BY <1>1, <1>5, ReleasePageTimes
<1>6. CASE DrainPage
  BY <1>1, <1>6, DrainPageTimes
<1>7. CASE FlushPage
  BY <1>1, <1>7, FlushPageTimes
<1>8. CASE CloseStream
  BY <1>1, <1>8, CloseStreamTimes
<1>9. CASE ~(WriteBos \/ WriteSkeletonPage \/ ReleasePage \/ DrainPage \/ FlushPage \/ CloseStream)
  <2>1. UNCHANGED <<wire, queue, newest_time, last_granule>>
    BY <1>9, Zenon DEF Next, Calls, Steps, Terminated, vars, writers, WriteHeader, WritePacket,
         SetPageTarget, BeginNewLink, WriteTrailer, Arm, ArmSkeleton, WriteSecondary, PassTurn,
         BeginPacket, PutLaces, StampHeader, StampContent, StampTheora, ReleaseDone, DrainDone,
         CloseFlush, Backfill
  <2>2. QED BY <1>1, <2>1, TimesStay
<1>10. QED BY <1>3, <1>4, <1>5, <1>6, <1>7, <1>8, <1>9

\* A page is let out with the latest time of its stream.
LEMMA TimesImply == TypeInv /\ TimesInv => TimeOrder
<1> SUFFICES ASSUME TypeInv, WireClock, WireOrdered PROVE TimeOrder
  BY Zenon DEF TimesInv
<1> DEFINE Before(i) == {k \in 1 .. i : wire[k].stream = wire[i].stream}
           Clock(i) == CHOOSE t \in {GranuleTime(wire[k]) : k \in Before(i)} :
                         \A k \in Before(i) : GranuleTime(wire[k]) <= t
           clock == [i \in DOMAIN wire |-> Clock(i)]
<1>1. DOMAIN wire = 1 .. Len(wire) /\ Len(wire) \in Nat
  BY DEF TypeInv, DataInv, WireInv
<1>2. ASSUME NEW i \in 1 .. Len(wire) PROVE Clock(i) = wire[i].time
  <2> DEFINE T == {GranuleTime(wire[k]) : k \in Before(i)}
             u == wire[i].time
  <2>1. \A k \in Before(i) : GranuleTime(wire[k]) \in Nat /\ GranuleTime(wire[k]) <= u
    <3>1. \A k \in 1 .. i : k \in 1 .. Len(wire)
      BY <1>1
    <3>2. QED BY <3>1, TimedPages DEF WireClock, ClockAt
  <2>2. i \in Before(i)
    OBVIOUS
  <2>3. u \in Nat
    BY TimedPages
  <2>4. u \in T
    <3>1. CASE \E k \in 1 .. i : wire[k].stream = wire[i].stream /\ GranuleTime(wire[k]) = u
      BY <3>1
    <3>2. CASE u = 0
      <4>1. GranuleTime(wire[i]) = u
        BY <2>1, <2>2, <3>2
      <4>2. QED BY <2>2, <4>1
    <3>3. QED BY <3>1, <3>2 DEF WireClock, ClockAt
  <2> HIDE DEF u, Before
  <2>5. \A t \in T : (\A k \in Before(i) : GranuleTime(wire[k]) <= t) => t = u
    <3> SUFFICES ASSUME NEW t \in T, \A k \in Before(i) : GranuleTime(wire[k]) <= t PROVE t = u
      OBVIOUS
    <3>1. PICK k \in Before(i) : GranuleTime(wire[k]) = u
      BY <2>4
    <3>2. PICK m \in Before(i) : GranuleTime(wire[m]) = t
      OBVIOUS
    <3>3. t <= u /\ u <= t /\ t \in Nat
      BY <2>1, <3>1, <3>2
    <3>4. QED BY <2>3, <3>3
  <2>6. \A k \in Before(i) : GranuleTime(wire[k]) <= u
    BY <2>1
  <2> HIDE DEF T
  <2>7. Clock(i) = CHOOSE t \in T : \A k \in Before(i) : GranuleTime(wire[k]) <= t
    BY Zenon DEF T
  <2> HIDE DEF Clock
  <2>8. Clock(i) \in T /\ \A k \in Before(i) : GranuleTime(wire[k]) <= Clock(i)
    BY <2>4, <2>6, <2>7, Zenon
  <2>9. QED BY <2>5, <2>8 DEF u
<1>3. ASSUME NEW i \in 2 .. Len(wire), wire[i - 1].link = wire[i].link PROVE clock[i - 1] <= clock[i]
  <2>1. i \in 1 .. Len(wire) /\ i - 1 \in 1 .. Len(wire)
    BY <1>1
  <2>2. wire[i - 1].time <= wire[i].time
    BY <1>3 DEF WireOrdered
  <2> HIDE DEF Clock
  <2>3. clock[i - 1] = wire[i - 1].time /\ clock[i] = wire[i].time
    BY <1>1, <1>2, <2>1
  <2>4. QED BY <2>2, <2>3
<1>4. QED BY <1>3, Zenon DEF TimeOrder

\* The pages of a link come out in increasing order of the times of their
\* streams (mux.rs: flush_page, release_ready_pages, drain_all_queued), for a
\* caller who follows the API and gives every stream extradata with headers, no
\* more than its codec has, whatever the packets' timestamps.
THEOREM TimesAdvance == Protocol /\ Headed /\ Fitting /\ Spec => []TimeOrder
<1> DEFINE Inv == TypeInv /\ PagesInv /\ LinksInv /\ OrderInv /\ TimesInv
<1>1. Protocol /\ Headed /\ Fitting /\ Init => Inv
  BY InitType, InitPages, InitLinks, InitOrder, InitTimes
<1>2. Protocol /\ Headed /\ Fitting /\ Inv /\ [Next]_vars => Inv'
  <2> SUFFICES ASSUME Protocol, Headed, Fitting, Inv, [Next]_vars PROVE Inv'
    OBVIOUS
  <2>1. TypeInv' /\ PagesInv'
    BY TypeStep, StepPages
  <2>2. LinksInv'
    BY StepLinks
  <2>3. OrderInv'
    BY <2>1, <2>2, StepOrder
  <2>4. TimesInv'
    BY <2>1, StepTimes
  <2>5. QED BY <2>1, <2>2, <2>3, <2>4
<1>3. Inv => TimeOrder
  BY TimesImply
<1>4. Protocol => []Protocol
  OBVIOUS
<1>5. Headed => []Headed
  OBVIOUS
<1>6. Fitting => []Fitting
  OBVIOUS
<1>7. QED BY <1>1, <1>2, <1>3, <1>4, <1>5, <1>6, PTL DEF Spec
=============================================================================
