----------------------------- MODULE OggMuxPages -----------------------------
(***************************************************************************)
(* The pages of a stream, in whatever order they were let out: StreamPages *)
(* for callers who write the header, packets and the trailer in turn.      *)
(*                                                                         *)
(* StreamPages says nothing of where a call stands, and no step keeps it   *)
(* by itself: a page that CloseStream marks EOS stays the last one only    *)
(* because no call flushes that stream again, and a BOS page is the first  *)
(* one only because nothing is written to a stream before its turn in the  *)
(* header section.  PagesInv adds, for each stream, whether its BOS page   *)
(* is still due (Blank), its headers are being written (Section), its last *)
(* page has EOS (Done) and is on the wire (Closed), and what each of these *)
(* means for its pages, its builder and the packets handed over.           *)
(*                                                                         *)
(* The laces of a stream are those of the packets handed over, whatever    *)
(* the caller's order: PacketsKept, which says of a packet in the middle   *)
(* of write_packet only that its laces follow one another, and nothing of  *)
(* what comes next.  PacketsInv says which lace is due, from where         *)
(* write_packet stands, and that the builder of a page knows whether the   *)
(* last page made left a packet open.  The BOS page, which goes around the *)
(* queue and the builder, is in order because the stream is blank until    *)
(* then.                                                                   *)
(***************************************************************************)
EXTENDS OggMuxProofs, SequenceTheorems

\* What the theorem asks of the caller: the API in order, and no serial of
\* his own for the Skeleton, which the muxer takes unseen.
Protocol == ~AnyOrder /\ SkelSerial = NoSerial

-----------------------------------------------------------------------------
(* Where the muxer stands with a stream.                                   *)

Passed(s)  == \E i \in 1 .. turn - 1 : Order[i] = s      \* its turn is over
Earlier(s) == \E k \in DOMAIN Links : k < link /\ s \in ToSet(Links[k])
Later(s)   == \E k \in DOMAIN Links : k > link /\ s \in ToSet(Links[k])

\* Its BOS page is still due.
BosDue(s) ==
  \/ ~header_written
  \/ stage \in {"arm", "fishead"}
  \/ stage = "theora_bos" /\ (s \in Theora => ~Passed(s))
  \/ stage = "other_bos" /\ s \notin Theora /\ ~Passed(s)
\* Its other headers are all written.
HeadersPassed(s) ==
  \/ stage = "theora_headers" /\ s \in Theora /\ Passed(s)
  \/ stage = "other_headers" /\ (s \notin Theora => Passed(s))
  \/ stage = "drain_headers"

Blank(s)   == Later(s) \/ (s \in Current /\ BosDue(s))
Section(s) == s \in Current /\ stage \in BosLoops \cup HeaderLoops \cup {"drain_headers"}
\* Its last page carries EOS.
Done(s) ==
  \/ Earlier(s) \/ trailer_written
  \/ s \in Current /\ stage \in ClosingLoops /\ Passed(s)
  \/ s \in Current /\ stage \in {"drain_link", "link", "drain", "backfill"}
\* Its last page is on the wire.
Closed(s) ==
  \/ Earlier(s) \/ trailer_written
  \/ s \in Current /\ stage \in {"link", "backfill"}

\* Packets handed to write_packet, the one just handed over included.
Handed(s) == Len(sent[s]) + (IF step = "packet" /\ writing.s = s THEN 1 ELSE 0)

-----------------------------------------------------------------------------
(* The invariant.                                                          *)

ProtocolInv ==
  /\ trailer_written => stage = "idle" /\ step = "none" /\ header_written
  /\ ~header_written =>
       link = 1 /\ stage \in {"arm", "arm_skeleton", "idle"} /\ step = "none"
  /\ header_written => stage # "arm_skeleton" /\ (stage = "arm" => link > 1)
  /\ extra # 0 => \/ stage = "theora_headers" /\ Turn \in Theora
                  \/ stage = "other_headers" /\ Turn \notin Theora

ApartInv ==
  /\ \A s \in Streams : serial[s] # NoSerial => serial[s] \in used_serials
  /\ \A r, s \in Streams : r # s /\ serial[r] # NoSerial => serial[r] # serial[s]
  /\ skel_serial # NoSerial =>
       skel_serial \in used_serials /\ \A s \in Streams : serial[s] # skel_serial

\* The headers of the pages.
Numbered(s) ==
  LET pages == Pages(s)
  IN /\ seq_no[s] = Len(pages)
     /\ bos_emitted[s] <=> pages # <<>>
     /\ \A i \in 1 .. Len(pages) :
          /\ pages[i].stream = s /\ pages[i].seq = i - 1 /\ pages[i].serial = serial[s]
          /\ "bos" \in pages[i].flags <=> i = 1
Ending(s) ==
  LET pages == Pages(s)
  IN /\ \A i \in 1 .. Len(pages) : "eos" \in pages[i].flags => i = Len(pages) /\ Done(s)
     /\ Done(s) => /\ buffered[s].segs = <<>>
                   /\ pages # <<>> => "eos" \in pages[Len(pages)].flags
     /\ Closed(s) => queue[s] = <<>>
\* The packets on the pages.
HeaderPages(s) == \A i \in 1 .. Len(Pages(s)) : IsHeader(Pages(s)[i])
Nil(s) ==
  LET pages == Pages(s)
  IN /\ \A i \in 1 .. Len(pages) :
          pages[i].segs = <<>> =>
            "eos" \in pages[i].flags /\ \A j \in 1 .. i - 1 : IsHeader(pages[j])
     /\ queue[s] = <<>> /\ ~Done(s) => HeaderPages(s)
     /\ Section(s) =>
          /\ HeaderPages(s)
          /\ buffered[s].segs # <<>> => buffered[s].segs[1].pkt <= HeaderCount(s)
Unwritten(s) ==
  Blank(s) => Pages(s) = <<>> /\ buffered[s].segs = <<>> /\ Handed(s) = 0
Counted(s) ==
  Section(s) =>
    /\ Handed(s) <= Headers[s]
    /\ ~HeadersPassed(s) => Handed(s) <= 1 + (IF s = Turn THEN extra ELSE 0)

StreamInv(s) == Numbered(s) /\ Ending(s) /\ Nil(s) /\ Unwritten(s) /\ Counted(s)
PagesInv == ProtocolInv /\ ApartInv /\ \A s \in Streams : StreamInv(s)

-----------------------------------------------------------------------------
(* How the pages of a stream change.                                       *)

LEMMA HeadMoved ==
  ASSUME NEW S, NEW w \in Seq(S), NEW q \in Seq(S), q # <<>>
  PROVE  Append(w, Head(q)) \o Tail(q) = w \o q
<1>1. Head(q) \in S /\ Tail(q) \in Seq(S)
  OBVIOUS
<1>2. <<Head(q)>> \o Tail(q) = q
  <2> DEFINE r == <<Head(q)>> \o Tail(q)
  <2>1. /\ r \in Seq(S) /\ Len(r) = Len(q)
        /\ \A i \in 1 .. Len(q) : r[i] = q[i]
    <3>1. <<Head(q)>> \in Seq(S) /\ Len(<<Head(q)>>) = 1 /\ <<Head(q)>>[1] = Head(q)
      BY <1>1
    <3>2. Len(Tail(q)) = Len(q) - 1 /\ \A i \in 1 .. Len(Tail(q)) : Tail(q)[i] = q[i + 1]
      BY HeadTailProperties
    <3>3. Len(q) \in Nat \ {0} /\ Head(q) = q[1]
      OBVIOUS
    <3> DEFINE a == <<Head(q)>>
               b == Tail(q)
    <3>4. a \in Seq(S) /\ b \in Seq(S) /\ Len(a) = 1 /\ a[1] = q[1] /\ Len(b) = Len(q) - 1
          /\ \A i \in 1 .. Len(b) : b[i] = q[i + 1]
      BY <1>1, <3>1, <3>2, <3>3
    <3> HIDE DEF a, b
    <3>5. /\ a \o b \in Seq(S) /\ Len(a \o b) = Len(a) + Len(b)
          /\ \A i \in 1 .. Len(a) + Len(b) :
               (a \o b)[i] = IF i <= Len(a) THEN a[i] ELSE b[i - Len(a)]
      <4>1. a \in Seq(S) /\ b \in Seq(S)
        BY <3>4
      <4>2. a \o b \in Seq(S)
        BY <4>1
      <4>3. Len(a \o b) = Len(a) + Len(b)
        BY <4>1
      <4>4. \A i \in 1 .. Len(a) + Len(b) :
               (a \o b)[i] = IF i <= Len(a) THEN a[i] ELSE b[i - Len(a)]
        BY <4>1
      <4>5. QED BY <4>2, <4>3, <4>4
    <3>6. Len(a \o b) = Len(q)
      BY <3>3, <3>4, <3>5
    <3>7. \A i \in 1 .. Len(q) : (a \o b)[i] = q[i]
      <4> SUFFICES ASSUME NEW i \in 1 .. Len(q) PROVE (a \o b)[i] = q[i]
        OBVIOUS
      <4>1. CASE i = 1
        BY <3>3, <3>4, <3>5, <4>1
      <4>2. CASE i # 1
        <5>1. i - 1 \in 1 .. Len(b) /\ i \in 1 .. Len(a) + Len(b)
          BY <3>3, <3>4, <4>2
        <5>2. b[i - 1] = q[i]
          BY <3>4, <5>1
        <5>3. QED BY <3>4, <3>5, <5>1, <5>2
      <4>3. QED BY <4>1, <4>2
    <3>8. QED BY <3>5, <3>6, <3>7 DEF a, b
  <2> HIDE DEF r
  <2>2. r = q
    BY <2>1, SeqEqual
  <2>3. QED BY <2>2 DEF r
<1>3. Append(w, Head(q)) = w \o <<Head(q)>>
  BY <1>1
<1>4. (w \o <<Head(q)>>) \o Tail(q) = w \o (<<Head(q)>> \o Tail(q))
  BY <1>1, ConcatAssociative
<1>5. QED BY <1>2, <1>3, <1>4

\* The pages of s in w.
Filtered(w, s) == FlattenSeq([i \in DOMAIN w |-> IF w[i].stream = s THEN <<w[i]>> ELSE <<>>])

LEMMA FilteredType ==
  ASSUME NEW w \in Seq(PageSet), NEW s
  PROVE  Filtered(w, s) \in Seq(PageSet)
<1> DEFINE parts == [i \in DOMAIN w |-> IF w[i].stream = s THEN <<w[i]>> ELSE <<>>]
<1>1. parts \in Seq(Seq(PageSet))
  <2>1. \A i \in 1 .. Len(w) : (IF w[i].stream = s THEN <<w[i]>> ELSE <<>>) \in Seq(PageSet)
    OBVIOUS
  <2>2. DOMAIN w = 1 .. Len(w) /\ Len(w) \in Nat
    OBVIOUS
  <2>3. QED BY <2>1, <2>2
<1> HIDE DEF parts
<1>2. FlattenSeq(parts) \in Seq(PageSet)
  BY <1>1, FlattenType
<1>3. QED BY <1>2 DEF Filtered, parts

LEMMA FilteredGrows ==
  ASSUME NEW w \in Seq(PageSet), NEW s, NEW p \in PageSet
  PROVE  Filtered(Append(w, p), s) = IF p.stream = s THEN Append(Filtered(w, s), p) ELSE Filtered(w, s)
<1> DEFINE Part(v, i) == IF v[i].stream = s THEN <<v[i]>> ELSE <<>>
           parts == [i \in DOMAIN w |-> Part(w, i)]
           v == Append(w, p)
           more == [i \in DOMAIN v |-> Part(v, i)]
           t == IF p.stream = s THEN <<p>> ELSE <<>>
<1>1. parts \in Seq(Seq(PageSet)) /\ t \in Seq(PageSet)
  <2>1. \A i \in 1 .. Len(w) : Part(w, i) \in Seq(PageSet)
    OBVIOUS
  <2>2. DOMAIN w = 1 .. Len(w) /\ Len(w) \in Nat
    OBVIOUS
  <2> HIDE DEF Part
  <2>3. parts \in Seq(Seq(PageSet))
    BY <2>1, <2>2
  <2>4. QED BY <2>3
<1>2. more = Append(parts, t)
  <2>1. Len(w) \in Nat /\ DOMAIN w = 1 .. Len(w) /\ DOMAIN v = 1 .. Len(w) + 1
    OBVIOUS
  <2>2. \A i \in 1 .. Len(w) : v[i] = w[i]
    OBVIOUS
  <2>3. v[Len(w) + 1] = p
    OBVIOUS
  <2> HIDE DEF v
  <2>4. \A i \in 1 .. Len(w) : Part(v, i) = Part(w, i)
    BY <2>2
  <2>5. Part(v, Len(w) + 1) = t
    BY <2>3
  <2> HIDE DEF Part, t
  <2>6. QED BY <2>1, <2>4, <2>5
<1> HIDE DEF parts, more
<1>3. FlattenSeq(more) = FlattenSeq(parts) \o t
  BY <1>1, <1>2, FlattenAppend
<1>4. Filtered(w, s) = FlattenSeq(parts) /\ Filtered(Append(w, p), s) = FlattenSeq(more)
  BY Zenon DEF Filtered, parts, more
<1>5. FlattenSeq(parts) \in Seq(PageSet)
  BY <1>1, FlattenType
<1> DEFINE f == FlattenSeq(parts)
<1> HIDE DEF f
<1>6. f \in Seq(PageSet)
  BY <1>5 DEF f
<1>7. f \o t = IF p.stream = s THEN Append(f, p) ELSE f
  BY <1>6
<1>8. QED BY <1>3, <1>4, <1>7 DEF f

LEMMA PagesType ==
  ASSUME WireInv, QueuesInv, NEW s \in Streams
  PROVE  /\ Pages(s) \in Seq(PageSet) /\ OnWire(s) \in Seq(PageSet) /\ Queued(s) \in Seq(PageSet)
         /\ queue[s] \in Seq(ItemSet) /\ Len(Queued(s)) = Len(queue[s])
         /\ \A i \in 1 .. Len(queue[s]) : Queued(s)[i] = queue[s][i].page
<1>1. OnWire(s) \in Seq(PageSet)
  <2>1. OnWire(s) = Filtered(wire, s)
    BY Zenon DEF OnWire, Filtered
  <2>2. QED BY <2>1, FilteredType DEF WireInv
<1>2. queue[s] \in Seq(ItemSet)
  BY DEF QueuesInv
<1>3. /\ Queued(s) \in Seq(PageSet) /\ Len(Queued(s)) = Len(queue[s])
      /\ \A i \in 1 .. Len(queue[s]) : Queued(s)[i] = queue[s][i].page
  <2>1. \A i \in 1 .. Len(queue[s]) : queue[s][i] \in ItemSet /\ queue[s][i].page \in PageSet
    <3>1. \A i \in 1 .. Len(queue[s]) : queue[s][i] \in ItemSet
      BY <1>2
    <3>2. \A item \in ItemSet : item.page \in PageSet
      BY DEF ItemSet
    <3>3. QED BY <3>1, <3>2
  <2>2. DOMAIN queue[s] = 1 .. Len(queue[s]) /\ Len(queue[s]) \in Nat
    BY <1>2
  <2>3. QED BY <2>1, <2>2 DEF Queued
<1>4. Pages(s) \in Seq(PageSet)
  BY <1>1, <1>3 DEF Pages
<1>5. QED BY <1>1, <1>2, <1>3, <1>4

LEMMA EmptyPages ==
  ASSUME WireInv, QueuesInv, NEW s \in Streams, Pages(s) = <<>>
  PROVE  queue[s] = <<>>
<1>1. /\ OnWire(s) \in Seq(PageSet) /\ Queued(s) \in Seq(PageSet)
      /\ queue[s] \in Seq(ItemSet) /\ Len(Queued(s)) = Len(queue[s])
  BY PagesType
<1> DEFINE w == OnWire(s)
           q == Queued(s)
<1>2. w \in Seq(PageSet) /\ q \in Seq(PageSet) /\ w \o q = <<>>
  BY <1>1, Zenon DEF Pages
<1> HIDE DEF w, q
<1>3. Len(w \o q) = Len(w) + Len(q) /\ Len(w) \in Nat /\ Len(q) \in Nat
  BY <1>2
<1>4. Len(q) = 0
  BY <1>2, <1>3
<1>5. Len(queue[s]) = 0
  BY <1>1, <1>4 DEF q
<1>6. queue[s] \in Seq(ItemSet)
  BY <1>1
<1>7. QED BY <1>5, <1>6

\* A queued page is one of the pages.
LEMMA QueuedPage ==
  ASSUME WireInv, QueuesInv, NEW s \in Streams, NEW i \in 1 .. Len(queue[s])
  PROVE  \E j \in 1 .. Len(Pages(s)) : Pages(s)[j] = queue[s][i].page
<1> DEFINE w == OnWire(s)
           q == Queued(s)
<1>1. w \in Seq(PageSet) /\ q \in Seq(PageSet) /\ Pages(s) = w \o q
  BY PagesType, Zenon DEF Pages
<1>2. i \in 1 .. Len(q) /\ q[i] = queue[s][i].page
  BY PagesType
<1> HIDE DEF w, q
<1>3. Len(w) \in Nat /\ Len(q) \in Nat /\ Len(w \o q) = Len(w) + Len(q)
  BY <1>1
<1>4. Len(w) + i \in 1 .. Len(w \o q)
  BY <1>2, <1>3
<1>5. (w \o q)[Len(w) + i] = q[i]
  BY <1>1, <1>2, <1>3
<1>6. QED BY <1>1, <1>2, <1>4, <1>5

\* Nothing of the stream moves.
LEMMA PagesStay ==
  ASSUME NEW s, UNCHANGED wire, queue'[s] = queue[s]
  PROVE  Pages(s)' = Pages(s)
BY Zenon DEF Pages, OnWire, Queued

\* A page of another stream is put on the wire.
LEMMA PagesStayOnWrite ==
  ASSUME WireInv, NEW s, NEW p \in PageSet, wire' = Append(wire, p), p.stream # s,
         queue'[s] = queue[s]
  PROVE  Pages(s)' = Pages(s)
<1>1. OnWire(s) = Filtered(wire, s) /\ OnWire(s)' = Filtered(wire', s)
  BY Zenon DEF OnWire, Filtered
<1>2. Filtered(wire', s) = Filtered(wire, s)
  BY FilteredGrows DEF WireInv
<1>3. Queued(s)' = Queued(s)
  BY Zenon DEF Queued
<1>4. QED BY <1>1, <1>2, <1>3, Zenon DEF Pages

\* A page of the stream is put on the wire past an empty queue.
LEMMA PagesWritten ==
  ASSUME WireInv, QueuesInv, NEW s \in Streams, NEW p \in PageSet, wire' = Append(wire, p),
         p.stream = s, queue'[s] = queue[s], queue[s] = <<>>
  PROVE  Pages(s)' = Append(Pages(s), p)
<1>1. OnWire(s) = Filtered(wire, s) /\ OnWire(s)' = Filtered(wire', s)
  BY Zenon DEF OnWire, Filtered
<1>2. Filtered(wire', s) = Append(Filtered(wire, s), p)
  BY FilteredGrows DEF WireInv
<1>3. Queued(s)' = Queued(s)
  BY Zenon DEF Queued
<1>4. Queued(s) = <<>> /\ OnWire(s) \in Seq(PageSet)
  BY PagesType
<1>5. Pages(s)' = Append(OnWire(s), p) \o <<>> /\ Pages(s) = OnWire(s) \o <<>>
  BY <1>1, <1>2, <1>3, <1>4, Zenon DEF Pages
<1> DEFINE w == OnWire(s)
<1> HIDE DEF w
<1>6. Append(w, p) \o <<>> = Append(w \o <<>>, p)
  BY <1>4 DEF w
<1>7. QED BY <1>5, <1>6 DEF w

\* The oldest queued page goes to the wire.
LEMMA PagesLetOut ==
  ASSUME WireInv, QueuesInv, NEW s \in Streams, queue[s] # <<>>, Head(queue[s]).page.stream = s,
         wire' = Append(wire, Head(queue[s]).page), queue'[s] = Tail(queue[s])
  PROVE  Pages(s)' = Pages(s)
<1> DEFINE w == OnWire(s)
           q == Queued(s)
           p == Head(queue[s]).page
<1>1. /\ w \in Seq(PageSet) /\ q \in Seq(PageSet) /\ queue[s] \in Seq(ItemSet)
      /\ Len(q) = Len(queue[s]) /\ \A i \in 1 .. Len(queue[s]) : q[i] = queue[s][i].page
  BY PagesType
<1>2. Len(queue[s]) \in Nat \ {0} /\ Head(queue[s]) = queue[s][1] /\ Head(queue[s]) \in ItemSet
  BY <1>1
<1>3. p \in PageSet /\ p = q[1]
  BY <1>1, <1>2 DEF ItemSet
<1>4. OnWire(s)' = Append(w, p)
  <2>1. OnWire(s) = Filtered(wire, s) /\ OnWire(s)' = Filtered(wire', s)
    BY Zenon DEF OnWire, Filtered
  <2>2. QED BY <1>3, <2>1, FilteredGrows DEF WireInv
<1>5. Queued(s)' = Tail(q)
  <2>1. Queued(s)' = [i \in DOMAIN Tail(queue[s]) |-> Tail(queue[s])[i].page]
    BY Zenon DEF Queued
  <2>2. /\ DOMAIN Tail(queue[s]) = 1 .. Len(queue[s]) - 1
        /\ \A i \in 1 .. Len(queue[s]) - 1 : Tail(queue[s])[i] = queue[s][i + 1]
    BY <1>1, <1>2
  <2>3. Tail(q) = [i \in 1 .. Len(q) - 1 |-> q[i + 1]]
    <3>1. Len(q) \in Nat \ {0} /\ q \in Seq(PageSet)
      BY <1>1, <1>2
    <3> DEFINE r == [i \in 1 .. Len(q) - 1 |-> q[i + 1]]
    <3> HIDE DEF q
    <3>2. Tail(q) \in Seq(PageSet) /\ Len(Tail(q)) = Len(q) - 1
          /\ \A i \in 1 .. Len(Tail(q)) : Tail(q)[i] = q[i + 1]
      BY <3>1, HeadTailProperties, EmptySeq
    <3>3. r \in Seq(PageSet) /\ Len(r) = Len(q) - 1 /\ \A i \in 1 .. Len(q) - 1 : r[i] = q[i + 1]
      BY <3>1
    <3> HIDE DEF r
    <3>4. Tail(q) = r
      BY <3>2, <3>3, SeqEqual
    <3>5. QED BY <3>4 DEF r
  <2> HIDE DEF q
  <2>4. \A i \in 1 .. Len(queue[s]) - 1 : i + 1 \in 1 .. Len(queue[s])
    BY <1>2
  <2>5. \A i \in 1 .. Len(queue[s]) - 1 : Tail(queue[s])[i].page = q[i + 1]
    BY <1>1, <2>2, <2>4
  <2>6. QED BY <1>1, <2>1, <2>2, <2>3, <2>5
<1> HIDE DEF w, q, p
<1>6. Append(w, p) \o Tail(q) = w \o q
  <2>1. q # <<>> /\ p = Head(q)
    BY <1>1, <1>2, <1>3
  <2>2. QED BY <1>1, <2>1, HeadMoved
<1>7. QED BY <1>4, <1>5, <1>6 DEF Pages, w, q

\* A page is queued.
LEMMA PagesQueued ==
  ASSUME WireInv, QueuesInv, NEW s \in Streams, NEW item \in ItemSet, UNCHANGED wire,
         queue'[s] = Append(queue[s], item)
  PROVE  Pages(s)' = Append(Pages(s), item.page)
<1> DEFINE w == OnWire(s)
           q == Queued(s)
           p == item.page
<1>1. /\ w \in Seq(PageSet) /\ q \in Seq(PageSet) /\ queue[s] \in Seq(ItemSet)
      /\ Len(q) = Len(queue[s]) /\ \A i \in 1 .. Len(queue[s]) : q[i] = queue[s][i].page
  BY PagesType
<1>2. OnWire(s)' = w
  BY Zenon DEF OnWire
<1>3. Queued(s)' = Append(q, p)
  <2>1. Queued(s)' = [i \in DOMAIN Append(queue[s], item) |-> Append(queue[s], item)[i].page]
    BY Zenon DEF Queued
  <2>2. /\ Len(queue[s]) \in Nat
        /\ DOMAIN Append(queue[s], item) = 1 .. Len(queue[s]) + 1
        /\ \A i \in 1 .. Len(queue[s]) : Append(queue[s], item)[i] = queue[s][i]
        /\ Append(queue[s], item)[Len(queue[s]) + 1] = item
    BY <1>1
  <2> HIDE DEF q
  <2>3. /\ Append(q, p) = [i \in 1 .. Len(q) + 1 |-> Append(q, p)[i]]
        /\ \A i \in 1 .. Len(q) : Append(q, p)[i] = q[i]
        /\ Append(q, p)[Len(q) + 1] = p
    BY <1>1
  <2>4. \A i \in 1 .. Len(queue[s]) + 1 : Append(queue[s], item)[i].page = Append(q, p)[i]
    BY <1>1, <2>2, <2>3
  <2>5. QED BY <1>1, <2>1, <2>2, <2>3, <2>4
<1>4. p \in PageSet
  BY DEF ItemSet
<1> HIDE DEF w, q, p
<1>5. w \o Append(q, p) = Append(w \o q, p)
  BY <1>1, <1>4
<1>6. QED BY <1>2, <1>3, <1>5 DEF Pages, w, q, p


LEMMA LastOfAppend ==
  ASSUME NEW S, NEW x \in Seq(S), NEW e \in S, NEW p \in S
  PROVE  /\ [Append(x, e) EXCEPT ![Len(Append(x, e))] = p] = Append(x, p)
         /\ Append(x, e)[Len(Append(x, e))] = e
<1> DEFINE a == Append(x, e)
           b == Append(x, p)
<1>1. /\ a \in Seq(S) /\ Len(a) = Len(x) + 1 /\ Len(x) \in Nat /\ a[Len(x) + 1] = e
      /\ \A i \in 1 .. Len(x) : a[i] = x[i]
  OBVIOUS
<1>2. /\ b \in Seq(S) /\ Len(b) = Len(x) + 1 /\ b[Len(x) + 1] = p
      /\ \A i \in 1 .. Len(x) : b[i] = x[i]
  OBVIOUS
<1> HIDE DEF a, b
<1>3. Len(x) + 1 \in 1 .. Len(a)
  BY <1>1
<1> DEFINE c == [a EXCEPT ![Len(a)] = p]
<1>4. c \in Seq(S) /\ Len(c) = Len(a) /\ \A j \in 1 .. Len(a) : c[j] = IF j = Len(a) THEN p ELSE a[j]
  BY <1>1, <1>3
<1> HIDE DEF c
<1>5. \A i \in 1 .. Len(b) : c[i] = b[i]
  <2> SUFFICES ASSUME NEW i \in 1 .. Len(b) PROVE c[i] = b[i]
    OBVIOUS
  <2>1. CASE i = Len(x) + 1
    BY <1>1, <1>2, <1>3, <1>4, <2>1
  <2>2. CASE i # Len(x) + 1
    <3>1. i \in 1 .. Len(x) /\ i \in 1 .. Len(a) /\ i # Len(a)
      BY <1>1, <1>2, <2>2
    <3>2. QED BY <1>1, <1>2, <1>4, <3>1
  <2>3. QED BY <2>1, <2>2
<1>6. c = b
  BY <1>1, <1>2, <1>4, <1>5, SeqEqual
<1>7. QED BY <1>1, <1>6 DEF a, b, c

LastRewritten(w, q, p) ==
  /\ w \o [q EXCEPT ![Len(q)] = p] = [w \o q EXCEPT ![Len(w \o q)] = p]
  /\ (w \o q)[Len(w \o q)] = q[Len(q)] /\ w \o q # <<>>

LEMMA LastReplaced ==
  ASSUME NEW S, NEW w \in Seq(S), NEW q \in Seq(S), q # <<>>, NEW p \in S
  PROVE  LastRewritten(w, q, p)
<1>1. PICK r \in Seq(S), e \in S : q = Append(r, e)
  BY SequenceEmptyOrAppend
<1>2. \A t \in S : w \o Append(r, t) = Append(w \o r, t)
  BY <1>1
<1>3. w \o r \in Seq(S)
  BY <1>1
<1>4. [q EXCEPT ![Len(q)] = p] = Append(r, p) /\ q[Len(q)] = e
  BY <1>1, LastOfAppend
<1> DEFINE x == w \o r
<1>5. w \o q = Append(x, e) /\ w \o Append(r, p) = Append(x, p)
  BY <1>1, <1>2
<1>6. x \in Seq(S)
  BY <1>3
<1> HIDE DEF x
<1>7. /\ [Append(x, e) EXCEPT ![Len(Append(x, e))] = p] = Append(x, p)
      /\ Append(x, e)[Len(Append(x, e))] = e
  BY <1>6, LastOfAppend
<1>8. Append(x, e) # <<>>
  BY <1>6, AppendProperties
<1>9. QED BY <1>4, <1>5, <1>7, <1>8 DEF LastRewritten

\* The newest queued page is rewritten.
LEMMA PagesClosed ==
  ASSUME WireInv, QueuesInv, NEW s \in Streams, NEW item \in ItemSet, UNCHANGED wire,
         queue[s] # <<>>, queue'[s] = [queue[s] EXCEPT ![Len(queue[s])] = item]
  PROVE  /\ Pages(s) # <<>> /\ Pages(s)[Len(Pages(s))] = queue[s][Len(queue[s])].page
         /\ Pages(s)' = [Pages(s) EXCEPT ![Len(Pages(s))] = item.page]
<1> DEFINE w == OnWire(s)
           q == Queued(s)
           n == Len(queue[s])
           p == item.page
<1>1. /\ w \in Seq(PageSet) /\ q \in Seq(PageSet) /\ queue[s] \in Seq(ItemSet)
      /\ Len(q) = n /\ \A i \in 1 .. n : q[i] = queue[s][i].page
  BY PagesType
<1>2. n \in Nat \ {0} /\ p \in PageSet
  BY <1>1 DEF ItemSet
<1>3. OnWire(s)' = w
  BY Zenon DEF OnWire
<1>4. Queued(s)' = [q EXCEPT ![n] = p]
  <2> DEFINE new == [queue[s] EXCEPT ![n] = item]
  <2>1. Queued(s)' = [i \in DOMAIN new |-> new[i].page]
    BY Zenon DEF Queued
  <2>2. DOMAIN new = 1 .. n /\ \A i \in 1 .. n : new[i] = IF i = n THEN item ELSE queue[s][i]
    BY <1>1, <1>2
  <2> HIDE DEF new
  <2>3. \A i \in 1 .. n : new[i].page = IF i = n THEN p ELSE q[i]
    BY <1>1, <2>2
  <2>4. q = [i \in 1 .. n |-> q[i]]
    <3>1. q \in Seq(PageSet) /\ Len(q) = n
      BY <1>1
    <3> HIDE DEF q, n
    <3>2. QED BY <3>1
  <2> HIDE DEF p, q, n
  <2>5. [q EXCEPT ![n] = p] = [i \in 1 .. n |-> IF i = n THEN p ELSE q[i]]
    BY <1>2, <2>4
  <2>6. QED BY <2>1, <2>2, <2>3, <2>5
<1>5. q[n] = queue[s][n].page
  BY <1>1, <1>2
<1>6. q # <<>> /\ n = Len(q)
  BY <1>1, <1>2
<1> HIDE DEF w, q, n, p
<1>7. /\ w \o [q EXCEPT ![n] = p] = [w \o q EXCEPT ![Len(w \o q)] = p]
      /\ (w \o q)[Len(w \o q)] = q[n] /\ w \o q # <<>>
  <2>1. LastRewritten(w, q, p)
    BY <1>1, <1>2, <1>6, LastReplaced
  <2>2. QED BY <1>6, <2>1 DEF LastRewritten
<1>8. Pages(s)' = w \o [q EXCEPT ![n] = p] /\ Pages(s) = w \o q
  BY <1>3, <1>4, Zenon DEF Pages, w, q
<1>9. QED BY <1>5, <1>7, <1>8 DEF n, p

-----------------------------------------------------------------------------
(* The order of the API.                                                   *)

LEMMA ProtocolOn ==
  ASSUME header_written', ~trailer_written', extra' = 0, stage' \notin {"arm", "arm_skeleton"}
  PROVE  ProtocolInv'
BY DEF ProtocolInv

LEMMA ProtocolBusy ==
  ASSUME ProtocolInv, header_written, ~trailer_written,
         UNCHANGED <<stage, turn, link, extra, header_written, trailer_written>>
  PROVE  ProtocolInv'
<1>1. Turn' = Turn
  BY Zenon DEF Turn, Order
<1>2. QED BY <1>1 DEF ProtocolInv

\* A call under way: the header is written and the trailer is not.
LEMMA UnderWay ==
  ASSUME ProtocolInv, FlagsInv, step # "none" \/ stage \notin {"arm", "arm_skeleton", "idle"}
  PROVE  header_written = TRUE /\ trailer_written = FALSE
BY DEF ProtocolInv, FlagsInv

LEMMA IdleExtra ==
  ASSUME TypeInv, ProtocolInv, stage \notin HeaderLoops
  PROVE  extra = 0
BY DEF ProtocolInv, HeaderLoops

LEMMA ProtocolInit == Init => ProtocolInv
BY DEF Init, ProtocolInv

LEMMA ProtocolStep ==
  ASSUME Protocol, TypeInv, ProtocolInv, [Next]_vars
  PROVE  ProtocolInv'
<1>1. CASE WriteHeader
  <2>1. header_written' = TRUE /\ trailer_written' = trailer_written /\ ~trailer_written
        /\ extra' = extra /\ stage' \in {"fishead", "theora_bos"} /\ stage = "idle"
    BY <1>1 DEF WriteHeader, Protocol, Idle
  <2>2. extra = 0
    BY <2>1, IdleExtra DEF HeaderLoops
  <2>3. QED BY <2>1, <2>2, ProtocolOn
<1>2. CASE BeginNewLink
  <2>1. header_written /\ ~trailer_written /\ extra' = extra /\ stage' = "close_link" /\ stage = "idle"
        /\ UNCHANGED <<header_written, trailer_written>>
    BY <1>2 DEF BeginNewLink, Idle, calls
  <2>2. extra = 0
    BY <2>1, IdleExtra DEF HeaderLoops
  <2>3. QED BY <2>1, <2>2, ProtocolOn
<1>3. CASE WriteTrailer
  <2>1. header_written /\ ~trailer_written /\ extra' = extra /\ stage' = "close" /\ stage = "idle"
        /\ UNCHANGED <<header_written, trailer_written>>
    BY <1>3 DEF WriteTrailer, Idle, calls, Protocol
  <2>2. extra = 0
    BY <2>1, IdleExtra DEF HeaderLoops
  <2>3. QED BY <2>1, <2>2, ProtocolOn
<1>4. CASE \E t \in Targets \cup {NoTarget} : SetPageTarget(t)
  <2>1. UNCHANGED <<stage, turn, extra, step, link, header_written, trailer_written>>
    BY <1>4, Zenon DEF SetPageTarget, control
  <2>2. Turn' = Turn
    BY <2>1, Zenon DEF Turn, Order
  <2>3. QED BY <2>1, <2>2, Zenon DEF ProtocolInv
<1>5. CASE \E s \in Streams : \E p \in Packets[s] : WritePacket(s, p)
  <2>1. header_written /\ ~trailer_written
        /\ UNCHANGED <<stage, turn, link, extra, header_written, trailer_written>>
    BY <1>5 DEF WritePacket, Protocol, calls
  <2>2. QED BY <2>1, ProtocolBusy
<1>6. CASE Arm
  <2>1. stage = "arm" /\ step = "none" /\ NextTurn
        /\ UNCHANGED <<extra, step, link, header_written, trailer_written>>
    BY <1>6 DEF Arm, Inside
  <2>2. extra = 0 /\ ~trailer_written /\ (header_written => link > 1)
    BY <2>1 DEF ProtocolInv
  <2>3. CASE stage' = "arm"
    BY <2>1, <2>2, <2>3 DEF ProtocolInv
  <2>4. CASE stage' # "arm"
    <3>1. stage' = After("arm")
      BY <2>1, <2>4 DEF NextTurn
    <3>2. CASE link > 1
      <4>1. stage' = "theora_bos"
        BY <3>1, <3>2 DEF After
      <4>2. header_written
        BY <3>2 DEF ProtocolInv
      <4>3. QED BY <2>1, <2>2, <4>1, <4>2, ProtocolOn
    <3>3. CASE ~(link > 1)
      <4>1. stage' \in {"arm_skeleton", "idle"} /\ ~header_written
        BY <2>2, <3>1, <3>3 DEF After
      <4>2. QED BY <2>1, <2>2, <4>1 DEF ProtocolInv
    <3>4. QED BY <3>2, <3>3
  <2>5. QED BY <2>3, <2>4
<1>7. CASE ArmSkeleton
  <2>1. stage = "arm_skeleton" /\ stage' = "idle"
        /\ UNCHANGED <<extra, step, link, header_written, trailer_written>>
    BY <1>7 DEF ArmSkeleton, Inside, NextStage, After
  <2>2. QED BY <2>1 DEF ProtocolInv
<1>8. CASE NextLink
  <2>1. stage = "link" /\ stage' = "arm" /\ link' = link + 1
        /\ UNCHANGED <<extra, step, header_written, trailer_written>>
    BY <1>8 DEF NextLink, Inside, NextStage, After
  <2>2. link \in Nat \ {0}
    BY MuxAssumption DEF TypeInv, ControlInv
  <2>3. QED BY <2>1, <2>2 DEF ProtocolInv
<1>9. CASE WriteBos
  <2>1. stage \in BosLoops /\ NextTurn /\ UNCHANGED <<extra, header_written, trailer_written>>
    BY <1>9 DEF WriteBos, BosTurn, InPass, Inside, BosLoops, calls
  <2>2. header_written = TRUE /\ trailer_written = FALSE /\ extra = 0
    BY <2>1, UnderWay, IdleExtra DEF TypeInv, BosLoops, HeaderLoops
  <2>3. stage' \notin {"arm", "arm_skeleton"}
    BY <2>1 DEF NextTurn, BosLoops, After
  <2>4. QED BY <2>1, <2>2, <2>3, ProtocolOn
<1>10. CASE WriteSecondary
  <2>1. /\ stage \in HeaderLoops /\ UNCHANGED <<stage, turn, link, header_written, trailer_written>>
        /\ \/ stage = "theora_headers" /\ Turn \in Theora
           \/ stage = "other_headers" /\ Turn \notin Theora
    BY <1>10 DEF WriteSecondary, HeaderTurn, InPass, Inside, HeaderLoops, calls
  <2>2. header_written = TRUE /\ trailer_written = FALSE
    BY <2>1, UnderWay DEF TypeInv, HeaderLoops
  <2>3. Turn' = Turn
    BY <2>1, Zenon DEF Turn, Order
  <2>4. QED BY <2>1, <2>2, <2>3 DEF ProtocolInv
<1>11. CASE PassTurn
  <2>1. stage \in BosLoops \cup HeaderLoops /\ NextTurn /\ extra' = 0
        /\ UNCHANGED <<header_written, trailer_written>>
    BY <1>11 DEF PassTurn, Inside, BosLoops, HeaderLoops, calls
  <2>2. header_written = TRUE /\ trailer_written = FALSE
    BY <2>1, UnderWay DEF TypeInv, BosLoops, HeaderLoops
  <2>3. stage' \notin {"arm", "arm_skeleton"}
    BY <2>1 DEF NextTurn, BosLoops, HeaderLoops, After, AfterHeaders
  <2>4. QED BY <2>1, <2>2, <2>3, ProtocolOn
<1>12. CASE WriteSkeletonPage
  <2>1. /\ stage \in {"fishead", "bone", "index", "skeleton_eos"} /\ (NextTurn \/ NextStage)
        /\ UNCHANGED <<extra, header_written, trailer_written>>
    BY <1>12 DEF WriteSkeletonPage, Inside, calls
  <2>2. header_written = TRUE /\ trailer_written = FALSE /\ extra = 0
    BY <2>1, UnderWay, IdleExtra DEF TypeInv, HeaderLoops
  <2>3. stage' \notin {"arm", "arm_skeleton"}
    BY <2>1 DEF NextTurn, NextStage, After
  <2>4. QED BY <2>1, <2>2, <2>3, ProtocolOn
<1>13. CASE BeginPacket \/ PutLaces \/ StampHeader \/ StampContent \/ FlushPage \/ ReleasePage \/ ReleaseDone
  <2>1. step # "none"
    BY <1>13 DEF BeginPacket, PutLaces, StampHeader, StampContent, FlushPage, ReleasePage,
                 ReleaseDone, Doing
  <2>2. UNCHANGED <<stage, turn, link, extra, header_written, trailer_written>>
    BY <1>13, Zenon DEF BeginPacket, PutLaces, StampHeader, StampContent, FlushPage, ReleasePage,
                 ReleaseDone, GoTo, control, calls
  <2>3. header_written = TRUE /\ trailer_written = FALSE
    BY <2>1, UnderWay DEF TypeInv
  <2>4. QED BY <2>2, <2>3, ProtocolBusy
<1>14. CASE StampTheora
  <2>1. step # "none" /\ UNCHANGED <<link, header_written, trailer_written>>
    BY <1>14 DEF StampTheora, Doing
  <2>2. header_written = TRUE /\ trailer_written = FALSE
    BY <2>1, UnderWay DEF TypeInv
  <2>3. UNCHANGED <<stage, turn, extra>> \/ (stage' = "idle" /\ extra' = 0)
    BY <1>14 DEF StampTheora, GoTo
  <2>4. QED BY <2>1, <2>2, <2>3, ProtocolBusy, ProtocolOn
<1>15. CASE DrainPage
  <2>1. stage \in {"drain_headers", "drain_link", "drain"}
    BY <1>15 DEF DrainPage, Draining, Inside
  <2>2. UNCHANGED <<stage, turn, link, extra, header_written, trailer_written>>
    BY <1>15, Zenon DEF DrainPage, control, calls
  <2>3. header_written = TRUE /\ trailer_written = FALSE
    BY <2>1, UnderWay DEF TypeInv
  <2>4. QED BY <2>2, <2>3, ProtocolBusy
<1>16. CASE DrainDone
  <2>1. stage \in {"drain_headers", "drain_link", "drain"} /\ NextStage
        /\ UNCHANGED <<extra, header_written, trailer_written>>
    BY <1>16 DEF DrainDone, Draining, Inside, calls
  <2>2. header_written = TRUE /\ trailer_written = FALSE /\ extra = 0
    BY <2>1, UnderWay, IdleExtra DEF TypeInv, HeaderLoops
  <2>3. stage' \notin {"arm", "arm_skeleton"}
    BY <2>1 DEF NextStage, After
  <2>4. QED BY <2>1, <2>2, <2>3, ProtocolOn
<1>17. CASE CloseFlush
  <2>1. stage \in ClosingLoops
    BY <1>17 DEF CloseFlush, Closing, Inside, ClosingLoops
  <2>2. UNCHANGED <<stage, turn, link, extra, header_written, trailer_written>>
    BY <1>17, Zenon DEF CloseFlush, calls
  <2>3. header_written = TRUE /\ trailer_written = FALSE
    BY <2>1, UnderWay DEF TypeInv, ClosingLoops
  <2>4. QED BY <2>2, <2>3, ProtocolBusy
<1>18. CASE CloseStream
  <2>1. stage \in ClosingLoops /\ NextTurn /\ UNCHANGED <<extra, header_written, trailer_written>>
    BY <1>18 DEF CloseStream, Closing, Inside, ClosingLoops, calls
  <2>2. header_written = TRUE /\ trailer_written = FALSE /\ extra = 0
    BY <2>1, UnderWay, IdleExtra DEF TypeInv, ClosingLoops, HeaderLoops
  <2>3. stage' \notin {"arm", "arm_skeleton"}
    BY <2>1 DEF NextTurn, ClosingLoops, After, AfterClose
  <2>4. QED BY <2>1, <2>2, <2>3, ProtocolOn
<1>19. CASE Backfill
  <2>1. stage = "backfill" /\ stage' = "idle" /\ step = "none"
        /\ UNCHANGED <<extra, step, link, header_written>>
    BY <1>19 DEF Backfill, Inside, NextStage, After
  <2>2. header_written = TRUE /\ extra = 0
    BY <2>1, UnderWay, IdleExtra DEF TypeInv, HeaderLoops
  <2>3. QED BY <2>1, <2>2 DEF ProtocolInv
<1>20. CASE UNCHANGED vars
  <2>1. UNCHANGED <<stage, turn, link, extra, step, header_written, trailer_written>>
    BY <1>20, Zenon DEF vars, control, calls
  <2>2. Turn' = Turn
    BY <2>1, Zenon DEF Turn, Order
  <2>3. QED BY <2>1, <2>2, Zenon DEF ProtocolInv
<1>21. QED
  BY <1>1, <1>2, <1>3, <1>4, <1>5, <1>6, <1>7, <1>8, <1>9, <1>10, <1>11, <1>12, <1>13, <1>14,
     <1>15, <1>16, <1>17, <1>18, <1>19, <1>20, Zenon DEF Next, Calls, Steps, Terminated

-----------------------------------------------------------------------------
(* A serial of its own for every stream.                                   *)

LEMMA ApartInit == Init => ApartInv
BY DEF Init, ApartInv

\* Some serial is free until the Skeleton has taken its own.
LEMMA FreeLeft ==
  ASSUME SerialsInv, skel_serial = NoSerial, NEW first \in Nat
  PROVE  FreeSerial(first) \in Serials /\ FreeSerial(first) \notin used_serials
<1>1. \A m \in used_serials : m \in Serials /\ m # NoSerial
  BY DEF SerialsInv, Serials, NoSerial
<1>2. \A m \in used_serials : \E s \in Streams : serial[s] = m
  BY <1>1 DEF SerialsInv
<1>3. \E m \in Serials : m \notin used_serials
  BY <1>2, RoomForSerials DEF SerialsInv
<1>4. QED BY <1>3, FreeSerialFacts

LEMMA ApartStep ==
  ASSUME Protocol, TypeInv, ApartInv, [Next]_vars
  PROVE  ApartInv'
<1>1. CASE UNCHANGED <<serial, used_serials, skel_serial>>
  BY <1>1, Zenon DEF ApartInv
<1>2. CASE Arm
  <2> DEFINE n == FreeSerial(Index[Turn])
  <2>1. stage = "arm" /\ skel_serial = NoSerial /\ skel_serial' = skel_serial
    BY <1>2 DEF Arm, Inside, skeleton, TypeInv, SerialsInv
  <2>2. Turn \in Streams /\ Index[Turn] \in Nat
    BY TurnType, MuxAssumption DEF TypeInv
  <2>3. n \in Serials /\ n \notin used_serials
    BY <2>1, <2>2, FreeLeft DEF TypeInv
  <2>4. serial' = [serial EXCEPT ![Turn] = n] /\ used_serials' = used_serials \cup {n}
    BY <1>2 DEF Arm
  <2> HIDE DEF n
  <2>5. \A s \in Streams : serial'[s] = IF s = Turn THEN n ELSE serial[s]
    BY <2>2, <2>4 DEF TypeInv, SerialsInv
  <2>6. \A s \in Streams : serial[s] # n
    <3> SUFFICES ASSUME NEW s \in Streams, serial[s] = n PROVE FALSE
      OBVIOUS
    <3>1. n # NoSerial
      BY <2>3 DEF Serials, NoSerial
    <3>2. QED BY <2>3, <3>1 DEF ApartInv
  <2>7. QED BY <2>1, <2>4, <2>5, <2>6 DEF ApartInv
<1>3. CASE ArmSkeleton
  <2>1. stage = "arm_skeleton" /\ serial' = serial
        /\ skel_serial' = SkeletonSerial /\ used_serials' = used_serials \cup {SkeletonSerial}
    BY <1>3 DEF ArmSkeleton, Inside, writers
  <2>2. skel_serial = NoSerial /\ used_serials # {}
    BY <2>1 DEF TypeInv, SerialsInv
  <2>3. SkeletonSerial = FreeSerial(MaxSerial + 1)
    BY DEF SkeletonSerial, Protocol
  <2>4. MaxSerial + 1 \in Nat
    BY <2>2, MaxSerialFacts DEF TypeInv, SerialsInv
  <2>5. SkeletonSerial \in Serials /\ SkeletonSerial \notin used_serials
    BY <2>2, <2>3, <2>4, FreeLeft DEF TypeInv
  <2>6. \A s \in Streams : serial[s] # SkeletonSerial
    <3> SUFFICES ASSUME NEW s \in Streams, serial[s] = SkeletonSerial PROVE FALSE
      OBVIOUS
    <3>1. SkeletonSerial # NoSerial
      BY <2>5 DEF Serials, NoSerial
    <3>2. QED BY <2>5, <3>1 DEF ApartInv
  <2>7. QED BY <2>1, <2>6 DEF ApartInv
<1>4. CASE Calls
  <2>1. UNCHANGED <<serial, used_serials, skel_serial>>
    BY <1>4, Zenon DEF Calls, WriteHeader, BeginNewLink, WriteTrailer, SetPageTarget, WritePacket,
                       calls, writers, skeleton
  <2>2. QED BY <1>1, <2>1
<1>5. CASE NextLink \/ WriteBos \/ WriteSecondary \/ PassTurn \/ WriteSkeletonPage \/ BeginPacket
           \/ PutLaces \/ StampHeader \/ StampContent \/ StampTheora
  <2>1. UNCHANGED <<serial, used_serials, skel_serial>>
    BY <1>5, Zenon DEF NextLink, WriteBos, WriteSecondary, PassTurn, WriteSkeletonPage, BeginPacket,
                       PutLaces, StampHeader, StampContent, StampTheora, calls, writers, skeleton
  <2>2. QED BY <1>1, <2>1
<1>6. CASE FlushPage \/ ReleasePage \/ ReleaseDone \/ DrainPage \/ DrainDone \/ CloseFlush
           \/ CloseStream \/ Backfill \/ UNCHANGED vars
  <2>1. UNCHANGED <<serial, used_serials, skel_serial>>
    BY <1>6, Zenon DEF FlushPage, ReleasePage, ReleaseDone, DrainPage, DrainDone, CloseFlush,
                       CloseStream, Backfill, calls, writers, skeleton, vars
  <2>2. QED BY <1>1, <2>1
<1>7. QED BY <1>2, <1>3, <1>4, <1>5, <1>6, Zenon DEF Next, Steps, Terminated

-----------------------------------------------------------------------------
(* Where a step leaves the streams.                                        *)

\* A stream belongs to an earlier link, to this one or to a later one.
Placed(s) ==
  /\ s \in Current \/ Earlier(s) \/ Later(s)
  /\ s \in Current => ~Earlier(s) /\ ~Later(s)
  /\ ~(Earlier(s) /\ Later(s))

LEMMA Placing ==
  ASSUME link \in DOMAIN Links, NEW s \in Streams
  PROVE  Placed(s)
<1>1. DOMAIN Links \subseteq Nat
  BY MuxAssumption
<1>2. PICK k \in DOMAIN Links : s \in ToSet(Links[k])
  BY DEF Streams
<1>3. \A m \in DOMAIN Links : s \in ToSet(Links[m]) => m = k
  BY <1>2, MuxAssumption
<1>4. Current = ToSet(Links[link])
  BY DEF Current, Order
<1>5. Earlier(s) => k < link
  BY <1>3, Zenon DEF Earlier
<1>6. Later(s) => k > link
  BY <1>3, Zenon DEF Later
<1>7. k < link => Earlier(s)
  BY <1>2, Zenon DEF Earlier
<1>8. k > link => Later(s)
  BY <1>2, Zenon DEF Later
<1>9. s \in Current <=> k = link
  BY <1>2, <1>3, <1>4
<1>10. k \in Nat /\ link \in Nat
  BY <1>1
<1>11. QED BY <1>5, <1>6, <1>7, <1>8, <1>9, <1>10 DEF Placed

LEMMA LinkKept ==
  ASSUME UNCHANGED link, NEW s
  PROVE  /\ Earlier(s)' = Earlier(s) /\ Later(s)' = Later(s)
         /\ (s \in Current)' = (s \in Current)
BY Zenon DEF Earlier, Later, Current, Order

PlaceKept == UNCHANGED <<stage, turn, link, header_written, trailer_written>>

LEMMA PlaceStays ==
  ASSUME PlaceKept, NEW s
  PROVE  /\ Done(s)' = Done(s) /\ Closed(s)' = Closed(s) /\ Blank(s)' = Blank(s)
         /\ Section(s)' = Section(s) /\ HeadersPassed(s)' = HeadersPassed(s) /\ Turn' = Turn
<1>1. UNCHANGED <<stage, turn, link, header_written, trailer_written>>
  BY DEF PlaceKept
<1>2. /\ Earlier(s)' = Earlier(s) /\ Later(s)' = Later(s) /\ (s \in Current)' = (s \in Current)
      /\ Passed(s)' = Passed(s) /\ Turn' = Turn
  BY <1>1, Zenon DEF Earlier, Later, Current, Order, Passed, Turn
<1>3. Done(s)' = Done(s) /\ Closed(s)' = Closed(s)
  BY <1>1, <1>2, Zenon DEF Done, Closed
<1>4. BosDue(s)' = BosDue(s) /\ HeadersPassed(s)' = HeadersPassed(s)
  BY <1>1, <1>2, Zenon DEF BosDue, HeadersPassed
<1>5. Blank(s)' = Blank(s) /\ Section(s)' = Section(s)
  BY <1>1, <1>2, <1>4, Zenon DEF Blank, Section
<1>6. QED BY <1>2, <1>3, <1>5, <1>4

\* A turn of a loop, over.
TurnOver ==
  /\ Turn \in Current /\ ~Passed(Turn)
  /\ \/ stage' = stage /\ \A s : Passed(s)' <=> Passed(s) \/ s = Turn
     \/ stage' = After(stage) /\ (\A s : ~Passed(s)') /\ \A s \in Current : Passed(s) \/ s = Turn

LEMMA TurnNotPassed ==
  ASSUME ControlInv
  PROVE  ~Passed(Turn)
<1>1. /\ Order \in Seq(Streams) /\ Len(Order) \in Nat \ {0} /\ turn \in 1 .. Len(Order)
      /\ Turn = Order[turn] /\ DOMAIN Order = 1 .. Len(Order)
  BY OrderFacts DEF ControlInv, Order, Turn
<1>2. \A i, j \in 1 .. Len(Order) : Order[i] = Order[j] => i = j
  BY <1>1, MuxAssumption DEF ControlInv, Order
<1> SUFFICES ASSUME NEW i \in 1 .. turn - 1, Order[i] = Turn PROVE FALSE
  BY DEF Passed
<1>3. i \in 1 .. Len(Order) /\ i # turn
  BY <1>1
<1>4. QED BY <1>1, <1>2, <1>3

LEMMA TurnPasses ==
  ASSUME ControlInv, NextTurn, UNCHANGED link
  PROVE  TurnOver
<1>1. /\ Order \in Seq(Streams) /\ Len(Order) \in Nat \ {0} /\ turn \in 1 .. Len(Order)
      /\ Order' = Order /\ Turn = Order[turn] /\ DOMAIN Order = 1 .. Len(Order)
      /\ \A s \in Current : \E i \in 1 .. Len(Order) : s = Order[i]
      /\ Turn \in Current
  BY OrderFacts DEF ControlInv, Order, Turn
<1>3. ~Passed(Turn)
  BY TurnNotPassed
<1>4. CASE turn < Len(Order) /\ turn' = turn + 1 /\ UNCHANGED stage
  <2>1. 1 .. turn' - 1 = (1 .. turn - 1) \cup {turn}
    BY <1>1, <1>4
  <2>2. \A s : Passed(s)' <=> Passed(s) \/ s = Turn
    BY <1>1, <2>1 DEF Passed
  <2>3. QED BY <1>1, <1>3, <1>4, <2>2 DEF TurnOver
<1>5. CASE turn = Len(Order) /\ turn' = 1 /\ stage' = After(stage)
  <2>1. 1 .. turn' - 1 = {}
    BY <1>5
  <2>2. \A s : ~Passed(s)'
    BY <2>1 DEF Passed
  <2>3. \A s \in Current : Passed(s) \/ s = Turn
    <3> SUFFICES ASSUME NEW s \in Current, s # Turn PROVE Passed(s)
      OBVIOUS
    <3>1. PICK i \in 1 .. Len(Order) : s = Order[i]
      BY <1>1
    <3>2. i \in 1 .. turn - 1
      BY <1>1, <1>5, <3>1
    <3>3. QED BY <3>1, <3>2 DEF Passed
  <2>4. QED BY <1>1, <1>3, <1>5, <2>2, <2>3 DEF TurnOver
<1>6. QED BY <1>4, <1>5 DEF NextTurn

\* Outside the loops no turn is over.
LEMMA NonePassed ==
  ASSUME turn = 1, NEW s
  PROVE  ~Passed(s)
BY DEF Passed

-----------------------------------------------------------------------------
(* Steps that leave the pages of a stream alone.                           *)

Kept(s) ==
  /\ Pages(s)' = Pages(s) /\ queue'[s] = queue[s] /\ seq_no'[s] = seq_no[s]
  /\ bos_emitted'[s] = bos_emitted[s] /\ (Pages(s) # <<>> => serial'[s] = serial[s])
  /\ buffered'[s].segs = buffered[s].segs
\* Where the stream stands may change.
Moved(s) ==
  /\ Done(s) => Done(s)'
  /\ Done(s)' => Done(s) \/ Blank(s)
  /\ Closed(s)' => Closed(s) \/ queue[s] = <<>>
  /\ Blank(s)' => Blank(s) /\ Handed(s)' = Handed(s)
  /\ Section(s)' => Section(s) \/ Blank(s)

LEMMA KeptInv ==
  ASSUME NEW s \in Streams, StreamInv(s), Kept(s), Moved(s), Counted(s)'
  PROVE  StreamInv(s)'
<1>1. Numbered(s)'
  <2>1. /\ Pages(s)' = Pages(s) /\ seq_no'[s] = seq_no[s] /\ bos_emitted'[s] = bos_emitted[s]
        /\ Numbered(s)
    BY Zenon DEF Kept, StreamInv
  <2>2. CASE serial'[s] = serial[s]
    BY <2>1, <2>2, Zenon DEF Numbered
  <2>3. CASE Pages(s) = <<>>
    <3>1. 1 .. Len(Pages(s)) = {}
      BY <2>3
    <3>2. QED BY <2>1, <3>1, Zenon DEF Numbered
  <2>4. QED BY <2>2, <2>3 DEF Kept
<1>2. Ending(s)'
  <2>1. Pages(s)' = Pages(s) /\ queue'[s] = queue[s] /\ buffered'[s].segs = buffered[s].segs
    BY DEF Kept
  <2>2. Blank(s) => Pages(s) = <<>> /\ buffered[s].segs = <<>>
    BY DEF StreamInv, Unwritten
  <2>3. \A i \in 1 .. Len(Pages(s)) : "eos" \in Pages(s)[i].flags => i = Len(Pages(s)) /\ Done(s)'
    BY Zenon DEF StreamInv, Ending, Moved
  <2>4. Done(s)' => /\ buffered[s].segs = <<>>
                    /\ Pages(s) # <<>> => "eos" \in Pages(s)[Len(Pages(s))].flags
    BY <2>2, Zenon DEF StreamInv, Ending, Moved
  <2>5. Closed(s)' => queue[s] = <<>>
    BY DEF StreamInv, Ending, Moved
  <2>6. QED BY <2>1, <2>3, <2>4, <2>5, Zenon DEF Ending
<1>3. Nil(s)'
  <2>1. Pages(s)' = Pages(s) /\ queue'[s] = queue[s] /\ buffered'[s].segs = buffered[s].segs
    BY DEF Kept
  <2>2. HeaderPages(s)' <=> HeaderPages(s)
    BY <2>1, Zenon DEF HeaderPages
  <2>3. Blank(s) => HeaderPages(s) /\ buffered[s].segs = <<>>
    BY DEF StreamInv, Unwritten, HeaderPages
  <2>4. \A i \in 1 .. Len(Pages(s)) :
          Pages(s)[i].segs = <<>> =>
            "eos" \in Pages(s)[i].flags /\ \A j \in 1 .. i - 1 : IsHeader(Pages(s)[j])
    BY Zenon DEF StreamInv, Nil
  <2>5. queue[s] = <<>> /\ ~Done(s)' => HeaderPages(s)
    BY Zenon DEF StreamInv, Nil, Moved
  <2>6. Section(s)' => /\ HeaderPages(s)
                       /\ buffered[s].segs # <<>> => buffered[s].segs[1].pkt <= HeaderCount(s)
    BY <2>3, Zenon DEF StreamInv, Nil, Moved
  <2>7. QED BY <2>1, <2>2, <2>4, <2>5, <2>6, Zenon DEF Nil
<1>4. Unwritten(s)'
  BY Zenon DEF StreamInv, Unwritten, Kept, Moved
<1>5. QED BY <1>1, <1>2, <1>3, <1>4, Zenon DEF StreamInv

\* The call stays where it is.
LEMMA KeptInPlace ==
  ASSUME NEW s \in Streams, StreamInv(s), Kept(s), PlaceKept, Blank(s) => Handed(s)' = Handed(s),
         Counted(s)'
  PROVE  StreamInv(s)'
<1>1. Moved(s)
  BY PlaceStays, Zenon DEF Moved
<1>2. QED BY <1>1, KeptInv

\* Nothing of what Kept asks is touched.
LEMMA NothingWritten ==
  ASSUME UNCHANGED <<wire, queue, seq_no, bos_emitted, serial, buffered>>, NEW s
  PROVE  Kept(s)
<1>1. Pages(s)' = Pages(s)
  BY Zenon DEF Pages, OnWire, Queued
<1>2. QED BY <1>1, Zenon DEF Kept

\* No more packets than before, in the same place.
LEMMA CountStays ==
  ASSUME NEW s, Counted(s), PlaceKept, UNCHANGED extra, Handed(s)' = Handed(s)
  PROVE  Counted(s)'
<1>1. Section(s)' = Section(s) /\ HeadersPassed(s)' = HeadersPassed(s) /\ Turn' = Turn
  BY PlaceStays
<1>2. QED BY <1>1, Zenon DEF Counted

LEMMA HandedStays ==
  ASSUME NEW s, UNCHANGED sent, step # "packet", step' # "packet"
  PROVE  Handed(s)' = Handed(s)
BY Zenon DEF Handed

StreamsInv == \A s \in Streams : StreamInv(s)

LEMMA StayedInPlace ==
  ASSUME StreamsInv, PlaceKept, UNCHANGED <<wire, queue, seq_no, bos_emitted, serial, extra>>,
         \A s \in Streams : buffered'[s].segs = buffered[s].segs,
         \A s \in Streams : Handed(s)' = Handed(s)
  PROVE  StreamsInv'
<1> SUFFICES ASSUME NEW s \in Streams PROVE StreamInv(s)'
  BY DEF StreamsInv
<1>1. StreamInv(s)
  BY DEF StreamsInv
<1>2. Kept(s)
  <2>1. Pages(s)' = Pages(s)
    BY Zenon DEF Pages, OnWire, Queued
  <2>2. QED BY <2>1, Zenon DEF Kept
<1>3. Counted(s)'
  BY <1>1, CountStays DEF StreamInv
<1>4. QED BY <1>1, <1>2, <1>3, KeptInPlace

LEMMA SetPageTargetPages ==
  ASSUME StreamsInv, NEW t, SetPageTarget(t)
  PROVE  StreamsInv'
<1>1. PlaceKept /\ UNCHANGED <<wire, queue, seq_no, bos_emitted, serial, extra, buffered>>
  BY Zenon DEF SetPageTarget, control, writers, PlaceKept
<1>2. \A s \in Streams : Handed(s)' = Handed(s)
  BY Zenon DEF SetPageTarget, control, Handed
<1>3. QED BY <1>1, <1>2, StayedInPlace, Zenon

LEMMA WritePacketPages ==
  ASSUME Protocol, TypeInv, ProtocolInv, StreamsInv, NEW t \in Streams, NEW p, WritePacket(t, p)
  PROVE  StreamsInv'
<1>1. stage = "idle" /\ step = "none" /\ header_written /\ ~trailer_written /\ t \in Current
  BY DEF WritePacket, Idle, Protocol
<1>2. step' = "packet" /\ writing'.s = t
  BY DEF WritePacket, Call
<1>3. PlaceKept /\ UNCHANGED <<wire, queue, seq_no, bos_emitted, serial, extra, buffered, sent>>
  BY Zenon DEF WritePacket, calls, writers, PlaceKept
<1> SUFFICES ASSUME NEW s \in Streams PROVE StreamInv(s)'
  BY DEF StreamsInv
<1>4. StreamInv(s) /\ Kept(s)
  BY <1>3, NothingWritten DEF StreamsInv
<1>5. ~Section(s)'
  <2>1. ~Section(s)
    BY <1>1 DEF Section, BosLoops, HeaderLoops
  <2>2. QED BY <1>3, <2>1, PlaceStays
<1>6. Blank(s) => Handed(s)' = Handed(s)
  <2>1. Placed(s)
    BY Placing DEF TypeInv, ControlInv
  <2>2. Blank(s) => s # t
    BY <1>1, <2>1 DEF Placed, Blank, BosDue
  <2>3. s # t => Handed(s)' = Handed(s)
    BY <1>1, <1>2, <1>3 DEF Handed
  <2>4. QED BY <2>2, <2>3
<1>7. Counted(s)'
  BY <1>5, Zenon DEF Counted
<1>8. QED BY <1>3, <1>4, <1>6, <1>7, KeptInPlace

LEMMA WriteSecondaryPages ==
  ASSUME TypeInv, ProtocolInv, StreamsInv, WriteSecondary
  PROVE  StreamsInv'
<1>1. /\ stage \in HeaderLoops /\ step = "none" /\ extra + 1 < Headers[Turn]
      /\ \/ stage = "theora_headers" /\ Turn \in Theora
         \/ stage = "other_headers" /\ Turn \notin Theora
  BY DEF WriteSecondary, HeaderTurn, InPass, Inside, HeaderLoops
<1>2. step' = "packet" /\ writing'.s = Turn /\ extra' = extra + 1
  BY DEF WriteSecondary, Call
<1>3. PlaceKept /\ UNCHANGED <<wire, queue, seq_no, bos_emitted, serial, buffered, sent>>
  BY Zenon DEF WriteSecondary, calls, writers, PlaceKept
<1>4. header_written
  BY <1>1, UnderWay DEF HeaderLoops, TypeInv
<1> SUFFICES ASSUME NEW s \in Streams PROVE StreamInv(s)'
  BY DEF StreamsInv
<1>5. StreamInv(s) /\ Kept(s)
  BY <1>3, NothingWritten DEF StreamsInv
<1>6. Placed(s) /\ Turn \in Current /\ Turn \in Streams
  BY Placing, TurnType DEF TypeInv, ControlInv
<1>7. Blank(s) => s # Turn
  BY <1>1, <1>4, <1>6 DEF Placed, Blank, BosDue, HeaderLoops
<1>8. s # Turn => Handed(s)' = Handed(s)
  BY <1>1, <1>2, <1>3 DEF Handed
<1>9. Handed(Turn) = Len(sent[Turn]) /\ s = Turn => Handed(s)' = Len(sent[Turn]) + 1
  BY <1>1, <1>2, <1>3 DEF Handed
<1>10. Counted(s)'
  <2>1. /\ Section(s)' = Section(s) /\ HeadersPassed(s)' = HeadersPassed(s) /\ Turn' = Turn
    BY <1>3, PlaceStays
  <2>2. CASE s # Turn
    <3>1. Counted(s)
      BY <1>5 DEF StreamInv
    <3>2. Handed(s)' = Handed(s)
      BY <1>8, <2>2
    <3>3. QED BY <2>1, <2>2, <3>1, <3>2, Zenon DEF Counted
  <2>3. CASE s = Turn
    <3>1. Handed(s) = Len(sent[s]) /\ Handed(s)' = Len(sent[s]) + 1
      BY <1>1, <1>2, <1>3, <2>3 DEF Handed
    <3>2. Section(s)
      BY <1>1, <1>6, <2>3 DEF Section
    <3>3. ~HeadersPassed(s)
      <4>1. ~Passed(Turn)
        BY TurnNotPassed DEF TypeInv
      <4>2. QED BY <1>1, <2>3, <4>1 DEF HeadersPassed
    <3>4. Handed(s) <= 1 + extra
      BY <1>5, <2>3, <3>2, <3>3 DEF StreamInv, Counted
    <3>5. Len(sent[s]) \in Nat /\ extra \in Nat /\ Headers[s] \in Nat
      BY MuxAssumption DEF TypeInv, ControlInv, DataInv, SentInv
    <3>6. Handed(s)' <= Headers[s] /\ Handed(s)' <= 1 + extra'
      BY <1>1, <1>2, <2>3, <3>1, <3>4, <3>5
    <3>7. Turn' = s
      BY <2>1, <2>3
    <3>8. QED BY <3>6, <3>7 DEF Counted
  <2>4. QED BY <2>2, <2>3
<1>11. QED BY <1>3, <1>5, <1>7, <1>8, <1>10, KeptInPlace

LEMMA BeginPacketPages ==
  ASSUME TypeInv, StreamsInv, BeginPacket
  PROVE  StreamsInv'
<1>1. step = "packet" /\ step' \in {"flush", "put"} /\ writing' = writing
      /\ sent' = [sent EXCEPT ![writing.s] = Append(@, writing.p)]
  BY DEF BeginPacket, Doing, GoTo
<1>2. PlaceKept /\ UNCHANGED <<wire, queue, seq_no, bos_emitted, serial, buffered, extra>>
  BY Zenon DEF BeginPacket, GoTo, calls, writers, PlaceKept
<1>3. sent \in [Streams -> Seq(Packet)] /\ writing.s \in Streams
  BY AtWork DEF TypeInv, DataInv, SentInv
<1>4. \A s \in Streams : Handed(s)' = Handed(s)
  <2> SUFFICES ASSUME NEW s \in Streams PROVE Handed(s)' = Handed(s)
    OBVIOUS
  <2>1. sent[s] \in Seq(Packet) /\ Len(sent[s]) \in Nat
    BY <1>3
  <2>2. CASE s = writing.s
    <3>1. sent'[s] = Append(sent[s], writing.p)
      BY <1>1, <1>3, <2>2
    <3>2. Len(sent'[s]) = Len(sent[s]) + 1
      BY <2>1, <3>1
    <3>3. Handed(s) = Len(sent[s]) + 1
      BY <1>1, <2>2, Zenon DEF Handed
    <3>4. Handed(s)' = Len(sent'[s]) + 0
      BY <1>1, Zenon DEF Handed
    <3>5. QED BY <2>1, <3>2, <3>3, <3>4
  <2>3. CASE s # writing.s
    <3>1. sent'[s] = sent[s]
      BY <1>1, <1>3, <2>3
    <3>2. QED BY <1>1, <2>3, <3>1 DEF Handed
  <2>4. QED BY <2>2, <2>3
<1>5. QED BY <1>2, <1>4, StayedInPlace, Zenon

\* The stream of a packet under way: begun, and not over.
LEMMA AtWorkOn ==
  ASSUME TypeInv, ProtocolInv, step # "none"
  PROVE  ~Blank(writing.s) /\ ~Done(writing.s) /\ ~Closed(writing.s)
<1>1. /\ writing.s \in Current /\ writing.s \in Streams
      /\ stage \in {"idle"} \cup HeaderLoops \cup ClosingLoops
      /\ stage \in ClosingLoops => writing.s = Turn
  BY AtWork DEF TypeInv, CallInv, ClosingLoops
<1>2. header_written = TRUE /\ trailer_written = FALSE
  BY UnderWay DEF TypeInv
<1>3. Placed(writing.s) /\ ~Passed(Turn)
  BY <1>1, Placing, TurnNotPassed DEF TypeInv, ControlInv
<1>4. ~Earlier(writing.s) /\ ~Later(writing.s)
  BY <1>1, <1>3, Zenon DEF Placed
<1>5. ~BosDue(writing.s)
  BY <1>1, <1>2 DEF BosDue, HeaderLoops, ClosingLoops
<1>6. ~Blank(writing.s)
  BY <1>4, <1>5, Zenon DEF Blank
<1>7. ~Done(writing.s)
  BY <1>1, <1>2, <1>3, <1>4 DEF Done, HeaderLoops, ClosingLoops
<1>8. ~Closed(writing.s)
  BY <1>1, <1>2, <1>4 DEF Closed, HeaderLoops, ClosingLoops
<1>9. QED BY <1>6, <1>7, <1>8

LEMMA HeaderRange ==
  ASSUME NEW s \in Streams
  PROVE  Headers[s] \in Nat /\ HeaderCount(s) \in Nat \ {0} /\ Headers[s] <= HeaderCount(s)
BY MuxAssumption DEF HeaderCount

LEMMA PutLacesPages ==
  ASSUME TypeInv, ProtocolInv, StreamsInv, PutLaces
  PROVE  StreamsInv'
<1> SUFFICES ASSUME NEW s \in Streams, s = writing.s PROVE StreamsInv'
  BY AtWork
<1> DEFINE room == MaxSegs - Len(buffered[s].segs)
           take == IF room < LacesLeft THEN room ELSE LacesLeft
           laces == [i \in 1 .. take |-> Lace(Len(sent[s]), writing.from + i, writing.p.laces)]
<1>1. step = "put" /\ step' \in {"flush", "stamp"}
  BY DEF PutLaces, Doing, GoTo
<1>2. /\ writing' = [writing EXCEPT !.from = @ + take]
      /\ buffered' = [buffered EXCEPT ![s].segs = @ \o laces]
  BY DEF PutLaces
<1>3. PlaceKept /\ UNCHANGED <<wire, queue, seq_no, bos_emitted, serial, extra, sent>>
  BY Zenon DEF PutLaces, GoTo, calls, PlaceKept
<1>4. s \in Streams /\ buffered[s].segs \in Seq(LaceSet)
  BY AtWork
<1>5. buffered \in [Streams -> BuilderSet]
  BY DEF TypeInv, DataInv, BuffersInv
<1>6. \A r \in Streams : Handed(r)' = Handed(r)
  BY <1>1, <1>3, HandedStays
<1>7. \A r \in Streams : StreamInv(r) /\ Counted(r)'
  BY <1>3, <1>6, CountStays DEF StreamsInv, StreamInv
<1>8. Len(sent[s]) \in Nat /\ Handed(s) = Len(sent[s])
  <2>1. sent[s] \in Seq(Packet)
    BY <1>4 DEF TypeInv, DataInv, SentInv
  <2>2. QED BY <1>1, <2>1 DEF Handed
<1> SUFFICES ASSUME NEW r \in Streams PROVE StreamInv(r)'
  BY DEF StreamsInv
<1>9. CASE r # s
  <2>1. buffered'[r] = buffered[r]
    BY <1>2, <1>5, <1>9
  <2>2. Pages(r)' = Pages(r)
    BY <1>3, PagesStay
  <2>3. Kept(r)
    BY <1>3, <2>1, <2>2, Zenon DEF Kept
  <2>4. QED BY <1>3, <1>6, <1>7, <2>3, KeptInPlace
<1>10. CASE r = s
  <2>1. Pages(s)' = Pages(s)
    BY <1>3, PagesStay
  <2>2. ~Blank(s) /\ ~Done(s) /\ ~Closed(s)
    BY <1>1, AtWorkOn
  <2>3. /\ Done(s)' = Done(s) /\ Closed(s)' = Closed(s) /\ Blank(s)' = Blank(s)
        /\ Section(s)' = Section(s)
    BY <1>3, PlaceStays
  <2>4. Numbered(s)'
    <3>1. Numbered(s)
      BY <1>7, Zenon DEF StreamInv
    <3>2. seq_no'[s] = seq_no[s] /\ bos_emitted'[s] = bos_emitted[s] /\ serial'[s] = serial[s]
      BY <1>3
    <3>3. QED BY <2>1, <3>1, <3>2, Zenon DEF Numbered
  <2>5. Ending(s)'
    <3>1. \A i \in 1 .. Len(Pages(s)) : "eos" \notin Pages(s)[i].flags
      BY <1>4, <1>7, <2>2, Zenon DEF StreamInv, Ending
    <3>2. QED BY <2>1, <2>2, <2>3, <3>1, Zenon DEF Ending
  <2>6. Nil(s)'
    <3>1. HeaderPages(s)' <=> HeaderPages(s)
      BY <2>1, Zenon DEF HeaderPages
    <3>2. Section(s) /\ buffered'[s].segs # <<>> => buffered'[s].segs[1].pkt <= HeaderCount(s)
      <4> SUFFICES ASSUME Section(s), buffered'[s].segs # <<>>
                   PROVE  buffered'[s].segs[1].pkt <= HeaderCount(s)
        OBVIOUS
      <4>1. buffered'[s].segs = buffered[s].segs \o laces
        BY <1>2, <1>4, <1>5 DEF BuilderSet
      <4>2. LacesLeft \in Nat /\ MaxSegs \in Nat /\ Len(buffered[s].segs) <= MaxSegs
            /\ Len(buffered[s].segs) \in Nat
        BY <1>1, <1>4, AtWork, MuxAssumption DEF LacesLeft, TypeInv, WritingInv
      <4>3. take \in Nat
        BY <4>2
      <4> HIDE DEF take
      <4>4. laces \in Seq(LaceSet) /\ Len(laces) = take /\ \A i \in 1 .. take : laces[i].pkt = Len(sent[s])
        <5>1. \A i \in 1 .. take : Lace(Len(sent[s]), writing.from + i, writing.p.laces) \in LaceSet
          BY <1>8, <4>3, AtWork DEF Lace, LaceSet
        <5>2. \A i \in 1 .. take : laces[i].pkt = Len(sent[s])
          BY DEF Lace
        <5>3. laces \in Seq(LaceSet) /\ Len(laces) = take
          BY <4>3, <5>1
        <5>4. QED BY <5>2, <5>3
      <4> HIDE DEF laces
      <4>5. CASE buffered[s].segs # <<>>
        <5>1. buffered[s].segs[1].pkt <= HeaderCount(s)
          BY <1>4, <1>7, <4>5 DEF StreamInv, Nil
        <5> DEFINE q == buffered[s].segs
        <5>2. q \in Seq(LaceSet) /\ q # <<>>
          BY <1>4, <4>5
        <5> HIDE DEF q
        <5>3. (q \o laces)[1] = q[1]
          BY <4>4, <5>2
        <5>4. QED BY <4>1, <5>1, <5>3 DEF q
      <4>6. CASE buffered[s].segs = <<>>
        <5>1. buffered'[s].segs = laces
          BY <4>1, <4>4, <4>6
        <5>2. 1 \in 1 .. take
          BY <4>3, <4>4, <5>1
        <5>3. laces[1].pkt = Handed(s)
          BY <1>8, <4>4, <5>2
        <5>4. Handed(s) <= Headers[s]
          BY <1>4, <1>7 DEF StreamInv, Counted
        <5>5. QED BY <1>4, <1>8, <5>1, <5>3, <5>4, HeaderRange
      <4>7. QED BY <4>5, <4>6
    <3>3. Nil(s)
      BY <1>4, <1>7, Zenon DEF StreamInv
    <3>4. queue'[s] = queue[s]
      BY <1>3
    <3>5. QED BY <2>1, <2>3, <3>1, <3>2, <3>3, <3>4, Zenon DEF Nil
  <2>7. Unwritten(s)'
    BY <2>2, <2>3, Zenon DEF Unwritten
  <2>8. Counted(s)'
    BY <1>4, <1>7
  <2>9. QED BY <1>10, <2>4, <2>5, <2>6, <2>7, <2>8, Zenon DEF StreamInv
<1>11. QED BY <1>9, <1>10

LEMMA ReleaseDonePages ==
  ASSUME StreamsInv, ReleaseDone
  PROVE  StreamsInv'
<1>1. step = "release" /\ step' \in {"put", "none"}
  BY DEF ReleaseDone, Doing, GoTo
<1>2. PlaceKept /\ UNCHANGED <<wire, queue, seq_no, bos_emitted, serial, extra, buffered, sent>>
  BY Zenon DEF ReleaseDone, GoTo, calls, writers, PlaceKept
<1>3. \A s \in Streams : Handed(s)' = Handed(s)
  BY <1>1, <1>2, HandedStays
<1>4. QED BY <1>2, <1>3, StayedInPlace, Zenon

LEMMA CloseFlushPages ==
  ASSUME StreamsInv, CloseFlush
  PROVE  StreamsInv'
<1>1. step = "none" /\ step' = "flush"
  BY DEF CloseFlush, Closing, Inside, Call
<1>2. PlaceKept /\ UNCHANGED <<wire, queue, seq_no, bos_emitted, serial, extra, buffered, sent>>
  BY Zenon DEF CloseFlush, calls, writers, PlaceKept
<1>3. \A s \in Streams : Handed(s)' = Handed(s)
  BY <1>1, <1>2, HandedStays
<1>4. QED BY <1>2, <1>3, StayedInPlace, Zenon

\* Stamping a packet leaves the laces of the builder.
LEMMA StampedLaces ==
  ASSUME BuffersInv, NEW w \in Streams, NEW granule, NEW kf,
         \/ buffered' = buffered
         \/ buffered' = [buffered EXCEPT ![w].granule = granule]
         \/ buffered' = [buffered EXCEPT ![w].granule = granule, ![w].kf = kf]
  PROVE  \A s \in Streams : buffered'[s].segs = buffered[s].segs
<1>1. buffered \in [Streams -> BuilderSet] /\ buffered[w] \in BuilderSet
  BY DEF BuffersInv
<1>2. CASE buffered' = [buffered EXCEPT ![w].granule = granule]
  BY <1>1, <1>2 DEF BuilderSet
<1>3. CASE buffered' = [buffered EXCEPT ![w].granule = granule, ![w].kf = kf]
  BY <1>1, <1>3 DEF BuilderSet
<1>4. QED BY <1>2, <1>3, Zenon

LEMMA StampHeaderPages ==
  ASSUME TypeInv, StreamsInv, StampHeader
  PROVE  StreamsInv'
<1>1. step = "stamp" /\ step' = "flush"
  BY DEF StampHeader, Doing, GoTo
<1>2. PlaceKept /\ UNCHANGED <<wire, queue, seq_no, bos_emitted, serial, extra, sent>>
  BY Zenon DEF StampHeader, GoTo, calls, PlaceKept
<1>3. \A s \in Streams : Handed(s)' = Handed(s)
  BY <1>1, <1>2, HandedStays
<1>4. \A s \in Streams : buffered'[s].segs = buffered[s].segs
  <2>1. buffered' = [buffered EXCEPT ![writing.s].granule = 0]
    BY DEF StampHeader
  <2>2. QED BY <2>1, AtWork, StampedLaces DEF TypeInv, DataInv
<1>5. QED BY <1>2, <1>3, <1>4, StayedInPlace, Zenon

LEMMA StampContentPages ==
  ASSUME TypeInv, StreamsInv, StampContent
  PROVE  StreamsInv'
<1>1. step = "stamp" /\ step' \in {"flush", "none"}
  BY DEF StampContent, Doing, GoTo
<1>2. PlaceKept /\ UNCHANGED <<wire, queue, seq_no, bos_emitted, serial, extra, sent>>
  BY Zenon DEF StampContent, GoTo, PlaceKept
<1>3. \A s \in Streams : Handed(s)' = Handed(s)
  BY <1>1, <1>2, HandedStays
<1>4. \A s \in Streams : buffered'[s].segs = buffered[s].segs
  <2> DEFINE w == writing.s
             pts == writing.p.pts
             kf == FirstKeyframe(writing.s, writing.p, writing.p.pts)
  <2>1. buffered' = buffered \/ buffered' = [buffered EXCEPT ![w].granule = pts, ![w].kf = kf]
    BY Zenon DEF StampContent
  <2>2. w \in Streams
    BY AtWork
  <2> HIDE DEF w, pts, kf
  <2>3. QED BY <2>1, <2>2, StampedLaces DEF TypeInv, DataInv
<1>5. QED BY <1>2, <1>3, <1>4, StayedInPlace, Zenon

LEMMA StampTheoraPages ==
  ASSUME TypeInv, ProtocolInv, StreamsInv, StampTheora
  PROVE  StreamsInv'
<1>1. step = "stamp" /\ UNCHANGED <<link, header_written, trailer_written>>
  BY DEF StampTheora, Doing
<1>2. UNCHANGED <<wire, queue, seq_no, bos_emitted, serial, sent>>
  BY Zenon DEF StampTheora
<1>3. \/ UNCHANGED <<stage, turn, extra>> /\ step' \in {"flush", "none"}
      \/ stage' = "idle" /\ turn' = 1 /\ step' = "none"
  BY DEF StampTheora, GoTo
<1>4. \A s \in Streams : Handed(s)' = Handed(s)
  BY <1>1, <1>2, <1>3, HandedStays
<1>5. \A s \in Streams : buffered'[s].segs = buffered[s].segs
  <2> DEFINE w == writing.s
             p == writing.p
             frame == IF p.pts = NoPts THEN next_frame[w] ELSE p.pts
             first == IF p.keyframe THEN frame ELSE last_kf[w]
             granule == Pack(frame, first)
             kf == FirstKeyframe(w, p, frame)
  <2>1. buffered' = buffered \/ buffered' = [buffered EXCEPT ![w].granule = granule, ![w].kf = kf]
    BY Zenon DEF StampTheora
  <2>2. w \in Streams
    BY AtWork
  <2> HIDE DEF w, granule, kf
  <2>3. QED BY <2>1, <2>2, StampedLaces DEF TypeInv, DataInv
<1>6. CASE UNCHANGED <<stage, turn, extra>>
  <2>1. PlaceKept
    BY <1>1, <1>6, Zenon DEF PlaceKept
  <2>2. UNCHANGED <<wire, queue, seq_no, bos_emitted, serial, extra>>
    BY <1>2, <1>6, Zenon
  <2>3. QED BY <1>4, <1>5, <2>1, <2>2, StayedInPlace, Zenon
<1>7. CASE stage' = "idle"
  <2> SUFFICES ASSUME NEW s \in Streams PROVE StreamInv(s)'
    BY DEF StreamsInv
  <2>1. StreamInv(s)
    BY DEF StreamsInv
  <2>2. Kept(s)
    <3>1. Pages(s)' = Pages(s)
      BY <1>2, Zenon DEF Pages, OnWire, Queued
    <3>2. QED BY <1>2, <1>5, <3>1, Zenon DEF Kept
  <2>3. stage \in {"idle"} \cup HeaderLoops /\ header_written = TRUE /\ trailer_written = FALSE
    BY <1>1, UnderWay DEF TypeInv, CallInv
  <2>4. /\ Earlier(s)' = Earlier(s) /\ Later(s)' = Later(s) /\ (s \in Current)' = (s \in Current)
    BY <1>1, LinkKept
  <2>5. Done(s)' <=> Done(s)
    BY <1>1, <1>7, <2>3, <2>4 DEF Done, HeaderLoops, ClosingLoops
  <2>6. Closed(s)' <=> Closed(s)
    BY <1>1, <1>7, <2>3, <2>4 DEF Closed, HeaderLoops
  <2>7. ~BosDue(s)'
    BY <1>1, <1>7, <2>3 DEF BosDue
  <2>8. Blank(s)' => Blank(s)
    BY <2>4, <2>7, Zenon DEF Blank
  <2>9. ~Section(s)'
    BY <1>7 DEF Section, BosLoops, HeaderLoops
  <2>10. Moved(s)
    BY <1>4, <2>5, <2>6, <2>8, <2>9, Zenon DEF Moved
  <2>11. Counted(s)'
    BY <2>9, Zenon DEF Counted
  <2>12. QED BY <2>1, <2>2, <2>10, <2>11, KeptInv
<1>8. QED BY <1>3, <1>6, <1>7

-----------------------------------------------------------------------------
(* Steps from stage to stage that leave the pages of the streams alone.    *)

LEMMA BlankCount ==
  ASSUME NEW s \in Streams, Blank(s), Unwritten(s), Handed(s)' = Handed(s), extra' \in Nat
  PROVE  Counted(s)'
<1>1. Handed(s)' = 0
  BY DEF Unwritten
<1>2. Headers[s] \in Nat
  BY HeaderRange
<1> DEFINE more == IF s = Turn' THEN extra' ELSE 0
<1>3. more \in Nat
  OBVIOUS
<1>4. Counted(s)' <=> (Section(s)' =>
          /\ Handed(s)' <= Headers[s]
          /\ ~HeadersPassed(s)' => Handed(s)' <= 1 + more)
  BY Zenon DEF Counted
<1> HIDE DEF more
<1>5. QED BY <1>1, <1>2, <1>3, <1>4

WriteNothing == UNCHANGED <<wire, queue, seq_no, bos_emitted, serial, buffered>>

LEMMA MovedOn ==
  ASSUME StreamsInv, WriteNothing,
         \A s \in Streams : StreamInv(s) => Moved(s) /\ Counted(s)'
  PROVE  StreamsInv'
<1> SUFFICES ASSUME NEW s \in Streams PROVE StreamInv(s)'
  BY DEF StreamsInv
<1>1. Kept(s)
  BY NothingWritten DEF WriteNothing
<1>2. QED BY <1>1, KeptInv DEF StreamsInv

\* No loop under way: the first turn is still to come.
LEMMA FirstTurn ==
  ASSUME ControlInv, stage \notin Loops, NEW s
  PROVE  ~Passed(s)
<1>1. turn = 1
  BY DEF ControlInv
<1>2. QED BY <1>1, NonePassed

LEMMA WriteHeaderPages ==
  ASSUME Protocol, TypeInv, ProtocolInv, StreamsInv, WriteHeader
  PROVE  StreamsInv'
<1>1. stage = "idle" /\ step = "none" /\ ~header_written /\ ~trailer_written /\ header_written'
      /\ stage' \in {"fishead", "theora_bos"}
  BY DEF WriteHeader, Idle, Protocol
<1>2. WriteNothing /\ UNCHANGED <<turn, extra, step, link, trailer_written, sent>>
  BY Zenon DEF WriteHeader, writers, WriteNothing
<1>3. \A s \in Streams : StreamInv(s) => Moved(s) /\ Counted(s)'
  <2> SUFFICES ASSUME NEW s \in Streams, StreamInv(s) PROVE Moved(s) /\ Counted(s)'
    OBVIOUS
  <2>1. Handed(s)' = Handed(s)
    BY <1>1, <1>2, HandedStays
  <2>2. /\ Earlier(s)' = Earlier(s) /\ Later(s)' = Later(s) /\ (s \in Current)' = (s \in Current)
        /\ Passed(s)' = Passed(s)
    BY <1>2, LinkKept, Zenon DEF Passed, Order
  <2>3. Done(s)' = Done(s) /\ Closed(s)' = Closed(s)
    BY <1>1, <1>2, <2>2 DEF Done, Closed, ClosingLoops
  <2>4. ~Passed(s)
    BY <1>1, FirstTurn DEF TypeInv, Loops, BosLoops, HeaderLoops, ClosingLoops
  <2>5. s \in Current => Blank(s)
    BY <1>1 DEF Blank, BosDue
  <2>6. Blank(s)' => Blank(s)
    BY <2>2, <2>5, Zenon DEF Blank
  <2>7. Section(s)' => Blank(s)
    BY <2>2, <2>5, Zenon DEF Section
  <2>8. Moved(s)
    BY <2>1, <2>3, <2>6, <2>7, Zenon DEF Moved
  <2>9. Counted(s)'
    <3>1. extra' \in Nat
      BY <1>2 DEF TypeInv, ControlInv
    <3>2. Blank(s) => Counted(s)'
      BY <2>1, <3>1, BlankCount DEF StreamInv
    <3>3. QED BY <2>7, <3>2, Zenon DEF Counted
  <2>10. QED BY <2>8, <2>9
<1>4. QED BY <1>2, <1>3, MovedOn

\* The header section is over, or has not begun.
LEMMA CountedOutside ==
  ASSUME NEW s, ~Section(s)'
  PROVE  Counted(s)'
BY Zenon DEF Counted

LEMMA ClosingPages ==
  ASSUME TypeInv, ProtocolInv, StreamsInv, BeginNewLink \/ WriteTrailer, header_written, ~trailer_written
  PROVE  StreamsInv'
<1>1. stage = "idle" /\ step = "none" /\ stage' \in ClosingLoops
  BY DEF BeginNewLink, WriteTrailer, Idle, ClosingLoops
<1>2. WriteNothing /\ UNCHANGED <<turn, extra, step, link, header_written, trailer_written, sent>>
  BY Zenon DEF BeginNewLink, WriteTrailer, writers, calls, WriteNothing
<1>3. \A s \in Streams : StreamInv(s) => Moved(s) /\ Counted(s)'
  <2> SUFFICES ASSUME NEW s \in Streams, StreamInv(s) PROVE Moved(s) /\ Counted(s)'
    OBVIOUS
  <2>1. Handed(s)' = Handed(s)
    BY <1>1, <1>2, HandedStays
  <2>2. /\ Earlier(s)' = Earlier(s) /\ Later(s)' = Later(s) /\ (s \in Current)' = (s \in Current)
        /\ Passed(s)' = Passed(s)
    BY <1>2, LinkKept, Zenon DEF Passed, Order
  <2>3. ~Passed(s)
    BY <1>1, FirstTurn DEF TypeInv, Loops, BosLoops, HeaderLoops, ClosingLoops
  <2>4. Done(s)' = Done(s) /\ Closed(s)' = Closed(s)
    BY <1>1, <1>2, <2>2, <2>3 DEF Done, Closed, ClosingLoops
  <2>5. ~BosDue(s)' /\ ~Section(s)'
    BY <1>1, <1>2 DEF BosDue, Section, ClosingLoops, BosLoops, HeaderLoops
  <2>6. Blank(s)' => Blank(s)
    BY <2>2, <2>5, Zenon DEF Blank
  <2>7. Moved(s)
    BY <2>1, <2>4, <2>5, <2>6, Zenon DEF Moved
  <2>8. QED BY <2>5, <2>7, CountedOutside
<1>4. QED BY <1>2, <1>3, MovedOn

LEMMA ArmSkeletonPages ==
  ASSUME TypeInv, ProtocolInv, StreamsInv, ArmSkeleton
  PROVE  StreamsInv'
<1>1. stage = "arm_skeleton" /\ step = "none" /\ step' = "none" /\ stage' = "idle"
  BY DEF ArmSkeleton, Inside, NextStage, After
<1>2. WriteNothing /\ UNCHANGED <<turn, extra, link, header_written, trailer_written, sent>>
  BY Zenon DEF ArmSkeleton, NextStage, writers, WriteNothing
<1>3. ~header_written
  BY <1>1 DEF ProtocolInv
<1>4. \A s \in Streams : StreamInv(s) => Moved(s) /\ Counted(s)'
  <2> SUFFICES ASSUME NEW s \in Streams, StreamInv(s) PROVE Moved(s) /\ Counted(s)'
    OBVIOUS
  <2>1. Handed(s)' = Handed(s)
    BY <1>1, <1>2, HandedStays
  <2>2. /\ Earlier(s)' = Earlier(s) /\ Later(s)' = Later(s) /\ (s \in Current)' = (s \in Current)
    BY <1>2, LinkKept
  <2>3. Done(s)' = Done(s) /\ Closed(s)' = Closed(s)
    BY <1>1, <1>2, <2>2 DEF Done, Closed, ClosingLoops
  <2>4. BosDue(s) /\ ~Section(s)'
    BY <1>1, <1>3 DEF BosDue, Section, BosLoops, HeaderLoops
  <2>5. Blank(s)' => Blank(s)
    BY <2>2, <2>4, Zenon DEF Blank
  <2>6. Moved(s)
    BY <2>1, <2>3, <2>4, <2>5, Zenon DEF Moved
  <2>7. QED BY <2>4, <2>6, CountedOutside
<1>5. QED BY <1>2, <1>4, MovedOn

LEMMA NextLinkPages ==
  ASSUME TypeInv, ProtocolInv, StreamsInv, NextLink
  PROVE  StreamsInv'
<1>1. stage = "link" /\ step = "none" /\ step' = "none" /\ stage' = "arm" /\ link' = link + 1
  BY DEF NextLink, Inside, NextStage, After
<1>2. WriteNothing /\ UNCHANGED <<turn, extra, header_written, trailer_written, sent>>
  BY Zenon DEF NextLink, NextStage, writers, WriteNothing
<1>3. header_written = TRUE /\ trailer_written = FALSE
  BY <1>1, UnderWay DEF TypeInv
<1>4. link \in DOMAIN Links /\ link' \in DOMAIN Links
  <2>1. link < Len(Links) /\ link \in 1 .. Len(Links) /\ Len(Links) \in Nat /\ DOMAIN Links = 1 .. Len(Links)
    BY <1>1, MuxAssumption DEF TypeInv, ControlInv
  <2>2. QED BY <1>1, <2>1
<1>5. \A s \in Streams : StreamInv(s) => Moved(s) /\ Counted(s)'
  <2> SUFFICES ASSUME NEW s \in Streams, StreamInv(s) PROVE Moved(s) /\ Counted(s)'
    OBVIOUS
  <2>1. Handed(s)' = Handed(s)
    BY <1>1, <1>2, HandedStays
  <2>3. PICK k \in DOMAIN Links : s \in ToSet(Links[k]) /\ \A m \in DOMAIN Links : s \in ToSet(Links[m]) => m = k
    BY MuxAssumption DEF Streams
  <2>4. DOMAIN Links \subseteq Nat
    BY MuxAssumption
  <2>5. (Earlier(s) <=> k < link) /\ (Later(s) <=> k > link) /\ (s \in Current <=> k = link)
    BY <1>4, <2>3 DEF Earlier, Later, Current, Order
  <2>6. (Earlier(s)' <=> k < link') /\ (Later(s)' <=> k > link') /\ ((s \in Current)' <=> k = link')
    BY <1>4, <2>3 DEF Earlier, Later, Current, Order
  <2>7. /\ Earlier(s)' <=> Earlier(s) \/ s \in Current
        /\ Later(s) <=> Later(s)' \/ (s \in Current)'
    BY <1>1, <1>4, <2>3, <2>4, <2>5, <2>6
  <2>8. Done(s)' <=> Done(s)
    BY <1>1, <1>2, <1>3, <2>7 DEF Done, ClosingLoops
  <2>9. Closed(s)' <=> Closed(s)
    BY <1>1, <1>2, <1>3, <2>7 DEF Closed
  <2>10. Blank(s)' => Blank(s)
    BY <2>7, Zenon DEF Blank
  <2>11. ~Section(s)'
    BY <1>1 DEF Section, BosLoops, HeaderLoops
  <2>12. Moved(s)
    BY <2>1, <2>8, <2>9, <2>10, <2>11, Zenon DEF Moved
  <2>13. QED BY <2>11, <2>12, CountedOutside
<1>6. QED BY <1>2, <1>5, MovedOn

\* A turn of the header section over, in which no header was handed on last.
LEMMA HeaderTurnOver ==
  ASSUME TypeInv, ProtocolInv, stage \in BosLoops \cup HeaderLoops, NextTurn, extra' = 0,
         UNCHANGED <<link, header_written, trailer_written>>,
         NEW s \in Streams, StreamInv(s), Handed(s)' = Handed(s)
  PROVE  Moved(s) /\ Counted(s)'
<1>1. header_written = TRUE /\ trailer_written = FALSE
  BY UnderWay DEF TypeInv, BosLoops, HeaderLoops
<1>2. TurnOver
  BY TurnPasses DEF TypeInv
<1>3. /\ stage = "theora_bos" => After(stage) = "other_bos"
      /\ stage = "other_bos" => After(stage) = "theora_headers"
      /\ stage = "theora_headers" => After(stage) = "other_headers"
      /\ stage = "other_headers" => After(stage) = "drain_headers"
  BY DEF After, AfterHeaders
<1>4. stage' \in BosLoops \cup HeaderLoops \cup {"drain_headers"}
  BY <1>2, <1>3 DEF TurnOver, BosLoops, HeaderLoops
<1>5. /\ Earlier(s)' = Earlier(s) /\ Later(s)' = Later(s) /\ (s \in Current)' = (s \in Current)
  BY LinkKept
<1>6. Done(s)' <=> Done(s)
  BY <1>1, <1>4, <1>5 DEF Done, ClosingLoops, BosLoops, HeaderLoops
<1>7. Closed(s)' <=> Closed(s)
  BY <1>1, <1>4, <1>5 DEF Closed, BosLoops, HeaderLoops
<1>8. BosDue(s)' => BosDue(s)
  BY <1>1, <1>2, <1>3 DEF BosDue, TurnOver, BosLoops, HeaderLoops
<1>9. Blank(s)' => Blank(s)
  BY <1>5, <1>8, Zenon DEF Blank
<1>10. Section(s)' => Section(s)
  BY <1>5 DEF Section
<1>11. Moved(s)
  BY <1>6, <1>7, <1>9, <1>10, Zenon DEF Moved
<1>12. ~HeadersPassed(s)' /\ s \in Current => ~HeadersPassed(s) /\ (s # Turn \/ extra = 0)
  BY <1>2, <1>3 DEF HeadersPassed, TurnOver, BosLoops, HeaderLoops, ProtocolInv
<1>13. Section(s)' => s \in Current /\ Handed(s) <= Headers[s]
  BY <1>10 DEF StreamInv, Counted, Section
<1>14. Section(s)' /\ ~HeadersPassed(s)' => Handed(s) <= 1 + 0
  <2>1. Section(s)' /\ ~HeadersPassed(s)' => Handed(s) <= 1 + (IF s = Turn THEN extra ELSE 0)
    BY <1>10, <1>12, <1>13, Zenon DEF StreamInv, Counted
  <2>2. Section(s)' /\ ~HeadersPassed(s)' => (IF s = Turn THEN extra ELSE 0) = 0
    BY <1>12, <1>13, Zenon
  <2>3. QED BY <2>1, <2>2, Zenon
<1>15. (IF s = Turn' THEN extra' ELSE 0) = 0
  BY Zenon
<1>16. Counted(s)'
  BY <1>13, <1>14, <1>15, Zenon DEF Counted
<1>17. QED BY <1>11, <1>16

LEMMA PassTurnPages ==
  ASSUME TypeInv, ProtocolInv, StreamsInv, PassTurn
  PROVE  StreamsInv'
<1>1. stage \in BosLoops \cup HeaderLoops /\ step = "none" /\ step' = "none" /\ NextTurn /\ extra' = 0
  BY DEF PassTurn, Inside, BosLoops, HeaderLoops
<1>2. WriteNothing /\ UNCHANGED <<link, header_written, trailer_written, sent>>
  BY Zenon DEF PassTurn, writers, calls, WriteNothing
<1>3. \A s \in Streams : Handed(s)' = Handed(s)
  BY <1>1, <1>2, HandedStays
<1>4. \A s \in Streams : StreamInv(s) => Moved(s) /\ Counted(s)'
  BY <1>1, <1>2, <1>3, HeaderTurnOver
<1>5. QED BY <1>2, <1>4, MovedOn

LEMMA DrainDonePages ==
  ASSUME TypeInv, ProtocolInv, StreamsInv, DrainDone
  PROVE  StreamsInv'
<1>1. /\ stage \in {"drain_headers", "drain_link", "drain"} /\ step = "none" /\ step' = "none"
      /\ stage' = After(stage)
  BY DEF DrainDone, Draining, Inside, NextStage
<1>2. WriteNothing /\ UNCHANGED <<link, header_written, trailer_written, sent>>
  BY Zenon DEF DrainDone, NextStage, writers, calls, WriteNothing
<1>3. header_written = TRUE /\ trailer_written = FALSE
  BY <1>1, UnderWay DEF TypeInv
<1>4. /\ stage = "drain_headers" => stage' \in {"bone", "idle"}
      /\ stage = "drain_link" => stage' = "link"
      /\ stage = "drain" => stage' = "backfill"
  BY <1>1 DEF After
<1>5. \A s \in Current : queue[s] = <<>>
  <2> SUFFICES ASSUME NEW s \in Current PROVE queue[s] = <<>>
    OBVIOUS
  <2>1. PICK i \in 1 .. Len(Order) : s = Order[i]
    BY OrderFacts DEF TypeInv, ControlInv
  <2>2. i \in DOMAIN Order /\ s \in Streams
    BY <2>1, OrderFacts DEF TypeInv, ControlInv
  <2>3. ~(Len(queue[s]) > 0)
    BY <2>1, <2>2 DEF DrainDone, Holding
  <2>4. queue[s] \in Seq(ItemSet)
    BY <2>2 DEF TypeInv, DataInv, QueuesInv
  <2>5. QED BY <2>3, <2>4
<1>6. \A s \in Streams : StreamInv(s) => Moved(s) /\ Counted(s)'
  <2> SUFFICES ASSUME NEW s \in Streams, StreamInv(s) PROVE Moved(s) /\ Counted(s)'
    OBVIOUS
  <2>1. Handed(s)' = Handed(s)
    BY <1>1, <1>2, HandedStays
  <2>2. /\ Earlier(s)' = Earlier(s) /\ Later(s)' = Later(s) /\ (s \in Current)' = (s \in Current)
    BY <1>2, LinkKept
  <2>3. Done(s)' <=> Done(s)
    BY <1>1, <1>2, <1>3, <1>4, <2>2 DEF Done, ClosingLoops
  <2>4. Closed(s)' => Closed(s) \/ queue[s] = <<>>
    BY <1>2, <1>3, <1>5, <2>2 DEF Closed
  <2>5. ~BosDue(s)' /\ ~Section(s)'
    BY <1>1, <1>2, <1>3, <1>4 DEF BosDue, Section, BosLoops, HeaderLoops
  <2>6. Blank(s)' => Blank(s)
    BY <2>2, <2>5, Zenon DEF Blank
  <2>7. Moved(s)
    BY <2>1, <2>3, <2>4, <2>5, <2>6, Zenon DEF Moved
  <2>8. QED BY <2>5, <2>7, CountedOutside
<1>7. QED BY <1>2, <1>6, MovedOn

LEMMA BackfillPages ==
  ASSUME TypeInv, ProtocolInv, StreamsInv, Backfill
  PROVE  StreamsInv'
<1>1. stage = "backfill" /\ step = "none" /\ step' = "none" /\ stage' = "idle" /\ trailer_written'
  BY DEF Backfill, Inside, NextStage, After
<1>2. WriteNothing /\ UNCHANGED <<link, header_written, sent>>
  BY Zenon DEF Backfill, NextStage, writers, WriteNothing
<1>3. header_written = TRUE
  BY <1>1, UnderWay DEF TypeInv
<1>4. \A s \in Streams : StreamInv(s) => Moved(s) /\ Counted(s)'
  <2> SUFFICES ASSUME NEW s \in Streams, StreamInv(s) PROVE Moved(s) /\ Counted(s)'
    OBVIOUS
  <2>1. Handed(s)' = Handed(s)
    BY <1>1, <1>2, HandedStays
  <2>2. /\ Earlier(s)' = Earlier(s) /\ Later(s)' = Later(s) /\ (s \in Current)' = (s \in Current)
    BY <1>2, LinkKept
  <2>3. Placed(s)
    BY Placing DEF TypeInv, ControlInv
  <2>4. Done(s)' /\ (Done(s) \/ Blank(s))
    <3>1. Done(s)'
      BY <1>1 DEF Done
    <3>2. s \in Current => Done(s)
      BY <1>1 DEF Done
    <3>3. Earlier(s) => Done(s)
      BY Zenon DEF Done
    <3>4. Later(s) => Blank(s)
      BY Zenon DEF Blank
    <3>5. QED BY <2>3, <3>1, <3>2, <3>3, <3>4, Zenon DEF Placed
  <2>5. Closed(s) \/ queue[s] = <<>>
    <3>1. s \in Current => Closed(s)
      BY <1>1 DEF Closed
    <3>2. Earlier(s) => Closed(s)
      BY Zenon DEF Closed
    <3>3. Later(s) => queue[s] = <<>>
      <4> SUFFICES ASSUME Later(s) PROVE queue[s] = <<>>
        OBVIOUS
      <4>1. Pages(s) = <<>>
        BY Zenon DEF StreamInv, Unwritten, Blank
      <4>2. QED BY <4>1, EmptyPages DEF TypeInv, DataInv
    <3>4. QED BY <2>3, <3>1, <3>2, <3>3, Zenon DEF Placed
  <2>6. ~BosDue(s)' /\ ~Section(s)'
    BY <1>1, <1>2, <1>3 DEF BosDue, Section, BosLoops, HeaderLoops
  <2>7. Blank(s)' => Blank(s)
    BY <2>2, <2>6, Zenon DEF Blank
  <2>8. Moved(s)
    BY <2>1, <2>4, <2>5, <2>6, <2>7, Zenon DEF Moved
  <2>9. QED BY <2>6, <2>8, CountedOutside
<1>5. QED BY <1>2, <1>4, MovedOn

LEMMA WriteSkeletonPagePages ==
  ASSUME TypeInv, ProtocolInv, StreamsInv, WriteSkeletonPage
  PROVE  StreamsInv'
<1>1. /\ step = "none" /\ step' = "none"
      /\ \/ stage = "fishead" /\ stage' = "theora_bos" /\ NextStage
         \/ stage \in {"bone", "index"} /\ stage' \in {"bone", "index", "skeleton_eos"}
         \/ stage = "skeleton_eos" /\ stage' = "idle"
  BY DEF WriteSkeletonPage, Inside, NextStage, NextTurn, After
<1>2. UNCHANGED <<queue, seq_no, bos_emitted, serial, buffered, link, header_written, trailer_written,
                  sent, extra>>
  BY Zenon DEF WriteSkeletonPage, writers, calls
<1>3. header_written = TRUE /\ trailer_written = FALSE
  BY <1>1, UnderWay DEF TypeInv
<1>4. PICK flags \in PageFlags : wire' = Append(wire, SkeletonPage(flags))
  BY DEF WriteSkeletonPage, PageFlags
<1>5. SkeletonPage(flags) \in PageSet /\ SkeletonPage(flags).stream \notin Streams
  BY SkeletonPageType, MuxAssumption DEF SkeletonPage, TypeInv, DataInv
<1> SUFFICES ASSUME NEW s \in Streams PROVE StreamInv(s)'
  BY DEF StreamsInv
<1>6. StreamInv(s)
  BY DEF StreamsInv
<1>7. Kept(s)
  <2>1. queue'[s] = queue[s] /\ SkeletonPage(flags).stream # s /\ WireInv
    BY <1>2, <1>5 DEF TypeInv, DataInv
  <2>2. Pages(s)' = Pages(s)
    BY <1>4, <1>5, <2>1, PagesStayOnWrite
  <2>3. QED BY <1>2, <2>2, Zenon DEF Kept
<1>8. Handed(s)' = Handed(s)
  BY <1>1, <1>2, HandedStays
<1>9. /\ Earlier(s)' = Earlier(s) /\ Later(s)' = Later(s) /\ (s \in Current)' = (s \in Current)
  BY <1>2, LinkKept
<1>10. Done(s)' <=> Done(s)
  BY <1>1, <1>2, <1>3, <1>9 DEF Done, ClosingLoops
<1>11. Closed(s)' <=> Closed(s)
  BY <1>1, <1>2, <1>3, <1>9 DEF Closed
<1>12. CASE stage = "fishead"
  <2>1. s \in Current => Blank(s)
    BY <1>12 DEF Blank, BosDue
  <2>2. Blank(s)' => Blank(s)
    BY <1>9, <2>1, Zenon DEF Blank
  <2>3. Section(s)' => Blank(s)
    BY <1>9, <2>1, Zenon DEF Section
  <2>4. Moved(s)
    BY <1>8, <1>10, <1>11, <2>2, <2>3, Zenon DEF Moved
  <2>5. Counted(s)'
    <3>1. extra' \in Nat
      BY <1>2 DEF TypeInv, ControlInv
    <3>2. Blank(s) => Counted(s)'
      BY <1>6, <1>8, <3>1, BlankCount DEF StreamInv
    <3>3. QED BY <2>3, <3>2, Zenon DEF Counted
  <2>6. QED BY <1>6, <1>7, <2>4, <2>5, KeptInv
<1>13. CASE stage # "fishead"
  <2>1. ~BosDue(s)' /\ ~Section(s)'
    BY <1>1, <1>2, <1>3, <1>13 DEF BosDue, Section, BosLoops, HeaderLoops
  <2>2. Blank(s)' => Blank(s)
    BY <1>9, <2>1, Zenon DEF Blank
  <2>3. Moved(s)
    BY <1>8, <1>10, <1>11, <2>1, <2>2, Zenon DEF Moved
  <2>4. Counted(s)'
    BY <2>1, CountedOutside
  <2>5. QED BY <1>6, <1>7, <2>3, <2>4, KeptInv
<1>14. QED BY <1>12, <1>13

-----------------------------------------------------------------------------
(* Steps that make or move a page.                                         *)

LEMMA ArmPages ==
  ASSUME TypeInv, ProtocolInv, StreamsInv, Arm
  PROVE  StreamsInv'
<1>1. stage = "arm" /\ step = "none" /\ step' = "none" /\ stage' \in {"arm", "theora_bos", "arm_skeleton", "idle"}
      /\ serial' = [serial EXCEPT ![Turn] = FreeSerial(Index[Turn])]
  BY DEF Arm, Inside, NextTurn, After
<1>2. UNCHANGED <<wire, queue, seq_no, bos_emitted, buffered, link, header_written, trailer_written,
                  sent, extra>>
  BY Zenon DEF Arm
<1>3. trailer_written = FALSE
  BY <1>1 DEF ProtocolInv, TypeInv, FlagsInv
<1> SUFFICES ASSUME NEW s \in Streams PROVE StreamInv(s)'
  BY DEF StreamsInv
<1>4. StreamInv(s) /\ Turn \in Current
  BY TurnType DEF StreamsInv, TypeInv
<1>5. s \in Current => Blank(s)
  BY <1>1 DEF Blank, BosDue
<1>6. Pages(s) # <<>> => serial'[s] = serial[s]
  <2>1. s = Turn => Pages(s) = <<>>
    BY <1>4, <1>5, Zenon DEF StreamInv, Unwritten
  <2>2. s # Turn => serial'[s] = serial[s]
    BY <1>1 DEF TypeInv, SerialsInv
  <2>3. QED BY <2>1, <2>2
<1>7. Kept(s)
  <2>1. Pages(s)' = Pages(s)
    BY <1>2, Zenon DEF Pages, OnWire, Queued
  <2>2. QED BY <1>2, <1>6, <2>1, Zenon DEF Kept
<1>8. Handed(s)' = Handed(s)
  BY <1>1, <1>2, HandedStays
<1>9. /\ Earlier(s)' = Earlier(s) /\ Later(s)' = Later(s) /\ (s \in Current)' = (s \in Current)
  BY <1>2, LinkKept
<1>10. Done(s)' = Done(s) /\ Closed(s)' = Closed(s)
  BY <1>1, <1>2, <1>3, <1>9 DEF Done, Closed, ClosingLoops
<1>11. Blank(s)' => Blank(s)
  BY <1>5, <1>9, Zenon DEF Blank
<1>12. Section(s)' => Blank(s)
  BY <1>5, <1>9, Zenon DEF Section
<1>13. Moved(s)
  BY <1>8, <1>10, <1>11, <1>12, Zenon DEF Moved
<1>14. Counted(s)'
  <2>1. extra' \in Nat
    BY <1>2 DEF TypeInv, ControlInv
  <2>2. Blank(s) => Counted(s)'
    BY <1>4, <1>8, <2>1, BlankCount DEF StreamInv
  <2>3. QED BY <1>12, <2>2, Zenon DEF Counted
<1>15. QED BY <1>4, <1>7, <1>13, <1>14, KeptInv

LEMMA WriteBosPages ==
  ASSUME TypeInv, ProtocolInv, StreamsInv, WriteBos
  PROVE  StreamsInv'
<1>1. /\ step = "none" /\ NextTurn /\ Headers[Turn] > 0
      /\ \/ stage = "theora_bos" /\ Turn \in Theora
         \/ stage = "other_bos" /\ Turn \notin Theora
  BY DEF WriteBos, BosTurn, InPass, Inside
<1>2. UNCHANGED <<extra, step, link, header_written, trailer_written, serial, buffered, queue>>
  BY Zenon DEF WriteBos, calls
<1>3. extra = 0 /\ extra' = 0
  BY <1>1, <1>2, IdleExtra DEF HeaderLoops
<1> SUFFICES ASSUME NEW t \in Streams, t = Turn PROVE StreamsInv'
  BY TurnType DEF TypeInv
<1> DEFINE p == Page(t, {"bos"}, 0, <<Lace(1, 1, 1)>>, 0)
<1>4. /\ wire' = Append(wire, p)
      /\ sent' = [sent EXCEPT ![t] = Append(@, HeaderPacket)]
      /\ seq_no' = [seq_no EXCEPT ![t] = @ + 1] /\ bos_emitted' = [bos_emitted EXCEPT ![t] = TRUE]
  BY DEF WriteBos
<1>5. p \in PageSet
  <2>1. <<Lace(1, 1, 1)>> \in SegsSet
    <3>1. Lace(1, 1, 1) \in LaceSet
      BY DEF Lace, LaceSet
    <3>2. <<Lace(1, 1, 1)>> \in Seq(LaceSet) /\ Len(<<Lace(1, 1, 1)>>) = 1
      BY <3>1
    <3>3. QED BY <3>2, MuxAssumption DEF SegsSet
  <2>2. {"bos"} \in PageFlags /\ 0 \in Granules
    BY DEF PageFlags, Granules
  <2>3. QED BY <2>1, <2>2, PageType DEF TypeInv, DataInv
<1>6. /\ p.stream = t /\ p.seq = seq_no[t] /\ p.serial = serial[t] /\ p.flags = {"bos"}
      /\ p.segs # <<>> /\ p.segs[1].pkt = 1
  BY DEF Page, Lace
<1> HIDE DEF p
<1>7. WireInv /\ QueuesInv
  BY DEF TypeInv, DataInv
<1> SUFFICES ASSUME NEW s \in Streams PROVE StreamInv(s)'
  BY DEF StreamsInv
<1>8. StreamInv(s)
  BY DEF StreamsInv
<1>9. CASE s # t
  <2>1. Pages(s)' = Pages(s)
    BY <1>2, <1>4, <1>5, <1>6, <1>7, <1>9, PagesStayOnWrite
  <2>2. seq_no'[s] = seq_no[s] /\ bos_emitted'[s] = bos_emitted[s] /\ sent'[s] = sent[s]
    BY <1>4, <1>9 DEF TypeInv, DataInv, NumbersInv, BosInv, SentInv
  <2>3. Kept(s)
    BY <1>2, <2>1, <2>2, Zenon DEF Kept
  <2>4. Handed(s)' = Handed(s)
    BY <1>1, <1>2, <2>2 DEF Handed
  <2>5. Moved(s) /\ Counted(s)'
    BY <1>1, <1>2, <1>3, <1>8, <2>4, HeaderTurnOver DEF BosLoops
  <2>6. QED BY <1>8, <2>3, <2>5, KeptInv
<1>10. CASE s = t
  <2>1. TurnOver /\ Turn \in Current /\ header_written = TRUE /\ trailer_written = FALSE
    BY <1>1, <1>2, TurnPasses, TurnType, UnderWay DEF TypeInv
  <2>2. Blank(s)
    BY <1>1, <1>10, <2>1 DEF Blank, BosDue, TurnOver
  <2>3. /\ Pages(s) = <<>> /\ buffered[s].segs = <<>> /\ Handed(s) = 0
        /\ seq_no[s] = Len(Pages(s)) /\ Nil(s)
    BY <1>8, <2>2 DEF StreamInv, Unwritten, Numbered
  <2>4. queue[s] = <<>>
    BY <1>7, <2>3, EmptyPages
  <2>5. Pages(s)' = Append(Pages(s), p)
    BY <1>2, <1>4, <1>5, <1>6, <1>7, <1>10, <2>4, PagesWritten
  <2>6. /\ Len(Pages(s)') = 1 /\ Pages(s)'[1] = p /\ Pages(s)' # <<>>
    <3>1. Pages(s)' = <<p>>
      BY <2>3, <2>5
    <3>2. QED BY <3>1
  <2>7. seq_no[s] = 0 /\ seq_no'[s] = 1 /\ bos_emitted'[s] = TRUE
    <3>1. seq_no[s] = 0
      BY <2>3
    <3>2. QED BY <1>4, <1>10, <3>1 DEF TypeInv, DataInv, NumbersInv, BosInv
  <2>8. /\ Earlier(s)' = Earlier(s) /\ Later(s)' = Later(s) /\ (s \in Current)' = (s \in Current)
    BY <1>2, LinkKept
  <2>9. Placed(s) /\ s \in Current
    BY <1>10, <2>1, Placing DEF TypeInv, ControlInv
  <2>10. stage' \in {"theora_bos", "other_bos", "theora_headers"}
    BY <1>1 DEF NextTurn, After
  <2>11. ~Done(s)' /\ ~Closed(s)'
    BY <1>2, <2>1, <2>8, <2>9, <2>10 DEF Placed, Done, Closed, ClosingLoops
  <2>12. ~Blank(s)'
    <3>1. ~BosDue(s)'
      BY <1>1, <1>2, <1>10, <2>1 DEF BosDue, TurnOver, After
    <3>2. QED BY <2>8, <2>9, <3>1 DEF Placed, Blank
  <2>13. Numbered(s)'
    BY <1>2, <1>6, <1>10, <2>6, <2>7 DEF Numbered
  <2>14. Ending(s)'
    BY <1>6, <2>6, <2>11 DEF Ending
  <2>15. Nil(s)'
    <3>1. IsHeader(p)
      BY <1>5, <1>6, HeaderRange DEF IsHeader
    <3>2. HeaderPages(s)'
      BY <2>6, <3>1 DEF HeaderPages
    <3>3. buffered'[s].segs = <<>>
      BY <1>2, <2>3
    <3>4. \A i \in 1 .. Len(Pages(s)') : Pages(s)'[i].segs # <<>>
      BY <1>6, <2>6
    <3>5. QED BY <3>2, <3>3, <3>4, Zenon DEF Nil
  <2>16. Unwritten(s)'
    BY <2>12, Zenon DEF Unwritten
  <2>17. Counted(s)'
    <3>1. Handed(s) = Len(sent[s]) /\ sent[s] \in Seq(Packet)
      BY <1>1 DEF Handed, TypeInv, DataInv, SentInv
    <3>2. sent'[s] = Append(sent[s], HeaderPacket)
      BY <1>4, <1>10 DEF TypeInv, DataInv, SentInv
    <3>3. Handed(s)' = 1
      <4>1. Len(sent'[s]) = 1
        BY <2>3, <3>1, <3>2
      <4>2. Handed(s)' = Len(sent'[s]) + 0
        BY <1>1, <1>2, Zenon DEF Handed
      <4>3. QED BY <4>1, <4>2
    <3>4. Headers[s] \in Nat /\ Headers[s] > 0
      BY <1>1, <1>10, HeaderRange
    <3>5. (IF s = Turn' THEN extra' ELSE 0) = 0
      BY <1>3, Zenon
    <3>6. QED BY <3>3, <3>4, <3>5 DEF Counted
  <2>18. QED BY <2>13, <2>14, <2>15, <2>16, <2>17, Zenon DEF StreamInv
<1>11. QED BY <1>9, <1>10

\* One more page at the end.
OneMore(x, y, p) ==
  /\ Len(x) \in Nat /\ Len(y) = Len(x) + 1 /\ y # <<>> /\ y[Len(x) + 1] = p
  /\ x = <<>> <=> Len(x) = 0
  /\ \A i \in 1 .. Len(x) : y[i] = x[i]
  /\ \A i \in 1 .. Len(y) : i \in 1 .. Len(x) \/ i = Len(x) + 1

LEMMA Appended ==
  ASSUME NEW x \in Seq(PageSet), NEW p \in PageSet
  PROVE  OneMore(x, Append(x, p), p)
<1> DEFINE y == Append(x, p)
<1>1. y \in Seq(PageSet) /\ Len(x) \in Nat /\ Len(y) = Len(x) + 1 /\ y[Len(x) + 1] = p
      /\ \A i \in 1 .. Len(x) : y[i] = x[i]
  BY AppendProperties
<1> HIDE DEF y
<1>2. y # <<>>
  BY <1>1
<1>3. \A i \in 1 .. Len(y) : i \in 1 .. Len(x) \/ i = Len(x) + 1
  BY <1>1
<1>4. x = <<>> <=> Len(x) = 0
  BY EmptySeq
<1>5. QED BY <1>1, <1>2, <1>3, <1>4 DEF OneMore, y

LEMMA NumberedOn ==
  ASSUME NEW s \in Streams, Numbered(s), NEW p, OneMore(Pages(s), Pages(s)', p),
         p.stream = s, p.seq = seq_no[s], p.serial = serial[s],
         "bos" \in p.flags <=> ~bos_emitted[s],
         seq_no'[s] = seq_no[s] + 1, bos_emitted'[s] = TRUE, serial'[s] = serial[s]
  PROVE  Numbered(s)'
<1> DEFINE x == Pages(s)
           y == Pages(s)'
<1>1. /\ Len(x) \in Nat /\ Len(y) = Len(x) + 1 /\ y # <<>> /\ y[Len(x) + 1] = p
      /\ x = <<>> <=> Len(x) = 0
      /\ \A i \in 1 .. Len(x) : y[i] = x[i]
      /\ \A i \in 1 .. Len(y) : i \in 1 .. Len(x) \/ i = Len(x) + 1
  BY DEF OneMore
<1>2. /\ seq_no[s] = Len(x)
      /\ bos_emitted[s] <=> x # <<>>
      /\ \A i \in 1 .. Len(x) :
           /\ x[i].stream = s /\ x[i].seq = i - 1 /\ x[i].serial = serial[s]
           /\ "bos" \in x[i].flags <=> i = 1
  BY Zenon DEF Numbered
<1>3. Numbered(s)' <=>
        /\ seq_no'[s] = Len(y)
        /\ bos_emitted'[s] <=> y # <<>>
        /\ \A i \in 1 .. Len(y) :
             /\ y[i].stream = s /\ y[i].seq = i - 1 /\ y[i].serial = serial'[s]
             /\ "bos" \in y[i].flags <=> i = 1
  BY Zenon DEF Numbered
<1> HIDE DEF x, y
<1>4. \A i \in 1 .. Len(y) :
        /\ y[i].stream = s /\ y[i].seq = i - 1 /\ y[i].serial = serial'[s]
        /\ "bos" \in y[i].flags <=> i = 1
  <2> SUFFICES ASSUME NEW i \in 1 .. Len(y)
               PROVE  /\ y[i].stream = s /\ y[i].seq = i - 1 /\ y[i].serial = serial'[s]
                      /\ "bos" \in y[i].flags <=> i = 1
    OBVIOUS
  <2>1. CASE i \in 1 .. Len(x)
    BY <1>1, <1>2, <2>1
  <2>2. CASE i = Len(x) + 1
    <3>1. "bos" \in p.flags <=> i = 1
      BY <1>1, <1>2, <2>2
    <3>2. p.seq = i - 1
      BY <1>1, <1>2, <2>2
    <3>3. y[i] = p
      BY <1>1, <2>2
    <3>4. QED BY <3>1, <3>2, <3>3
  <2>3. QED BY <1>1, <2>1, <2>2
<1>5. QED BY <1>1, <1>2, <1>3, <1>4

LEMMA FlushPagePages ==
  ASSUME TypeInv, ProtocolInv, StreamsInv, FlushPage
  PROVE  StreamsInv'
<1> SUFFICES ASSUME NEW t \in Streams, t = writing.s PROVE StreamsInv'
  BY AtWork
<1> DEFINE b     == buffered[t]
           c     == PageTime(t, b.granule)
           time  == IF c > newest_time[t] THEN c ELSE newest_time[t]
           flags == (IF b.cont THEN {"cont"} ELSE {}) \cup (IF bos_emitted[t] THEN {} ELSE {"bos"})
           p     == Page(t, flags, b.granule, b.segs, time)
           item  == [page |-> p, kf |-> b.kf]
<1>1. step = "flush" /\ step' = "release"
  BY DEF FlushPage, Doing, GoTo
<1>2. PlaceKept /\ UNCHANGED <<wire, serial, extra, sent>>
  BY Zenon DEF FlushPage, GoTo, calls, PlaceKept
<1>3. /\ queue' = [queue EXCEPT ![t] = Append(@, item)]
      /\ buffered' = [buffered EXCEPT ![t] = NextBuilder(b)]
      /\ seq_no' = [seq_no EXCEPT ![t] = @ + 1]
      /\ bos_emitted' = [bos_emitted EXCEPT ![t] = TRUE]
  BY DEF FlushPage
<1>4. /\ b \in BuilderSet /\ b.segs # <<>> /\ newest_time[t] \in Nat
      /\ b.granule \in Granules /\ b.kf \in Granules /\ b.segs \in SegsSet
  BY <1>1, AtWork DEF TypeInv, WritingInv, DataInv, ClocksInv, BuilderSet
<1>5. item \in ItemSet /\ p \in PageSet
  <2>1. time \in Nat
    BY <1>4, PageTimeType
  <2>2. flags \in PageFlags
    BY DEF PageFlags
  <2> HIDE DEF time, flags
  <2>3. p \in PageSet
    BY <1>4, <2>1, <2>2, PageType DEF TypeInv, DataInv
  <2>4. QED BY <1>4, <2>3 DEF ItemSet
<1>6. /\ p.stream = t /\ p.seq = seq_no[t] /\ p.serial = serial[t] /\ p.segs = b.segs
      /\ "eos" \notin p.flags /\ ("bos" \in p.flags <=> ~bos_emitted[t])
  BY DEF Page
<1>7. NextBuilder(b).segs = <<>>
  BY DEF NextBuilder, EmptyBuilder
<1>8. item.page = p
  OBVIOUS
<1> HIDE DEF item, p, b
<1>9. WireInv /\ QueuesInv /\ queue \in [Streams -> Seq(ItemSet)] /\ seq_no \in [Streams -> Nat]
      /\ bos_emitted \in [Streams -> BOOLEAN] /\ buffered \in [Streams -> BuilderSet]
  BY DEF TypeInv, DataInv, QueuesInv, NumbersInv, BosInv, BuffersInv
<1>10. \A s \in Streams : Handed(s)' = Handed(s)
  BY <1>1, <1>2, HandedStays
<1> SUFFICES ASSUME NEW s \in Streams PROVE StreamInv(s)'
  BY DEF StreamsInv
<1>11. StreamInv(s) /\ Counted(s)'
  BY <1>2, <1>10, CountStays DEF StreamsInv, StreamInv
<1>12. CASE s # t
  <2>1. /\ queue'[s] = queue[s] /\ seq_no'[s] = seq_no[s] /\ bos_emitted'[s] = bos_emitted[s]
        /\ buffered'[s] = buffered[s]
    BY <1>3, <1>9, <1>12
  <2>2. Pages(s)' = Pages(s)
    BY <1>2, <2>1, PagesStay
  <2>3. Kept(s)
    BY <1>2, <2>1, <2>2, Zenon DEF Kept
  <2>4. QED BY <1>2, <1>10, <1>11, <2>3, KeptInPlace
<1>13. CASE s = t
  <2>1. /\ queue'[s] = Append(queue[s], item) /\ seq_no'[s] = seq_no[s] + 1
        /\ bos_emitted'[s] = TRUE /\ buffered'[s].segs = <<>>
    BY <1>3, <1>7, <1>9, <1>13
  <2>2. Pages(s)' = Append(Pages(s), p)
    BY <1>2, <1>5, <1>8, <1>9, <2>1, PagesQueued
  <2>3. OneMore(Pages(s), Pages(s)', p)
    <3>1. Pages(s) \in Seq(PageSet)
      BY <1>9, PagesType
    <3>2. QED BY <1>5, <2>2, <3>1, Appended
  <2>4. ~Blank(s) /\ ~Done(s) /\ ~Closed(s)
    BY <1>1, <1>13, AtWorkOn
  <2>5. /\ Done(s)' = Done(s) /\ Closed(s)' = Closed(s) /\ Blank(s)' = Blank(s)
        /\ Section(s)' = Section(s)
    BY <1>2, PlaceStays
  <2>6. Numbered(s)'
    <3>1. Numbered(s) /\ serial'[s] = serial[s]
      BY <1>2, <1>11, Zenon DEF StreamInv
    <3>2. QED BY <1>6, <1>13, <2>1, <2>3, <3>1, NumberedOn
  <2>7. \A i \in 1 .. Len(Pages(s)) : "eos" \notin Pages(s)[i].flags
    BY <1>11, <2>4, Zenon DEF StreamInv, Ending
  <2>8. Ending(s)'
    <3>1. \A i \in 1 .. Len(Pages(s)') : "eos" \notin Pages(s)'[i].flags
      BY <1>6, <2>3, <2>7 DEF OneMore
    <3>2. QED BY <2>4, <2>5, <3>1, Zenon DEF Ending
  <2>9. Nil(s)'
    <3>1. Nil(s)
      BY <1>11, Zenon DEF StreamInv
    <3>2. \A i \in 1 .. Len(Pages(s)) : Pages(s)[i].segs # <<>>
      BY <2>7, <3>1, Zenon DEF Nil
    <3>3. \A i \in 1 .. Len(Pages(s)') : Pages(s)'[i].segs # <<>>
      BY <1>4, <1>6, <2>3, <3>2 DEF OneMore
    <3>4. queue'[s] # <<>>
      <4>1. queue[s] \in Seq(ItemSet)
        BY <1>9
      <4>2. QED BY <1>5, <2>1, <4>1, AppendProperties
    <3>5. Section(s) => HeaderPages(s)'
      <4> SUFFICES ASSUME Section(s) PROVE HeaderPages(s)'
        OBVIOUS
      <4>1. HeaderPages(s) /\ b.segs[1].pkt <= HeaderCount(s)
        BY <1>4, <1>13, <3>1 DEF Nil, b
      <4>2. IsHeader(p)
        BY <1>4, <1>6, <1>13, <4>1, MuxAssumption DEF IsHeader
      <4>3. QED BY <2>3, <4>1, <4>2 DEF OneMore, HeaderPages
    <3>6. QED BY <2>1, <2>5, <3>3, <3>4, <3>5, Zenon DEF Nil
  <2>10. Unwritten(s)'
    BY <2>4, <2>5, Zenon DEF Unwritten
  <2>11. QED BY <1>11, <2>6, <2>8, <2>9, <2>10, Zenon DEF StreamInv
<1>14. QED BY <1>12, <1>13

\* The oldest queued page of t let out.
LEMMA LetOut ==
  ASSUME TypeInv, StreamsInv, NEW t \in Streams, queue[t] # <<>>, WritePending(t),
         UNCHANGED <<control, calls, serial, seq_no, buffered, bos_emitted, sent>>,
         Tail(queue[t]) = <<>> => Done(t) \/ Section(t)
  PROVE  StreamsInv'
<1> DEFINE p == Head(queue[t]).page
<1>1. wire' = Append(wire, p) /\ queue' = [queue EXCEPT ![t] = Tail(@)]
  BY DEF WritePending
<1>2. PlaceKept /\ UNCHANGED <<extra, step, writing, serial, seq_no, buffered, bos_emitted, sent>>
  BY Zenon DEF control, calls, PlaceKept
<1>3. WireInv /\ QueuesInv /\ queue \in [Streams -> Seq(ItemSet)]
  BY DEF TypeInv, DataInv, QueuesInv
<1>4. /\ queue[t] \in Seq(ItemSet) /\ Head(queue[t]) \in ItemSet /\ p \in PageSet
      /\ 1 \in 1 .. Len(queue[t]) /\ p = queue[t][1].page
  <2>1. queue[t] \in Seq(ItemSet) /\ Head(queue[t]) \in ItemSet /\ Head(queue[t]) = queue[t][1]
        /\ Len(queue[t]) \in Nat \ {0}
    BY <1>3
  <2>2. QED BY <2>1 DEF ItemSet
<1>5. p.stream = t
  <2>1. PICK j \in 1 .. Len(Pages(t)) : Pages(t)[j] = queue[t][1].page
    BY <1>3, <1>4, QueuedPage
  <2>2. Numbered(t)
    BY DEF StreamsInv, StreamInv
  <2>3. QED BY <1>4, <2>1, <2>2 DEF Numbered
<1>6. \A s \in Streams : Handed(s)' = Handed(s)
  BY <1>2, Zenon DEF Handed
<1> SUFFICES ASSUME NEW s \in Streams PROVE StreamInv(s)'
  BY DEF StreamsInv
<1>7. StreamInv(s) /\ Counted(s)'
  BY <1>2, <1>6, CountStays DEF StreamsInv, StreamInv
<1>8. CASE s # t
  <2>1. queue'[s] = queue[s]
    BY <1>1, <1>3, <1>8
  <2>2. Pages(s)' = Pages(s)
    <3>1. p.stream # s
      BY <1>5, <1>8
    <3> HIDE DEF p
    <3>2. QED BY <1>1, <1>3, <1>4, <2>1, <3>1, PagesStayOnWrite
  <2>3. Kept(s)
    BY <1>2, <2>1, <2>2, Zenon DEF Kept
  <2>4. QED BY <1>2, <1>6, <1>7, <2>3, KeptInPlace
<1>9. CASE s = t
  <2>1. queue'[s] = Tail(queue[s]) /\ queue[s] # <<>>
    BY <1>1, <1>3, <1>9
  <2>2. Pages(s)' = Pages(s)
    BY <1>1, <1>3, <1>5, <1>9, <2>1, PagesLetOut
  <2>3. /\ Done(s)' = Done(s) /\ Closed(s)' = Closed(s) /\ Blank(s)' = Blank(s)
        /\ Section(s)' = Section(s)
    BY <1>2, PlaceStays
  <2>4. /\ seq_no'[s] = seq_no[s] /\ bos_emitted'[s] = bos_emitted[s] /\ serial'[s] = serial[s]
        /\ buffered'[s] = buffered[s]
    BY <1>2
  <2>5. Numbered(s)'
    BY <1>7, <2>2, <2>4, Zenon DEF StreamInv, Numbered
  <2>6. Ending(s)'
    <3>1. Ending(s) /\ ~Closed(s)
      BY <1>7, <2>1, Zenon DEF StreamInv, Ending
    <3>2. QED BY <2>2, <2>3, <2>4, <3>1, Zenon DEF Ending
  <2>7. Nil(s)'
    <3>1. Nil(s) /\ (HeaderPages(s)' <=> HeaderPages(s))
      BY <1>7, <2>2, Zenon DEF StreamInv, HeaderPages
    <3>2. queue'[s] = <<>> /\ ~Done(s) => HeaderPages(s)
      BY <1>9, <2>1, <3>1, Zenon DEF Nil
    <3>3. QED BY <2>2, <2>3, <2>4, <3>1, <3>2, Zenon DEF Nil
  <2>8. Unwritten(s)'
    BY <1>6, <1>7, <2>2, <2>3, <2>4, Zenon DEF StreamInv, Unwritten
  <2>9. QED BY <1>7, <2>5, <2>6, <2>7, <2>8, Zenon DEF StreamInv
<1>10. QED BY <1>8, <1>9

LEMMA ReleasePagePages ==
  ASSUME TypeInv, StreamsInv, ReleasePage
  PROVE  StreamsInv'
<1> SUFFICES ASSUME NEW t \in Streams, t = Order[Earliest(1)], Len(queue[t]) > 1, queue[t] # <<>>
             PROVE  StreamsInv'
  <2>1. Holding(1) # {}
    BY DEF ReleasePage, Releasable
  <2>2. QED BY <2>1, EarliestStream DEF TypeInv, DataInv
<1>1. WritePending(t)
  BY Zenon DEF ReleasePage
<1>2. UNCHANGED <<control, calls, serial, seq_no, buffered, bos_emitted, sent>>
  BY Zenon DEF ReleasePage
<1>3. Tail(queue[t]) # <<>>
  <2>1. queue[t] \in Seq(ItemSet)
    BY DEF TypeInv, DataInv, QueuesInv
  <2>2. Len(Tail(queue[t])) = Len(queue[t]) - 1 /\ Len(queue[t]) \in Nat
    BY <2>1, HeadTailProperties
  <2> DEFINE rest == Tail(queue[t])
  <2>3. Len(rest) > 0
    BY <2>2
  <2> HIDE DEF rest
  <2>4. rest # <<>>
    BY <2>3
  <2>5. QED BY <2>4 DEF rest
<1>4. QED BY <1>1, <1>2, <1>3, LetOut

LEMMA DrainPagePages ==
  ASSUME TypeInv, StreamsInv, DrainPage
  PROVE  StreamsInv'
<1> SUFFICES ASSUME NEW t \in Streams, t = Order[Earliest(0)], t \in Current, queue[t] # <<>>
             PROVE  StreamsInv'
  <2>1. Holding(0) # {}
    BY DEF DrainPage
  <2>2. QED BY <2>1, EarliestStream DEF TypeInv, DataInv
<1>1. WritePending(t)
  BY Zenon DEF DrainPage
<1>2. UNCHANGED <<control, calls, serial, seq_no, buffered, bos_emitted, sent>>
  BY Zenon DEF DrainPage
<1>3. Done(t) \/ Section(t)
  <2>1. stage \in {"drain_headers", "drain_link", "drain"}
    BY DEF DrainPage, Draining, Inside
  <2>2. QED BY <2>1 DEF Done, Section
<1>4. QED BY <1>1, <1>2, <1>3, LetOut

\* The newest page, rewritten.
Rewritten(x, y, p) ==
  /\ Len(x) \in Nat \ {0} /\ Len(y) = Len(x) /\ x # <<>> /\ y # <<>> /\ y[Len(x)] = p
  /\ \A i \in 1 .. Len(x) : i # Len(x) => y[i] = x[i]

LEMMA Replaced ==
  ASSUME NEW x \in Seq(PageSet), NEW p \in PageSet, x # <<>>
  PROVE  Rewritten(x, [x EXCEPT ![Len(x)] = p], p)
<1> DEFINE y == [x EXCEPT ![Len(x)] = p]
<1>1. Len(x) \in Nat \ {0}
  BY EmptySeq
<1>2. /\ y \in Seq(PageSet) /\ Len(y) = Len(x) /\ y[Len(x)] = p
      /\ \A i \in 1 .. Len(x) : i # Len(x) => y[i] = x[i]
  BY <1>1
<1> HIDE DEF y
<1>3. y # <<>>
  BY <1>1, <1>2
<1>4. QED BY <1>1, <1>2, <1>3 DEF Rewritten, y

\* The same page but for its EOS flag.
SamePlace(p, q) ==
  /\ p.stream = q.stream /\ p.seq = q.seq /\ p.serial = q.serial /\ p.segs = q.segs
  /\ "bos" \in p.flags <=> "bos" \in q.flags

LEMMA CloseStreamPages ==
  ASSUME TypeInv, ProtocolInv, StreamsInv, CloseStream
  PROVE  StreamsInv'
<1> SUFFICES ASSUME NEW t \in Streams, t = Turn, t \in Current PROVE StreamsInv'
  BY TurnType DEF TypeInv
<1>1. /\ stage \in ClosingLoops /\ step = "none" /\ NextTurn /\ buffered[t].segs = <<>>
  BY DEF CloseStream, Closing, Inside, ClosingLoops
<1>2. UNCHANGED <<extra, step, writing, link, header_written, trailer_written, serial, buffered,
                  bos_emitted, sent, wire>>
  BY Zenon DEF CloseStream, calls
<1>3. TurnOver /\ header_written = TRUE /\ trailer_written = FALSE
  BY <1>1, <1>2, TurnPasses, UnderWay DEF TypeInv, ClosingLoops
<1>4. /\ stage = "close_link" => After(stage) = "drain_link"
      /\ stage = "close" => After(stage) = "drain"
  BY DEF After, AfterClose
<1>5. stage' \in ClosingLoops \cup {"drain_link", "drain"}
  BY <1>1, <1>3, <1>4 DEF TurnOver, ClosingLoops
<1>6. WireInv /\ QueuesInv /\ queue \in [Streams -> Seq(ItemSet)] /\ seq_no \in [Streams -> Nat]
      /\ bos_emitted \in [Streams -> BOOLEAN] /\ newest_time[t] \in Nat /\ last_granule[t] \in Nat
  BY DEF TypeInv, DataInv, QueuesInv, NumbersInv, BosInv, ClocksInv
<1> SUFFICES ASSUME NEW s \in Streams PROVE StreamInv(s)'
  BY DEF StreamsInv
<1>7. StreamInv(s)
  BY DEF StreamsInv
<1>8. Handed(s)' = Handed(s)
  BY <1>2, Zenon DEF Handed
<1>9. /\ Earlier(s)' = Earlier(s) /\ Later(s)' = Later(s) /\ (s \in Current)' = (s \in Current)
  BY <1>2, LinkKept
<1>10. ~BosDue(s)' /\ ~Section(s)'
  BY <1>2, <1>3, <1>5 DEF BosDue, Section, ClosingLoops, BosLoops, HeaderLoops
<1>11. Blank(s)' => Blank(s)
  BY <1>9, <1>10, Zenon DEF Blank
<1>12. Closed(s)' <=> Closed(s)
  BY <1>1, <1>2, <1>3, <1>5, <1>9 DEF Closed, ClosingLoops
<1>13. Counted(s)'
  BY <1>10, CountedOutside
<1>14. Placed(s)
  BY Placing DEF TypeInv, ControlInv
<1>15. CASE s # t
  <2>1. queue'[s] = queue[s] /\ seq_no'[s] = seq_no[s]
    BY <1>6, <1>15 DEF CloseStream
  <2>2. Pages(s)' = Pages(s)
    BY <1>2, <2>1, PagesStay
  <2>3. Kept(s)
    BY <1>2, <2>1, <2>2, Zenon DEF Kept
  <2>4. Done(s)' <=> Done(s)
    BY <1>1, <1>2, <1>3, <1>4, <1>9, <1>15 DEF Done, TurnOver, ClosingLoops
  <2>5. Moved(s)
    BY <1>8, <1>10, <1>11, <1>12, <2>4, Zenon DEF Moved
  <2>6. QED BY <1>7, <1>13, <2>3, <2>5, KeptInv
<1>16. CASE s = t
  <2>1. ~Done(s) /\ Done(s)'
    <3>1. ~Done(s)
      BY <1>1, <1>3, <1>14, <1>16 DEF Done, TurnOver, ClosingLoops, Placed
    <3>2. Done(s)'
      BY <1>1, <1>3, <1>4, <1>9, <1>16 DEF Done, TurnOver, ClosingLoops
    <3>3. QED BY <3>1, <3>2
  <2>2. ~Closed(s)'
    BY <1>1, <1>3, <1>12, <1>14, <1>16 DEF Closed, ClosingLoops, Placed
  <2>3. ~Blank(s)'
    BY <1>9, <1>10, <1>14, <1>16 DEF Placed, Blank
  <2>4. buffered'[s].segs = <<>> /\ serial'[s] = serial[s] /\ bos_emitted'[s] = bos_emitted[s]
    BY <1>1, <1>2, <1>16
  <2>5. \A i \in 1 .. Len(Pages(s)) : "eos" \notin Pages(s)[i].flags
    BY <1>7, <2>1, Zenon DEF StreamInv, Ending
  <2>6. \A i \in 1 .. Len(Pages(s)) : Pages(s)[i].segs # <<>>
    BY <1>7, <2>5, Zenon DEF StreamInv, Nil
  <2>7. Unwritten(s)'
    BY <2>3, Zenon DEF Unwritten
  <2>8. Pages(s) \in Seq(PageSet) /\ queue[s] \in Seq(ItemSet)
    BY <1>6, PagesType
  <2>9. CASE Len(queue[s]) > 0
    <3> DEFINE n == Len(queue[s])
               old == queue[s][n].page
               p == [old EXCEPT !.flags = @ \cup {"eos"}]
               item == [queue[s][n] EXCEPT !.page = p]
    <3>1. queue' = [queue EXCEPT ![s][n].page.flags = @ \cup {"eos"}] /\ UNCHANGED seq_no
      BY <1>16, <2>9 DEF CloseStream
    <3>2. n \in 1 .. n /\ queue[s][n] \in ItemSet /\ old \in PageSet /\ queue[s] # <<>>
      <4>1. n \in 1 .. n /\ queue[s][n] \in ItemSet /\ queue[s] # <<>>
        BY <2>8, <2>9
      <4>2. QED BY <4>1 DEF ItemSet
    <3>3. /\ p.stream = old.stream /\ p.seq = old.seq /\ p.serial = old.serial /\ p.segs = old.segs
          /\ p.flags = old.flags \cup {"eos"} /\ p \in PageSet
      BY <3>2 DEF PageSet, PageFlags
    <3>4. item \in ItemSet /\ item.page = p
      BY <3>2, <3>3 DEF ItemSet
    <3>5. queue'[s] = [queue[s] EXCEPT ![n] = item]
      BY <1>6, <3>1
    <3> HIDE DEF item, p
    <3>6. /\ Pages(s) # <<>> /\ Pages(s)[Len(Pages(s))] = old
          /\ Pages(s)' = [Pages(s) EXCEPT ![Len(Pages(s))] = p]
      BY <1>2, <1>6, <3>2, <3>4, <3>5, PagesClosed
    <3>7. Rewritten(Pages(s), Pages(s)', p)
      BY <2>8, <3>3, <3>6, Replaced
    <3>8. /\ \A i \in 1 .. Len(Pages(s)) : SamePlace(Pages(s)'[i], Pages(s)[i])
          /\ \A i \in 1 .. Len(Pages(s)) : "eos" \in Pages(s)'[i].flags <=> i = Len(Pages(s))
      <4> DEFINE x == Pages(s)
                 y == Pages(s)'
      <4>1. /\ Len(x) \in Nat \ {0} /\ y[Len(x)] = p /\ x[Len(x)] = old
            /\ \A i \in 1 .. Len(x) : i # Len(x) => y[i] = x[i]
        BY <3>6, <3>7 DEF Rewritten
      <4>2. SamePlace(p, old) /\ "eos" \in p.flags
        BY <3>3 DEF SamePlace
      <4>3. \A i \in 1 .. Len(x) : "eos" \notin x[i].flags
        BY <2>5
      <4> HIDE DEF x, y
      <4>4. \A i \in 1 .. Len(x) : SamePlace(y[i], x[i])
        <5> SUFFICES ASSUME NEW i \in 1 .. Len(x) PROVE SamePlace(y[i], x[i])
          OBVIOUS
        <5>1. CASE i = Len(x)
          BY <4>1, <4>2, <5>1
        <5>2. CASE i # Len(x)
          <6>1. y[i] = x[i]
            BY <4>1, <5>2
          <6>2. QED BY <6>1 DEF SamePlace
        <5>3. QED BY <5>1, <5>2
      <4>5. \A i \in 1 .. Len(x) : "eos" \in y[i].flags <=> i = Len(x)
        BY <4>1, <4>2, <4>3
      <4>6. QED BY <4>4, <4>5 DEF x, y
    <3>9. Len(Pages(s)') = Len(Pages(s)) /\ Pages(s)' # <<>> /\ Len(Pages(s)) \in 1 .. Len(Pages(s))
      BY <3>7 DEF Rewritten
    <3>10. Numbered(s)'
      <4>1. Numbered(s) /\ seq_no'[s] = seq_no[s]
        BY <1>7, <3>1, Zenon DEF StreamInv
      <4>2. \A i \in 1 .. Len(Pages(s)) :
              /\ Pages(s)'[i].stream = s /\ Pages(s)'[i].seq = i - 1
              /\ Pages(s)'[i].serial = serial'[s] /\ ("bos" \in Pages(s)'[i].flags <=> i = 1)
        BY <2>4, <3>8, <4>1 DEF Numbered, SamePlace
      <4>3. bos_emitted'[s] <=> Pages(s)' # <<>>
        BY <2>4, <3>6, <3>9, <4>1, Zenon DEF Numbered
      <4>4. seq_no'[s] = Len(Pages(s)')
        BY <3>9, <4>1, Zenon DEF Numbered
      <4>5. QED BY <3>9, <4>2, <4>3, <4>4, Zenon DEF Numbered
    <3>11. Ending(s)'
      BY <2>1, <2>2, <2>4, <3>8, <3>9 DEF Ending
    <3>12. Nil(s)'
      <4>1. \A i \in 1 .. Len(Pages(s)') : Pages(s)'[i].segs # <<>>
        BY <2>6, <3>8, <3>9 DEF SamePlace
      <4>2. QED BY <1>10, <2>1, <4>1, Zenon DEF Nil
    <3>13. QED BY <1>13, <2>7, <3>10, <3>11, <3>12, Zenon DEF StreamInv
  <2>10. CASE Len(queue[s]) = 0 /\ bos_emitted[s]
    <3> DEFINE p == Page(s, {"eos"}, last_granule[s], <<>>, newest_time[s])
               item == [kf |-> NoPts, page |-> p]
    <3>1. queue' = [queue EXCEPT ![s] = <<item>>] /\ seq_no' = [seq_no EXCEPT ![s] = @ + 1]
      BY <1>16, <2>10 DEF CloseStream
    <3>2. p \in PageSet
      <4>1. {"eos"} \in PageFlags /\ <<>> \in SegsSet /\ last_granule[s] \in Granules
            /\ newest_time[s] \in Nat
        BY <1>6, <1>16, MuxAssumption DEF PageFlags, SegsSet, Granules
      <4>2. QED BY <4>1, PageType DEF TypeInv, DataInv
    <3>3. /\ p.stream = s /\ p.seq = seq_no[s] /\ p.serial = serial[s] /\ p.segs = <<>>
          /\ p.flags = {"eos"}
      BY DEF Page
    <3>4. item \in ItemSet /\ item.page = p
      BY <3>2 DEF ItemSet, Granules
    <3> HIDE DEF p, item
    <3>5. queue[s] = <<>>
      BY <2>8, <2>10
    <3>6. queue'[s] = Append(queue[s], item) /\ seq_no'[s] = seq_no[s] + 1
      <4>1. queue'[s] = <<item>>
        BY <1>6, <3>1
      <4>2. Append(<<>>, item) = <<item>>
        OBVIOUS
      <4>3. QED BY <1>6, <3>1, <3>5, <4>1, <4>2
    <3>7. Pages(s)' = Append(Pages(s), p)
      BY <1>2, <1>6, <3>4, <3>6, PagesQueued
    <3>8. OneMore(Pages(s), Pages(s)', p)
      BY <2>8, <3>2, <3>7, Appended
    <3>9. Numbered(s)'
      <4>1. Numbered(s) /\ bos_emitted'[s] = TRUE /\ ("bos" \in p.flags <=> ~bos_emitted[s])
        BY <1>6, <1>7, <2>4, <2>10, <3>3 DEF StreamInv
      <4>2. QED BY <2>4, <3>3, <3>6, <3>8, <4>1, NumberedOn
    <3>10. Ending(s)'
      <4>1. \A i \in 1 .. Len(Pages(s)') : "eos" \in Pages(s)'[i].flags => i = Len(Pages(s)')
        BY <2>5, <3>8 DEF OneMore
      <4>2. "eos" \in Pages(s)'[Len(Pages(s)')].flags
        BY <3>3, <3>8 DEF OneMore
      <4>3. QED BY <2>1, <2>2, <2>4, <4>1, <4>2, Zenon DEF Ending
    <3>11. Nil(s)'
      <4>1. HeaderPages(s)
        BY <1>7, <2>1, <3>5, Zenon DEF StreamInv, Nil
      <4>2. \A i \in 1 .. Len(Pages(s)') :
              Pages(s)'[i].segs = <<>> =>
                "eos" \in Pages(s)'[i].flags /\ \A j \in 1 .. i - 1 : IsHeader(Pages(s)'[j])
        <5> SUFFICES ASSUME NEW i \in 1 .. Len(Pages(s)'), Pages(s)'[i].segs = <<>>
                     PROVE  "eos" \in Pages(s)'[i].flags /\ \A j \in 1 .. i - 1 : IsHeader(Pages(s)'[j])
          OBVIOUS
        <5>1. i = Len(Pages(s)) + 1
          BY <2>6, <3>8 DEF OneMore
        <5>2. \A j \in 1 .. i - 1 : Pages(s)'[j] = Pages(s)[j] /\ j \in 1 .. Len(Pages(s))
          BY <3>8, <5>1 DEF OneMore
        <5>3. \A j \in 1 .. i - 1 : IsHeader(Pages(s)'[j])
          BY <4>1, <5>2, Zenon DEF HeaderPages
        <5>4. QED BY <3>3, <3>8, <5>1, <5>3 DEF OneMore
      <4>3. QED BY <1>10, <2>1, <4>2, Zenon DEF Nil
    <3>12. QED BY <1>13, <2>7, <3>9, <3>10, <3>11, Zenon DEF StreamInv
  <2>11. CASE Len(queue[s]) = 0 /\ ~bos_emitted[s]
    <3>1. queue'[s] = queue[s] /\ seq_no'[s] = seq_no[s]
      BY <1>16, <2>11 DEF CloseStream
    <3>2. Pages(s)' = Pages(s)
      BY <1>2, <3>1, PagesStay
    <3>3. Numbered(s)'
      BY <1>7, <2>4, <3>1, <3>2, Zenon DEF StreamInv, Numbered
    <3>4. Pages(s) = <<>>
      BY <1>7, <2>11 DEF StreamInv, Numbered
    <3>5. 1 .. Len(Pages(s)) = {}
      BY <3>4
    <3>6. Ending(s)'
      BY <2>1, <2>2, <2>4, <3>2, <3>4, <3>5, Zenon DEF Ending
    <3>7. Nil(s)'
      BY <1>10, <2>1, <3>2, <3>5, Zenon DEF Nil
    <3>8. QED BY <1>13, <2>7, <3>3, <3>6, <3>7, Zenon DEF StreamInv
  <2>12. QED BY <2>8, <2>9, <2>10, <2>11
<1>17. QED BY <1>15, <1>16

-----------------------------------------------------------------------------
(* The invariant holds.                                                    *)

LEMMA InitPages == Init => PagesInv
<1> SUFFICES ASSUME Init PROVE PagesInv
  OBVIOUS
<1>1. WireInv /\ QueuesInv /\ ProtocolInv /\ ApartInv
  BY InitType, ProtocolInit, ApartInit DEF TypeInv, DataInv
<1> SUFFICES ASSUME NEW s \in Streams PROVE StreamInv(s)
  BY <1>1 DEF PagesInv
<1>2. /\ wire = <<>> /\ queue[s] = <<>> /\ seq_no[s] = 0 /\ bos_emitted[s] = FALSE
      /\ buffered[s].segs = <<>> /\ sent[s] = <<>> /\ step = "none" /\ stage = "arm"
  BY DEF Init, EmptyBuilder
<1>3. Pages(s) = <<>>
  <2> DEFINE parts == [i \in DOMAIN wire |-> IF wire[i].stream = s THEN <<wire[i]>> ELSE <<>>]
  <2>1. OnWire(s) = FlattenSeq(parts)
    BY Zenon DEF OnWire
  <2>2. parts = <<>>
    BY <1>2
  <2>3. FlattenSeq(<<>>) = <<>>
    <3>1. Len(<<>>) = 0
      OBVIOUS
    <3>2. QED BY <3>1, Zenon DEF FlattenSeq
  <2>4. OnWire(s) = <<>>
    BY <2>1, <2>2, <2>3, Zenon
  <2>5. Queued(s) = <<>>
    BY <1>2 DEF Queued
  <2>6. QED BY <2>4, <2>5 DEF Pages
<1>4. 1 .. Len(Pages(s)) = {} /\ Len(Pages(s)) = 0
  BY <1>3
<1>5. Handed(s) = 0
  BY <1>2 DEF Handed
<1>6. ~Section(s)
  BY <1>2 DEF Section, BosLoops, HeaderLoops
<1>7. Numbered(s)
  BY <1>2, <1>3, <1>4, Zenon DEF Numbered
<1>8. Ending(s)
  BY <1>2, <1>3, <1>4, Zenon DEF Ending
<1>9. Nil(s)
  BY <1>4, <1>6, Zenon DEF Nil, HeaderPages
<1>10. Unwritten(s)
  BY <1>2, <1>3, <1>5, Zenon DEF Unwritten
<1>11. Counted(s)
  BY <1>6, Zenon DEF Counted
<1>12. QED BY <1>7, <1>8, <1>9, <1>10, <1>11, Zenon DEF StreamInv

LEMMA StepPages ==
  ASSUME Protocol, TypeInv, PagesInv, [Next]_vars
  PROVE  PagesInv'
<1>1. ProtocolInv /\ ApartInv /\ StreamsInv
  BY Zenon DEF PagesInv, StreamsInv
<1>2. ProtocolInv'
  BY <1>1, ProtocolStep
<1>3. ApartInv'
  BY <1>1, ApartStep
<1>4. StreamsInv'
  <2>1. CASE WriteHeader
    BY <1>1, <2>1, WriteHeaderPages
  <2>2. CASE BeginNewLink
    <3>1. header_written /\ ~trailer_written
      BY <2>2 DEF BeginNewLink
    <3>2. QED BY <1>1, <2>2, <3>1, ClosingPages
  <2>3. CASE WriteTrailer
    <3>1. header_written /\ ~trailer_written
      BY <2>3 DEF WriteTrailer, Protocol
    <3>2. QED BY <1>1, <2>3, <3>1, ClosingPages
  <2>4. CASE \E t \in Targets \cup {NoTarget} : SetPageTarget(t)
    BY <1>1, <2>4, SetPageTargetPages
  <2>5. CASE \E s \in Streams : \E p \in Packets[s] : WritePacket(s, p)
    BY <1>1, <2>5, WritePacketPages
  <2>6. CASE Arm
    BY <1>1, <2>6, ArmPages
  <2>7. CASE ArmSkeleton
    BY <1>1, <2>7, ArmSkeletonPages
  <2>8. CASE NextLink
    BY <1>1, <2>8, NextLinkPages
  <2>9. CASE WriteBos
    BY <1>1, <2>9, WriteBosPages
  <2>10. CASE WriteSecondary
    BY <1>1, <2>10, WriteSecondaryPages
  <2>11. CASE PassTurn
    BY <1>1, <2>11, PassTurnPages
  <2>12. CASE WriteSkeletonPage
    BY <1>1, <2>12, WriteSkeletonPagePages
  <2>13. CASE BeginPacket
    BY <1>1, <2>13, BeginPacketPages
  <2>14. CASE PutLaces
    BY <1>1, <2>14, PutLacesPages
  <2>15. CASE StampHeader
    BY <1>1, <2>15, StampHeaderPages
  <2>16. CASE StampContent
    BY <1>1, <2>16, StampContentPages
  <2>17. CASE StampTheora
    BY <1>1, <2>17, StampTheoraPages
  <2>18. CASE FlushPage
    BY <1>1, <2>18, FlushPagePages
  <2>19. CASE ReleasePage
    BY <1>1, <2>19, ReleasePagePages
  <2>20. CASE ReleaseDone
    BY <1>1, <2>20, ReleaseDonePages
  <2>21. CASE DrainPage
    BY <1>1, <2>21, DrainPagePages
  <2>22. CASE DrainDone
    BY <1>1, <2>22, DrainDonePages
  <2>23. CASE CloseFlush
    BY <1>1, <2>23, CloseFlushPages
  <2>24. CASE CloseStream
    BY <1>1, <2>24, CloseStreamPages
  <2>25. CASE Backfill
    BY <1>1, <2>25, BackfillPages
  <2>26. CASE UNCHANGED vars
    <3>1. PlaceKept /\ UNCHANGED <<wire, queue, seq_no, bos_emitted, serial, extra, buffered>>
      BY <2>26, Zenon DEF vars, control, calls, writers, PlaceKept
    <3>2. \A s \in Streams : Handed(s)' = Handed(s)
      BY <2>26, Zenon DEF vars, control, Handed
    <3>3. QED BY <1>1, <3>1, <3>2, StayedInPlace, Zenon
  <2>27. QED
    BY <2>1, <2>2, <2>3, <2>4, <2>5, <2>6, <2>7, <2>8, <2>9, <2>10, <2>11, <2>12, <2>13, <2>14,
       <2>15, <2>16, <2>17, <2>18, <2>19, <2>20, <2>21, <2>22, <2>23, <2>24, <2>25, <2>26, Zenon
    DEF Next, Calls, Steps, Terminated
<1>5. QED BY <1>2, <1>3, <1>4, Zenon DEF PagesInv, StreamsInv

\* The link of a stream, and whether it is over.
LEMMA EndedPlaced ==
  ASSUME link \in DOMAIN Links, NEW s \in Streams
  PROVE  LinkOf(s) < link <=> Earlier(s)
<1>1. PICK k \in DOMAIN Links : s \in ToSet(Links[k])
  BY DEF Streams
<1>2. \A m \in DOMAIN Links : s \in ToSet(Links[m]) => m = k
  BY <1>1, MuxAssumption
<1>3. LinkOf(s) \in DOMAIN Links /\ s \in ToSet(Links[LinkOf(s)])
  BY <1>1, Zenon DEF LinkOf
<1>4. LinkOf(s) = k
  BY <1>2, <1>3
<1>5. Earlier(s) <=> k < link
  BY <1>1, <1>2, Zenon DEF Earlier
<1>6. QED BY <1>4, <1>5

LEMMA PagesImply ==
  ASSUME TypeInv, PagesInv
  PROVE  StreamPages
<1> SUFFICES ASSUME NEW s \in Streams
    PROVE LET pages == Pages(s) IN
    /\ \A i \in DOMAIN pages :
         LET p == pages[i]
         IN /\ p.seq = i - 1
            /\ "bos" \in p.flags <=> i = 1
            /\ "eos" \in p.flags => i = Len(pages)
            /\ p.serial = serial[s]
            /\ p.segs = <<>> => "eos" \in p.flags /\ \A j \in 1 .. i - 1 : IsHeader(pages[j])
    /\ Idle /\ pages # <<>> => ("eos" \in Last(pages).flags <=> Ended(s))
    /\ Ended(s) => queue[s] = <<>> /\ buffered[s].segs = <<>>
    /\ \A r \in Streams : r # s /\ serial[r] # NoSerial => serial[r] # serial[s]
    /\ skel_serial # NoSerial => skel_serial # serial[s]
  BY Zenon DEF StreamPages
<1>1. StreamInv(s) /\ ApartInv /\ ProtocolInv
  BY DEF PagesInv
<1>2. Pages(s) \in Seq(PageSet)
  BY PagesType DEF TypeInv, DataInv
<1> DEFINE x == Pages(s)
<1>3. DOMAIN x = 1 .. Len(x) /\ Len(x) \in Nat
  BY <1>2
<1>4. \A i \in 1 .. Len(x) :
         /\ x[i].seq = i - 1 /\ x[i].serial = serial[s]
         /\ "bos" \in x[i].flags <=> i = 1
  BY <1>1, Zenon DEF StreamInv, Numbered
<1>5. /\ \A i \in 1 .. Len(x) : "eos" \in x[i].flags => i = Len(x) /\ Done(s)
      /\ Done(s) => /\ buffered[s].segs = <<>>
                    /\ x # <<>> => "eos" \in x[Len(x)].flags
      /\ Closed(s) => queue[s] = <<>>
  BY <1>1, Zenon DEF StreamInv, Ending
<1>6. \A i \in 1 .. Len(x) :
          x[i].segs = <<>> => "eos" \in x[i].flags /\ \A j \in 1 .. i - 1 : IsHeader(x[j])
  BY <1>1, Zenon DEF StreamInv, Nil
<1>7. Ended(s) <=> trailer_written \/ Earlier(s)
  BY EndedPlaced DEF Ended, TypeInv, ControlInv
<1>8. Ended(s) => Done(s) /\ Closed(s)
  BY <1>7, Zenon DEF Done, Closed
<1>9. Idle /\ Done(s) => Ended(s)
  BY <1>7 DEF Idle, Done, ClosingLoops
<1>10. Idle /\ x # <<>> => ("eos" \in Last(x).flags <=> Ended(s))
  <2> SUFFICES ASSUME Idle, x # <<>> PROVE "eos" \in Last(x).flags <=> Ended(s)
    OBVIOUS
  <2>1. Len(x) \in 1 .. Len(x)
    <3> HIDE DEF x
    <3>1. QED BY <1>2, <1>3, EmptySeq DEF x
  <2>2. Last(x) = x[Len(x)]
    BY Zenon DEF Last
  <2>3. QED BY <1>5, <1>8, <1>9, <2>1, <2>2, Zenon
<1>11. \A r \in Streams : r # s /\ serial[r] # NoSerial => serial[r] # serial[s]
  BY <1>1 DEF ApartInv
<1>12. skel_serial # NoSerial => skel_serial # serial[s]
  BY <1>1 DEF ApartInv
<1> HIDE DEF x
<1>13. QED BY <1>3, <1>4, <1>5, <1>6, <1>8, <1>10, <1>11, <1>12, Zenon DEF x

\* The page headers of every stream are right (mux.rs: write_header,
\* flush_page, append_packet_spanning, finalize_current_link), for a caller
\* who follows the API and leaves the Skeleton's serial to the muxer.
THEOREM PagesCorrect == Protocol /\ Spec => []StreamPages
<1>1. Protocol /\ Init => TypeInv /\ PagesInv
  BY InitType, InitPages
<1>2. Protocol /\ TypeInv /\ PagesInv /\ [Next]_vars => TypeInv' /\ PagesInv'
  BY TypeStep, StepPages
<1>3. TypeInv /\ PagesInv => StreamPages
  BY PagesImply
<1>4. Protocol => []Protocol
  OBVIOUS
<1>5. QED BY <1>1, <1>2, <1>3, <1>4, PTL DEF Spec

-----------------------------------------------------------------------------
(* Chains of laces.                                                        *)

\* After the lace l the one due is the n-th of the packet pkt.
Due(l, pkt, n) == IF l.open THEN pkt = l.pkt /\ n = l.n + 1 ELSE pkt = l.pkt + 1 /\ n = 1

\* Laces in order, after which the n-th of the packet pkt is due.
Chain(laces, pkt, n) ==
  /\ laces = <<>> => pkt = 1 /\ n = 1
  /\ laces # <<>> => laces[1].pkt = 1 /\ laces[1].n = 1 /\ Due(laces[Len(laces)], pkt, n)
  /\ \A i \in 1 .. Len(laces) : laces[i].n > 0
  /\ \A i \in 1 .. Len(laces) - 1 : Due(laces[i], laces[i + 1].pkt, laces[i + 1].n)

\* The laces on a sequence of pages, and whether the last leaves a packet open.
LacesOn(pages) == FlattenSeq([i \in DOMAIN pages |-> pages[i].segs])
Open(p) == p.segs # <<>> /\ Last(p.segs).open
LeftOpen(pages) == pages # <<>> /\ Open(pages[Len(pages)])
Continued(pages) ==
  \A i \in 1 .. Len(pages) : "cont" \in pages[i].flags <=> i > 1 /\ Open(pages[i - 1])

-----------------------------------------------------------------------------
(* The invariant.                                                          *)

\* Between two laces of the packet handed over last, or after its last.
Midway(s) == writing.s = s /\ step \in {"put", "flush", "release"} /\ LacesLeft > 0
DuePacket(s) == IF Midway(s) THEN Len(sent[s]) ELSE Len(sent[s]) + 1
DueLace(s) == IF Midway(s) THEN writing.from + 1 ELSE 1

InOrder(pages, b, pkt, n) ==
  /\ Chain(LacesOn(pages) \o b.segs, pkt, n)
  /\ Continued(pages)
  /\ b.cont <=> LeftOpen(pages)
  /\ b.cont /\ b.segs = <<>> => n # 1
StreamKept(s) ==
  /\ InOrder(Pages(s), buffered[s], DuePacket(s), DueLace(s))
  /\ Blank(s) => Pages(s) = <<>> /\ buffered[s].segs = <<>> /\ ~bos_emitted[s]
  /\ \A i \in 1 .. Len(queue[s]) : queue[s][i].page.stream = s

WriterInv ==
  /\ step = "packet" => writing.from = 0
  /\ step = "stamp" => LacesLeft = 0
  /\ ~header_written =>
       /\ step = "none" /\ link = 1
       /\ stage \in {"idle", "arm", "arm_skeleton", "close", "drain", "backfill"}
StreamsKept == \A s \in Streams : StreamKept(s)
PacketsInv == WriterInv /\ StreamsKept

-----------------------------------------------------------------------------
(* Facts about chains.                                                     *)

LEMMA LacesOnType ==
  ASSUME NEW x \in Seq(PageSet)
  PROVE  LacesOn(x) \in Seq(LaceSet)
<1> DEFINE parts == [i \in DOMAIN x |-> x[i].segs]
<1>1. \A i \in 1 .. Len(x) : x[i] \in PageSet
  OBVIOUS
<1>2. \A p \in PageSet : p.segs \in Seq(LaceSet)
  BY DEF PageSet, SegsSet
<1>3. DOMAIN x = 1 .. Len(x) /\ Len(x) \in Nat
  OBVIOUS
<1>4. parts \in Seq(Seq(LaceSet))
  BY <1>1, <1>2, <1>3
<1> HIDE DEF parts
<1>5. FlattenSeq(parts) \in Seq(LaceSet)
  BY <1>4, FlattenType
<1>6. QED BY <1>5, Zenon DEF LacesOn, parts

LEMMA LacesOnMore ==
  ASSUME NEW x \in Seq(PageSet), NEW p \in PageSet
  PROVE  LacesOn(Append(x, p)) = LacesOn(x) \o p.segs
<1> DEFINE y == Append(x, p)
           parts == [i \in DOMAIN x |-> x[i].segs]
           more == [i \in DOMAIN y |-> y[i].segs]
<1>1. \A i \in 1 .. Len(x) : x[i] \in PageSet
  OBVIOUS
<1>2. \A q \in PageSet : q.segs \in Seq(LaceSet)
  BY DEF PageSet, SegsSet
<1>3. DOMAIN x = 1 .. Len(x) /\ Len(x) \in Nat /\ DOMAIN y = 1 .. Len(x) + 1
  OBVIOUS
<1>4. parts \in Seq(Seq(LaceSet)) /\ p.segs \in Seq(LaceSet)
  BY <1>1, <1>2, <1>3
<1>5. (\A i \in 1 .. Len(x) : y[i] = x[i]) /\ y[Len(x) + 1] = p
  OBVIOUS
<1> HIDE DEF y
<1>6. more = Append(parts, p.segs)
  <2> DEFINE Part(q) == q.segs
  <2>1. \A i \in 1 .. Len(x) : Part(y[i]) = Part(x[i])
    BY <1>5
  <2>2. Part(y[Len(x) + 1]) = p.segs
    BY <1>5
  <2>3. QED BY <1>3, <2>1, <2>2
<1> HIDE DEF parts, more
<1>7. FlattenSeq(more) = FlattenSeq(parts) \o p.segs
  BY <1>4, <1>6, FlattenAppend
<1>8. LacesOn(x) = FlattenSeq(parts) /\ LacesOn(y) = FlattenSeq(more)
  BY Zenon DEF LacesOn, parts, more
<1>9. QED BY <1>7, <1>8 DEF y

\* Rewriting a page's flags leaves the laces.
LEMMA LacesOnRewritten ==
  ASSUME NEW x \in Seq(PageSet), NEW y \in Seq(PageSet), Len(y) = Len(x),
         \A i \in 1 .. Len(x) : y[i].segs = x[i].segs
  PROVE  LacesOn(y) = LacesOn(x)
<1>1. DOMAIN x = 1 .. Len(x) /\ DOMAIN y = 1 .. Len(x)
  OBVIOUS
<1>2. [i \in DOMAIN y |-> y[i].segs] = [i \in DOMAIN x |-> x[i].segs]
  BY <1>1
<1>3. QED BY <1>2, Zenon DEF LacesOn

\* One page more.
LEMMA ContinuedOn ==
  ASSUME NEW x \in Seq(PageSet), NEW p \in PageSet, Continued(x),
         "cont" \in p.flags <=> LeftOpen(x)
  PROVE  Continued(Append(x, p)) /\ (LeftOpen(Append(x, p)) <=> Open(p))
<1> DEFINE y == Append(x, p)
<1>1. OneMore(x, y, p)
  BY Appended
<1> HIDE DEF y
<1>2. LeftOpen(y) <=> Open(p)
  BY <1>1 DEF OneMore, LeftOpen
<1>3. ASSUME NEW i \in 1 .. Len(y)
      PROVE  "cont" \in y[i].flags <=> i > 1 /\ Open(y[i - 1])
  <2>1. CASE i = Len(x) + 1
    <3>1. y[i] = p /\ (x = <<>> <=> ~(i > 1)) /\ (i > 1 => y[i - 1] = x[Len(x)])
      BY <1>1, <2>1 DEF OneMore
    <3>2. LeftOpen(x) <=> i > 1 /\ Open(y[i - 1])
      BY <3>1 DEF LeftOpen
    <3>3. QED BY <3>1, <3>2
  <2>2. CASE i \in 1 .. Len(x)
    <3>1. y[i] = x[i] /\ (i > 1 => y[i - 1] = x[i - 1])
      BY <1>1, <2>2 DEF OneMore
    <3>2. "cont" \in x[i].flags <=> i > 1 /\ Open(x[i - 1])
      BY <2>2 DEF Continued
    <3>3. QED BY <3>1, <3>2
  <2>3. QED BY <1>1, <2>1, <2>2 DEF OneMore
<1>4. QED BY <1>2, <1>3 DEF Continued, y

LEMMA ContinuedRewritten ==
  ASSUME NEW x \in Seq(PageSet), NEW y \in Seq(PageSet), Len(y) = Len(x),
         \A i \in 1 .. Len(x) :
           y[i].segs = x[i].segs /\ ("cont" \in y[i].flags <=> "cont" \in x[i].flags)
  PROVE  (Continued(y) <=> Continued(x)) /\ (LeftOpen(y) <=> LeftOpen(x))
<1>1. \A i \in 1 .. Len(x) : Open(y[i]) <=> Open(x[i])
  BY DEF Open
<1>2. Continued(y) <=> Continued(x)
  <2>1. \A i \in 1 .. Len(x) : i > 1 => i - 1 \in 1 .. Len(x)
    OBVIOUS
  <2>2. QED BY <1>1, <2>1 DEF Continued
<1>3. LeftOpen(y) <=> LeftOpen(x)
  <2>1. x # <<>> <=> y # <<>>
    OBVIOUS
  <2>2. x # <<>> => Len(x) \in 1 .. Len(x)
    OBVIOUS
  <2>3. QED BY <1>1, <2>1, <2>2 DEF LeftOpen
<1>4. QED BY <1>2, <1>3

\* One lace more, the one that is due.
LEMMA ChainMore ==
  ASSUME NEW x \in Seq(LaceSet), NEW l \in LaceSet, NEW pkt, NEW n,
         Chain(x, l.pkt, l.n), l.n > 0, Due(l, pkt, n)
  PROVE  Chain(Append(x, l), pkt, n)
<1> DEFINE y == Append(x, l)
<1>1. /\ Len(x) \in Nat /\ Len(y) = Len(x) + 1 /\ y # <<>> /\ y[Len(x) + 1] = l
      /\ x = <<>> <=> Len(x) = 0
      /\ \A i \in 1 .. Len(x) : y[i] = x[i]
  OBVIOUS
<1> HIDE DEF y
<1>2. y[1].pkt = 1 /\ y[1].n = 1
  <2>1. CASE x = <<>>
    <3>1. l.pkt = 1 /\ l.n = 1 /\ y[1] = l
      BY <1>1, <2>1 DEF Chain
    <3>2. QED BY <3>1
  <2>2. CASE x # <<>>
    <3>1. x[1].pkt = 1 /\ x[1].n = 1 /\ y[1] = x[1]
      BY <1>1, <2>2 DEF Chain
    <3>2. QED BY <3>1
  <2>3. QED BY <2>1, <2>2
<1>3. \A i \in 1 .. Len(y) : y[i].n > 0
  <2> SUFFICES ASSUME NEW i \in 1 .. Len(y) PROVE y[i].n > 0
    OBVIOUS
  <2>1. CASE i \in 1 .. Len(x)
    BY <1>1, <2>1 DEF Chain
  <2>2. CASE i = Len(x) + 1
    BY <1>1, <2>2
  <2>3. QED BY <1>1, <2>1, <2>2
<1>4. \A i \in 1 .. Len(y) - 1 : Due(y[i], y[i + 1].pkt, y[i + 1].n)
  <2> SUFFICES ASSUME NEW i \in 1 .. Len(y) - 1 PROVE Due(y[i], y[i + 1].pkt, y[i + 1].n)
    OBVIOUS
  <2>1. CASE i \in 1 .. Len(x) - 1
    <3>1. y[i] = x[i] /\ y[i + 1] = x[i + 1]
      BY <1>1, <2>1
    <3>2. Due(x[i], x[i + 1].pkt, x[i + 1].n)
      BY <2>1 DEF Chain
    <3>3. QED BY <3>1, <3>2
  <2>2. CASE i = Len(x)
    <3>1. y[i] = x[Len(x)] /\ y[i + 1] = l /\ x # <<>>
      BY <1>1, <2>2
    <3>2. Due(x[Len(x)], l.pkt, l.n)
      BY <3>1 DEF Chain
    <3>3. QED BY <3>1, <3>2
  <2>3. QED BY <1>1, <2>1, <2>2
<1>5. Due(y[Len(y)], pkt, n)
  BY <1>1
<1>6. QED BY <1>1, <1>2, <1>3, <1>4, <1>5, Zenon DEF Chain, y

LEMMA LacesJoined ==
  ASSUME NEW x \in Seq(LaceSet), NEW y \in Seq(LaceSet), NEW z \in Seq(LaceSet)
  PROVE  (x \o y) \o z = x \o (y \o z)
BY ConcatAssociative

\* A run of laces more, whose first is the one due.
LEMMA ChainJoin ==
  ASSUME NEW x \in Seq(LaceSet), NEW y \in Seq(LaceSet), y # <<>>, NEW pkt, NEW n,
         Chain(x, y[1].pkt, y[1].n), Due(y[Len(y)], pkt, n),
         \A i \in 1 .. Len(y) : y[i].n > 0,
         \A i \in 1 .. Len(y) - 1 : Due(y[i], y[i + 1].pkt, y[i + 1].n)
  PROVE  Chain(x \o y, pkt, n)
<1> DEFINE z == x \o y
<1>1. Len(x) \in Nat /\ Len(y) \in Nat \ {0} /\ (x = <<>> <=> Len(x) = 0)
  BY EmptySeq
<1>2. Len(z) = Len(x) + Len(y)
  OBVIOUS
<1>3. \A i \in 1 .. Len(x) : z[i] = x[i]
  OBVIOUS
<1>4. \A i \in 1 .. Len(y) : z[Len(x) + i] = y[i]
  <2> SUFFICES ASSUME NEW i \in 1 .. Len(y) PROVE z[Len(x) + i] = y[i]
    OBVIOUS
  <2>1. Len(x) + i \in 1 .. Len(x) + Len(y) /\ ~(Len(x) + i <= Len(x)) /\ Len(x) + i - Len(x) = i
    BY <1>1
  <2>2. \A j \in 1 .. Len(x) + Len(y) : z[j] = IF j <= Len(x) THEN x[j] ELSE y[j - Len(x)]
    OBVIOUS
  <2> HIDE DEF z
  <2>3. QED BY <2>1, <2>2
<1>5. z \in Seq(LaceSet)
  OBVIOUS
<1> HIDE DEF z
<1>6. \A i \in 1 .. Len(z) :
        \/ i \in 1 .. Len(x)
        \/ i - Len(x) \in 1 .. Len(y) /\ z[i] = y[i - Len(x)]
  <2> SUFFICES ASSUME NEW i \in 1 .. Len(z), i \notin 1 .. Len(x)
               PROVE  i - Len(x) \in 1 .. Len(y) /\ z[i] = y[i - Len(x)]
    OBVIOUS
  <2>1. i - Len(x) \in 1 .. Len(y) /\ Len(x) + (i - Len(x)) = i
    BY <1>1, <1>2
  <2>2. QED BY <1>4, <2>1
<1>7. z # <<>> /\ z[1].pkt = 1 /\ z[1].n = 1
  <2>1. CASE x = <<>>
    <3>1. y[1].pkt = 1 /\ y[1].n = 1 /\ z[Len(x) + 1] = y[1] /\ Len(x) + 1 = 1
      BY <1>1, <1>4, <2>1 DEF Chain
    <3>2. Len(z) # 0
      BY <1>1, <1>2
    <3>3. QED BY <1>5, <3>1, <3>2, EmptySeq
  <2>2. CASE x # <<>>
    <3>1. x[1].pkt = 1 /\ x[1].n = 1 /\ z[1] = x[1] /\ Len(z) # 0
      BY <1>1, <1>2, <1>3, <2>2 DEF Chain
    <3>2. QED BY <1>5, <3>1, EmptySeq
  <2>3. QED BY <2>1, <2>2
<1>8. \A i \in 1 .. Len(z) : z[i].n > 0
  <2> SUFFICES ASSUME NEW i \in 1 .. Len(z) PROVE z[i].n > 0
    OBVIOUS
  <2>1. CASE i \in 1 .. Len(x)
    BY <1>3, <2>1 DEF Chain
  <2>2. CASE i - Len(x) \in 1 .. Len(y) /\ z[i] = y[i - Len(x)]
    BY <2>2
  <2>3. QED BY <1>6, <2>1, <2>2
<1>9. \A i \in 1 .. Len(z) - 1 : Due(z[i], z[i + 1].pkt, z[i + 1].n)
  <2> SUFFICES ASSUME NEW i \in 1 .. Len(z) - 1 PROVE Due(z[i], z[i + 1].pkt, z[i + 1].n)
    OBVIOUS
  <2>1. CASE i \in 1 .. Len(x) - 1
    <3>1. z[i] = x[i] /\ z[i + 1] = x[i + 1]
      BY <1>1, <1>3, <2>1
    <3>2. Due(x[i], x[i + 1].pkt, x[i + 1].n)
      BY <2>1 DEF Chain
    <3>3. QED BY <3>1, <3>2
  <2>2. CASE i = Len(x)
    <3>1. z[i] = x[Len(x)] /\ z[i + 1] = y[1] /\ x # <<>>
      BY <1>1, <1>3, <1>4, <2>2
    <3>2. Due(x[Len(x)], y[1].pkt, y[1].n)
      BY <3>1 DEF Chain
    <3>3. QED BY <3>1, <3>2
  <2>3. CASE i > Len(x)
    <3> DEFINE j == i - Len(x)
    <3>1. j \in 1 .. Len(y) - 1 /\ Len(x) + j = i /\ Len(x) + (j + 1) = i + 1
          /\ j \in 1 .. Len(y) /\ j + 1 \in 1 .. Len(y)
      BY <1>1, <1>2, <2>3
    <3> HIDE DEF j
    <3>2. z[i] = y[j] /\ z[i + 1] = y[j + 1]
      BY <1>4, <3>1
    <3>3. QED BY <3>1, <3>2
  <2>4. QED BY <1>1, <1>2, <2>1, <2>2, <2>3
<1>10. Due(z[Len(z)], pkt, n)
  BY <1>1, <1>2, <1>4
<1>11. QED BY <1>7, <1>8, <1>9, <1>10, Zenon DEF Chain, z

\* The laces write_packet puts down at once.
LEMMA ChainPut ==
  ASSUME NEW x \in Seq(LaceSet), NEW P \in Nat, NEW from \in Nat, NEW L \in Nat,
         NEW take \in Nat, from + take <= L, from < L, Chain(x, P, from + 1)
  PROVE  LET laces == [i \in 1 .. take |-> Lace(P, from + i, L)]
         IN IF from + take < L THEN Chain(x \o laces, P, from + take + 1)
            ELSE Chain(x \o laces, P + 1, 1)
<1> DEFINE y == [i \in 1 .. take |-> Lace(P, from + i, L)]
<1>1. \A i \in 1 .. take :
        /\ Lace(P, from + i, L) \in LaceSet /\ Lace(P, from + i, L).pkt = P
        /\ Lace(P, from + i, L).n = from + i
        /\ Lace(P, from + i, L).open <=> from + i < L
  <2> SUFFICES ASSUME NEW i \in 1 .. take
               PROVE  /\ Lace(P, from + i, L) \in LaceSet /\ Lace(P, from + i, L).pkt = P
                      /\ Lace(P, from + i, L).n = from + i
                      /\ Lace(P, from + i, L).open <=> from + i < L
    OBVIOUS
  <2> DEFINE m == from + i
             o == m < L
  <2>1. m \in Nat /\ o \in BOOLEAN
    OBVIOUS
  <2> HIDE DEF m, o
  <2>2. [pkt |-> P, n |-> m, open |-> o] \in LaceSet
    BY <2>1 DEF LaceSet
  <2>3. Lace(P, m, L) = [pkt |-> P, n |-> m, open |-> o]
    BY Zenon DEF Lace, o
  <2>4. Lace(P, m, L).pkt = P /\ Lace(P, m, L).n = m /\ Lace(P, m, L).open = o
    BY <2>3
  <2>5. QED BY <2>2, <2>3, <2>4, Zenon DEF m, o
<1>2. y \in Seq(LaceSet) /\ Len(y) = take
  BY <1>1
<1>3. \A i \in 1 .. take : y[i].pkt = P /\ y[i].n = from + i /\ (y[i].open <=> from + i < L)
  BY <1>1
<1> HIDE DEF y
<1>4. CASE take = 0
  <2>1. y = <<>> /\ x \o y = x /\ from + take < L /\ from + take + 1 = from + 1
    BY <1>2, <1>4, EmptySeq
  <2>2. QED BY <2>1 DEF y
<1>5. CASE take > 0
  <2>1. y # <<>> /\ y[1].pkt = P /\ y[1].n = from + 1
    BY <1>2, <1>3, <1>5
  <2>2. \A i \in 1 .. Len(y) : y[i].n > 0
    BY <1>2, <1>3
  <2>3. \A i \in 1 .. Len(y) - 1 : Due(y[i], y[i + 1].pkt, y[i + 1].n)
    <3> SUFFICES ASSUME NEW i \in 1 .. take - 1 PROVE Due(y[i], y[i + 1].pkt, y[i + 1].n)
      BY <1>2
    <3>1. i \in 1 .. take /\ i + 1 \in 1 .. take /\ from + i < L /\ from + (i + 1) = from + i + 1
      OBVIOUS
    <3>2. QED BY <1>3, <3>1 DEF Due
  <2>4. y[Len(y)].pkt = P /\ y[Len(y)].n = from + take /\ (y[Len(y)].open <=> from + take < L)
    BY <1>2, <1>3, <1>5
  <2>5. CASE from + take < L
    <3>1. Due(y[Len(y)], P, from + take + 1)
      BY <2>4, <2>5 DEF Due
    <3>2. Chain(x \o y, P, from + take + 1)
      BY <1>2, <2>1, <2>2, <2>3, <3>1, ChainJoin
    <3>3. QED BY <2>5, <3>2 DEF y
  <2>6. CASE ~(from + take < L)
    <3>1. Due(y[Len(y)], P + 1, 1)
      BY <2>4, <2>6 DEF Due
    <3>2. Chain(x \o y, P + 1, 1)
      BY <1>2, <2>1, <2>2, <2>3, <3>1, ChainJoin
    <3>3. QED BY <2>6, <3>2 DEF y
  <2>7. QED BY <2>5, <2>6
<1>6. QED BY <1>4, <1>5

\* What is due after a page ends inside a packet is not its first lace.
LEMMA DueOnNextPage ==
  ASSUME NEW x \in Seq(LaceSet), NEW y \in Seq(LaceSet), y # <<>>, NEW pkt, NEW n,
         Chain(x \o y, pkt, n), Last(y).open
  PROVE  n # 1
<1>1. Len(x) \in Nat /\ Len(y) \in Nat \ {0}
  BY EmptySeq
<1>2. Len(x \o y) = Len(x) + Len(y) /\ (x \o y)[Len(x) + Len(y)] = y[Len(y)]
  BY <1>1
<1>3. Last(y) = y[Len(y)]
  BY Zenon DEF Last
<1> DEFINE z == x \o y
<1>4. z \in Seq(LaceSet) /\ Len(z) \in 1 .. Len(z) /\ z[Len(z)].open /\ z[Len(z)].n \in Nat
  <2>1. z \in Seq(LaceSet) /\ Len(z) = Len(x) + Len(y) /\ z[Len(z)] = y[Len(y)]
    BY <1>2
  <2> HIDE DEF z
  <2>2. y[Len(y)] \in LaceSet
    BY <1>1
  <2>3. y[Len(y)].n \in Nat
    BY <2>2 DEF LaceSet
  <2>4. QED BY <1>1, <1>3, <2>1, <2>3
<1>5. Chain(z, pkt, n)
  OBVIOUS
<1> HIDE DEF z
<1>6. z[Len(z)].n > 0 /\ Due(z[Len(z)], pkt, n)
  <2>1. z # <<>>
    BY <1>4, EmptySeq
  <2>2. QED BY <1>4, <1>5, <2>1 DEF Chain
<1>7. QED BY <1>4, <1>6 DEF Due

-----------------------------------------------------------------------------
(* A stream is blank until its BOS page, and never again.                  *)

\* How a step moves the call on.
MovesOn ==
  \/ UNCHANGED <<stage, turn, link, header_written>>
  \/ ~header_written /\ UNCHANGED link
  \/ stage' \in {"close_link", "close", "idle"} /\ UNCHANGED <<link, header_written>>
  \/ NextStage /\ stage \notin Loops \cup {"link"} /\ UNCHANGED <<link, header_written>>
  \/ NextTurn /\ stage \in Loops /\ UNCHANGED <<link, header_written>>
  \/ NextLink

LEMMA Moving ==
  ASSUME TypeInv, [Next]_vars
  PROVE  MovesOn
<1>1. CASE WriteHeader
  <2>1. ~header_written /\ UNCHANGED link
    BY <1>1 DEF WriteHeader
  <2>2. QED BY <2>1, Zenon DEF MovesOn
<1>2. CASE BeginNewLink \/ WriteTrailer
  <2>1. stage' \in {"close_link", "close", "idle"} /\ UNCHANGED <<link, header_written>>
    BY <1>2 DEF BeginNewLink, WriteTrailer, calls
  <2>2. QED BY <2>1, Zenon DEF MovesOn
<1>3. CASE \E t \in Targets \cup {NoTarget} : SetPageTarget(t)
  <2>1. UNCHANGED <<stage, turn, link, header_written>>
    BY <1>3 DEF SetPageTarget, control
  <2>2. QED BY <2>1, Zenon DEF MovesOn
<1>4. CASE \E s \in Streams : \E p \in Packets[s] : WritePacket(s, p)
  <2>1. UNCHANGED <<stage, turn, link, header_written>>
    BY <1>4 DEF WritePacket, calls
  <2>2. QED BY <2>1, Zenon DEF MovesOn
<1>5. CASE Arm \/ WriteBos \/ PassTurn \/ CloseStream
  <2>1. NextTurn /\ UNCHANGED <<link, header_written>>
    BY <1>5, Zenon DEF Arm, WriteBos, PassTurn, CloseStream, calls
  <2>2. stage \in Loops
    BY <1>5 DEF Arm, WriteBos, PassTurn, CloseStream, Inside, BosTurn, InPass, Closing, Loops,
       BosLoops, HeaderLoops, ClosingLoops
  <2>3. QED BY <2>1, <2>2, Zenon DEF MovesOn
<1>6. CASE ArmSkeleton \/ DrainDone \/ Backfill
  <2>1. NextStage /\ UNCHANGED <<link, header_written>>
    BY <1>6, Zenon DEF ArmSkeleton, DrainDone, Backfill, calls
  <2>2. stage \notin Loops \cup {"link"}
    BY <1>6 DEF ArmSkeleton, DrainDone, Backfill, Inside, Draining, Loops,
       BosLoops, HeaderLoops, ClosingLoops
  <2>3. QED BY <2>1, <2>2, Zenon DEF MovesOn
<1>7. CASE WriteSkeletonPage
  <2>1. UNCHANGED <<link, header_written>>
    BY <1>7, Zenon DEF WriteSkeletonPage, calls
  <2>2. \/ NextTurn /\ stage \in {"bone", "index"}
        \/ NextStage /\ stage \in {"fishead", "skeleton_eos"}
    BY <1>7 DEF WriteSkeletonPage, Inside
  <2>3. \/ NextTurn /\ stage \in Loops
        \/ NextStage /\ stage \notin Loops \cup {"link"}
    BY <2>2 DEF Loops, BosLoops, HeaderLoops, ClosingLoops
  <2>4. QED BY <2>1, <2>3, Zenon DEF MovesOn
<1>8. CASE \/ WriteSecondary \/ BeginPacket \/ PutLaces \/ StampHeader \/ StampContent
           \/ FlushPage \/ ReleasePage \/ ReleaseDone \/ DrainPage \/ CloseFlush
  <2>1. UNCHANGED <<stage, turn, link, header_written>>
    BY <1>8, Zenon DEF WriteSecondary, BeginPacket, PutLaces, StampHeader, StampContent,
       FlushPage, ReleasePage, ReleaseDone, DrainPage, CloseFlush, GoTo, calls, control
  <2>2. QED BY <2>1, Zenon DEF MovesOn
<1>9. CASE StampTheora
  <2>1. UNCHANGED <<link, header_written>>
    BY <1>9, Zenon DEF StampTheora
  <2>2. UNCHANGED <<stage, turn>> \/ stage' = "idle"
    BY <1>9 DEF StampTheora, GoTo
  <2>3. QED BY <2>1, <2>2 DEF MovesOn
<1>10. CASE NextLink
  BY <1>10, Zenon DEF MovesOn
<1>11. CASE UNCHANGED vars
  <2>1. UNCHANGED <<stage, turn, link, header_written>>
    BY <1>11 DEF vars, control, calls
  <2>2. QED BY <2>1, Zenon DEF MovesOn
<1>12. QED
  BY <1>1, <1>2, <1>3, <1>4, <1>5, <1>6, <1>7, <1>8, <1>9, <1>10, <1>11, Zenon
  DEF Next, Calls, Steps, Terminated

LEMMA BlankShrinks ==
  ASSUME TypeInv, MovesOn, NEW s \in Streams
  PROVE  Blank(s)' => Blank(s)
<1>1. CASE UNCHANGED <<stage, turn, link, header_written>>
  <2>1. Later(s)' = Later(s) /\ (s \in Current)' = (s \in Current)
    BY <1>1, LinkKept
  <2>2. Passed(s)' = Passed(s)
    BY <1>1, Zenon DEF Passed, Order
  <2>3. BosDue(s)' = BosDue(s)
    BY <1>1, <2>2, Zenon DEF BosDue
  <2>4. QED BY <2>1, <2>3, Zenon DEF Blank
<1>2. ASSUME UNCHANGED link, s \in Current => (BosDue(s)' => BosDue(s))
      PROVE  Blank(s)' => Blank(s)
  <2>1. Later(s)' = Later(s) /\ (s \in Current)' = (s \in Current)
    BY <1>2, LinkKept
  <2>2. QED BY <1>2, <2>1, Zenon DEF Blank
<1>3. CASE ~header_written /\ UNCHANGED link
  <2>1. BosDue(s)
    BY <1>3, Zenon DEF BosDue
  <2>2. QED BY <1>2, <1>3, <2>1
<1>4. CASE stage' \in {"close_link", "close", "idle"} /\ UNCHANGED <<link, header_written>>
  <2>1. BosDue(s)' => BosDue(s)
    BY <1>4 DEF BosDue
  <2>2. QED BY <1>2, <1>4, <2>1
<1>5. CASE NextStage /\ stage \notin Loops \cup {"link"} /\ UNCHANGED <<link, header_written>>
  <2>1. stage' = After(stage)
    BY <1>5 DEF NextStage
  <2>2. \/ stage = "fishead"
        \/ stage' \notin {"arm", "fishead", "theora_bos", "other_bos"}
    BY <1>5, <2>1 DEF After, AfterHeaders, AfterClose, Loops, BosLoops, HeaderLoops
  <2>3. BosDue(s)' => BosDue(s)
    BY <1>5, <2>2 DEF BosDue
  <2>4. QED BY <1>2, <1>5, <2>3
<1>6. CASE NextTurn /\ stage \in Loops /\ UNCHANGED <<link, header_written>>
  <2>1. TurnOver
    BY <1>6, TurnPasses DEF TypeInv
  <2>2. CASE stage' = stage
    <3>1. Passed(s) => Passed(s)' \/ ~(s \in Current)
      <4>1. CASE \A r : Passed(r)' <=> Passed(r) \/ r = Turn
        BY <4>1
      <4>2. CASE stage' = After(stage)
        <5>1. After(stage) # stage
          BY <1>6 DEF After, AfterHeaders, AfterClose, Loops, BosLoops, HeaderLoops, ClosingLoops
        <5>2. QED BY <2>2, <4>2, <5>1
      <4>3. QED BY <2>1, <4>1, <4>2, Zenon DEF TurnOver
    <3>2. s \in Current => (BosDue(s)' => BosDue(s))
      BY <1>6, <2>2, <3>1, Zenon DEF BosDue
    <3>3. QED BY <1>2, <1>6, <3>2
  <2>3. CASE stage' = After(stage)
    <3>1. \/ stage = "arm"
          \/ stage = "theora_bos" /\ stage' = "other_bos"
          \/ stage' \notin {"arm", "fishead", "theora_bos", "other_bos"}
      BY <1>6, <2>3 DEF After, AfterHeaders, AfterClose, Loops, BosLoops, HeaderLoops, ClosingLoops
    <3>2. BosDue(s)' => BosDue(s)
      BY <1>6, <3>1 DEF BosDue
    <3>3. QED BY <1>2, <1>6, <3>2
  <2>4. QED BY <2>1, <2>2, <2>3 DEF TurnOver
<1>7. CASE NextLink
  <2>1. link' = link + 1 /\ link \in DOMAIN Links
    BY <1>7 DEF NextLink, TypeInv, ControlInv
  <2>2. \A k \in DOMAIN Links : k >= link' => k > link
    BY <2>1, MuxAssumption
  <2>3. Later(s)' => Later(s)
    <3>1. \A k \in DOMAIN Links : k > link' => k > link
      BY <2>1, MuxAssumption
    <3>2. QED BY <3>1, Zenon DEF Later
  <2>4. (s \in Current)' => Later(s)
    <3> SUFFICES ASSUME s \in ToSet(Links[link']) PROVE Later(s)
      BY Zenon DEF Current, Order
    <3>1. link' \in DOMAIN Links
      <4>1. ControlInv /\ stage = "link"
        BY <1>7 DEF NextLink, Inside, TypeInv
      <4>2. link < Len(Links)
        BY <4>1 DEF ControlInv
      <4>3. QED BY <2>1, <4>2, MuxAssumption
    <3>2. link' > link
      BY <2>1, MuxAssumption
    <3>3. QED BY <3>1, <3>2, Zenon DEF Later
  <2>5. QED BY <2>3, <2>4, Zenon DEF Blank
<1>8. QED BY <1>1, <1>3, <1>4, <1>5, <1>6, <1>7, Zenon DEF MovesOn

\* The stream of a packet under way is not blank.
LEMMA NotBlank ==
  ASSUME TypeInv, WriterInv, step # "none"
  PROVE  writing.s \in Streams /\ ~Blank(writing.s)
<1>1. /\ writing.s \in Streams /\ writing.s \in Current
      /\ stage \in {"idle"} \cup HeaderLoops \cup ClosingLoops
  BY AtWork DEF TypeInv, CallInv
<1>2. ~Later(writing.s)
  BY <1>1, Placing DEF Placed, TypeInv, ControlInv
<1>3. header_written
  BY DEF WriterInv
<1>4. ~BosDue(writing.s)
  BY <1>1, <1>3 DEF BosDue, HeaderLoops, ClosingLoops
<1>5. QED BY <1>1, <1>2, <1>4, Zenon DEF Blank

-----------------------------------------------------------------------------
(* Where write_packet stands.                                              *)

\* Nothing under way, before and after.
LEMMA WriterQuiet ==
  ASSUME WriterInv, UNCHANGED <<step, link, header_written>>, step = "none",
         stage' = stage \/ stage' = After(stage)
  PROVE  WriterInv'
<1>1. ~header_written' => stage' \in {"idle", "arm", "arm_skeleton", "close", "drain", "backfill"}
  BY DEF WriterInv, After, AfterClose
<1>2. QED BY <1>1 DEF WriterInv

LEMMA WriterBusy ==
  ASSUME header_written', step' \notin {"packet", "stamp"}
  PROVE  WriterInv'
BY DEF WriterInv

LEMMA WriterStep ==
  ASSUME TypeInv, WriterInv, StreamsKept, [Next]_vars
  PROVE  WriterInv'
<1>1. header_written \in BOOLEAN
  BY DEF TypeInv, FlagsInv
<1>2. CASE WriteHeader
  <2>1. header_written' /\ step' \notin {"packet", "stamp"}
    BY <1>2 DEF WriteHeader, Idle
  <2>2. QED BY <2>1, WriterBusy
<1>3. CASE BeginNewLink
  <2>1. header_written' /\ step' \notin {"packet", "stamp"}
    BY <1>3 DEF BeginNewLink, Idle, calls
  <2>2. QED BY <2>1, WriterBusy
<1>4. CASE WriteTrailer
  <2>1. step = "none" /\ stage' = "close" /\ UNCHANGED <<step, link, header_written>>
    BY <1>4 DEF WriteTrailer, Idle, calls
  <2>2. QED BY <2>1 DEF WriterInv
<1>5. CASE \E t \in Targets \cup {NoTarget} : SetPageTarget(t)
  <2>1. step = "none" /\ UNCHANGED <<step, link, header_written, stage>>
    BY <1>5 DEF SetPageTarget, Idle, control
  <2>2. QED BY <2>1, WriterQuiet
<1>6. CASE \E s \in Streams : \E p \in Packets[s] : WritePacket(s, p)
  <2>1. header_written' /\ step' = "packet" /\ writing'.from = 0
    BY <1>6 DEF WritePacket, Call, calls
  <2>2. QED BY <2>1 DEF WriterInv
<1>7. CASE Arm \/ WriteBos \/ PassTurn \/ CloseStream
  <2>1. UNCHANGED <<step, link, header_written>> /\ NextTurn
    BY <1>7, Zenon DEF Arm, WriteBos, PassTurn, CloseStream, calls
  <2>2. step = "none"
    BY <1>7 DEF Arm, WriteBos, PassTurn, CloseStream, Inside, BosTurn, InPass, Closing
  <2>3. stage' = stage \/ stage' = After(stage)
    BY <2>1 DEF NextTurn
  <2>4. QED BY <2>1, <2>2, <2>3, WriterQuiet
<1>8. CASE ArmSkeleton \/ DrainDone \/ Backfill
  <2>1. UNCHANGED <<step, link, header_written>> /\ NextStage
    BY <1>8, Zenon DEF ArmSkeleton, DrainDone, Backfill, calls
  <2>2. step = "none"
    BY <1>8 DEF ArmSkeleton, DrainDone, Backfill, Inside, Draining
  <2>3. stage' = stage \/ stage' = After(stage)
    BY <2>1 DEF NextStage
  <2>4. QED BY <2>1, <2>2, <2>3, WriterQuiet
<1>9. CASE WriteSkeletonPage
  <2>1. UNCHANGED <<step, link, header_written>>
    BY <1>9, Zenon DEF WriteSkeletonPage, calls
  <2>2. step = "none"
    BY <1>9 DEF WriteSkeletonPage, Inside
  <2>3. stage' = stage \/ stage' = After(stage)
    BY <1>9 DEF WriteSkeletonPage, NextStage, NextTurn
  <2>4. QED BY <2>1, <2>2, <2>3, WriterQuiet
<1>10. CASE NextLink
  <2>1. step = "none" /\ stage = "link" /\ UNCHANGED <<step, header_written>>
    BY <1>10 DEF NextLink, Inside
  <2>2. header_written
    BY <2>1 DEF WriterInv
  <2>3. QED BY <2>1, <2>2, WriterBusy
<1>11. CASE WriteSecondary
  <2>1. stage \in HeaderLoops /\ UNCHANGED header_written /\ step' = "packet" /\ writing'.from = 0
    BY <1>11 DEF WriteSecondary, HeaderTurn, InPass, Inside, HeaderLoops, Call, calls
  <2>2. header_written
    BY <2>1 DEF WriterInv, HeaderLoops
  <2>3. QED BY <2>1, <2>2 DEF WriterInv
<1>12. CASE BeginPacket
  <2>1. step = "packet" /\ UNCHANGED header_written /\ step' \in {"flush", "put"}
    BY <1>12 DEF BeginPacket, Doing, GoTo, calls
  <2>2. QED BY <2>1, WriterBusy DEF WriterInv
<1>13. CASE PutLaces
  <2> DEFINE s == writing.s
             room == MaxSegs - Len(buffered[s].segs)
             take == IF room < LacesLeft THEN room ELSE LacesLeft
  <2>1. /\ step = "put" /\ UNCHANGED header_written
        /\ step' = IF take < LacesLeft THEN "flush" ELSE "stamp"
        /\ writing' = [writing EXCEPT !.from = @ + take]
    BY <1>13 DEF PutLaces, Doing, GoTo, calls
  <2>2. header_written'
    BY <2>1 DEF WriterInv
  <2>3. room \in Int /\ LacesLeft \in Int /\ writing \in WritingSet /\ writing.p.laces \in Nat
    <3>1. MaxSegs \in Nat
      BY MuxAssumption
    <3>2. writing \in WritingSet
      BY DEF TypeInv, WritingInv
    <3>3. QED BY <3>1, <3>2, AtWork DEF LacesLeft
  <2>4. step' = "stamp" => LacesLeft' = 0
    <3> SUFFICES ASSUME step' = "stamp" PROVE LacesLeft' = 0
      OBVIOUS
    <3>1. take = LacesLeft
      <4> HIDE DEF room
      <4>1. QED BY <2>1, <2>3
    <3> HIDE DEF take
    <3>2. writing'.p = writing.p /\ writing'.from = writing.from + LacesLeft /\ writing.from \in Nat
      BY <2>1, <2>3, <3>1 DEF WritingSet
    <3>3. QED BY <2>3, <3>2 DEF LacesLeft
  <2>5. QED BY <2>1, <2>2, <2>4 DEF WriterInv
<1>14. CASE StampHeader \/ StampContent \/ StampTheora
  <2>1. step = "stamp" /\ UNCHANGED header_written /\ step' \in {"flush", "none"}
    BY <1>14 DEF StampHeader, StampContent, StampTheora, Doing, GoTo, calls
  <2>2. QED BY <2>1, WriterBusy DEF WriterInv
<1>15. CASE FlushPage \/ ReleaseDone
  <2>1. /\ step \in {"flush", "release"} /\ UNCHANGED header_written
        /\ step' \in {"release", "put", "none"}
    BY <1>15 DEF FlushPage, ReleaseDone, Doing, GoTo, calls
  <2>2. QED BY <2>1, WriterBusy DEF WriterInv
<1>16. CASE ReleasePage
  <2>1. step = "release" /\ UNCHANGED <<step, header_written>>
    BY <1>16 DEF ReleasePage, Doing, control, calls
  <2>2. QED BY <2>1, WriterBusy DEF WriterInv
<1>17. CASE DrainPage
  <2>1. step = "none" /\ UNCHANGED <<step, link, header_written, stage>>
    BY <1>17 DEF DrainPage, Draining, Inside, control, calls
  <2>2. QED BY <2>1, WriterQuiet
<1>18. CASE CloseFlush
  <2>1. /\ step = "none" /\ UNCHANGED header_written /\ step' = "flush"
        /\ buffered[Turn].segs # <<>>
    BY <1>18 DEF CloseFlush, Closing, Inside, Call, calls
  <2>2. Turn \in Streams /\ Turn \in Current
    BY TurnType DEF TypeInv
  <2>3. ~Blank(Turn)
    BY <2>1, <2>2, Zenon DEF StreamsKept, StreamKept
  <2>4. header_written
    BY <2>2, <2>3, Zenon DEF Blank, BosDue
  <2>5. QED BY <2>1, <2>4, WriterBusy
<1>19. CASE UNCHANGED vars
  BY <1>19 DEF vars, control, calls, WriterInv, LacesLeft
<1>20. QED
  BY <1>2, <1>3, <1>4, <1>5, <1>6, <1>7, <1>8, <1>9, <1>10, <1>11, <1>12, <1>13, <1>14, <1>15,
     <1>16, <1>17, <1>18, <1>19, Zenon
  DEF Next, Calls, Steps, Terminated

-----------------------------------------------------------------------------
(* Steps that put down no lace and make no page.                           *)

SameDue(s) == DuePacket(s)' = DuePacket(s) /\ DueLace(s)' = DueLace(s)

LEMMA KeptOn ==
  ASSUME NEW s \in Streams, StreamKept(s), Blank(s)' => Blank(s), Pages(s)' = Pages(s),
         buffered'[s].segs = buffered[s].segs, buffered'[s].cont = buffered[s].cont,
         bos_emitted'[s] = bos_emitted[s], queue'[s] = queue[s], SameDue(s)
  PROVE  StreamKept(s)'
<1>1. InOrder(Pages(s), buffered[s], DuePacket(s), DueLace(s))'
  BY Zenon DEF StreamKept, InOrder, SameDue
<1>2. QED BY <1>1, Zenon DEF StreamKept

\* A call that is not in the middle of a packet.
LEMMA DueBetween ==
  ASSUME UNCHANGED sent, NEW s, ~Midway(s), ~Midway(s)'
  PROVE  SameDue(s)
BY Zenon DEF SameDue, DuePacket, DueLace

LEMMA DueStays ==
  ASSUME UNCHANGED <<sent, writing>>, NEW s, Midway(s)' <=> Midway(s)
  PROVE  SameDue(s)
BY Zenon DEF SameDue, DuePacket, DueLace

LEMMA NothingPut ==
  ASSUME TypeInv, StreamsKept, MovesOn, UNCHANGED <<wire, queue, buffered, bos_emitted>>,
         \A s \in Streams : SameDue(s)
  PROVE  StreamsKept'
<1> SUFFICES ASSUME NEW s \in Streams PROVE StreamKept(s)'
  BY DEF StreamsKept
<1>1. StreamKept(s) /\ SameDue(s)
  BY DEF StreamsKept
<1>2. Blank(s)' => Blank(s)
  BY BlankShrinks
<1>3. Pages(s)' = Pages(s)
  BY PagesStay
<1>4. QED BY <1>1, <1>2, <1>3, KeptOn

\* Steps that only move the call on.
LEMMA MovingKept ==
  ASSUME TypeInv, WriterInv, StreamsKept, MovesOn,
         \/ WriteHeader \/ BeginNewLink \/ WriteTrailer \/ Arm \/ ArmSkeleton \/ NextLink
         \/ WriteSecondary \/ PassTurn \/ ReleaseDone \/ DrainDone \/ CloseFlush \/ Backfill
         \/ UNCHANGED vars
         \/ \E t \in Targets \cup {NoTarget} : SetPageTarget(t)
         \/ \E s \in Streams : \E p \in Packets[s] : WritePacket(s, p)
  PROVE  StreamsKept'
<1>1. UNCHANGED <<wire, queue, buffered, bos_emitted, sent>>
  BY Zenon DEF WriteHeader, BeginNewLink, WriteTrailer, Arm, ArmSkeleton, NextLink, WriteSecondary,
     PassTurn, ReleaseDone, DrainDone, CloseFlush, Backfill, vars, SetPageTarget, WritePacket, writers
<1>2. CASE \/ WriteHeader \/ BeginNewLink \/ WriteTrailer \/ Arm \/ ArmSkeleton \/ NextLink
           \/ PassTurn \/ DrainDone \/ Backfill
           \/ \E t \in Targets \cup {NoTarget} : SetPageTarget(t)
  <2>1. step = "none" /\ step' = "none"
    BY <1>2 DEF WriteHeader, BeginNewLink, WriteTrailer, Arm, ArmSkeleton, NextLink, PassTurn,
       DrainDone, Backfill, SetPageTarget, Idle, Inside, Draining, control
  <2>2. \A s \in Streams : ~Midway(s) /\ ~Midway(s)'
    BY <2>1 DEF Midway
  <2>3. \A s \in Streams : SameDue(s)
    BY <1>1, <2>2, DueBetween
  <2>4. QED BY <1>1, <2>3, NothingPut
<1>3. CASE WriteSecondary \/ \E s \in Streams : \E p \in Packets[s] : WritePacket(s, p)
  <2>1. step = "none" /\ step' = "packet"
    BY <1>3 DEF WriteSecondary, HeaderTurn, InPass, Inside, WritePacket, Idle, Call
  <2>2. \A s \in Streams : ~Midway(s) /\ ~Midway(s)'
    BY <2>1 DEF Midway
  <2>3. \A s \in Streams : SameDue(s)
    BY <1>1, <2>2, DueBetween
  <2>4. QED BY <1>1, <2>3, NothingPut
<1>4. CASE CloseFlush
  <2>1. step = "none" /\ writing' = [s |-> Turn, p |-> HeaderPacket, from |-> 1]
    BY <1>4 DEF CloseFlush, Closing, Inside, Call
  <2>2. LacesLeft' = 0
    BY <2>1, HeaderPacketType DEF LacesLeft
  <2>3. \A s \in Streams : ~Midway(s) /\ ~Midway(s)'
    BY <2>1, <2>2 DEF Midway
  <2>4. \A s \in Streams : SameDue(s)
    BY <1>1, <2>3, DueBetween
  <2>5. QED BY <1>1, <2>4, NothingPut
<1>5. CASE ReleaseDone
  <2>1. step = "release" /\ UNCHANGED writing /\ step' = IF LacesLeft > 0 THEN "put" ELSE "none"
    BY <1>5 DEF ReleaseDone, Doing, GoTo
  <2>2. LacesLeft' = LacesLeft
    BY <2>1 DEF LacesLeft
  <2>3. \A s \in Streams : Midway(s)' <=> Midway(s)
    BY <2>1, <2>2 DEF Midway
  <2>4. \A s \in Streams : SameDue(s)
    BY <1>1, <2>1, <2>3, DueStays
  <2>5. QED BY <1>1, <2>4, NothingPut
<1>6. CASE UNCHANGED vars
  <2>1. UNCHANGED <<step, writing>>
    BY <1>6 DEF vars, control
  <2>2. \A s \in Streams : Midway(s)' <=> Midway(s)
    BY <2>1, Zenon DEF Midway, LacesLeft
  <2>3. \A s \in Streams : SameDue(s)
    BY <1>1, <2>1, <2>2, DueStays
  <2>4. QED BY <1>1, <2>3, NothingPut
<1>7. QED BY <1>2, <1>3, <1>4, <1>5, <1>6, Zenon

\* A Skeleton page is of no stream.
LEMMA SkeletonKept ==
  ASSUME TypeInv, StreamsKept, MovesOn, WriteSkeletonPage
  PROVE  StreamsKept'
<1>1. \E flags \in {{"bos"}, {}, {"eos"}} : wire' = Append(wire, SkeletonPage(flags))
  BY DEF WriteSkeletonPage
<1>2. PICK flags \in {{"bos"}, {}, {"eos"}} : wire' = Append(wire, SkeletonPage(flags))
  BY <1>1
<1>3. SkeletonPage(flags) \in PageSet
  BY SkeletonPageType DEF TypeInv, DataInv, PageFlags
<1>4. UNCHANGED <<queue, buffered, bos_emitted, sent, step>> /\ step = "none"
  <2>1. UNCHANGED <<queue, buffered, bos_emitted, sent, step>>
    BY Zenon DEF WriteSkeletonPage, writers
  <2>2. step = "none"
    BY DEF WriteSkeletonPage, Inside
  <2>3. QED BY <2>1, <2>2
<1> SUFFICES ASSUME NEW s \in Streams PROVE StreamKept(s)'
  BY DEF StreamsKept
<1>5. Pages(s)' = Pages(s)
  <2>1. SkeletonPage(flags).stream # s
    BY MuxAssumption DEF SkeletonPage
  <2>2. WireInv
    BY DEF TypeInv, DataInv
  <2>3. QED BY <1>2, <1>3, <1>4, <2>1, <2>2, PagesStayOnWrite
<1>6. ~Midway(s) /\ ~Midway(s)'
  BY <1>4 DEF Midway
<1>7. StreamKept(s) /\ (Blank(s)' => Blank(s)) /\ SameDue(s)
  BY <1>4, <1>6, BlankShrinks, DueBetween DEF StreamsKept
<1>8. QED BY <1>4, <1>5, <1>7, KeptOn

\* What the stamp of a packet leaves of the builders.
LEMMA StampedFlags ==
  ASSUME BuffersInv, NEW w \in Streams, NEW granule, NEW kf,
         \/ buffered' = buffered
         \/ buffered' = [buffered EXCEPT ![w].granule = granule]
         \/ buffered' = [buffered EXCEPT ![w].granule = granule, ![w].kf = kf]
  PROVE  \A s \in Streams : buffered'[s].cont = buffered[s].cont
BY DEF BuffersInv, BuilderSet

LEMMA StampKept ==
  ASSUME TypeInv, WriterInv, StreamsKept, MovesOn, StampHeader \/ StampContent \/ StampTheora
  PROVE  StreamsKept'
<1>1. UNCHANGED <<wire, queue, bos_emitted, sent, writing>>
  BY Zenon DEF StampHeader, StampContent, StampTheora, writers
<1>2. \E granule, kf :
         \/ buffered' = buffered
         \/ buffered' = [buffered EXCEPT ![writing.s].granule = granule]
         \/ buffered' = [buffered EXCEPT ![writing.s].granule = granule, ![writing.s].kf = kf]
  <2> DEFINE Stamped3(granule, kf) ==
         \/ buffered' = buffered
         \/ buffered' = [buffered EXCEPT ![writing.s].granule = granule]
         \/ buffered' = [buffered EXCEPT ![writing.s].granule = granule, ![writing.s].kf = kf]
  <2>1. CASE StampHeader
    <3>1. Stamped3(0, 0)
      BY <2>1, Zenon DEF StampHeader
    <3>2. QED BY <3>1, Zenon
  <2>2. CASE StampContent
    <3>1. Stamped3(writing.p.pts, FirstKeyframe(writing.s, writing.p, writing.p.pts))
      BY <2>2 DEF StampContent
    <3>2. QED BY <3>1, Zenon
  <2>3. CASE StampTheora
    <3> DEFINE w == writing.s
               p == writing.p
               frame == IF p.pts = NoPts THEN next_frame[w] ELSE p.pts
               first == IF p.keyframe THEN frame ELSE last_kf[w]
    <3>1. Stamped3(Pack(frame, first), FirstKeyframe(w, p, frame))
      BY <2>3, Zenon DEF StampTheora
    <3>2. QED BY <3>1, Zenon
  <2>4. QED BY <2>1, <2>2, <2>3, Zenon
<1>3. PICK granule, kf :
         \/ buffered' = buffered
         \/ buffered' = [buffered EXCEPT ![writing.s].granule = granule]
         \/ buffered' = [buffered EXCEPT ![writing.s].granule = granule, ![writing.s].kf = kf]
  BY <1>2, Zenon
<1>4. \A s \in Streams :
        buffered'[s].segs = buffered[s].segs /\ buffered'[s].cont = buffered[s].cont
  <2>1. BuffersInv /\ writing.s \in Streams
    BY AtWork DEF TypeInv, DataInv
  <2>2. QED BY <1>3, <2>1, StampedLaces, StampedFlags
<1>5. step = "stamp" /\ LacesLeft = 0
  BY DEF StampHeader, StampContent, StampTheora, Doing, WriterInv
<1>6. LacesLeft' = 0
  BY <1>1, <1>5 DEF LacesLeft
<1> SUFFICES ASSUME NEW s \in Streams PROVE StreamKept(s)'
  BY DEF StreamsKept
<1>7. ~Midway(s) /\ ~Midway(s)'
  BY <1>5, <1>6 DEF Midway
<1>8. StreamKept(s) /\ (Blank(s)' => Blank(s)) /\ SameDue(s)
  BY <1>1, <1>7, BlankShrinks, DueBetween DEF StreamsKept
<1>9. Pages(s)' = Pages(s)
  BY <1>1, PagesStay
<1>10. QED BY <1>1, <1>4, <1>8, <1>9, KeptOn

\* The packet handed over is the one whose first lace is due.
LEMMA BeginKept ==
  ASSUME TypeInv, WriterInv, StreamsKept, MovesOn, BeginPacket
  PROVE  StreamsKept'
<1> SUFFICES ASSUME NEW t \in Streams, t = writing.s PROVE StreamsKept'
  BY AtWork
<1>1. /\ step = "packet" /\ step' \in {"flush", "put"} /\ sent' = [sent EXCEPT ![t] = Append(@, writing.p)]
      /\ UNCHANGED <<writing, wire, queue, buffered, bos_emitted>>
  BY DEF BeginPacket, Doing, GoTo, writers
<1>2. writing.from = 0 /\ LacesLeft > 0 /\ LacesLeft' > 0
  <2>1. writing.from = 0 /\ writing.p.laces \in Nat \ {0}
    BY <1>1, AtWork DEF WriterInv
  <2>2. QED BY <1>1, <2>1 DEF LacesLeft
<1>3. sent \in [Streams -> Seq(Packet)] /\ writing.p \in Packet
  BY AtWork DEF TypeInv, DataInv, SentInv
<1> SUFFICES ASSUME NEW s \in Streams PROVE SameDue(s)
  BY <1>1, NothingPut
<1>4. CASE s # t
  <2>1. sent'[s] = sent[s] /\ ~Midway(s) /\ ~Midway(s)'
    BY <1>1, <1>3, <1>4 DEF Midway
  <2>2. QED BY <2>1, Zenon DEF SameDue, DuePacket, DueLace
<1>5. CASE s = t
  <2>1. sent'[s] = Append(sent[s], writing.p) /\ ~Midway(s) /\ Midway(s)'
    BY <1>1, <1>2, <1>3, <1>5 DEF Midway
  <2>2. Len(sent'[s]) = Len(sent[s]) + 1
    BY <1>3, <2>1, AppendProperties
  <2>3. QED BY <1>1, <1>2, <2>1, <2>2 DEF SameDue, DuePacket, DueLace
<1>6. QED BY <1>4, <1>5

-----------------------------------------------------------------------------
(* Steps that put down laces, or make or move a page.                      *)

LEMMA PutKept ==
  ASSUME TypeInv, WriterInv, StreamsKept, MovesOn, PutLaces
  PROVE  StreamsKept'
<1> SUFFICES ASSUME NEW t \in Streams, t = writing.s PROVE StreamsKept'
  BY AtWork
<1> DEFINE room  == MaxSegs - Len(buffered[t].segs)
           take  == IF room < LacesLeft THEN room ELSE LacesLeft
           P     == Len(sent[t])
           L     == writing.p.laces
           laces == [i \in 1 .. take |-> Lace(P, writing.from + i, L)]
<1>1. /\ step = "put" /\ step' = IF take < LacesLeft THEN "flush" ELSE "stamp"
      /\ writing' = [writing EXCEPT !.from = @ + take]
      /\ buffered' = [buffered EXCEPT ![t].segs = @ \o laces]
      /\ UNCHANGED <<wire, queue, bos_emitted, sent>>
  BY DEF PutLaces, Doing, GoTo
<1>2. writing \in WritingSet /\ writing.from < L /\ writing.from \in Nat /\ L \in Nat /\ P \in Nat
  <2>1. writing \in WritingSet /\ writing.from < L
    BY <1>1 DEF TypeInv, WritingInv
  <2>2. sent[t] \in Seq(Packet)
    BY DEF TypeInv, DataInv, SentInv
  <2>3. QED BY <2>1, <2>2, AtWork
<1>3. /\ room \in Nat /\ LacesLeft \in Nat \ {0} /\ LacesLeft = L - writing.from
  <2>1. MaxSegs \in Nat
    BY MuxAssumption
  <2>2. room \in Nat
    BY <2>1, AtWork
  <2>3. QED BY <1>2, <2>2 DEF LacesLeft
<1>4. /\ take \in Nat /\ take <= LacesLeft /\ (room > 0 => take > 0)
      /\ writing.from + take <= L
      /\ take < LacesLeft <=> writing.from + take < L
  <2> HIDE DEF room
  <2>1. QED BY <1>2, <1>3
<1>5. writing'.s = t /\ writing'.p = writing.p /\ writing'.from = writing.from + take
  BY <1>1, <1>2 DEF WritingSet
<1>6. LacesLeft' = L - (writing.from + take)
  BY <1>5 DEF LacesLeft
<1> HIDE DEF room, take, laces
<1>7. /\ \A s \in Streams : s # t => buffered'[s] = buffered[s]
      /\ buffered'[t].segs = buffered[t].segs \o laces /\ buffered'[t].cont = buffered[t].cont
  BY <1>1 DEF TypeInv, DataInv, BuffersInv, BuilderSet
<1> SUFFICES ASSUME NEW s \in Streams PROVE StreamKept(s)'
  BY DEF StreamsKept
<1>8. StreamKept(s) /\ (Blank(s)' => Blank(s))
  BY BlankShrinks DEF StreamsKept
<1>9. Pages(s)' = Pages(s)
  BY <1>1, PagesStay
<1>10. CASE s # t
  <2>1. ~Midway(s) /\ ~Midway(s)'
    BY <1>5, <1>10 DEF Midway
  <2>2. SameDue(s)
    BY <1>1, <2>1, DueBetween
  <2>3. QED BY <1>1, <1>7, <1>8, <1>9, <1>10, <2>2, KeptOn
<1>11. CASE s = t
  <2> DEFINE x == LacesOn(Pages(t)) \o buffered[t].segs
  <2>1. /\ LacesOn(Pages(t)) \in Seq(LaceSet) /\ buffered[t].segs \in Seq(LaceSet)
        /\ laces \in Seq(LaceSet) /\ Len(laces) = take
    <3>1. Pages(t) \in Seq(PageSet)
      BY PagesType DEF TypeInv, DataInv
    <3>2. \A i \in 1 .. take : Lace(P, writing.from + i, L) \in LaceSet
      BY <1>2, <1>4 DEF Lace, LaceSet
    <3>3. QED BY <1>4, <3>1, <3>2, LacesOnType, AtWork DEF laces
  <2>2. InOrder(Pages(t), buffered[t], P, writing.from + 1)
    <3>1. Midway(t)
      BY <1>1, <1>3 DEF Midway
    <3>2. DuePacket(t) = P /\ DueLace(t) = writing.from + 1
      BY <3>1, Zenon DEF DuePacket, DueLace
    <3>3. QED BY <1>8, <1>11, <3>2, Zenon DEF StreamKept
  <2>3. Chain(x, P, writing.from + 1) /\ x \in Seq(LaceSet)
    <3>1. Chain(x, P, writing.from + 1)
      BY <2>2, Zenon DEF InOrder
    <3>2. x \in Seq(LaceSet)
      BY <2>1
    <3>3. QED BY <3>1, <3>2
  <2> HIDE DEF x
  <2>4. IF writing.from + take < L THEN Chain(x \o laces, P, writing.from + take + 1)
        ELSE Chain(x \o laces, P + 1, 1)
    BY <1>2, <1>4, <2>3, ChainPut DEF laces
  <2>5. DuePacket(t)' = (IF writing.from + take < L THEN P ELSE P + 1)
        /\ DueLace(t)' = (IF writing.from + take < L THEN writing.from + take + 1 ELSE 1)
    <3>1. sent'[t] = sent[t]
      BY <1>1
    <3>2. CASE writing.from + take < L
      <4>1. Midway(t)'
        BY <1>1, <1>2, <1>4, <1>5, <1>6, <3>2 DEF Midway
      <4>2. QED BY <1>5, <3>1, <3>2, <4>1 DEF DuePacket, DueLace
    <3>3. CASE ~(writing.from + take < L)
      <4>1. ~Midway(t)'
        BY <1>1, <1>4, <3>3 DEF Midway
      <4>2. QED BY <3>1, <3>3, <4>1 DEF DuePacket, DueLace
    <3>4. QED BY <3>2, <3>3
  <2>6. Chain(x \o laces, DuePacket(t)', DueLace(t)')
    <3>1. CASE writing.from + take < L
      BY <2>4, <2>5, <3>1
    <3>2. CASE ~(writing.from + take < L)
      BY <2>4, <2>5, <3>2
    <3>3. QED BY <3>1, <3>2
  <2>7. x \o laces = LacesOn(Pages(t)) \o buffered'[t].segs
    <3> DEFINE a == LacesOn(Pages(t))
               b == buffered[t].segs
    <3>1. buffered'[t].segs = b \o laces /\ a \in Seq(LaceSet) /\ b \in Seq(LaceSet) /\ x = a \o b
      BY <1>7, <2>1, Zenon DEF x
    <3> HIDE DEF a, b
    <3>2. (a \o b) \o laces = a \o (b \o laces)
      <4>1. a \in Seq(LaceSet) /\ b \in Seq(LaceSet) /\ laces \in Seq(LaceSet)
        BY <2>1, <3>1
      <4>2. QED BY <4>1, LacesJoined
    <3>3. QED BY <3>1, <3>2 DEF a
  <2>8. buffered'[t].segs # <<>>
    <3> DEFINE a == buffered[t].segs
               b == a \o laces
    <3>1. a \in Seq(LaceSet) /\ Len(a) \in Nat /\ MaxSegs \in Nat \ {0} /\ room = MaxSegs - Len(a)
      BY <2>1, MuxAssumption DEF room
    <3> HIDE DEF a
    <3>2. Len(b) = Len(a) + take /\ b \in Seq(LaceSet)
      BY <2>1, <3>1
    <3> HIDE DEF b
    <3>3. Len(b) # 0
      BY <1>4, <3>1, <3>2
    <3>4. b # <<>>
      BY <3>2, <3>3, EmptySeq
    <3>5. QED BY <1>7, <3>4 DEF a, b
  <2>9. InOrder(Pages(t), buffered[t], DuePacket(t), DueLace(t))'
    <3>1. Pages(t)' = Pages(t)
      BY <1>9, <1>11
    <3>2. Chain(LacesOn(Pages(t)) \o buffered'[t].segs, DuePacket(t)', DueLace(t)')
      BY <2>6, <2>7
    <3>3. QED BY <1>7, <2>2, <2>8, <3>1, <3>2, Zenon DEF InOrder
  <2>10. ~Blank(t)'
    BY <1>1, <1>8, <1>11, NotBlank
  <2>11. \A i \in 1 .. Len(queue'[t]) : queue'[t][i].page.stream = t
    BY <1>1, <1>8, <1>11, Zenon DEF StreamKept
  <2>12. QED BY <1>11, <2>9, <2>10, <2>11, Zenon DEF StreamKept
<1>12. QED BY <1>10, <1>11

LEMMA FlushKept ==
  ASSUME TypeInv, WriterInv, StreamsKept, MovesOn, FlushPage
  PROVE  StreamsKept'
<1> SUFFICES ASSUME NEW t \in Streams, t = writing.s PROVE StreamsKept'
  BY AtWork
<1> DEFINE b     == buffered[t]
           c     == PageTime(t, b.granule)
           time  == IF c > newest_time[t] THEN c ELSE newest_time[t]
           flags == (IF b.cont THEN {"cont"} ELSE {}) \cup (IF bos_emitted[t] THEN {} ELSE {"bos"})
           p     == Page(t, flags, b.granule, b.segs, time)
           item  == [page |-> p, kf |-> b.kf]
<1>1. step = "flush" /\ step' = "release" /\ UNCHANGED <<writing, wire, sent>>
  BY DEF FlushPage, Doing, GoTo
<1>2. /\ queue' = [queue EXCEPT ![t] = Append(@, item)]
      /\ buffered' = [buffered EXCEPT ![t] = NextBuilder(b)]
      /\ bos_emitted' = [bos_emitted EXCEPT ![t] = TRUE]
  BY DEF FlushPage
<1>3. /\ b \in BuilderSet /\ b.segs # <<>> /\ newest_time[t] \in Nat
      /\ b.granule \in Granules /\ b.kf \in Granules /\ b.segs \in SegsSet
  BY <1>1, AtWork DEF TypeInv, WritingInv, DataInv, ClocksInv, BuilderSet
<1>4. item \in ItemSet /\ p \in PageSet
  <2>1. time \in Nat
    BY <1>3, PageTimeType
  <2>2. flags \in PageFlags
    BY DEF PageFlags
  <2> HIDE DEF time, flags
  <2>3. p \in PageSet
    BY <1>3, <2>1, <2>2, PageType DEF TypeInv, DataInv
  <2>4. QED BY <1>3, <2>3 DEF ItemSet
<1>5. p.stream = t /\ p.segs = b.segs /\ ("cont" \in p.flags <=> b.cont) /\ item.page = p
  BY DEF Page
<1>6. NextBuilder(b).segs = <<>> /\ NextBuilder(b).cont = Last(b.segs).open
  BY DEF NextBuilder, EmptyBuilder
<1> HIDE DEF item, p, b
<1>7. WireInv /\ QueuesInv /\ queue \in [Streams -> Seq(ItemSet)]
      /\ bos_emitted \in [Streams -> BOOLEAN] /\ buffered \in [Streams -> BuilderSet]
  BY DEF TypeInv, DataInv, QueuesInv, BosInv, BuffersInv
<1> SUFFICES ASSUME NEW s \in Streams PROVE StreamKept(s)'
  BY DEF StreamsKept
<1>8. StreamKept(s) /\ (Blank(s)' => Blank(s)) /\ SameDue(s)
  <2>1. Midway(s)' <=> Midway(s)
    BY <1>1 DEF Midway, LacesLeft
  <2>2. QED BY <1>1, <2>1, BlankShrinks, DueStays DEF StreamsKept
<1>9. CASE s # t
  <2>1. queue'[s] = queue[s] /\ bos_emitted'[s] = bos_emitted[s] /\ buffered'[s] = buffered[s]
    BY <1>2, <1>7, <1>9
  <2>2. Pages(s)' = Pages(s)
    BY <1>1, <2>1, PagesStay
  <2>3. QED BY <1>8, <2>1, <2>2, KeptOn
<1>10. CASE s = t
  <2>1. /\ queue'[t] = Append(queue[t], item) /\ buffered'[t].segs = <<>>
        /\ buffered'[t].cont = Last(b.segs).open
    BY <1>2, <1>6, <1>7
  <2>2. Pages(t)' = Append(Pages(t), p) /\ Pages(t) \in Seq(PageSet)
    BY <1>1, <1>4, <1>5, <1>7, <2>1, PagesQueued, PagesType
  <2>3. InOrder(Pages(t), b, DuePacket(t), DueLace(t))
    BY <1>8, <1>10, Zenon DEF StreamKept, b
  <2> DEFINE x == LacesOn(Pages(t))
  <2>4. x \in Seq(LaceSet) /\ b.segs \in Seq(LaceSet) /\ LacesOn(Pages(t)') = x \o b.segs
    BY <1>3, <1>4, <1>5, <2>2, LacesOnType, LacesOnMore DEF SegsSet
  <2>5. Chain(x \o b.segs, DuePacket(t), DueLace(t))
    BY <2>3, Zenon DEF InOrder
  <2> HIDE DEF x
  <2>6. LacesOn(Pages(t)') \o buffered'[t].segs = x \o b.segs
    BY <2>1, <2>4
  <2>7. Continued(Pages(t)') /\ (LeftOpen(Pages(t)') <=> Open(p))
    <3>1. Continued(Pages(t)) /\ (b.cont <=> LeftOpen(Pages(t)))
      BY <2>3, Zenon DEF InOrder
    <3>2. QED BY <1>4, <1>5, <2>2, <3>1, ContinuedOn
  <2>8. buffered'[t].cont <=> LeftOpen(Pages(t)')
    BY <1>3, <1>5, <2>1, <2>7, Zenon DEF Open
  <2>9. Last(b.segs).open => DueLace(t) # 1
    BY <1>3, <2>4, <2>5, DueOnNextPage
  <2>10. InOrder(Pages(t), buffered[t], DuePacket(t), DueLace(t))'
    BY <1>8, <1>10, <2>1, <2>5, <2>6, <2>7, <2>8, <2>9, Zenon DEF InOrder, SameDue
  <2>11. ~Blank(t)'
    BY <1>1, <1>8, <1>10, NotBlank
  <2>12. \A i \in 1 .. Len(queue'[t]) : queue'[t][i].page.stream = t
    <3>1. \A i \in 1 .. Len(queue[t]) : queue[t][i].page.stream = t
      BY <1>8, <1>10, Zenon DEF StreamKept
    <3>2. queue[t] \in Seq(ItemSet)
      BY <1>7
    <3> DEFINE q == queue[t]
               r == Append(q, item)
    <3>3. Len(q) \in Nat /\ Len(r) = Len(q) + 1 /\ r[Len(q) + 1] = item
          /\ \A i \in 1 .. Len(q) : r[i] = q[i]
      BY <3>2, AppendProperties
    <3>4. \A i \in 1 .. Len(q) : q[i].page.stream = t
      BY <3>1
    <3> HIDE DEF q, r
    <3>5. \A i \in 1 .. Len(r) : r[i].page.stream = t
      <4> SUFFICES ASSUME NEW i \in 1 .. Len(r) PROVE r[i].page.stream = t
        OBVIOUS
      <4>1. CASE i \in 1 .. Len(q)
        BY <3>3, <3>4, <4>1
      <4>2. CASE i = Len(q) + 1
        BY <1>5, <3>3, <4>2
      <4>3. QED BY <3>3, <4>1, <4>2
    <3>6. QED BY <2>1, <3>5 DEF q, r
  <2>13. QED BY <1>10, <2>10, <2>11, <2>12, Zenon DEF StreamKept
<1>11. QED BY <1>9, <1>10

\* The oldest queued page of t let out.
LEMMA LetOutKept ==
  ASSUME TypeInv, WriterInv, StreamsKept, MovesOn, NEW t \in Streams, queue[t] # <<>>, WritePending(t),
         UNCHANGED <<step, writing, buffered, bos_emitted, sent>>
  PROVE  StreamsKept'
<1> DEFINE p == Head(queue[t]).page
<1>1. wire' = Append(wire, p) /\ queue' = [queue EXCEPT ![t] = Tail(@)]
  BY DEF WritePending
<1>2. WireInv /\ QueuesInv /\ queue \in [Streams -> Seq(ItemSet)]
  BY DEF TypeInv, DataInv, QueuesInv
<1>3. /\ queue[t] \in Seq(ItemSet) /\ Head(queue[t]) \in ItemSet /\ p \in PageSet
      /\ 1 \in 1 .. Len(queue[t]) /\ p = queue[t][1].page
  <2>1. queue[t] \in Seq(ItemSet) /\ Head(queue[t]) \in ItemSet /\ Head(queue[t]) = queue[t][1]
        /\ Len(queue[t]) \in Nat \ {0}
    BY <1>2
  <2>2. QED BY <2>1 DEF ItemSet
<1>4. p.stream = t
  BY <1>3, Zenon DEF StreamsKept, StreamKept
<1> SUFFICES ASSUME NEW s \in Streams PROVE StreamKept(s)'
  BY DEF StreamsKept
<1>5. StreamKept(s) /\ (Blank(s)' => Blank(s)) /\ SameDue(s)
  <2>1. Midway(s)' <=> Midway(s)
    BY Zenon DEF Midway, LacesLeft
  <2>2. QED BY <2>1, BlankShrinks, DueStays DEF StreamsKept
<1>6. CASE s # t
  <2>1. queue'[s] = queue[s]
    BY <1>1, <1>2, <1>6
  <2>2. Pages(s)' = Pages(s)
    <3>1. p.stream # s
      BY <1>4, <1>6
    <3> HIDE DEF p
    <3>2. QED BY <1>1, <1>2, <1>3, <2>1, <3>1, PagesStayOnWrite
  <2>3. QED BY <1>5, <2>1, <2>2, KeptOn
<1>7. CASE s = t
  <2>1. queue'[t] = Tail(queue[t]) /\ queue[t] # <<>>
    BY <1>1, <1>2
  <2>2. Pages(t)' = Pages(t)
    BY <1>1, <1>2, <1>4, <2>1, PagesLetOut
  <2>3. InOrder(Pages(t), buffered[t], DuePacket(t), DueLace(t))'
    BY <1>5, <1>7, <2>2, Zenon DEF StreamKept, InOrder, SameDue
  <2>4. \A i \in 1 .. Len(queue'[t]) : queue'[t][i].page.stream = t
    <3>1. \A i \in 1 .. Len(queue[t]) : queue[t][i].page.stream = t
      BY <1>5, <1>7, Zenon DEF StreamKept
    <3> DEFINE q == queue[t]
               r == Tail(q)
    <3>2. q \in Seq(ItemSet) /\ q # <<>> /\ \A i \in 1 .. Len(q) : q[i].page.stream = t
      BY <1>3, <2>1, <3>1
    <3> HIDE DEF q
    <3>3. Len(q) \in Nat /\ Len(r) = Len(q) - 1 /\ \A i \in 1 .. Len(r) : r[i] = q[i + 1]
      BY <3>2, HeadTailProperties
    <3> HIDE DEF r
    <3>4. \A i \in 1 .. Len(r) : i + 1 \in 1 .. Len(q)
      BY <3>3
    <3>5. \A i \in 1 .. Len(r) : r[i].page.stream = t
      BY <3>2, <3>3, <3>4
    <3>6. QED BY <2>1, <3>5 DEF q, r
  <2>5. Blank(t)' => Pages(t)' = <<>> /\ buffered'[t].segs = <<>> /\ ~bos_emitted'[t]
    BY <1>5, <1>7, <2>2, Zenon DEF StreamKept
  <2>6. QED BY <1>7, <2>3, <2>4, <2>5, Zenon DEF StreamKept
<1>8. QED BY <1>6, <1>7

LEMMA ReleaseKept ==
  ASSUME TypeInv, WriterInv, StreamsKept, MovesOn, ReleasePage \/ DrainPage
  PROVE  StreamsKept'
<1>1. UNCHANGED <<step, writing, buffered, bos_emitted, sent>>
  BY Zenon DEF ReleasePage, DrainPage, control
<1>2. PICK n \in Nat : Holding(n) # {} /\ WritePending(Order[Earliest(n)])
  <2>1. CASE ReleasePage
    BY <2>1, Zenon DEF ReleasePage, Releasable
  <2>2. CASE DrainPage
    BY <2>2, Zenon DEF DrainPage
  <2>3. QED BY <2>1, <2>2
<1>3. Order[Earliest(n)] \in Streams /\ queue[Order[Earliest(n)]] # <<>>
  BY <1>2, EarliestStream DEF TypeInv, DataInv
<1>4. QED BY <1>1, <1>2, <1>3, LetOutKept

\* The BOS page holds the first packet of a blank stream.
LEMMA BosKept ==
  ASSUME TypeInv, WriterInv, StreamsKept, MovesOn, WriteBos
  PROVE  StreamsKept'
<1> SUFFICES ASSUME NEW t \in Streams, t \in Current, t = Turn PROVE StreamsKept'
  BY TurnType DEF TypeInv
<1> DEFINE segs == <<Lace(1, 1, 1)>>
           p == Page(t, {"bos"}, 0, segs, 0)
<1>1. /\ step = "none" /\ step' = "none" /\ NextTurn
      /\ \/ stage = "theora_bos" /\ t \in Theora
         \/ stage = "other_bos" /\ t \notin Theora
  BY DEF WriteBos, BosTurn, InPass, Inside
<1>2. /\ wire' = Append(wire, p)
      /\ sent' = [sent EXCEPT ![t] = Append(@, HeaderPacket)]
      /\ bos_emitted' = [bos_emitted EXCEPT ![t] = TRUE]
      /\ UNCHANGED <<queue, buffered, link, header_written>>
  BY DEF WriteBos, calls
<1>3. /\ segs \in Seq(LaceSet) /\ Len(segs) = 1 /\ segs # <<>> /\ segs \in SegsSet
      /\ segs[1].pkt = 1 /\ segs[1].n = 1 /\ segs[1].open = FALSE
  <2>1. Lace(1, 1, 1) = [pkt |-> 1, n |-> 1, open |-> FALSE]
    <3>1. (1 < 1) = FALSE
      OBVIOUS
    <3>2. QED BY <3>1, Zenon DEF Lace
  <2>2. Lace(1, 1, 1) \in LaceSet
    <3>1. [pkt |-> 1, n |-> 1, open |-> FALSE] \in LaceSet
      BY DEF LaceSet
    <3>2. QED BY <2>1, <3>1, Zenon
  <2>3. QED BY <2>1, <2>2, MuxAssumption DEF SegsSet
<1> HIDE DEF segs
<1>4. p \in PageSet
  <2>1. {"bos"} \in PageFlags /\ 0 \in Granules /\ 0 \in Nat
    BY DEF PageFlags, Granules
  <2>2. QED BY <1>3, <2>1, PageType DEF TypeInv, DataInv
<1>5. p.stream = t /\ p.segs = segs /\ "cont" \notin p.flags
  BY DEF Page
<1> HIDE DEF p
<1>6. WireInv /\ QueuesInv /\ sent \in [Streams -> Seq(Packet)] /\ bos_emitted \in [Streams -> BOOLEAN]
  BY DEF TypeInv, DataInv, SentInv, BosInv
<1>7. header_written
  BY <1>1 DEF WriterInv
<1> SUFFICES ASSUME NEW s \in Streams PROVE StreamKept(s)'
  BY DEF StreamsKept
<1>8. StreamKept(s) /\ (Blank(s)' => Blank(s)) /\ ~Midway(s) /\ ~Midway(s)'
  BY <1>1, BlankShrinks DEF StreamsKept, Midway
<1>9. CASE s # t
  <2>1. sent'[s] = sent[s] /\ bos_emitted'[s] = bos_emitted[s]
    BY <1>2, <1>6, <1>9
  <2>2. SameDue(s)
    BY <1>8, <2>1, Zenon DEF SameDue, DuePacket, DueLace
  <2>3. Pages(s)' = Pages(s)
    BY <1>2, <1>4, <1>5, <1>6, <1>9, PagesStayOnWrite
  <2>4. QED BY <1>2, <1>8, <2>1, <2>2, <2>3, KeptOn
<1>10. CASE s = t
  <2>1. Blank(t)
    <3>1. ~Passed(t)
      BY TurnNotPassed DEF TypeInv
    <3>2. BosDue(t)
      BY <1>1, <3>1 DEF BosDue
    <3>3. QED BY <3>2, Zenon DEF Blank
  <2>2. Pages(t) = <<>> /\ buffered[t].segs = <<>> /\ queue[t] = <<>>
    BY <1>6, <1>8, <1>10, <2>1, EmptyPages DEF StreamKept
  <2>3. Pages(t)' = Append(Pages(t), p) /\ Pages(t) \in Seq(PageSet)
    BY <1>2, <1>4, <1>5, <1>6, <2>2, PagesWritten, PagesType
  <2>4. InOrder(Pages(t), buffered[t], Len(sent[t]) + 1, 1)
    BY <1>8, <1>10, Zenon DEF StreamKept, DuePacket, DueLace
  <2> DEFINE x == LacesOn(Pages(t))
  <2>5. x = <<>>
    <3>1. [i \in DOMAIN Pages(t) |-> Pages(t)[i].segs] = <<>>
      BY <2>2
    <3>2. FlattenSeq(<<>>) = <<>>
      <4>1. Len(<<>>) = 0
        OBVIOUS
      <4>2. QED BY <4>1, Zenon DEF FlattenSeq
    <3>3. QED BY <3>1, <3>2, Zenon DEF LacesOn
  <2>6. x \in Seq(LaceSet) /\ LacesOn(Pages(t)') = x \o segs
    BY <1>4, <1>5, <2>3, LacesOnType, LacesOnMore
  <2>7. Chain(x \o buffered[t].segs, Len(sent[t]) + 1, 1)
    BY <2>4, Zenon DEF InOrder
  <2> HIDE DEF x
  <2>8. Len(sent[t]) = 0
    <3>1. x \o buffered[t].segs = <<>>
      BY <2>2, <2>5
    <3>2. Len(sent[t]) + 1 = 1 /\ Len(sent[t]) \in Nat
      BY <1>6, <2>7, <3>1 DEF Chain
    <3>3. QED BY <3>2
  <2>9. DuePacket(t)' = 2 /\ DueLace(t)' = 1
    <3>1. sent'[t] = Append(sent[t], HeaderPacket)
      BY <1>2, <1>6
    <3>2. Len(sent'[t]) = 1
      BY <1>6, <2>8, <3>1, HeaderPacketType, AppendProperties
    <3>3. QED BY <1>8, <1>10, <3>2 DEF DuePacket, DueLace
  <2>10. Chain(LacesOn(Pages(t)') \o buffered'[t].segs, 2, 1)
    <3>1. LacesOn(Pages(t)') \o buffered'[t].segs = segs
      BY <1>2, <1>3, <2>2, <2>5, <2>6
    <3>2. Chain(segs, 2, 1)
      BY <1>3 DEF Chain, Due
    <3>3. QED BY <3>1, <3>2
  <2>11. Last(segs) = segs[1]
    BY <1>3 DEF Last
  <2>12. Continued(Pages(t)') /\ ~LeftOpen(Pages(t)')
    <3>1. Continued(Pages(t)) /\ ~LeftOpen(Pages(t)) /\ ~Open(p)
      BY <1>3, <1>5, <2>2, <2>4, <2>11 DEF LeftOpen, Open, InOrder
    <3>2. QED BY <1>4, <1>5, <2>3, <3>1, ContinuedOn
  <2>13. ~buffered'[t].cont
    BY <1>2, <2>2, <2>4 DEF InOrder, LeftOpen
  <2>14. InOrder(Pages(t), buffered[t], DuePacket(t), DueLace(t))'
    BY <2>9, <2>10, <2>12, <2>13, Zenon DEF InOrder
  <2>15. ~Blank(t)'
    <3>1. /\ Later(t)' = Later(t) /\ (t \in Current)' = (t \in Current) /\ ~Later(t)
      BY <1>2, LinkKept, Placing DEF Placed, TypeInv, ControlInv
    <3>2. TurnOver
      BY <1>1, <1>2, TurnPasses DEF TypeInv
    <3>3. ~BosDue(t)'
      <4>1. CASE stage' = stage /\ Passed(t)'
        BY <1>1, <1>2, <1>7, <4>1 DEF BosDue
      <4>2. CASE stage' = After(stage)
        BY <1>1, <1>2, <1>7, <4>2 DEF BosDue, After
      <4>3. QED BY <3>2, <4>1, <4>2, Zenon DEF TurnOver
    <3>4. QED BY <3>1, <3>3, Zenon DEF Blank
  <2>16. \A i \in 1 .. Len(queue'[t]) : queue'[t][i].page.stream = t
    BY <1>2, <1>8, <1>10, Zenon DEF StreamKept
  <2>17. QED BY <1>10, <2>14, <2>15, <2>16, Zenon DEF StreamKept
<1>11. QED BY <1>9, <1>10

\* EOS goes on a page made already, or on one without laces, and no packet is
\* open when a stream is closed.
LEMMA CloseKept ==
  ASSUME TypeInv, WriterInv, StreamsKept, MovesOn, CloseStream
  PROVE  StreamsKept'
<1> SUFFICES ASSUME NEW t \in Streams, t \in Current, t = Turn PROVE StreamsKept'
  BY TurnType DEF TypeInv
<1>1. /\ step = "none" /\ step' = "none"
      /\ UNCHANGED <<wire, sent, bos_emitted, buffered, link, header_written>>
  BY DEF CloseStream, Closing, Inside, calls
<1>2. buffered[t].segs = <<>>
  BY DEF CloseStream
<1>3. /\ WireInv /\ QueuesInv /\ queue \in [Streams -> Seq(ItemSet)]
      /\ newest_time[t] \in Nat /\ last_granule[t] \in Nat
  BY DEF TypeInv, DataInv, QueuesInv, ClocksInv
<1>4. Len(queue[t]) \in Nat /\ queue[t] \in Seq(ItemSet)
  BY <1>3
<1>5. \A s \in Streams : s # t => queue'[s] = queue[s]
  BY <1>3, <1>4 DEF CloseStream
<1> SUFFICES ASSUME NEW s \in Streams PROVE StreamKept(s)'
  BY DEF StreamsKept
<1>6. StreamKept(s) /\ (Blank(s)' => Blank(s)) /\ SameDue(s) /\ ~Midway(s)
  BY <1>1, BlankShrinks, DueBetween DEF StreamsKept, Midway
<1>7. CASE s # t
  BY <1>1, <1>5, <1>6, <1>7, PagesStay, KeptOn
<1>8. CASE s = t
  <2>1. InOrder(Pages(t), buffered[t], DuePacket(t), 1) /\ DueLace(t) = 1
    BY <1>6, <1>8, Zenon DEF StreamKept, DueLace
  <2>2. Pages(t) \in Seq(PageSet)
    BY <1>3, PagesType
  <2>3. ASSUME Continued(Pages(t)'), LeftOpen(Pages(t)') <=> LeftOpen(Pages(t)),
               LacesOn(Pages(t)') = LacesOn(Pages(t))
        PROVE  InOrder(Pages(t), buffered[t], DuePacket(t), DueLace(t))'
    BY <1>1, <1>6, <1>8, <2>1, <2>3, Zenon DEF InOrder, SameDue
  <2>4. CASE Len(queue[t]) > 0
    <3> DEFINE n    == Len(queue[t])
               old  == queue[t][n].page
               p    == [old EXCEPT !.flags = @ \cup {"eos"}]
               item == [queue[t][n] EXCEPT !.page = p]
    <3>1. queue' = [queue EXCEPT ![t][n].page.flags = @ \cup {"eos"}]
      BY <2>4 DEF CloseStream
    <3>2. n \in 1 .. n /\ queue[t][n] \in ItemSet /\ old \in PageSet /\ queue[t] # <<>>
      <4>1. n \in 1 .. n /\ queue[t][n] \in ItemSet /\ queue[t] # <<>>
        BY <1>4, <2>4
      <4>2. QED BY <4>1 DEF ItemSet
    <3>3. /\ p.stream = old.stream /\ p.segs = old.segs /\ p.flags = old.flags \cup {"eos"}
          /\ p \in PageSet
      BY <3>2 DEF PageSet, PageFlags
    <3>4. item \in ItemSet /\ item.page = p
      BY <3>2, <3>3 DEF ItemSet
    <3>5. queue'[t] = [queue[t] EXCEPT ![n] = item]
      BY <1>3, <3>1
    <3>6. old.stream = t
      BY <1>6, <1>8, <3>2, Zenon DEF StreamKept
    <3> HIDE DEF item, p
    <3>7. /\ Pages(t) # <<>> /\ Pages(t)[Len(Pages(t))] = old
          /\ Pages(t)' = [Pages(t) EXCEPT ![Len(Pages(t))] = p]
      BY <1>1, <1>3, <3>2, <3>4, <3>5, PagesClosed
    <3>8. Rewritten(Pages(t), Pages(t)', p) /\ Pages(t)' \in Seq(PageSet)
      <4>1. Rewritten(Pages(t), Pages(t)', p)
        BY <2>2, <3>3, <3>7, Replaced
      <4>2. Len(Pages(t)) \in 1 .. Len(Pages(t)) /\ DOMAIN Pages(t) = 1 .. Len(Pages(t))
        BY <2>2, <4>1 DEF Rewritten
      <4> DEFINE x == Pages(t)
      <4>3. x \in Seq(PageSet) /\ Len(x) \in 1 .. Len(x)
        BY <2>2, <4>2
      <4> HIDE DEF x
      <4>4. [x EXCEPT ![Len(x)] = p] \in Seq(PageSet)
        BY <3>3, <4>3
      <4>5. QED BY <3>7, <4>1, <4>4 DEF x
    <3>9. \A i \in 1 .. Len(Pages(t)) :
            /\ Pages(t)'[i].segs = Pages(t)[i].segs
            /\ "cont" \in Pages(t)'[i].flags <=> "cont" \in Pages(t)[i].flags
      <4> DEFINE x == Pages(t)
                 y == Pages(t)'
      <4>1. /\ y[Len(x)] = p /\ x[Len(x)] = old
            /\ \A i \in 1 .. Len(x) : i # Len(x) => y[i] = x[i]
        BY <3>7, <3>8 DEF Rewritten
      <4>2. p.segs = old.segs /\ ("cont" \in p.flags <=> "cont" \in old.flags)
        BY <3>3
      <4> HIDE DEF x, y
      <4> SUFFICES ASSUME NEW i \in 1 .. Len(x)
                   PROVE  y[i].segs = x[i].segs /\ ("cont" \in y[i].flags <=> "cont" \in x[i].flags)
        BY DEF x, y
      <4>3. CASE i = Len(x)
        BY <4>1, <4>2, <4>3
      <4>4. CASE i # Len(x)
        BY <4>1, <4>4
      <4>5. QED BY <4>3, <4>4
    <3>10. Len(Pages(t)') = Len(Pages(t))
      BY <3>8 DEF Rewritten
    <3>11. LacesOn(Pages(t)') = LacesOn(Pages(t))
      BY <2>2, <3>8, <3>9, <3>10, LacesOnRewritten
    <3>12. (Continued(Pages(t)') <=> Continued(Pages(t))) /\ (LeftOpen(Pages(t)') <=> LeftOpen(Pages(t)))
      BY <2>2, <3>8, <3>9, <3>10, ContinuedRewritten
    <3>13. InOrder(Pages(t), buffered[t], DuePacket(t), DueLace(t))'
      BY <2>1, <2>3, <3>11, <3>12, Zenon DEF InOrder
    <3>14. ~Blank(t)'
      BY <1>6, <1>8, <3>7, Zenon DEF StreamKept
    <3>15. \A i \in 1 .. Len(queue'[t]) : queue'[t][i].page.stream = t
      <4>1. \A i \in 1 .. Len(queue[t]) : queue[t][i].page.stream = t
        BY <1>6, <1>8, Zenon DEF StreamKept
      <4>2. item.page.stream = t
        BY <3>3, <3>4, <3>6
      <4> DEFINE q == queue[t]
                 r == [q EXCEPT ![n] = item]
      <4>3. q \in Seq(ItemSet) /\ \A i \in 1 .. Len(q) : q[i].page.stream = t
        BY <1>4, <4>1
      <4> HIDE DEF q
      <4>4. Len(r) = Len(q) /\ \A i \in 1 .. Len(q) : r[i] = IF i = n THEN item ELSE q[i]
        BY <4>3
      <4> HIDE DEF r, n
      <4>5. \A i \in 1 .. Len(r) : r[i].page.stream = t
        BY <4>2, <4>3, <4>4
      <4>6. QED BY <3>5, <4>5 DEF q, r
    <3>16. QED BY <1>8, <3>13, <3>14, <3>15, Zenon DEF StreamKept
  <2>5. CASE Len(queue[t]) = 0 /\ bos_emitted[t]
    <3> DEFINE p == Page(t, {"eos"}, last_granule[t], <<>>, newest_time[t])
               item == [kf |-> NoPts, page |-> p]
    <3>1. queue' = [queue EXCEPT ![t] = <<item>>]
      BY <2>5 DEF CloseStream
    <3>2. p \in PageSet
      <4>1. {"eos"} \in PageFlags /\ <<>> \in SegsSet /\ last_granule[t] \in Granules
        BY <1>3, MuxAssumption DEF PageFlags, SegsSet, Granules
      <4>2. QED BY <1>3, <4>1, PageType DEF TypeInv, DataInv
    <3>3. p.stream = t /\ p.segs = <<>> /\ p.flags = {"eos"}
      BY DEF Page
    <3>4. item \in ItemSet /\ item.page = p
      BY <3>2 DEF ItemSet, Granules
    <3> HIDE DEF p, item
    <3>5. queue[t] = <<>> /\ queue'[t] = <<item>> /\ queue'[t] = Append(queue[t], item)
      <4>1. queue[t] = <<>>
        BY <1>4, <2>5, EmptySeq
      <4>2. queue'[t] = <<item>>
        BY <1>3, <3>1
      <4>3. Append(<<>>, item) = <<item>>
        OBVIOUS
      <4>4. QED BY <4>1, <4>2, <4>3
    <3>6. Pages(t)' = Append(Pages(t), p)
      BY <1>1, <1>3, <3>4, <3>5, PagesQueued
    <3>7. ~LeftOpen(Pages(t))
      BY <1>2, <2>1 DEF InOrder
    <3>8. Continued(Pages(t)') /\ ~LeftOpen(Pages(t)')
      <4>1. Continued(Pages(t)) /\ ~Open(p) /\ "cont" \notin p.flags
        BY <2>1, <3>3 DEF InOrder, Open
      <4>2. QED BY <2>2, <3>2, <3>6, <3>7, <4>1, ContinuedOn
    <3>9. LacesOn(Pages(t)') = LacesOn(Pages(t))
      <4>1. LacesOn(Pages(t)') = LacesOn(Pages(t)) \o <<>> /\ LacesOn(Pages(t)) \in Seq(LaceSet)
        BY <2>2, <3>2, <3>3, <3>6, LacesOnMore, LacesOnType
      <4> DEFINE x == LacesOn(Pages(t))
      <4>2. x \in Seq(LaceSet)
        BY <4>1
      <4> HIDE DEF x
      <4>3. x \o <<>> = x
        BY <4>2
      <4>4. QED BY <4>1, <4>3 DEF x
    <3>10. InOrder(Pages(t), buffered[t], DuePacket(t), DueLace(t))'
      BY <2>3, <3>7, <3>8, <3>9
    <3>11. ~Blank(t)'
      BY <1>6, <1>8, <2>5, Zenon DEF StreamKept
    <3>12. \A i \in 1 .. Len(queue'[t]) : queue'[t][i].page.stream = t
      BY <3>3, <3>4, <3>5
    <3>13. QED BY <1>8, <3>10, <3>11, <3>12, Zenon DEF StreamKept
  <2>6. CASE Len(queue[t]) = 0 /\ ~bos_emitted[t]
    <3>1. queue'[t] = queue[t]
      BY <2>6 DEF CloseStream
    <3>2. QED BY <1>1, <1>6, <1>8, <3>1, PagesStay, KeptOn
  <2>7. QED BY <1>4, <2>4, <2>5, <2>6
<1>9. QED BY <1>7, <1>8

-----------------------------------------------------------------------------
(* The invariant holds.                                                    *)

LEMMA NoPages ==
  ASSUME Init, NEW s \in Streams
  PROVE  Pages(s) = <<>>
<1>1. wire = <<>> /\ queue[s] = <<>>
  BY DEF Init
<1>2. FlattenSeq(<<>>) = <<>>
  <2>1. Len(<<>>) = 0
    OBVIOUS
  <2>2. QED BY <2>1, Zenon DEF FlattenSeq
<1> DEFINE parts == [i \in DOMAIN wire |-> IF wire[i].stream = s THEN <<wire[i]>> ELSE <<>>]
<1>3. parts = <<>>
  BY <1>1
<1>4. OnWire(s) = <<>>
  BY <1>2, <1>3, Zenon DEF OnWire
<1>5. Queued(s) = <<>>
  BY <1>1 DEF Queued
<1>6. QED BY <1>4, <1>5 DEF Pages

LEMMA InitPackets == Init => PacketsInv
<1> SUFFICES ASSUME Init PROVE PacketsInv
  OBVIOUS
<1>1. WriterInv
  BY DEF Init, WriterInv
<1> SUFFICES ASSUME NEW s \in Streams PROVE StreamKept(s)
  BY <1>1 DEF PacketsInv, StreamsKept
<1>2. /\ wire = <<>> /\ queue[s] = <<>> /\ bos_emitted[s] = FALSE /\ sent[s] = <<>> /\ step = "none"
      /\ buffered[s].segs = <<>> /\ buffered[s].cont = FALSE
  BY DEF Init, EmptyBuilder
<1>3. FlattenSeq(<<>>) = <<>>
  <2>1. Len(<<>>) = 0
    OBVIOUS
  <2>2. QED BY <2>1, Zenon DEF FlattenSeq
<1>4. Pages(s) = <<>>
  BY NoPages
<1>5. LacesOn(<<>>) = <<>>
  <2>1. [i \in DOMAIN <<>> |-> <<>>[i].segs] = <<>>
    OBVIOUS
  <2>2. QED BY <1>3, <2>1, Zenon DEF LacesOn
<1>6. DuePacket(s) = 1 /\ DueLace(s) = 1
  BY <1>2 DEF DuePacket, DueLace, Midway
<1>7. Chain(<<>>, 1, 1) /\ Continued(<<>>) /\ ~LeftOpen(<<>>)
  BY DEF Chain, Continued, LeftOpen
<1>8. LacesOn(Pages(s)) \o buffered[s].segs = <<>>
  BY <1>2, <1>4, <1>5
<1>9. InOrder(Pages(s), buffered[s], DuePacket(s), DueLace(s))
  BY <1>2, <1>4, <1>6, <1>7, <1>8, Zenon DEF InOrder
<1>10. QED BY <1>2, <1>4, <1>9 DEF StreamKept

LEMMA StepPackets ==
  ASSUME TypeInv, PacketsInv, [Next]_vars
  PROVE  PacketsInv'
<1>1. WriterInv /\ StreamsKept
  BY DEF PacketsInv
<1>2. MovesOn
  BY Moving
<1>3. WriterInv'
  BY <1>1, WriterStep
<1>4. StreamsKept'
  <2>1. CASE \/ WriteHeader \/ BeginNewLink \/ WriteTrailer \/ Arm \/ ArmSkeleton \/ NextLink
             \/ WriteSecondary \/ PassTurn \/ ReleaseDone \/ DrainDone \/ CloseFlush \/ Backfill
             \/ UNCHANGED vars
             \/ \E t \in Targets \cup {NoTarget} : SetPageTarget(t)
             \/ \E s \in Streams : \E p \in Packets[s] : WritePacket(s, p)
    BY <1>1, <1>2, <2>1, MovingKept
  <2>2. CASE WriteSkeletonPage
    BY <1>1, <1>2, <2>2, SkeletonKept
  <2>3. CASE StampHeader \/ StampContent \/ StampTheora
    BY <1>1, <1>2, <2>3, StampKept
  <2>4. CASE BeginPacket
    BY <1>1, <1>2, <2>4, BeginKept
  <2>5. CASE PutLaces
    BY <1>1, <1>2, <2>5, PutKept
  <2>6. CASE FlushPage
    BY <1>1, <1>2, <2>6, FlushKept
  <2>7. CASE ReleasePage \/ DrainPage
    BY <1>1, <1>2, <2>7, ReleaseKept
  <2>8. CASE WriteBos
    BY <1>1, <1>2, <2>8, BosKept
  <2>9. CASE CloseStream
    BY <1>1, <1>2, <2>9, CloseKept
  <2>10. QED
    BY <2>1, <2>2, <2>3, <2>4, <2>5, <2>6, <2>7, <2>8, <2>9, Zenon DEF Next, Calls, Steps, Terminated
<1>5. QED BY <1>3, <1>4 DEF PacketsInv

LEMMA PacketsImply ==
  ASSUME TypeInv, PacketsInv
  PROVE  PacketsKept
<1> SUFFICES ASSUME NEW s \in Streams
    PROVE LET laces == Laces(s) pages == Pages(s) IN
      /\ laces # <<>> => laces[1].pkt = 1 /\ laces[1].n = 1
      /\ \A i \in 1 .. Len(laces) - 1 : Follows(laces[i], laces[i + 1])
      /\ Idle => IF laces = <<>> THEN sent[s] = <<>>
                 ELSE Last(laces).pkt = Len(sent[s]) /\ ~Last(laces).open
      /\ \A i \in DOMAIN pages :
           "cont" \in pages[i].flags <=>
             i > 1 /\ pages[i - 1].segs # <<>> /\ Last(pages[i - 1].segs).open
  BY Zenon DEF PacketsKept
<1>1. InOrder(Pages(s), buffered[s], DuePacket(s), DueLace(s))
  BY DEF PacketsInv, StreamsKept, StreamKept
<1>2. Pages(s) \in Seq(PageSet) /\ buffered[s].segs \in Seq(LaceSet) /\ sent[s] \in Seq(Packet)
  <2>1. buffered[s] \in BuilderSet /\ sent[s] \in Seq(Packet)
    BY DEF TypeInv, DataInv, BuffersInv, SentInv
  <2>2. QED BY <2>1, PagesType DEF TypeInv, DataInv, BuilderSet, SegsSet
<1> DEFINE x == Laces(s)
           y == Pages(s)
<1>3. x = LacesOn(y) \o buffered[s].segs
  BY Zenon DEF Laces, LacesOn
<1>4. Chain(x, DuePacket(s), DueLace(s)) /\ Continued(y)
  BY <1>1, <1>3, Zenon DEF InOrder
<1>5. x \in Seq(LaceSet)
  <2>1. LacesOn(y) \in Seq(LaceSet)
    BY <1>2, LacesOnType
  <2> DEFINE a == LacesOn(y)
             b == buffered[s].segs
  <2>2. a \in Seq(LaceSet) /\ b \in Seq(LaceSet) /\ x = a \o b
    BY <1>2, <1>3, <2>1
  <2> HIDE DEF a, b, x
  <2>3. QED BY <2>2
<1>6. DOMAIN y = 1 .. Len(y)
  BY <1>2
<1>7. \A i \in DOMAIN y :
        "cont" \in y[i].flags <=> i > 1 /\ y[i - 1].segs # <<>> /\ Last(y[i - 1].segs).open
  <2> HIDE DEF y
  <2>1. QED BY <1>4, <1>6, Zenon DEF Continued, Open
<1> HIDE DEF x
<1>8. \A i \in 1 .. Len(x) - 1 : Follows(x[i], x[i + 1])
  BY <1>4, Zenon DEF Chain, Due, Follows
<1>9. x # <<>> => x[1].pkt = 1 /\ x[1].n = 1
  BY <1>4, Zenon DEF Chain
<1>10. Idle => IF x = <<>> THEN sent[s] = <<>> ELSE Last(x).pkt = Len(sent[s]) /\ ~Last(x).open
  <2> SUFFICES ASSUME Idle PROVE IF x = <<>> THEN sent[s] = <<>>
                                 ELSE Last(x).pkt = Len(sent[s]) /\ ~Last(x).open
    OBVIOUS
  <2>1. DuePacket(s) = Len(sent[s]) + 1 /\ DueLace(s) = 1
    BY DEF Idle, DuePacket, DueLace, Midway
  <2>2. Len(sent[s]) \in Nat
    BY <1>2
  <2>3. CASE x = <<>>
    <3>1. Len(sent[s]) = 0
      BY <1>4, <2>1, <2>2, <2>3 DEF Chain
    <3>2. sent[s] = <<>>
      BY <1>2, <3>1, EmptySeq
    <3>3. QED BY <2>3, <3>2
  <2>4. CASE x # <<>>
    <3>1. Len(x) \in 1 .. Len(x) /\ x[Len(x)] \in LaceSet
      BY <1>5, <2>4
    <3>2. Due(x[Len(x)], Len(sent[s]) + 1, 1) /\ x[Len(x)].n > 0
      BY <1>4, <2>1, <2>4, <3>1 DEF Chain
    <3>3. x[Len(x)].n \in Nat /\ x[Len(x)].pkt \in Nat
      BY <3>1 DEF LaceSet
    <3>4. x[Len(x)].pkt = Len(sent[s]) /\ ~x[Len(x)].open
      BY <2>2, <3>2, <3>3 DEF Due
    <3>5. Last(x) = x[Len(x)]
      BY Zenon DEF Last
    <3>6. QED BY <2>4, <3>4, <3>5
  <2>5. QED BY <2>3, <2>4
<1>11. QED BY <1>7, <1>8, <1>9, <1>10, Zenon DEF x

\* No lace of a packet is lost, doubled or out of place on its way through the
\* builder, the queue and the wire, and continuation flags tell of packets that
\* span pages (mux.rs: append_packet_spanning, flush_page, write_header,
\* finalize_current_link), in whatever order the caller makes his calls.
THEOREM PacketsInOrder == Spec => []PacketsKept
<1>1. Init => TypeInv /\ PacketsInv
  BY InitType, InitPackets
<1>2. TypeInv /\ PacketsInv /\ [Next]_vars => TypeInv' /\ PacketsInv'
  BY TypeStep, StepPackets
<1>3. TypeInv /\ PacketsInv => PacketsKept
  BY PacketsImply
<1>4. QED BY <1>1, <1>2, <1>3, PTL DEF Spec
=============================================================================
