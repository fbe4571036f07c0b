---------------------------- MODULE OggMuxGranules ----------------------------
(***************************************************************************)
(* What the muxer stamps on pages and notes for the Skeleton.              *)
(*                                                                         *)
(* PageGranules speaks of pages that are written.  StampedInv says the     *)
(* same of the page in the builder, and of what the stamp of the next      *)
(* packet is computed from: the headers still due, the frame counted and   *)
(* the timestamps noted, each a function of the packets seen so far.       *)
(*                                                                         *)
(* KeypointsLand speaks of keypoints on the wire.  KeysInv follows a       *)
(* keyframe's timestamp from the builder by way of the queue to the index, *)
(* next to the page on which the keyframe begins.  It needs that a packet  *)
(* that fits a page is put on one as a whole (WholeInv): the timestamp is  *)
(* noted only after the last lace.                                         *)
(*                                                                         *)
(* SkeletonTells speaks of what the trailer rewrote.  TellsInv says that   *)
(* the offset of content, measured when the header section is left,        *)
(* separates headers from data for good, and that nothing moves after the  *)
(* trailer.                                                                *)
(***************************************************************************)
EXTENDS OggMuxOrder

-----------------------------------------------------------------------------
(* Frame numbers: the equations of FrameAt.                                *)

\* f runs the recursion of FrameAt from h to n.
FrameRun(f, packets, lost, h, n) ==
  f = [k \in h .. n |->
        IF k = h THEN -1
        ELSE IF k \in lost THEN f[k - 1]
        ELSE IF packets[k].pts = NoPts THEN f[k - 1] + 1 ELSE packets[k].pts]

LEMMA FrameRunsExist ==
  ASSUME NEW packets, NEW lost, NEW h \in Nat, NEW n \in Nat, h <= n
  PROVE  \E f : FrameRun(f, packets, lost, h, n)
<1> DEFINE T == {k \in Nat : ~\E f : FrameRun(f, packets, lost, h, h + k)}
<1>1. SUFFICES ASSUME T # {} PROVE FALSE
  <2>1. n - h \in Nat /\ h + (n - h) = n
    OBVIOUS
  <2>2. T = {} => \E f : FrameRun(f, packets, lost, h, h + (n - h))
    BY <2>1
  <2>3. QED BY <2>1, <2>2
<1>2. PICK k \in T : \A m \in T : k <= m
  BY <1>1, LeastNatural
<1>3. CASE k = 0
  <2> DEFINE e == [i \in h .. h |-> -1]
  <2>1. \A i \in h .. h : i = h
    OBVIOUS
  <2>2. FrameRun(e, packets, lost, h, h)
    BY <2>1 DEF FrameRun
  <2>3. QED BY <1>2, <1>3, <2>2
<1>4. CASE k # 0
  <2>1. k \in Nat /\ k - 1 \in Nat /\ k - 1 \notin T
    BY <1>2, <1>4
  <2>2. PICK f : FrameRun(f, packets, lost, h, h + (k - 1))
    BY <2>1
  <2> DEFINE j == h + k
             last == IF j \in lost THEN f[j - 1]
                     ELSE IF packets[j].pts = NoPts THEN f[j - 1] + 1 ELSE packets[j].pts
             g == [i \in h .. j |-> IF i = j THEN last ELSE f[i]]
  <2>3. j \in Nat /\ j - 1 = h + (k - 1) /\ j - 1 \in h .. j /\ j # h
    BY <2>1, <1>4
  <2> HIDE DEF j
  <2>4. ASSUME NEW i \in h .. j
        PROVE  g[i] = IF i = h THEN -1
                      ELSE IF i \in lost THEN g[i - 1]
                      ELSE IF packets[i].pts = NoPts THEN g[i - 1] + 1 ELSE packets[i].pts
    <3>1. CASE i = j
      <4>1. g[i] = last /\ g[i - 1] = f[i - 1]
        <5> HIDE DEF last
        <5>1. QED BY <2>3, <3>1
      <4> HIDE DEF g
      <4>2. QED BY <2>3, <3>1, <4>1
    <3>2. CASE i # j
      <4>1. i \in h .. h + (k - 1) /\ (i # h => i - 1 \in h .. j /\ i - 1 # j)
        BY <2>3, <3>2
      <4>2. g[i] = f[i] /\ (i # h => g[i - 1] = f[i - 1])
        <5> HIDE DEF last
        <5>1. QED BY <3>2, <4>1
      <4> HIDE DEF g
      <4>3. f[i] = IF i = h THEN -1
                   ELSE IF i \in lost THEN f[i - 1]
                   ELSE IF packets[i].pts = NoPts THEN f[i - 1] + 1 ELSE packets[i].pts
        BY <2>2, <4>1 DEF FrameRun
      <4>4. QED BY <4>2, <4>3
    <3>3. QED BY <3>1, <3>2
  <2>5. g = [i \in h .. j |-> g[i]]
    <3> HIDE DEF last
    <3>1. QED OBVIOUS
  <2> HIDE DEF g, last
  <2>6. FrameRun(g, packets, lost, h, j)
    BY <2>4, <2>5 DEF FrameRun
  <2>7. QED BY <1>2, <2>6 DEF j
<1>5. QED BY <1>3, <1>4

LEMMA FrameAtRuns ==
  ASSUME NEW packets, NEW lost, NEW h \in Nat, NEW n \in Nat, h <= n
  PROVE  \E f : FrameRun(f, packets, lost, h, n) /\ FrameAt(packets, lost, h, n) = f[n]
<1> DEFINE f == CHOOSE f : f = [k \in h .. n |->
                  IF k = h THEN -1
                  ELSE IF k \in lost THEN f[k - 1]
                  ELSE IF packets[k].pts = NoPts THEN f[k - 1] + 1 ELSE packets[k].pts]
<1>1. FrameRun(f, packets, lost, h, n)
  <2>1. PICK g : FrameRun(g, packets, lost, h, n)
    BY FrameRunsExist
  <2>2. QED BY <2>1, Zenon DEF FrameRun
<1>2. FrameAt(packets, lost, h, n) = f[n]
  BY Zenon DEF FrameAt
<1>3. QED BY <1>1, <1>2, Zenon

\* What has been run of two sequences of packets agrees as long as they do.
LEMMA FrameRunsAgree ==
  ASSUME NEW p, NEW q, NEW l, NEW l2, NEW h \in Nat, NEW n \in Nat, NEW m \in Nat, NEW f, NEW g,
         FrameRun(f, p, l, h, n), FrameRun(g, q, l2, h, m), h <= n, n <= m,
         \A i \in h + 1 .. n : p[i].pts = q[i].pts /\ (i \in l <=> i \in l2)
  PROVE  f[n] = g[n]
<1> DEFINE T == {i \in h .. n : f[i] # g[i]}
<1>1. SUFFICES ASSUME T # {} PROVE FALSE
  <2>1. n \in h .. n
    OBVIOUS
  <2>2. QED BY <2>1
<1>2. PICK k \in T : \A i \in T : k <= i
  <2>1. T \in SUBSET Nat
    OBVIOUS
  <2>2. QED BY <1>1, <2>1, LeastNatural
<1>3. k \in h .. n /\ k \in h .. m /\ f[k] # g[k]
  BY <1>2
<1>4. f[k] = IF k = h THEN -1 ELSE IF k \in l THEN f[k - 1]
             ELSE IF p[k].pts = NoPts THEN f[k - 1] + 1 ELSE p[k].pts
  BY <1>3 DEF FrameRun
<1>5. g[k] = IF k = h THEN -1 ELSE IF k \in l2 THEN g[k - 1]
             ELSE IF q[k].pts = NoPts THEN g[k - 1] + 1 ELSE q[k].pts
  BY <1>3 DEF FrameRun
<1>6. k # h
  BY <1>3, <1>4, <1>5
<1>7. f[k - 1] = g[k - 1]
  <2>1. k - 1 \in h .. n /\ k - 1 \notin T
    BY <1>2, <1>3, <1>6
  <2>2. QED BY <2>1
<1>8. p[k].pts = q[k].pts /\ (k \in l <=> k \in l2)
  BY <1>3, <1>6
<1>9. QED BY <1>3, <1>4, <1>5, <1>6, <1>7, <1>8

\* The packets up to n alone decide its frame.
LEMMA FrameSame ==
  ASSUME NEW p, NEW q, NEW l, NEW l2, NEW h \in Nat, NEW n \in Nat, h <= n,
         \A i \in h + 1 .. n : p[i].pts = q[i].pts /\ (i \in l <=> i \in l2)
  PROVE  FrameAt(p, l, h, n) = FrameAt(q, l2, h, n)
<1>1. PICK f : FrameRun(f, p, l, h, n) /\ FrameAt(p, l, h, n) = f[n]
  BY FrameAtRuns
<1>2. PICK g : FrameRun(g, q, l2, h, n) /\ FrameAt(q, l2, h, n) = g[n]
  BY FrameAtRuns
<1>3. f[n] = g[n]
  BY <1>1, <1>2, FrameRunsAgree
<1>4. QED BY <1>1, <1>2, <1>3

\* The headers count for no frame, a packet without a timestamp for one more.
LEMMA FrameFirst ==
  ASSUME NEW p, NEW l, NEW h \in Nat
  PROVE  FrameAt(p, l, h, h) = -1
<1>1. PICK f : FrameRun(f, p, l, h, h) /\ FrameAt(p, l, h, h) = f[h]
  BY FrameAtRuns
<1>2. h \in h .. h
  OBVIOUS
<1>3. f[h] = -1
  BY <1>1, <1>2 DEF FrameRun
<1>4. QED BY <1>1, <1>3

LEMMA FrameNext ==
  ASSUME NEW p, NEW l, NEW h \in Nat, NEW n \in Nat, h <= n
  PROVE  FrameAt(p, l, h, n + 1) =
           IF n + 1 \in l THEN FrameAt(p, l, h, n)
           ELSE IF p[n + 1].pts = NoPts THEN FrameAt(p, l, h, n) + 1 ELSE p[n + 1].pts
<1> DEFINE m == n + 1
<1>1. m \in Nat /\ m - 1 = n /\ h <= m /\ m # h /\ m \in h .. m /\ n <= m
  OBVIOUS
<1> HIDE DEF m
<1>2. PICK f : FrameRun(f, p, l, h, m) /\ FrameAt(p, l, h, m) = f[m]
  BY <1>1, FrameAtRuns
<1>3. PICK g : FrameRun(g, p, l, h, n) /\ FrameAt(p, l, h, n) = g[n]
  BY FrameAtRuns
<1>4. g[n] = f[n]
  BY <1>1, <1>2, <1>3, FrameRunsAgree
<1>5. f[m] = IF m \in l THEN f[m - 1]
             ELSE IF p[m].pts = NoPts THEN f[m - 1] + 1 ELSE p[m].pts
  BY <1>1, <1>2 DEF FrameRun
<1>6. QED BY <1>1, <1>2, <1>3, <1>4, <1>5 DEF m

-----------------------------------------------------------------------------
(* The packets of a stream that were stamped.                              *)

\* The packets of s handed over, but for one on its way to its stamp.
Unstamped(s) == writing.s = s /\ (step = "stamp" \/ Midway(s))
Seen(s) == IF Unstamped(s) THEN Len(sent[s]) - 1 ELSE Len(sent[s])

\* Stamped and StampedPackets, of the first k of the packets of s.
StampIn(s, packets, lost, n) ==
  IF s \in Theora THEN FrameAt(packets, lost, HeaderCount(s), n) ELSE packets[n].pts
TimedIn(s, packets, lost, k) ==
  {n \in 1 .. k : /\ n > HeaderCount(s) /\ n \notin lost
                  /\ s \in Theora \/ packets[n].pts # NoPts}

\* The packets that end in laces, and the granule they ask for.
DoneIn(laces) == {laces[i].pkt : i \in {j \in DOMAIN laces : ~laces[j].open}}
Stamps(s, packets, lost, done, granule) ==
  IF done = {} THEN granule = NoPts
  ELSE /\ granule # NoPts
       /\ \E n \in done : /\ \A m \in done : m <= n
                          /\ GranuleFrame(s, granule) = StampIn(s, packets, lost, n)
Bears(s, packets, lost, k, laces, granule) ==
  laces # <<>> /\ laces[1].pkt > HeaderCount(s) =>
    Stamps(s, packets, lost, DoneIn(laces) \cap TimedIn(s, packets, lost, k), granule)

\* What the Skeleton is told of the first and the last timestamp.
Spans(s, packets, lost, timed, times) ==
  IF ~Skeleton \/ timed = {} THEN times = <<>>
  ELSE \E m, n \in timed : /\ \A i \in timed : m <= i /\ i <= n
                           /\ times = <<StampIn(s, packets, lost, m), StampIn(s, packets, lost, n)>>

\* Headers count down, and a Theora stream counts frames.
Counts(s, packets, lost, k, left, frame) ==
  /\ k \in Nat
  /\ left = IF k < Need[s] THEN Need[s] - k ELSE 0
  /\ s \in Theora =>
       frame = IF k < HeaderCount(s) THEN 0 ELSE FrameAt(packets, lost, HeaderCount(s), k) + 1

PageBears(s, packets, lost, k, p) ==
  /\ p.stream = s /\ \A n \in DoneIn(p.segs) : n <= k
  /\ Bears(s, packets, lost, k, p.segs, p.granule)

\* No extradata, or as many packets in it as the codec has headers.
Matching == \A s \in Streams : Headers[s] \in {0, Need[s]}

CountsTold(s) ==
  Counts(s, sent[s], Lost(s), Seen(s), headers_remaining[s], next_frame[s])
TimesTold(s) ==
  Spans(s, sent[s], Lost(s), TimedIn(s, sent[s], Lost(s), Seen(s)), sample_times[s])
BuilderTold(s) ==
  /\ Bears(s, sent[s], Lost(s), Seen(s), buffered[s].segs, buffered[s].granule)
  /\ buffered[s].segs = <<>> => buffered[s].granule = NoPts
PagesTold(s) ==
  \A i \in 1 .. Len(Pages(s)) : PageBears(s, sent[s], Lost(s), Seen(s), Pages(s)[i])
\* The packet under way is the last handed over, and those refused were seen.
LogTold(s) ==
  /\ Unstamped(s) => sent[s] # <<>> /\ sent[s][Len(sent[s])] = writing.p
  /\ \A r \in refused : r[1] = s => r[2] \in 1 .. Seen(s)
StreamTold(s) == LogTold(s) /\ CountsTold(s) /\ TimesTold(s) /\ BuilderTold(s) /\ PagesTold(s)
StreamsTold == \A s \in Streams : StreamTold(s)
StampedInv == sample_times = [s \in Streams |-> sample_times[s]] /\ StreamsTold

-----------------------------------------------------------------------------
(* The log of a stream only grows.                                         *)

\* Two logs agree on their first k packets.
SameLog(p, l, p2, l2, k) == \A i \in 1 .. k : p[i].pts = p2[i].pts /\ (i \in l <=> i \in l2)

LEMMA HeaderCounts ==
  ASSUME NEW s \in Streams
  PROVE  /\ Need[s] \in Nat \ {0} /\ HeaderCount(s) \in Nat \ {0}
         /\ Matching => HeaderCount(s) = Need[s]
BY MuxAssumption DEF HeaderCount, Matching

LEMMA TimedGrows ==
  ASSUME NEW s \in Streams, NEW p, NEW l, NEW p2, NEW l2, NEW k \in Nat, NEW k2 \in Nat, k <= k2,
         SameLog(p, l, p2, l2, k)
  PROVE  /\ \A n \in TimedIn(s, p, l, k) :
              n \in 1 .. k /\ n \in TimedIn(s, p2, l2, k2) /\ StampIn(s, p, l, n) = StampIn(s, p2, l2, n)
         /\ \A n \in TimedIn(s, p2, l2, k2) : n <= k => n \in TimedIn(s, p, l, k)
<1>1. HeaderCount(s) \in Nat
  BY HeaderCounts
<1>2. ASSUME NEW n \in 1 .. k PROVE n \in TimedIn(s, p, l, k) <=> n \in TimedIn(s, p2, l2, k2)
  <2>1. n \in 1 .. k2 /\ p[n].pts = p2[n].pts /\ (n \in l <=> n \in l2)
    BY DEF SameLog
  <2>2. QED BY <2>1 DEF TimedIn
<1>3. ASSUME NEW n \in TimedIn(s, p, l, k)
      PROVE  n \in 1 .. k /\ StampIn(s, p, l, n) = StampIn(s, p2, l2, n)
  <2>1. n \in 1 .. k /\ n > HeaderCount(s)
    BY DEF TimedIn
  <2>2. CASE s \in Theora
    <3>1. n \in Nat /\ HeaderCount(s) <= n
      BY <1>1, <2>1
    <3>2. \A i \in HeaderCount(s) + 1 .. n : p[i].pts = p2[i].pts /\ (i \in l <=> i \in l2)
      BY <1>1, <2>1 DEF SameLog
    <3>3. FrameAt(p, l, HeaderCount(s), n) = FrameAt(p2, l2, HeaderCount(s), n)
      BY <1>1, <3>1, <3>2, FrameSame
    <3>4. QED BY <2>1, <2>2, <3>3 DEF StampIn
  <2>3. CASE s \notin Theora
    BY <2>1, <2>3 DEF StampIn, SameLog
  <2>4. QED BY <2>2, <2>3
<1>4. \A n \in TimedIn(s, p2, l2, k2) : n <= k => n \in 1 .. k
  BY DEF TimedIn
<1>5. QED BY <1>2, <1>3, <1>4

\* Laces on which no packet ends that the longer log adds.
LEMMA BearsOn ==
  ASSUME NEW s \in Streams, NEW p, NEW l, NEW p2, NEW l2, NEW k \in Nat, NEW k2 \in Nat, k <= k2,
         SameLog(p, l, p2, l2, k), NEW laces, NEW granule, Bears(s, p, l, k, laces, granule),
         \A n \in DoneIn(laces) : n \in TimedIn(s, p2, l2, k2) => n <= k
  PROVE  Bears(s, p2, l2, k2, laces, granule)
<1> DEFINE done  == DoneIn(laces) \cap TimedIn(s, p, l, k)
           done2 == DoneIn(laces) \cap TimedIn(s, p2, l2, k2)
<1>1. done = done2 /\ \A n \in done : StampIn(s, p, l, n) = StampIn(s, p2, l2, n)
  BY TimedGrows
<1> HIDE DEF done, done2
<1>2. Stamps(s, p, l, done, granule) => Stamps(s, p2, l2, done2, granule)
  BY <1>1 DEF Stamps
<1>3. QED BY <1>2, Zenon DEF Bears, done, done2

LEMMA SpansOn ==
  ASSUME NEW s \in Streams, NEW p, NEW l, NEW p2, NEW l2, NEW k \in Nat, NEW k2 \in Nat, k <= k2,
         SameLog(p, l, p2, l2, k), NEW times, Spans(s, p, l, TimedIn(s, p, l, k), times),
         \A n \in TimedIn(s, p2, l2, k2) : n <= k
  PROVE  Spans(s, p2, l2, TimedIn(s, p2, l2, k2), times)
<1> DEFINE timed  == TimedIn(s, p, l, k)
           timed2 == TimedIn(s, p2, l2, k2)
<1>1. timed = timed2 /\ \A n \in timed : StampIn(s, p, l, n) = StampIn(s, p2, l2, n)
  BY TimedGrows
<1> HIDE DEF timed, timed2
<1>2. Spans(s, p, l, timed, times) => Spans(s, p2, l2, timed2, times)
  BY <1>1 DEF Spans
<1>3. QED BY <1>2, Zenon DEF timed, timed2

LEMMA DoneType ==
  ASSUME NEW x \in Seq(LaceSet)
  PROVE  \A n \in DoneIn(x) : n \in Nat /\ \E i \in 1 .. Len(x) : x[i].pkt = n /\ ~x[i].open
<1>1. \A i \in 1 .. Len(x) : x[i] \in LaceSet
  OBVIOUS
<1>2. \A i \in 1 .. Len(x) : x[i].pkt \in Nat
  BY <1>1 DEF LaceSet
<1>3. DOMAIN x = 1 .. Len(x)
  OBVIOUS
<1>4. QED BY <1>2, <1>3 DEF DoneIn

LEMMA PageBearsOn ==
  ASSUME NEW s \in Streams, NEW p, NEW l, NEW p2, NEW l2, NEW k \in Nat, NEW k2 \in Nat, k <= k2,
         SameLog(p, l, p2, l2, k), NEW page \in PageSet, PageBears(s, p, l, k, page)
  PROVE  PageBears(s, p2, l2, k2, page)
<1>1. page.segs \in Seq(LaceSet)
  BY DEF PageSet, SegsSet
<1>2. \A n \in DoneIn(page.segs) : n \in Nat
  BY <1>1, DoneType
<1>3. \A n \in DoneIn(page.segs) : n <= k2 /\ n <= k
  BY <1>2 DEF PageBears
<1>4. Bears(s, p2, l2, k2, page.segs, page.granule)
  BY <1>3, BearsOn, Zenon DEF PageBears
<1>5. QED BY <1>3, <1>4, Zenon DEF PageBears

LEMMA FrameOn ==
  ASSUME NEW p, NEW l, NEW p2, NEW l2, NEW h \in Nat, NEW k \in Nat, h <= k, SameLog(p, l, p2, l2, k)
  PROVE  FrameAt(p, l, h, k) = FrameAt(p2, l2, h, k)
<1>1. \A i \in h + 1 .. k : p[i].pts = p2[i].pts /\ (i \in l <=> i \in l2)
  BY DEF SameLog
<1>2. QED BY <1>1, FrameSame

LEMMA CountsOn ==
  ASSUME NEW s \in Streams, NEW p, NEW l, NEW p2, NEW l2, NEW k, SameLog(p, l, p2, l2, k),
         NEW left, NEW frame, Counts(s, p, l, k, left, frame)
  PROVE  Counts(s, p2, l2, k, left, frame)
<1>1. k \in Nat /\ HeaderCount(s) \in Nat
  BY HeaderCounts DEF Counts
<1>2. ~(k < HeaderCount(s)) => FrameAt(p, l, HeaderCount(s), k) = FrameAt(p2, l2, HeaderCount(s), k)
  BY <1>1, FrameOn
<1>3. QED BY <1>2, Zenon DEF Counts

-----------------------------------------------------------------------------
(* The packets on a page come before the one whose lace is due.            *)

LEMMA ChainBelow ==
  ASSUME NEW x \in Seq(LaceSet), NEW pkt \in Nat, NEW n \in Nat, Chain(x, pkt, n)
  PROVE  \A i \in 1 .. Len(x) : x[i].pkt <= pkt /\ (~x[i].open \/ n = 1 => x[i].pkt < pkt)
<1>1. \A i \in 1 .. Len(x) : x[i].pkt \in Nat /\ x[i].n \in Nat /\ x[i].open \in BOOLEAN
  <2>1. \A i \in 1 .. Len(x) : x[i] \in LaceSet
    OBVIOUS
  <2>2. QED BY <2>1 DEF LaceSet
<1>2. /\ \A i \in 1 .. Len(x) : x[i].n > 0
      /\ \A i \in 1 .. Len(x) - 1 : Due(x[i], x[i + 1].pkt, x[i + 1].n)
      /\ Len(x) > 0 => Due(x[Len(x)], pkt, n)
  BY EmptySeq DEF Chain
<1> DEFINE Below(i) == x[i].pkt <= pkt /\ (~x[i].open \/ n = 1 => x[i].pkt < pkt)
           L == Len(x)
           T == {d \in 0 .. L - 1 : ~Below(L - d)}
<1>3. L \in Nat
  OBVIOUS
<1>4. ASSUME L > 0 PROVE Below(L)
  <2>1. L \in 1 .. L
    BY <1>3, <1>4
  <2>2. Due(x[L], pkt, n) /\ x[L].n > 0 /\ x[L].pkt \in Nat /\ x[L].n \in Nat
    BY <1>1, <1>2, <1>4, <2>1
  <2>3. QED BY <2>2 DEF Due
<1>5. ASSUME NEW i \in 1 .. L - 1, Below(i + 1) PROVE Below(i)
  <2>1. i \in 1 .. L /\ i + 1 \in 1 .. L
    BY <1>3
  <2>2. Due(x[i], x[i + 1].pkt, x[i + 1].n) /\ x[i].n > 0
    BY <1>2, <2>1
  <2>3. /\ x[i].pkt \in Nat /\ x[i].n \in Nat
        /\ x[i + 1].pkt \in Nat /\ x[i + 1].n \in Nat
    BY <1>1, <2>1
  <2> HIDE DEF L
  <2>4. CASE x[i].open
    BY <1>5, <2>2, <2>3, <2>4 DEF Due
  <2>5. CASE ~x[i].open
    BY <1>5, <2>2, <2>3, <2>5 DEF Due
  <2>6. QED BY <2>4, <2>5
<1> HIDE DEF L, Below
<1>6. T = {}
  <2>1. SUFFICES ASSUME T # {} PROVE FALSE
    OBVIOUS
  <2>2. PICK d \in T : \A e \in T : d <= e
    <3>1. T \in SUBSET Nat
      BY <1>3
    <3>2. QED BY <2>1, <3>1, LeastNatural
  <2>3. d \in 0 .. L - 1 /\ ~Below(L - d)
    BY <2>2
  <2>4. d # 0
    BY <1>3, <1>4, <2>3
  <2>5. d - 1 \in 0 .. L - 1 /\ d - 1 \notin T
    BY <1>3, <2>2, <2>3, <2>4
  <2>6. Below(L - (d - 1)) /\ L - d \in 1 .. L - 1 /\ (L - d) + 1 = L - (d - 1)
    BY <1>3, <2>3, <2>4, <2>5
  <2>7. QED BY <1>5, <2>3, <2>6
<1>7. ASSUME NEW i \in 1 .. L PROVE Below(i)
  <2>1. L - i \in 0 .. L - 1 /\ L - (L - i) = i
    BY <1>3
  <2>2. QED BY <1>6, <2>1
<1>8. QED BY <1>7 DEF L, Below

-----------------------------------------------------------------------------
(* Steps that stamp nothing.                                               *)

\* What the log of a stream and its stamps rest on.
SameRefused(s) == {r \in refused' : r[1] = s} = {r \in refused : r[1] = s}
SameStamps(s) ==
  /\ sent'[s] = sent[s] /\ SameRefused(s)
  /\ headers_remaining'[s] = headers_remaining[s] /\ next_frame'[s] = next_frame[s]
  /\ sample_times'[s] = sample_times[s]
SameBuilder(s) ==
  buffered'[s].segs = buffered[s].segs /\ buffered'[s].granule = buffered[s].granule
SameStand(s) == (Unstamped(s)' <=> Unstamped(s)) /\ (Unstamped(s) => writing'.p = writing.p)

LEMMA SameLost ==
  ASSUME NEW s, sent'[s] = sent[s], SameRefused(s)
  PROVE  Lost(s)' = Lost(s)
<1>1. \A n : <<s, n>> \in refused' <=> <<s, n>> \in refused
  BY DEF SameRefused
<1>2. QED BY <1>1, Zenon DEF Lost

LEMMA SameSeen ==
  ASSUME NEW s, sent'[s] = sent[s], Unstamped(s)' <=> Unstamped(s)
  PROVE  Seen(s)' = Seen(s)
BY Zenon DEF Seen

LEMMA LogOn ==
  ASSUME NEW s, StreamTold(s), SameStamps(s), SameStand(s)
  PROVE  /\ LogTold(s)' /\ CountsTold(s)' /\ TimesTold(s)'
         /\ Seen(s)' = Seen(s) /\ Lost(s)' = Lost(s) /\ sent'[s] = sent[s]
<1>1. Seen(s)' = Seen(s) /\ Lost(s)' = Lost(s) /\ sent'[s] = sent[s]
  BY SameSeen, SameLost, Zenon DEF SameStamps, SameStand
<1>2. LogTold(s)'
  <2>1. \A r \in refused' : r[1] = s => r \in refused
    BY Zenon DEF SameStamps, SameRefused
  <2>2. QED BY <1>1, <2>1, Zenon DEF StreamTold, LogTold, SameStand
<1>3. CountsTold(s)'
  BY <1>1, Zenon DEF StreamTold, CountsTold, SameStamps
<1>4. TimesTold(s)'
  BY <1>1, Zenon DEF StreamTold, TimesTold, SameStamps
<1>5. QED BY <1>1, <1>2, <1>3, <1>4

LEMMA PagesOn ==
  ASSUME TypeInv, NEW s \in Streams, StreamTold(s), Pages(s)' = Pages(s),
         Seen(s) \in Nat, Seen(s)' \in Nat, Seen(s) <= Seen(s)',
         SameLog(sent[s], Lost(s), sent'[s], Lost(s)', Seen(s))
  PROVE  PagesTold(s)'
<1> DEFINE x == Pages(s)
<1>1. x \in Seq(PageSet) /\ Pages(s)' = x
  BY PagesType DEF TypeInv, DataInv
<1>2. \A i \in 1 .. Len(x) : PageBears(s, sent[s], Lost(s), Seen(s), x[i])
  BY Zenon DEF StreamTold, PagesTold
<1> HIDE DEF x
<1>3. \A i \in 1 .. Len(x) : PageBears(s, sent'[s], Lost(s)', Seen(s)', x[i])
  <2> TAKE i \in 1 .. Len(x)
  <2>1. x[i] \in PageSet /\ PageBears(s, sent[s], Lost(s), Seen(s), x[i])
    BY <1>1, <1>2
  <2>2. QED BY <2>1, PageBearsOn
<1>4. QED BY <1>1, <1>3, Zenon DEF PagesTold

LEMMA ToldOn ==
  ASSUME NEW s, StreamTold(s), SameStamps(s), SameStand(s), SameBuilder(s), Pages(s)' = Pages(s)
  PROVE  StreamTold(s)'
<1>1. /\ LogTold(s)' /\ CountsTold(s)' /\ TimesTold(s)'
      /\ Seen(s)' = Seen(s) /\ Lost(s)' = Lost(s) /\ sent'[s] = sent[s]
  BY LogOn
<1>2. BuilderTold(s)'
  BY <1>1, Zenon DEF StreamTold, BuilderTold, SameBuilder
<1>3. PagesTold(s)'
  BY <1>1, Zenon DEF StreamTold, PagesTold
<1>4. QED BY <1>1, <1>2, <1>3, Zenon DEF StreamTold

Stamping == <<sent, refused, headers_remaining, next_frame, sample_times>>

\* Steps that only move the call on.
LEMMA MovingTold ==
  ASSUME TypeInv, StreamsTold,
         \/ WriteHeader \/ BeginNewLink \/ WriteTrailer \/ Arm \/ ArmSkeleton \/ NextLink
         \/ WriteSecondary \/ PassTurn \/ ReleaseDone \/ DrainDone \/ CloseFlush \/ Backfill
         \/ UNCHANGED vars
         \/ \E t \in Targets \cup {NoTarget} : SetPageTarget(t)
         \/ \E s \in Streams : \E p \in Packets[s] : WritePacket(s, p)
  PROVE  StreamsTold'
<1> SUFFICES ASSUME NEW s \in Streams PROVE StreamTold(s)'
  BY DEF StreamsTold
<1>1. UNCHANGED <<wire, queue, buffered>> /\ UNCHANGED Stamping
  BY Zenon DEF WriteHeader, BeginNewLink, WriteTrailer, Arm, ArmSkeleton, NextLink, WriteSecondary,
     PassTurn, ReleaseDone, DrainDone, CloseFlush, Backfill, vars, SetPageTarget, WritePacket, writers,
     skeleton, Stamping
<1>2. SameStamps(s) /\ SameBuilder(s) /\ Pages(s)' = Pages(s)
  <2>1. Pages(s)' = Pages(s)
    BY <1>1, PagesStay, Zenon
  <2>2. QED BY <1>1, <2>1, Zenon DEF SameStamps, SameBuilder, Stamping, SameRefused
<1>3. SameStand(s)
  <2>1. CASE \/ WriteHeader \/ BeginNewLink \/ WriteTrailer \/ Arm \/ ArmSkeleton \/ NextLink
             \/ PassTurn \/ DrainDone \/ Backfill
             \/ \E t \in Targets \cup {NoTarget} : SetPageTarget(t)
    <3>1. step = "none" /\ step' = "none"
      BY <2>1 DEF WriteHeader, BeginNewLink, WriteTrailer, Arm, ArmSkeleton, NextLink, PassTurn,
         DrainDone, Backfill, SetPageTarget, Idle, Inside, Draining, control
    <3>2. QED BY <3>1 DEF SameStand, Unstamped, Midway
  <2>2. CASE WriteSecondary \/ \E t \in Streams : \E p \in Packets[t] : WritePacket(t, p)
    <3>1. step = "none" /\ step' = "packet"
      BY <2>2 DEF WriteSecondary, HeaderTurn, InPass, Inside, WritePacket, Idle, Call
    <3>2. QED BY <3>1 DEF SameStand, Unstamped, Midway
  <2>3. CASE CloseFlush
    <3>1. step = "none" /\ step' = "flush" /\ writing' = [s |-> Turn, p |-> HeaderPacket, from |-> 1]
      BY <2>3 DEF CloseFlush, Closing, Inside, Call
    <3>2. LacesLeft' = 0
      BY <3>1, HeaderPacketType DEF LacesLeft
    <3>3. QED BY <3>1, <3>2 DEF SameStand, Unstamped, Midway
  <2>4. CASE ReleaseDone
    <3>1. step = "release" /\ UNCHANGED writing /\ step' = IF LacesLeft > 0 THEN "put" ELSE "none"
      BY <2>4 DEF ReleaseDone, Doing, GoTo
    <3>2. LacesLeft' = LacesLeft
      BY <3>1 DEF LacesLeft
    <3>3. QED BY <3>1, <3>2 DEF SameStand, Unstamped, Midway
  <2>5. CASE UNCHANGED vars
    <3>1. UNCHANGED <<step, writing>>
      BY <2>5 DEF vars, control
    <3>2. QED BY <3>1, Zenon DEF SameStand, Unstamped, Midway, LacesLeft
  <2>6. QED BY <2>1, <2>2, <2>3, <2>4, <2>5, Zenon
<1>4. QED BY <1>2, <1>3, ToldOn DEF StreamsTold

\* Pages let out, and those of the Skeleton.
LEMMA LetOutTold ==
  ASSUME TypeInv, StreamsKept, StreamsTold, ReleasePage \/ DrainPage \/ WriteSkeletonPage
  PROVE  StreamsTold'
<1> SUFFICES ASSUME NEW s \in Streams PROVE StreamTold(s)'
  BY DEF StreamsTold
<1>1. UNCHANGED <<buffered, step, writing>> /\ UNCHANGED Stamping
  BY Zenon DEF ReleasePage, DrainPage, WriteSkeletonPage, writers, control, Stamping
<1>2. SameStamps(s) /\ SameBuilder(s) /\ SameStand(s)
  BY <1>1, Zenon DEF SameStamps, SameRefused, SameBuilder, SameStand, Stamping, Unstamped, Midway, LacesLeft
<1>3. WireInv /\ QueuesInv /\ queue \in [Streams -> Seq(ItemSet)]
  BY DEF TypeInv, DataInv, QueuesInv
<1>4. Pages(s)' = Pages(s)
  <2>1. CASE WriteSkeletonPage
    <3>1. \E flags \in {{"bos"}, {}, {"eos"}} : wire' = Append(wire, SkeletonPage(flags))
      BY <2>1 DEF WriteSkeletonPage
    <3>2. PICK flags \in {{"bos"}, {}, {"eos"}} : wire' = Append(wire, SkeletonPage(flags))
      BY <3>1
    <3>3. SkeletonPage(flags) \in PageSet
      BY SkeletonPageType DEF TypeInv, DataInv, PageFlags
    <3>4. SkeletonPage(flags).stream # s /\ UNCHANGED queue
      BY <2>1, MuxAssumption DEF SkeletonPage, WriteSkeletonPage, writers
    <3>5. QED BY <1>3, <3>2, <3>3, <3>4, PagesStayOnWrite
  <2>2. CASE ReleasePage \/ DrainPage
    <3>1. PICK n \in Nat : Holding(n) # {} /\ WritePending(Order[Earliest(n)])
      BY <2>2, Zenon DEF ReleasePage, Releasable, DrainPage
    <3> DEFINE t == Order[Earliest(n)]
    <3>2. t \in Streams /\ queue[t] # <<>>
      BY <3>1, EarliestStream DEF TypeInv, DataInv
    <3>3. WritePending(t)
      BY <3>1
    <3> HIDE DEF t
    <3> DEFINE p == Head(queue[t]).page
    <3>4. wire' = Append(wire, p) /\ queue' = [queue EXCEPT ![t] = Tail(@)]
      BY <3>3 DEF WritePending
    <3>5. p \in PageSet /\ p.stream = t
      <4>1. queue[t] \in Seq(ItemSet) /\ Head(queue[t]) \in ItemSet /\ Head(queue[t]) = queue[t][1]
            /\ 1 \in 1 .. Len(queue[t])
        BY <1>3, <3>2
      <4>2. p \in PageSet
        BY <4>1 DEF ItemSet
      <4>3. queue[t][1].page.stream = t
        BY <3>2, <4>1, Zenon DEF StreamsKept, StreamKept
      <4>4. QED BY <4>1, <4>2, <4>3
    <3>6. CASE s = t
      <4>1. queue'[t] = Tail(queue[t])
        BY <1>3, <3>2, <3>4
      <4>2. QED BY <1>3, <3>2, <3>4, <3>5, <3>6, <4>1, PagesLetOut
    <3>7. CASE s # t
      <4>1. queue'[s] = queue[s] /\ p.stream # s
        BY <1>3, <3>4, <3>5, <3>7
      <4> HIDE DEF p
      <4>2. QED BY <1>3, <3>4, <3>5, <4>1, PagesStayOnWrite
    <3>8. QED BY <3>6, <3>7
  <2>3. QED BY <2>1, <2>2
<1>5. QED BY <1>2, <1>4, ToldOn DEF StreamsTold

-----------------------------------------------------------------------------
(* Where the builder of a page stands.                                     *)

LEMMA BuilderBelow ==
  ASSUME TypeInv, NEW s \in Streams, StreamKept(s)
  PROVE  LET laces == buffered[s].segs IN
         /\ \A i \in 1 .. Len(laces) :
              /\ laces[i].pkt <= DuePacket(s)
              /\ ~laces[i].open \/ DueLace(s) = 1 => laces[i].pkt < DuePacket(s)
         /\ laces # <<>> /\ DueLace(s) = 1 =>
              laces[Len(laces)].pkt = DuePacket(s) - 1 /\ ~laces[Len(laces)].open
<1> DEFINE a == LacesOn(Pages(s))
           b == buffered[s].segs
           x == a \o b
           pkt == DuePacket(s)
           n == DueLace(s)
<1>1. a \in Seq(LaceSet) /\ b \in Seq(LaceSet)
  <2>1. Pages(s) \in Seq(PageSet)
    BY PagesType DEF TypeInv, DataInv
  <2>2. buffered[s] \in BuilderSet
    BY DEF TypeInv, DataInv, BuffersInv
  <2>3. QED BY <2>1, <2>2, LacesOnType DEF BuilderSet, SegsSet
<1>2. pkt \in Nat /\ n \in Nat
  <2>1. sent[s] \in Seq(Packet) /\ writing.from \in Nat
    BY AtWork DEF TypeInv, DataInv, SentInv
  <2>2. QED BY <2>1 DEF DuePacket, DueLace
<1>3. Chain(x, pkt, n)
  BY Zenon DEF StreamKept, InOrder
<1> HIDE DEF a, b, pkt, n
<1>4. /\ Len(a) \in Nat /\ Len(b) \in Nat /\ Len(x) = Len(a) + Len(b) /\ x \in Seq(LaceSet)
      /\ \A i \in 1 .. Len(b) : x[Len(a) + i] = b[i]
  BY <1>1
<1>5. \A i \in 1 .. Len(b) : Len(a) + i \in 1 .. Len(x)
  BY <1>4
<1> HIDE DEF x
<1>6. \A i \in 1 .. Len(x) : x[i].pkt <= pkt /\ (~x[i].open \/ n = 1 => x[i].pkt < pkt)
  BY <1>2, <1>3, <1>4, ChainBelow
<1>7. \A i \in 1 .. Len(b) : b[i].pkt <= pkt /\ (~b[i].open \/ n = 1 => b[i].pkt < pkt)
  BY <1>4, <1>5, <1>6
<1>8. ASSUME b # <<>>, n = 1
      PROVE  b[Len(b)].pkt = pkt - 1 /\ ~b[Len(b)].open
  <2>1. Len(b) \in 1 .. Len(b) /\ x # <<>>
    BY <1>1, <1>4, <1>8, EmptySeq
  <2>2. x[Len(x)] = b[Len(b)] /\ Len(x) \in 1 .. Len(x)
    BY <1>4, <1>5, <2>1
  <2>3. Due(x[Len(x)], pkt, n) /\ x[Len(x)].n > 0
    BY <1>3, <2>1, <2>2 DEF Chain
  <2>4. x[Len(x)] \in LaceSet
    BY <1>4, <2>2
  <2>5. x[Len(x)].n \in Nat /\ x[Len(x)].pkt \in Nat
    BY <2>4 DEF LaceSet
  <2>6. QED BY <1>2, <1>8, <2>2, <2>3, <2>5 DEF Due
<1>9. QED BY <1>7, <1>8 DEF b, n, pkt

\* All that ends in the builder, or on the page made of it, was seen.
LEMMA BuilderSeen ==
  ASSUME TypeInv, NEW s \in Streams, StreamKept(s), step # "stamp"
  PROVE  \A n \in DoneIn(buffered[s].segs) : n <= Seen(s)
<1> DEFINE b == buffered[s].segs
<1>1. b \in Seq(LaceSet) /\ sent[s] \in Seq(Packet)
  BY DEF TypeInv, DataInv, BuffersInv, BuilderSet, SegsSet, SentInv
<1>2. \A i \in 1 .. Len(b) : ~b[i].open => b[i].pkt < DuePacket(s)
  BY BuilderBelow
<1> HIDE DEF b
<1>3. \A n \in DoneIn(b) : n \in Nat /\ n < DuePacket(s)
  BY <1>1, <1>2, DoneType
<1>4. DuePacket(s) = Seen(s) + 1 /\ Seen(s) \in Int
  <2>1. Unstamped(s) <=> Midway(s)
    BY DEF Unstamped, Midway
  <2>2. QED BY <1>1, <2>1 DEF DuePacket, Seen
<1>5. QED BY <1>3, <1>4 DEF b

-----------------------------------------------------------------------------
(* A packet is handed over, and its laces are put down.                    *)

LEMMA BeginTold ==
  ASSUME TypeInv, WriterInv, StreamsTold, BeginPacket
  PROVE  StreamsTold'
<1> SUFFICES ASSUME NEW t \in Streams, t = writing.s PROVE StreamsTold'
  BY AtWork
<1>1. /\ step = "packet" /\ step' \in {"flush", "put"} /\ sent' = [sent EXCEPT ![t] = Append(@, writing.p)]
      /\ UNCHANGED <<writing, wire, queue, buffered, refused, headers_remaining, next_frame, sample_times>>
  BY DEF BeginPacket, Doing, GoTo, writers, skeleton
<1>2. LacesLeft' > 0
  <2>1. writing.from = 0 /\ writing.p.laces \in Nat \ {0}
    BY <1>1, AtWork DEF WriterInv
  <2>2. QED BY <1>1, <2>1 DEF LacesLeft
<1>3. sent \in [Streams -> Seq(Packet)] /\ writing.p \in Packet
  BY AtWork DEF TypeInv, DataInv, SentInv
<1> SUFFICES ASSUME NEW s \in Streams PROVE StreamTold(s)'
  BY DEF StreamsTold
<1>4. StreamTold(s) /\ Pages(s)' = Pages(s)
  BY <1>1, PagesStay DEF StreamsTold
<1>5. CASE s # t
  <2>1. sent'[s] = sent[s]
    BY <1>1, <1>3, <1>5
  <2>2. SameStamps(s) /\ SameBuilder(s) /\ SameStand(s)
    BY <1>1, <1>5, <2>1 DEF SameStamps, SameRefused, SameBuilder, SameStand, Unstamped, Midway
  <2>3. QED BY <1>4, <2>2, ToldOn
<1>6. CASE s = t
  <2> DEFINE p == sent[s]
             q == Append(p, writing.p)
             k == Len(p)
  <2>1. sent'[s] = q /\ ~Unstamped(s) /\ Unstamped(s)'
    BY <1>1, <1>2, <1>3, <1>6 DEF Unstamped, Midway
  <2>2. k \in Nat /\ Len(q) = k + 1 /\ q[k + 1] = writing.p /\ q # <<>> /\ \A i \in 1 .. k : q[i] = p[i]
    BY <1>3, AppendProperties
  <2> HIDE DEF p, q
  <2>3. Seen(s) = k /\ Seen(s)' = k
    BY <2>1, <2>2 DEF Seen, p
  <2>4. LogTold(s)'
    <3>1. \A r \in refused : r[1] = s => r[2] \in 1 .. k
      BY <1>4, <2>3, Zenon DEF StreamTold, LogTold
    <3>2. QED BY <1>1, <2>1, <2>2, <2>3, <3>1 DEF LogTold
  <2>5. SameLog(sent[s], Lost(s), sent'[s], Lost(s)', k)
    <3>1. \A n : <<s, n>> \in refused => n \in 1 .. k
      BY <1>4, <2>3 DEF StreamTold, LogTold
    <3>2. DOMAIN sent[s] = 1 .. k /\ DOMAIN sent'[s] = 1 .. k + 1
      BY <1>3, <2>1, <2>2 DEF p, q
    <3>3. Lost(s) = {n \in 1 .. k : <<s, n>> \in refused}
      BY <3>2, Zenon DEF Lost
    <3>4. Lost(s)' = {n \in 1 .. k + 1 : <<s, n>> \in refused}
      BY <1>1, <3>2, Zenon DEF Lost
    <3>5. QED BY <2>1, <2>2, <3>3, <3>4 DEF SameLog, p
  <2>6. CountsTold(s)'
    <3>1. Counts(s, sent[s], Lost(s), k, headers_remaining[s], next_frame[s])
      BY <1>4, <2>3, Zenon DEF StreamTold, CountsTold
    <3>2. Counts(s, sent'[s], Lost(s)', k, headers_remaining[s], next_frame[s])
      BY <2>5, <3>1, CountsOn
    <3>3. QED BY <1>1, <2>3, <3>2 DEF CountsTold
  <2>7. TimesTold(s)'
    <3>1. Spans(s, sent[s], Lost(s), TimedIn(s, sent[s], Lost(s), k), sample_times[s])
      BY <1>4, <2>3, Zenon DEF StreamTold, TimesTold
    <3>2. \A n \in TimedIn(s, sent'[s], Lost(s)', k) : n <= k
      BY <2>2 DEF TimedIn
    <3>3. Spans(s, sent'[s], Lost(s)', TimedIn(s, sent'[s], Lost(s)', k), sample_times[s])
      BY <2>2, <2>5, <3>1, <3>2, SpansOn
    <3>4. QED BY <1>1, <2>3, <3>3 DEF TimesTold
  <2>8. BuilderTold(s)'
    <3>1. Bears(s, sent[s], Lost(s), k, buffered[s].segs, buffered[s].granule)
          /\ (buffered[s].segs = <<>> => buffered[s].granule = NoPts)
      BY <1>4, <2>3, Zenon DEF StreamTold, BuilderTold
    <3>2. \A n \in DoneIn(buffered[s].segs) : n \in TimedIn(s, sent'[s], Lost(s)', k) => n <= k
      BY <2>2 DEF TimedIn
    <3>3. Bears(s, sent'[s], Lost(s)', k, buffered[s].segs, buffered[s].granule)
      BY <2>2, <2>5, <3>1, <3>2, BearsOn
    <3>4. QED BY <1>1, <2>3, <3>1, <3>3 DEF BuilderTold
  <2>9. PagesTold(s)'
    BY <1>4, <2>2, <2>3, <2>5, PagesOn
  <2>10. QED BY <2>4, <2>6, <2>7, <2>8, <2>9, Zenon DEF StreamTold
<1>7. QED BY <1>5, <1>6

LEMMA DoneJoined ==
  ASSUME NEW x \in Seq(LaceSet), NEW y \in Seq(LaceSet)
  PROVE  DoneIn(x \o y) = DoneIn(x) \cup DoneIn(y)
<1> DEFINE z == x \o y
<1>1. /\ Len(x) \in Nat /\ Len(y) \in Nat /\ z \in Seq(LaceSet) /\ Len(z) = Len(x) + Len(y)
      /\ DOMAIN x = 1 .. Len(x) /\ DOMAIN y = 1 .. Len(y) /\ DOMAIN z = 1 .. Len(z)
      /\ \A i \in 1 .. Len(x) : z[i] = x[i]
      /\ \A i \in 1 .. Len(y) : z[Len(x) + i] = y[i]
  OBVIOUS
<1> HIDE DEF z
<1>2. \A i \in 1 .. Len(x) : i \in 1 .. Len(z)
  BY <1>1
<1>3. \A i \in 1 .. Len(y) : Len(x) + i \in 1 .. Len(z)
  BY <1>1
<1>4. \A i \in 1 .. Len(z) : i \in 1 .. Len(x) \/ (i - Len(x) \in 1 .. Len(y) /\ i = Len(x) + (i - Len(x)))
  BY <1>1
<1>5. DoneIn(z) \subseteq DoneIn(x) \cup DoneIn(y)
  <2> SUFFICES ASSUME NEW i \in 1 .. Len(z), ~z[i].open PROVE z[i].pkt \in DoneIn(x) \cup DoneIn(y)
    BY <1>1 DEF DoneIn
  <2>1. CASE i \in 1 .. Len(x)
    BY <1>1, <2>1 DEF DoneIn
  <2>2. CASE i - Len(x) \in 1 .. Len(y) /\ i = Len(x) + (i - Len(x))
    <3>1. z[i] = y[i - Len(x)]
      BY <1>1, <2>2
    <3>2. QED BY <1>1, <2>2, <3>1 DEF DoneIn
  <2>3. QED BY <1>4, <2>1, <2>2
<1>6. DoneIn(x) \subseteq DoneIn(z)
  BY <1>1, <1>2 DEF DoneIn
<1>7. DoneIn(y) \subseteq DoneIn(z)
  BY <1>1, <1>3 DEF DoneIn
<1>8. QED BY <1>5, <1>6, <1>7 DEF z

\* Laces of the packet that comes next leave the granule as it is.
LEMMA BearsMore ==
  ASSUME NEW s \in Streams, NEW p, NEW l, NEW k \in Nat, NEW granule,
         NEW x \in Seq(LaceSet), NEW y \in Seq(LaceSet), \A i \in 1 .. Len(y) : y[i].pkt = k + 1,
         Bears(s, p, l, k, x, granule), x = <<>> => granule = NoPts
  PROVE  Bears(s, p, l, k, x \o y, granule)
<1> DEFINE timed == TimedIn(s, p, l, k)
           z == x \o y
<1>1. k + 1 \notin timed
  BY DEF TimedIn
<1> HIDE DEF timed
<1>2. DoneIn(y) \cap timed = {}
  BY <1>1, DoneType
<1>3. DoneIn(z) \cap timed = DoneIn(x) \cap timed
  BY <1>2, DoneJoined
<1> HIDE DEF z
<1>4. CASE x = <<>>
  <2>1. DoneIn(x) = {}
    BY <1>4 DEF DoneIn
  <2>2. DoneIn(z) \cap timed = {}
    BY <1>3, <2>1
  <2>3. QED BY <1>4, <2>2, Zenon DEF Bears, Stamps, timed, z
<1>5. CASE x # <<>>
  <2>1. z[1] = x[1]
    <3>1. 1 \in 1 .. Len(x)
      BY <1>5, EmptySeq
    <3>2. QED BY <3>1 DEF z
  <2>2. QED BY <1>3, <1>5, <2>1, Zenon DEF Bears, timed, z
<1>6. QED BY <1>4, <1>5

LEMMA PutTold ==
  ASSUME TypeInv, StreamsTold, PutLaces
  PROVE  StreamsTold'
<1> SUFFICES ASSUME NEW t \in Streams, t = writing.s PROVE StreamsTold'
  BY AtWork
<1> DEFINE room  == MaxSegs - Len(buffered[t].segs)
           take  == IF room < LacesLeft THEN room ELSE LacesLeft
           P     == Len(sent[t])
           L     == writing.p.laces
           laces == [i \in 1 .. take |-> Lace(P, writing.from + i, L)]
<1>1. /\ step = "put" /\ step' = IF take < LacesLeft THEN "flush" ELSE "stamp"
      /\ writing' = [writing EXCEPT !.from = @ + take]
      /\ buffered' = [buffered EXCEPT ![t].segs = @ \o laces]
      /\ UNCHANGED <<wire, queue>> /\ UNCHANGED Stamping
  BY DEF PutLaces, Doing, GoTo, skeleton, Stamping
<1>2. writing \in WritingSet /\ writing.from < L /\ writing.from \in Nat /\ L \in Nat /\ P \in Nat
  <2>1. writing \in WritingSet /\ writing.from < L
    BY <1>1 DEF TypeInv, WritingInv
  <2>2. sent[t] \in Seq(Packet)
    BY DEF TypeInv, DataInv, SentInv
  <2>3. QED BY <2>1, <2>2, AtWork
<1>3. room \in Nat /\ LacesLeft \in Nat \ {0} /\ LacesLeft = L - writing.from
  <2>1. room \in Nat
    BY AtWork, MuxAssumption
  <2>2. QED BY <1>2, <2>1 DEF LacesLeft
<1>4. take \in Nat /\ (take < LacesLeft <=> writing.from + take < L)
  <2> HIDE DEF room
  <2>1. QED BY <1>2, <1>3
<1>5. writing'.s = t /\ writing'.p = writing.p /\ LacesLeft' = L - (writing.from + take)
  BY <1>1, <1>2 DEF WritingSet, LacesLeft
<1> HIDE DEF room, take
<1>6. buffered \in [Streams -> BuilderSet] /\ buffered[t].segs \in Seq(LaceSet)
  BY AtWork DEF TypeInv, DataInv, BuffersInv
<1>7. laces \in Seq(LaceSet) /\ Len(laces) = take /\ \A i \in 1 .. Len(laces) : laces[i].pkt = P
  <2>1. \A i \in 1 .. take : Lace(P, writing.from + i, L) \in LaceSet
                             /\ Lace(P, writing.from + i, L).pkt = P
    BY <1>2, <1>4 DEF Lace, LaceSet
  <2>2. QED BY <1>4, <2>1
<1> HIDE DEF laces
<1>8. /\ \A s \in Streams : s # t => buffered'[s] = buffered[s]
      /\ buffered'[t].segs = buffered[t].segs \o laces /\ buffered'[t].granule = buffered[t].granule
  BY <1>1, <1>6 DEF BuilderSet
<1> SUFFICES ASSUME NEW s \in Streams PROVE StreamTold(s)'
  BY DEF StreamsTold
<1>9. StreamTold(s) /\ Pages(s)' = Pages(s) /\ SameStamps(s)
  BY <1>1, PagesStay DEF StreamsTold, SameStamps, SameRefused, Stamping
<1>10. CASE s # t
  <2>1. SameBuilder(s) /\ SameStand(s)
    BY <1>5, <1>8, <1>10 DEF SameBuilder, SameStand, Unstamped, Midway
  <2>2. QED BY <1>9, <2>1, ToldOn
<1>11. CASE s = t
  <2>1. Unstamped(t) /\ Unstamped(t)'
    <3>1. Unstamped(t)
      BY <1>1, <1>3 DEF Unstamped, Midway
    <3>2. CASE take < LacesLeft
      BY <1>1, <1>2, <1>4, <1>5, <3>1, <3>2 DEF Unstamped, Midway
    <3>3. CASE ~(take < LacesLeft)
      BY <1>1, <1>5, <3>1, <3>3 DEF Unstamped
    <3>4. QED BY <3>1, <3>2, <3>3
  <2>2. SameStand(t)
    BY <1>5, <2>1 DEF SameStand
  <2>3. /\ LogTold(t)' /\ CountsTold(t)' /\ TimesTold(t)'
        /\ Seen(t)' = Seen(t) /\ Lost(t)' = Lost(t) /\ sent'[t] = sent[t]
    BY <1>9, <1>11, <2>2, LogOn
  <2>4. PagesTold(t)'
    BY <1>9, <1>11, <2>3, Zenon DEF StreamTold, PagesTold
  <2>5. BuilderTold(t)'
    <3> DEFINE b == buffered[t].segs
               g == buffered[t].granule
               k == Seen(t)
    <3>1. /\ Bears(t, sent[t], Lost(t), k, b, g) /\ (b = <<>> => g = NoPts)
          /\ b \in Seq(LaceSet)
      BY <1>6, <1>9, <1>11, Zenon DEF StreamTold, BuilderTold
    <3>2. k \in Nat /\ P = k + 1
      <4>1. k = P - 1 /\ k \in Nat
        BY <1>9, <1>11, <2>1, Zenon DEF StreamTold, CountsTold, Counts, Seen
      <4>2. QED BY <1>2, <4>1
    <3>3. \A i \in 1 .. Len(laces) : laces[i].pkt = k + 1
      BY <1>7, <3>2
    <3> HIDE DEF b, g, k
    <3>4. Bears(t, sent[t], Lost(t), k, b \o laces, g)
      BY <1>7, <3>1, <3>2, <3>3, BearsMore
    <3>5. b \o laces = <<>> => b = <<>>
      BY <1>7, <3>1
    <3>6. QED BY <1>8, <2>3, <3>1, <3>4, <3>5, Zenon DEF BuilderTold, b, g, k
  <2>6. QED BY <1>11, <2>3, <2>4, <2>5, Zenon DEF StreamTold
<1>12. QED BY <1>10, <1>11

-----------------------------------------------------------------------------
(* The last packet handed over gets its stamp.                             *)

\* The granule asked for by the packet that ends last.
LEMMA StampBears ==
  ASSUME NEW s \in Streams, NEW p, NEW l, NEW k \in Nat, k + 1 \in TimedIn(s, p, l, k + 1),
         NEW laces \in Seq(LaceSet), laces # <<>>, \A i \in 1 .. Len(laces) : laces[i].pkt <= k + 1,
         laces[Len(laces)].pkt = k + 1, ~laces[Len(laces)].open,
         NEW granule, granule # NoPts, GranuleFrame(s, granule) = StampIn(s, p, l, k + 1)
  PROVE  Bears(s, p, l, k + 1, laces, granule)
<1> DEFINE done == DoneIn(laces) \cap TimedIn(s, p, l, k + 1)
<1>1. k + 1 \in DoneIn(laces)
  <2>1. Len(laces) \in DOMAIN laces
    BY EmptySeq
  <2>2. QED BY <2>1 DEF DoneIn
<1>2. \A m \in done : m <= k + 1
  BY DoneType
<1>3. k + 1 \in done
  BY <1>1
<1> HIDE DEF done
<1>4. Stamps(s, p, l, done, granule)
  BY <1>2, <1>3 DEF Stamps
<1>5. QED BY <1>4, Zenon DEF Bears, done

\* Its timestamp is noted as the last, and as the first when there was none.
LEMMA StampSpans ==
  ASSUME NEW s \in Streams, NEW p, NEW l, NEW k \in Nat, k + 1 \in TimedIn(s, p, l, k + 1),
         NEW times, Spans(s, p, l, TimedIn(s, p, l, k), times), NEW ts,
         ts = StampIn(s, p, l, k + 1), NEW times2,
         times2 = IF ~Skeleton THEN times
                  ELSE IF times = <<>> THEN <<ts, ts>> ELSE <<times[1], ts>>
  PROVE  Spans(s, p, l, TimedIn(s, p, l, k + 1), times2)
<1> DEFINE timed  == TimedIn(s, p, l, k)
           timed2 == TimedIn(s, p, l, k + 1)
<1>1. \A n \in timed2 : n = k + 1 \/ n \in timed
  <2>1. \A n \in timed2 : n \in Nat /\ (n = k + 1 \/ n <= k)
    BY DEF TimedIn
  <2>2. SameLog(p, l, p, l, k)
    BY DEF SameLog
  <2>3. QED BY <2>1, <2>2, TimedGrows
<1>2. timed \subseteq timed2 /\ \A n \in timed : n \in Nat /\ n <= k + 1
  <2>1. SameLog(p, l, p, l, k)
    BY DEF SameLog
  <2>2. timed \subseteq timed2 /\ \A n \in timed : n \in 1 .. k
    BY <2>1, TimedGrows
  <2>3. QED BY <2>2
<1>3. Spans(s, p, l, timed, times) /\ k + 1 \in timed2 /\ k + 1 \in Nat
  OBVIOUS
<1> SUFFICES Spans(s, p, l, timed2, times2)
  OBVIOUS
<1> HIDE DEF timed, timed2
<1>4. CASE ~Skeleton
  BY <1>3, <1>4 DEF Spans
<1>5. CASE Skeleton /\ timed = {}
  <2>1. times2 = <<ts, ts>> /\ \A i \in timed2 : k + 1 <= i /\ i <= k + 1
    BY <1>1, <1>3, <1>5 DEF Spans
  <2>2. QED BY <1>3, <1>5, <2>1 DEF Spans
<1>6. CASE Skeleton /\ timed # {}
  <2>1. PICK m, n \in timed : /\ \A i \in timed : m <= i /\ i <= n
                              /\ times = <<StampIn(s, p, l, m), StampIn(s, p, l, n)>>
    BY <1>3, <1>6 DEF Spans
  <2>2. times2 = <<StampIn(s, p, l, m), ts>>
    BY <1>6, <2>1
  <2>3. m \in timed2 /\ \A i \in timed2 : m <= i /\ i <= k + 1
    BY <1>1, <1>2, <2>1
  <2>4. QED BY <1>3, <1>6, <2>2, <2>3 DEF Spans
<1>7. QED BY <1>4, <1>5, <1>6

Stamp == StampHeader \/ StampContent \/ StampTheora

LEMMA AtStamp ==
  ASSUME TypeInv, WriterInv, StreamsKept, StreamsTold, Stamp
  PROVE  LET t == writing.s
             k == Seen(t)
             laces == buffered[t].segs
         IN /\ UNCHANGED <<sent, writing, wire, queue>> /\ t \in Streams /\ step = "stamp"
            /\ k \in Nat /\ Len(sent[t]) = k + 1 /\ Seen(t)' = k + 1 /\ ~Unstamped(t)'
            /\ sent[t][k + 1] = writing.p
            /\ \A r \in refused : r[1] = t => r[2] \in 1 .. k
            /\ \A i \in 1 .. k + 1 : i \in Lost(t) <=> <<t, i>> \in refused
            /\ \A i \in 1 .. k + 1 : i \in Lost(t)' <=> <<t, i>> \in refused'
            /\ laces \in Seq(LaceSet) /\ laces # <<>>
            /\ \A i \in 1 .. Len(laces) : laces[i].pkt <= k + 1
            /\ laces[Len(laces)].pkt = k + 1 /\ ~laces[Len(laces)].open
<1> SUFFICES ASSUME NEW t \in Streams, t = writing.s, NEW k, k = Seen(t)
    PROVE LET laces == buffered[t].segs
         IN /\ UNCHANGED <<sent, writing, wire, queue>> /\ step = "stamp"
            /\ k \in Nat /\ Len(sent[t]) = k + 1 /\ Seen(t)' = k + 1 /\ ~Unstamped(t)'
            /\ sent[t][k + 1] = writing.p
            /\ \A r \in refused : r[1] = t => r[2] \in 1 .. k
            /\ \A i \in 1 .. k + 1 : i \in Lost(t) <=> <<t, i>> \in refused
            /\ \A i \in 1 .. k + 1 : i \in Lost(t)' <=> <<t, i>> \in refused'
            /\ laces \in Seq(LaceSet) /\ laces # <<>>
            /\ \A i \in 1 .. Len(laces) : laces[i].pkt <= k + 1
            /\ laces[Len(laces)].pkt = k + 1 /\ ~laces[Len(laces)].open
  BY AtWork
<1>1. UNCHANGED <<sent, writing, wire, queue>> /\ step = "stamp"
  BY DEF Stamp, StampHeader, StampContent, StampTheora, Doing, writers
<1>2. step' \in {"none", "flush"}
  BY DEF Stamp, StampHeader, StampContent, StampTheora, GoTo
<1>3. LacesLeft = 0 /\ LacesLeft' = 0
  BY <1>1 DEF WriterInv, LacesLeft
<1>4. Unstamped(t) /\ ~Unstamped(t)' /\ ~Midway(t)
  BY <1>1, <1>2, <1>3 DEF Unstamped, Midway
<1>5. /\ sent[t] \in Seq(Packet) /\ Len(sent[t]) \in Nat /\ DOMAIN sent[t] = 1 .. Len(sent[t])
      /\ sent'[t] = sent[t]
  BY <1>1 DEF TypeInv, DataInv, SentInv
<1>6. k = Len(sent[t]) - 1 /\ k \in Nat /\ Seen(t)' = Len(sent[t])
  BY <1>4, <1>5, Zenon DEF Seen, StreamsTold, StreamTold, CountsTold, Counts
<1>7. Len(sent[t]) = k + 1
  BY <1>5, <1>6
<1>8. sent[t][k + 1] = writing.p /\ \A r \in refused : r[1] = t => r[2] \in 1 .. k
  BY <1>4, <1>7, Zenon DEF StreamsTold, StreamTold, LogTold
<1>9. /\ \A i \in 1 .. k + 1 : i \in Lost(t) <=> <<t, i>> \in refused
      /\ \A i \in 1 .. k + 1 : i \in Lost(t)' <=> <<t, i>> \in refused'
  BY <1>5, <1>7, Zenon DEF Lost
<1>10. buffered[t].segs \in Seq(LaceSet) /\ buffered[t].segs # <<>>
  BY <1>1, AtWork DEF TypeInv, WritingInv
<1>11. DuePacket(t) = k + 2 /\ DueLace(t) = 1
  BY <1>4, <1>6, <1>7 DEF DuePacket, DueLace
<1>12. LET laces == buffered[t].segs
       IN /\ \A i \in 1 .. Len(laces) : laces[i].pkt < k + 2
          /\ laces[Len(laces)].pkt = (k + 2) - 1 /\ ~laces[Len(laces)].open
  BY <1>10, <1>11, BuilderBelow DEF StreamsKept
<1>13. \A i \in 1 .. Len(buffered[t].segs) : buffered[t].segs[i].pkt <= k + 1
  <2> DEFINE laces == buffered[t].segs
  <2>1. \A i \in 1 .. Len(laces) : laces[i] \in LaceSet
    BY <1>10
  <2>2. \A i \in 1 .. Len(laces) : laces[i].pkt \in Nat
    BY <2>1 DEF LaceSet
  <2>3. QED BY <1>6, <1>12, <2>2
<1>14. buffered[t].segs[Len(buffered[t].segs)].pkt = k + 1
  BY <1>6, <1>12
<1>15. QED BY <1>1, <1>4, <1>6, <1>7, <1>8, <1>9, <1>10, <1>12, <1>13, <1>14, Zenon

LEMMA DivRemainder ==
  ASSUME NEW S \in Nat \ {0}, NEW d \in Int, NEW e \in 0 .. S - 1
  PROVE  (S * d + e) \div S = d
OBVIOUS

\* A packed granule counts the frames up to its own.
LEMMA PackCounts ==
  ASSUME NEW frame \in Nat, NEW kf \in Nat, kf <= frame, frame - kf < Span
  PROVE  FrameCount(Pack(frame, kf)) = frame + 1 /\ Pack(frame, kf) # NoPts
<1> DEFINE d == kf + 1
           e == frame - kf
<1>1. Span \in Nat \ {0} /\ d \in Int /\ e \in 0 .. Span - 1 /\ d + e = frame + 1
  BY MuxAssumption
<1>2. Pack(frame, kf) = d * Span + e
  BY Zenon DEF Pack
<1> HIDE DEF d, e
<1>3. d * Span = Span * d
  BY <1>1
<1>4. Pack(frame, kf) \div Span = d /\ Pack(frame, kf) % Span = e
  <2>1. Pack(frame, kf) = Span * d + e
    BY <1>2, <1>3
  <2>2. (Span * d + e) \div Span = d /\ (Span * d + e) % Span = e
    BY <1>1, DivRemainder, Remainder
  <2>3. QED BY <2>1, <2>2
<1>5. Pack(frame, kf) \in Nat
  BY PackType
<1>6. QED BY <1>1, <1>4, <1>5 DEF FrameCount, NoPts

LEMMA StampOthers ==
  ASSUME TypeInv, WriterInv, StreamsKept, StampedInv, Stamp, NEW s \in Streams, s # writing.s
  PROVE  StreamTold(s)'
<1> SUFFICES ASSUME NEW t \in Streams, t = writing.s, s # t PROVE StreamTold(s)'
  BY AtWork
<1>1. UNCHANGED <<sent, writing, wire, queue>>
  BY AtStamp DEF StampedInv
<1>2. /\ buffered \in [Streams -> BuilderSet] /\ headers_remaining \in [Streams -> Nat]
      /\ next_frame \in [Streams -> Nat] /\ sample_times = [r \in Streams |-> sample_times[r]]
  BY DEF TypeInv, DataInv, BuffersInv, HeadersInv, FramesInv, StampedInv
<1>3. ASSUME NEW pts PROVE NotePts(t, pts)[s] = sample_times[s]
  BY <1>2 DEF NotePts
<1>4. /\ headers_remaining'[s] = headers_remaining[s] /\ next_frame'[s] = next_frame[s]
      /\ sample_times'[s] = sample_times[s] /\ buffered'[s] = buffered[s] /\ SameRefused(s)
  <2>1. CASE StampHeader
    BY <1>2, <2>1 DEF StampHeader, skeleton, SameRefused
  <2>2. CASE StampContent
    <3>1. sample_times' = NotePts(t, writing.p.pts) /\ UNCHANGED <<headers_remaining, next_frame, refused>>
      BY <2>2, Zenon DEF StampContent
    <3>2. buffered'[s] = buffered[s]
      BY <1>2, <2>2 DEF StampContent
    <3>3. QED BY <1>3, <3>1, <3>2, Zenon DEF SameRefused
  <2>3. CASE StampTheora
    <3> DEFINE p     == writing.p
               frame == IF p.pts = NoPts THEN next_frame[t] ELSE p.pts
               kf    == IF p.keyframe THEN frame ELSE last_kf[t]
    <3>1. UNCHANGED headers_remaining /\
          \/ /\ next_frame' = [next_frame EXCEPT ![t] = frame + 1] /\ UNCHANGED refused
             /\ buffered' = [buffered EXCEPT ![t].granule = Pack(frame, kf),
                                             ![t].kf = FirstKeyframe(t, p, frame)]
             /\ sample_times' = NotePts(t, frame)
          \/ /\ refused' = refused \cup {<<t, Len(sent[t])>>}
             /\ UNCHANGED <<next_frame, buffered, sample_times>>
      BY <2>3, Zenon DEF StampTheora
    <3> HIDE DEF frame, kf, p
    <3>2. CASE /\ next_frame' = [next_frame EXCEPT ![t] = frame + 1] /\ UNCHANGED refused
               /\ buffered' = [buffered EXCEPT ![t].granule = Pack(frame, kf),
                                               ![t].kf = FirstKeyframe(t, p, frame)]
               /\ sample_times' = NotePts(t, frame)
      <4>1. next_frame'[s] = next_frame[s] /\ buffered'[s] = buffered[s]
        BY <1>2, <3>2
      <4>2. QED BY <1>3, <3>1, <3>2, <4>1, Zenon DEF SameRefused
    <3>3. CASE /\ refused' = refused \cup {<<t, Len(sent[t])>>}
               /\ UNCHANGED <<next_frame, buffered, sample_times>>
      <4>1. SameRefused(s)
        BY <3>3 DEF SameRefused
      <4>2. QED BY <3>1, <3>3, <4>1
    <3>4. QED BY <3>1, <3>2, <3>3
  <2>4. QED BY <2>1, <2>2, <2>3 DEF Stamp
<1>5. SameStamps(s) /\ SameBuilder(s) /\ SameStand(s) /\ Pages(s)' = Pages(s)
  <2>1. Pages(s)' = Pages(s)
    BY <1>1, PagesStay, Zenon
  <2>2. ~Unstamped(s) /\ ~Unstamped(s)'
    BY <1>1 DEF Unstamped
  <2>3. QED BY <1>1, <1>4, <2>1, <2>2, Zenon DEF SameStamps, SameBuilder, SameStand
<1>6. QED BY <1>5, ToldOn DEF StampedInv, StreamsTold

\* The stamp of a stream, put together.
LEMMA StampTold ==
  ASSUME TypeInv, WriterInv, StreamsKept, StampedInv, Stamp, NEW t \in Streams, t = writing.s,
         SameLog(sent[t], Lost(t), sent[t], Lost(t)', Seen(t)),
         \A r \in refused' : r \in refused \/ r[2] = Seen(t) + 1,
         CountsTold(t)', TimesTold(t)', BuilderTold(t)'
  PROVE  StreamsTold'
<1> SUFFICES ASSUME NEW s \in Streams PROVE StreamTold(s)'
  BY DEF StreamsTold
<1>1. CASE s # t
  BY <1>1, StampOthers
<1>2. CASE s = t
  <2> DEFINE k == Seen(t)
  <2>1. /\ UNCHANGED <<sent, wire, queue>> /\ k \in Nat /\ Seen(t)' = k + 1 /\ ~Unstamped(t)'
        /\ \A r \in refused : r[1] = t => r[2] \in 1 .. k
    BY AtStamp DEF StampedInv
  <2> HIDE DEF k
  <2>2. LogTold(t)'
    <3>1. \A r \in refused' : r[1] = t => r[2] \in 1 .. k + 1
      BY <2>1 DEF k
    <3>2. QED BY <2>1, <3>1 DEF LogTold
  <2>3. Pages(t)' = Pages(t) /\ StreamTold(t)
    BY <2>1, PagesStay DEF StampedInv, StreamsTold
  <2>4. PagesTold(t)'
    <3>1. sent'[t] = sent[t] /\ k <= k + 1 /\ k + 1 \in Nat
      BY <2>1
    <3>2. QED BY <2>1, <2>3, <3>1, PagesOn DEF k
  <2>5. QED BY <1>2, <2>2, <2>4, Zenon DEF StreamTold
<1>3. QED BY <1>1, <1>2

LEMMA StampHeaderTold ==
  ASSUME TypeInv, WriterInv, StreamsKept, StampedInv, Matching, StampHeader
  PROVE  StreamsTold'
<1> SUFFICES ASSUME NEW t \in Streams, t = writing.s PROVE StreamsTold'
  BY AtWork
<1> DEFINE k == Seen(t)
           h == HeaderCount(t)
           laces == buffered[t].segs
<1>1. Stamp
  BY DEF Stamp
<1>2. /\ UNCHANGED <<sent, writing, wire, queue>>
      /\ k \in Nat /\ Seen(t)' = k + 1
      /\ laces \in Seq(LaceSet) /\ laces # <<>>
      /\ \A i \in 1 .. Len(laces) : laces[i].pkt <= k + 1
  BY <1>1, AtStamp DEF StampedInv
<1>3. /\ headers_remaining[t] > 0
      /\ headers_remaining' = [headers_remaining EXCEPT ![t] = @ - 1]
      /\ buffered' = [buffered EXCEPT ![t].granule = 0]
      /\ UNCHANGED <<refused, next_frame, sample_times>>
  BY DEF StampHeader, skeleton
<1>4. h = Need[t] /\ h \in Nat \ {0} /\ Lost(t)' = Lost(t) /\ sent'[t] = sent[t]
  BY <1>2, <1>3, HeaderCounts, Zenon DEF Lost
<1>5. Counts(t, sent[t], Lost(t), k, headers_remaining[t], next_frame[t])
  BY Zenon DEF StampedInv, StreamsTold, StreamTold, CountsTold
<1>6. headers_remaining[t] = Need[t] - k /\ k < h
  BY <1>2, <1>3, <1>4, <1>5 DEF Counts
<1>7. headers_remaining'[t] = Need[t] - (k + 1) /\ next_frame'[t] = next_frame[t]
      /\ sample_times'[t] = sample_times[t]
  <2>1. headers_remaining'[t] = headers_remaining[t] - 1
    BY <1>3 DEF TypeInv, DataInv, HeadersInv
  <2>2. QED BY <1>2, <1>3, <1>4, <1>6, <2>1
<1>8. /\ buffered'[t].segs = laces /\ buffered'[t].granule = 0
  BY <1>3 DEF TypeInv, DataInv, BuffersInv, BuilderSet
<1> HIDE DEF k, h, laces
<1>9. SameLog(sent[t], Lost(t), sent[t], Lost(t), k)
  BY DEF SameLog
<1>10. CountsTold(t)'
  <2>1. (k + 1 < Need[t] => headers_remaining'[t] = Need[t] - (k + 1))
        /\ (~(k + 1 < Need[t]) => headers_remaining'[t] = 0)
    BY <1>2, <1>4, <1>6, <1>7
  <2>2. t \in Theora => next_frame[t] = 0
    BY <1>4, <1>5, <1>6 DEF Counts, h
  <2>3. CASE k + 1 < h
    <3>1. Counts(t, sent[t], Lost(t), k + 1, headers_remaining'[t], next_frame'[t])
      BY <1>2, <1>4, <1>7, <2>1, <2>2, <2>3 DEF Counts, h
    <3>2. QED BY <1>2, <1>4, <3>1, Zenon DEF CountsTold
  <2>4. CASE ~(k + 1 < h)
    <3>1. k + 1 = h
      BY <1>2, <1>4, <1>6, <2>4
    <3>2. FrameAt(sent[t], Lost(t), h, k + 1) = -1
      BY <1>4, <3>1, FrameFirst
    <3>3. Counts(t, sent[t], Lost(t), k + 1, headers_remaining'[t], next_frame'[t])
      BY <1>2, <1>4, <1>7, <2>1, <2>2, <2>4, <3>2 DEF Counts, h
    <3>4. QED BY <1>2, <1>4, <3>3, Zenon DEF CountsTold
  <2>5. QED BY <2>3, <2>4
<1>11. \A n \in TimedIn(t, sent[t], Lost(t), k + 1) : n <= k
  BY <1>2, <1>4, <1>6 DEF TimedIn, h
<1>12. TimesTold(t)'
  <2>1. Spans(t, sent[t], Lost(t), TimedIn(t, sent[t], Lost(t), k), sample_times[t])
    BY Zenon DEF StampedInv, StreamsTold, StreamTold, TimesTold, k
  <2>2. k <= k + 1 /\ k + 1 \in Nat
    BY <1>2
  <2>3. Spans(t, sent[t], Lost(t), TimedIn(t, sent[t], Lost(t), k + 1), sample_times[t])
    BY <1>2, <1>9, <1>11, <2>1, <2>2, SpansOn
  <2>4. QED BY <1>2, <1>4, <1>7, <2>3, Zenon DEF TimesTold
<1>13. BuilderTold(t)'
  <2>1. laces[1].pkt <= h
    <3>1. 1 \in 1 .. Len(laces)
      BY <1>2, EmptySeq
    <3>2. laces[1] \in LaceSet
      BY <1>2, <3>1
    <3>3. laces[1].pkt \in Nat
      BY <3>2 DEF LaceSet
    <3>4. QED BY <1>2, <1>4, <1>6, <3>1, <3>3
  <2>2. ~(laces[1].pkt > h)
    <3>1. 1 \in 1 .. Len(laces)
      BY <1>2, EmptySeq
    <3>2. laces[1] \in LaceSet
      BY <1>2, <3>1
    <3>3. laces[1].pkt \in Nat
      BY <3>2 DEF LaceSet
    <3>4. QED BY <1>4, <2>1, <3>3
  <2>3. QED BY <1>2, <1>8, <2>2, Zenon DEF BuilderTold, Bears, h
<1>14. SameLog(sent[t], Lost(t), sent[t], Lost(t)', Seen(t))
  BY <1>4, <1>9 DEF k
<1>15. \A r \in refused' : r \in refused \/ r[2] = Seen(t) + 1
  BY <1>3
<1>16. QED BY <1>1, <1>10, <1>12, <1>13, <1>14, <1>15, StampTold

LEMMA StampContentTold ==
  ASSUME TypeInv, WriterInv, StreamsKept, StampedInv, Matching, StampContent
  PROVE  StreamsTold'
<1> SUFFICES ASSUME NEW t \in Streams, t = writing.s PROVE StreamsTold'
  BY AtWork
<1> DEFINE k == Seen(t)
           h == HeaderCount(t)
           laces == buffered[t].segs
           p == writing.p
           S == sent[t]
           lost == Lost(t)
<1>1. Stamp
  BY DEF Stamp
<1>2. /\ UNCHANGED <<sent, writing, wire, queue>>
      /\ k \in Nat /\ Seen(t)' = k + 1 /\ S[k + 1] = p
      /\ \A r \in refused : r[1] = t => r[2] \in 1 .. k
      /\ \A i \in 1 .. k + 1 : i \in lost <=> <<t, i>> \in refused
      /\ laces \in Seq(LaceSet) /\ laces # <<>>
      /\ \A i \in 1 .. Len(laces) : laces[i].pkt <= k + 1
      /\ laces[Len(laces)].pkt = k + 1 /\ ~laces[Len(laces)].open
  BY <1>1, AtStamp DEF StampedInv
<1>3. /\ headers_remaining[t] = 0 /\ t \notin Theora
      /\ buffered' = IF p.pts = NoPts THEN buffered
           ELSE [buffered EXCEPT ![t].granule = p.pts, ![t].kf = FirstKeyframe(t, p, p.pts)]
      /\ sample_times' = NotePts(t, p.pts)
      /\ UNCHANGED <<refused, headers_remaining, next_frame>>
  BY Zenon DEF StampContent
<1>4. h = Need[t] /\ h \in Nat \ {0} /\ Lost(t)' = lost /\ sent'[t] = S /\ p.pts \in Granules
  BY <1>2, <1>3, HeaderCounts, AtWork, Zenon DEF Lost
<1>5. Counts(t, S, lost, k, headers_remaining[t], next_frame[t])
  BY Zenon DEF StampedInv, StreamsTold, StreamTold, CountsTold
<1>6. ~(k < h)
  BY <1>2, <1>3, <1>4, <1>5 DEF Counts
<1>7. /\ buffered'[t].segs = laces
      /\ buffered'[t].granule = IF p.pts = NoPts THEN buffered[t].granule ELSE p.pts
  BY <1>3 DEF TypeInv, DataInv, BuffersInv, BuilderSet
<1>8. p.pts # NoPts =>
        sample_times'[t] = IF ~Skeleton THEN sample_times[t]
                           ELSE IF sample_times[t] = <<>> THEN <<p.pts, p.pts>>
                           ELSE <<sample_times[t][1], p.pts>>
  BY <1>3 DEF StampedInv, NotePts
<1>9. p.pts = NoPts => sample_times'[t] = sample_times[t]
  BY <1>3 DEF NotePts
<1>10. /\ Bears(t, S, lost, k, laces, buffered[t].granule)
       /\ Spans(t, S, lost, TimedIn(t, S, lost, k), sample_times[t])
  BY Zenon DEF StampedInv, StreamsTold, StreamTold, BuilderTold, TimesTold
<1> HIDE DEF k, h, laces, p, S, lost
<1>11. SameLog(S, lost, S, lost, k) /\ k <= k + 1 /\ k + 1 \in Nat
  BY <1>2 DEF SameLog
<1>12. k + 1 \in TimedIn(t, S, lost, k + 1) <=> p.pts # NoPts
  <2>1. <<t, k + 1>> \notin refused
    BY <1>2
  <2>2. k + 1 \notin lost /\ k + 1 > h
    BY <1>2, <1>4, <1>6, <2>1
  <2>3. QED BY <1>2, <1>3, <2>2 DEF TimedIn, h
<1>13. CountsTold(t)'
  <2>1. ~(k + 1 < Need[t])
    BY <1>2, <1>4, <1>6
  <2>2. Counts(t, S, lost, k + 1, headers_remaining'[t], next_frame'[t])
    BY <1>3, <1>11, <2>1, Zenon DEF Counts
  <2>3. QED BY <1>2, <1>4, <2>2, Zenon DEF CountsTold
<1>14. CASE p.pts = NoPts
  <2>1. \A n \in TimedIn(t, S, lost, k + 1) : n <= k
    <3>1. \A n \in TimedIn(t, S, lost, k + 1) : n \in 1 .. k + 1 /\ n # k + 1
      BY <1>12, <1>14 DEF TimedIn
    <3>2. QED BY <1>2, <3>1
  <2>2. TimesTold(t)'
    <3>1. Spans(t, S, lost, TimedIn(t, S, lost, k + 1), sample_times[t])
      BY <1>2, <1>10, <1>11, <2>1, SpansOn
    <3>2. QED BY <1>2, <1>4, <1>9, <1>14, <3>1, Zenon DEF TimesTold
  <2>3. BuilderTold(t)'
    <3>1. Bears(t, S, lost, k + 1, laces, buffered[t].granule)
      BY <1>2, <1>10, <1>11, <2>1, BearsOn
    <3>2. QED BY <1>2, <1>4, <1>7, <1>14, <3>1, Zenon DEF BuilderTold
  <2>4. QED BY <1>1, <1>3, <1>4, <1>11, <1>13, <2>2, <2>3, StampTold DEF k, S, lost
<1>15. CASE p.pts # NoPts
  <2>1. StampIn(t, S, lost, k + 1) = p.pts
    BY <1>2, <1>3 DEF StampIn
  <2>2. TimesTold(t)'
    <3>1. Spans(t, S, lost, TimedIn(t, S, lost, k + 1), sample_times'[t])
      BY <1>2, <1>8, <1>10, <1>12, <1>15, <2>1, StampSpans
    <3>2. QED BY <1>2, <1>4, <3>1, Zenon DEF TimesTold
  <2>3. BuilderTold(t)'
    <3>1. GranuleFrame(t, p.pts) = StampIn(t, S, lost, k + 1)
      BY <1>3, <2>1 DEF GranuleFrame
    <3>2. Bears(t, S, lost, k + 1, laces, p.pts)
      BY <1>2, <1>12, <1>15, <3>1, StampBears
    <3>3. QED BY <1>2, <1>4, <1>7, <1>15, <3>2, Zenon DEF BuilderTold
  <2>4. QED BY <1>1, <1>3, <1>4, <1>11, <1>13, <2>2, <2>3, StampTold DEF k, S, lost
<1>16. QED BY <1>14, <1>15

LEMMA StampTheoraTold ==
  ASSUME TypeInv, WriterInv, StreamsKept, StampedInv, Matching, StampTheora
  PROVE  StreamsTold'
<1> SUFFICES ASSUME NEW t \in Streams, t = writing.s PROVE StreamsTold'
  BY AtWork
<1> DEFINE k == Seen(t)
           h == HeaderCount(t)
           laces == buffered[t].segs
           p == writing.p
           S == sent[t]
           lost == Lost(t)
           frame == IF p.pts = NoPts THEN next_frame[t] ELSE p.pts
           kf    == IF p.keyframe THEN frame ELSE last_kf[t]
           packs == kf <= frame /\ frame - kf < Span
<1>1. Stamp
  BY DEF Stamp
<1>2. /\ UNCHANGED <<sent, writing, wire, queue>> /\ Len(S) = k + 1
      /\ k \in Nat /\ Seen(t)' = k + 1 /\ S[k + 1] = p
      /\ \A r \in refused : r[1] = t => r[2] \in 1 .. k
      /\ \A i \in 1 .. k + 1 : i \in lost <=> <<t, i>> \in refused
      /\ \A i \in 1 .. k + 1 : i \in Lost(t)' <=> <<t, i>> \in refused'
      /\ laces \in Seq(LaceSet) /\ laces # <<>>
      /\ \A i \in 1 .. Len(laces) : laces[i].pkt <= k + 1
      /\ laces[Len(laces)].pkt = k + 1 /\ ~laces[Len(laces)].open
  BY <1>1, AtStamp DEF StampedInv
<1>3. /\ headers_remaining[t] = 0 /\ t \in Theora
      /\ \/ /\ packs
            /\ next_frame' = [next_frame EXCEPT ![t] = frame + 1]
            /\ buffered' = [buffered EXCEPT ![t].granule = Pack(frame, kf),
                                            ![t].kf = FirstKeyframe(t, p, frame)]
            /\ sample_times' = NotePts(t, frame)
            /\ UNCHANGED refused
         \/ /\ ~packs
            /\ refused' = refused \cup {<<t, Len(S)>>}
            /\ UNCHANGED <<next_frame, buffered, sample_times>>
      /\ UNCHANGED headers_remaining
  BY Zenon DEF StampTheora
<1>4. h = Need[t] /\ h \in Nat \ {0} /\ sent'[t] = S
  BY <1>2, HeaderCounts, Zenon
<1>5. Counts(t, S, lost, k, headers_remaining[t], next_frame[t])
  BY Zenon DEF StampedInv, StreamsTold, StreamTold, CountsTold
<1>6. ~(k < h) /\ next_frame[t] = FrameAt(S, lost, h, k) + 1
  BY <1>2, <1>3, <1>4, <1>5 DEF Counts
<1>7. /\ p.pts \in Granules /\ next_frame \in [Streams -> Nat] /\ last_kf[t] \in Nat
      /\ sample_times = [r \in Streams |-> sample_times[r]] /\ buffered \in [Streams -> BuilderSet]
  BY AtWork DEF TypeInv, DataInv, FramesInv, BuffersInv, StampedInv
<1>8. frame \in Nat /\ kf \in Nat /\ frame # NoPts
  <2>1. frame \in Nat
    BY <1>7 DEF Granules
  <2> HIDE DEF frame
  <2>2. kf \in Nat
    BY <1>7, <2>1
  <2>3. QED BY <2>1, <2>2 DEF NoPts
<1>9. /\ Bears(t, S, lost, k, laces, buffered[t].granule)
      /\ Spans(t, S, lost, TimedIn(t, S, lost, k), sample_times[t])
  BY Zenon DEF StampedInv, StreamsTold, StreamTold, BuilderTold, TimesTold
<1>10. frame = IF p.pts = NoPts THEN FrameAt(S, lost, h, k) + 1 ELSE p.pts
  BY <1>6
<1> HIDE DEF k, h, laces, p, S, lost, frame, kf
<1>11. SameLog(S, lost, S, lost, k) /\ k <= k + 1 /\ k + 1 \in Nat /\ k + 1 > h /\ h <= k
  BY <1>2, <1>4, <1>6 DEF SameLog
<1>12. <<t, k + 1>> \notin refused
  BY <1>2
<1>13. k + 1 \notin lost /\ ~(k + 1 < Need[t])
  BY <1>2, <1>4, <1>11, <1>12
<1>14. CASE /\ packs
            /\ next_frame' = [next_frame EXCEPT ![t] = frame + 1]
            /\ buffered' = [buffered EXCEPT ![t].granule = Pack(frame, kf),
                                            ![t].kf = FirstKeyframe(t, p, frame)]
            /\ sample_times' = NotePts(t, frame)
            /\ UNCHANGED refused
  <2>1. Lost(t)' = lost
    BY <1>2, <1>14, Zenon DEF Lost, lost
  <2>2. FrameAt(S, lost, h, k + 1) = frame
    BY <1>2, <1>4, <1>10, <1>11, <1>13, FrameNext
  <2>3. k + 1 \in TimedIn(t, S, lost, k + 1) /\ StampIn(t, S, lost, k + 1) = frame
    BY <1>2, <1>3, <1>11, <1>13, <2>2 DEF TimedIn, StampIn, h
  <2>4. CountsTold(t)'
    <3>1. next_frame'[t] = frame + 1
      BY <1>7, <1>14
    <3>2. Counts(t, S, lost, k + 1, headers_remaining'[t], next_frame'[t])
      BY <1>3, <1>4, <1>11, <1>13, <2>2, <3>1, Zenon DEF Counts, h
    <3>3. QED BY <1>2, <1>4, <2>1, <3>2, Zenon DEF CountsTold
  <2>5. TimesTold(t)'
    <3>1. sample_times'[t] = IF ~Skeleton THEN sample_times[t]
                             ELSE IF sample_times[t] = <<>> THEN <<frame, frame>>
                             ELSE <<sample_times[t][1], frame>>
      BY <1>7, <1>8, <1>14 DEF NotePts
    <3>2. Spans(t, S, lost, TimedIn(t, S, lost, k + 1), sample_times'[t])
      BY <1>2, <1>9, <2>3, <3>1, StampSpans
    <3>3. QED BY <1>2, <1>4, <2>1, <3>2, Zenon DEF TimesTold
  <2>6. BuilderTold(t)'
    <3> DEFINE g == Pack(frame, kf)
    <3>1. FrameCount(g) = frame + 1 /\ g # NoPts
      BY <1>8, <1>14, PackCounts
    <3> HIDE DEF g
    <3>2. GranuleFrame(t, g) = StampIn(t, S, lost, k + 1)
      BY <1>3, <1>8, <2>3, <3>1 DEF GranuleFrame
    <3>3. Bears(t, S, lost, k + 1, laces, g)
      BY <1>2, <2>3, <3>1, <3>2, StampBears
    <3>4. buffered'[t].segs = laces /\ buffered'[t].granule = g
      BY <1>7, <1>14 DEF BuilderSet, laces, g
    <3>5. QED BY <1>2, <1>4, <2>1, <3>3, <3>4, Zenon DEF BuilderTold
  <2>7. QED BY <1>1, <1>11, <1>14, <2>1, <2>4, <2>5, <2>6, StampTold DEF k, S, lost
<1>15. CASE /\ ~packs
            /\ refused' = refused \cup {<<t, Len(S)>>}
            /\ UNCHANGED <<next_frame, buffered, sample_times>>
  <2> DEFINE lost2 == Lost(t)'
  <2>1. refused' = refused \cup {<<t, k + 1>>} /\ UNCHANGED <<next_frame, buffered, sample_times>>
    BY <1>2, <1>15
  <2>2. k + 1 \in lost2 /\ SameLog(S, lost, S, lost2, k)
    <3>1. \A i \in 1 .. k + 1 : i \in lost2 <=> <<t, i>> \in refused'
      BY <1>2
    <3> HIDE DEF lost2
    <3>2. k + 1 \in 1 .. k + 1 /\ \A i \in 1 .. k : i \in 1 .. k + 1 /\ i # k + 1
      BY <1>2
    <3>3. k + 1 \in lost2
      BY <2>1, <3>1, <3>2
    <3>4. \A i \in 1 .. k : i \in lost <=> i \in lost2
      <4> TAKE i \in 1 .. k
      <4>1. <<t, i>> \in refused' <=> <<t, i>> \in refused
        BY <2>1, <3>2
      <4>2. QED BY <1>2, <3>1, <3>2, <4>1
    <3>5. QED BY <3>3, <3>4 DEF SameLog
  <2> HIDE DEF lost2
  <2>3. \A n \in TimedIn(t, S, lost2, k + 1) : n <= k
    <3>1. \A n \in TimedIn(t, S, lost2, k + 1) : n \in 1 .. k + 1 /\ n # k + 1
      BY <2>2 DEF TimedIn
    <3>2. QED BY <1>2, <3>1
  <2>4. FrameAt(S, lost2, h, k + 1) = FrameAt(S, lost, h, k)
    <3>1. FrameAt(S, lost2, h, k + 1) = FrameAt(S, lost2, h, k)
      BY <1>2, <1>4, <1>11, <2>2, FrameNext
    <3>2. FrameAt(S, lost, h, k) = FrameAt(S, lost2, h, k)
      BY <1>2, <1>4, <1>11, <2>2, FrameOn
    <3>3. QED BY <3>1, <3>2
  <2>5. CountsTold(t)'
    <3>1. Counts(t, S, lost2, k + 1, headers_remaining'[t], next_frame'[t])
      BY <1>3, <1>4, <1>6, <1>11, <1>13, <2>1, <2>4, Zenon DEF Counts, h
    <3>2. QED BY <1>2, <1>4, <3>1, Zenon DEF CountsTold, lost2
  <2>6. TimesTold(t)'
    <3>1. Spans(t, S, lost2, TimedIn(t, S, lost2, k + 1), sample_times[t])
      BY <1>2, <1>9, <1>11, <2>2, <2>3, SpansOn
    <3>2. QED BY <1>2, <1>4, <2>1, <3>1, Zenon DEF TimesTold, lost2
  <2>7. BuilderTold(t)'
    <3>1. Bears(t, S, lost2, k + 1, laces, buffered[t].granule)
      BY <1>2, <1>9, <1>11, <2>2, <2>3, BearsOn
    <3>2. QED BY <1>2, <1>4, <2>1, <3>1, Zenon DEF BuilderTold, laces, lost2
  <2>8. QED BY <1>1, <2>1, <2>2, <2>5, <2>6, <2>7, StampTold DEF k, S, lost, lost2
<1>16. QED BY <1>3, <1>14, <1>15

-----------------------------------------------------------------------------
(* Steps that make a page.                                                 *)

LEMMA FlushTold ==
  ASSUME TypeInv, WriterInv, StreamsKept, StreamsTold, FlushPage
  PROVE  StreamsTold'
<1> SUFFICES ASSUME NEW t \in Streams, t = writing.s PROVE StreamsTold'
  BY AtWork
<1> DEFINE b     == buffered[t]
           c     == PageTime(t, b.granule)
           time  == IF c > newest_time[t] THEN c ELSE newest_time[t]
           flags == (IF b.cont THEN {"cont"} ELSE {}) \cup (IF bos_emitted[t] THEN {} ELSE {"bos"})
           p     == Page(t, flags, b.granule, b.segs, time)
           item  == [page |-> p, kf |-> b.kf]
<1>1. step = "flush" /\ step' = "release" /\ UNCHANGED <<writing, wire>> /\ UNCHANGED Stamping
  BY DEF FlushPage, Doing, GoTo, Stamping, skeleton
<1>2. /\ queue' = [queue EXCEPT ![t] = Append(@, item)]
      /\ buffered' = [buffered EXCEPT ![t] = NextBuilder(b)]
  BY DEF FlushPage
<1>3. /\ b \in BuilderSet /\ newest_time[t] \in Nat
      /\ b.granule \in Granules /\ b.kf \in Granules /\ b.segs \in SegsSet
  BY AtWork DEF TypeInv, DataInv, ClocksInv, BuilderSet
<1>4. item \in ItemSet /\ p \in PageSet
  <2>1. time \in Nat
    BY <1>3, PageTimeType
  <2>2. flags \in PageFlags
    BY DEF PageFlags
  <2> HIDE DEF time, flags
  <2>3. p \in PageSet
    BY <1>3, <2>1, <2>2, PageType DEF TypeInv, DataInv
  <2>4. QED BY <1>3, <2>3 DEF ItemSet
<1>5. p.stream = t /\ p.segs = b.segs /\ p.granule = b.granule /\ item.page = p
  BY DEF Page
<1>6. NextBuilder(b).segs = <<>> /\ NextBuilder(b).granule = NoPts
  BY DEF NextBuilder, EmptyBuilder
<1> HIDE DEF item, p, b
<1>7. WireInv /\ QueuesInv /\ queue \in [Streams -> Seq(ItemSet)] /\ buffered \in [Streams -> BuilderSet]
  BY DEF TypeInv, DataInv, QueuesInv, BuffersInv
<1> SUFFICES ASSUME NEW s \in Streams PROVE StreamTold(s)'
  BY DEF StreamsTold
<1>8. StreamTold(s) /\ SameStamps(s) /\ SameStand(s)
  <2>1. Unstamped(s)' <=> Unstamped(s)
    BY <1>1 DEF Unstamped, Midway, LacesLeft
  <2>2. QED BY <1>1, <2>1 DEF StreamsTold, SameStamps, SameRefused, SameStand, Stamping
<1>9. CASE s # t
  <2>1. queue'[s] = queue[s] /\ buffered'[s] = buffered[s]
    BY <1>2, <1>7, <1>9
  <2>2. Pages(s)' = Pages(s)
    BY <1>1, <2>1, PagesStay
  <2>3. QED BY <1>8, <2>1, <2>2, ToldOn DEF SameBuilder
<1>10. CASE s = t
  <2>1. queue'[t] = Append(queue[t], item) /\ buffered'[t].segs = <<>> /\ buffered'[t].granule = NoPts
    BY <1>2, <1>6, <1>7
  <2>2. Pages(t)' = Append(Pages(t), p) /\ Pages(t) \in Seq(PageSet)
    BY <1>1, <1>4, <1>5, <1>7, <2>1, PagesQueued, PagesType
  <2>3. /\ LogTold(t)' /\ CountsTold(t)' /\ TimesTold(t)'
        /\ Seen(t)' = Seen(t) /\ Lost(t)' = Lost(t) /\ sent'[t] = sent[t]
    BY <1>8, <1>10, LogOn
  <2>4. BuilderTold(t)'
    BY <2>1, Zenon DEF BuilderTold, Bears
  <2>5. PageBears(t, sent[t], Lost(t), Seen(t), p)
    <3>1. \A n \in DoneIn(p.segs) : n <= Seen(t)
      BY <1>1, <1>5, BuilderSeen DEF StreamsKept, b
    <3>2. Bears(t, sent[t], Lost(t), Seen(t), b.segs, b.granule)
      BY <1>8, <1>10, Zenon DEF StreamTold, BuilderTold, b
    <3>3. QED BY <1>5, <3>1, <3>2, Zenon DEF PageBears
  <2>6. PagesTold(t)'
    <3> DEFINE x == Pages(t)
               y == Append(x, p)
               Told(q) == PageBears(t, sent[t], Lost(t), Seen(t), q)
    <3>1. x \in Seq(PageSet) /\ \A i \in 1 .. Len(x) : Told(x[i])
      BY <1>8, <1>10, <2>2, Zenon DEF StreamTold, PagesTold
    <3>2. Told(p)
      BY <2>5
    <3> HIDE DEF x, Told
    <3>3. Len(x) \in Nat /\ Len(y) = Len(x) + 1 /\ y[Len(x) + 1] = p /\ \A i \in 1 .. Len(x) : y[i] = x[i]
      BY <3>1, AppendProperties
    <3> HIDE DEF y
    <3>4. \A i \in 1 .. Len(y) : Told(y[i])
      <4> TAKE i \in 1 .. Len(y)
      <4>1. i \in 1 .. Len(x) \/ i = Len(x) + 1
        BY <3>3
      <4>2. QED BY <3>1, <3>2, <3>3, <4>1
    <3>5. Pages(t)' = y
      BY <2>2 DEF x, y
    <3>6. QED BY <2>3, <3>4, <3>5, Zenon DEF PagesTold, Told
  <2>7. QED BY <1>10, <2>3, <2>4, <2>6, Zenon DEF StreamTold
<1>11. QED BY <1>9, <1>10

\* A blank stream was handed nothing.
LEMMA BlankUnsent ==
  ASSUME TypeInv, NEW s \in Streams, StreamKept(s), Blank(s), ~Midway(s)
  PROVE  Len(sent[s]) = 0 /\ Pages(s) = <<>> /\ buffered[s].segs = <<>> /\ queue[s] = <<>>
<1>1. WireInv /\ QueuesInv /\ sent[s] \in Seq(Packet)
  BY DEF TypeInv, DataInv, SentInv
<1>2. Pages(s) = <<>> /\ buffered[s].segs = <<>> /\ queue[s] = <<>>
  BY <1>1, EmptyPages DEF StreamKept
<1>3. [i \in DOMAIN Pages(s) |-> Pages(s)[i].segs] = <<>>
  BY <1>2
<1>4. FlattenSeq(<<>>) = <<>>
  <2>1. Len(<<>>) = 0
    OBVIOUS
  <2>2. QED BY <2>1, Zenon DEF FlattenSeq
<1>5. LacesOn(Pages(s)) = <<>>
  BY <1>3, <1>4, Zenon DEF LacesOn
<1>6. LacesOn(Pages(s)) \o buffered[s].segs = <<>>
  BY <1>2, <1>5
<1>7. Chain(<<>>, Len(sent[s]) + 1, 1)
  BY <1>6, Zenon DEF StreamKept, InOrder, DuePacket, DueLace
<1>8. Len(sent[s]) + 1 = 1 /\ Len(sent[s]) \in Nat
  BY <1>1, <1>7 DEF Chain
<1>9. QED BY <1>2, <1>8

LEMMA BosTold ==
  ASSUME TypeInv, WriterInv, StreamsKept, StreamsTold, Matching, WriteBos
  PROVE  StreamsTold'
<1> SUFFICES ASSUME NEW t \in Streams, t \in Current, t = Turn PROVE StreamsTold'
  BY TurnType DEF TypeInv
<1> DEFINE segs == <<Lace(1, 1, 1)>>
           p == Page(t, {"bos"}, 0, segs, 0)
<1>1. /\ step = "none" /\ step' = "none"
      /\ \/ stage = "theora_bos" /\ t \in Theora
         \/ stage = "other_bos" /\ t \notin Theora
      /\ headers_remaining[t] > 0
  BY DEF WriteBos, BosTurn, InPass, Inside
<1>2. /\ wire' = Append(wire, p)
      /\ sent' = [sent EXCEPT ![t] = Append(@, HeaderPacket)]
      /\ headers_remaining' = [headers_remaining EXCEPT ![t] = @ - 1]
      /\ UNCHANGED <<queue, buffered, writing, refused, next_frame, sample_times>>
  BY DEF WriteBos, skeleton
<1>3. segs \in SegsSet /\ segs # <<>> /\ segs[1].pkt = 1 /\ Len(segs) = 1
  <2>1. Lace(1, 1, 1) = [pkt |-> 1, n |-> 1, open |-> FALSE]
    <3>1. (1 < 1) = FALSE
      OBVIOUS
    <3>2. QED BY <3>1, Zenon DEF Lace
  <2>2. Lace(1, 1, 1) \in LaceSet
    <3>1. [pkt |-> 1, n |-> 1, open |-> FALSE] \in LaceSet
      BY DEF LaceSet
    <3>2. QED BY <2>1, <3>1, Zenon
  <2>3. QED BY <2>1, <2>2, MuxAssumption DEF SegsSet
<1> HIDE DEF segs
<1>4. p \in PageSet
  <2>1. {"bos"} \in PageFlags /\ 0 \in Granules /\ 0 \in Nat
    BY DEF PageFlags, Granules
  <2>2. QED BY <1>3, <2>1, PageType DEF TypeInv, DataInv
<1>5. p.stream = t /\ p.segs = segs
  BY DEF Page
<1> HIDE DEF p
<1>6. WireInv /\ QueuesInv /\ sent \in [Streams -> Seq(Packet)] /\ headers_remaining \in [Streams -> Nat]
  BY DEF TypeInv, DataInv, SentInv, HeadersInv
<1> SUFFICES ASSUME NEW s \in Streams PROVE StreamTold(s)'
  BY DEF StreamsTold
<1>7. StreamTold(s) /\ ~Unstamped(s) /\ ~Unstamped(s)' /\ ~Midway(s)
  BY <1>1 DEF StreamsTold, Unstamped, Midway
<1>8. CASE s # t
  <2>1. sent'[s] = sent[s] /\ headers_remaining'[s] = headers_remaining[s]
    BY <1>2, <1>6, <1>8
  <2>2. Pages(s)' = Pages(s)
    BY <1>2, <1>4, <1>5, <1>6, <1>8, PagesStayOnWrite
  <2>3. SameStamps(s) /\ SameBuilder(s) /\ SameStand(s)
    BY <1>2, <1>7, <2>1 DEF SameStamps, SameRefused, SameBuilder, SameStand
  <2>4. QED BY <1>7, <2>2, <2>3, ToldOn
<1>9. CASE s = t
  <2>1. Blank(t)
    <3>1. ~Passed(t)
      BY TurnNotPassed DEF TypeInv
    <3>2. BosDue(t)
      BY <1>1, <3>1 DEF BosDue
    <3>3. QED BY <3>2, Zenon DEF Blank
  <2>2. Len(sent[t]) = 0 /\ Pages(t) = <<>> /\ buffered[t].segs = <<>> /\ queue[t] = <<>>
    BY <1>7, <1>9, <2>1, BlankUnsent DEF StreamsKept
  <2>3. Pages(t)' = Append(Pages(t), p)
    BY <1>2, <1>4, <1>5, <1>6, <2>2, PagesWritten
  <2>4. Seen(t) = 0 /\ Seen(t)' = 1 /\ DOMAIN sent[t] = 1 .. 0 /\ DOMAIN sent'[t] = 1 .. 1
    <3>1. sent'[t] = Append(sent[t], HeaderPacket) /\ sent[t] \in Seq(Packet)
      BY <1>2, <1>6
    <3>2. Len(sent'[t]) = 1 /\ sent'[t] \in Seq(Packet)
      BY <2>2, <3>1, HeaderPacketType, AppendProperties
    <3>3. QED BY <1>7, <1>9, <2>2, <3>1, <3>2 DEF Seen
  <2>5. \A r \in refused : r[1] # t
    BY <1>7, <1>9, <2>4 DEF StreamTold, LogTold
  <2>6. LogTold(t)'
    BY <1>2, <1>7, <1>9, <2>5 DEF LogTold
  <2> DEFINE S == sent'[t]
             lost == Lost(t)'
  <2>7. HeaderCount(t) = Need[t] /\ Need[t] \in Nat \ {0}
    BY HeaderCounts
  <2>8. CountsTold(t)'
    <3>1. Counts(t, sent[t], Lost(t), 0, headers_remaining[t], next_frame[t])
      BY <1>7, <1>9, <2>4, Zenon DEF StreamTold, CountsTold
    <3>2. headers_remaining[t] = Need[t] /\ (t \in Theora => next_frame[t] = 0)
      BY <2>7, <3>1 DEF Counts
    <3>3. headers_remaining'[t] = Need[t] - 1
      BY <1>2, <1>6, <3>2
    <3> HIDE DEF S, lost
    <3>4. CASE Need[t] = 1
      <4>1. FrameAt(S, lost, 1, 1) = -1
        BY FrameFirst
      <4>2. Counts(t, S, lost, 1, headers_remaining'[t], next_frame'[t])
        BY <1>2, <2>7, <3>2, <3>3, <3>4, <4>1 DEF Counts
      <4>3. QED BY <2>4, <4>2, Zenon DEF CountsTold, S, lost
    <3>5. CASE Need[t] # 1
      <4>1. Counts(t, S, lost, 1, headers_remaining'[t], next_frame'[t])
        BY <1>2, <2>7, <3>2, <3>3, <3>5 DEF Counts
      <4>2. QED BY <2>4, <4>1, Zenon DEF CountsTold, S, lost
    <3>6. QED BY <3>4, <3>5
  <2>9. TimesTold(t)'
    <3>1. Spans(t, sent[t], Lost(t), TimedIn(t, sent[t], Lost(t), 0), sample_times[t])
      BY <1>7, <1>9, <2>4, Zenon DEF StreamTold, TimesTold
    <3> HIDE DEF S, lost
    <3>2. TimedIn(t, sent[t], Lost(t), 0) = {} /\ TimedIn(t, S, lost, 1) = {}
      BY <2>7 DEF TimedIn
    <3>3. Spans(t, S, lost, TimedIn(t, S, lost, 1), sample_times[t])
      BY <3>1, <3>2 DEF Spans
    <3>4. QED BY <1>2, <2>4, <3>3, Zenon DEF TimesTold, S, lost
  <2>10. BuilderTold(t)'
    <3>1. buffered[t].granule = NoPts
      BY <1>7, <1>9, <2>2, Zenon DEF StreamTold, BuilderTold
    <3>2. QED BY <1>2, <2>2, <3>1, Zenon DEF BuilderTold, Bears
  <2>11. PagesTold(t)'
    <3>1. PageBears(t, S, lost, 1, p)
      <4>1. \A n \in DoneIn(segs) : n <= 1
        BY <1>3 DEF DoneIn
      <4>2. ~(segs[1].pkt > HeaderCount(t))
        BY <1>3, <2>7
      <4> HIDE DEF S, lost
      <4>3. QED BY <1>5, <4>1, <4>2, Zenon DEF PageBears, Bears
    <3>2. Pages(t)' = <<p>>
      BY <2>2, <2>3
    <3>3. Len(<<p>>) = 1 /\ \A i \in 1 .. 1 : i = 1 /\ <<p>>[i] = p
      OBVIOUS
    <3>4. QED BY <2>4, <3>1, <3>2, <3>3 DEF PagesTold
  <2>12. QED BY <1>9, <2>6, <2>8, <2>9, <2>10, <2>11, Zenon DEF StreamTold
<1>10. QED BY <1>8, <1>9

\* Closing a stream makes no page but a nil one, and no other change but a flag.
LEMMA ClosePages ==
  ASSUME TypeInv, StreamsKept, CloseStream, NEW t \in Streams, t = Turn
  PROVE  \A i \in 1 .. Len(Pages(t)') :
           LET p == Pages(t)'[i]
           IN \/ p.segs = <<>> /\ p.stream = t
              \/ /\ i \in 1 .. Len(Pages(t))
                 /\ p.segs = Pages(t)[i].segs /\ p.granule = Pages(t)[i].granule
                 /\ p.stream = Pages(t)[i].stream
<1> DEFINE x == Pages(t)
           y == Pages(t)'
           Like(p, q) == p.segs = q.segs /\ p.granule = q.granule /\ p.stream = q.stream
<1>1. /\ WireInv /\ QueuesInv /\ queue \in [Streams -> Seq(ItemSet)] /\ UNCHANGED wire
      /\ newest_time[t] \in Nat /\ last_granule[t] \in Nat
  BY DEF TypeInv, DataInv, QueuesInv, ClocksInv, CloseStream
<1>2. Len(queue[t]) \in Nat /\ queue[t] \in Seq(ItemSet) /\ x \in Seq(PageSet)
  BY <1>1, PagesType
<1>3. CASE Len(queue[t]) > 0
  <2> DEFINE n    == Len(queue[t])
             old  == queue[t][n].page
             p    == [old EXCEPT !.flags = @ \cup {"eos"}]
             item == [queue[t][n] EXCEPT !.page = p]
  <2>1. queue' = [queue EXCEPT ![t][n].page.flags = @ \cup {"eos"}]
    BY <1>3 DEF CloseStream
  <2>2. n \in 1 .. n /\ queue[t][n] \in ItemSet /\ old \in PageSet /\ queue[t] # <<>>
    <3>1. n \in 1 .. n /\ queue[t][n] \in ItemSet /\ queue[t] # <<>>
      BY <1>2, <1>3
    <3>2. QED BY <3>1 DEF ItemSet
  <2>3. Like(p, old) /\ p \in PageSet
    BY <2>2 DEF PageSet, PageFlags
  <2>4. item \in ItemSet /\ item.page = p
    BY <2>2, <2>3 DEF ItemSet
  <2>5. queue'[t] = [queue[t] EXCEPT ![n] = item]
    BY <1>1, <2>1
  <2> HIDE DEF item, p, n
  <2>6. /\ x # <<>> /\ x[Len(x)] = old /\ y = [x EXCEPT ![Len(x)] = p]
    BY <1>1, <2>2, <2>4, <2>5, PagesClosed DEF n
  <2> HIDE DEF x, y, old, Like
  <2>7. Len(y) = Len(x) /\ y[Len(x)] = p /\ \A i \in 1 .. Len(x) : i # Len(x) => y[i] = x[i]
    BY <1>2, <2>6
  <2>8. \A i \in 1 .. Len(y) : i \in 1 .. Len(x) /\ Like(y[i], x[i])
    <3> TAKE i \in 1 .. Len(y)
    <3>1. CASE i = Len(x)
      BY <2>3, <2>6, <2>7, <3>1
    <3>2. CASE i # Len(x)
      BY <2>7, <3>2 DEF Like
    <3>3. QED BY <3>1, <3>2
  <2>9. QED BY <2>8, Zenon DEF Like, x, y
<1>4. CASE Len(queue[t]) = 0 /\ bos_emitted[t]
  <2> DEFINE p == Page(t, {"eos"}, last_granule[t], <<>>, newest_time[t])
             item == [kf |-> NoPts, page |-> p]
  <2>1. queue' = [queue EXCEPT ![t] = <<item>>]
    BY <1>4 DEF CloseStream
  <2>2. p \in PageSet
    <3>1. {"eos"} \in PageFlags /\ <<>> \in SegsSet /\ last_granule[t] \in Granules
      BY <1>1, MuxAssumption DEF PageFlags, SegsSet, Granules
    <3>2. QED BY <1>1, <3>1, PageType DEF TypeInv, DataInv
  <2>3. p.stream = t /\ p.segs = <<>>
    BY DEF Page
  <2>4. item \in ItemSet /\ item.page = p
    BY <2>2 DEF ItemSet, Granules
  <2> HIDE DEF p, item
  <2>5. queue'[t] = Append(queue[t], item)
    <3>1. queue[t] = <<>> /\ queue'[t] = <<item>>
      BY <1>1, <1>2, <1>4, <2>1, EmptySeq
    <3>2. Append(<<>>, item) = <<item>>
      OBVIOUS
    <3>3. QED BY <3>1, <3>2
  <2>6. y = Append(x, p)
    BY <1>1, <2>4, <2>5, PagesQueued
  <2> HIDE DEF x, y
  <2>7. /\ Len(x) \in Nat /\ Len(y) = Len(x) + 1 /\ y[Len(x) + 1] = p
        /\ \A i \in 1 .. Len(x) : y[i] = x[i]
    BY <1>2, <2>6, AppendProperties
  <2>8. \A i \in 1 .. Len(y) : (y[i].segs = <<>> /\ y[i].stream = t) \/ (i \in 1 .. Len(x) /\ Like(y[i], x[i]))
    <3> TAKE i \in 1 .. Len(y)
    <3>1. i \in 1 .. Len(x) \/ i = Len(x) + 1
      BY <2>7
    <3>2. QED BY <2>3, <2>7, <3>1
  <2>9. QED BY <2>8, Zenon DEF x, y
<1>5. CASE Len(queue[t]) = 0 /\ ~bos_emitted[t]
  <2>1. queue'[t] = queue[t]
    BY <1>5 DEF CloseStream
  <2>2. y = x
    BY <1>1, <2>1, PagesStay
  <2>3. QED BY <2>2
<1>6. QED BY <1>2, <1>3, <1>4, <1>5

LEMMA CloseTold ==
  ASSUME TypeInv, StreamsKept, StreamsTold, CloseStream
  PROVE  StreamsTold'
<1> SUFFICES ASSUME NEW t \in Streams, t = Turn PROVE StreamsTold'
  BY TurnType DEF TypeInv
<1>1. step = "none" /\ UNCHANGED <<wire, buffered, step, writing>> /\ UNCHANGED Stamping
  BY DEF CloseStream, Closing, Inside, Stamping, skeleton
<1> SUFFICES ASSUME NEW s \in Streams PROVE StreamTold(s)'
  BY DEF StreamsTold
<1>2. StreamTold(s) /\ SameStamps(s) /\ SameStand(s) /\ SameBuilder(s)
  BY <1>1 DEF StreamsTold, SameStamps, SameRefused, SameStand, SameBuilder, Stamping, Unstamped, Midway
<1>3. CASE s # t
  <2>1. queue'[s] = queue[s]
    <3>1. queue \in [Streams -> Seq(ItemSet)]
      BY DEF TypeInv, DataInv, QueuesInv
    <3>2. Len(queue[t]) \in Nat
      BY <3>1
    <3>3. QED BY <1>3, <3>1, <3>2 DEF CloseStream
  <2>2. Pages(s)' = Pages(s)
    BY <1>1, <2>1, PagesStay
  <2>3. QED BY <1>2, <2>2, ToldOn
<1>4. CASE s = t
  <2>1. /\ LogTold(t)' /\ CountsTold(t)' /\ TimesTold(t)'
        /\ Seen(t)' = Seen(t) /\ Lost(t)' = Lost(t) /\ sent'[t] = sent[t]
    BY <1>2, <1>4, LogOn
  <2>2. BuilderTold(t)'
    BY <1>2, <1>4, <2>1, Zenon DEF StreamTold, BuilderTold, SameBuilder
  <2>3. PagesTold(t)'
    <3> DEFINE y == Pages(t)'
               Told(p) == PageBears(t, sent[t], Lost(t), Seen(t), p)
    <3>1. \A i \in 1 .. Len(Pages(t)) : Told(Pages(t)[i])
      BY <1>2, <1>4, Zenon DEF StreamTold, PagesTold
    <3>2. ASSUME NEW i \in 1 .. Len(y) PROVE Told(y[i])
      <4>1. CASE y[i].segs = <<>> /\ y[i].stream = t
        <5>1. DoneIn(<<>>) = {}
          BY DEF DoneIn
        <5>2. QED BY <4>1, <5>1, Zenon DEF PageBears, Bears
      <4>2. CASE /\ i \in 1 .. Len(Pages(t))
                 /\ y[i].segs = Pages(t)[i].segs /\ y[i].granule = Pages(t)[i].granule
                 /\ y[i].stream = Pages(t)[i].stream
        BY <3>1, <4>2, Zenon DEF PageBears
      <4>3. QED BY <4>1, <4>2, ClosePages, Zenon
    <3>3. QED BY <2>1, <3>2, Zenon DEF PagesTold
  <2>4. QED BY <1>4, <2>1, <2>2, <2>3, Zenon DEF StreamTold
<1>5. QED BY <1>3, <1>4

-----------------------------------------------------------------------------
(* The invariant holds.                                                    *)

LEMMA InitStamped == Init => StampedInv
<1> SUFFICES ASSUME Init PROVE StampedInv
  OBVIOUS
<1>1. sample_times = [s \in Streams |-> sample_times[s]]
  BY DEF Init
<1> SUFFICES ASSUME NEW s \in Streams PROVE StreamTold(s)
  BY <1>1 DEF StampedInv, StreamsTold
<1>2. /\ sent[s] = <<>> /\ refused = {} /\ headers_remaining[s] = Need[s] /\ next_frame[s] = 0
      /\ sample_times[s] = <<>> /\ buffered[s] = EmptyBuilder /\ wire = <<>> /\ queue[s] = <<>>
      /\ step = "none"
  BY DEF Init
<1>3. Seen(s) = 0 /\ Lost(s) = {} /\ ~Unstamped(s)
  BY <1>2 DEF Seen, Lost, Unstamped, Midway
<1>4. HeaderCount(s) \in Nat \ {0} /\ Need[s] \in Nat \ {0}
  BY HeaderCounts
<1>5. LogTold(s)
  BY <1>2, <1>3 DEF LogTold
<1>6. CountsTold(s)
  BY <1>2, <1>3, <1>4 DEF CountsTold, Counts
<1>7. TimesTold(s)
  <2>1. TimedIn(s, sent[s], Lost(s), 0) = {}
    BY <1>4 DEF TimedIn
  <2>2. QED BY <1>2, <1>3, <2>1 DEF TimesTold, Spans
<1>8. BuilderTold(s)
  BY <1>2 DEF BuilderTold, Bears, EmptyBuilder
<1>9. PagesTold(s)
  <2>1. Pages(s) = <<>>
    BY NoPages
  <2>2. QED BY <2>1 DEF PagesTold
<1>10. QED BY <1>5, <1>6, <1>7, <1>8, <1>9, Zenon DEF StreamTold

\* Notes are taken stream by stream.
LEMMA NotesStep ==
  ASSUME StampedInv, [Next]_vars
  PROVE  (sample_times = [s \in Streams |-> sample_times[s]])'
<1>1. sample_times = [s \in Streams |-> sample_times[s]]
  BY DEF StampedInv
<1>2. CASE UNCHANGED sample_times
  BY <1>1, <1>2
<1>3. CASE \E t, pts : sample_times' = NotePts(t, pts)
  <2>1. PICK t, pts : sample_times' = NotePts(t, pts)
    BY <1>3
  <2>2. QED BY <1>1, <2>1 DEF NotePts
<1>4. CASE StampContent
  <2>1. sample_times' = NotePts(writing.s, writing.p.pts)
    BY <1>4, Zenon DEF StampContent
  <2>2. QED BY <1>3, <2>1
<1>5. CASE StampTheora
  <2>1. \/ UNCHANGED sample_times
        \/ sample_times' = NotePts(writing.s, IF writing.p.pts = NoPts THEN next_frame[writing.s]
                                              ELSE writing.p.pts)
    BY <1>5, Zenon DEF StampTheora
  <2>2. QED BY <1>2, <1>3, <2>1
<1>6. ASSUME [Next]_vars, ~StampContent, ~StampTheora PROVE UNCHANGED sample_times
  BY <1>6, Zenon DEF Next, Calls, Steps, Terminated, WriteHeader, BeginNewLink, WriteTrailer,
     SetPageTarget, WritePacket, Arm, ArmSkeleton, NextLink, WriteBos, WriteSecondary, PassTurn,
     WriteSkeletonPage, BeginPacket, PutLaces, StampHeader, FlushPage, ReleasePage, ReleaseDone,
     DrainPage, DrainDone, CloseFlush, CloseStream, Backfill, skeleton, vars
<1>7. QED BY <1>2, <1>4, <1>5, <1>6

LEMMA StepStamped ==
  ASSUME TypeInv, PacketsInv, StampedInv, Matching, [Next]_vars
  PROVE  StampedInv'
<1>1. WriterInv /\ StreamsKept /\ StreamsTold
  BY DEF PacketsInv, StampedInv
<1>2. StreamsTold'
  <2>1. CASE \/ WriteHeader \/ BeginNewLink \/ WriteTrailer \/ Arm \/ ArmSkeleton \/ NextLink
             \/ WriteSecondary \/ PassTurn \/ ReleaseDone \/ DrainDone \/ CloseFlush \/ Backfill
             \/ UNCHANGED vars
             \/ \E t \in Targets \cup {NoTarget} : SetPageTarget(t)
             \/ \E s \in Streams : \E p \in Packets[s] : WritePacket(s, p)
    BY <1>1, <2>1, MovingTold
  <2>2. CASE ReleasePage \/ DrainPage \/ WriteSkeletonPage
    BY <1>1, <2>2, LetOutTold
  <2>3. CASE BeginPacket
    BY <1>1, <2>3, BeginTold
  <2>4. CASE PutLaces
    BY <1>1, <2>4, PutTold
  <2>5. CASE StampHeader
    BY <1>1, <2>5, StampHeaderTold
  <2>6. CASE StampContent
    BY <1>1, <2>6, StampContentTold
  <2>7. CASE StampTheora
    BY <1>1, <2>7, StampTheoraTold
  <2>8. CASE FlushPage
    BY <1>1, <2>8, FlushTold
  <2>9. CASE WriteBos
    BY <1>1, <2>9, BosTold
  <2>10. CASE CloseStream
    BY <1>1, <2>10, CloseTold
  <2>11. QED
    BY <2>1, <2>2, <2>3, <2>4, <2>5, <2>6, <2>7, <2>8, <2>9, <2>10, Zenon
    DEF Next, Calls, Steps, Terminated
<1>3. QED BY <1>2, NotesStep DEF StampedInv

-----------------------------------------------------------------------------
(* Granules.                                                               *)

LEMMA StampedImply ==
  ASSUME TypeInv, StampedInv
  PROVE  PageGranules
<1> SUFFICES ASSUME NEW s \in Streams, NEW i \in DOMAIN Pages(s), NEW p, p = Pages(s)[i],
                    IsContent(p), p.segs # <<>>, NEW done, done = Completed(p) \cap StampedPackets(s)
             PROVE  IF done = {} THEN p.granule = NoPts
                    ELSE p.granule # NoPts /\ GranuleFrame(s, p.granule) = Stamped(s, Max(done))
  BY Zenon DEF PageGranules
<1> DEFINE n == Len(sent[s])
           k == Seen(s)
           S == sent[s]
           lost == Lost(s)
<1>1. /\ Pages(s) \in Seq(PageSet) /\ DOMAIN Pages(s) = 1 .. Len(Pages(s)) /\ p \in PageSet
      /\ S \in Seq(Packet) /\ DOMAIN S = 1 .. n /\ n \in Nat
  BY PagesType DEF TypeInv, DataInv, SentInv
<1>2. k \in Nat /\ k <= n
  <2>1. k \in Nat
    BY Zenon DEF StampedInv, StreamsTold, StreamTold, CountsTold, Counts
  <2>2. k = n \/ k = n - 1
    BY Zenon DEF Seen
  <2>3. QED BY <1>1, <2>1, <2>2
<1>3. PageBears(s, S, lost, k, p)
  BY <1>1, Zenon DEF StampedInv, StreamsTold, StreamTold, PagesTold
<1>4. PageBears(s, S, lost, n, p)
  <2>1. SameLog(S, lost, S, lost, k)
    BY DEF SameLog
  <2> HIDE DEF n, k, S, lost
  <2>2. QED BY <1>1, <1>2, <1>3, <2>1, PageBearsOn
<1>5. StampedPackets(s) = TimedIn(s, S, lost, n)
  BY <1>1, Zenon DEF StampedPackets, TimedIn
<1>6. Completed(p) = DoneIn(p.segs)
  BY Zenon DEF Completed, DoneIn
<1>7. \A m : Stamped(s, m) = StampIn(s, S, lost, m)
  BY Zenon DEF Stamped, StampIn
<1>8. p.segs[1].pkt > HeaderCount(s)
  <2>1. p.stream = s
    BY <1>4, Zenon DEF PageBears
  <2>2. p.segs \in Seq(LaceSet) /\ p.segs[1] \in LaceSet
    <3>1. p.segs \in Seq(LaceSet)
      BY <1>1 DEF PageSet, SegsSet
    <3>2. QED BY <3>1
  <2>3. p.segs[1].pkt \in Nat /\ HeaderCount(s) \in Nat
    BY <2>2, HeaderCounts DEF LaceSet
  <2>4. s # "skeleton"
    BY MuxAssumption
  <2>5. QED BY <2>1, <2>3, <2>4 DEF IsContent, IsHeader
<1>9. Stamps(s, S, lost, done, p.granule)
  BY <1>4, <1>5, <1>6, <1>8, Zenon DEF PageBears, Bears
<1>10. \A m \in done : m \in Nat
  BY <1>5 DEF TimedIn
<1> HIDE DEF S, lost
<1>11. CASE done = {}
  BY <1>9, <1>11 DEF Stamps
<1>12. CASE done # {}
  <2>1. PICK m \in done : /\ \A j \in done : j <= m
                          /\ GranuleFrame(s, p.granule) = StampIn(s, S, lost, m)
    BY <1>9, <1>12 DEF Stamps
  <2>2. Max(done) = m
    BY <1>10, <2>1 DEF Max
  <2>3. QED BY <1>7, <1>9, <1>12, <2>1, <2>2 DEF Stamps
<1>13. QED BY <1>11, <1>12

\* For a caller whose extradata holds no header packets or all of its codec's, a
\* content page bears the granule of the last timestamped packet completed on
\* it, and -1 when there is none: no granule is lost by a flush, carried over to
\* the next page, or moved by a packet that was refused, has no timestamp or
\* spans pages (mux.rs: write_packet, append_packet_spanning, flush_page).
THEOREM GranulesStamped == Matching /\ Spec => []PageGranules
<1>1. Init => TypeInv /\ PacketsInv /\ StampedInv
  BY InitType, InitPackets, InitStamped
<1>2. Matching /\ TypeInv /\ PacketsInv /\ StampedInv /\ [Next]_vars
        => TypeInv' /\ PacketsInv' /\ StampedInv'
  BY TypeStep, StepPackets, StepStamped
<1>3. TypeInv /\ StampedInv => PageGranules
  BY StampedImply
<1>4. Matching /\ Spec => []PageGranules
  <2>1. CASE Matching
    BY <1>1, <1>2, <1>3, <2>1, PTL DEF Spec
  <2>2. QED BY <2>1
<1>5. QED BY <1>4

-----------------------------------------------------------------------------
(* Keypoints.                                                              *)

\* A keyframe stamped ts begins in laces.
KeyIn(s, packets, lost, k, laces, ts) ==
  \E i \in 1 .. Len(laces) :
    /\ laces[i].n = 1 /\ laces[i].pkt \in TimedIn(s, packets, lost, k)
    /\ packets[laces[i].pkt].keyframe /\ StampIn(s, packets, lost, laces[i].pkt) = ts

\* The candidate in the builder, those in the queue, and the keypoints accepted.
BuilderKey(s) ==
  buffered[s].kf # NoPts =>
    KeyIn(s, sent[s], Lost(s), Seen(s), buffered[s].segs, buffered[s].kf)
ItemKey(s, packets, lost, k, item) ==
  item.kf # NoPts => KeyIn(s, packets, lost, k, item.page.segs, item.kf)
QueueKeys(s) ==
  \A i \in 1 .. Len(queue[s]) : ItemKey(s, sent[s], Lost(s), Seen(s), queue[s][i])
Lands(s, packets, lost, k, file, point) ==
  /\ point.offset \in 1 .. Len(file) /\ file[point.offset].stream = s
  /\ KeyIn(s, packets, lost, k, file[point.offset].segs, point.timestamp)
PointKeys(s) ==
  \A i \in 1 .. Len(keypoints[s]) : Lands(s, sent[s], Lost(s), Seen(s), wire, keypoints[s][i])
Apart(s, last, point) ==
  /\ point.offset > last.offset /\ point.offset - last.offset >= ByteGap
  /\ (point.timestamp - last.timestamp) * Scale[s] >= TimeGap
Spaced(s) ==
  \A i \in 1 .. Len(keypoints[s]) - 1 : Apart(s, keypoints[s][i], keypoints[s][i + 1])
KeysTold(s) == BuilderKey(s) /\ QueueKeys(s) /\ PointKeys(s) /\ Spaced(s)

\* Keyframes fit a page.
Short == \A s \in Streams : \A p \in Packets[s] : p.keyframe => p.laces <= MaxSegs

\* A packet that fits a page is put on one as a whole.
Begun ==
  \E i \in 1 .. Len(buffered[writing.s].segs) :
    /\ buffered[writing.s].segs[i].pkt = Len(sent[writing.s])
    /\ buffered[writing.s].segs[i].n = 1
WholeInv ==
  /\ writing.p.keyframe => writing.p.laces <= MaxSegs
  /\ step = "release" => buffered[writing.s].segs = <<>>
  /\ writing.p.laces <= MaxSegs =>
       /\ step = "put" => /\ writing.from = 0
                          /\ Len(buffered[writing.s].segs) + writing.p.laces <= MaxSegs
       /\ step \in {"flush", "release"} /\ LacesLeft > 0 => writing.from = 0
       /\ step = "stamp" => Begun
KeysInv == WholeInv /\ \A s \in Streams : KeysTold(s)

-----------------------------------------------------------------------------
(* What was seen of a stream stays as it is.                               *)

LogGrew(s) ==
  /\ Seen(s) \in Nat /\ Seen(s)' \in Nat /\ Seen(s) <= Seen(s)'
  /\ SameLog(sent[s], Lost(s), sent'[s], Lost(s)', Seen(s))
  /\ \A i \in 1 .. Seen(s) : sent'[s][i] = sent[s][i]

LEMMA KeyOn ==
  ASSUME NEW s \in Streams, NEW p, NEW l, NEW p2, NEW l2, NEW k \in Nat, NEW k2 \in Nat, k <= k2,
         SameLog(p, l, p2, l2, k), \A i \in 1 .. k : p2[i] = p[i],
         NEW laces, NEW ts, KeyIn(s, p, l, k, laces, ts)
  PROVE  KeyIn(s, p2, l2, k2, laces, ts)
<1>1. PICK i \in 1 .. Len(laces) :
        /\ laces[i].n = 1 /\ laces[i].pkt \in TimedIn(s, p, l, k)
        /\ p[laces[i].pkt].keyframe /\ StampIn(s, p, l, laces[i].pkt) = ts
  BY DEF KeyIn
<1> DEFINE n == laces[i].pkt
<1>2. n \in 1 .. k /\ n \in TimedIn(s, p2, l2, k2) /\ StampIn(s, p, l, n) = StampIn(s, p2, l2, n)
  BY <1>1, TimedGrows
<1>3. p2[n] = p[n]
  BY <1>2
<1>4. QED BY <1>1, <1>2, <1>3 DEF KeyIn

\* Laces are put behind those in the builder.
LEMMA KeyMore ==
  ASSUME NEW s, NEW p, NEW l, NEW k, NEW x \in Seq(LaceSet), NEW y \in Seq(LaceSet), NEW ts,
         KeyIn(s, p, l, k, x, ts)
  PROVE  KeyIn(s, p, l, k, x \o y, ts)
<1> DEFINE z == x \o y
<1>1. PICK i \in 1 .. Len(x) :
        /\ x[i].n = 1 /\ x[i].pkt \in TimedIn(s, p, l, k)
        /\ p[x[i].pkt].keyframe /\ StampIn(s, p, l, x[i].pkt) = ts
  BY DEF KeyIn
<1>2. i \in 1 .. Len(z) /\ z[i] = x[i]
  OBVIOUS
<1> HIDE DEF z
<1>3. KeyIn(s, p, l, k, z, ts)
  BY <1>1, <1>2 DEF KeyIn
<1>4. QED BY <1>3 DEF z

LEMMA BuilderKeyOn ==
  ASSUME NEW s \in Streams, LogGrew(s), BuilderKey(s),
         buffered'[s].segs = buffered[s].segs, buffered'[s].kf = buffered[s].kf
  PROVE  BuilderKey(s)'
<1>1. KeyIn(s, sent[s], Lost(s), Seen(s), buffered[s].segs, buffered[s].kf)
        => KeyIn(s, sent'[s], Lost(s)', Seen(s)', buffered[s].segs, buffered[s].kf)
  BY KeyOn DEF LogGrew
<1>2. QED BY <1>1, Zenon DEF BuilderKey

LEMMA ItemKeyOn ==
  ASSUME NEW s \in Streams, LogGrew(s), NEW item, ItemKey(s, sent[s], Lost(s), Seen(s), item)
  PROVE  ItemKey(s, sent'[s], Lost(s)', Seen(s)', item)
<1>1. KeyIn(s, sent[s], Lost(s), Seen(s), item.page.segs, item.kf)
        => KeyIn(s, sent'[s], Lost(s)', Seen(s)', item.page.segs, item.kf)
  BY KeyOn DEF LogGrew
<1>2. QED BY <1>1, Zenon DEF ItemKey

LEMMA QueueKeysOn ==
  ASSUME NEW s \in Streams, LogGrew(s), QueueKeys(s), queue'[s] = queue[s]
  PROVE  QueueKeys(s)'
<1>1. \A i \in 1 .. Len(queue[s]) : ItemKey(s, sent'[s], Lost(s)', Seen(s)', queue[s][i])
  BY ItemKeyOn, Zenon DEF QueueKeys
<1>2. QED BY <1>1, Zenon DEF QueueKeys

\* The file grows behind the keypoints.
FileGrew == UNCHANGED wire \/ \E p \in PageSet : wire' = Append(wire, p)

LEMMA LandsOn ==
  ASSUME WireInv, NEW s \in Streams, LogGrew(s), FileGrew, NEW point,
         Lands(s, sent[s], Lost(s), Seen(s), wire, point)
  PROVE  Lands(s, sent'[s], Lost(s)', Seen(s)', wire', point)
<1> DEFINE i == point.offset
<1>1. i \in 1 .. Len(wire) /\ wire[i].stream = s
      /\ KeyIn(s, sent[s], Lost(s), Seen(s), wire[i].segs, point.timestamp)
  BY Zenon DEF Lands
<1>2. wire \in Seq(PageSet)
  BY DEF WireInv
<1>3. i \in 1 .. Len(wire') /\ wire'[i] = wire[i]
  <2>1. CASE UNCHANGED wire
    BY <1>1, <2>1
  <2>2. CASE \E p \in PageSet : wire' = Append(wire, p)
    BY <1>1, <1>2, <2>2, AppendProperties
  <2>3. QED BY <2>1, <2>2 DEF FileGrew
<1> HIDE DEF i
<1>4. KeyIn(s, sent'[s], Lost(s)', Seen(s)', wire[i].segs, point.timestamp)
  BY <1>1, KeyOn DEF LogGrew
<1>5. QED BY <1>1, <1>3, <1>4, Zenon DEF Lands, i

LEMMA PointKeysOn ==
  ASSUME WireInv, NEW s \in Streams, LogGrew(s), FileGrew, PointKeys(s),
         keypoints'[s] = keypoints[s]
  PROVE  PointKeys(s)'
<1>1. \A i \in 1 .. Len(keypoints[s]) :
        Lands(s, sent'[s], Lost(s)', Seen(s)', wire', keypoints[s][i])
  BY LandsOn, Zenon DEF PointKeys
<1>2. QED BY <1>1, Zenon DEF PointKeys

LEMMA SpacedOn ==
  ASSUME NEW s, Spaced(s), keypoints'[s] = keypoints[s]
  PROVE  Spaced(s)'
BY Zenon DEF Spaced

-----------------------------------------------------------------------------
(* What a step adds to the log.                                            *)

\* Only a packet handed over becomes one that waits for its stamp.
LEMMA Waiting ==
  ASSUME TypeInv, WriterInv, [Next]_vars, NEW s, ~Unstamped(s), Unstamped(s)'
  PROVE  BeginPacket
<1> SUFFICES ASSUME ~BeginPacket PROVE FALSE
  OBVIOUS
<1>1. CASE \/ WriteHeader \/ BeginNewLink \/ WriteTrailer \/ Arm \/ ArmSkeleton \/ NextLink
           \/ PassTurn \/ DrainDone \/ Backfill \/ WriteBos \/ WriteSkeletonPage \/ CloseStream \/ DrainPage
           \/ \E t \in Targets \cup {NoTarget} : SetPageTarget(t)
  <2>1. step = "none" /\ step' = "none"
    BY <1>1 DEF WriteHeader, BeginNewLink, WriteTrailer, Arm, ArmSkeleton, NextLink, PassTurn,
       DrainDone, Backfill, SetPageTarget, Idle, Inside, Draining, control, WriteBos, BosTurn, InPass,
       WriteSkeletonPage, CloseStream, Closing, DrainPage
  <2>2. QED BY <2>1 DEF Unstamped, Midway
<1>2. CASE WriteSecondary \/ \E t \in Streams : \E p \in Packets[t] : WritePacket(t, p)
  <2>1. step' = "packet"
    BY <1>2 DEF WriteSecondary, WritePacket, Call
  <2>2. QED BY <2>1 DEF Unstamped, Midway
<1>3. CASE CloseFlush
  <2>1. step' = "flush" /\ writing' = [s |-> Turn, p |-> HeaderPacket, from |-> 1]
    BY <1>3 DEF CloseFlush, Call
  <2>2. LacesLeft' = 0
    BY <2>1, HeaderPacketType DEF LacesLeft
  <2>3. QED BY <2>1, <2>2 DEF Unstamped, Midway
<1>4. CASE ReleaseDone
  <2>1. step = "release" /\ UNCHANGED writing /\ step' = IF LacesLeft > 0 THEN "put" ELSE "none"
    BY <1>4 DEF ReleaseDone, Doing, GoTo
  <2>2. QED BY <2>1 DEF Unstamped, Midway, LacesLeft
<1>5. CASE UNCHANGED vars \/ ReleasePage
  <2>1. UNCHANGED <<step, writing>>
    BY <1>5 DEF vars, control, ReleasePage
  <2>2. QED BY <2>1, Zenon DEF Unstamped, Midway, LacesLeft
<1>6. CASE PutLaces
  <2>1. step = "put" /\ writing'.s = writing.s
    BY <1>6, AtWork DEF PutLaces, Doing, TypeInv, WritingInv, WritingSet
  <2>2. writing.from < writing.p.laces /\ writing.from \in Nat /\ writing.p.laces \in Nat
    BY <2>1, AtWork DEF TypeInv, WritingInv
  <2>3. LacesLeft > 0
    BY <2>2 DEF LacesLeft
  <2>4. QED BY <2>1, <2>3, Zenon DEF Unstamped, Midway
<1>7. CASE Stamp
  <2>1. UNCHANGED writing /\ step = "stamp" /\ step' \in {"none", "flush"}
    BY <1>7 DEF Stamp, StampHeader, StampContent, StampTheora, Doing, GoTo
  <2>2. QED BY <2>1 DEF Unstamped
<1>8. CASE FlushPage
  <2>1. step = "flush" /\ step' = "release" /\ UNCHANGED writing
    BY <1>8 DEF FlushPage, Doing, GoTo
  <2>2. QED BY <2>1 DEF Unstamped, Midway, LacesLeft
<1>9. QED
  BY <1>1, <1>2, <1>3, <1>4, <1>5, <1>6, <1>7, <1>8, Zenon DEF Next, Calls, Steps, Terminated, Stamp

\* Packets are added at the end, and the one refused is the last.
LEMMA SentStep ==
  ASSUME TypeInv, [Next]_vars, NEW s \in Streams
  PROVE  /\ sent'[s] = sent[s] \/ \E p \in Packet : sent'[s] = Append(sent[s], p)
         /\ BeginPacket /\ s = writing.s => sent'[s] = Append(sent[s], writing.p)
         /\ \/ UNCHANGED refused
            \/ step = "stamp" /\ refused' = refused \cup {<<writing.s, Len(sent[writing.s])>>}
<1>1. sent \in [Streams -> Seq(Packet)]
  BY DEF TypeInv, DataInv, SentInv
<1>2. CASE BeginPacket
  <2>1. sent' = [sent EXCEPT ![writing.s] = Append(@, writing.p)] /\ UNCHANGED refused
    BY <1>2 DEF BeginPacket
  <2>2. QED BY <1>1, <2>1, AtWork
<1>3. CASE WriteBos
  <2>1. sent' = [sent EXCEPT ![Turn] = Append(@, HeaderPacket)] /\ UNCHANGED refused /\ step = "none"
    BY <1>3 DEF WriteBos, BosTurn, InPass, Inside
  <2>2. ~BeginPacket
    BY <2>1 DEF BeginPacket, Doing
  <2>3. QED BY <1>1, <2>1, <2>2, HeaderPacketType
<1>4. CASE StampTheora
  <2>1. /\ UNCHANGED sent /\ step = "stamp"
        /\ \/ UNCHANGED refused
           \/ refused' = refused \cup {<<writing.s, Len(sent[writing.s])>>}
    BY <1>4, Zenon DEF StampTheora, Doing
  <2>2. ~BeginPacket
    BY <2>1 DEF BeginPacket, Doing
  <2>3. QED BY <2>1, <2>2
<1>5. ASSUME ~BeginPacket, ~WriteBos, ~StampTheora PROVE UNCHANGED <<sent, refused>>
  BY <1>5, Zenon DEF Next, Calls, Steps, Terminated, WriteHeader, BeginNewLink, WriteTrailer,
     SetPageTarget, WritePacket, Arm, ArmSkeleton, NextLink, WriteSecondary, PassTurn,
     WriteSkeletonPage, PutLaces, StampHeader, StampContent, FlushPage, ReleasePage, ReleaseDone,
     DrainPage, DrainDone, CloseFlush, CloseStream, Backfill, vars
<1>6. QED BY <1>2, <1>3, <1>4, <1>5

LEMMA LogGrows ==
  ASSUME TypeInv, WriterInv, StreamsTold, StreamsTold', [Next]_vars, NEW s \in Streams
  PROVE  LogGrew(s)
<1> DEFINE k == Seen(s)
           n == Len(sent[s])
<1>1. k \in Nat /\ Seen(s)' \in Nat
  BY Zenon DEF StreamsTold, StreamTold, CountsTold, Counts
<1>2. sent[s] \in Seq(Packet) /\ n \in Nat /\ DOMAIN sent[s] = 1 .. n
  BY DEF TypeInv, DataInv, SentInv
<1>3. k = (IF Unstamped(s) THEN n - 1 ELSE n)
      /\ Seen(s)' = IF Unstamped(s)' THEN Len(sent'[s]) - 1 ELSE Len(sent'[s])
  BY DEF Seen
<1>4. k <= n
  BY <1>2, <1>3
<1>5. \/ sent'[s] = sent[s]
      \/ Len(sent'[s]) = n + 1 /\ DOMAIN sent'[s] = 1 .. n + 1 /\ \A i \in 1 .. n : sent'[s][i] = sent[s][i]
  <2>1. CASE \E p \in Packet : sent'[s] = Append(sent[s], p)
    <3>1. PICK p \in Packet : sent'[s] = Append(sent[s], p)
      BY <2>1
    <3>2. Append(sent[s], p) \in Seq(Packet)
      BY <1>2, AppendProperties
    <3>3. QED BY <1>2, <3>1, <3>2, AppendProperties
  <2>2. QED BY <2>1, SentStep
<1>6. Len(sent'[s]) >= n /\ Len(sent'[s]) \in Nat /\ DOMAIN sent'[s] = 1 .. Len(sent'[s])
  BY <1>2, <1>5
<1>7. sent'[s] = sent[s] /\ ~Unstamped(s) => ~Unstamped(s)'
  <2>1. ASSUME sent'[s] = sent[s], ~Unstamped(s), Unstamped(s)' PROVE FALSE
    <3>1. BeginPacket
      BY <2>1, Waiting
    <3>2. UNCHANGED writing
      BY <3>1 DEF BeginPacket
    <3>3. s = writing.s
      BY <2>1, <3>2, Zenon DEF Unstamped
    <3>4. sent'[s] = Append(sent[s], writing.p) /\ writing.p \in Packet
      BY <3>1, <3>3, SentStep, AtWork
    <3>5. Len(sent'[s]) = n + 1
      BY <1>2, <3>4, AppendProperties
    <3>6. QED BY <1>2, <2>1, <3>5
  <2>2. QED BY <2>1
<1> HIDE DEF k, n
<1>8. k <= Seen(s)'
  <2>1. CASE sent'[s] = sent[s]
    BY <1>1, <1>2, <1>3, <1>7, <2>1 DEF n
  <2>2. CASE sent'[s] # sent[s]
    <3>1. Len(sent'[s]) = n + 1
      BY <1>5, <2>2
    <3>2. QED BY <1>1, <1>2, <1>3, <3>1
  <2>3. QED BY <2>1, <2>2
<1>9. \A i \in 1 .. k : sent'[s][i] = sent[s][i]
  BY <1>1, <1>2, <1>4, <1>5
<1>10. \A i \in 1 .. k : i \in DOMAIN sent[s] /\ i \in DOMAIN sent'[s]
  BY <1>1, <1>2, <1>4, <1>6
<1>11. \A i \in 1 .. k : <<s, i>> \in refused' <=> <<s, i>> \in refused
  <2>1. CASE UNCHANGED refused
    BY <2>1
  <2>2. CASE step = "stamp" /\ refused' = refused \cup {<<writing.s, Len(sent[writing.s])>>}
    <3>1. s = writing.s => k = n - 1
      BY <1>3, <2>2 DEF Unstamped
    <3>2. \A i \in 1 .. k : s = writing.s => i # n
      BY <1>1, <1>2, <3>1
    <3>3. \A i \in 1 .. k : <<s, i>> # <<writing.s, Len(sent[writing.s])>>
      BY <3>2 DEF n
    <3>4. QED BY <2>2, <3>3
  <2>3. QED BY <2>1, <2>2, SentStep
<1>12. SameLog(sent[s], Lost(s), sent'[s], Lost(s)', k)
  <2>1. \A i \in 1 .. k : i \in Lost(s) <=> <<s, i>> \in refused
    BY <1>10, Zenon DEF Lost
  <2>2. \A i \in 1 .. k : i \in Lost(s)' <=> <<s, i>> \in refused'
    BY <1>10, Zenon DEF Lost
  <2>3. QED BY <1>9, <1>11, <2>1, <2>2, Zenon DEF SameLog
<1>13. QED BY <1>1, <1>8, <1>9, <1>12, Zenon DEF LogGrew, k

-----------------------------------------------------------------------------
(* A packet that fits a page goes on one.                                  *)

LEMMA WholeRests ==
  ASSUME TypeInv, WriterInv, WholeInv, Short,
         \/ WriteHeader \/ BeginNewLink \/ WriteTrailer \/ Arm \/ ArmSkeleton \/ NextLink
         \/ PassTurn \/ DrainDone \/ Backfill \/ WriteBos \/ WriteSkeletonPage \/ CloseStream \/ DrainPage
         \/ UNCHANGED vars \/ ReleasePage \/ WriteSecondary \/ CloseFlush
         \/ \E t \in Targets \cup {NoTarget} : SetPageTarget(t)
         \/ \E t \in Streams : \E p \in Packets[t] : WritePacket(t, p)
  PROVE  WholeInv'
<1>1. CASE \/ WriteHeader \/ BeginNewLink \/ WriteTrailer \/ Arm \/ ArmSkeleton \/ NextLink
           \/ PassTurn \/ DrainDone \/ Backfill \/ WriteBos \/ WriteSkeletonPage \/ CloseStream \/ DrainPage
           \/ \E t \in Targets \cup {NoTarget} : SetPageTarget(t)
  <2>1. step' = "none" /\ UNCHANGED writing
    BY <1>1 DEF WriteHeader, BeginNewLink, WriteTrailer, Arm, ArmSkeleton, NextLink, PassTurn,
       DrainDone, Backfill, SetPageTarget, Idle, Inside, Draining, control, WriteBos, BosTurn, InPass,
       WriteSkeletonPage, CloseStream, Closing, DrainPage
  <2>2. QED BY <2>1 DEF WholeInv
<1>2. CASE UNCHANGED vars \/ ReleasePage
  <2>1. UNCHANGED <<step, writing, buffered, sent>>
    BY <1>2 DEF vars, control, writers, ReleasePage
  <2>2. QED BY <2>1, Zenon DEF WholeInv, Begun, LacesLeft
<1>3. CASE WriteSecondary
  <2>1. step' = "packet" /\ writing' = [s |-> Turn, p |-> HeaderPacket, from |-> 0]
    BY <1>3 DEF WriteSecondary, Call
  <2>2. QED BY <2>1 DEF WholeInv, HeaderPacket
<1>4. CASE CloseFlush
  <2>1. step' = "flush" /\ writing' = [s |-> Turn, p |-> HeaderPacket, from |-> 1]
    BY <1>4 DEF CloseFlush, Call
  <2>2. LacesLeft' = 0
    BY <2>1, HeaderPacketType DEF LacesLeft
  <2>3. QED BY <2>1, <2>2 DEF WholeInv, HeaderPacket
<1>5. CASE \E t \in Streams : \E p \in Packets[t] : WritePacket(t, p)
  <2>1. PICK t \in Streams : \E p \in Packets[t] : WritePacket(t, p)
    BY <1>5
  <2> PICK p \in Packets[t] : WritePacket(t, p)
    BY <2>1
  <2>2. step' = "packet" /\ writing' = [s |-> t, p |-> p, from |-> 0]
    BY DEF WritePacket, Call
  <2>3. writing'.p.keyframe => writing'.p.laces <= MaxSegs
    BY <2>2 DEF Short
  <2>4. QED BY <2>2, <2>3 DEF WholeInv
<1>6. QED BY <1>1, <1>2, <1>3, <1>4, <1>5, Zenon

LEMMA WholePuts ==
  ASSUME TypeInv, WriterInv, WholeInv, BeginPacket \/ PutLaces
  PROVE  WholeInv'
<1> SUFFICES ASSUME NEW t \in Streams, t = writing.s PROVE WholeInv'
  BY AtWork
<1> DEFINE b == buffered[t].segs
           L == writing.p.laces
<1>1. /\ b \in Seq(LaceSet) /\ Len(b) \in Nat /\ Len(b) <= MaxSegs /\ L \in Nat \ {0} /\ MaxSegs \in Nat \ {0}
      /\ writing.from \in Nat /\ (b = <<>> => Len(b) = 0)
  BY AtWork, MuxAssumption
<1>2. CASE BeginPacket
  <2>1. /\ step = "packet" /\ UNCHANGED <<writing, buffered>>
        /\ step' = IF b # <<>> /\ Len(b) + L > MaxSegs THEN "flush" ELSE "put"
    BY <1>2 DEF BeginPacket, Doing, GoTo, writers
  <2>2. writing.from = 0
    BY <2>1 DEF WriterInv
  <2> HIDE DEF b, L
  <2>3. step' = "put" /\ L <= MaxSegs => Len(b) + L <= MaxSegs
    BY <1>1, <2>1
  <2>4. QED BY <2>1, <2>2, <2>3 DEF WholeInv, b, L
<1>3. CASE PutLaces
  <2> DEFINE room  == MaxSegs - Len(b)
             take  == IF room < LacesLeft THEN room ELSE LacesLeft
             P     == Len(sent[t])
             laces == [i \in 1 .. take |-> Lace(P, writing.from + i, L)]
  <2>1. /\ step = "put" /\ step' = IF take < LacesLeft THEN "flush" ELSE "stamp"
        /\ writing' = [writing EXCEPT !.from = @ + take]
        /\ buffered' = [buffered EXCEPT ![t].segs = @ \o laces] /\ UNCHANGED sent
    BY <1>3 DEF PutLaces, Doing, GoTo
  <2>2. writing \in WritingSet
    BY DEF TypeInv, WritingInv
  <2>3. writing'.s = t /\ writing'.p = writing.p
    BY <2>1, <2>2 DEF WritingSet
  <2>4. step' # "release" /\ step' # "put" /\ (writing.p.keyframe => L <= MaxSegs)
    BY <2>1 DEF WholeInv
  <2>5. CASE L <= MaxSegs
    <3>1. writing.from = 0 /\ Len(b) + L <= MaxSegs /\ LacesLeft = L
      BY <1>1, <2>1, <2>5 DEF WholeInv, LacesLeft
    <3>2. room \in Nat /\ ~(room < L)
      <4> HIDE DEF b, L
      <4>1. QED BY <1>1, <3>1
    <3>3. take = L /\ step' = "stamp"
      <4> HIDE DEF room, L
      <4>1. QED BY <1>1, <2>1, <3>1, <3>2
    <3>4. laces = [i \in 1 .. L |-> Lace(P, writing.from + i, L)]
      BY <3>3
    <3>5. P \in Nat
      BY DEF TypeInv, DataInv, SentInv
    <3> HIDE DEF take, room
    <3>6. laces \in Seq(LaceSet) /\ Len(laces) = L /\ 1 \in 1 .. L /\ laces[1] = Lace(P, 1, L)
      <4>1. \A i \in 1 .. L : Lace(P, writing.from + i, L) \in LaceSet
        BY <1>1, <3>5 DEF Lace, LaceSet
      <4> HIDE DEF P, L, laces
      <4>2. laces \in Seq(LaceSet) /\ Len(laces) = L
        BY <1>1, <3>4, <4>1
      <4>3. 1 \in 1 .. L /\ writing.from + 1 = 1
        BY <1>1, <3>1
      <4>4. QED BY <3>4, <4>2, <4>3
    <3> HIDE DEF laces
    <3> DEFINE c == b \o laces
    <3>7. buffered'[t].segs = c
      BY <2>1 DEF TypeInv, DataInv, BuffersInv, BuilderSet
    <3>8. Len(b) + 1 \in 1 .. Len(c) /\ c[Len(b) + 1] = laces[1]
      <4> HIDE DEF b, L
      <4>1. Len(c) = Len(b) + Len(laces) /\ c[Len(b) + 1] = laces[1]
        BY <1>1, <3>6
      <4> HIDE DEF c
      <4>2. QED BY <1>1, <3>6, <4>1
    <3> HIDE DEF c, b, P
    <3>9. c[Len(b) + 1].pkt = P /\ c[Len(b) + 1].n = 1
      BY <3>6, <3>8 DEF Lace
    <3>10. Begun'
      BY <2>1, <2>3, <3>7, <3>8, <3>9 DEF Begun, P
    <3>11. QED BY <2>3, <2>4, <2>5, <3>3, <3>10 DEF WholeInv
  <2>6. CASE ~(L <= MaxSegs)
    BY <2>3, <2>4, <2>6 DEF WholeInv
  <2>7. QED BY <2>5, <2>6
<1>4. QED BY <1>2, <1>3

LEMMA WholeFlushes ==
  ASSUME TypeInv, WriterInv, WholeInv, Stamp \/ FlushPage \/ ReleaseDone
  PROVE  WholeInv'
<1> SUFFICES ASSUME NEW t \in Streams, t = writing.s PROVE WholeInv'
  BY AtWork
<1>1. CASE Stamp
  <2>1. step = "stamp" /\ step' \in {"none", "flush"} /\ UNCHANGED writing
    BY <1>1 DEF Stamp, StampHeader, StampContent, StampTheora, Doing, GoTo
  <2>2. LacesLeft' = 0
    BY <2>1 DEF WriterInv, LacesLeft
  <2>3. QED BY <2>1, <2>2 DEF WholeInv
<1>2. CASE FlushPage
  <2>1. /\ step = "flush" /\ step' = "release" /\ UNCHANGED writing
        /\ buffered' = [buffered EXCEPT ![t] = NextBuilder(buffered[t])]
    BY <1>2 DEF FlushPage, Doing, GoTo
  <2>2. buffered'[t].segs = <<>>
    BY <2>1 DEF NextBuilder, EmptyBuilder, TypeInv, DataInv, BuffersInv
  <2>3. LacesLeft' = LacesLeft
    BY <2>1 DEF LacesLeft
  <2>4. QED BY <2>1, <2>2, <2>3 DEF WholeInv
<1>3. CASE ReleaseDone
  <2>1. /\ step = "release" /\ UNCHANGED <<writing, buffered>>
        /\ step' = IF LacesLeft > 0 THEN "put" ELSE "none"
    BY <1>3 DEF ReleaseDone, Doing, GoTo, writers
  <2>2. Len(buffered[t].segs) = 0 /\ writing.p.laces \in Nat
    BY <2>1, AtWork DEF WholeInv
  <2>3. QED BY <2>1, <2>2 DEF WholeInv
<1>4. QED BY <1>1, <1>2, <1>3

LEMMA WholeStep ==
  ASSUME TypeInv, WriterInv, WholeInv, Short, [Next]_vars
  PROVE  WholeInv'
BY WholeRests, WholePuts, WholeFlushes, Zenon DEF Next, Calls, Steps, Terminated, Stamp

-----------------------------------------------------------------------------
(* Keyframes under way.                                                    *)

\* Steps that leave candidates and keypoints where they are.
LEMMA KeysRest ==
  ASSUME TypeInv, NEW s \in Streams, KeysTold(s), LogGrew(s),
         \/ WriteHeader \/ BeginNewLink \/ WriteTrailer \/ Arm \/ ArmSkeleton \/ NextLink
         \/ PassTurn \/ DrainDone \/ Backfill \/ WriteBos \/ WriteSkeletonPage
         \/ UNCHANGED vars \/ WriteSecondary \/ CloseFlush \/ ReleaseDone \/ BeginPacket \/ StampHeader
         \/ \E t \in Targets \cup {NoTarget} : SetPageTarget(t)
         \/ \E t \in Streams : \E p \in Packets[t] : WritePacket(t, p)
  PROVE  KeysTold(s)'
<1>1. /\ UNCHANGED <<queue, keypoints>>
      /\ buffered'[s].segs = buffered[s].segs /\ buffered'[s].kf = buffered[s].kf
  <2>1. CASE StampHeader
    <3>1. UNCHANGED <<queue, keypoints>> /\ buffered' = [buffered EXCEPT ![writing.s].granule = 0]
      BY <2>1 DEF StampHeader, skeleton
    <3>2. QED BY <3>1 DEF TypeInv, DataInv, BuffersInv, BuilderSet
  <2>2. CASE ~StampHeader
    <3>1. UNCHANGED <<queue, keypoints, buffered>>
      BY <2>2, Zenon DEF WriteHeader, BeginNewLink, WriteTrailer, Arm, ArmSkeleton, NextLink, WriteSecondary,
         PassTurn, ReleaseDone, DrainDone, CloseFlush, Backfill, vars, SetPageTarget, WritePacket, writers,
         skeleton, WriteBos, WriteSkeletonPage, BeginPacket
    <3>2. QED BY <3>1
  <2>3. QED BY <2>1, <2>2
<1>2. FileGrew
  <2>1. CASE WriteBos
    <3> DEFINE p == Page(Turn, {"bos"}, 0, <<Lace(1, 1, 1)>>, 0)
    <3>1. wire' = Append(wire, p)
      BY <2>1 DEF WriteBos
    <3>2. <<Lace(1, 1, 1)>> \in SegsSet /\ {"bos"} \in PageFlags /\ 0 \in Granules
      BY MuxAssumption DEF SegsSet, LaceSet, Lace, PageFlags, Granules
    <3>3. p \in PageSet
      BY <3>2, TurnType, PageType DEF TypeInv, DataInv
    <3>4. QED BY <3>1, <3>3 DEF FileGrew
  <2>2. CASE WriteSkeletonPage
    <3>1. \E flags \in {{"bos"}, {}, {"eos"}} : wire' = Append(wire, SkeletonPage(flags))
      BY <2>2 DEF WriteSkeletonPage
    <3>2. \A flags \in {{"bos"}, {}, {"eos"}} : SkeletonPage(flags) \in PageSet
      BY SkeletonPageType DEF TypeInv, DataInv, PageFlags
    <3>3. QED BY <3>1, <3>2 DEF FileGrew
  <2>3. CASE ~WriteBos /\ ~WriteSkeletonPage
    <3>1. UNCHANGED wire
      BY <2>3, Zenon DEF WriteHeader, BeginNewLink, WriteTrailer, Arm, ArmSkeleton, NextLink, WriteSecondary,
         PassTurn, ReleaseDone, DrainDone, CloseFlush, Backfill, vars, SetPageTarget, WritePacket,
         BeginPacket, StampHeader
    <3>2. QED BY <3>1 DEF FileGrew
  <2>4. QED BY <2>1, <2>2, <2>3
<1>3. WireInv
  BY DEF TypeInv, DataInv
<1>4. BuilderKey(s)'
  BY <1>1, BuilderKeyOn DEF KeysTold
<1>5. QueueKeys(s)'
  BY <1>1, QueueKeysOn DEF KeysTold
<1>6. PointKeys(s)'
  BY <1>1, <1>2, <1>3, PointKeysOn DEF KeysTold
<1>7. QED BY <1>1, <1>4, <1>5, <1>6, SpacedOn, Zenon DEF KeysTold

\* Laces join the page on which a keyframe began.
LEMMA KeysPut ==
  ASSUME TypeInv, NEW s \in Streams, KeysTold(s), LogGrew(s), PutLaces
  PROVE  KeysTold(s)'
<1> SUFFICES ASSUME NEW t \in Streams, t = writing.s PROVE KeysTold(s)'
  BY AtWork
<1> DEFINE room  == MaxSegs - Len(buffered[t].segs)
           take  == IF room < LacesLeft THEN room ELSE LacesLeft
           P     == Len(sent[t])
           L     == writing.p.laces
           laces == [i \in 1 .. take |-> Lace(P, writing.from + i, L)]
<1>1. /\ step = "put" /\ buffered' = [buffered EXCEPT ![t].segs = @ \o laces]
      /\ UNCHANGED <<wire, queue, keypoints>>
  BY DEF PutLaces, Doing, skeleton
<1>2. /\ FileGrew /\ WireInv /\ buffered \in [Streams -> BuilderSet]
      /\ buffered[s].segs \in Seq(LaceSet)
  BY <1>1 DEF FileGrew, TypeInv, DataInv, BuffersInv, BuilderSet, SegsSet
<1>3. laces \in Seq(LaceSet)
  <2>1. P \in Nat /\ L \in Nat /\ writing.from \in Nat /\ writing.from < L
    BY <1>1, AtWork DEF TypeInv, DataInv, SentInv, WritingInv
  <2>2. room \in Nat /\ LacesLeft \in Nat
    BY <2>1, AtWork, MuxAssumption DEF LacesLeft
  <2>3. take \in Nat
    <3> HIDE DEF room
    <3>1. QED BY <2>2
  <2> HIDE DEF take, P, L
  <2>4. \A i \in 1 .. take : Lace(P, writing.from + i, L) \in LaceSet
    BY <2>1, <2>3 DEF Lace, LaceSet
  <2>5. QED BY <2>3, <2>4
<1> HIDE DEF laces
<1>4. /\ buffered'[s].segs = IF s = t THEN buffered[s].segs \o laces ELSE buffered[s].segs
      /\ buffered'[s].kf = buffered[s].kf
  BY <1>1, <1>2 DEF BuilderSet
<1>5. BuilderKey(s)'
  <2> SUFFICES ASSUME buffered[s].kf # NoPts
               PROVE  KeyIn(s, sent'[s], Lost(s)', Seen(s)', buffered'[s].segs, buffered[s].kf)
    BY <1>4, Zenon DEF BuilderKey
  <2>1. KeyIn(s, sent[s], Lost(s), Seen(s), buffered[s].segs, buffered[s].kf)
    BY Zenon DEF KeysTold, BuilderKey
  <2>2. KeyIn(s, sent'[s], Lost(s)', Seen(s)', buffered[s].segs, buffered[s].kf)
    BY <2>1, KeyOn DEF LogGrew
  <2>3. KeyIn(s, sent'[s], Lost(s)', Seen(s)', buffered[s].segs \o laces, buffered[s].kf)
    BY <1>2, <1>3, <2>2, KeyMore
  <2>4. QED BY <1>4, <2>2, <2>3
<1>6. QueueKeys(s)' /\ PointKeys(s)' /\ Spaced(s)'
  BY <1>1, <1>2, QueueKeysOn, PointKeysOn, SpacedOn DEF KeysTold
<1>7. QED BY <1>5, <1>6, Zenon DEF KeysTold

\* The timestamp a keyframe is stamped with is kept for the page under way.
KeepsKey(t) == buffered'[t].segs = buffered[t].segs /\ buffered'[t].kf = buffered[t].kf
TakesKey(t, ts) ==
  /\ buffered'[t].segs = buffered[t].segs /\ buffered'[t].kf = FirstKeyframe(t, writing.p, ts)
  /\ Lost(t)' = Lost(t) /\ Seen(t) + 1 \in TimedIn(t, sent[t], Lost(t), Seen(t) + 1)
  /\ StampIn(t, sent[t], Lost(t), Seen(t) + 1) = ts

LEMMA ContentKey ==
  ASSUME TypeInv, WriterInv, StreamsKept, StampedInv, Matching, StampContent,
         NEW t \in Streams, t = writing.s
  PROVE  KeepsKey(t) \/ \E ts : TakesKey(t, ts)
<1> DEFINE k == Seen(t)
           h == HeaderCount(t)
           p == writing.p
           S == sent[t]
           lost == Lost(t)
<1>1. /\ UNCHANGED sent /\ k \in Nat /\ S[k + 1] = p
      /\ \A r \in refused : r[1] = t => r[2] \in 1 .. k
      /\ \A i \in 1 .. k + 1 : i \in lost <=> <<t, i>> \in refused
  BY AtStamp DEF StampedInv, Stamp
<1>2. /\ headers_remaining[t] = 0 /\ t \notin Theora /\ UNCHANGED refused
      /\ buffered' = IF p.pts = NoPts THEN buffered
           ELSE [buffered EXCEPT ![t].granule = p.pts, ![t].kf = FirstKeyframe(t, p, p.pts)]
  BY Zenon DEF StampContent
<1>3. h = Need[t] /\ h \in Nat \ {0} /\ Lost(t)' = lost /\ buffered[t] \in BuilderSet
      /\ buffered \in [Streams -> BuilderSet]
  <2>1. Lost(t)' = lost
    BY <1>1, <1>2, Zenon DEF Lost
  <2>2. QED BY <2>1, HeaderCounts DEF TypeInv, DataInv, BuffersInv
<1>4. ~(k < h)
  <2>1. Counts(t, S, lost, k, headers_remaining[t], next_frame[t])
    BY Zenon DEF StampedInv, StreamsTold, StreamTold, CountsTold
  <2>2. QED BY <1>1, <1>2, <1>3, <2>1 DEF Counts
<1>5. CASE p.pts = NoPts
  BY <1>2, <1>5 DEF KeepsKey
<1>6. CASE p.pts # NoPts
  <2>1. buffered' = [buffered EXCEPT ![t].granule = p.pts, ![t].kf = FirstKeyframe(t, p, p.pts)]
    BY <1>2, <1>6
  <2>2. buffered'[t].segs = buffered[t].segs /\ buffered'[t].kf = FirstKeyframe(t, p, p.pts)
    <3> DEFINE kf == FirstKeyframe(t, p, p.pts)
    <3> HIDE DEF kf, p
    <3>1. QED BY <1>3, <2>1 DEF BuilderSet, kf
  <2> HIDE DEF k, h, S, lost, p
  <2>3. k + 1 \notin lost /\ k + 1 > h /\ k + 1 \in 1 .. k + 1
    <3>1. <<t, k + 1>> \notin refused
      BY <1>1
    <3>2. QED BY <1>1, <1>3, <1>4, <3>1
  <2>4. k + 1 \in TimedIn(t, S, lost, k + 1)
    BY <1>1, <1>6, <2>3 DEF TimedIn, h
  <2>5. StampIn(t, S, lost, k + 1) = p.pts
    BY <1>1, <1>2 DEF StampIn
  <2>6. QED BY <1>3, <2>2, <2>4, <2>5, Zenon DEF TakesKey, k, S, lost, p
<1>7. QED BY <1>5, <1>6

LEMMA TheoraKey ==
  ASSUME TypeInv, WriterInv, StreamsKept, StampedInv, Matching, StampTheora,
         NEW t \in Streams, t = writing.s
  PROVE  KeepsKey(t) \/ \E ts : TakesKey(t, ts)
<1> DEFINE k == Seen(t)
           h == HeaderCount(t)
           p == writing.p
           S == sent[t]
           lost == Lost(t)
           frame == IF p.pts = NoPts THEN next_frame[t] ELSE p.pts
           kf    == IF p.keyframe THEN frame ELSE last_kf[t]
<1>1. /\ UNCHANGED sent /\ k \in Nat /\ Len(S) = k + 1 /\ S[k + 1] = p
      /\ \A r \in refused : r[1] = t => r[2] \in 1 .. k
      /\ \A i \in 1 .. k + 1 : i \in lost <=> <<t, i>> \in refused
  BY AtStamp DEF StampedInv, Stamp
<1>2. /\ headers_remaining[t] = 0 /\ t \in Theora
      /\ \/ /\ UNCHANGED refused
            /\ buffered' = [buffered EXCEPT ![t].granule = Pack(frame, kf),
                                            ![t].kf = FirstKeyframe(t, p, frame)]
         \/ UNCHANGED buffered
  BY Zenon DEF StampTheora
<1>3. h = Need[t] /\ h \in Nat \ {0} /\ buffered \in [Streams -> BuilderSet]
  BY HeaderCounts DEF TypeInv, DataInv, BuffersInv
<1>4. ~(k < h) /\ next_frame[t] = FrameAt(S, lost, h, k) + 1
  <2>1. Counts(t, S, lost, k, headers_remaining[t], next_frame[t])
    BY Zenon DEF StampedInv, StreamsTold, StreamTold, CountsTold
  <2>2. QED BY <1>1, <1>2, <1>3, <2>1 DEF Counts
<1>5. CASE UNCHANGED buffered
  BY <1>5 DEF KeepsKey
<1>6. CASE /\ UNCHANGED refused
           /\ buffered' = [buffered EXCEPT ![t].granule = Pack(frame, kf),
                                           ![t].kf = FirstKeyframe(t, p, frame)]
  <2>1. Lost(t)' = lost
    BY <1>1, <1>6, Zenon DEF Lost
  <2>2. buffered'[t].segs = buffered[t].segs /\ buffered'[t].kf = FirstKeyframe(t, p, frame)
    <3> DEFINE c == FirstKeyframe(t, p, frame)
               g == Pack(frame, kf)
    <3> HIDE DEF c, g, p, frame, kf
    <3>1. QED BY <1>3, <1>6 DEF BuilderSet, c, g
  <2>3. frame = IF p.pts = NoPts THEN FrameAt(S, lost, h, k) + 1 ELSE p.pts
    BY <1>4
  <2> HIDE DEF k, h, S, lost, p, frame, kf
  <2>4. k + 1 \notin lost /\ k + 1 > h /\ k + 1 \in 1 .. k + 1 /\ k + 1 \in Nat /\ h <= k
    <3>1. <<t, k + 1>> \notin refused
      BY <1>1
    <3>2. QED BY <1>1, <1>3, <1>4, <3>1
  <2>5. FrameAt(S, lost, h, k + 1) = frame
    BY <1>1, <1>3, <2>3, <2>4, FrameNext
  <2>6. k + 1 \in TimedIn(t, S, lost, k + 1) /\ StampIn(t, S, lost, k + 1) = frame
    BY <1>2, <2>4, <2>5 DEF TimedIn, StampIn, h
  <2>7. TakesKey(t, frame)
    BY <2>1, <2>2, <2>6, Zenon DEF TakesKey, k, S, lost, p
  <2>8. QED BY <2>7
<1>7. QED BY <1>2, <1>5, <1>6

LEMMA KeysStamp ==
  ASSUME TypeInv, WriterInv, StreamsKept, StampedInv, Matching, WholeInv,
         NEW s \in Streams, KeysTold(s), LogGrew(s), StampContent \/ StampTheora
  PROVE  KeysTold(s)'
<1> SUFFICES ASSUME NEW t \in Streams, t = writing.s PROVE KeysTold(s)'
  BY AtWork
<1>1. /\ UNCHANGED <<sent, wire, queue, keypoints>> /\ step = "stamp"
      /\ Seen(t) \in Nat /\ Len(sent[t]) = Seen(t) + 1 /\ Seen(t)' = Seen(t) + 1
      /\ sent[t][Seen(t) + 1] = writing.p
  <2>1. UNCHANGED keypoints
    BY Zenon DEF StampContent, StampTheora
  <2>2. QED BY <2>1, AtStamp DEF StampedInv, Stamp
<1>2. BuilderKey(s)'
  <2>1. CASE KeepsKey(s)
    BY <2>1, BuilderKeyOn DEF KeysTold, KeepsKey
  <2>2. CASE s # t
    <3>1. buffered'[s] = buffered[s]
      BY <2>2 DEF StampContent, StampTheora, TypeInv, DataInv, BuffersInv
    <3>2. QED BY <2>1, <3>1 DEF KeepsKey
  <2>3. CASE s = t /\ \E ts : TakesKey(t, ts)
    <3>1. PICK ts : TakesKey(t, ts)
      BY <2>3
    <3>2. CASE buffered'[t].kf = buffered[t].kf
      BY <2>1, <2>3, <3>1, <3>2, Zenon DEF TakesKey, KeepsKey
    <3>3. CASE buffered'[t].kf # buffered[t].kf
      <4>1. writing.p.keyframe /\ buffered'[t].kf = ts
        BY <3>1, <3>3, Zenon DEF TakesKey, FirstKeyframe
      <4>2. Begun
        BY <1>1, <4>1 DEF WholeInv
      <4>3. PICK i \in 1 .. Len(buffered[t].segs) :
              buffered[t].segs[i].pkt = Len(sent[t]) /\ buffered[t].segs[i].n = 1
        BY <4>2 DEF Begun
      <4>4. KeyIn(t, sent[t], Lost(t), Seen(t) + 1, buffered[t].segs, ts)
        BY <1>1, <3>1, <4>1, <4>3 DEF KeyIn, TakesKey
      <4>5. KeyIn(t, sent'[t], Lost(t)', Seen(t)', buffered'[t].segs, ts)
        BY <1>1, <3>1, <4>4, Zenon DEF TakesKey
      <4>6. QED BY <2>3, <4>1, <4>5, Zenon DEF BuilderKey
    <3>4. QED BY <3>2, <3>3
  <2>4. QED BY <2>1, <2>2, <2>3, ContentKey, TheoraKey
<1>3. FileGrew /\ WireInv
  BY <1>1 DEF FileGrew, TypeInv, DataInv
<1>4. QueueKeys(s)' /\ PointKeys(s)' /\ Spaced(s)'
  BY <1>1, <1>3, QueueKeysOn, PointKeysOn, SpacedOn DEF KeysTold
<1>5. QED BY <1>2, <1>4, Zenon DEF KeysTold

\* The page flushed takes the candidate along.
LEMMA KeysFlush ==
  ASSUME TypeInv, NEW s \in Streams, KeysTold(s), LogGrew(s), FlushPage
  PROVE  KeysTold(s)'
<1> SUFFICES ASSUME NEW t \in Streams, t = writing.s PROVE KeysTold(s)'
  BY AtWork
<1> DEFINE b     == buffered[t]
           c     == PageTime(t, b.granule)
           time  == IF c > newest_time[t] THEN c ELSE newest_time[t]
           flags == (IF b.cont THEN {"cont"} ELSE {}) \cup (IF bos_emitted[t] THEN {} ELSE {"bos"})
           p     == Page(t, flags, b.granule, b.segs, time)
           item  == [page |-> p, kf |-> b.kf]
<1>1. /\ UNCHANGED <<wire, keypoints>>
      /\ queue' = [queue EXCEPT ![t] = Append(@, item)]
      /\ buffered' = [buffered EXCEPT ![t] = NextBuilder(b)]
  BY DEF FlushPage, skeleton
<1>2. item.page.segs = b.segs /\ item.kf = b.kf
  BY DEF Page
<1>3. NextBuilder(b).kf = NoPts
  BY DEF NextBuilder, EmptyBuilder
<1> HIDE DEF item
<1>4. /\ WireInv /\ FileGrew /\ queue \in [Streams -> Seq(ItemSet)]
      /\ buffered \in [Streams -> BuilderSet]
  BY <1>1 DEF FileGrew, TypeInv, DataInv, QueuesInv, BuffersInv
<1>5. PointKeys(s)' /\ Spaced(s)'
  BY <1>1, <1>4, PointKeysOn, SpacedOn DEF KeysTold
<1>6. CASE s # t
  <2>1. queue'[s] = queue[s] /\ buffered'[s] = buffered[s]
    BY <1>1, <1>4, <1>6
  <2>2. QueueKeys(s)' /\ BuilderKey(s)'
    BY <2>1, QueueKeysOn, BuilderKeyOn DEF KeysTold
  <2>3. QED BY <1>5, <2>2, Zenon DEF KeysTold
<1>7. CASE s = t
  <2>1. queue'[s] = Append(queue[s], item) /\ buffered'[s].kf = NoPts
    BY <1>1, <1>3, <1>4, <1>7
  <2>2. BuilderKey(s)'
    BY <2>1, Zenon DEF BuilderKey
  <2> DEFINE Told(x) == ItemKey(s, sent'[s], Lost(s)', Seen(s)', x)
             q == queue[s]
  <2>3. Told(item)
    <3>1. ItemKey(s, sent[s], Lost(s), Seen(s), item)
      BY <1>2, <1>7, Zenon DEF KeysTold, BuilderKey, ItemKey
    <3>2. QED BY <3>1, ItemKeyOn
  <2>4. \A i \in 1 .. Len(q) : Told(q[i])
    BY ItemKeyOn, Zenon DEF KeysTold, QueueKeys
  <2>5. q \in Seq(ItemSet)
    BY <1>4
  <2> HIDE DEF Told, q
  <2>6. \A i \in 1 .. Len(Append(q, item)) : Told(Append(q, item)[i])
    <3> DEFINE y == Append(q, item)
    <3>1. Len(q) \in Nat /\ Len(y) = Len(q) + 1 /\ y[Len(q) + 1] = item
          /\ \A i \in 1 .. Len(q) : y[i] = q[i]
      BY <2>5
    <3> HIDE DEF y
    <3>2. ASSUME NEW i \in 1 .. Len(y) PROVE Told(y[i])
      <4>1. i \in 1 .. Len(q) \/ i = Len(q) + 1
        BY <3>1
      <4>2. QED BY <2>3, <2>4, <3>1, <4>1
    <3>3. QED BY <3>2 DEF y
  <2>7. QueueKeys(s)'
    BY <2>1, <2>6, Zenon DEF QueueKeys, Told, q
  <2>8. QED BY <1>5, <2>2, <2>7, Zenon DEF KeysTold
<1>8. QED BY <1>6, <1>7

\* A page let out lands at the end of the file, and its keypoint there.
LEMMA KeyLands ==
  ASSUME TypeInv, StreamsKept, NEW s \in Streams, KeysTold(s), LogGrew(s), queue[s] # <<>>,
         WritePending(s)
  PROVE  QueueKeys(s)' /\ PointKeys(s)' /\ Spaced(s)'
<1> DEFINE q    == queue[s]
           item == Head(q)
           at   == Len(wire) + 1
           old  == keypoints[s]
           pt   == [offset |-> at, timestamp |-> item.kf]
           Key(x)  == ItemKey(s, sent'[s], Lost(s)', Seen(s)', x)
           Land(x) == Lands(s, sent'[s], Lost(s)', Seen(s)', wire', x)
<1>1. /\ q \in Seq(ItemSet) /\ queue \in [Streams -> Seq(ItemSet)] /\ wire \in Seq(PageSet) /\ WireInv
      /\ old \in Seq(KeypointSet) /\ keypoints \in [Streams -> Seq(KeypointSet)]
  BY DEF TypeInv, DataInv, QueuesInv, WireInv, KeypointsInv
<1>2. item = q[1] /\ 1 \in 1 .. Len(q) /\ item \in ItemSet
  BY <1>1
<1>3. item.page \in PageSet /\ item.kf \in Granules /\ item.page.stream = s
  <2>1. q[1].page.stream = s
    BY <1>2, Zenon DEF StreamsKept, StreamKept
  <2>2. QED BY <1>2, <2>1 DEF ItemSet
<1>4. /\ wire' = Append(wire, item.page) /\ queue' = [queue EXCEPT ![s] = Tail(@)]
      /\ keypoints' = IF Skeleton /\ item.kf # NoPts /\ Accepts(s, at, item.kf)
                      THEN [keypoints EXCEPT ![s] = Append(@, pt)] ELSE keypoints
  BY Zenon DEF WritePending, PageOffset
<1>5. \A i \in 1 .. Len(q) : Key(q[i])
  BY ItemKeyOn, Zenon DEF KeysTold, QueueKeys
<1>6. FileGrew
  BY <1>3, <1>4 DEF FileGrew
<1>7. QueueKeys(s)'
  <2>1. queue'[s] = Tail(q)
    BY <1>1, <1>4
  <2> DEFINE y == Tail(q)
  <2> HIDE DEF q, Key
  <2>2. \A i \in 1 .. Len(y) : i + 1 \in 1 .. Len(q) /\ y[i] = q[i + 1]
    BY <1>1, <1>2, HeadTailProperties
  <2> HIDE DEF y
  <2>3. \A i \in 1 .. Len(y) : Key(y[i])
    BY <1>5, <2>2
  <2>4. QED BY <2>1, <2>3, Zenon DEF QueueKeys, Key, y
<1>8. CASE UNCHANGED keypoints
  BY <1>1, <1>6, <1>7, <1>8, PointKeysOn, SpacedOn DEF KeysTold
<1>9. CASE /\ item.kf # NoPts /\ Accepts(s, at, item.kf)
           /\ keypoints' = [keypoints EXCEPT ![s] = Append(@, pt)]
  <2>1. keypoints'[s] = Append(old, pt)
    BY <1>1, <1>9
  <2>2. Land(pt)
    <3>1. at \in 1 .. Len(wire') /\ wire'[at] = item.page
      BY <1>1, <1>3, <1>4, AppendProperties
    <3>2. KeyIn(s, sent'[s], Lost(s)', Seen(s)', item.page.segs, item.kf)
      BY <1>2, <1>5, <1>9, Zenon DEF ItemKey
    <3>3. pt.offset = at /\ pt.timestamp = item.kf
      OBVIOUS
    <3> HIDE DEF pt, at, item
    <3>4. QED BY <1>3, <3>1, <3>2, <3>3, Zenon DEF Lands
  <2>3. \A i \in 1 .. Len(old) : Land(old[i])
    BY <1>1, <1>6, LandsOn, Zenon DEF KeysTold, PointKeys
  <2>4. old # <<>> => Apart(s, old[Len(old)], pt)
    <3>1. Last(old) = old[Len(old)]
      BY Zenon DEF Last
    <3>2. pt.offset = at /\ pt.timestamp = item.kf
      OBVIOUS
    <3> HIDE DEF pt, at, item
    <3>3. QED BY <1>9, <3>1, <3>2 DEF Accepts, Apart
  <2>5. \A i \in 1 .. Len(old) - 1 : Apart(s, old[i], old[i + 1])
    BY Zenon DEF KeysTold, Spaced
  <2> DEFINE y == Append(old, pt)
  <2>6. pt \in KeypointSet
    <3>1. item.kf \in Nat
      BY <1>3, <1>9 DEF Granules
    <3>2. at \in Nat
      BY <1>1
    <3>3. QED BY <3>1, <3>2 DEF KeypointSet
  <2> HIDE DEF Land, pt, old
  <2>7. /\ Len(old) \in Nat /\ Len(y) = Len(old) + 1 /\ y[Len(old) + 1] = pt
        /\ \A i \in 1 .. Len(old) : y[i] = old[i]
        /\ Len(old) # 0 => old # <<>>
    BY <1>1, <2>6, AppendProperties DEF old
  <2> HIDE DEF y
  <2>8. ASSUME NEW i \in 1 .. Len(y) PROVE Land(y[i])
    <3>1. i \in 1 .. Len(old) \/ i = Len(old) + 1
      BY <2>7
    <3>2. QED BY <2>2, <2>3, <2>7, <3>1
  <2>9. ASSUME NEW i \in 1 .. Len(y) - 1 PROVE Apart(s, y[i], y[i + 1])
    <3>1. CASE i = Len(old)
      BY <2>4, <2>7, <3>1
    <3>2. CASE i # Len(old)
      <4>1. i \in 1 .. Len(old) - 1 /\ i \in 1 .. Len(old) /\ i + 1 \in 1 .. Len(old)
        BY <2>7, <3>2
      <4>2. QED BY <2>5, <2>7, <4>1
    <3>3. QED BY <3>1, <3>2
  <2>10. keypoints'[s] = y
    BY <2>1 DEF y
  <2>11. PointKeys(s)' /\ Spaced(s)'
    BY <2>8, <2>9, <2>10, Zenon DEF PointKeys, Spaced, Land
  <2>12. QED BY <1>7, <2>11
<1>10. QED BY <1>4, <1>8, <1>9

LEMMA KeysLetOut ==
  ASSUME TypeInv, StreamsKept, NEW s \in Streams, KeysTold(s), LogGrew(s), ReleasePage \/ DrainPage
  PROVE  KeysTold(s)'
<1>1. PICK n \in Nat : Holding(n) # {} /\ WritePending(Order[Earliest(n)])
  BY Zenon DEF ReleasePage, Releasable, DrainPage
<1> DEFINE t == Order[Earliest(n)]
<1>2. t \in Streams /\ queue[t] # <<>>
  BY <1>1, EarliestStream DEF TypeInv, DataInv
<1>3. WritePending(t)
  BY <1>1
<1> HIDE DEF t
<1>4. BuilderKey(s)'
  <2>1. UNCHANGED buffered
    BY Zenon DEF ReleasePage, DrainPage
  <2>2. QED BY <2>1, BuilderKeyOn DEF KeysTold
<1>5. CASE s = t
  BY <1>2, <1>3, <1>4, <1>5, KeyLands, Zenon DEF KeysTold
<1>6. CASE s # t
  <2>1. /\ queue \in [Streams -> Seq(ItemSet)] /\ keypoints \in [Streams -> Seq(KeypointSet)]
        /\ WireInv
    BY DEF TypeInv, DataInv, QueuesInv, KeypointsInv
  <2>2. queue'[s] = queue[s] /\ keypoints'[s] = keypoints[s]
    BY <1>2, <1>3, <1>6, <2>1 DEF WritePending
  <2>3. FileGrew
    <3>1. Head(queue[t]) \in ItemSet /\ wire' = Append(wire, Head(queue[t]).page)
      BY <1>2, <1>3, <2>1 DEF WritePending
    <3>2. QED BY <3>1 DEF FileGrew, ItemSet
  <2>4. QueueKeys(s)' /\ PointKeys(s)' /\ Spaced(s)'
    BY <2>1, <2>2, <2>3, QueueKeysOn, PointKeysOn, SpacedOn DEF KeysTold
  <2>5. QED BY <1>4, <2>4, Zenon DEF KeysTold
<1>7. QED BY <1>5, <1>6

\* The end of a stream is marked beside the candidate, or on a page without one.
LEMMA KeysClose ==
  ASSUME TypeInv, NEW s \in Streams, KeysTold(s), LogGrew(s), CloseStream
  PROVE  KeysTold(s)'
<1> SUFFICES ASSUME NEW t \in Streams, t = Turn PROVE KeysTold(s)'
  BY TurnType DEF TypeInv
<1>1. UNCHANGED <<wire, buffered, keypoints>>
  BY DEF CloseStream, skeleton
<1>2. /\ WireInv /\ FileGrew /\ queue \in [Streams -> Seq(ItemSet)]
  BY <1>1 DEF FileGrew, TypeInv, DataInv, QueuesInv
<1>3. BuilderKey(s)' /\ PointKeys(s)' /\ Spaced(s)'
  BY <1>1, <1>2, BuilderKeyOn, PointKeysOn, SpacedOn DEF KeysTold
<1> DEFINE Key(x) == ItemKey(s, sent'[s], Lost(s)', Seen(s)', x)
           q == queue[s]
           y == queue'[s]
<1>4. \A i \in 1 .. Len(q) : Key(q[i])
  BY ItemKeyOn, Zenon DEF KeysTold, QueueKeys
<1>5. /\ q \in Seq(ItemSet) /\ Len(q) \in Nat
      /\ \A r \in Streams : queue[r] \in Seq(ItemSet) /\ Len(queue[r]) \in Nat
  BY <1>2
<1>6. \A i \in 1 .. Len(y) : Key(y[i])
  <2>1. CASE s # t \/ (Len(q) = 0 /\ ~bos_emitted[t])
    <3>1. y = q
      BY <1>2, <1>5, <2>1 DEF CloseStream
    <3>2. QED BY <1>4, <3>1
  <2>2. CASE s = t /\ Len(q) > 0
    <3> DEFINE n    == Len(q)
               item == [q[n] EXCEPT !.page.flags = @ \cup {"eos"}]
    <3>1. queue' = [queue EXCEPT ![t][n].page.flags = @ \cup {"eos"}]
      BY <2>2 DEF CloseStream
    <3>2. n \in 1 .. n /\ q[n] \in ItemSet
      BY <1>5, <2>2
    <3>3. item.kf = q[n].kf /\ item.page.segs = q[n].page.segs
      BY <3>2 DEF ItemSet, PageSet
    <3>4. y = [q EXCEPT ![n] = item]
      BY <1>2, <2>2, <3>1
    <3> HIDE DEF item
    <3>5. Key(item)
      BY <1>4, <3>2, <3>3, Zenon DEF ItemKey
    <3> HIDE DEF n, q, y, Key
    <3>6. ASSUME NEW i \in 1 .. Len(y) PROVE Key(y[i])
      <4>1. i \in 1 .. Len(q) /\ (i = n => y[i] = item) /\ (i # n => y[i] = q[i])
        BY <1>5, <3>2, <3>4 DEF n
      <4>2. QED BY <1>4, <3>5, <4>1
    <3>7. QED BY <3>6
  <2>3. CASE s = t /\ Len(q) = 0 /\ bos_emitted[t]
    <3> DEFINE item == [kf |-> NoPts, page |-> Page(t, {"eos"}, last_granule[t], <<>>, newest_time[t])]
    <3>1. queue' = [queue EXCEPT ![t] = <<item>>]
      BY <2>3 DEF CloseStream
    <3>2. item.kf = NoPts
      OBVIOUS
    <3> HIDE DEF item
    <3>3. y = <<item>>
      BY <1>2, <2>3, <3>1
    <3>4. Key(item)
      BY <3>2, Zenon DEF ItemKey
    <3> HIDE DEF y, Key
    <3>5. QED BY <3>3, <3>4
  <2>4. QED BY <1>5, <2>1, <2>2, <2>3
<1>7. QueueKeys(s)'
  BY <1>6, Zenon DEF QueueKeys
<1>8. QED BY <1>3, <1>7, Zenon DEF KeysTold

-----------------------------------------------------------------------------
(* Keypoints land.                                                         *)

LEMMA InitKeys == Init => KeysInv
<1> SUFFICES ASSUME Init PROVE KeysInv
  OBVIOUS
<1>1. step = "none" /\ writing.p.keyframe = FALSE
  BY DEF Init, NoPacket, HeaderPacket
<1>2. WholeInv
  BY <1>1 DEF WholeInv
<1>3. ASSUME NEW s \in Streams PROVE KeysTold(s)
  <2>1. /\ buffered[s].kf = NoPts /\ queue[s] = <<>> /\ keypoints[s] = <<>>
    BY DEF Init, EmptyBuilder
  <2>2. QED BY <2>1 DEF KeysTold, BuilderKey, QueueKeys, PointKeys, Spaced
<1>4. QED BY <1>2, <1>3 DEF KeysInv

LEMMA StepKeys ==
  ASSUME TypeInv, PacketsInv, StampedInv, StampedInv', KeysInv, Matching, Short, [Next]_vars
  PROVE  KeysInv'
<1>1. /\ WriterInv /\ StreamsKept /\ StreamsTold /\ StreamsTold' /\ WholeInv
      /\ \A s \in Streams : KeysTold(s)
  BY Zenon DEF PacketsInv, StampedInv, KeysInv
<1>2. WholeInv'
  BY <1>1, WholeStep
<1>3. ASSUME NEW s \in Streams PROVE KeysTold(s)'
  <2>1. LogGrew(s) /\ KeysTold(s)
    BY <1>1, LogGrows
  <2>2. CASE \/ WriteHeader \/ BeginNewLink \/ WriteTrailer \/ Arm \/ ArmSkeleton \/ NextLink
             \/ PassTurn \/ DrainDone \/ Backfill \/ WriteBos \/ WriteSkeletonPage
             \/ UNCHANGED vars \/ WriteSecondary \/ CloseFlush \/ ReleaseDone \/ BeginPacket \/ StampHeader
             \/ \E t \in Targets \cup {NoTarget} : SetPageTarget(t)
             \/ \E t \in Streams : \E p \in Packets[t] : WritePacket(t, p)
    BY <2>1, <2>2, KeysRest
  <2>3. CASE PutLaces
    BY <2>1, <2>3, KeysPut
  <2>4. CASE StampContent \/ StampTheora
    BY <1>1, <2>1, <2>4, KeysStamp
  <2>5. CASE FlushPage
    BY <2>1, <2>5, KeysFlush
  <2>6. CASE ReleasePage \/ DrainPage
    BY <1>1, <2>1, <2>6, KeysLetOut
  <2>7. CASE CloseStream
    BY <2>1, <2>7, KeysClose
  <2>8. QED
    BY <2>2, <2>3, <2>4, <2>5, <2>6, <2>7, Zenon DEF Next, Calls, Steps, Terminated
<1>4. QED BY <1>2, <1>3, Zenon DEF KeysInv

LEMMA KeysImply ==
  ASSUME TypeInv, KeysInv
  PROVE  KeypointsLand
<1> DEFINE Good(s, i, k) ==
      /\ k.offset \in DOMAIN wire /\ wire[k.offset].stream = s
      /\ i > 1 => /\ k.offset - keypoints[s][i - 1].offset >= Max2(1, ByteGap)
                  /\ (k.timestamp - keypoints[s][i - 1].timestamp) * Scale[s] >= TimeGap
      /\ \E n \in Keyframes(s, wire[k.offset]) : Stamped(s, n) = k.timestamp
<1> SUFFICES \A s \in Streams : \A i \in DOMAIN keypoints[s] : Good(s, i, keypoints[s][i])
  BY Zenon DEF KeypointsLand
<1> SUFFICES ASSUME NEW s \in Streams, NEW i \in DOMAIN keypoints[s], NEW k, k = keypoints[s][i]
             PROVE  Good(s, i, k)
  OBVIOUS
<1> DEFINE S == sent[s]
           lost == Lost(s)
           laces == wire[k.offset].segs
<1>1. /\ wire \in Seq(PageSet) /\ DOMAIN wire = 1 .. Len(wire)
      /\ keypoints[s] \in Seq(KeypointSet) /\ Len(keypoints[s]) \in Nat /\ i \in 1 .. Len(keypoints[s])
      /\ \A j \in 1 .. Len(keypoints[s]) : keypoints[s][j] \in KeypointSet
  BY DEF TypeInv, DataInv, WireInv, KeypointsInv
<1>2. Lands(s, S, lost, Seen(s), wire, k)
  BY <1>1, Zenon DEF KeysInv, KeysTold, PointKeys
<1>3. /\ k.offset \in 1 .. Len(wire) /\ wire[k.offset].stream = s
      /\ KeyIn(s, S, lost, Seen(s), laces, k.timestamp)
  BY <1>2, Zenon DEF Lands
<1>4. ASSUME i > 1
      PROVE  /\ k.offset - keypoints[s][i - 1].offset >= Max2(1, ByteGap)
             /\ (k.timestamp - keypoints[s][i - 1].timestamp) * Scale[s] >= TimeGap
  <2> DEFINE j == i - 1
             last == keypoints[s][j]
  <2>1. j \in 1 .. Len(keypoints[s]) - 1 /\ j \in 1 .. Len(keypoints[s]) /\ j + 1 = i
    BY <1>1, <1>4
  <2>2. Apart(s, last, keypoints[s][j + 1])
    BY <2>1, Zenon DEF KeysInv, KeysTold, Spaced
  <2>3. last \in KeypointSet /\ k \in KeypointSet
    BY <1>1, <2>1
  <2> HIDE DEF j, last
  <2>4. Apart(s, last, k)
    BY <2>1, <2>2
  <2>5. last.offset \in Nat /\ k.offset \in Nat /\ ByteGap \in Nat
    BY <2>3, MuxAssumption DEF KeypointSet
  <2>6. k.offset - last.offset >= Max2(1, ByteGap)
    BY <2>4, <2>5 DEF Apart, Max2
  <2>7. QED BY <2>4, <2>6 DEF Apart, last, j
<1>5. \E n \in Keyframes(s, wire[k.offset]) : Stamped(s, n) = k.timestamp
  <2>1. PICK j \in 1 .. Len(laces) :
          /\ laces[j].n = 1 /\ laces[j].pkt \in TimedIn(s, S, lost, Seen(s))
          /\ S[laces[j].pkt].keyframe /\ StampIn(s, S, lost, laces[j].pkt) = k.timestamp
    BY <1>3 DEF KeyIn
  <2>2. DOMAIN laces = 1 .. Len(laces)
    <3>1. wire[k.offset] \in PageSet
      BY <1>1, <1>3
    <3>2. laces \in Seq(LaceSet)
      BY <3>1 DEF PageSet, SegsSet
    <3>3. QED BY <3>2
  <2>3. Stamped(s, laces[j].pkt) = k.timestamp
    BY <2>1, Zenon DEF Stamped, StampIn
  <2>4. laces[j].pkt \in Keyframes(s, wire[k.offset])
    BY <2>1, <2>2, Zenon DEF Keyframes
  <2>5. QED BY <2>3, <2>4
<1>6. QED BY <1>1, <1>3, <1>4, <1>5

\* When no keyframe is longer than a page, every keypoint of the Skeleton index
\* points at a page of its stream on which a keyframe of the keypoint's time
\* begins, behind the keypoint before it and as far apart as the configuration
\* asks: the candidate noted in write_packet outlives the flush, the wait in the
\* queue, the interleave and the link's close (mux.rs: write_packet, flush_page,
\* write_pending_page, offer_keypoint).
THEOREM KeypointsTrue == Matching /\ Short /\ Spec => []KeypointsLand
<1>1. Init => TypeInv /\ PacketsInv /\ StampedInv /\ KeysInv
  BY InitType, InitPackets, InitStamped, InitKeys
<1>2. Matching /\ Short /\ TypeInv /\ PacketsInv /\ StampedInv /\ KeysInv /\ [Next]_vars
        => TypeInv' /\ PacketsInv' /\ StampedInv' /\ KeysInv'
  BY TypeStep, StepPackets, StepStamped, StepKeys
<1>3. TypeInv /\ KeysInv => KeypointsLand
  BY KeysImply
<1>4. Matching /\ Short /\ Spec => []KeypointsLand
  <2>1. CASE Matching /\ Short
    BY <1>1, <1>2, <1>3, <2>1, PTL DEF Spec
  <2>2. QED BY <2>1
<1>5. QED BY <1>4

-----------------------------------------------------------------------------
(* The Skeleton rewritten.                                                 *)

\* Where content begins is measured once the last page of a header is out.
MeasuredInv ==
  Skeleton /\ ~BeforeData =>
    /\ measured \in Nat /\ measured <= Len(wire) + 1
    /\ \A i \in 1 .. Len(wire) : IsHeader(wire[i]) <=> i < measured
RewrittenInv ==
  Skeleton /\ trailer_written =>
    fishead = [length |-> Len(wire), content |-> measured] /\ published = BackfilledIndexes
TellsInv == MeasuredInv /\ RewrittenInv

LEMMA OneLink ==
  ASSUME Skeleton, TypeInv
  PROVE  link = 1 /\ stage \notin {"close_link", "drain_link", "link"}
BY MuxAssumption DEF TypeInv, ControlInv

LEMMA SkeletonFirst ==
  ASSUME Skeleton, TypeInv, LinksInv, SectionOnWire, BeforeData, NEW i \in 1 .. Len(wire)
  PROVE  IsHeader(wire[i])
<1>1. wire[i].link \in DOMAIN Links /\ DOMAIN Links = {1}
  BY MuxAssumption DEF LinksInv, WireInLinks, InLink
<1>2. Here(i)
  BY <1>1, OneLink DEF Here
<1>3. QED BY <1>2, Zenon DEF SectionOnWire

\* Nothing is done once the trailer is written.
LEMMA OverAll ==
  ASSUME Protocol, ProtocolInv, trailer_written, [Next]_vars
  PROVE  UNCHANGED vars
<1>1. stage = "idle" /\ step = "none" /\ header_written /\ ~AnyOrder
  BY DEF ProtocolInv, Protocol
<1>2. ~Calls
  BY <1>1 DEF Calls, WriteHeader, BeginNewLink, WriteTrailer, SetPageTarget, WritePacket
<1>3. ~Steps
  BY <1>1 DEF Steps, Arm, ArmSkeleton, NextLink, WriteBos, BosTurn, WriteSecondary, HeaderTurn, InPass,
     PassTurn, WriteSkeletonPage, BeginPacket, PutLaces, StampHeader, StampContent, StampTheora,
     FlushPage, ReleasePage, ReleaseDone, DrainPage, DrainDone, Draining, CloseFlush, CloseStream,
     Closing, Backfill, Inside, Doing
<1>4. QED BY <1>2, <1>3, Zenon DEF Next, Terminated

\* The section is left by way of the Skeleton's EOS page.
LEMMA SectionLeft ==
  ASSUME Skeleton, Fitting, Protocol, TypeInv, ProtocolInv, StreamsInv, TurnsInv, [Next]_vars,
         BeforeData, ~BeforeData'
  PROVE  WriteSkeletonPage /\ stage = "skeleton_eos"
<1> SUFFICES ASSUME ~(WriteSkeletonPage /\ stage = "skeleton_eos") PROVE FALSE
  OBVIOUS
<1>1. link = 1 /\ stage \notin {"close_link", "drain_link", "link"} /\ ~AnyOrder
  BY OneLink DEF Protocol
<1>2. header_written' /\ stage' \notin {"arm", "fishead", "drain_headers", "bone", "index", "skeleton_eos"}
                                       \cup BosLoops \cup HeaderLoops
  BY DEF BeforeData, InHeaders, Unopened
<1>3. CASE UNCHANGED <<stage, header_written>>
  BY <1>3, Zenon DEF BeforeData, InHeaders, Unopened
<1>4. CASE WriteHeader \/ WriteTrailer \/ Arm \/ ArmSkeleton
  <2>1. CASE WriteHeader
    BY <1>2, <2>1 DEF WriteHeader, BosLoops
  <2>2. CASE WriteTrailer
    BY <1>1, <2>2 DEF WriteTrailer, Idle, BeforeData, InHeaders, Unopened, BosLoops, HeaderLoops
  <2>3. CASE Arm \/ ArmSkeleton
    <3>1. UNCHANGED header_written /\ stage \in {"arm", "arm_skeleton"}
      BY <2>3 DEF Arm, ArmSkeleton, Inside
    <3>2. QED BY <1>1, <1>2, <3>1 DEF ProtocolInv
  <2>4. QED BY <1>4, <2>1, <2>2, <2>3
<1> SUFFICES ASSUME ~(WriteHeader \/ WriteTrailer \/ Arm \/ ArmSkeleton),
                    ~UNCHANGED <<stage, header_written>>
             PROVE  FALSE
  BY <1>3, <1>4
<1>5. CASE BeginNewLink \/ NextLink \/ \E t \in Targets \cup {NoTarget} : SetPageTarget(t)
  BY <1>1, <1>5 DEF BeginNewLink, NextLink, SetPageTarget, Inside
<1>6. CASE Backfill \/ CloseStream
  <2>1. stage \in {"backfill", "close"} /\ UNCHANGED header_written
    BY <1>1, <1>6 DEF Backfill, CloseStream, Closing, Inside, calls
  <2>2. QED BY <1>2, <2>1 DEF BeforeData, InHeaders, Unopened, BosLoops, HeaderLoops
<1>7. CASE StampContent \/ StampTheora
  <2>1. stage = "idle" /\ UNCHANGED header_written
    BY <1>7, StampedIdle DEF StampContent, StampTheora
  <2>2. QED BY <1>2, <2>1 DEF BeforeData, InHeaders, Unopened, BosLoops, HeaderLoops
<1>8. CASE WriteBos \/ PassTurn
  <2>1. stage \in BosLoops \cup HeaderLoops /\ stage' \in {stage, After(stage)}
    BY <1>8 DEF WriteBos, PassTurn, BosTurn, InPass, Inside, NextTurn, BosLoops, HeaderLoops
  <2>2. QED BY <1>2, <2>1 DEF BosLoops, HeaderLoops, After, AfterHeaders
<1>9. CASE WriteSkeletonPage
  <2>1. stage \in {"fishead", "bone", "index"} /\ stage' \in {stage, After(stage)}
    BY <1>9 DEF WriteSkeletonPage, Inside, NextTurn, NextStage
  <2>2. QED BY <1>2, <2>1 DEF BosLoops, After
<1>10. CASE DrainDone
  <2>1. stage \in {"drain_headers", "drain"} /\ stage' = After(stage) /\ UNCHANGED header_written
    BY <1>1, <1>10 DEF DrainDone, Draining, Inside, NextStage, calls
  <2>2. stage = "drain_headers"
    BY <1>2, <2>1 DEF BeforeData, InHeaders, Unopened, BosLoops, HeaderLoops
  <2>3. stage' = "bone"
    BY <2>1, <2>2 DEF After
  <2>4. QED BY <1>2, <2>3
<1>11. CASE \/ WriteSecondary \/ BeginPacket \/ PutLaces \/ StampHeader \/ FlushPage \/ ReleasePage
            \/ ReleaseDone \/ DrainPage \/ CloseFlush \/ UNCHANGED vars
            \/ \E s \in Streams : \E p \in Packets[s] : WritePacket(s, p)
  <2>1. UNCHANGED <<stage, header_written>>
    BY <1>11, Zenon DEF WriteSecondary, BeginPacket, PutLaces, StampHeader, FlushPage, ReleasePage,
                        ReleaseDone, DrainPage, CloseFlush, WritePacket, GoTo, control, calls, vars
  <2>2. QED BY <2>1
<1>12. QED
  BY <1>5, <1>6, <1>7, <1>8, <1>9, <1>10, <1>11, Zenon DEF Next, Calls, Steps, Terminated

\* Past the section only data comes.
LEMMA DataLetOut ==
  ASSUME TypeInv, ProtocolInv, StreamsKept, DataOnlyInv, ~BeforeData, ReleasePage \/ DrainPage
  PROVE  \E p \in PageSet : wire' = Append(wire, p) /\ ~IsHeader(p)
<1>1. PICK n \in Nat : Holding(n) # {} /\ WritePending(Order[Earliest(n)])
  BY Zenon DEF ReleasePage, Releasable, DrainPage
<1> DEFINE t == Order[Earliest(n)]
<1>2. t \in Streams /\ t \in Current /\ queue[t] # <<>>
  BY <1>1, EarliestStream DEF TypeInv, DataInv
<1>3. WritePending(t)
  BY <1>1
<1> HIDE DEF t
<1>4. queue[t] \in Seq(ItemSet)
  BY <1>2 DEF TypeInv, DataInv, QueuesInv
<1> DEFINE p == Head(queue[t]).page
<1>5. p = queue[t][1].page /\ 1 \in 1 .. Len(queue[t]) /\ p \in PageSet
  <2>1. /\ Head(queue[t]) \in ItemSet /\ Head(queue[t]) = queue[t][1]
        /\ Len(queue[t]) \in Nat \ {0}
    BY <1>2, <1>4
  <2>2. QED BY <2>1 DEF ItemSet
<1>6. wire' = Append(wire, p)
  BY <1>3 DEF WritePending
<1>7. ~IsHeader(p)
  BY <1>2, <1>5, Zenon DEF DataOnlyInv, DataOnly, NoHeader, BeforeData
<1>8. QED BY <1>5, <1>6, <1>7

LEMMA MeasuredStep ==
  ASSUME Fitting, Protocol, TypeInv, TypeInv', ProtocolInv, StreamsInv, StreamsKept, LinksInv, OrderInv,
         MeasuredInv, [Next]_vars
  PROVE  MeasuredInv'
<1> SUFFICES ASSUME Skeleton, ~BeforeData', NEW w, w = wire, NEW v, v = wire', NEW m, m = measured'
             PROVE  /\ m \in Nat /\ m <= Len(v) + 1
                    /\ \A i \in 1 .. Len(v) : IsHeader(v[i]) <=> i < m
  BY Zenon DEF MeasuredInv, IsHeader, HeaderCount
<1>1. w \in Seq(PageSet) /\ Len(w) \in Nat
  BY DEF TypeInv, DataInv, WireInv
<1>2. SectionOnWire /\ TurnsInv /\ DataOnlyInv
  BY DEF OrderInv
<1>3. CASE BeforeData
  <2>1. WriteSkeletonPage /\ stage = "skeleton_eos"
    BY <1>2, <1>3, SectionLeft
  <2> DEFINE p == SkeletonPage({"eos"})
  <2>2. v = Append(w, p) /\ m = Len(w) + 2
    BY <2>1 DEF WriteSkeletonPage, Inside, ContentStart
  <2>3. p \in PageSet /\ IsHeader(p)
    <3>1. {"eos"} \in PageFlags
      BY DEF PageFlags
    <3>2. p \in PageSet
      BY <3>1, SkeletonPageType DEF TypeInv, DataInv
    <3>3. p.stream = "skeleton"
      BY DEF SkeletonPage
    <3>4. QED BY <3>2, <3>3, Zenon DEF IsHeader
  <2> HIDE DEF p
  <2>4. OneMore(w, v, p)
    BY <1>1, <2>2, <2>3, Appended
  <2>5. \A i \in 1 .. Len(w) : IsHeader(w[i])
    BY <1>2, <1>3, SkeletonFirst
  <2>6. \A i \in 1 .. Len(v) : IsHeader(v[i]) /\ i < m
    <3> TAKE i \in 1 .. Len(v)
    <3>1. i < m
      BY <1>1, <2>2, <2>4 DEF OneMore
    <3>2. IsHeader(v[i])
      BY <2>3, <2>4, <2>5 DEF OneMore
    <3>3. QED BY <3>1, <3>2
  <2>7. m \in Nat /\ m <= Len(v) + 1
    BY <1>1, <2>2, <2>4 DEF OneMore
  <2>8. QED BY <2>6, <2>7
<1>4. CASE ~BeforeData
  <2>1. UNCHANGED measured
    <3>1. ~WriteSkeletonPage
      BY <1>4 DEF WriteSkeletonPage, Inside, BeforeData, InHeaders, Unopened
    <3>2. QED
      BY <3>1, Zenon DEF Next, Calls, Steps, Terminated, vars, skeleton, WriteHeader, WritePacket,
           SetPageTarget, BeginNewLink, WriteTrailer, Arm, ArmSkeleton, NextLink, WriteBos,
           WriteSecondary, PassTurn, BeginPacket, PutLaces, StampHeader, StampContent, StampTheora,
           FlushPage, ReleasePage, ReleaseDone, DrainPage, DrainDone, CloseFlush, CloseStream, Backfill
  <2>2. /\ m \in Nat /\ m <= Len(w) + 1
        /\ \A i \in 1 .. Len(w) : IsHeader(w[i]) <=> i < m
    BY <1>4, <2>1 DEF MeasuredInv
  <2>3. CASE ReleasePage \/ DrainPage
    <3>1. PICK p \in PageSet : v = Append(w, p) /\ ~IsHeader(p)
      BY <1>2, <1>4, <2>3, DataLetOut
    <3>2. OneMore(w, v, p)
      BY <1>1, <3>1, Appended
    <3>3. m <= Len(v) + 1
      BY <2>2, <3>2 DEF OneMore
    <3>4. ASSUME NEW i \in 1 .. Len(v) PROVE IsHeader(v[i]) <=> i < m
      <4>1. CASE i \in 1 .. Len(w)
        BY <2>2, <3>2, <4>1 DEF OneMore
      <4>2. CASE i = Len(w) + 1
        <5>1. v[i] = p /\ ~(i < m)
          BY <2>2, <3>2, <4>2 DEF OneMore
        <5>2. QED BY <3>1, <5>1
      <4>3. QED BY <3>2, <4>1, <4>2 DEF OneMore
    <3>5. QED BY <2>2, <3>3, <3>4
  <2>4. CASE ~(ReleasePage \/ DrainPage)
    <3>1. ~WriteBos /\ ~WriteSkeletonPage
      BY <1>4 DEF WriteBos, BosTurn, InPass, WriteSkeletonPage, Inside, BeforeData, InHeaders, Unopened,
         BosLoops
    <3>2. UNCHANGED wire
      BY <2>4, <3>1, Zenon DEF Next, Calls, Steps, Terminated, vars, WriteHeader, WritePacket,
           SetPageTarget, BeginNewLink, WriteTrailer, Arm, ArmSkeleton, NextLink, WriteSecondary, PassTurn,
           BeginPacket, PutLaces, StampHeader, StampContent, StampTheora, FlushPage, ReleaseDone,
           DrainDone, CloseFlush, CloseStream, Backfill
    <3>3. v = w
      BY <3>2
    <3>4. QED BY <2>2, <3>3
  <2>5. QED BY <2>3, <2>4
<1>5. QED BY <1>3, <1>4

LEMMA RewrittenStep ==
  ASSUME Protocol, TypeInv, ProtocolInv, RewrittenInv, [Next]_vars
  PROVE  RewrittenInv'
<1>1. CASE trailer_written
  <2>1. UNCHANGED <<trailer_written, fishead, wire, measured, published, keypoints, sample_times>>
    BY <1>1, OverAll, Zenon DEF vars, calls, skeleton
  <2>2. QED BY <1>1, <2>1, Zenon DEF RewrittenInv, BackfilledIndexes
<1>2. CASE ~trailer_written /\ Backfill /\ Skeleton
  <2>1. /\ fishead' = [length |-> Len(wire), content |-> measured] /\ published' = BackfilledIndexes
        /\ UNCHANGED <<wire, measured, keypoints, sample_times>>
    BY <1>2, Zenon DEF Backfill
  <2>2. BackfilledIndexes' = BackfilledIndexes
    BY <2>1, Zenon DEF BackfilledIndexes
  <2>3. QED BY <2>1, <2>2, Zenon DEF RewrittenInv
<1>3. CASE ~trailer_written /\ ~Backfill
  <2>1. UNCHANGED trailer_written
    BY <1>3, Zenon DEF Next, Calls, Steps, Terminated, vars, calls, WriteHeader, WritePacket,
       SetPageTarget, BeginNewLink, WriteTrailer, Arm, ArmSkeleton, NextLink, WriteBos,
       WriteSecondary, PassTurn, WriteSkeletonPage, BeginPacket, PutLaces, StampHeader, StampContent,
       StampTheora, FlushPage, ReleasePage, ReleaseDone, DrainPage, DrainDone, CloseFlush, CloseStream
  <2>2. QED BY <1>3, <2>1, Zenon DEF RewrittenInv
<1>4. QED BY <1>1, <1>2, <1>3, Zenon DEF RewrittenInv

LEMMA InitTells == Init => TellsInv
<1> SUFFICES ASSUME Init PROVE TellsInv
  OBVIOUS
<1>1. ~header_written /\ ~trailer_written
  BY DEF Init
<1>2. QED BY <1>1, Zenon DEF TellsInv, MeasuredInv, RewrittenInv, BeforeData, InHeaders, Unopened

LEMMA TellsImply ==
  ASSUME TypeInv, ProtocolInv, StampedInv, TellsInv
  PROVE  SkeletonTells
<1> SUFFICES ASSUME trailer_written, Skeleton PROVE SkeletonTells
  BY DEF SkeletonTells
<1>1. stage = "idle" /\ step = "none" /\ header_written
  BY DEF ProtocolInv
<1>2. ~BeforeData
  BY <1>1 DEF BeforeData, InHeaders, Unopened, BosLoops, HeaderLoops
<1>3. /\ fishead.length = Len(wire) /\ fishead.content = measured /\ published = BackfilledIndexes
      /\ \A i \in 1 .. Len(wire) : IsHeader(wire[i]) <=> i < measured
  BY <1>2 DEF TellsInv, MeasuredInv, RewrittenInv
<1>4. DOMAIN wire = 1 .. Len(wire)
  BY DEF TypeInv, DataInv, WireInv
<1> DEFINE Says(s) ==
      LET stamped == StampedPackets(s)
      IN /\ published[s].keypoints = keypoints[s]
         /\ published[s].times = IF stamped = {} THEN <<>>
              ELSE <<Stamped(s, Min(stamped)), Stamped(s, Max(stamped))>>
<1>5. ASSUME NEW s \in Streams PROVE Says(s)
  <2> DEFINE n == Len(sent[s])
             S == sent[s]
             lost == Lost(s)
             timed == TimedIn(s, S, lost, n)
  <2>1. S \in Seq(Packet) /\ DOMAIN S = 1 .. n
    BY DEF TypeInv, DataInv, SentInv
  <2>2. StampedPackets(s) = timed
    BY <2>1, Zenon DEF StampedPackets, TimedIn
  <2>3. published[s].keypoints = keypoints[s] /\ published[s].times = sample_times[s]
    BY <1>3 DEF BackfilledIndexes
  <2>4. Seen(s) = n
    BY <1>1 DEF Seen, Unstamped, Midway
  <2>5. Spans(s, S, lost, timed, sample_times[s])
    BY <2>4, Zenon DEF StampedInv, StreamsTold, StreamTold, TimesTold
  <2>6. \A m : Stamped(s, m) = StampIn(s, S, lost, m)
    BY Zenon DEF Stamped, StampIn
  <2>7. \A m \in timed : m \in Nat
    BY DEF TimedIn
  <2> HIDE DEF timed, S, lost, n
  <2>8. CASE timed = {}
    BY <2>2, <2>3, <2>5, <2>8 DEF Spans
  <2>9. CASE timed # {}
    <3>1. PICK a, b \in timed : /\ \A i \in timed : a <= i /\ i <= b
                                /\ sample_times[s] = <<StampIn(s, S, lost, a), StampIn(s, S, lost, b)>>
      BY <2>5, <2>9 DEF Spans
    <3>2. Min(timed) = a /\ Max(timed) = b
      BY <2>7, <3>1 DEF Min, Max
    <3>3. QED BY <2>2, <2>3, <2>6, <2>9, <3>1, <3>2
  <2>10. QED BY <2>8, <2>9
<1>6. QED BY <1>3, <1>4, <1>5, Zenon DEF SkeletonTells

\* For a caller who follows the API and gives every stream the header packets of
\* its codec, the Skeleton that the trailer rewrites is true: the length of the
\* segment, the offset of the first data page, every keypoint, and the first and
\* the last timestamp of each stream, though the first of these was measured in
\* the header section and the others grew with the packets since
\* (mux.rs: write_header, write_packet, backfill_indexes).
THEOREM SkeletonTrue == Protocol /\ Headed /\ Matching /\ Spec => []SkeletonTells
<1> DEFINE Inv == /\ TypeInv /\ PagesInv /\ LinksInv /\ OrderInv /\ PacketsInv /\ StampedInv
                  /\ TellsInv
           Caller == Protocol /\ Headed /\ Fitting /\ Matching
<1>1. Headed /\ Matching => Fitting
  BY MuxAssumption DEF Headed, Matching, Fitting
<1>2. Caller /\ Init => Inv
  BY InitType, InitPages, InitLinks, InitOrder, InitPackets, InitStamped, InitTells
<1>3. Caller /\ Inv /\ [Next]_vars => Inv'
  <2> SUFFICES ASSUME Caller, Inv, [Next]_vars PROVE Inv'
    OBVIOUS
  <2>1. TypeInv' /\ PagesInv' /\ PacketsInv' /\ StampedInv'
    BY TypeStep, StepPages, StepPackets, StepStamped
  <2>2. LinksInv'
    BY StepLinks
  <2>3. OrderInv'
    BY <2>1, <2>2, StepOrder
  <2>4. ProtocolInv /\ StreamsInv /\ StreamsKept
    BY Zenon DEF PagesInv, StreamsInv, PacketsInv
  <2>5. MeasuredInv'
    BY <2>1, <2>4, MeasuredStep DEF TellsInv
  <2>6. RewrittenInv'
    BY <2>4, RewrittenStep DEF TellsInv
  <2>7. QED BY <2>1, <2>2, <2>3, <2>5, <2>6 DEF TellsInv
<1>4. Inv => SkeletonTells
  BY TellsImply DEF PagesInv
<1> HIDE DEF Inv
<1>5. Protocol /\ Headed /\ Matching /\ Spec => []SkeletonTells
  <2>1. CASE Protocol /\ Headed /\ Matching
    <3>1. Caller
      BY <1>1, <2>1
    <3>2. Init => Inv
      BY <1>2, <3>1
    <3>3. Inv /\ [Next]_vars => Inv'
      BY <1>3, <3>1
    <3>4. QED BY <1>4, <3>2, <3>3, PTL DEF Spec
  <2>2. QED BY <2>1
<1>6. QED BY <1>5
=============================================================================
