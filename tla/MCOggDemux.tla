------------------------------ MODULE MCOggDemux ------------------------------
(* TLC instances of OggDemux: small files, each with every way of damaging a  *)
(* few of its pages.                                                          *)
EXTENDS OggDemux

CONSTANTS audio, video, chained, second, skel, skel2, intruder

MCNeed == [src \in {audio, video, chained, second, skel, skel2, intruder} |->
  CASE src = video -> 3 [] src \in {audio, chained, intruder} -> 2
    [] src = second -> 1 [] OTHER -> 0]
MCSerial == [src \in Sources |->
  CASE src = audio -> 1 [] src = video -> 2 [] src = chained -> 3 [] src = second -> 4
    [] src = skel -> 9 [] src = skel2 -> 8 [] src = intruder -> 9]
\* The chained bitstream claims the serial of the first.
Reused == [MCSerial EXCEPT ![chained] = MCSerial[audio]]
MCLink == [src \in Sources |-> IF src \in {chained, second} THEN 1 ELSE 0]

MaxPkt == 8
KeyFrames == {0, 2}
MCKeyframes == {<<video, MCNeed[video] + 1 + f>> : f \in KeyFrames}
MCEnds == [src \in Sources |-> [n \in 1 .. MaxPkt |->
  IF n <= MCNeed[src] THEN 0
  ELSE IF src = video THEN n - MCNeed[video] - 1 ELSE 3 * (n - MCNeed[src])]]
Granule(src, n) ==
  IF n <= MCNeed[src] \/ src # video THEN MCEnds[src][n]
  ELSE LET frame == MCEnds[video][n]
           key == Max({f \in KeyFrames : f <= frame})
       IN (key + CountBias) * Span + frame - key

-----------------------------------------------------------------------------
(* A file is laid out as <<bitstream, pieces>> per page, a piece being <<packet,
   part, parts>>; the rest of a page follows from its place.               *)

Seg(src, p) == [src |-> src, pkt |-> p[1], part |-> p[2], of |-> p[3], term |-> p[2] = p[3]]
MakePage(layout, serial, i) ==
  LET src == layout[i][1]
      segs == [j \in DOMAIN layout[i][2] |-> Seg(src, layout[i][2][j])]
      before == {k \in 1 .. i - 1 : layout[k][1] = src}
      after == {k \in i + 1 .. Len(layout) : layout[k][1] = src}
      ends == {j \in DOMAIN segs : segs[j].term /\ segs[j].pkt > 0}
  IN [src |-> src, serial |-> serial[src], seq |-> Cardinality(before) % SeqSpace,
      bos |-> before = {}, eos |-> after = {}, cont |-> segs[1].part > 1,
      granule |-> IF ends = {} THEN NoGranule ELSE Granule(src, segs[Max(ends)].pkt),
      segs |-> segs]
Pages(layout, serial) == [i \in DOMAIN layout |-> MakePage(layout, serial, i)]

States == {"lost", "bad", "junk"}
Intacts(pages) == [i \in DOMAIN pages |-> [page |-> pages[i], state |-> "ok"]]
\* At most n pages damaged, and the last one possibly cut.
Damaged(pages, n) ==
  LET hits == UNION {kSubset(m, DOMAIN pages) : m \in 0 .. n}
      how(S) == [S -> States] \cup
                (IF Len(pages) \in S THEN {[f EXCEPT ![Len(pages)] = "cut"] : f \in [S -> States]} ELSE {})
  IN {[i \in DOMAIN pages |->
        [page |-> pages[i], state |-> IF i \in DOMAIN h THEN h[i] ELSE "ok"]] :
      h \in UNION {how(S) : S \in hits}}

Only(n) == <<<<n, 1, 1>>>>

\* Two bitstreams side by side; packets end, begin and pass through pages, and
\* a header shares one with data.
Multiplex == <<
  <<video, Only(1)>>, <<audio, Only(1)>>,
  <<video, <<<<2, 1, 1>>, <<3, 1, 2>>>>>>, <<audio, <<<<2, 1, 1>>, <<3, 1, 1>>>>>>,
  <<video, <<<<3, 2, 2>>>>>>, <<audio, Only(4)>>, <<video, <<<<4, 1, 1>>, <<5, 1, 2>>>>>>,
  <<audio, <<<<5, 1, 3>>>>>>, <<video, <<<<5, 2, 2>>, <<6, 1, 1>>>>>>, <<audio, <<<<5, 2, 3>>>>>>,
  <<audio, <<<<5, 3, 3>>, <<6, 1, 1>>>>>>, <<video, Only(7)>>>>

\* A link of one bitstream, then a link of two; headers and data share a page.
Chain == <<
  <<audio, Only(1)>>, <<audio, Only(2)>>, <<audio, <<<<3, 1, 1>>, <<4, 1, 2>>>>>>,
  <<audio, <<<<4, 2, 2>>>>>>,
  <<chained, Only(1)>>, <<second, Only(1)>>, <<chained, <<<<2, 1, 1>>, <<3, 1, 1>>>>>>,
  <<second, <<<<2, 1, 1>>, <<3, 1, 2>>>>>>, <<chained, Only(4)>>, <<second, <<<<3, 2, 2>>>>>>>>

\* A Skeleton: a bone, indexes over two pages, the empty packet that ends it.
WithSkeleton == <<
  <<skel, Only(1)>>, <<audio, Only(1)>>, <<skel, Only(2)>>, <<audio, Only(2)>>,
  <<skel, <<<<3, 1, 2>>>>>>, <<skel, <<<<3, 2, 2>>, <<4, 1, 2>>>>>>, <<skel, <<<<4, 2, 2>>, <<0, 1, 1>>>>>>,
  <<audio, Only(3)>>, <<audio, Only(4)>>, <<audio, Only(5)>>>>

\* Nothing but BOS pages.
Empty == SubSeq(Multiplex, 1, 2)

\* BOS pages that should not be: a second Skeleton, another's on its serial.
Intruders == <<
  <<skel, Only(1)>>, <<skel2, Only(1)>>, <<audio, Only(1)>>, <<intruder, Only(1)>>,
  <<skel, Only(2)>>, <<skel2, Only(2)>>, <<skel, <<<<0, 1, 1>>>>>>, <<audio, Only(2)>>,
  <<intruder, Only(2)>>, <<audio, <<<<3, 1, 2>>>>>>, <<skel2, <<<<0, 1, 1>>>>>>, <<audio, <<<<3, 2, 2>>>>>>>>

\* A page whose continued flag, or whose last lacing value, says the opposite.
FlipCont(pages, i) == [pages EXCEPT ![i].cont = ~@]
FlipTerm(pages, i) == [pages EXCEPT ![i].segs[Len(pages[i].segs)].term = ~@]
Flipped(pages) ==
  {FlipCont(pages, i) : i \in {k \in DOMAIN pages : ~pages[k].bos}} \cup
  {FlipTerm(pages, i) : i \in DOMAIN pages}
OneLost(pages) == {[Intacts(pages) EXCEPT ![i].state = "lost"] : i \in DOMAIN pages}

MCFiles ==
  UNION {Damaged(p, 2) : p \in {Pages(Multiplex, MCSerial), Pages(Chain, MCSerial),
                                Pages(Chain, Reused), Pages(WithSkeleton, MCSerial)}}
  \cup {Intacts(Pages(Intruders, MCSerial))}
ScanFiles ==
  Damaged(Pages(Chain, MCSerial), 2) \cup Damaged(Pages(Empty, MCSerial), 2)
  \cup UNION {{Intacts(p)} \cup OneLost(p) : p \in Flipped(Pages(Multiplex, MCSerial))}
ScanAny(f)  == TRUE
\* The scan is made on those of ScanFiles: lies, chains, BOS pages alone.
ScanSome(f) == ~Honest(f) \/ Len(f) = Len(Empty) \/ \E k \in DOMAIN f : f[k].page.serial = MCSerial[chained]
DemuxFiles == MCFiles \cup ScanFiles

\* Bitstreams are laid out in order, and no damage of them goes unseen: pages
\* that go on with a packet go on with the one before, which PacketsGenuine of
\* OggDemuxProofs asks of the files.
ASSUME FilesFaithful == Faithful

\* Each has its serial to itself, or after another, but for the intruder: what
\* HeadersHeld of OggDemuxProofs asks of a file.
ASSUME FilesOrderly == \A f \in Files \ {Intacts(Pages(Intruders, MCSerial))} : Orderly(f)
=============================================================================
