-------------------------------- MODULE OggSeek --------------------------------
(***************************************************************************)
(* Seeking in src/src/demux.rs, on top of the linear path: seek_to, which  *)
(* tries the keyframe index of a Skeleton, then the page index, then a     *)
(* bisection of the file, seek_to_with_preroll, seek_to_keyframe, and what *)
(* next_packet delivers from where they leave the input.                   *)
(*                                                                         *)
(* A page is found by its number; the bisection works on byte offsets, in  *)
(* units of which every page takes PageBytes, so that a probe can fall     *)
(* inside a page.  Payload that looks like a capture pattern, and the      *)
(* count of seeks each path served, are left out.                          *)
(***************************************************************************)
EXTENDS OggDuration

CONSTANTS
  Seekable,      \* bitstreams of the codecs seek_to knows
  Window,        \* scan_limit: units a probe scans
  Threshold,     \* units below which the bisection stops
  MaxIters,      \* turns of the bisection (64)
  Indexes,       \* keyframe indexes: the Skeleton packet, stream, keypoints
  SegmentLength, \* segment_length of the fishead, 0 when not given
  Calls,         \* the calls made: seek_to, seek_to_with_preroll, seek_to_keyframe
  Targets,       \* bound: the timestamps asked for
  MaxSeeks       \* bound: seeks

ASSUME SeekAssumption ==
  /\ Seekable \subseteq Sources
  /\ {Window, Threshold, MaxIters} \subseteq Nat \ {0}
  /\ Calls \subseteq {"plain", "preroll", "keyframe"}
  /\ SegmentLength \in Nat /\ Targets \subseteq Int /\ MaxSeeks \in Nat

VARIABLES
  job,         \* the seek under way, if any
  length_ok,   \* skeleton_segment_length_ok: unknown, yes or no
  landing,     \* history: how the last seek ended
  seeks        \* counter for the bound

seeking  == <<job, length_ok, landing, seeks>>
seekVars == <<vars, reports, seeking>>

NoPage == 0
-----------------------------------------------------------------------------
(* Offsets.                                                                *)

PageAt(off) == {k \in Kept : Off(k) = off}
Stamped(serial) == {k \in Kept : file[k].page.serial = serial /\ file[k].page.granule >= 0}
GranuleOf(k) == file[k].page.granule

\* find_next_page_for_serial: the pages it meets, up to the one it returns.
Found(start, limit, serial) == {k \in Stamped(serial) : start <= Off(k) /\ Off(k) < limit}
Scanned(start, limit, serial) ==
  LET found == Found(start, limit, serial)
  IN {k \in Kept : start <= Off(k) /\ Off(k) < limit /\ (found # {} => k <= Min(found))}
RecordScanned(start, limit, serial) ==
  seek_index' = FoldSet(LAMBDA k, index : IndexRecord(index, file[k].page, k),
                        seek_index, Scanned(start, limit, serial))

-----------------------------------------------------------------------------
(* The axis of a seek.                                                     *)

\* SeekKey::key_of, for a Theora stream whose identification header parsed.
Key(src, g) ==
  CASE g < 0         -> g
    [] src \in Theora -> (g \div Span) + (g % Span) - CountBias
    [] OTHER          -> Max({g - PreSkip[src], 0})

KeyOf(serial, k) == Key(SourceOf(serial), GranuleOf(k))

\* index_floor_by: from the highest granule down, the first entry not past it.
AtOrBefore(serial, target) ==
  {e \in seek_index : e.serial = serial /\ Key(SourceOf(serial), e.granule) <= target}
IndexFloor(entries) == CHOOSE e \in entries :
  \A f \in entries : f.granule < e.granule \/ (f.granule = e.granule /\ f.off <= e.off)

\* TimeBase::rescale rounds to the nearest tick, halves away from zero.
Rescale(x, from, to) ==
  LET nearest(n) == (2 * n * from + to) \div (2 * to)
  IN IF x >= 0 THEN nearest(x) ELSE -nearest(-x)

-----------------------------------------------------------------------------
(* Starting, and ending.                                                   *)

SeekInit ==
  /\ Init /\ start_time = <<>> /\ duration = 0
  /\ job = <<>> /\ length_ok = "unknown" /\ landing = <<>> /\ seeks = 0

\* asked, the timestamp of the caller, is history.
Begin(kind, serial, target, asked) ==
  job' = <<[kind |-> kind, serial |-> serial, target |-> target, stage |-> "skeleton",
            lo |-> 0, hi |-> FileSize, landed |-> NoPage, iters |-> 0, asked |-> asked]>>

SeekTo(kind, serial, target) ==
  /\ phase = "idle" /\ job = <<>> /\ seeks < MaxSeeks
  /\ SourceOf(serial) \in Seekable
  /\ Begin(kind, serial, target, [kind |-> kind, time |-> target])
  /\ seeks' = seeks + 1
  /\ UNCHANGED <<vars, reports, length_ok, landing>>

Doing(stage) == job # <<>> /\ job[1].stage = stage
Seek == job[1]
Turn(changes) == job' = <<changes>>

\* A definition marked mutant is a plausible slip in the operator below it.
QueueKept(k) ==   \* mutant: packets of the old place are still delivered
  /\ pos' = k /\ page_queue' = <<>> /\ eof_reached' = FALSE
  /\ state_by_serial' = [serial \in DOMAIN state_by_serial |->
                           [state_by_serial[serial] EXCEPT !.pending = <<>>]]
  /\ UNCHANGED out_queue
\* The input stands at a page and nothing is buffered.
Flush(k) ==
  /\ pos' = k /\ page_queue' = <<>> /\ out_queue' = <<>> /\ eof_reached' = FALSE
  /\ state_by_serial' = [serial \in DOMAIN state_by_serial |->
                           [state_by_serial[serial] EXCEPT !.pending = <<>>]]

Untouched == UNCHANGED <<file, phase, pages_consumed, hand, at, streams, skeleton, links, damage,
                         seek_index_built, reports, seeks>>

\* The streams whose packet given up is taken for whole: the flag of the packet
\* in hand stays, and the next page of the stream from k on follows the last.
Upcoming(serial, k) == {j \in DOMAIN file : j >= k /\ Survives(j) /\ file[j].page.serial = serial}
Torn(k) == {serial \in DOMAIN state_by_serial :
  /\ state_by_serial[serial].pending_valid /\ Upcoming(serial, k) # {}
  /\ LET page == file[Min(Upcoming(serial, k))].page
     IN page.cont /\ page.seq = Successor(state_by_serial[serial].last_seq)}
\* The streams whose data is taken for headers: the headers not yet read are not
\* read now, or data was taken for them before and the BOS page is read for the
\* first time.
Bare(k) == {serial \in DOMAIN state_by_serial :
  LET s == state_by_serial[serial]
  IN IF \E j \in Upcoming(serial, k) : file[j].page.bos
     THEN ~s.bos_processed /\ s.headers_remaining < Need[SourceOf(serial)]
     ELSE s.headers_remaining > 0}

Land(k, granule, by) ==
  /\ Flush(k)
  /\ landing' = <<[page |-> k, granule |-> granule, by |-> by, asked |-> Seek.asked,
                   serial |-> Seek.serial, target |-> Seek.target, first |-> k,
                   torn |-> Torn(k), bare |-> Bare(k)]>>
  /\ delivered' = <<>>
  /\ job' = IF Seek.kind = "plain" THEN <<>> ELSE <<[Seek EXCEPT !.stage = "after"]>>
  /\ Untouched

-----------------------------------------------------------------------------
(* The keyframe indexes of the Skeleton.                                   *)

IndexFor(serial) == {ix \in Parsed(Indexes) : ix.serial = serial}

\* skeleton_segment_length_check, which looks once and remembers.
LengthHolds ==
  \/ skeleton.serial = NoSerial \/ SegmentLength = 0
  \/ SegmentLength = FileSize
  \/ SegmentLength < FileSize /\ PageAt(SegmentLength) # {}
LengthOk == IF length_ok = "unknown" THEN LengthHolds ELSE length_ok = "yes"
RememberLength == length_ok' = IF LengthOk THEN "yes" ELSE "no"

\* keypoint_floor: a keypoint is [time, off], time in units.
Until(ix, time) == {i \in DOMAIN ix.keypoints : ix.keypoints[i].time <= time}
KeypointFloor(ix, time) == ix.keypoints[Max(Until(ix, time))]

TargetTime == Rescale(Seek.target, Tick[SourceOf(Seek.serial)], 1)
Primary == CHOOSE ix \in IndexFor(Seek.serial) : TRUE
SkeletonFloor == IndexFor(Seek.serial) # {} /\ Until(Primary, TargetTime) # {}

OnlyPrimary == [serial |-> Seek.serial, off |-> KeypointFloor(Primary, TargetTime).off]  \* mutant
\* skeleton_index_seek: the earliest of the floors of all indexes, its own first.
EarliestFloor ==
  LET floors == {[serial |-> ix.serial, off |-> KeypointFloor(ix, TargetTime).off] :
                   ix \in {x \in Parsed(Indexes) : Until(x, TargetTime) # {}}}
      own == [serial |-> Seek.serial, off |-> KeypointFloor(Primary, TargetTime).off]
      earliest == Min({f.off : f \in floors})
  IN IF own.off = earliest THEN own ELSE CHOOSE f \in floors : f.off = earliest

\* verify_keypoint_landing.
Verified(f) == \E k \in PageAt(f.off) : file[k].page.serial = f.serial

SkeletonLanding ==
  /\ Doing("skeleton") /\ LengthOk /\ SkeletonFloor /\ Verified(EarliestFloor)
  /\ Land(CHOOSE k \in PageAt(EarliestFloor.off) : TRUE,
          Rescale(KeypointFloor(Primary, TargetTime).time, 1, Tick[SourceOf(Seek.serial)]),
          "skeleton")
  /\ RememberLength
  /\ UNCHANGED seek_index

\* No index to go by, or one that is not to be trusted.
SkeletonPassed ==
  /\ Doing("skeleton") /\ ~(LengthOk /\ SkeletonFloor /\ Verified(EarliestFloor))
  /\ Turn([Seek EXCEPT !.stage = "index"])
  /\ RememberLength
  /\ UNCHANGED <<vars, reports, landing, seeks>>

-----------------------------------------------------------------------------
(* The page index.                                                         *)

IndexLanding ==
  /\ Doing("index") /\ seek_index_built
  /\ AtOrBefore(Seek.serial, Seek.target) # {}
  /\ LET floor == IndexFloor(AtOrBefore(Seek.serial, Seek.target))
     IN Land(floor.off, floor.granule, "index")
  /\ UNCHANGED <<seek_index, length_ok>>

\* The index is not complete: its floor is no more than a place to flush at.
IndexPassed ==
  /\ Doing("index")
  /\ LET floors == AtOrBefore(Seek.serial, Seek.target)
     IN \/ floors = {} /\ UNCHANGED <<pos, page_queue, out_queue, eof_reached, state_by_serial>>
        \/ floors # {} /\ ~seek_index_built /\ Flush(IndexFloor(floors).off)
  /\ Turn([Seek EXCEPT !.stage = "bisect"])
  /\ Untouched /\ UNCHANGED <<seek_index, delivered, length_ok, landing>>

-----------------------------------------------------------------------------
(* The bisection.                                                          *)

Unmoved == UNCHANGED <<pos, page_queue, out_queue, eof_reached, state_by_serial, delivered,
                     length_ok, landing>>

Mid  == Seek.lo + (Seek.hi - Seek.lo) \div 2
ProbeEnd == Min({Mid + Window, FileSize})
Turning  == Seek.lo < Seek.hi /\ Seek.iters < MaxIters

NotEarlier(k) == Seek.landed = NoPage \/ KeyOf(Seek.serial, k) >= KeyOf(Seek.serial, Seek.landed)

LoPast(k) == Off(k) + 1

NarrowedRaw(k) ==   \* mutant: the granule for the key
  IF GranuleOf(k) <= Seek.target
  THEN [Seek EXCEPT !.lo = LoPast(k), !.landed = IF NotEarlier(k) THEN k ELSE @]
  ELSE [Seek EXCEPT !.hi = Off(k)]
Narrowed(k) ==
  IF KeyOf(Seek.serial, k) <= Seek.target
  THEN [Seek EXCEPT !.lo = LoPast(k), !.landed = IF NotEarlier(k) THEN k ELSE @]
  ELSE [Seek EXCEPT !.hi = Off(k)]

Loose(s) ==   \* mutant: the bisection's own landing is good enough
  IF s.landed = NoPage THEN [s EXCEPT !.stage = "start"]
  ELSE [s EXCEPT !.stage = "tighten", !.lo = Off(s.landed) + 1, !.hi = Off(s.landed) + 1]
\* Where the bisection leaves off: a scan from the landing on, or from the start.
Tightening(s) ==
  IF s.landed = NoPage THEN [s EXCEPT !.stage = "start"]
  ELSE [s EXCEPT !.stage = "tighten", !.lo = Off(s.landed) + 1,
                 !.hi = Min({s.hi, Off(s.landed) + 1 + 2 * Threshold})]

BisectTurn ==
  /\ Doing("bisect") /\ Turning
  /\ LET found == Found(Mid, ProbeEnd, Seek.serial)
     IN \/ /\ found = {}
           /\ Turn([Seek EXCEPT !.hi = Mid, !.iters = @ + 1])
        \/ /\ found # {}
           /\ LET s == [Narrowed(Min(found)) EXCEPT !.iters = @ + 1]
              IN Turn(IF s.hi - s.lo < Threshold THEN Tightening(s) ELSE s)
  /\ RecordScanned(Mid, ProbeEnd, Seek.serial)
  /\ Untouched /\ Unmoved

BisectEnd ==
  /\ Doing("bisect") /\ ~Turning
  /\ Turn(Tightening(Seek))
  /\ Untouched /\ Unmoved /\ UNCHANGED seek_index

TightenTurn ==
  /\ Doing("tighten")
  /\ LET found == Found(Seek.lo, Seek.hi, Seek.serial)
     IN /\ found # {} /\ KeyOf(Seek.serial, Min(found)) <= Seek.target
        /\ Turn([Seek EXCEPT !.lo = Off(Min(found)) + 1,
                             !.landed = IF NotEarlier(Min(found)) THEN Min(found) ELSE @])
  /\ RecordScanned(Seek.lo, Seek.hi, Seek.serial)
  /\ Untouched /\ Unmoved

TightenEnd ==
  /\ Doing("tighten")
  /\ LET found == Found(Seek.lo, Seek.hi, Seek.serial)
     IN \A k \in found : k = Min(found) => KeyOf(Seek.serial, k) > Seek.target
  /\ Land(Seek.landed, GranuleOf(Seek.landed), "bisection")
  /\ RecordScanned(Seek.lo, Seek.hi, Seek.serial)
  /\ UNCHANGED length_ok

\* No page at or before the target was met: the first one of the stream.  The
\* BOS page it was registered by is one, so that there always is a landing.
FromStart ==
  /\ Doing("start")
  /\ LET k == Min(Found(0, FileSize, Seek.serial)) IN Land(k, GranuleOf(k), "bisection")
  /\ RecordScanned(0, FileSize, Seek.serial)
  /\ UNCHANGED length_ok

-----------------------------------------------------------------------------
(* After the landing: preroll and key frames.                              *)

Preroll(serial) == IF BoneFor(serial) = {} THEN 0 ELSE (CHOOSE b \in BoneFor(serial) : TRUE).preroll
NumHeaders(serial) == IF BoneFor(serial) = {} THEN 0 ELSE (CHOOSE b \in BoneFor(serial) : TRUE).headers

Terminated(k) == Cardinality({i \in DOMAIN file[k].page.segs : file[k].page.segs[i].term})
Ending(S) == FoldSet(LAMBDA k, n : n + Terminated(k), 0, S)
\* collect_stream_pages_until: packets past the headers that end on a page.
ContentOn(serial, k) ==
  LET before == Ending({j \in Kept : j < k /\ file[j].page.serial = serial})
  IN Max({0, before + Terminated(k) - Max({before, NumHeaders(serial)})})
ContentUpTo(serial, k) ==   \* mutant: the page sought is counted too
  {j \in Kept : j <= k /\ file[j].page.serial = serial /\ ContentOn(serial, j) > 0}
ContentBefore(serial, k) ==
  {j \in Kept : j < k /\ file[j].page.serial = serial /\ ContentOn(serial, j) > 0}

\* The pages from which enough packets end before page k.
WarmFrom(serial, k, n) ==
  {j \in ContentBefore(serial, k) :
     FoldSet(LAMBDA i, sum : sum + ContentOn(serial, i), 0,
             {i \in ContentBefore(serial, k) : i >= j}) >= n}

BackUp ==
  LET page == landing[1].page
      content == ContentBefore(Seek.serial, page)
      warm == WarmFrom(Seek.serial, page, Preroll(Seek.serial))
  IN IF Preroll(Seek.serial) = 0 \/ content = {} THEN page
     ELSE IF warm = {} THEN Min(content) ELSE Max(warm)

PrerollDone ==
  /\ Doing("after") /\ Seek.kind = "preroll"
  /\ Flush(BackUp)
  /\ landing' = <<[landing[1] EXCEPT !.page = BackUp, !.torn = Torn(BackUp), !.bare = Bare(BackUp)]>>
  /\ job' = <<>>
  /\ Untouched /\ UNCHANGED <<seek_index, delivered, length_ok>>

\* The key frame the landing counts from, as a timestamp: with a bone it is the
\* high half of the granule, without one the identification header's frame index.
KeyframeTime(serial, g) ==
  IF BoneFor(serial) # {} THEN g \div Span ELSE KeyframeIndex(g)

OnKeyframe(src, g) == src \notin Theora \/ g < 0 \/ g % Span = 0

KeyframeDone ==
  /\ Doing("after") /\ Seek.kind = "keyframe"
  /\ LET g == landing[1].granule
         time == KeyframeTime(Seek.serial, g)
     IN IF OnKeyframe(SourceOf(Seek.serial), g) \/ time = NoTime
        THEN job' = <<>>
        ELSE Begin("plain", Seek.serial, time, Seek.asked)
  /\ UNCHANGED <<vars, reports, length_ok, landing, seeks>>

SeekWork ==
  \/ SkeletonLanding \/ SkeletonPassed \/ IndexLanding \/ IndexPassed
  \/ BisectTurn \/ BisectEnd \/ TightenTurn \/ TightenEnd \/ FromStart
  \/ PrerollDone \/ KeyframeDone
SeekCall == \E kind \in Calls, serial \in DOMAIN state_by_serial, target \in Targets :
              SeekTo(kind, serial, target)
Linear == job = <<>> /\ Next /\ Report /\ UNCHANGED seeking

SeekNext == Linear \/ SeekCall \/ SeekWork
SeekSpec == SeekInit /\ [][SeekNext]_seekVars
-----------------------------------------------------------------------------
(* Properties.                                                             *)

Done == job = <<>> /\ landing # <<>>
Landed == landing[1]
Best(serial, target) == {k \in Stamped(serial) : KeyOf(serial, k) <= target}
PagesFor(serial) == {k \in Kept : file[k].page.serial = serial}

\* Wherever a window of the file has no page of the stream, no later one has.
Dense(serial) == \A off \in 0 .. FileSize :
  Found(off, off + Window, serial) = {} => Found(off, FileSize, serial) = {}

Job == [kind: {"plain", "preroll", "keyframe"}, serial: Nat, target: Int,
        stage: {"skeleton", "index", "bisect", "tighten", "start", "after"},
        lo: Nat, hi: Nat, landed: Nat, iters: Nat, asked: [kind: STRING, time: Int]]

\* Every variable has its type.  While the bisection runs, the page it is to find
\* stays within what is left to look at, and the landing it holds is not past it.
SeekTypeOK ==
  /\ \A i \in DOMAIN job : job[i] \in Job
  /\ length_ok \in {"unknown", "yes", "no"} /\ seeks \in 0 .. MaxSeeks
  /\ landing # <<>> => Landed.page \in Kept /\ Landed.first \in Kept
  /\ pos \in 1 .. Len(file) + 1
  /\ Doing("bisect") \/ Doing("tighten") =>
       LET best == Best(Seek.serial, Seek.target)
       IN /\ Seek.landed \in {NoPage} \cup best
          /\ Doing("bisect") /\ Dense(Seek.serial) /\ best # {} => Off(Max(best)) < Seek.hi

\* A seek lands on the last page of the stream at or before the target: by the
\* page index always, by bisection when the stream has a page in every window,
\* but for a target so close to the start that the bisection stops before it
\* found one, which lands on the stream's first page.  In any file no landing is
\* past the target when a page at or before it lies in reach.
FloorFound ==
  Done /\ Landed.by # "skeleton" /\ Best(Landed.serial, Landed.target) # {} =>
    LET best == Best(Landed.serial, Landed.target)
        stamped == Stamped(Landed.serial)
        near == \E k \in stamped \ best : Off(k) < Threshold
    IN /\ Landed.granule = GranuleOf(Landed.first)
       /\ Landed.first \in best \/ Landed.first = Min(stamped)
       /\ Landed.by = "index" => Landed.first = Max(best)
       /\ Dense(Landed.serial) => Landed.first = Max(best) \/ (near /\ Landed.first = Min(stamped))

\* A landing by the Skeleton's indexes loses no stream its key frame: the input
\* stands at or before the last indexed key frame of every indexed stream that
\* the target has passed, on a page of one of them.
EveryStreamResumes ==
  Done /\ Landed.by = "skeleton" =>
    \A ix \in Parsed(Indexes) :
      LET time == Rescale(Landed.target, Tick[SourceOf(Landed.serial)], 1)
      IN Until(ix, time) # {} => Off(Landed.first) <= KeypointFloor(ix, time).off

\* After a seek next_packet delivers, to the end of the file, exactly the packets
\* that begin on the pages from the landing on, each stream's in order, and
\* keeps back headers exactly when the stream's BOS page is read again; nothing
\* of the place left shows, whatever the caller had read or sought before.
\* Two cases are left out, both found wanting: see WholeAfterSeek, DataAfterSeek.
FirstPieceOn(src, n) == Min({k \in PagesOf(src) : Carries(k, n)})
ReadOn(src) ==
  IF SerialOf(src) \notin DOMAIN state_by_serial THEN {}
  ELSE {n \in Packets(src) : /\ FirstPieceOn(src, n) >= Landed.page
                             /\ n > Need[src] \/ Begins(src) < Landed.page}
ReadsOn ==
  Done /\ AtEnd /\ (\A k \in DOMAIN file : file[k].state = "ok") =>
    \A src \in Content : SerialOf(src) \notin Landed.torn \cup Landed.bare =>
      Numbers(DeliveredOf(src)) = SetToSortSeq(ReadOn(src), <)

\* The timestamps of the packets delivered after a seek are theirs, though the
\* frame counter was left where the seek found it.  The duration is told by the
\* packets too: from open on it is the longest of the streams of the first link
\* that go on into the tail of the file, from the scan on that of the links one
\* after another, whatever was read or sought before it.  And a stream starts
\* where its bone puts its first granule, to half a tick, or at 0.
StampedOf(src) == {k \in PagesOf(src) \cap Kept : file[k].page.granule >= 0}
EndOf(src) == Max({0} \cup {Ends[src][n] + IF src \in Theora THEN 1 ELSE -PreSkip[src] :
                            n \in {m \in Packets(src) : m > Need[src]}})
Length(srcs) == Max({0} \cup {Tick[src] * EndOf(src) : src \in srcs})
DurationTrue ==
  /\ phase = "idle" /\ ~seek_index_built =>
       duration = Length({src \in Content : /\ Link[src] = 0
                                            /\ Off(Max(StampedOf(src))) >= FileSize - TailBytes})
  /\ seek_index_built => duration =
       FoldSet(LAMBDA link, sum : sum + Length({src \in Content : Link[src] = link}), 0, {0, 1})
StartTrue ==
  phase = "idle" => \A i \in DOMAIN streams :
    LET src   == streams[i].codec
        bones == {b \in Bones : b.serial = SerialOf(src) /\ Link[src] = 0 /\ PagesOf(b.src) # {}}
        start == IF i \in DOMAIN start_time THEN start_time[i] ELSE 0
        off(b) == 2 * (Tick[src] * (start - b.basegranule) - Basetime)
    IN /\ bones = {} => start = 0
       /\ \A b \in bones : -Tick[src] <= off(b) /\ off(b) <= Tick[src]
TimedOn ==
  /\ DurationTrue /\ StartTrue
  /\ landing # <<>> => \A i \in DOMAIN delivered :
    LET d == delivered[i]
        src == Src(d.packet)
    IN SerialOf(src) \notin Landed.torn \cup Landed.bare /\ Pkt(d.packet) > Need[src] =>
         /\ d.pts # NoTime => d.pts = Ends[src][Pkt(d.packet)]
         /\ d.last \/ src \in Theora => d.pts # NoTime

\* With a preroll the input stands where at least that many packets of the stream
\* end before the page sought, or at the stream's first packet of data, and no
\* earlier page would do.
Ended(src, from, to) == {n \in Packets(src) : n > Need[src] /\
  \E k \in from .. to - 1 : k \in PagesOf(src) /\ \E i \in DOMAIN file[k].page.segs :
    file[k].page.segs[i].pkt = n /\ file[k].page.segs[i].term}
WarmedUp ==
  Done /\ Landed.asked.kind = "preroll" =>
    LET src == SourceOf(Landed.serial)
        n == Preroll(Landed.serial)
    IN /\ Cardinality(Ended(src, Landed.page, Landed.first)) >= n
          \/ Ended(src, Landed.page, Landed.first) = Ended(src, 1, Landed.first)
       /\ Cardinality(Ended(src, Landed.page + 1, Landed.first)) < n \/ Landed.page = Landed.first

\* seek_to_keyframe, the granule shift taken from the stream's own header, stands
\* where the key frame that the frame sought needs is still to come, or ends.
KeyPackets(src, k) == {n \in Packets(src) \ 1 .. Need[src] : <<src, n>> \in Keyframes
                   /\ Ends[src][n] <= Key(src, GranuleOf(k))}
KeyframeReached ==
  Done /\ Landed.asked.kind = "keyframe" /\ BoneFor(Landed.serial) = {} =>
    LET src == SourceOf(Landed.serial)
        best == Best(Landed.serial, Landed.asked.time)
    IN src \in Theora /\ best # {} /\ KeyPackets(src, Max(best)) # {} =>
         \E k \in PagesOf(src) : k >= Landed.page /\ Carries(k, Max(KeyPackets(src, Max(best))))

(* What the comments of demux.rs say and the code does not do.             *)

\* "every delivered packet stays individually well-formed"
WholeAfterSeek == \A i \in DOMAIN delivered :
  LET packet == delivered[i].packet IN IsPacket(packet, Src(packet), Pkt(packet))

\* "After this returns, seek_to becomes O(log n) lookup + one seek for any
\* covered timestamp on any logical stream": what a stream delivers from there.
DataAfterSeek ==
  Done /\ AtEnd =>
    \A src \in Content : Numbers(DeliveredOf(src)) = SetToSortSeq(ReadOn(src), <)
=============================================================================
