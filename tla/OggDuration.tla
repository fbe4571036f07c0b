------------------------------ MODULE OggDuration ------------------------------
(***************************************************************************)
(* When the demuxer of src/src/demux.rs says a stream starts and how long  *)
(* the file is: open takes the start from the Skeleton and looks at the    *)
(* last granules of the tail, build_seek_index adds up the links.          *)
(*                                                                         *)
(* A byte offset is counted in units of which every page takes PageBytes,  *)
(* a time in units of which a tick of a stream's time base takes Tick.     *)
(***************************************************************************)
EXTENDS OggDemux

CONSTANTS
  PreSkip,       \* Opus pre-skip of each bitstream, 0 for the others
  PageBytes,     \* units of a page
  TailBytes,     \* units of the end of the file that open looks at (64 KiB)
  Tick,          \* units of time of a tick of each bitstream's time base
  Basetime,      \* playback time of granule 0, as the fishead has it
  Bones          \* fisbones: the Skeleton packet, stream, preroll, headers, basegranule

ASSUME DurationAssumption ==
  /\ PreSkip \in [Sources -> Nat] /\ Tick \in [Sources -> Nat \ {0}]
  /\ PageBytes \in Nat \ {0} /\ TailBytes \in Nat /\ Basetime \in Int

VARIABLES
  start_time,        \* of the streams a Skeleton anchors; 0 of the others
  duration           \* duration_micros

reports == <<start_time, duration>>

-----------------------------------------------------------------------------
(* Offsets.                                                                *)

Kept == {k \in DOMAIN file : file[k].state # "lost"}
Off(k) == PageBytes * (Cardinality({j \in Kept : j < k})
                       + Cardinality({j \in Kept : j <= k /\ file[j].state = "junk"}))
FileSize == Off(Len(file) + 1)

-----------------------------------------------------------------------------
(* What the Skeleton says of a stream.                                     *)

Parsed(table) == {entry \in table : \E i \in DOMAIN skeleton.packets :
  LET packet == skeleton.packets[i] IN Src(packet) = entry.src /\ Pkt(packet) = entry.pkt}
BoneFor(serial) == {b \in Parsed(Bones) : b.serial = serial}

SourceOf(serial) == streams[state_by_serial[serial].public_index].codec

-----------------------------------------------------------------------------
(* The start times, in the nearest tick of each stream.                    *)

StartOf(bone) == Basetime + bone.basegranule * Tick[SourceOf(bone.serial)]   \* start_seconds
Rounded(x, tick) ==
  IF x < 0 THEN -((tick - 2 * x) \div (2 * tick)) ELSE (2 * x + tick) \div (2 * tick)
Anchored == {bone \in Parsed(Bones) : bone.serial \in DOMAIN state_by_serial /\ StartOf(bone) # 0}
StartTimes ==
  [i \in {state_by_serial[bone.serial].public_index : bone \in Anchored} |->
     LET bone == CHOOSE b \in Anchored : state_by_serial[b.serial].public_index = i
     IN Rounded(StartOf(bone), Tick[streams[i].codec])]

-----------------------------------------------------------------------------
(* The duration.                                                           *)

\* The time a granule stands for, by the bone's rate or the stream's own, which
\* are the same here; with a bone a Theora granule is the sum of its halves.
Elapsed(serial, g) ==
  LET src == SourceOf(serial)
  IN Tick[src] * (CASE src \notin Theora          -> Max({g - PreSkip[src], 0})
                    [] BoneFor(serial) # {}       -> (g \div Span) + (g % Span)
                    [] FrameIndex(g) = NoTime     -> 0
                    [] OTHER                      -> FrameIndex(g) + 1)

\* Of streams whose last granules are given.
Longest(last) == Max({0} \cup {Elapsed(serial, last[serial]) : serial \in DOMAIN last})

\* populate_duration: the last granule of each stream among the whole pages,
\* checksums unread, that begin in the last TailBytes of the file.
TailPages(serial) == {k \in Kept : /\ file[k].page.serial = serial /\ file[k].page.granule >= 0
                                   /\ file[k].state # "cut" /\ Off(k) >= FileSize - TailBytes}
TailDuration ==
  Longest([serial \in {s \in DOMAIN state_by_serial : TailPages(s) # {}} |->
             file[Max(TailPages(serial))].page.granule])

\* populate_duration_from_index: the longest stream of each link.
Granules(serial) == {e.granule : e \in {x \in seek_index : x.serial = serial}}
LinkDuration(link) ==
  Longest([serial \in {s \in DOMAIN state_by_serial :
                          state_by_serial[s].link_index = link /\ Granules(s) # {}} |->
             Max(Granules(serial))])
LinksFound == {state_by_serial[serial].link_index : serial \in DOMAIN state_by_serial}
IndexDuration == FoldSet(LAMBDA link, sum : sum + LinkDuration(link), 0, LinksFound)

\* The scan ends without a duration where the file ends in a BOS page of a
\* stream it does not know.
ScanCutShort == \E k \in DOMAIN file : /\ file[k].state = "cut" /\ file[k].page.bos
                                       /\ file[k].page.serial \notin DOMAIN state_by_serial

\* What a step of OggDemux does to the reports: the end of open, the scan.
Opened == phase = "headers" /\ phase' = "idle"
Report ==
  /\ start_time' = IF Opened THEN StartTimes ELSE start_time
  /\ duration' =
       IF Opened THEN TailDuration
       ELSE IF seek_index_built' = seek_index_built \/ ScanCutShort THEN duration
       ELSE IF IndexDuration' > 0 THEN IndexDuration' ELSE duration
=============================================================================
