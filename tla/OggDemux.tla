------------------------------- MODULE OggDemux -------------------------------
(***************************************************************************)
(* The linear path of the demuxer of src/src/demux.rs: open() reads the    *)
(* BOS section and the headers, next_packet() reads page after page until  *)
(* a packet is whole, build_seek_index() walks the page headers of the     *)
(* file on the side.                                                       *)
(*                                                                         *)
(* The file is a sequence of pages, each in one of the states a damaged    *)
(* file leaves it in, and is the only thing chosen: everything after is    *)
(* what the code makes of it.  The bytes of a packet are the pieces of it  *)
(* that pages carry, so that a packet put together from the wrong pieces   *)
(* shows.  A file offset is a page number.                                 *)
(***************************************************************************)
EXTENDS Integers, Sequences, FiniteSets, SequencesExt, FiniteSetsExt

CONSTANTS
  Files,         \* the files that may be opened
  Need,          \* header_packet_count_from_first of each bitstream
  Theora,        \* the bitstreams whose first packet is a Theora header
  Opus,          \* those whose extradata is the first header packet alone
  Fishead,       \* those whose first packet is fishead: Skeletons
  Span,          \* 2^KFGSHIFT
  CountBias,     \* count_from_one as a number
  SeqSpace,      \* number of page_sequence_numbers (2^32)
  HeaderBudget,  \* HEADER_SECTION_MAX_PAGES
  MaxEvents,     \* MAX_DAMAGE_EVENTS
  MayScan(_),    \* files the caller may call build_seek_index on, once
  Ends,          \* time of each packet of a bitstream: end sample, or frame
  Keyframes,     \* <<bitstream, packet>> of the key frames
  Link           \* chain link of each bitstream, from 0

Sources   == DOMAIN Need
NoGranule == -1
NoTime    == -99    \* Option<i64>::None of a timestamp; a frame may be below 0
NoSerial  == -1
NoSeq     == -1     \* Option<u32>::None of a sequence number

Piece    == [src: Sources, pkt: Nat, part: Nat, of: Nat]
Segment  == [src: Sources, pkt: Nat, part: Nat, of: Nat, term: BOOLEAN]
Page     == [src: Sources, serial: Nat, seq: Nat, bos: BOOLEAN, eos: BOOLEAN,
             cont: BOOLEAN, granule: Int, segs: Seq(Segment)]
\* A page that is lost is not in the file; a bad one fails its checksum or its
\* version; before one after junk there are bytes of no page; the file ends
\* inside the body of a page that is cut.
Item     == [page: Page, state: {"ok", "lost", "bad", "junk", "cut"}]

ASSUME DemuxAssumption ==
  /\ Theora \subseteq Sources /\ Opus \subseteq Sources /\ Fishead \subseteq Sources
  /\ Need \in [Sources -> Nat] /\ Link \in [Sources -> Nat]
  /\ \A src \in Fishead : Need[src] = 0
  /\ Span \in Nat \ {0} /\ CountBias \in {0, 1}
  /\ SeqSpace \in Nat \ {0} /\ HeaderBudget \in Nat /\ MaxEvents \in Nat
  /\ \A f \in Files : MayScan(f) \in BOOLEAN

ASSUME FilesAssumption ==
  /\ Files \subseteq Seq(Item)
  /\ \A f \in Files : \A k \in DOMAIN f :
       /\ f[k].page.bos => f[k].page.segs # <<>>
       /\ f[k].state = "cut" => k = Len(f)

VARIABLES
  file,              \* the input
  pos,               \* stream_position(): the next page of it
  phase,             \* where open or next_packet is; idle between calls
  pages_consumed,    \* of read_until_headers_collected
  hand,              \* the page process_page is at, if any
  at,                \* and how far: its BOS handling or its body
  page_queue, out_queue, eof_reached,
  streams,           \* the public streams: serial, codec and extradata
  state_by_serial,
  next_link_index, seen_nonbos,
  skeleton,          \* skeleton_serial, skeleton_pending, ...
  damage,            \* the counters and the ledger
  seek_index, seek_index_built,
  delivered          \* history: the packets next_packet returned

reader   == <<file, pos, seek_index>>
links    == <<next_link_index, seen_nonbos>>
registry == <<streams, state_by_serial, skeleton>>
vars     == <<reader, phase, pages_consumed, hand, at, page_queue, out_queue, eof_reached,
              registry, links, damage, seek_index_built, delivered>>

Bytes(segs) == [i \in DOMAIN segs |->
  [src |-> segs[i].src, pkt |-> segs[i].pkt, part |-> segs[i].part, of |-> segs[i].of]]

Kinds == {"hole", "framing", "resync", "duplicate", "truncated"}

\* A definition marked mutant is a plausible slip in the operator below it: the
\* properties are checked to fail when it takes that operator's place.
-----------------------------------------------------------------------------
(* The damage ledger.                                                      *)

Record(d, kind, page) ==
  [d EXCEPT !.count[kind] = @ + 1, !.total = @ + 1,
            !.events = IF Len(@) < MaxEvents
                       THEN Append(@, [kind |-> kind, serial |-> page.serial, seq |-> page.seq])
                       ELSE @]

-----------------------------------------------------------------------------
(* Pages off the input.                                                    *)

Present  == {k \in pos .. Len(file) : file[k].state # "lost"}
Readable == {k \in Present : file[k].state \notin {"bad", "cut"}}

\* The page at pos does not parse, so that the scan for the next one runs.
Astray == Present # {} /\ file[Min(Present)].state \in {"bad", "junk"}
Cut    == Present # {} /\ file[Min(Present)].state = "cut"

CanRead == Readable # {} /\ ~Cut
Landing == IF Astray THEN Min(Readable) ELSE Min(Present)

IndexRecord(index, page, off) ==
  IF page.granule < 0 THEN index
  ELSE index \cup {[serial |-> page.serial, granule |-> page.granule, off |-> off]}

NextRead == file[Landing].page

\* read_page returns a page, after resync_to_next_page if need be.
ReadPage ==
  /\ CanRead
  /\ pos' = Landing + 1
  /\ damage' = IF Astray THEN Record(damage, "resync", NextRead) ELSE damage
  /\ seek_index' = IndexRecord(seek_index, NextRead, Landing)
  /\ UNCHANGED file

\* It returns none: the input is over, or no page follows the damage.
ReadNone ==
  /\ ~CanRead
  /\ pos' = Len(file) + 1
  /\ damage' = IF Cut THEN Record(damage, "truncated", file[Len(file)].page) ELSE damage
  /\ UNCHANGED <<file, seek_index>>

-----------------------------------------------------------------------------
(* Registering a bitstream.  r is [streams, state_by_serial, skeleton].    *)

IsFishead(page) == page.segs[1].src \in Fishead /\ page.segs[1].pkt = 1

NewStream(page, public_index, link) ==
  [public_index |-> public_index, headers_remaining |-> Need[page.segs[1].src],
   header_packets |-> <<>>, pending |-> <<>>, pending_valid |-> FALSE,
   link_index |-> link, last_seq |-> NoSeq, bos_processed |-> FALSE,
   next_frame |-> NoTime, theora |-> page.segs[1].src \in Theora]

RegisterStream(r, page, link) ==
  IF IsFishead(page)
  THEN IF r.skeleton.serial = page.serial
       THEN [r EXCEPT !.skeleton.last_seq = page.seq]
       ELSE IF r.skeleton.serial # NoSerial THEN r
       ELSE [r EXCEPT !.skeleton = [@ EXCEPT !.serial = page.serial, !.last_seq = page.seq]]
  ELSE IF r.skeleton.serial = page.serial THEN r
  ELSE [r EXCEPT
         !.streams = Append(@, [serial |-> page.serial, codec |-> page.segs[1].src,
                                extradata |-> <<SubSeq(Bytes(page.segs), 1, 1)>>]),
         !.state_by_serial = [serial \in DOMAIN @ \cup {page.serial} |->
            IF serial = page.serial THEN NewStream(page, Len(r.streams) + 1, link)
            ELSE @[serial]]]

Registry == [streams |-> streams, state_by_serial |-> state_by_serial, skeleton |-> skeleton]

Becomes(r) ==
  /\ streams' = r.streams /\ state_by_serial' = r.state_by_serial /\ skeleton' = r.skeleton

CodecPrivate(codec, packets) == IF codec \in Opus THEN SubSeq(packets, 1, 1) ELSE packets

WithExtradata(strs, s) ==   \* populate_extradata_for
  IF s.header_packets = <<>> THEN strs
  ELSE [strs EXCEPT ![s.public_index].extradata =
          CodecPrivate(strs[s.public_index].codec, s.header_packets)]

AllExtradata == [i \in DOMAIN streams |->
  WithExtradata(streams, state_by_serial[streams[i].serial])[i]]
-----------------------------------------------------------------------------
(* open().                                                                 *)

Init ==
  /\ file \in Files /\ pos = 1
  /\ phase = "bos" /\ pages_consumed = 0
  /\ hand = <<>> /\ at = "none"
  /\ page_queue = <<>> /\ out_queue = <<>> /\ eof_reached = FALSE
  /\ streams = <<>> /\ state_by_serial = <<>>
  /\ next_link_index = 0 /\ seen_nonbos = FALSE
  /\ skeleton = [serial |-> NoSerial, pending |-> <<>>, last_seq |-> NoSeq,
                 eos_seen |-> FALSE, packets |-> <<>>]
  /\ damage = [count |-> [kind \in Kinds |-> 0], total |-> 0, events |-> <<>>]
  /\ seek_index = {} /\ seek_index_built = FALSE
  /\ delivered = <<>>

\* The BOS section ends: at least one stream, or open returns an error.
StillBos == IF streams = <<>> THEN "failed" ELSE "bos"   \* mutant: the end missed
LeaveBos == IF streams = <<>> THEN "failed" ELSE "headers"

BosPage ==
  /\ phase = "bos"
  /\ ReadPage
  /\ page_queue' = Append(page_queue, NextRead)
  /\ IF NextRead.bos /\ NextRead.serial \notin DOMAIN state_by_serial
     THEN Becomes(RegisterStream(Registry, NextRead, next_link_index))
     ELSE UNCHANGED registry
  /\ phase' = IF NextRead.bos THEN "bos" ELSE LeaveBos
  /\ UNCHANGED <<pages_consumed, hand, at, out_queue, eof_reached, links,
                 seek_index_built, delivered>>

BosEof ==
  /\ phase = "bos"
  /\ ReadNone
  /\ eof_reached' = TRUE
  /\ phase' = LeaveBos
  /\ UNCHANGED <<pages_consumed, hand, at, page_queue, out_queue, registry, links,
                 seek_index_built, delivered>>

\* read_until_headers_collected asks for no more pages.
HeadersWanted ==
  \/ \E serial \in DOMAIN state_by_serial : state_by_serial[serial].headers_remaining > 0
  \/ skeleton.serial # NoSerial /\ ~skeleton.eos_seen
Collecting == phase = "headers" /\ HeadersWanted /\ pages_consumed < HeaderBudget
Draining   == phase = "next" /\ out_queue = <<>>

OpenDone ==
  /\ phase = "headers" /\ hand = <<>>
  /\ ~Collecting
  /\ phase' = "idle" /\ streams' = AllExtradata
  /\ UNCHANGED <<reader, pages_consumed, hand, at, page_queue, out_queue, eof_reached,
                 state_by_serial, skeleton, links, damage, seek_index_built, delivered>>

OpenEof ==
  /\ Collecting /\ hand = <<>> /\ page_queue = <<>>
  /\ ReadNone
  /\ phase' = "idle" /\ streams' = AllExtradata
  /\ UNCHANGED <<pages_consumed, hand, at, page_queue, out_queue, eof_reached,
                 state_by_serial, skeleton, links, seek_index_built, delivered>>

\* The next page for process_page, in open as in next_packet.
TakeQueued ==
  /\ Collecting \/ Draining
  /\ hand = <<>> /\ page_queue # <<>>
  /\ hand' = <<Head(page_queue)>> /\ page_queue' = Tail(page_queue)
  /\ at' = "bos"
  /\ pages_consumed' = IF Collecting THEN pages_consumed + 1 ELSE pages_consumed
  /\ UNCHANGED <<reader, phase, out_queue, eof_reached, registry, links, damage,
                 seek_index_built, delivered>>

TakeRead ==
  /\ Collecting \/ Draining
  /\ hand = <<>> /\ page_queue = <<>>
  /\ ReadPage
  /\ hand' = <<NextRead>>
  /\ at' = "bos"
  /\ pages_consumed' = IF Collecting THEN pages_consumed + 1 ELSE pages_consumed
  /\ UNCHANGED <<phase, page_queue, out_queue, eof_reached, registry, links,
                 seek_index_built, delivered>>

-----------------------------------------------------------------------------
(* next_packet().                                                          *)

NextPacket ==
  /\ phase = "idle"
  /\ phase' = "next"
  /\ UNCHANGED <<reader, pages_consumed, hand, at, page_queue, out_queue, eof_reached,
                 registry, links, damage, seek_index_built, delivered>>

Deliver ==
  /\ phase = "next" /\ hand = <<>> /\ out_queue # <<>>
  /\ delivered' = Append(delivered, Head(out_queue)) /\ out_queue' = Tail(out_queue)
  /\ phase' = "idle"
  /\ UNCHANGED <<reader, pages_consumed, hand, at, page_queue, eof_reached,
                 registry, links, damage, seek_index_built>>

EndOfFile ==
  /\ Draining /\ hand = <<>> /\ page_queue = <<>>
  /\ ReadNone
  /\ eof_reached' = TRUE
  /\ phase' = "idle"
  /\ UNCHANGED <<pages_consumed, hand, at, page_queue, out_queue, registry, links,
                 seek_index_built, delivered>>

-----------------------------------------------------------------------------
(* process_page: the BOS handling.                                         *)

AtBos  == hand # <<>> /\ at = "bos"
InHand == hand[1]
Rest   == UNCHANGED <<phase, pages_consumed, page_queue, eof_reached, seek_index_built, delivered>>

\* A BOS page after the first page of data of a link opens the next one.
EveryBosOpens(seen) == TRUE   \* mutant
OpensLink(seen) == seen
LinkAfter == IF OpensLink(seen_nonbos) THEN next_link_index + 1 ELSE next_link_index

Processed(r, serial) ==
  IF serial \in DOMAIN r.state_by_serial
  THEN [r EXCEPT !.state_by_serial[serial].bos_processed = TRUE] ELSE r

Known(page)     == page.serial \in DOMAIN state_by_serial
Duplicate(page) == Known(page) /\ state_by_serial[page.serial].bos_processed

PlainPage ==
  /\ AtBos /\ ~InHand.bos
  /\ seen_nonbos' = TRUE
  /\ at' = "body"
  /\ Rest /\ UNCHANGED <<reader, hand, out_queue, registry, next_link_index, damage>>

NewBos ==
  /\ AtBos /\ InHand.bos /\ InHand.serial # skeleton.serial /\ ~Known(InHand)
  /\ next_link_index' = LinkAfter /\ seen_nonbos' = FALSE
  /\ Becomes(Processed(RegisterStream(Registry, InHand, LinkAfter), InHand.serial))
  /\ at' = "body"
  /\ Rest /\ UNCHANGED <<reader, hand, out_queue, damage>>

\* The page read_bos_section or build_seek_index has registered already.
RegisteredBos ==
  /\ AtBos /\ InHand.bos /\ InHand.serial # skeleton.serial
  /\ Known(InHand) /\ ~Duplicate(InHand)
  /\ state_by_serial' = [state_by_serial EXCEPT ![InHand.serial].bos_processed = TRUE]
  /\ at' = "body"
  /\ Rest /\ UNCHANGED <<reader, hand, out_queue, streams, skeleton, links, damage>>

CountDuplicate(d, page) == IF seek_index_built THEN d ELSE Record(d, "duplicate", page)

\* restart_serial_on_duplicate_bos: what becomes of the stream's state.
HeadersKept(s, page, link) ==   \* mutant: header_packets not cleared
  [s EXCEPT !.pending = <<>>, !.pending_valid = FALSE, !.last_seq = NoSeq,
            !.link_index = link, !.headers_remaining = Need[page.segs[1].src]]
HeadersDone(s, page, link) ==   \* mutant: header capture not armed again
  [s EXCEPT !.pending = <<>>, !.pending_valid = FALSE, !.last_seq = NoSeq,
            !.link_index = link, !.header_packets = <<>>]
Restarted(s, page, link) ==
  [s EXCEPT !.pending = <<>>, !.pending_valid = FALSE, !.last_seq = NoSeq,
            !.link_index = link, !.headers_remaining = Need[page.segs[1].src],
            !.header_packets = <<>>]

DuplicateBos ==
  /\ AtBos /\ InHand.bos /\ InHand.serial # skeleton.serial /\ Duplicate(InHand)
  /\ next_link_index' = LinkAfter /\ seen_nonbos' = FALSE
  /\ damage' = CountDuplicate(damage, InHand)
  /\ state_by_serial' = [state_by_serial EXCEPT
       ![InHand.serial] = Restarted(@, InHand, LinkAfter)]
  /\ at' = "body"
  /\ Rest /\ UNCHANGED <<reader, hand, out_queue, streams, skeleton>>

\* A BOS page on the serial of the Skeleton: its own, or another's.
SkeletonBos ==
  /\ AtBos /\ InHand.bos /\ InHand.serial = skeleton.serial
  /\ \/ /\ IsFishead(InHand)
        /\ IF Known(InHand) THEN UNCHANGED registry
           ELSE Becomes(RegisterStream(Registry, InHand, next_link_index))
        /\ UNCHANGED damage
     \/ /\ ~IsFishead(InHand)
        /\ damage' = CountDuplicate(damage, InHand)
        /\ UNCHANGED registry
  /\ at' = "body"
  /\ Rest /\ UNCHANGED <<reader, hand, out_queue, links>>

-----------------------------------------------------------------------------
(* process_page: the body.                                                 *)

AtBody == hand # <<>> /\ at = "body"
LetGo  == hand' = <<>> /\ at' = "none"

Successor(n) == (n + 1) % SeqSpace
Hole(page, last_seq) == ~page.bos /\ last_seq # NoSeq /\ page.seq # Successor(last_seq)
SkeletonHole(page, last_seq) == ~page.bos /\ last_seq # NoSeq /\ page.seq # Successor(last_seq)

SkipUnknown ==
  /\ AtBody /\ InHand.serial # skeleton.serial /\ ~Known(InHand)
  /\ LetGo
  /\ Rest /\ UNCHANGED <<reader, out_queue, registry, links, damage>>

\* A packet of the Skeleton is kept when it starts like a bone or an index:
\* pieces without a head have no magic.  Packet 0 is the empty one that ends
\* the Skeleton, packet 1 the fishead.
Recognised(packet) == packet[1].part = 1 /\ packet[1].pkt > 1 /\ packet[1].src \in Fishead

Absorb(acc, seg, resumed) ==
  LET piece == Bytes(<<seg>>)
      grown == IF resumed THEN acc.pending \o piece ELSE piece
  IN [pending |-> IF seg.term THEN <<>> ELSE grown,
      kept |-> IF seg.term /\ Recognised(grown) THEN Append(acc.kept, grown) ELSE acc.kept]
Absorbed(page, acc) ==
  LET after[i \in 0 .. Len(page.segs)] ==
        IF i = 0 THEN acc ELSE Absorb(after[i - 1], page.segs[i], i = 1 /\ page.cont)
  IN after[Len(page.segs)]

SkeletonHeld(pending, hole) == IF hole THEN <<>> ELSE pending

SkeletonPage ==
  /\ AtBody /\ InHand.serial = skeleton.serial
  /\ LET hole == SkeletonHole(InHand, skeleton.last_seq)
         held == SkeletonHeld(skeleton.pending, hole)
         r == Absorbed(InHand, [pending |-> held, kept |-> skeleton.packets])
     IN /\ damage' = IF hole THEN Record(damage, "hole", InHand) ELSE damage
        /\ skeleton' = [skeleton EXCEPT
             !.pending = r.pending, !.last_seq = InHand.seq, !.packets = r.kept,
             !.eos_seen = @ \/ InHand.eos]
  /\ LetGo
  /\ Rest /\ UNCHANGED <<reader, out_queue, streams, state_by_serial, links>>

\* What is left of the packet begun before a hole.
KeptAcross(s, hole) == s   \* mutant
HeldOver(s, hole) == IF hole THEN [s EXCEPT !.pending = <<>>, !.pending_valid = FALSE] ELSE s

\* The flag of the page and the packet in hand contradict each other.
FramingError(page, s) == ~page.bos /\ page.cont # (s.pending # <<>> /\ s.pending_valid)

OrphanValid(acc, seg, resumed) ==   \* mutant: a tail without its head is a packet
  LET grown == IF ~resumed THEN Bytes(<<seg>>) ELSE IF acc.valid THEN acc.pending \o Bytes(<<seg>>) ELSE <<>>
  IN IF seg.term
     THEN [acc EXCEPT !.pending = <<>>, !.valid = FALSE, !.done = Append(@, grown)]
     ELSE [acc EXCEPT !.pending = grown, !.valid = TRUE]
Resumed(acc, seg, resumed) ==
  LET piece == Bytes(<<seg>>)
      valid == resumed => acc.valid
      grown == IF ~resumed THEN piece ELSE IF acc.valid THEN acc.pending \o piece ELSE <<>>
  IN IF seg.term
     THEN [acc EXCEPT !.pending = <<>>, !.valid = FALSE,
                      !.done = IF valid THEN Append(@, grown) ELSE @]
     ELSE [acc EXCEPT !.pending = grown, !.valid = valid]

Reassembled(page, s) ==
  LET after[i \in 0 .. Len(page.segs)] ==
        IF i = 0 THEN [pending |-> s.pending, valid |-> s.pending_valid, done |-> <<>>]
        ELSE Resumed(after[i - 1], page.segs[i], i = 1 /\ page.cont)
  IN after[Len(page.segs)]

\* TheoraGranule.
FrameIndex(g) ==
  LET frame == (g \div Span) + (g % Span) - CountBias
  IN IF g < 0 \/ frame < 0 THEN NoTime ELSE frame
FrameOfPage(g) == FrameIndex(g)   \* mutant: the frame, not its key frame
KeyframeIndex(g) ==
  LET frame == (g \div Span) - CountBias
  IN IF g < 0 \/ frame < 0 THEN NoTime ELSE frame
IsKeyframe(g) == g >= 0 /\ g % Span = 0

\* Frame of the first of n data packets completed on a page.
LastFrame(s, g, n) == IF FrameIndex(g) # NoTime THEN FrameIndex(g) ELSE s.next_frame   \* mutant
CountedOn(s, g, n) ==   \* mutant: the counter before the granule
  IF s.next_frame # NoTime THEN s.next_frame ELSE FrameIndex(g) - (n - 1)
FirstFrame(s, g, n) == IF FrameIndex(g) # NoTime THEN FrameIndex(g) - (n - 1) ELSE s.next_frame

\* Packets a stream takes as headers, and the packets it puts out.
PageTake(s, done) == IF s.headers_remaining > 0 THEN Len(done) ELSE 0   \* mutant
HeaderTake(s, done) == Min({s.headers_remaining, Len(done)})

OutPacket(s, page, packet, time, last) ==
  [stream |-> s.public_index, packet |-> packet, pts |-> time, last |-> last,
   keyframe |-> IF ~s.theora THEN TRUE
                ELSE IF time # NoTime THEN time = KeyframeIndex(page.granule)
                ELSE last /\ IsKeyframe(page.granule)]

Output(s, page, data) ==
  LET n == Len(data)
      first == FirstFrame(s, page.granule, n)
      Time(i) == IF ~s.theora
                 THEN IF i = n /\ page.granule >= 0 THEN page.granule ELSE NoTime
                 ELSE IF first = NoTime THEN NoTime ELSE first + i - 1
  IN [i \in 1 .. n |-> OutPacket(s, page, data[i], Time(i), i = n)]

NextFrame(s, page, n) ==
  IF s.theora /\ n > 0
  THEN LET first == FirstFrame(s, page.granule, n)
       IN IF first = NoTime THEN NoTime ELSE first + n
  ELSE s.next_frame

ContentDamage(s, hole) ==
  IF hole THEN Record(damage, "hole", InHand)
  ELSE IF FramingError(InHand, s) THEN Record(damage, "framing", InHand)
  ELSE damage

ContentPage ==
  /\ AtBody /\ InHand.serial # skeleton.serial /\ Known(InHand)
  /\ LET s    == state_by_serial[InHand.serial]
         hole == Hole(InHand, s.last_seq)
         r    == Reassembled(InHand, HeldOver(s, hole))
         take == HeaderTake(s, r.done)
         data == SubSeq(r.done, take + 1, Len(r.done))
         next == [s EXCEPT !.pending = r.pending, !.pending_valid = r.valid,
                           !.headers_remaining = @ - take,
                           !.header_packets = @ \o SubSeq(r.done, 1, take),
                           !.next_frame = NextFrame(s, InHand, Len(data)),
                           !.last_seq = InHand.seq]
     IN /\ damage' = ContentDamage(s, hole)
        /\ state_by_serial' = [state_by_serial EXCEPT ![InHand.serial] = next]
        /\ out_queue' = out_queue \o Output(s, InHand, data)
        /\ streams' = IF take > 0 /\ take = s.headers_remaining
                      THEN WithExtradata(streams, next) ELSE streams
  /\ LetGo
  /\ Rest /\ UNCHANGED <<reader, skeleton, links>>

-----------------------------------------------------------------------------
(* build_seek_index: the page headers of the whole file, checksums unread. *)

ScanPage(acc, k) ==
  LET page == file[k].page
      indexed == [acc EXCEPT !.index = IndexRecord(@, page, k)]
      linked == IF acc.seen THEN [indexed EXCEPT !.link = @ + 1, !.seen = FALSE] ELSE indexed
  IN IF file[k].state = "lost" THEN acc
     ELSE IF ~page.bos THEN [indexed EXCEPT !.seen = TRUE]
     ELSE IF page.serial # acc.registry.skeleton.serial /\ page.serial \in acc.met
     THEN [linked EXCEPT !.duplicates = @ + 1]
     ELSE LET met == IF page.serial = acc.registry.skeleton.serial THEN acc.met
                     ELSE acc.met \cup {page.serial}
          IN IF page.serial \in DOMAIN acc.registry.state_by_serial
             THEN [indexed EXCEPT !.met = met]
             ELSE IF file[k].state = "cut" THEN [indexed EXCEPT !.met = met]
             ELSE [linked EXCEPT !.met = met,
                     !.registry = RegisterStream(@, page, linked.link)]

Scan ==
  LET after[k \in 0 .. Len(file)] ==
        IF k = 0 THEN [index |-> seek_index, link |-> next_link_index, seen |-> seen_nonbos,
                       duplicates |-> 0, met |-> {}, registry |-> Registry]
        ELSE ScanPage(after[k - 1], k)
  IN after[Len(file)]

BuildSeekIndex ==
  /\ phase = "idle" /\ ~seek_index_built /\ MayScan(file)
  /\ LET r == Scan
     IN /\ seek_index' = r.index
        /\ next_link_index' = r.link /\ seen_nonbos' = r.seen
        /\ damage' = [damage EXCEPT !.count["duplicate"] = r.duplicates]
        /\ Becomes(r.registry)
  /\ seek_index_built' = TRUE
  /\ UNCHANGED <<file, pos, phase, pages_consumed, hand, at, page_queue, out_queue,
                 eof_reached, delivered>>

Open      == BosPage \/ BosEof \/ OpenDone \/ OpenEof
TakePage  == TakeQueued \/ TakeRead
BosStep   == PlainPage \/ NewBos \/ RegisteredBos \/ DuplicateBos \/ SkeletonBos
BodyStep  == SkipUnknown \/ SkeletonPage \/ ContentPage
Answer    == Deliver \/ EndOfFile
Work      == Open \/ TakePage \/ BosStep \/ BodyStep \/ Answer
Caller    == NextPacket \/ BuildSeekIndex
\* open returned an error: there is no demuxer to call.
Refused   == phase = "failed" /\ UNCHANGED vars

Next == Work \/ Caller \/ Refused
Spec == Init /\ [][Next]_vars

\* Once called, the code runs to the end of the call.
LiveSpec == Spec /\ WF_vars(Work)
-----------------------------------------------------------------------------
(* What is true of the file, whatever the code makes of it.                *)

IsPacket(packet, src, n) ==
  /\ packet # <<>> /\ Len(packet) = packet[1].of
  /\ \A i \in DOMAIN packet :
       packet[i].src = src /\ packet[i].pkt = n /\ packet[i].part = i
Src(packet)  == packet[1].src
Pkt(packet)  == packet[1].pkt

Alive(f, k)  == f[k].state \in {"ok", "junk"}
Survives(k)  == Alive(file, k)
PagesOf(src) == {k \in DOMAIN file : file[k].page.src = src}
Carries(k, n) == \E i \in DOMAIN file[k].page.segs : file[k].page.segs[i].pkt = n
Packets(src) == UNION {{file[k].page.segs[i].pkt : i \in DOMAIN file[k].page.segs} : k \in PagesOf(src)}
Intact(src, n) == \A k \in PagesOf(src) : Carries(k, n) => Survives(k)

InFile  == {src \in Sources : PagesOf(src) # {}}
Begins(src) == CHOOSE k \in PagesOf(src) : file[k].page.bos
Begun(src)  == Survives(Begins(src))
\* The flags and lacing values of every page say what the packets do.
Honest(f) == \A k \in DOMAIN f :
  LET page == f[k].page
  IN /\ page.cont <=> page.segs[1].part > 1
     /\ \A i \in DOMAIN page.segs : page.segs[i].term <=> page.segs[i].part = page.segs[i].of
Truthful == Honest(file)
\* The packets of a bitstream were laid out in order, one after the other, each
\* in its parts, by segments and pages; a serial has one Skeleton at most.
SamePart(a, b) == a.src = b.src /\ (a.src \in Fishead => a.pkt # 0 /\ b.pkt # 0)
Laid(f) ==
  /\ \A k \in DOMAIN f : \A i \in DOMAIN f[k].page.segs :
       f[k].page.segs[i].part >= 1 /\ (i > 1 => f[k].page.segs[i].part = 1)
  /\ \A k, l \in DOMAIN f : \A i \in DOMAIN f[k].page.segs, j \in DOMAIN f[l].page.segs :
       LET a == f[k].page.segs[i]
           b == f[l].page.segs[j]
       IN /\ (k < l \/ (k = l /\ i < j)) /\ SamePart(a, b) =>
               a.pkt < b.pkt \/ (a.pkt = b.pkt /\ a.part < b.part /\ a.of = b.of)
          /\ f[k].page.serial = f[l].page.serial /\ a.src \in Fishead /\ b.src \in Fishead =>
               a.src = b.src
\* A page that goes on with a packet goes on with the one of the page before it:
\* where the last page of a serial to survive, l, has the number before that of
\* page k, and pages since j had nothing in them, k goes on where j stopped.
AliveOf(f, serial, first, last) == {m \in first .. last : Alive(f, m) /\ f[m].page.serial = serial}
LastSegment(page) == page.segs[Len(page.segs)]
NumberedAfter(f, k, m) == f[k].page.seq = (f[m].page.seq + 1) % SeqSpace
GoesOn(f, j, l, k) ==
  LET serial == f[k].page.serial
  IN /\ j <= l /\ l < k /\ \A m \in {j, l, k} : Alive(f, m) /\ f[m].page.serial = serial
     /\ \A m \in AliveOf(f, serial, j + 1, k - 1) : m <= l /\ f[m].page.segs = <<>>
     /\ f[j].page.segs # <<>> /\ ~LastSegment(f[j].page).term
     /\ f[k].page.segs # <<>> /\ f[k].page.cont
     /\ \/ f[k].page.bos \/ NumberedAfter(f, k, l)
        \/ \E m \in DOMAIN f : /\ f[m].page.bos /\ IsFishead(f[m].page) /\ f[m].page.serial = serial
                               /\ NumberedAfter(f, k, m)
Seamless(f) == \A j, l, k \in DOMAIN f :
  GoesOn(f, j, l, k) =>
    Bytes(<<f[k].page.segs[1]>>) = Bytes(<<[LastSegment(f[j].page) EXCEPT !.part = @ + 1]>>)
Faithful == \A f \in Files : Laid(f) /\ Seamless(f)
\* A bitstream keeps its serial and begins with its BOS page, and its packets,
\* but for a Skeleton's, count from 1; a serial is claimed again only where the
\* bitstream that had it is over, and never in a file that may be scanned.
Orderly(f) ==
  /\ \A k \in DOMAIN f : \A i \in DOMAIN f[k].page.segs :
       /\ f[k].page.segs[i].src = f[k].page.src
       /\ f[k].page.src \notin Fishead => f[k].page.segs[i].pkt >= 1
  /\ \A k \in DOMAIN f : \E b \in DOMAIN f : f[b].page.bos /\ f[b].page.src = f[k].page.src
  /\ \A b, k \in DOMAIN f : f[b].page.src = f[k].page.src =>
       f[b].page.serial = f[k].page.serial /\ (f[b].page.bos => b <= k)
  /\ \A j, k, l \in DOMAIN f :
       j < k /\ k < l /\ f[j].page.src = f[l].page.src /\ f[k].page.serial = f[j].page.serial =>
         f[k].page.src = f[j].page.src
  /\ MayScan(f) =>
       \A k, l \in DOMAIN f : f[k].page.serial = f[l].page.serial => f[k].page.src = f[l].page.src
\* A bitstream whose BOS and headers are there.
Whole(src)  == Truthful /\ Begun(src) /\ \A n \in 1 .. Need[src] : Intact(src, n)
Content     == InFile \ Fishead
SerialOf(src) == file[Begins(src)].page.serial
\* What comes after a Skeleton to take its place: another one, or its serial.
Intruding(src) == \E other \in (InFile \cap Fishead) \ {src} :
  Begins(other) < Begins(src) /\ (src \in Fishead \/ SerialOf(src) = SerialOf(other))

\* The file is read to its end.
AtEnd == phase = "idle" /\ eof_reached /\ page_queue = <<>> /\ out_queue = <<>>

DeliveredOf(src) == SelectSeq(delivered, LAMBDA d : Src(d.packet) = src)
Numbers(ds) == [i \in DOMAIN ds |-> Pkt(ds[i].packet)]

-----------------------------------------------------------------------------
(* Properties.                                                             *)

StreamState == [public_index: Nat, headers_remaining: Nat, header_packets: Seq(Seq(Piece)),
                pending: Seq(Piece), pending_valid: BOOLEAN, link_index: Nat,
                last_seq: Nat \cup {NoSeq}, bos_processed: BOOLEAN,
                next_frame: Int, theora: BOOLEAN]
Delivery == [stream: Nat, packet: Seq(Piece), pts: Int, last: BOOLEAN, keyframe: BOOLEAN]

\* Every variable has its type; a stream's packet in hand is valid exactly
\* when there is one, and its public stream exists.
TypeOK ==
  /\ file \in Seq(Item) /\ pos \in 1 .. Len(file) + 1
  /\ phase \in {"bos", "headers", "idle", "next", "failed"} /\ pages_consumed \in Nat
  /\ hand \in {<<>>} \cup {<<file[k].page>> : k \in DOMAIN file}
  /\ at \in {"none", "bos", "body"} /\ (at = "none" <=> hand = <<>>)
  /\ page_queue \in Seq(Page)
  /\ out_queue \in Seq(Delivery) /\ delivered \in Seq(Delivery)
  /\ eof_reached \in BOOLEAN /\ seen_nonbos \in BOOLEAN /\ seek_index_built \in BOOLEAN
  /\ next_link_index \in Nat
  /\ \A i \in DOMAIN streams : /\ streams[i].serial \in Nat /\ streams[i].codec \in Sources
                               /\ streams[i].extradata \in Seq(Seq(Piece))
  /\ \A serial \in DOMAIN state_by_serial :
       LET s == state_by_serial[serial]
       IN /\ s \in StreamState /\ s.pending_valid = (s.pending # <<>>)
          /\ s.public_index \in DOMAIN streams /\ streams[s.public_index].serial = serial
  /\ skeleton.packets \in Seq(Seq(Piece)) /\ skeleton.pending \in Seq(Piece)
  /\ damage.count \in [Kinds -> Nat] /\ damage.total \in Nat
  /\ \A e \in seek_index : file[e.off].page.serial = e.serial /\ file[e.off].page.granule = e.granule

\* Whatever pages are lost or damaged, what is delivered is whole packets of
\* the file, those of a bitstream in order and each at most once, and so is what
\* is kept of the Skeleton: nothing is put together across a gap.  Where flags
\* and lacing values lie, each is still one stretch of one packet.
OneStretch(packet) == \A j \in 2 .. Len(packet) : packet[j] = [packet[j - 1] EXCEPT !.part = @ + 1]
Genuine ==
  LET packet(i) == delivered[i].packet
      kept(i)   == skeleton.packets[i]
  IN /\ \A i \in DOMAIN delivered : OneStretch(packet(i))
     /\ Truthful =>
          /\ \A i \in DOMAIN delivered : IsPacket(packet(i), Src(packet(i)), Pkt(packet(i)))
          /\ \A i, j \in DOMAIN delivered :
               i < j /\ Src(packet(i)) = Src(packet(j)) /\ Src(packet(i)) \in Content =>
                 Pkt(packet(i)) < Pkt(packet(j))
          /\ \A i \in DOMAIN skeleton.packets :
               IsPacket(kept(i), Src(kept(i)), Pkt(kept(i))) /\ Src(kept(i)) \in Fishead
          /\ \A i, j \in DOMAIN skeleton.packets : i < j => Pkt(kept(i)) < Pkt(kept(j))

\* A header is never delivered as data, of any bitstream whose first page is
\* there: not after a restart of its serial, nor when headers are missing.
HeadersKeptBack ==
  \A i \in DOMAIN delivered :
    LET packet == delivered[i].packet
    IN Truthful /\ Begun(Src(packet)) => Pkt(packet) \notin 1 .. Need[Src(packet)]

\* Damage costs only the packets it touches: at the end of the file each other
\* data packet of a bitstream with its headers has been delivered, unless it
\* came on the serial of the Skeleton.
NothingElseLost ==
  AtEnd =>
    \A src \in Content :
      Whole(src) /\ ~Intruding(src) => \A n \in Packets(src) :
        n > Need[src] /\ Intact(src, n) => \E i \in DOMAIN DeliveredOf(src) :
          Pkt(DeliveredOf(src)[i].packet) = n

\* The reports are exact: at the end a hole for each gap in a bitstream's pages,
\* a framing error for each page that goes on with a packet given up at an
\* earlier hole, one resync for each stretch of bytes skipped, one duplicate for
\* each serial claimed again.  The ledger keeps the first events, counts all.
Before(k) == {j \in 1 .. k - 1 : file[j].state # "lost"}
GapBefore(k) ==
  LET earlier == {j \in PagesOf(file[k].page.src) : j < k}
  IN earlier # {} /\ ~Survives(Max(earlier))
AfterBad(k) == Before(k) # {} /\ file[Max(Before(k))].state = "bad"
GoesOnLost(k) ==
  /\ file[k].page.cont
  /\ \E j \in PagesOf(file[k].page.src) :
       j < k /\ ~Survives(j) /\ Carries(j, file[k].page.segs[1].pkt)
Reclaims(src) == \E other \in Content \ {src} :
  /\ SerialOf(other) = SerialOf(src) /\ Begun(other) /\ Begins(other) < Begins(src)
Expected == [kind \in Kinds |->
  CASE kind = "hole" -> Cardinality({k \in DOMAIN file : Survives(k) /\ GapBefore(k)})
    [] kind = "framing" -> Cardinality({k \in DOMAIN file :
         Survives(k) /\ file[k].page.src \in Content /\ ~GapBefore(k) /\ GoesOnLost(k)})
    [] kind = "resync" -> Cardinality({k \in DOMAIN file :
         file[k].state = "junk" \/ (file[k].state = "ok" /\ AfterBad(k))})
    [] kind = "duplicate" -> Cardinality({src \in Content : Begun(src) /\ Reclaims(src)})
    [] kind = "truncated" -> Cardinality({k \in DOMAIN file : file[k].state = "cut" /\ ~AfterBad(k)})]

\* A timestamp is the truth about its packet, though it comes from a page's
\* granule and is counted back over the packets that survived, and a packet is
\* flagged as a key frame only when it is one.  The last packet of a page, and
\* every Theora packet, has its timestamp, and the last its flag.
Timed ==
  \A i \in DOMAIN delivered :
    LET d == delivered[i]
        src == Src(d.packet)
        key == <<src, Pkt(d.packet)>> \in Keyframes
    IN Whole(src) => /\ d.pts # NoTime => d.pts = Ends[src][Pkt(d.packet)]
                     /\ (d.last \/ src \in Theora) => d.pts # NoTime
                     /\ src \in Theora => (d.keyframe => key) /\ (d.last /\ key => d.keyframe)

\* Who takes the next packet finds the stream it names ready for it: extradata
\* of the bitstream the packet comes from, and not of the one that had the
\* serial before or has it next.
Headers(src) == [n \in 1 .. (IF src \in Opus THEN 1 ELSE Need[src]) |-> n]
DecoderReady ==
  phase = "next" /\ hand = <<>> /\ out_queue # <<>> =>
    LET d == Head(out_queue)
        src == Src(d.packet)
        extradata == streams[d.stream].extradata
    IN Whole(src) => /\ [n \in DOMAIN extradata |-> Pkt(extradata[n])] = Headers(src)
                     /\ \A n \in DOMAIN extradata : Src(extradata[n]) = src

\* The links are counted as the file has them, and each packet is filed under
\* its own, whether reading or the scan met the link first.
LinksTold ==
  (\A src \in InFile : Begun(src)) =>
    /\ phase = "next" /\ hand = <<>> /\ out_queue # <<>> =>
         LET d == Head(out_queue)
         IN state_by_serial[streams[d.stream].serial].link_index = Link[Src(d.packet)]
    /\ AtEnd => next_link_index = Max({Link[src] : src \in InFile})

\* A call of next_packet, and open, comes back whatever the file holds.
CallsReturn == phase \in {"bos", "headers", "next"} ~> phase \in {"idle", "failed"}
=============================================================================
