-------------------------------- MODULE OggMux --------------------------------
(***************************************************************************)
(* The muxer of src/src/mux.rs: one page builder and one release queue per *)
(* logical bitstream, the interleave of the queues on the wire, the header *)
(* section, chain links, the Skeleton control section and the keyframe     *)
(* indexes it backfills.                                                   *)
(*                                                                         *)
(* A call of the API goes through stages, its loops and helpers one after  *)
(* the other; a loop takes the streams of the link in turn.  A turn that   *)
(* writes a packet or flushes a page goes through the steps of             *)
(* write_packet, one turn of a loop or one helper call each.               *)
(*                                                                         *)
(* A packet is its number of laces, all full but the last; a page keeps    *)
(* which lace of which packet it carries.  A wire offset is a page number. *)
(***************************************************************************)
EXTENDS Integers, Sequences, FiniteSets, SequencesExt

CONSTANTS
  Links,         \* the &[StreamInfo] of each link, a sequence of sequences
  Index,         \* StreamInfo::index of a stream, from which its serial derives
  Need,          \* header_packet_count of its codec
  Headers,       \* header packets extract_codec_headers finds in its extradata
  Theora,        \* the streams with a Theora granule packer
  Scale,         \* ticks of its time base in units of time
  MaxSegs,       \* laces of a full page (255)
  Span,          \* 2^KFGSHIFT
  SerialSpace,   \* number of serials (2^32)
  Packets,       \* bound: the packets a caller writes to a stream
  Targets,       \* bound: page targets a caller sets
  Skeleton,      \* a Skeleton is attached, with keyframe indexes
  SkelSerial,    \* its serial, when the caller chose one
  MaxKeypoints, ByteGap, TimeGap,   \* AutoIndexConfig
  MaxPackets,    \* bound: packets a caller writes
  AnyOrder       \* the caller calls in any order, not header, packets, trailer

NoPts == -1   \* Packet.pts = None, and the granule of a page with none
NoTarget == -1
NoSerial == -1

Streams == UNION {ToSet(Links[k]) : k \in DOMAIN Links}
LinkOf(s) == CHOOSE k \in DOMAIN Links : s \in ToSet(Links[k])

Serials   == 0 .. SerialSpace - 1
Packet    == [laces : Nat \ {0}, pts : Nat \cup {NoPts}, keyframe : BOOLEAN, boundary : BOOLEAN]

\* Streams have indexes of their own, codecs the muxer maps have header packets
\* (check_streams_mappable), and there are more serials than streams.
ASSUME MuxAssumption ==
  /\ Links \in Seq(Seq(Streams)) /\ Links # <<>> /\ IsFiniteSet(Streams)
  /\ \A k \in DOMAIN Links : Links[k] # <<>>
  /\ \A k \in DOMAIN Links : \A i, j \in DOMAIN Links[k] : Links[k][i] = Links[k][j] => i = j
  /\ \A k, m \in DOMAIN Links : k # m => ToSet(Links[k]) \cap ToSet(Links[m]) = {}
  /\ "skeleton" \notin Streams
  /\ \A s \in Streams :
       /\ Index[s] \in Nat /\ Headers[s] \in Nat /\ Scale[s] \in Nat
       /\ Need[s] \in Nat \ {0}
       /\ \A p \in Packets[s] : p \in Packet
  /\ MaxSegs \in Nat \ {0} /\ Span \in Nat \ {0}
  /\ SerialSpace \in Nat /\ Cardinality(Streams) < SerialSpace
  /\ SkelSerial \in Serials \cup {NoSerial}
  /\ Targets \subseteq Nat
  /\ {MaxKeypoints, ByteGap, TimeGap, MaxPackets} \subseteq Nat
  /\ Skeleton \in BOOLEAN /\ AnyOrder \in BOOLEAN
  /\ Skeleton => Len(Links) = 1

VARIABLES
  stage,                                 \* where a call of the API is
  turn,                                  \* the stream whose turn it is, in stream_order
  extra,                                 \* header packets handed on in its turn
  step, writing,                         \* where write_packet is, and its packet
  link, header_written, trailer_written, content_started, page_target, used_serials,
  serial, seq_no, buffered, headers_remaining, bos_emitted, queue, newest_time,
  last_granule, next_frame, last_kf,     \* StreamWriter, per stream
  keypoints, sample_times, measured,         \* Skeleton: collected,
  fishead, published,                        \* and on the wire
  sk_seq, skel_serial,
  sent,                                  \* history: packets handed to write_packet
  refused,                               \* history: those it returned an error for
  wire

calls    == <<link, header_written, trailer_written, content_started, page_target, used_serials>>
writers  == <<serial, seq_no, buffered, headers_remaining, bos_emitted, queue, newest_time,
              last_granule, next_frame, last_kf>>
skeleton == <<keypoints, sample_times, measured, fishead, published, sk_seq, skel_serial>>
control  == <<stage, turn, extra, step, writing>>
vars     == <<control, calls, writers, skeleton, sent, refused, wire>>

Order   == Links[link]              \* stream_order
Current == ToSet(Order)
Idle    == stage = "idle" /\ step = "none"

HeaderPacket == [laces |-> 1, pts |-> NoPts, keyframe |-> FALSE, boundary |-> FALSE]

NoPacket == [s |-> Links[1][1], p |-> HeaderPacket, from |-> 1]

EmptyBuilder == [segs |-> <<>>, cont |-> FALSE, granule |-> NoPts, kf |-> NoPts]

-----------------------------------------------------------------------------
(* Stages.                                                                 *)

\* A definition marked mutant is a plausible slip in the operator below it: the
\* properties are checked to fail when it takes that operator's place.

UndrainedHeaders == IF Skeleton THEN "bone" ELSE "idle"      \* mutant: no drain
AfterHeaders     == "drain_headers"
UndrainedClose(st) == IF st = "close" THEN "backfill" ELSE "link"           \* mutant
AfterClose(st)     == IF st = "close" THEN "drain" ELSE "drain_link"

\* What a stage is followed by.  header_emission_order sorts the streams, Theora
\* first: two passes over them.
After(st) ==
  CASE st = "arm"            -> IF link > 1 THEN "theora_bos"
                                ELSE IF Skeleton THEN "arm_skeleton" ELSE "idle"
    [] st = "fishead"        -> "theora_bos"
    [] st = "theora_bos"     -> "other_bos"
    [] st = "other_bos"      -> "theora_headers"
    [] st = "theora_headers" -> "other_headers"
    [] st = "other_headers"  -> AfterHeaders
    [] st = "drain_headers"  -> IF Skeleton THEN "bone" ELSE "idle"
    [] st = "bone"           -> "index"
    [] st = "index"          -> "skeleton_eos"
    [] st \in {"close_link", "close"} -> AfterClose(st)
    [] st = "drain_link"     -> "link"
    [] st = "link"           -> "arm"
    [] st = "drain"          -> "backfill"
    [] OTHER                 -> "idle"    \* arm_skeleton, skeleton_eos, backfill

Turn == Order[turn]
Inside(st) == step = "none" /\ stage = st
NextStage == stage' = After(stage) /\ UNCHANGED turn
NextTurn ==
  \/ turn < Len(Order) /\ turn' = turn + 1 /\ UNCHANGED stage
  \/ turn = Len(Order) /\ turn' = 1 /\ stage' = After(stage)

Doing(op) == step = op
GoTo(op) == step' = op /\ UNCHANGED <<stage, turn, extra>>
Call(op, s, p, from) == step' = op /\ writing' = [s |-> s, p |-> p, from |-> from]
LacesLeft == writing.p.laces - writing.from

-----------------------------------------------------------------------------
(* The API.                                                                *)

Init ==
  /\ stage = "arm" /\ turn = 1 /\ extra = 0
  /\ step = "none" /\ writing = NoPacket
  /\ link = 1 /\ header_written = FALSE /\ trailer_written = FALSE
  /\ content_started = FALSE /\ page_target = NoTarget /\ used_serials = {}
  /\ serial = [s \in Streams |-> NoSerial]
  /\ seq_no = [s \in Streams |-> 0]
  /\ buffered = [s \in Streams |-> EmptyBuilder]
  /\ headers_remaining = [s \in Streams |-> Need[s]]
  /\ bos_emitted = [s \in Streams |-> FALSE]
  /\ queue = [s \in Streams |-> <<>>]
  /\ newest_time = [s \in Streams |-> 0] /\ last_granule = [s \in Streams |-> 0]
  /\ next_frame = [s \in Streams |-> 0] /\ last_kf = [s \in Streams |-> 0]
  /\ keypoints = [s \in Streams |-> <<>>] /\ sample_times = [s \in Streams |-> <<>>]
  /\ published = [s \in Streams |-> [keypoints |-> <<>>, times |-> <<>>]]
  /\ measured = 0 /\ fishead = [length |-> 0, content |-> 0] /\ sk_seq = 0
  /\ skel_serial = NoSerial
  /\ sent = [s \in Streams |-> <<>>] /\ refused = {}
  /\ wire = <<>>

WriteHeader ==
  /\ Idle /\ ~header_written
  /\ trailer_written => AnyOrder
  /\ header_written' = TRUE
  /\ stage' = IF Skeleton THEN "fishead" ELSE "theora_bos"
  /\ UNCHANGED <<turn, extra, step, writing, link, trailer_written, content_started,
                 page_target, used_serials, writers, skeleton, sent, refused, wire>>

ByCaller(s) == IF Len(sent[s]) > Headers[s] THEN Len(sent[s]) - Headers[s] ELSE 0
Written == FoldFunction(+, 0, [s \in Streams |-> ByCaller(s)])

WritePacket(s, p) ==
  /\ Idle /\ header_written /\ s \in Current
  /\ Written < MaxPackets
  /\ trailer_written => AnyOrder
  /\ Call("packet", s, p, 0)
  /\ UNCHANGED <<stage, turn, extra, calls, writers, skeleton, sent, refused, wire>>

\* set_page_target_bytes, on the concrete muxer only.
SetPageTarget(t) ==
  /\ Idle /\ ~Skeleton /\ (trailer_written => AnyOrder) /\ t # page_target
  /\ page_target' = t
  /\ UNCHANGED <<control, link, header_written, trailer_written, content_started, used_serials,
                 writers, skeleton, sent, refused, wire>>

BeginNewLink ==
  /\ Idle /\ header_written /\ ~trailer_written /\ ~Skeleton /\ content_started
  /\ link < Len(Links)
  /\ stage' = "close_link"
  /\ UNCHANGED <<turn, extra, step, writing, calls, writers, skeleton, sent, refused, wire>>

WriteTrailer ==
  /\ Idle /\ ~trailer_written
  /\ header_written \/ AnyOrder
  /\ stage' = "close"
  /\ UNCHANGED <<turn, extra, step, writing, calls, writers, skeleton, sent, refused, wire>>

\* Nothing is left to do once the trailer is written.
Terminated == Idle /\ trailer_written /\ UNCHANGED vars

-----------------------------------------------------------------------------
(* Opening a link: serials.                                                *)

DerivedSerial(first) == first                    \* mutant: taken or not
UnwrappedSerial(first) ==                        \* mutant: no wrapping_add
  CHOOSE n \in first .. first + SerialSpace :
    n \notin used_serials /\ \A m \in first .. n - 1 : m \in used_serials
\* The next serial not taken, from a first candidate on, wrapping.
FreeSerial(first) ==
  LET At(d) == (first + d) % SerialSpace
  IN At(CHOOSE d \in 0 .. SerialSpace - 1 :
          /\ At(d) \notin used_serials
          /\ \A e \in 0 .. d - 1 : At(e) \in used_serials)

Arm ==
  /\ Inside("arm") /\ NextTurn
  /\ serial' = [serial EXCEPT ![Turn] = FreeSerial(Index[Turn])]
  /\ used_serials' = used_serials \cup {FreeSerial(Index[Turn])}
  /\ UNCHANGED <<extra, step, writing, link, header_written, trailer_written, content_started,
                 page_target, seq_no, buffered, headers_remaining, bos_emitted, queue,
                 newest_time, last_granule, next_frame, last_kf, skeleton, sent, refused,
                 wire>>

MaxSerial == CHOOSE n \in used_serials : \A m \in used_serials : m <= n
SkeletonSerial ==   \* past the content serials, unless the caller chose one
  IF SkelSerial # NoSerial THEN SkelSerial ELSE FreeSerial(MaxSerial + 1)

ArmSkeleton ==
  /\ Inside("arm_skeleton") /\ NextStage
  /\ skel_serial' = SkeletonSerial
  /\ used_serials' = used_serials \cup {SkeletonSerial}
  /\ UNCHANGED <<extra, step, writing, link, header_written, trailer_written, content_started,
                 page_target, writers, keypoints, sample_times, measured, fishead, published,
                 sk_seq, sent, refused, wire>>

\* begin_new_link between the two links.
NextLink ==
  /\ Inside("link") /\ NextStage
  /\ link' = link + 1 /\ content_started' = FALSE
  /\ UNCHANGED <<extra, step, writing, header_written, trailer_written, page_target,
                 used_serials, writers, skeleton, sent, refused, wire>>

-----------------------------------------------------------------------------
(* Header section.                                                         *)

Page(s, flags, granule, segs, time) ==
  [stream |-> s, serial |-> serial[s], seq |-> seq_no[s], flags |-> flags,
   granule |-> granule, segs |-> segs, time |-> time, link |-> link]

Lace(pkt, n, laces) == [pkt |-> pkt, n |-> n, open |-> n < laces]

\* The turns of a loop in emission order.
InPass(first, second) ==
  \/ Inside(first) /\ Turn \in Theora
  \/ Inside(second) /\ Turn \notin Theora
BosTurn == /\ InPass("theora_bos", "other_bos")
           /\ Headers[Turn] > 0 /\ headers_remaining[Turn] > 0
HeaderTurn == /\ InPass("theora_headers", "other_headers")
              /\ extra + 1 < Headers[Turn]

\* The BOS page of a stream, written straight to the wire.
WriteBos ==
  /\ BosTurn /\ NextTurn
  /\ wire' = Append(wire, Page(Turn, {"bos"}, 0, <<Lace(1, 1, 1)>>, 0))
  /\ sent' = [sent EXCEPT ![Turn] = Append(@, HeaderPacket)]
  /\ seq_no' = [seq_no EXCEPT ![Turn] = @ + 1]
  /\ bos_emitted' = [bos_emitted EXCEPT ![Turn] = TRUE]
  /\ headers_remaining' = [headers_remaining EXCEPT ![Turn] = @ - 1]
  /\ UNCHANGED <<extra, step, writing, calls, serial, buffered, queue, newest_time,
                 last_granule, next_frame, last_kf, skeleton, refused>>

\* The other header packets of a stream, each by write_packet.
WriteSecondary ==
  /\ HeaderTurn
  /\ Call("packet", Turn, HeaderPacket, 0) /\ extra' = extra + 1
  /\ UNCHANGED <<stage, turn, calls, writers, skeleton, sent, refused, wire>>

PassTurn ==
  /\ \E op \in {"theora_bos", "other_bos", "theora_headers", "other_headers"} : Inside(op)
  /\ ~BosTurn /\ ~HeaderTurn
  /\ NextTurn /\ extra' = 0
  /\ UNCHANGED <<step, writing, calls, writers, skeleton, sent, refused, wire>>

SkeletonPage(flags) ==
  [stream |-> "skeleton", serial |-> skel_serial, seq |-> sk_seq, flags |-> flags,
   granule |-> 0, segs |-> <<>>, time |-> 0, link |-> link]

BeforeSkeletonEos == Len(wire) + 1               \* mutant: measured too early
\* The stream position after the Skeleton's EOS page.
ContentStart == Len(wire) + 2

WriteSkeletonPage ==
  /\ \/ /\ Inside("fishead") /\ NextStage
        /\ wire' = Append(wire, SkeletonPage({"bos"})) /\ UNCHANGED measured
     \/ /\ (Inside("bone") \/ Inside("index")) /\ NextTurn
        /\ wire' = Append(wire, SkeletonPage({})) /\ UNCHANGED measured
     \/ /\ Inside("skeleton_eos") /\ NextStage
        /\ wire' = Append(wire, SkeletonPage({"eos"})) /\ measured' = ContentStart
  /\ sk_seq' = sk_seq + 1
  /\ UNCHANGED <<extra, step, writing, calls, writers, keypoints, sample_times, fishead,
                 published, skel_serial, sent, refused>>

-----------------------------------------------------------------------------
(* write_packet.                                                           *)

BeginPacket ==
  /\ Doing("packet")
  /\ LET s == writing.s
         p == writing.p
         crowded == buffered[s].segs # <<>> /\ Len(buffered[s].segs) + p.laces > MaxSegs
     IN /\ sent' = [sent EXCEPT ![s] = Append(@, p)]
        /\ GoTo(IF crowded THEN "flush" ELSE "put")
  /\ UNCHANGED <<writing, calls, writers, skeleton, refused, wire>>

\* append_packet_spanning, or the plain append when the packet fits.
PutLaces ==
  /\ Doing("put")
  /\ LET s    == writing.s
         room == MaxSegs - Len(buffered[s].segs)
         take == IF room < LacesLeft THEN room ELSE LacesLeft
     IN /\ buffered' = [buffered EXCEPT ![s].segs =
             @ \o [i \in 1 .. take |-> Lace(Len(sent[s]), writing.from + i, writing.p.laces)]]
        /\ writing' = [writing EXCEPT !.from = @ + take]
        /\ GoTo(IF take < LacesLeft THEN "flush" ELSE "stamp")
  /\ UNCHANGED <<calls, serial, seq_no, headers_remaining, bos_emitted, queue, newest_time,
                 last_granule, next_frame, last_kf, skeleton, sent, refused, wire>>

\* A header packet gets granule 0 and a page of its own.
StampHeader ==
  /\ Doing("stamp") /\ GoTo("flush")
  /\ LET s == writing.s
     IN /\ headers_remaining[s] > 0
        /\ headers_remaining' = [headers_remaining EXCEPT ![s] = @ - 1]
        /\ buffered' = [buffered EXCEPT ![s].granule = 0]
  /\ UNCHANGED <<writing, calls, serial, seq_no, bos_emitted, queue, newest_time, last_granule,
                 next_frame, last_kf, skeleton, sent, refused, wire>>

PageFull(s, p) == p.boundary \/ (page_target # NoTarget /\ Len(buffered[s].segs) >= page_target)
FirstKeyframe(s, p, pts) ==
  IF p.keyframe /\ buffered[s].kf = NoPts THEN pts ELSE buffered[s].kf
\* note_pts: the first and the last timestamp of a stream.
NotePts(s, pts) ==
  IF ~Skeleton \/ pts = NoPts THEN sample_times
  ELSE [sample_times EXCEPT ![s] = IF @ = <<>> THEN <<pts, pts>> ELSE <<@[1], pts>>]

\* A content packet whose granule is its pts.
StampContent ==
  /\ Doing("stamp")
  /\ LET s == writing.s
         p == writing.p
     IN /\ headers_remaining[s] = 0 /\ s \notin Theora
        /\ buffered' = IF p.pts = NoPts THEN buffered
             ELSE [buffered EXCEPT ![s].granule = p.pts, ![s].kf = FirstKeyframe(s, p, p.pts)]
        /\ sample_times' = NotePts(s, p.pts)
        /\ GoTo(IF PageFull(s, p) THEN "flush" ELSE "none")
  /\ content_started' = TRUE
  /\ UNCHANGED <<writing, link, header_written, trailer_written, page_target, used_serials,
                 serial, seq_no, headers_remaining, bos_emitted, queue, newest_time,
                 last_granule, next_frame, last_kf, keypoints, measured, fishead, published,
                 sk_seq, skel_serial, sent, refused, wire>>

\* TheoraGranule with VREV >= 1: the keyframe's count above, the offset below.
Pack(frame, kf) == (kf + 1) * Span + (frame - kf)
FrameCount(granule) == (granule \div Span) + (granule % Span)

\* A Theora packet is one frame; pack may refuse it after it was appended.
StampTheora ==
  /\ Doing("stamp")
  /\ LET s == writing.s
         p == writing.p
         frame == IF p.pts = NoPts THEN next_frame[s] ELSE p.pts
         kf    == IF p.keyframe THEN frame ELSE last_kf[s]
         packs == kf <= frame /\ frame - kf < Span
     IN /\ headers_remaining[s] = 0 /\ s \in Theora
        /\ last_kf' = [last_kf EXCEPT ![s] = kf]
        /\ \/ /\ packs
              /\ next_frame' = [next_frame EXCEPT ![s] = frame + 1]
              /\ buffered' = [buffered EXCEPT ![s].granule = Pack(frame, kf),
                                              ![s].kf = FirstKeyframe(s, p, frame)]
              /\ content_started' = TRUE
              /\ sample_times' = NotePts(s, frame)
              /\ GoTo(IF PageFull(s, p) THEN "flush" ELSE "none")
              /\ UNCHANGED refused
           \/ /\ ~packs
              /\ refused' = refused \cup {<<s, Len(sent[s])>>}
              /\ stage' = "idle" /\ turn' = 1 /\ extra' = 0 /\ step' = "none"
              /\ UNCHANGED <<next_frame, buffered, content_started, sample_times>>
  /\ UNCHANGED <<writing, link, header_written, trailer_written, page_target, used_serials,
                 serial, seq_no, headers_remaining, bos_emitted, queue, newest_time,
                 last_granule, keypoints, measured, fishead, published, sk_seq, skel_serial,
                 sent, wire>>

PageTime(s, granule) ==
  IF granule = NoPts THEN newest_time[s]
  ELSE IF s \in Theora THEN FrameCount(granule) * Scale[s] ELSE granule * Scale[s]

KeepsGranule(b) ==                               \* mutant: granule not reset
  [EmptyBuilder EXCEPT !.cont = Last(b.segs).open, !.granule = b.granule]
NeverContinued(b) == EmptyBuilder                \* mutant: flag dropped
\* What is left in the builder: the next page continues an open packet.
NextBuilder(b) == [EmptyBuilder EXCEPT !.cont = Last(b.segs).open]

\* flush_page up to the release: the builder becomes the newest queued page.
FlushPage ==
  /\ Doing("flush") /\ GoTo("release")
  /\ LET s     == writing.s
         b     == buffered[s]
         t     == PageTime(s, b.granule)
         time  == IF t > newest_time[s] THEN t ELSE newest_time[s]
         flags == (IF b.cont THEN {"cont"} ELSE {}) \cup (IF bos_emitted[s] THEN {} ELSE {"bos"})
     IN /\ queue' = [queue EXCEPT ![s] = Append(@,
                       [page |-> Page(s, flags, b.granule, b.segs, time), kf |-> b.kf])]
        /\ buffered' = [buffered EXCEPT ![s] = NextBuilder(b)]
        /\ newest_time' = [newest_time EXCEPT ![s] = time]
        /\ last_granule' = IF b.granule = NoPts THEN last_granule
                           ELSE [last_granule EXCEPT ![s] = b.granule]
        /\ seq_no' = [seq_no EXCEPT ![s] = @ + 1]
        /\ bos_emitted' = [bos_emitted EXCEPT ![s] = TRUE]
  /\ UNCHANGED <<writing, calls, serial, headers_remaining, next_frame, last_kf, skeleton, sent,
                 refused, wire>>

-----------------------------------------------------------------------------
(* The interleave.                                                         *)

\* offer_keypoint: spaced, in order, and not beyond the reservation.
Accepts(s, at, ts) ==
  /\ Len(keypoints[s]) < MaxKeypoints
  /\ keypoints[s] # <<>> =>
       LET last == Last(keypoints[s])
       IN /\ at > last.offset /\ ts >= last.timestamp
          /\ at - last.offset >= ByteGap
          /\ (ts - last.timestamp) * Scale[s] >= TimeGap

AfterPage == Len(wire) + 2                       \* mutant: the position after the write
\* The stream position before the write.
PageOffset == Len(wire) + 1

\* write_pending_page on the oldest queued page of s.
WritePending(s) ==
  LET at == PageOffset
      kf == Head(queue[s]).kf
  IN /\ wire' = Append(wire, Head(queue[s]).page)
     /\ queue' = [queue EXCEPT ![s] = Tail(@)]
     /\ keypoints' = IF Skeleton /\ kf # NoPts /\ Accepts(s, at, kf)
                     THEN [keypoints EXCEPT ![s] = Append(@, [offset |-> at, timestamp |-> kf])]
                     ELSE keypoints

\* The earliest front page among streams holding more than n pages, the
\* first of the stream order on a tie.
FrontTime(s) == Head(queue[s]).page.time
Holding(n) == {i \in DOMAIN Order : Len(queue[Order[i]]) > n}
Earliest(n) == CHOOSE i \in Holding(n) :
  \A j \in Holding(n) : \/ FrontTime(Order[i]) < FrontTime(Order[j])
                        \/ FrontTime(Order[i]) = FrontTime(Order[j]) /\ i <= j

AlwaysSettled(i) == TRUE                         \* mutant: no watermark
\* release_ready_pages keeps the newest page of each stream, and a page some
\* other started stream may still precede.
Settled(i) ==
  \A j \in DOMAIN Order : \/ j = i \/ ~bos_emitted[Order[j]]
                          \/ newest_time[Order[j]] >= FrontTime(Order[i])
Releasable == Holding(1) # {} /\ Settled(Earliest(1))

ReleasePage ==
  /\ Doing("release") /\ Releasable
  /\ WritePending(Order[Earliest(1)])
  /\ UNCHANGED <<control, calls, serial, seq_no, buffered, headers_remaining, bos_emitted,
                 newest_time, last_granule, next_frame, last_kf, sample_times, measured, fishead,
                 published, sk_seq, skel_serial, sent, refused>>

ReleaseDone ==
  /\ Doing("release") /\ ~Releasable
  /\ GoTo(IF LacesLeft > 0 THEN "put" ELSE "none")
  /\ UNCHANGED <<writing, calls, writers, skeleton, sent, refused, wire>>

Draining == Inside("drain_headers") \/ Inside("drain_link") \/ Inside("drain")

DrainPage ==
  /\ Draining /\ Holding(0) # {}
  /\ WritePending(Order[Earliest(0)])
  /\ UNCHANGED <<control, calls, serial, seq_no, buffered, headers_remaining, bos_emitted,
                 newest_time, last_granule, next_frame, last_kf, sample_times, measured, fishead,
                 published, sk_seq, skel_serial, sent, refused>>

DrainDone ==
  /\ Draining /\ Holding(0) = {} /\ NextStage
  /\ UNCHANGED <<extra, step, writing, calls, writers, skeleton, sent, refused, wire>>

-----------------------------------------------------------------------------
(* finalize_current_link, one stream at a time, and the trailer.           *)

Closing == Inside("close_link") \/ Inside("close")

CloseFlush ==
  /\ Closing /\ buffered[Turn].segs # <<>>
  /\ Call("flush", Turn, HeaderPacket, 1)
  /\ UNCHANGED <<stage, turn, extra, calls, writers, skeleton, sent, refused, wire>>

\* EOS on the newest queued page, or a nil page when none is queued.
CloseStream ==
  /\ Closing /\ NextTurn
  /\ LET s == Turn
         n == Len(queue[s])
     IN /\ buffered[s].segs = <<>>
        /\ \/ /\ n > 0
              /\ queue' = [queue EXCEPT ![s][n].page.flags = @ \cup {"eos"}]
              /\ UNCHANGED seq_no
           \/ /\ n = 0 /\ bos_emitted[s]
              /\ queue' = [queue EXCEPT ![s] = <<[kf |-> NoPts, page |->
                             Page(s, {"eos"}, last_granule[s], <<>>, newest_time[s])]>>]
              /\ seq_no' = [seq_no EXCEPT ![s] = @ + 1]
           \/ /\ n = 0 /\ ~bos_emitted[s]
              /\ UNCHANGED <<queue, seq_no>>
  /\ UNCHANGED <<extra, step, writing, calls, serial, buffered, headers_remaining, bos_emitted,
                 newest_time, last_granule, next_frame, last_kf, skeleton, sent, refused, wire>>

\* The index packets and the fishead are rewritten in place.
BackfilledIndexes == [s \in Streams |-> [keypoints |-> keypoints[s], times |-> sample_times[s]]]
Backfill ==
  /\ Inside("backfill") /\ NextStage
  /\ trailer_written' = TRUE
  /\ \/ /\ Skeleton
        /\ published' = BackfilledIndexes
        /\ fishead' = [length |-> Len(wire), content |-> measured]
     \/ ~Skeleton /\ UNCHANGED <<published, fishead>>
  /\ UNCHANGED <<extra, step, writing, link, header_written, content_started, page_target,
                 used_serials, writers, keypoints, sample_times, measured, sk_seq, skel_serial,
                 sent, refused, wire>>

-----------------------------------------------------------------------------
Steps == \/ Arm \/ ArmSkeleton \/ NextLink \/ WriteBos \/ WriteSecondary \/ PassTurn
         \/ WriteSkeletonPage
         \/ BeginPacket \/ PutLaces \/ StampHeader \/ StampContent \/ StampTheora
         \/ FlushPage \/ ReleasePage \/ ReleaseDone \/ DrainPage \/ DrainDone
         \/ CloseFlush \/ CloseStream \/ Backfill

Calls == \/ WriteHeader \/ BeginNewLink \/ WriteTrailer
         \/ \E t \in Targets \cup {NoTarget} : SetPageTarget(t)
         \/ \E s \in Streams : \E p \in Packets[s] : WritePacket(s, p)

Next == Calls \/ Steps \/ Terminated
Spec == Init /\ [][Next]_vars

-----------------------------------------------------------------------------
(* Properties.                                                             *)

Max2(m, n) == IF m > n THEN m ELSE n
Queued(s)  == [i \in DOMAIN queue[s] |-> queue[s][i].page]
OnWire(s)  == FlattenSeq([i \in DOMAIN wire |-> IF wire[i].stream = s THEN <<wire[i]>> ELSE <<>>])
Pages(s)   == OnWire(s) \o Queued(s)
Ended(s)   == trailer_written \/ LinkOf(s) < link
\* Header packets: those of the extradata or, with none, the caller's first.
HeaderCount(s) == IF Headers[s] > 0 THEN Headers[s] ELSE Need[s]
IsHeader(p) == IF p.stream = "skeleton" THEN TRUE
               ELSE p.segs # <<>> /\ p.segs[1].pkt <= HeaderCount(p.stream)
IsContent(p) == p.stream # "skeleton" /\ ~IsHeader(p)

TypeOK ==
  /\ link \in DOMAIN Links
  /\ {header_written, trailer_written, content_started} \subseteq BOOLEAN
  /\ page_target \in Targets \cup {NoTarget}
  /\ used_serials \subseteq Serials
  /\ \A s \in Streams :
       /\ serial[s] \in Serials \cup {NoSerial}
       /\ Len(buffered[s].segs) <= MaxSegs /\ buffered[s].cont \in BOOLEAN
       /\ headers_remaining[s] \in 0 .. Need[s]
       /\ {seq_no[s], newest_time[s], last_granule[s], next_frame[s], last_kf[s]} \subseteq Nat
       /\ Len(keypoints[s]) <= MaxKeypoints
  /\ \A i \in DOMAIN wire : Len(wire[i].segs) <= MaxSegs

\* Page headers of one logical bitstream, wherever its pages were made (BOS
\* by hand, flush, spanning, nil EOS) and in whatever order they were let
\* out: numbered without a gap, BOS on the first alone, EOS on the last alone
\* and only when its link is over, one serial that no other stream has.  A nil
\* page closes only a stream that never had data: a page was held back to carry
\* the EOS flag of every other.
StreamPages ==
  \A s \in Streams : LET pages == Pages(s) IN
    /\ \A i \in DOMAIN pages :
         LET p == pages[i]
         IN /\ p.seq = i - 1
            /\ "bos" \in p.flags <=> i = 1
            /\ "eos" \in p.flags => i = Len(pages)
            /\ p.serial = serial[s]
            /\ p.segs = <<>> => "eos" \in p.flags /\ \A j \in 1 .. i - 1 : IsHeader(pages[j])
    /\ Idle /\ pages # <<>> => ("eos" \in Last(pages).flags <=> Ended(s))
    /\ Ended(s) => queue[s] = <<>> /\ buffered[s].segs = <<>>
    /\ \A r \in Streams : r # s /\ serial[r] # NoSerial => serial[r] # serial[s]
    /\ skel_serial # NoSerial => skel_serial # serial[s]

\* The laces of a stream, taken over the wire, its queue and its builder, are
\* those of the packets written, in order and none missing, and a page is
\* continued exactly when the page before it leaves a packet open.
Laces(s) == FlattenSeq([i \in DOMAIN Pages(s) |-> Pages(s)[i].segs]) \o buffered[s].segs
Follows(a, b) == IF a.open THEN b.pkt = a.pkt /\ b.n = a.n + 1
                           ELSE b.pkt = a.pkt + 1 /\ b.n = 1
PacketsKept ==
  \A s \in Streams : LET laces == Laces(s) pages == Pages(s) IN
    /\ laces # <<>> => laces[1].pkt = 1 /\ laces[1].n = 1
    /\ \A i \in 1 .. Len(laces) - 1 : Follows(laces[i], laces[i + 1])
    /\ Idle => IF laces = <<>> THEN sent[s] = <<>>
               ELSE Last(laces).pkt = Len(sent[s]) /\ ~Last(laces).open
    /\ \A i \in DOMAIN pages :
         "cont" \in pages[i].flags <=>
           i > 1 /\ pages[i - 1].segs # <<>> /\ Last(pages[i - 1].segs).open

\* Pages of a link come out in increasing order of the time equivalents of
\* their granules (Theora A.3.2), whatever the time bases, the order of the
\* calls and the pages' sizes.  A stream's clock never goes back: a page that
\* carries no granule, or an earlier one, stays behind the page before it.
GranuleTime(p) == IF p.granule = NoPts \/ p.stream = "skeleton" THEN 0
                  ELSE Scale[p.stream] *
                       (IF p.stream \in Theora THEN FrameCount(p.granule) ELSE p.granule)
TimeOrder ==
  LET Before(i) == {k \in 1 .. i : wire[k].stream = wire[i].stream}
      clock == [i \in DOMAIN wire |->
        CHOOSE t \in {GranuleTime(wire[k]) : k \in Before(i)} :
          \A k \in Before(i) : GranuleTime(wire[k]) <= t]
  IN \A i \in 2 .. Len(wire) : wire[i - 1].link = wire[i].link => clock[i - 1] <= clock[i]

\* The header section: the Skeleton's BOS first, then the BOS of Theora, then
\* every BOS, then the other headers, then data; the Skeleton ends before any
\* data, though its pages and the headers held for their EOS flag are written
\* on two paths.
HeadersFirst ==
  \A i, j \in DOMAIN wire :
    i < j /\ wire[i].link = wire[j].link =>
      /\ "bos" \in wire[j].flags => "bos" \in wire[i].flags /\ wire[j].stream # "skeleton"
      /\ "bos" \in wire[j].flags /\ wire[j].stream \in Theora =>
           wire[i].stream \in Theora \cup {"skeleton"}
      /\ IsHeader(wire[j]) => IsHeader(wire[i])

\* Links do not overlap, and every stream of a link is over when the next
\* link begins (RFC 3533 4).
LinksApart ==
  \A i \in 2 .. Len(wire) :
    /\ wire[i - 1].link <= wire[i].link
    /\ wire[i - 1].link < wire[i].link =>
         \A s \in ToSet(Links[wire[i - 1].link]) :
           \E j \in 1 .. i - 1 : wire[j].stream = s /\ "eos" \in wire[j].flags

\* The granule of a content page is that of the last packet completed on it that
\* has one, and -1 marks a page on which none completes: a packet without a
\* timestamp, or refused after it was appended, leaves the granule as it is.
Lost(s) == {n \in DOMAIN sent[s] : <<s, n>> \in refused}
FrameAt(packets, lost, h, n) ==   \* frame of the n-th packet, the first h of them headers
  LET f[k \in h .. n] ==
        IF k = h THEN -1
        ELSE IF k \in lost THEN f[k - 1]
        ELSE IF packets[k].pts = NoPts THEN f[k - 1] + 1 ELSE packets[k].pts
  IN f[n]
Stamped(s, n) ==
  IF s \in Theora THEN FrameAt(sent[s], Lost(s), HeaderCount(s), n) ELSE sent[s][n].pts
StampedPackets(s) ==
  {n \in DOMAIN sent[s] : /\ n > HeaderCount(s) /\ n \notin Lost(s)
                          /\ s \in Theora \/ sent[s][n].pts # NoPts}
GranuleFrame(s, g) == IF s \in Theora THEN FrameCount(g) - 1 ELSE g
Completed(p) == {p.segs[i].pkt : i \in {k \in DOMAIN p.segs : ~p.segs[k].open}}
PageGranules ==
  \A s \in Streams : LET pages == Pages(s) IN \A i \in DOMAIN pages :
    LET p == pages[i]
        done == Completed(p) \cap StampedPackets(s)
    IN IsContent(p) /\ p.segs # <<>> =>
         IF done = {} THEN p.granule = NoPts
         ELSE p.granule # NoPts /\ GranuleFrame(s, p.granule) = Stamped(s, Max(done))

\* A keypoint, offered when a page gets its offset on the wire, is a page of
\* its stream on which a keyframe of that time starts; keypoints are in order
\* and as far apart as the configuration asks.
Keyframes(s, p) ==
  {p.segs[i].pkt : i \in {k \in DOMAIN p.segs :
      p.segs[k].n = 1 /\ sent[s][p.segs[k].pkt].keyframe}}
KeypointsLand ==
  \A s \in Streams : \A i \in DOMAIN keypoints[s] :
    LET k == keypoints[s][i]
    IN /\ k.offset \in DOMAIN wire /\ wire[k.offset].stream = s
       /\ i > 1 => /\ k.offset - keypoints[s][i - 1].offset >= Max2(1, ByteGap)
                   /\ (k.timestamp - keypoints[s][i - 1].timestamp) * Scale[s] >= TimeGap
       /\ \E n \in Keyframes(s, wire[k.offset]) : Stamped(s, n) = k.timestamp

\* Once the trailer is written the Skeleton, rewritten in place, says where
\* content begins and how long the segment is, and its indexes hold what was
\* collected after they were laid out.
SkeletonTells ==
  trailer_written /\ Skeleton =>
    /\ fishead.length = Len(wire)
    /\ \A i \in DOMAIN wire : IsHeader(wire[i]) <=> i < fishead.content
    /\ \A s \in Streams :
         LET stamped == StampedPackets(s)
         IN /\ published[s].keypoints = keypoints[s]
            /\ published[s].times = IF stamped = {} THEN <<>>
                 ELSE <<Stamped(s, Min(stamped)), Stamped(s, Max(stamped))>>
=============================================================================
