------------------------------- MODULE OggRemux -------------------------------
(***************************************************************************)
(* What a stream carries from one Ogg file to the next: its header packets,*)
(* which the demuxer packs into extradata and the muxer takes apart again  *)
(* (src/src/demux.rs, mux.rs, codec_id.rs), and, for Theora, the granules  *)
(* the muxer stamps on its frames.                                         *)
(*                                                                         *)
(* A packet is a sequence of bytes 0 .. Full; for FLAC a sequence of the   *)
(* pieces it is made of: the Ogg mapping header with its count, the fLaC   *)
(* signature, and metadata blocks [piece, kind, last, body].               *)
(***************************************************************************)
EXTENDS Integers, Sequences, FiniteSets, SequencesExt, Functions, TLC, TheoraGranule

CONSTANTS
  Full,          \* a full lacing value (255)
  Codecs,        \* codec ids, as strings
  Extradata(_),  \* per codec, the well-formed extradata a caller may have
  Granules,      \* what a Theora id header says: [shift, count_from_one]
  Jumps,         \* frames a caller's pts may skip
  MaxLaps,       \* bound: times a file is written
  MaxFrames      \* bound: frames the caller writes

ASSUME RemuxAssumption == Full \in Nat \ {0} /\ MaxLaps \in Nat /\ MaxFrames \in Nat

VARIABLES
  codec,
  source,        \* history: the extradata of the first caller
  extradata,     \* CodecParameters::extradata
  headers,       \* the header packets in the file last written, an Option
  passed,        \* header packets the last reader took for data
  laps,          \* files written
  theora,        \* [gran, next_frame, last_kf] of the last writer
  stamps         \* history: what write_packet made of its frames

vars == <<codec, source, extradata, headers, passed, laps, theora, stamps>>

Init ==
  /\ codec \in Codecs /\ source \in Extradata(codec) /\ extradata = source
  /\ headers = None /\ passed = <<>> /\ laps = 0 /\ stamps = <<>>
  /\ \E gran \in IF codec = "theora" THEN Granules ELSE {[shift |-> 0, count_from_one |-> FALSE]} :
       theora = [gran |-> gran, next_frame |-> 0, last_kf |-> 0]

-----------------------------------------------------------------------------
(* Xiph lacing.                                                            *)

Lacing(n) == [i \in 1 .. n \div Full |-> Full] \o <<n % Full>>

\* xiph_lace_three, xiph_lace
XiphLace(packets) ==
  <<Len(packets) - 1>> \o FlattenSeq([i \in 1 .. Len(packets) - 1 |-> Lacing(Len(packets[i]))])
                       \o FlattenSeq(packets)

\* xiph_unlace: the sizes are runs that end below Full, the last is what is left.
XiphUnlace(blob) ==
  LET ends  == SelectSeq([i \in 1 .. Len(blob) |-> i], LAMBDA i : i > 1 /\ blob[i] < Full)
      n     == blob[1]
      start(k) == IF k = 1 THEN 2 ELSE ends[k - 1] + 1
      sizes == [k \in 1 .. n |-> FoldFunction(+, 0, SubSeq(blob, start(k), ends[k]))]
      body  == start(n + 1)
      at[k \in 1 .. n + 1] == IF k = 1 THEN body ELSE at[k - 1] + sizes[k - 1]
  IN IF blob = <<>> THEN None
     ELSE IF Len(ends) < n THEN None
     ELSE IF at[n + 1] > Len(blob) + 1 THEN None
     ELSE Some([k \in 1 .. n + 1 |-> SubSeq(blob, at[k], IF k <= n THEN at[k + 1] - 1 ELSE Len(blob))])

-----------------------------------------------------------------------------
(* FLAC.                                                                   *)

Mapping(count) == [piece |-> "mapping", count |-> count]
Signature      == [piece |-> "fLaC"]
Block(kind, last, body) == [piece |-> "block", kind |-> kind, last |-> last, body |-> body]
NoComment      == "oxideav"   \* the body of a comment block made up

\* The blocks up to the one flagged last.
FlacBlocks(blob) ==
  LET blocks == SelectSeq(blob, LAMBDA p : p.piece = "block")
      lasts  == {i \in DOMAIN blocks : blocks[i].last}
      end    == IF lasts = {} THEN Len(blocks) ELSE CHOOSE i \in lasts : \A j \in lasts : i <= j
  IN SubSeq(blocks, 1, end)

\* flac_header_packets: STREAMINFO with the mapping, the comment block, the
\* others but padding and seek tables.
\* A definition marked mutant is a plausible slip in the operator below it.
CountAll(others) == Len(others) + 1    \* mutant: the mapping packet counts itself
CountOf(others) == Len(others)
FlacHeaders(blob) ==
  LET blocks   == FlacBlocks(blob)
      comments == SelectSeq(blocks, LAMBDA b : b.kind = "comment")
      others   == <<IF comments = <<>> THEN Block("comment", FALSE, NoComment) ELSE comments[1]>>
                  \o SelectSeq(Tail(blocks), LAMBDA b : b.kind \notin {"streaminfo", "padding", "seektable", "comment"})
  IN IF blocks = <<>> THEN None
     ELSE IF blocks[1].kind # "streaminfo" THEN None
     ELSE Some(<<<<Mapping(CountOf(others)), Signature, [blocks[1] EXCEPT !.last = FALSE]>>>>
               \o [i \in DOMAIN others |-> <<[others[i] EXCEPT !.last = i = Len(others)]>>])

-----------------------------------------------------------------------------
(* The muxer and the demuxer.                                              *)

\* header_packet_count, and header_packet_count_from_first.
HeaderPacketCount == CASE codec \in {"vorbis", "theora"} -> 3 [] codec \in {"opus", "speex"} -> 2
                       [] codec = "flac" -> 1 [] OTHER -> 0
CountFromFirst(first) ==
  IF codec = "flac" /\ first[1].piece = "mapping" /\ first[1].count > 0
  THEN 1 + first[1].count ELSE HeaderPacketCount

\* extract_codec_headers; the comments of an Opus stream do not survive.
OpusTags == <<0>>
ExtractCodecHeaders ==
  LET unlaced == XiphUnlace(extradata)
      flac    == FlacHeaders(extradata)
  IN CASE extradata = <<>> -> <<>>
       [] codec \in {"vorbis", "theora"} -> IF unlaced = None THEN <<>> ELSE unlaced[1]
       [] codec = "flac" -> IF flac = None THEN <<extradata>> ELSE flac[1]
       [] codec = "opus" -> <<extradata, OpusTags>>
       [] OTHER -> <<extradata>>

\* The headers_remaining build_link_writers starts a stream with.
HeadersRemaining == IF codec # "flac" THEN HeaderPacketCount
                    ELSE IF ExtractCodecHeaders = <<>> THEN 1 ELSE Len(ExtractCodecHeaders)

\* build_codec_private
BuildCodecPrivate(packets) ==
  CASE codec \in {"vorbis", "theora"} /\ Len(packets) = 3 -> XiphLace(packets)
    [] codec = "opus" -> IF packets = <<>> THEN <<>> ELSE packets[1]
    [] OTHER -> FlattenSeq(packets)

\* open and write_header.
WriteHeader ==
  /\ headers = None /\ laps < MaxLaps
  /\ headers' = Some([packets |-> ExtractCodecHeaders, counted |-> HeadersRemaining])
  /\ laps' = laps + 1
  /\ theora' = [theora EXCEPT !.next_frame = 0, !.last_kf = 0]
  /\ stamps' = <<>>
  /\ UNCHANGED <<codec, source, extradata, passed>>

\* write_packet of a Theora frame: a pts re-anchors the count; on an Err the
\* packet is refused, but a key frame has been noted.
WriteFrame ==
  /\ headers # None /\ codec = "theora" /\ Len(stamps) < MaxFrames
  /\ \E jump \in Jumps, keyframe \in BOOLEAN :
       LET frame == theora.next_frame + jump
           kf    == IF keyframe THEN frame ELSE theora.last_kf
           granule == Pack(theora.gran, frame, kf)
       IN /\ theora' = [theora EXCEPT !.last_kf = kf, !.next_frame = IF granule = None THEN @ ELSE frame + 1]
          /\ stamps' = Append(stamps, [frame |-> frame, kf |-> kf, granule |-> granule])
  /\ UNCHANGED <<codec, source, extradata, headers, passed, laps>>

\* The demuxer's open: the first packets, as many as the first one says.
ReadHeaders ==
  /\ headers # None /\ headers[1].packets # <<>>
  /\ LET packets == headers[1].packets
         need    == CountFromFirst(packets[1])
         taken   == SubSeq(packets, 1, IF need < Len(packets) THEN need ELSE Len(packets))
         private == BuildCodecPrivate(taken)
     IN /\ extradata' = IF private = <<>> THEN extradata ELSE private
        /\ passed' = SubSeq(packets, Len(taken) + 1, Len(packets))
  /\ headers' = None
  /\ UNCHANGED <<codec, source, laps, theora, stamps>>

Next == WriteHeader \/ WriteFrame \/ ReadHeaders
Spec == Init /\ [][Next]_vars

-----------------------------------------------------------------------------
(* Properties.                                                             *)

\* The packets a decoder needs, as the first caller's extradata has them.
Kept(blob) ==
  LET blocks == FlacBlocks(blob)
  IN CASE codec \in {"vorbis", "theora"} -> XiphUnlace(blob)[1]
       [] codec = "opus" -> blob
       [] OTHER -> SelectSeq(blocks, LAMBDA b : b.kind \in {"streaminfo", "application", "picture"})
Carried(packets) ==
  CASE codec \in {"vorbis", "theora"} -> packets
    [] codec = "opus" -> packets[1]
    [] OTHER -> SelectSeq(FlattenSeq(packets), LAMBDA p : IF p.piece # "block" THEN FALSE
                                                          ELSE p.kind \in {"streaminfo", "application", "picture"})
Same(a, b) == IF codec # "flac" THEN a = b
              ELSE /\ Len(a) = Len(b)
                   /\ \A i \in DOMAIN a : a[i].kind = b[i].kind /\ a[i].body = b[i].body

\* However often a stream is remuxed, the header packets a decoder needs are in
\* the file, whole and in order; the writer, the file and the next reader count
\* the same number of them, so none comes out as data and no data is taken for
\* one; a FLAC stream has its comment block second and flags its last one only.
HeadersSurvive ==
  /\ passed = <<>>
  /\ headers # None =>
       LET packets == headers[1].packets
       IN /\ Same(Carried(packets), Kept(source))
          /\ headers[1].counted = Len(packets) /\ CountFromFirst(packets[1]) = Len(packets)
          /\ codec = "flac" =>
               /\ packets[2][1].kind = "comment"
               /\ \A i \in 2 .. Len(packets) : packets[i][1].last <=> i = Len(packets)

\* A granule the muxer stamped gives back its frame, its key frame and its place
\* in the count a Skeleton bone goes by, grows from frame to frame, so that a
\* walk over raw granules is one over frames, and is refused only where the
\* field has no room for it.
GranulesTrue ==
  \A i \in DOMAIN stamps :
    LET t == theora.gran
        s == stamps[i]
    IN IF s.granule # None
       THEN LET g == s.granule[1]
            IN /\ FrameIndex(t, g) = Some(s.frame) /\ FrameCount(t, g) = Some(s.frame + 1)
               /\ KeyframeIndex(t, g) = Some(s.kf) /\ (IsKeyframe(t, g) <=> s.kf = s.frame)
               /\ ExtractGranules(t.shift, g) = s.frame + Bias(t)
               /\ \A j \in 1 .. i - 1 : stamps[j].granule # None => stamps[j].granule[1] < g
       ELSE \/ s.frame - s.kf >= 2 ^ t.shift \/ t.shift >= TopBit
            \/ (s.kf + Bias(t)) * 2 ^ t.shift >= Limit
=============================================================================
