------------------------------- MODULE Framing -------------------------------
(***************************************************************************)
(* Packet <-> page framing of one logical bitstream (src/src/framing.rs):  *)
(* a PageWriter chops packets into lacing segments and cuts the segments   *)
(* into pages, a PacketAssembler rebuilds the packets from the pages.      *)
(*                                                                         *)
(* Both loops are modelled one iteration per step, so that what holds      *)
(* "between two laces" is visible.  A page body is kept as the sequence of *)
(* its segments: the lacing value of a segment is Len(segment.data), the   *)
(* body of the page the concatenation of the data.  SegSize and MaxSegs    *)
(* stand for the 255 of a lacing value and of a segment table.             *)
(***************************************************************************)
EXTENDS Integers, Sequences

CONSTANTS
  Byte,        \* the alphabet of packet bytes
  Payload,     \* the packets a caller may push, sequences over Byte
  Granule,     \* the granule positions a caller may stamp
  SegSize,     \* bytes of a full lacing segment (255)
  MaxSegs,     \* MAX_PAGE_SEGMENTS (255)
  Target,      \* page_target values a caller may set
  MaxPackets,  \* bound: packets pushed
  MaxResets,   \* bound: PacketAssembler::reset calls
  MaxForeign   \* bound: pages of another serial pushed

ASSUME FramingAssumption ==
  /\ SegSize \in Nat \ {0}
  /\ MaxSegs \in Nat \ {0}
  /\ Payload \subseteq Seq(Byte)
  /\ Granule \subseteq Nat
  /\ Target \subseteq Nat
  /\ MaxPackets \in Nat /\ MaxResets \in Nat /\ MaxForeign \in Nat

NoGranule == -1   \* page_granule.unwrap_or(-1)
NoTarget  == -1   \* page_target = None

VARIABLES
  sent,               \* history: the packets pushed, with their granules
  busy,               \* push_packet is running on the last packet of sent
  off,                \* bytes of that packet already laced
  lacing,             \* segments of the pending page
  body_len,           \* body.len() of the pending page
  page_granule,
  pending_continued,
  bos_pending,
  sequence,
  page_target,
  closed,             \* finish() was called
  out,                \* the pages emitted
  locked,             \* assembler serial: none, own or other
  pending,            \* bytes of the packet being rebuilt
  mid_packet,
  rpage,              \* index in out of the next page to push
  rlace,              \* laces of that page already consumed
  in_page,            \* push_page accepted that page and is in its loop
  got,                \* history: the packets returned
  resets, foreign     \* counters for the bounds

writer == <<sent, busy, off, lacing, body_len, page_granule, pending_continued,
            bos_pending, sequence, page_target, closed, out>>
reader == <<locked, pending, mid_packet, rpage, rlace, in_page, got, resets, foreign>>
vars   == <<writer, reader>>

Packet  == [data: Payload, granule: Granule]
\* pkt and off are history: which packet the segment is cut from, and where.
Segment == [data: Seq(Byte), pkt: Nat, off: Nat]
Page    == [cont: BOOLEAN, bos: BOOLEAN, eos: BOOLEAN, granule: Granule \cup {NoGranule},
            seq: Nat, segs: Seq(Segment)]
Delivery == [pkt: Nat, data: Seq(Byte)]

Open(s)  == Len(s.data) = SegSize        \* lacing value 255: the packet goes on
First(p) == p.segs[1]
Last(p)  == p.segs[Len(p.segs)]

TypeOK ==
  /\ sent \in Seq(Packet)
  /\ busy \in BOOLEAN /\ off \in Nat
  /\ lacing \in Seq(Segment) /\ body_len \in Nat
  /\ page_granule \in Granule \cup {NoGranule}
  /\ pending_continued \in BOOLEAN /\ bos_pending \in BOOLEAN
  /\ sequence \in Nat
  /\ page_target \in Target \cup {NoTarget}
  /\ closed \in BOOLEAN
  /\ out \in Seq(Page)
  /\ locked \in {"none", "own", "other"}
  /\ pending \in Seq(Byte) /\ mid_packet \in BOOLEAN
  /\ rpage \in Nat /\ rlace \in Nat /\ in_page \in BOOLEAN
  /\ got \in Seq(Delivery)
  /\ resets \in Nat /\ foreign \in Nat

Init ==
  /\ sent = <<>> /\ busy = FALSE /\ off = 0
  /\ lacing = <<>> /\ body_len = 0 /\ page_granule = NoGranule
  /\ pending_continued = FALSE /\ bos_pending = TRUE /\ sequence = 0
  /\ page_target \in Target \cup {NoTarget}
  /\ closed = FALSE /\ out = <<>>
  /\ locked = "none" /\ pending = <<>> /\ mid_packet = FALSE
  /\ rpage = 1 /\ rlace = 0 /\ in_page = FALSE /\ got = <<>>
  /\ resets = 0 /\ foreign = 0

-----------------------------------------------------------------------------
(* PageWriter.                                                             *)

EmitPage(segs, granule, next_continued, eos) ==
  /\ out' = Append(out, [cont |-> pending_continued, bos |-> bos_pending, eos |-> eos,
                         granule |-> granule, seq |-> sequence, segs |-> segs])
  /\ lacing' = <<>> /\ body_len' = 0 /\ page_granule' = NoGranule
  /\ pending_continued' = next_continued
  /\ bos_pending' = FALSE
  /\ sequence' = sequence + 1

KeepPage == UNCHANGED <<lacing, body_len, page_granule, pending_continued,
                        bos_pending, sequence, out>>

\* push_packet up to its loop: a full table left by the last packet goes out.
PushPacket(data, granule) ==
  /\ ~closed /\ ~busy /\ Len(sent) < MaxPackets
  /\ sent' = Append(sent, [data |-> data, granule |-> granule])
  /\ busy' = TRUE /\ off' = 0
  /\ IF Len(lacing) = MaxSegs
     THEN EmitPage(lacing, page_granule, FALSE, FALSE)
     ELSE KeepPage
  /\ UNCHANGED <<page_target, closed, reader>>

Current == sent[Len(sent)]
TakeShort == IF Len(Current.data) - off - 1 < SegSize   \* mutant: one byte short
             THEN Len(Current.data) - off - 1 ELSE SegSize
Take    == IF Len(Current.data) - off < SegSize THEN Len(Current.data) - off ELSE SegSize
NewSegment == [data |-> SubSeq(Current.data, off + 1, off + Take),
               pkt  |-> Len(sent), off |-> off]

\* One turn of the inner loop: a segment, and on the last one the granule
\* and the page-size policy.
PutSegment ==
  /\ busy /\ Len(lacing) < MaxSegs
  /\ IF Take < SegSize
     THEN /\ busy' = FALSE /\ off' = 0
          /\ IF page_target # NoTarget /\ body_len + Take >= page_target
             THEN EmitPage(Append(lacing, NewSegment), Current.granule, FALSE, FALSE)
             ELSE /\ lacing' = Append(lacing, NewSegment)
                  /\ body_len' = body_len + Take
                  /\ page_granule' = Current.granule
                  /\ UNCHANGED <<pending_continued, bos_pending, sequence, out>>
     ELSE /\ off' = off + Take
          /\ lacing' = Append(lacing, NewSegment)
          /\ body_len' = body_len + Take
          /\ UNCHANGED <<busy, page_granule, pending_continued, bos_pending, sequence, out>>
  /\ UNCHANGED <<sent, page_target, closed, reader>>

SpillUncontinued ==   \* mutant: the next page is not marked continued
  /\ busy /\ Len(lacing) = MaxSegs
  /\ EmitPage(lacing, page_granule, FALSE, FALSE)
  /\ UNCHANGED <<sent, busy, off, page_target, closed, reader>>

SpillStamped ==       \* mutant: the packet's granule goes on its middle
  /\ busy /\ Len(lacing) = MaxSegs
  /\ EmitPage(lacing, Current.granule, TRUE, FALSE)
  /\ UNCHANGED <<sent, busy, off, page_target, closed, reader>>

\* The outer loop: the table is full and the packet goes on.
SpillPage ==
  /\ busy /\ Len(lacing) = MaxSegs
  /\ EmitPage(lacing, page_granule, TRUE, FALSE)
  /\ UNCHANGED <<sent, busy, off, page_target, closed, reader>>

FlushPage ==
  /\ ~closed /\ ~busy /\ lacing # <<>>
  /\ EmitPage(lacing, page_granule, FALSE, FALSE)
  /\ UNCHANGED <<sent, busy, off, page_target, closed, reader>>

SetPageTarget(t) ==
  /\ ~closed /\ ~busy /\ t # page_target
  /\ page_target' = t
  /\ UNCHANGED <<sent, busy, off, lacing, body_len, page_granule, pending_continued,
                 bos_pending, sequence, closed, out, reader>>

\* finish: the pending page goes out as EOS, or the last page is re-stamped.
Finish ==
  /\ ~closed /\ ~busy
  /\ closed' = TRUE
  /\ \/ /\ lacing # <<>>
        /\ EmitPage(lacing, page_granule, FALSE, TRUE)
     \/ /\ lacing = <<>>
        /\ out' = IF out = <<>> THEN out ELSE [out EXCEPT ![Len(out)].eos = TRUE]
        /\ UNCHANGED <<lacing, body_len, page_granule, pending_continued, bos_pending, sequence>>
  /\ UNCHANGED <<sent, busy, off, page_target, reader>>

-----------------------------------------------------------------------------
(* PacketAssembler.  The caller pushes the pages in order; a page that is  *)
(* refused is dropped and the next one tried.                              *)

PageToPush == ~in_page /\ rpage <= Len(out)

\* push_page refuses the page: wrong serial, or the continued flag
\* contradicts mid_packet.  The serial is locked before the second check.
RefusePage ==
  /\ PageToPush
  /\ locked = "other" \/ out[rpage].cont # mid_packet
  /\ locked' = IF locked = "none" THEN "own" ELSE locked
  /\ rpage' = rpage + 1
  /\ UNCHANGED <<writer, pending, mid_packet, rlace, in_page, got, resets, foreign>>

AcceptAnyPage ==      \* mutant: the continued flag is not looked at
  /\ PageToPush
  /\ locked # "other"
  /\ locked' = "own" /\ in_page' = TRUE /\ rlace' = 0
  /\ UNCHANGED <<writer, pending, mid_packet, rpage, got, resets, foreign>>

AcceptPage ==
  /\ PageToPush
  /\ locked # "other" /\ out[rpage].cont = mid_packet
  /\ locked' = "own" /\ in_page' = TRUE /\ rlace' = 0
  /\ UNCHANGED <<writer, pending, mid_packet, rpage, got, resets, foreign>>

\* One turn of push_page's loop over the laces.
TakeSegment ==
  /\ in_page
  /\ LET segs == out[rpage].segs
         s    == segs[rlace + 1]
     IN /\ IF Open(s)
           THEN pending' = pending \o s.data /\ mid_packet' = TRUE /\ UNCHANGED got
           ELSE /\ got' = Append(got, [pkt |-> s.pkt, data |-> pending \o s.data])
                /\ pending' = <<>> /\ mid_packet' = FALSE
        /\ IF rlace + 1 = Len(segs)
           THEN in_page' = FALSE /\ rlace' = 0 /\ rpage' = rpage + 1
           ELSE rlace' = rlace + 1 /\ UNCHANGED <<in_page, rpage>>
  /\ UNCHANGED <<writer, locked, resets, foreign>>

\* A page of another logical bitstream, holding one whole packet: it locks
\* a fresh assembler and is refused by a locked one.
PushForeign ==
  /\ ~in_page /\ foreign < MaxForeign
  /\ foreign' = foreign + 1
  /\ locked' = IF locked = "none" THEN "other" ELSE locked
  /\ UNCHANGED <<writer, pending, mid_packet, rpage, rlace, in_page, got, resets>>

ResetKeepsBytes(page) ==   \* mutant: pending is not cleared
  /\ ~in_page /\ resets < MaxResets
  /\ page \in rpage .. Len(out) + 1
  /\ locked' = "none" /\ mid_packet' = FALSE
  /\ rpage' = page /\ resets' = resets + 1
  /\ UNCHANGED <<writer, pending, rlace, in_page, got, foreign>>

\* reset(), after which the caller goes on at this page or a later one.
Reset(page) ==
  /\ ~in_page /\ resets < MaxResets
  /\ page \in rpage .. Len(out) + 1
  /\ locked' = "none" /\ pending' = <<>> /\ mid_packet' = FALSE
  /\ rpage' = page /\ resets' = resets + 1
  /\ UNCHANGED <<writer, rlace, in_page, got, foreign>>

\* Everything written was read: nothing is left to do.
Terminated ==
  /\ closed /\ ~in_page /\ rpage > Len(out)
  /\ UNCHANGED vars

Writer ==
  \/ \E data \in Payload, granule \in Granule : PushPacket(data, granule)
  \/ PutSegment \/ SpillPage \/ FlushPage \/ Finish
  \/ \E t \in Target \cup {NoTarget} : SetPageTarget(t)

Reader ==
  \/ RefusePage \/ AcceptPage \/ TakeSegment \/ PushForeign
  \/ \E page \in 1 .. Len(out) + 1 : Reset(page)

Next == Writer \/ Reader \/ Terminated

Spec == Init /\ [][Next]_vars

\* Every loop runs to its end once entered, and pages_to_packets pushes
\* every page there is.
Fairness == WF_vars(PutSegment \/ SpillPage) /\ WF_vars(RefusePage \/ AcceptPage \/ TakeSegment)

FairSpec == Spec /\ Fairness

-----------------------------------------------------------------------------
(* Properties.                                                             *)

\* No packet is ever made up, glued or cut: whatever the resets and the
\* dropped pages, a returned packet is one that was pushed, byte for byte,
\* and packets come out in the order they went in, none twice.
Genuine ==
  /\ \A i \in 1 .. Len(got) :
       got[i].pkt \in 1 .. Len(sent) /\ got[i].data = sent[got[i].pkt].data
  /\ \A i, j \in 1 .. Len(got) : i < j => got[i].pkt < got[j].pkt

\* The continued flag of a page says whether the page before it ended inside
\* a packet, across every flush, spill, page target and finish (RFC 3533 6).
ContinuedFlags ==
  \A i \in 1 .. Len(out) :
    out[i].cont <=> i > 1 /\ Open(Last(out[i - 1]))

\* A page header tells the truth about the packets, however pushes, flushes and
\* finish cut them: its granule is that of the last packet completed on it, -1
\* when none is, BOS is on the first page alone, EOS on the last alone and only
\* once the stream is closed, and sequence numbers have no gap.
Completes(page) == {k \in 1 .. Len(page.segs) : ~Open(page.segs[k])}
StampedRight(page) ==
  IF Completes(page) = {} THEN page.granule = NoGranule
  ELSE \E k \in Completes(page) : /\ \A l \in Completes(page) : l <= k
                                 /\ page.granule = sent[page.segs[k].pkt].granule
HeadersTrue ==
  \A i \in 1 .. Len(out) :
    /\ StampedRight(out[i])
    /\ out[i].seq = i - 1
    /\ out[i].bos <=> i = 1
    /\ out[i].eos <=> closed /\ i = Len(out)
    /\ Len(out[i].segs) \in 1 .. MaxSegs

\* Once the stream is finished a reader that saw it from the start gets every
\* packet: the last one is terminated even when its length is a multiple of
\* the segment size or it fills the segment table exactly.
EverythingArrives ==
  closed ~> (resets = 0 /\ foreign = 0 => Len(got) = Len(sent))

\* Framing implements the abstract channel: every step pushes a packet,
\* delivers one whole packet, or is invisible at the packet level.
Channel == INSTANCE PacketChannel WITH Payload <- Payload, Granule <- Granule, sent <- sent, got <- got
ImplementsChannel == Channel!Spec
=============================================================================
