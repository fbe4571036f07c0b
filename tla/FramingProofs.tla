---------------------------- MODULE FramingProofs ----------------------------
(***************************************************************************)
(* Proofs about Framing, for every alphabet, segment size, table size,     *)
(* page target and number of packets: the types, the inductive invariant   *)
(* of the writer and of the assembler, and what follows from them: every   *)
(* packet the assembler returns is one that was pushed, unchanged, in      *)
(* order, each at most once, whatever the pattern of resets.               *)
(*                                                                         *)
(* The argument speaks of positions: <<pkt, o>> is byte offset o of packet *)
(* pkt.  Every segment is cut at a position and leads to the next one; the *)
(* pages and the pending page are runs of segments, each starting where    *)
(* the previous one leads; the assembler holds the bytes of the open       *)
(* packet up to the position it has reached.                               *)
(***************************************************************************)
EXTENDS Framing, SequenceTheorems, TLAPS

-----------------------------------------------------------------------------
(* Types, and the bounds of the cursors they depend on.                    *)

CursorInv ==
  /\ busy => Len(sent) > 0 /\ off <= Len(sent[Len(sent)].data)
  /\ ~busy => off = 0
  /\ busy /\ off = 0 => Len(lacing) < MaxSegs
  /\ Len(lacing) <= MaxSegs
  /\ closed => ~busy /\ lacing = <<>>

PositionInv ==
  /\ \A i \in 1 .. Len(out) : Len(out[i].segs) > 0
  /\ rpage \in 1 .. Len(out) + 1
  /\ in_page => rpage <= Len(out) /\ rlace < Len(out[rpage].segs)
  /\ ~in_page => rlace = 0

TypeInv == TypeOK /\ CursorInv /\ PositionInv

\* TypeOK by writer and reader, flags and data.
WriterFlagsOK == /\ busy \in BOOLEAN /\ pending_continued \in BOOLEAN
                 /\ bos_pending \in BOOLEAN /\ closed \in BOOLEAN
WriterDataOK ==
  /\ sent \in Seq(Packet) /\ off \in Nat /\ lacing \in Seq(Segment) /\ body_len \in Nat
  /\ page_granule \in Granule \cup {NoGranule} /\ sequence \in Nat
  /\ page_target \in Target \cup {NoTarget} /\ out \in Seq(Page)
ReaderFlagsOK == mid_packet \in BOOLEAN /\ in_page \in BOOLEAN
ReaderDataOK ==
  /\ locked \in {"none", "own", "other"} /\ pending \in Seq(Byte)
  /\ rpage \in Nat /\ rlace \in Nat /\ got \in Seq(Delivery)
  /\ resets \in Nat /\ foreign \in Nat

LEMMA TypeParts ==
  TypeOK <=> WriterFlagsOK /\ WriterDataOK /\ ReaderFlagsOK /\ ReaderDataOK
BY Zenon DEF TypeOK, WriterFlagsOK, WriterDataOK, ReaderFlagsOK, ReaderDataOK

\* The segment a turn of the writer's loop cuts is a segment.
LEMMA NewSegmentType ==
  ASSUME TypeOK, busy, Len(sent) > 0, off <= Len(Current.data)
  PROVE  /\ Current \in Packet
         /\ Take \in 0 .. SegSize
         /\ off + Take <= Len(Current.data)
         /\ Take < SegSize => off + Take = Len(Current.data)
         /\ NewSegment \in Segment
         /\ Len(NewSegment.data) = Take
<1>1. Current \in Packet
  BY ElementOfSeq DEF TypeOK, Current
<1>2. Current.data \in Seq(Byte)
  BY <1>1, FramingAssumption DEF Packet
<1>3. Len(Current.data) \in Nat /\ off \in Nat
  BY <1>2 DEF TypeOK
<1>4. /\ Take \in 0 .. SegSize
      /\ off + Take <= Len(Current.data)
      /\ Take < SegSize => off + Take = Len(Current.data)
  BY <1>3, FramingAssumption DEF Take
<1>5. /\ SubSeq(Current.data, off + 1, off + Take) \in Seq(Byte)
      /\ Len(SubSeq(Current.data, off + 1, off + Take)) = Take
  <2>1. \A i \in off + 1 .. off + Take : Current.data[i] \in Byte
    BY <1>2, <1>3, <1>4, ElementOfSeq
  <2>2. QED BY <2>1, <1>3, <1>4, SubSeqProperties
<1>6. Len(sent) \in Nat
  BY DEF TypeOK
<1>7. QED BY <1>1, <1>3, <1>4, <1>5, <1>6 DEF NewSegment, Segment

\* The page emit_page builds is a page, and it leaves the writer well typed.
LEMMA EmitPageType ==
  ASSUME TypeOK, NEW segs \in Seq(Segment), NEW g \in Granule \cup {NoGranule},
         NEW c \in BOOLEAN, NEW e \in BOOLEAN, EmitPage(segs, g, c, e)
  PROVE  /\ out' \in Seq(Page) /\ lacing' \in Seq(Segment) /\ body_len' \in Nat
         /\ page_granule' \in Granule \cup {NoGranule}
         /\ pending_continued' \in BOOLEAN /\ bos_pending' \in BOOLEAN
         /\ sequence' \in Nat
<1>1. [cont |-> pending_continued, bos |-> bos_pending, eos |-> e, granule |-> g,
       seq |-> sequence, segs |-> segs] \in Page
  BY DEF TypeOK, Page
<1>2. out' \in Seq(Page)
  BY <1>1, AppendProperties DEF EmitPage, TypeOK
<1>3. lacing' = <<>> /\ <<>> \in Seq(Segment)
  BY DEF EmitPage
<1>4. body_len' \in Nat /\ sequence' \in Nat
  BY DEF EmitPage, TypeOK
<1>5. /\ page_granule' \in Granule \cup {NoGranule}
      /\ pending_continued' \in BOOLEAN /\ bos_pending' \in BOOLEAN
  BY Zenon DEF EmitPage
<1>6. QED BY <1>2, <1>3, <1>4, <1>5

\* Emitting a page that holds something keeps the reader's position in range.
LEMMA EmitPagePosition ==
  ASSUME TypeOK, PositionInv, NEW segs \in Seq(Segment), segs # <<>>,
         NEW g \in Granule \cup {NoGranule}, NEW c \in BOOLEAN, NEW e \in BOOLEAN,
         EmitPage(segs, g, c, e), UNCHANGED reader
  PROVE  PositionInv'
<1> DEFINE page == [cont |-> pending_continued, bos |-> bos_pending, eos |-> e, granule |-> g,
                    seq |-> sequence, segs |-> segs]
<1>1. page \in Page
  BY DEF TypeOK, Page
<1>2. out' = Append(out, page) /\ out \in Seq(Page)
  BY DEF EmitPage, TypeOK
<1>3. /\ Len(out') = Len(out) + 1 /\ Len(out) \in Nat
      /\ \A i \in 1 .. Len(out) : out'[i] = out[i]
      /\ out'[Len(out) + 1] = page
  BY <1>1, <1>2, AppendProperties
<1>4. Len(page.segs) > 0
  BY EmptySeq
<1>5. \A i \in 1 .. Len(out') : Len(out'[i].segs) > 0
  BY <1>3, <1>4 DEF PositionInv
<1>6. rpage' = rpage /\ in_page' = in_page /\ rlace' = rlace
  BY DEF reader
<1>7. QED BY <1>3, <1>5, <1>6, Z3 DEF PositionInv

LEMMA TypeInit == Init => TypeInv
<1> SUFFICES ASSUME Init PROVE TypeInv
  OBVIOUS
<1>1. TypeOK
  <2>1. WriterFlagsOK /\ ReaderFlagsOK
    BY DEF Init, WriterFlagsOK, ReaderFlagsOK
  <2>2. WriterDataOK
    BY DEF Init, WriterDataOK
  <2>3. ReaderDataOK
    BY DEF Init, ReaderDataOK
  <2>4. QED BY <2>1, <2>2, <2>3, TypeParts
<1>2. CursorInv
  BY FramingAssumption DEF Init, CursorInv
<1>3. PositionInv
  BY DEF Init, PositionInv
<1>4. QED BY <1>1, <1>2, <1>3 DEF TypeInv

LEMMA TypeWriter == TypeInv /\ Writer => TypeInv'
<1> SUFFICES ASSUME TypeInv, Writer PROVE TypeInv'
  OBVIOUS
<1> USE DEF TypeInv
<1>1. /\ UNCHANGED reader
      /\ rpage' = rpage /\ rlace' = rlace /\ in_page' = in_page /\ got' = got
      /\ pending' = pending /\ mid_packet' = mid_packet /\ locked' = locked
      /\ resets' = resets /\ foreign' = foreign
  <2>1. UNCHANGED reader
    BY Zenon DEF Writer, PushPacket, PutSegment, SpillPage, FlushPage, Finish, SetPageTarget
  <2>2. QED BY <2>1, Zenon DEF reader
<1>9. ReaderFlagsOK' /\ ReaderDataOK'
  BY <1>1, TypeParts, Zenon DEF ReaderFlagsOK, ReaderDataOK
<1>2. ASSUME NEW data \in Payload, NEW granule \in Granule, PushPacket(data, granule)
      PROVE  TypeInv'
  <2>1. sent' \in Seq(Packet) /\ Len(sent') = Len(sent) + 1 /\ Len(sent) \in Nat
    BY <1>2, AppendProperties DEF PushPacket, TypeOK, Packet
  <2>2. off' = 0 /\ busy' = TRUE /\ Len(lacing) \in Nat
        /\ ~closed' /\ closed' = closed /\ page_target' = page_target
    BY <1>2 DEF PushPacket, TypeOK
  <2>3. sent'[Len(sent')].data \in Seq(Byte)
    <3>1. Len(sent') \in 1 .. Len(sent')
      BY <2>1
    <3>2. sent'[Len(sent')] \in Packet
      BY <2>1, <3>1, ElementOfSeq
    <3>3. QED BY <3>2, FramingAssumption DEF Packet
  <2>4. CASE Len(lacing) = MaxSegs
    <3>1. EmitPage(lacing, page_granule, FALSE, FALSE) /\ lacing # <<>>
      BY <1>2, <2>4, FramingAssumption DEF PushPacket
    <3>2. PositionInv'
      BY <3>1, <1>1, EmitPagePosition DEF TypeOK
    <3>3. lacing' = <<>>
      BY <3>1 DEF EmitPage
    <3>4. CursorInv'
      BY <3>3, <2>1, <2>2, <2>3, FramingAssumption DEF CursorInv
    <3>5. TypeOK'
      <4>1. WriterDataOK'
        BY <3>1, EmitPageType, <2>1, <2>2 DEF TypeOK, WriterDataOK
      <4>2. WriterFlagsOK'
        BY <3>1, EmitPageType, <2>2 DEF TypeOK, WriterFlagsOK
      <4>3. QED BY <4>1, <4>2, <1>9, Zenon DEF TypeOK, WriterFlagsOK, WriterDataOK, ReaderFlagsOK, ReaderDataOK
    <3>6. QED BY <3>2, <3>4, <3>5
  <2>5. CASE Len(lacing) # MaxSegs
    <3>1. KeepPage
      BY <1>2, <2>5 DEF PushPacket
    <3>2. PositionInv' /\ lacing' = lacing
      BY <3>1, <1>1 DEF KeepPage, PositionInv
    <3>3. CursorInv'
      BY <3>2, <2>1, <2>2, <2>3, <2>5, FramingAssumption DEF CursorInv
    <3>4. TypeOK'
      <4>1. WriterDataOK'
        BY <3>1, <2>1, <2>2 DEF TypeOK, KeepPage, WriterDataOK
      <4>2. WriterFlagsOK'
        BY <3>1, <2>2 DEF TypeOK, KeepPage, WriterFlagsOK
      <4>3. QED BY <4>1, <4>2, <1>9, Zenon DEF TypeOK, WriterFlagsOK, WriterDataOK, ReaderFlagsOK, ReaderDataOK
    <3>5. QED BY <3>2, <3>3, <3>4
  <2>6. QED BY <2>4, <2>5
<1>3. ASSUME PutSegment PROVE TypeInv'
  <2>1. /\ Current \in Packet /\ Take \in 0 .. SegSize /\ off + Take <= Len(Current.data)
        /\ NewSegment \in Segment /\ busy
    BY <1>3, NewSegmentType DEF PutSegment, CursorInv, Current
  <2>2. sent' = sent /\ closed' = closed /\ page_target' = page_target /\ ~closed
    BY <1>3 DEF PutSegment, CursorInv
  <2>3. /\ Append(lacing, NewSegment) \in Seq(Segment)
        /\ Append(lacing, NewSegment) # <<>>
        /\ Len(Append(lacing, NewSegment)) = Len(lacing) + 1
        /\ Len(lacing) \in Nat /\ Len(lacing) < MaxSegs
        /\ Current.granule \in Granule
    <3>1. lacing \in Seq(Segment) /\ Len(lacing) < MaxSegs
      BY <1>3 DEF PutSegment, TypeOK
    <3>2. Current.granule \in Granule
      BY <2>1 DEF Packet
    <3>3. QED BY <3>1, <3>2, <2>1, AppendProperties
  <2>4. CASE Take < SegSize /\ page_target # NoTarget /\ body_len + Take >= page_target
    <3>1. EmitPage(Append(lacing, NewSegment), Current.granule, FALSE, FALSE) /\ busy' = FALSE /\ off' = 0
      BY <1>3, <2>4 DEF PutSegment
    <3>2. PositionInv'
      BY <3>1, <2>3, <1>1, EmitPagePosition
    <3>3. lacing' = <<>>
      BY <3>1 DEF EmitPage
    <3>4. CursorInv'
      BY <3>1, <3>3, <2>2, FramingAssumption DEF CursorInv
    <3>5. TypeOK'
      <4>1. WriterDataOK'
        BY <3>1, <2>3, EmitPageType, <2>2 DEF TypeOK, WriterDataOK
      <4>2. WriterFlagsOK'
        BY <3>1, <2>3, EmitPageType, <2>2 DEF TypeOK, WriterFlagsOK
      <4>3. QED BY <4>1, <4>2, <1>9, Zenon DEF TypeOK, WriterFlagsOK, WriterDataOK, ReaderFlagsOK, ReaderDataOK
    <3>6. QED BY <3>2, <3>4, <3>5
  <2>5. CASE Take < SegSize /\ ~(page_target # NoTarget /\ body_len + Take >= page_target)
    <3>1. /\ lacing' = Append(lacing, NewSegment) /\ body_len' = body_len + Take
          /\ page_granule' = Current.granule /\ busy' = FALSE /\ off' = 0
          /\ UNCHANGED <<pending_continued, bos_pending, sequence, out>>
      BY <1>3, <2>5 DEF PutSegment
    <3>2. PositionInv'
      BY <3>1, <1>1 DEF PositionInv
    <3>3. CursorInv'
      BY <3>1, <2>2, <2>3, FramingAssumption DEF CursorInv
    <3>4. TypeOK'
      <4>1. WriterDataOK'
        BY <3>1, <2>1, <2>2, <2>3, FramingAssumption DEF TypeOK, WriterDataOK
      <4>2. WriterFlagsOK'
        BY <3>1, <2>2, Zenon DEF TypeOK, WriterFlagsOK
      <4>3. QED BY <4>1, <4>2, <1>9, Zenon DEF TypeOK, WriterFlagsOK, WriterDataOK, ReaderFlagsOK, ReaderDataOK
    <3>5. QED BY <3>2, <3>3, <3>4
  <2>6. CASE ~(Take < SegSize)
    <3>1. /\ lacing' = Append(lacing, NewSegment) /\ body_len' = body_len + Take
          /\ off' = off + Take /\ Take = SegSize /\ busy' = busy
          /\ UNCHANGED <<page_granule, pending_continued, bos_pending, sequence, out>>
      BY <1>3, <2>1, <2>6, FramingAssumption DEF PutSegment
    <3>2. PositionInv'
      BY <3>1, <1>1 DEF PositionInv
    <3>3. CursorInv'
      BY <3>1, <2>1, <2>2, <2>3, FramingAssumption DEF CursorInv, Current, TypeOK
    <3>4. TypeOK'
      <4>1. WriterDataOK'
        BY <3>1, <2>1, <2>2, <2>3, FramingAssumption DEF TypeOK, WriterDataOK
      <4>2. WriterFlagsOK'
        BY <3>1, <2>2, Zenon DEF TypeOK, WriterFlagsOK
      <4>3. QED BY <4>1, <4>2, <1>9, Zenon DEF TypeOK, WriterFlagsOK, WriterDataOK, ReaderFlagsOK, ReaderDataOK
    <3>5. QED BY <3>2, <3>3, <3>4
  <2>7. QED BY <2>4, <2>5, <2>6
<1>4. ASSUME SpillPage PROVE TypeInv'
  <2>1. /\ EmitPage(lacing, page_granule, TRUE, FALSE) /\ lacing # <<>>
        /\ UNCHANGED <<sent, busy, off, page_target, closed>> /\ busy
    BY <1>4, FramingAssumption DEF SpillPage
  <2>2. PositionInv'
    BY <2>1, <1>1, EmitPagePosition DEF TypeOK
  <2>3. lacing' = <<>>
    BY <2>1 DEF EmitPage
  <2>4. CursorInv'
    BY <2>1, <2>3, FramingAssumption DEF CursorInv
  <2>5. TypeOK'
    BY <2>1, EmitPageType, <1>1 DEF TypeOK
  <2>6. QED BY <2>2, <2>4, <2>5
<1>5. ASSUME FlushPage PROVE TypeInv'
  <2>1. /\ EmitPage(lacing, page_granule, FALSE, FALSE) /\ lacing # <<>>
        /\ UNCHANGED <<sent, busy, off, page_target, closed>> /\ ~busy /\ ~closed
    BY <1>5 DEF FlushPage
  <2>2. PositionInv'
    BY <2>1, <1>1, EmitPagePosition DEF TypeOK
  <2>3. lacing' = <<>>
    BY <2>1 DEF EmitPage
  <2>4. CursorInv'
    BY <2>1, <2>3, FramingAssumption DEF CursorInv
  <2>5. TypeOK'
    BY <2>1, EmitPageType, <1>1 DEF TypeOK
  <2>6. QED BY <2>2, <2>4, <2>5
<1>6. ASSUME Finish PROVE TypeInv'
  <2>1. UNCHANGED <<sent, busy, off, page_target>> /\ ~busy /\ closed' = TRUE
    BY <1>6 DEF Finish
  <2>2. CASE lacing # <<>>
    <3>1. EmitPage(lacing, page_granule, FALSE, TRUE)
      BY <1>6, <2>2 DEF Finish
    <3>2. PositionInv'
      BY <3>1, <2>2, <1>1, EmitPagePosition DEF TypeOK
    <3>3. lacing' = <<>>
      BY <3>1 DEF EmitPage
    <3>4. CursorInv'
      BY <2>1, <3>3, FramingAssumption DEF CursorInv
    <3>5. TypeOK'
      BY <3>1, <2>1, EmitPageType, <1>1 DEF TypeOK
    <3>6. QED BY <3>2, <3>4, <3>5
  <2>3. CASE lacing = <<>>
    <3>1. /\ UNCHANGED <<lacing, body_len, page_granule, pending_continued, bos_pending, sequence>>
          /\ out' = IF out = <<>> THEN out ELSE [out EXCEPT ![Len(out)].eos = TRUE]
      BY <1>6, <2>3 DEF Finish
    <3>2. /\ out' \in Seq(Page) /\ Len(out') = Len(out)
          /\ \A i \in 1 .. Len(out) : out'[i].segs = out[i].segs
      <4>1. CASE out = <<>>
        BY <3>1, <4>1 DEF TypeOK
      <4>2. CASE out # <<>>
        <5>1. out \in Seq(Page) /\ Len(out) \in 1 .. Len(out)
          BY <4>2, EmptySeq DEF TypeOK
        <5> DEFINE last == [out[Len(out)] EXCEPT !.eos = TRUE]
        <5>2. out[Len(out)] \in Page
          BY <5>1, ElementOfSeq
        <5>3. last \in Page /\ last.segs = out[Len(out)].segs
          BY <5>2 DEF Page
        <5>4. out' = [out EXCEPT ![Len(out)] = last]
          BY <3>1, <4>2
        <5> HIDE DEF last
        <5>5. /\ out' \in Seq(Page) /\ Len(out') = Len(out)
              /\ \A i \in 1 .. Len(out) : out'[i] = IF i = Len(out) THEN last ELSE out[i]
          BY <5>1, <5>3, <5>4, ExceptSeq
        <5>6. QED BY <5>3, <5>5
      <4>3. QED BY <4>1, <4>2
    <3>3. PositionInv'
      BY <3>2, <1>1 DEF PositionInv
    <3>4. CursorInv'
      BY <2>1, <2>3, <3>1 DEF CursorInv
    <3>5. TypeOK'
      BY <2>1, <3>1, <3>2, <1>1 DEF TypeOK
    <3>6. QED BY <3>3, <3>4, <3>5
  <2>4. QED BY <2>2, <2>3
<1>7. ASSUME NEW t \in Target \cup {NoTarget}, SetPageTarget(t) PROVE TypeInv'
  <2>1. /\ page_target' = t
        /\ UNCHANGED <<sent, busy, off, lacing, body_len, page_granule, pending_continued,
                       bos_pending, sequence, closed, out>>
    BY <1>7 DEF SetPageTarget
  <2>2. QED BY <2>1, <1>1 DEF TypeOK, CursorInv, PositionInv
<1>8. QED BY <1>2, <1>3, <1>4, <1>5, <1>6, <1>7 DEF Writer

LEMMA TypeReader == TypeInv /\ Reader => TypeInv'
<1> SUFFICES ASSUME TypeInv, Reader PROVE TypeInv'
  OBVIOUS
<1> USE DEF TypeInv
<1>1. UNCHANGED writer
  BY Zenon DEF Reader, RefusePage, AcceptPage, TakeSegment, PushForeign, Reset
<1>2. /\ sent' = sent /\ busy' = busy /\ off' = off /\ lacing' = lacing /\ body_len' = body_len
      /\ page_granule' = page_granule /\ pending_continued' = pending_continued
      /\ bos_pending' = bos_pending /\ sequence' = sequence /\ page_target' = page_target
      /\ closed' = closed /\ out' = out
  BY <1>1, Zenon DEF writer
<1>3. CursorInv'
  BY <1>2 DEF CursorInv
<1>4. WriterFlagsOK' /\ WriterDataOK'
  BY <1>2, Zenon DEF TypeOK, WriterFlagsOK, WriterDataOK
<1>5. SUFFICES ReaderFlagsOK' /\ ReaderDataOK' /\ PositionInv'
  BY <1>3, <1>4, Zenon DEF TypeOK, WriterFlagsOK, WriterDataOK, ReaderFlagsOK, ReaderDataOK
<1>6. Len(out) \in Nat
  BY DEF TypeOK
<1>7. CASE RefusePage
  <2>1. /\ ~in_page /\ rpage <= Len(out) /\ rpage' = rpage + 1
        /\ locked' = IF locked = "none" THEN "own" ELSE locked
        /\ UNCHANGED <<pending, mid_packet, rlace, in_page, got, resets, foreign>>
    BY <1>7 DEF RefusePage, PageToPush
  <2>2. PositionInv'
    BY <2>1, <1>2, <1>6 DEF PositionInv
  <2>3. ReaderDataOK'
    BY <2>1 DEF TypeOK, ReaderDataOK
  <2>4. ReaderFlagsOK'
    BY <2>1 DEF TypeOK, ReaderFlagsOK
  <2>5. QED BY <2>2, <2>3, <2>4
<1>8. CASE AcceptPage
  <2>1. /\ ~in_page /\ rpage <= Len(out) /\ locked' = "own" /\ in_page' = TRUE /\ rlace' = 0
        /\ UNCHANGED <<pending, mid_packet, rpage, got, resets, foreign>>
    BY <1>8 DEF AcceptPage, PageToPush
  <2>2. PositionInv'
    BY <2>1, <1>2, <1>6 DEF PositionInv
  <2>3. ReaderDataOK'
    BY <2>1 DEF TypeOK, ReaderDataOK
  <2>4. ReaderFlagsOK'
    BY <2>1 DEF TypeOK, ReaderFlagsOK
  <2>5. QED BY <2>2, <2>3, <2>4
<1>9. CASE TakeSegment
  <2> DEFINE segs == out[rpage].segs
             s    == segs[rlace + 1]
  <2>1. in_page /\ UNCHANGED <<locked, resets, foreign>>
    BY <1>9 DEF TakeSegment
  <2>2. rpage \in 1 .. Len(out) /\ rlace \in Nat /\ rlace < Len(segs)
    BY <2>1 DEF PositionInv, TypeOK
  <2>3. out[rpage] \in Page
    BY <2>2, ElementOfSeq DEF TypeOK
  <2>4. segs \in Seq(Segment) /\ Len(segs) \in Nat
    BY <2>3 DEF Page
  <2>5. rlace + 1 \in 1 .. Len(segs)
    BY <2>2, <2>4
  <2>6. s \in Segment
    BY <2>4, <2>5, ElementOfSeq
  <2>7. s.data \in Seq(Byte) /\ s.pkt \in Nat
    BY <2>6 DEF Segment
  <2>8. pending \o s.data \in Seq(Byte)
    BY <2>7, ConcatProperties DEF TypeOK
  <2>9. /\ pending' \in Seq(Byte) /\ got' \in Seq(Delivery)
    <3>1. CASE Open(s)
      BY <1>9, <3>1, <2>8 DEF TakeSegment, TypeOK
    <3>2. CASE ~Open(s)
      <4>1. got' = Append(got, [pkt |-> s.pkt, data |-> pending \o s.data]) /\ pending' = <<>>
        BY <1>9, <3>2 DEF TakeSegment
      <4>2. [pkt |-> s.pkt, data |-> pending \o s.data] \in Delivery
        BY <2>7, <2>8 DEF Delivery
      <4>3. got \in Seq(Delivery)
        BY DEF TypeOK
      <4>4. QED BY <4>1, <4>2, <4>3, AppendProperties
    <3>3. QED BY <3>1, <3>2
  <2>10. mid_packet' \in BOOLEAN
    BY <1>9 DEF TakeSegment
  <2>11. \/ in_page' = FALSE /\ rlace' = 0 /\ rpage' = rpage + 1
         \/ rlace + 1 # Len(segs) /\ rlace' = rlace + 1 /\ in_page' = in_page /\ rpage' = rpage
    BY <1>9 DEF TakeSegment
  <2>12. PositionInv'
    <3>1. CASE in_page' = FALSE /\ rlace' = 0 /\ rpage' = rpage + 1
      BY <3>1, <2>2, <1>2, <1>6 DEF PositionInv
    <3>2. CASE rlace + 1 # Len(segs) /\ rlace' = rlace + 1 /\ in_page' = in_page /\ rpage' = rpage
      <4>1. rlace' < Len(out'[rpage'].segs)
        BY <3>2, <2>2, <2>4, <1>2
      <4>2. QED BY <3>2, <4>1, <2>1, <2>2, <1>2 DEF PositionInv
    <3>3. QED BY <2>11, <3>1, <3>2
  <2>13. rpage' \in Nat /\ rlace' \in Nat
    BY <2>11, <2>2
  <2>16. in_page' \in BOOLEAN
    BY <2>11, <2>1 DEF TypeOK
  <2>14. ReaderDataOK'
    BY <2>1, <2>9, <2>13 DEF TypeOK, ReaderDataOK
  <2>15. QED BY <2>12, <2>14, <2>10, <2>16, Zenon DEF ReaderFlagsOK
<1>10. CASE PushForeign
  <2>1. /\ foreign' = foreign + 1
        /\ locked' = IF locked = "none" THEN "other" ELSE locked
        /\ UNCHANGED <<pending, mid_packet, rpage, rlace, in_page, got, resets>>
    BY <1>10 DEF PushForeign
  <2>2. PositionInv'
    BY <2>1, <1>2 DEF PositionInv
  <2>3. ReaderDataOK'
    BY <2>1 DEF TypeOK, ReaderDataOK
  <2>4. ReaderFlagsOK'
    BY <2>1 DEF TypeOK, ReaderFlagsOK
  <2>5. QED BY <2>2, <2>3, <2>4
<1>11. ASSUME NEW page \in 1 .. Len(out) + 1, Reset(page)
       PROVE  ReaderFlagsOK' /\ ReaderDataOK' /\ PositionInv'
  <2>1. /\ ~in_page /\ locked' = "none" /\ pending' = <<>> /\ mid_packet' = FALSE
        /\ rpage' = page /\ resets' = resets + 1 /\ UNCHANGED <<rlace, in_page, got, foreign>>
    BY <1>11 DEF Reset
  <2>2. PositionInv'
    BY <2>1, <1>2, <1>6 DEF PositionInv
  <2>3. ReaderDataOK'
    BY <2>1, <1>6 DEF TypeOK, ReaderDataOK
  <2>4. ReaderFlagsOK'
    BY <2>1 DEF TypeOK, ReaderFlagsOK
  <2>5. QED BY <2>2, <2>3, <2>4
<1>12. QED BY <1>7, <1>8, <1>9, <1>10, <1>11 DEF Reader

\* A step that changes nothing keeps TypeInv.
LEMMA TypeStutter == TypeInv /\ UNCHANGED vars => TypeInv'
<1> SUFFICES ASSUME TypeInv, UNCHANGED vars PROVE TypeInv'
  OBVIOUS
<1>1. UNCHANGED writer /\ UNCHANGED reader
  BY DEF vars
<1>2. TypeOK'
  BY <1>1, Zenon DEF TypeInv, TypeOK, writer, reader
<1>3. CursorInv'
  BY <1>1 DEF TypeInv, CursorInv, writer
<1>4. PositionInv'
  BY <1>1 DEF TypeInv, PositionInv, writer, reader
<1>5. QED BY <1>2, <1>3, <1>4 DEF TypeInv

LEMMA TypeStep == TypeInv /\ [Next]_vars => TypeInv'
BY TypeWriter, TypeReader, TypeStutter, Zenon DEF Next, Terminated

\* The variables of PageWriter and PacketAssembler keep their types, and the
\* cursors of both loops stay inside the packet, the table and the pages.
THEOREM TypeCorrect == Spec => [](TypeOK /\ CursorInv /\ PositionInv)
<1>1. Spec => []TypeInv
  BY TypeInit, TypeStep, PTL DEF Spec
<1>2. TypeInv => TypeOK /\ CursorInv /\ PositionInv
  BY DEF TypeInv
<1>3. QED BY <1>1, <1>2, PTL

-----------------------------------------------------------------------------
(* Positions, segments and runs, over a sequence q of packets.             *)

\* The segment after s is cut at o of packet pkt.
Leads(s, pkt, o) == IF Open(s) THEN pkt = s.pkt /\ o = s.off + SegSize
                               ELSE pkt = s.pkt + 1 /\ o = 0

\* s lies strictly before any later segment of packet pkt.
Before(s, pkt) == s.pkt < pkt \/ (s.pkt = pkt /\ Open(s))

\* s is the piece of its packet at its offset, and only the last is short.
Cut(q, s) ==
  /\ s.pkt \in 1 .. Len(q)
  /\ s.off + Len(s.data) <= Len(q[s.pkt].data)
  /\ s.data = SubSeq(q[s.pkt].data, s.off + 1, s.off + Len(s.data))
  /\ ~Open(s) => s.off + Len(s.data) = Len(q[s.pkt].data)

\* Segments in order and without a gap.
Run(q, segs) ==
  /\ \A k \in 1 .. Len(segs) : Cut(q, segs[k])
  /\ \A k \in 1 .. Len(segs) - 1 : Leads(segs[k], segs[k + 1].pkt, segs[k + 1].off)
  /\ \A k, l \in 1 .. Len(segs) : k < l => Before(segs[k], segs[l].pkt)

\* A run that ends where position <<pkt, o>> begins.
RunsTo(segs, pkt, o) ==
  /\ segs # <<>> => Leads(segs[Len(segs)], pkt, o)
  /\ \A k \in 1 .. Len(segs) : Before(segs[k], pkt)

\* Pages: each a run, continued exactly when it starts inside a packet, the
\* first at the start of a packet, each other where the one before it leads.
PageRuns(q, pages) ==
  /\ pages # <<>> => First(pages[1]).off = 0
  /\ \A i \in 1 .. Len(pages) : /\ Len(pages[i].segs) > 0
                                /\ Run(q, pages[i].segs)
                                /\ pages[i].cont <=> First(pages[i]).off # 0
  /\ \A i \in 1 .. Len(pages) - 1 :
       Leads(Last(pages[i]), First(pages[i + 1]).pkt, First(pages[i + 1]).off)
  /\ \A i, j \in 1 .. Len(pages) : i < j =>
       \A k \in 1 .. Len(pages[i].segs), l \in 1 .. Len(pages[j].segs) :
         Before(pages[i].segs[k], pages[j].segs[l].pkt)

\* Pages that end where position <<pkt, o>> begins.
PagesReach(pages, pkt, o) ==
  /\ pages = <<>> => o = 0
  /\ pages # <<>> => Leads(Last(pages[Len(pages)]), pkt, o)
  /\ \A i \in 1 .. Len(pages) : \A k \in 1 .. Len(pages[i].segs) : Before(pages[i].segs[k], pkt)

LEMMA SegmentTypes ==
  ASSUME NEW segs \in Seq(Segment), NEW k \in 1 .. Len(segs)
  PROVE  /\ segs[k] \in Segment /\ segs[k].pkt \in Nat /\ segs[k].off \in Nat
         /\ segs[k].data \in Seq(Byte)
<1>1. segs[k] \in Segment
  BY ElementOfSeq
<1>2. QED BY <1>1 DEF Segment

LEMMA PageTypes ==
  ASSUME NEW pages \in Seq(Page), NEW i \in 1 .. Len(pages)
  PROVE  pages[i] \in Page /\ pages[i].segs \in Seq(Segment) /\ Len(pages[i].segs) \in Nat
<1>1. pages[i] \in Page
  BY ElementOfSeq
<1>2. QED BY <1>1 DEF Page

\* Later packets do not disturb a run.
LEMMA RunGrows ==
  ASSUME NEW q \in Seq(Packet), NEW p \in Packet, NEW segs \in Seq(Segment), Run(q, segs)
  PROVE  Run(Append(q, p), segs)
<1>1. /\ Len(Append(q, p)) = Len(q) + 1 /\ Len(q) \in Nat
      /\ \A i \in 1 .. Len(q) : Append(q, p)[i] = q[i]
  BY AppendProperties
<1>2. \A k \in 1 .. Len(segs) : Cut(Append(q, p), segs[k])
  BY <1>1 DEF Run, Cut
<1>3. QED BY <1>2 DEF Run

LEMMA PageRunsGrow ==
  ASSUME NEW q \in Seq(Packet), NEW p \in Packet, NEW pages \in Seq(Page), PageRuns(q, pages)
  PROVE  PageRuns(Append(q, p), pages)
<1>1. \A i \in 1 .. Len(pages) : pages[i].segs \in Seq(Segment)
  BY PageTypes
<1>2. \A i \in 1 .. Len(pages) : Run(Append(q, p), pages[i].segs)
  BY <1>1, RunGrows DEF PageRuns
<1>3. QED BY <1>2 DEF PageRuns

\* Appending the next segment of the current packet extends a run.
LEMMA RunAppend ==
  ASSUME NEW q \in Seq(Packet), NEW segs \in Seq(Segment), NEW s \in Segment,
         Run(q, segs), RunsTo(segs, s.pkt, s.off), Cut(q, s)
  PROVE  Run(q, Append(segs, s))
<1> DEFINE t == Append(segs, s)
<1>1. /\ t \in Seq(Segment) /\ Len(t) = Len(segs) + 1 /\ Len(segs) \in Nat
      /\ \A k \in 1 .. Len(segs) : t[k] = segs[k]
      /\ t[Len(segs) + 1] = s
  BY AppendProperties
<1> HIDE DEF t
<1>2. \A k \in 1 .. Len(t) : Cut(q, t[k])
  BY <1>1 DEF Run
<1>3. ASSUME NEW k \in 1 .. Len(t) - 1 PROVE Leads(t[k], t[k + 1].pkt, t[k + 1].off)
  <2>1. CASE k = Len(segs)
    BY <1>1, <2>1, EmptySeq DEF RunsTo
  <2>2. CASE k < Len(segs)
    <3>1. k \in 1 .. Len(segs) - 1 /\ t[k] = segs[k] /\ t[k + 1] = segs[k + 1]
      BY <1>1, <2>2
    <3>2. QED BY <3>1 DEF Run
  <2>3. QED BY <1>1, <2>1, <2>2
<1>4. ASSUME NEW k \in 1 .. Len(t), NEW l \in 1 .. Len(t), k < l PROVE Before(t[k], t[l].pkt)
  <2>1. CASE l = Len(segs) + 1
    BY <1>1, <1>4, <2>1 DEF RunsTo
  <2>2. CASE l <= Len(segs)
    BY <1>1, <1>4, <2>2 DEF Run
  <2>3. QED BY <1>1, <2>1, <2>2
<1>5. QED BY <1>2, <1>3, <1>4 DEF t, Run

\* ... and leads past it, to the next segment or to the next packet.
LEMMA RunsToAppend ==
  ASSUME NEW segs \in Seq(Segment), NEW s \in Segment, RunsTo(segs, s.pkt, s.off),
         NEW pkt \in Nat, NEW o \in Nat, Leads(s, pkt, o)
  PROVE  RunsTo(Append(segs, s), pkt, o)
<1>1. /\ Len(Append(segs, s)) = Len(segs) + 1 /\ Len(segs) \in Nat
      /\ \A k \in 1 .. Len(segs) : Append(segs, s)[k] = segs[k]
      /\ Append(segs, s)[Len(segs) + 1] = s
  BY AppendProperties
<1>2. s.pkt \in Nat
  BY DEF Segment
<1>3. Before(s, pkt) /\ s.pkt <= pkt
  BY <1>2 DEF Leads, Before
<1>4. \A k \in 1 .. Len(segs) : Before(segs[k], pkt)
  <2>1. \A k \in 1 .. Len(segs) : segs[k] \in Segment
    BY ElementOfSeq
  <2>2. \A k \in 1 .. Len(segs) : segs[k].pkt \in Nat
    BY <2>1 DEF Segment
  <2>3. \A k \in 1 .. Len(segs) : Before(segs[k], s.pkt)
    BY DEF RunsTo
  <2>4. QED BY <1>2, <1>3, <2>2, <2>3 DEF Before
<1>5. QED BY <1>1, <1>3, <1>4 DEF RunsTo

\* A position later than the start of a run is later than what came before it.
LEMMA ReachLater ==
  ASSUME NEW pages \in Seq(Page), NEW pkt \in Nat, NEW o \in Nat, PagesReach(pages, pkt, o),
         NEW later \in Nat, pkt <= later
  PROVE  \A i \in 1 .. Len(pages) : \A k \in 1 .. Len(pages[i].segs) : Before(pages[i].segs[k], later)
<1>1. \A i \in 1 .. Len(pages) : pages[i].segs \in Seq(Segment)
  BY PageTypes
<1>2. \A i \in 1 .. Len(pages) : \A k \in 1 .. Len(pages[i].segs) : pages[i].segs[k].pkt \in Nat
  BY <1>1, SegmentTypes
<1>3. QED BY <1>2 DEF PagesReach, Before

\* Emitting a page that starts where the pages lead keeps them in order, and
\* they then lead where the new page does.
LEMMA PageRunsAppend ==
  ASSUME NEW q \in Seq(Packet), NEW pages \in Seq(Page), NEW p \in Page,
         Len(p.segs) > 0, PageRuns(q, pages), Run(q, p.segs),
         p.cont <=> First(p).off # 0,
         PagesReach(pages, First(p).pkt, First(p).off),
         NEW pkt \in Nat, NEW o \in Nat, RunsTo(p.segs, pkt, o)
  PROVE  PageRuns(q, Append(pages, p)) /\ PagesReach(Append(pages, p), pkt, o)
<1> DEFINE t == Append(pages, p)
<1>1. /\ t \in Seq(Page) /\ Len(t) = Len(pages) + 1 /\ Len(pages) \in Nat /\ t # <<>>
      /\ \A k \in 1 .. Len(pages) : t[k] = pages[k]
      /\ t[Len(pages) + 1] = p
  BY AppendProperties
<1>2. p.segs \in Seq(Segment) /\ Len(p.segs) \in Nat
  BY DEF Page
<1>3. \A k \in 1 .. Len(p.segs) : p.segs[k].pkt \in Nat /\ p.segs[k].off \in Nat
  BY <1>2, SegmentTypes
<1>4. \A k \in 1 .. Len(p.segs) : First(p).pkt <= p.segs[k].pkt /\ p.segs[k].pkt <= pkt
  <2>1. \A k \in 1 .. Len(p.segs) : k = 1 \/ Before(p.segs[1], p.segs[k].pkt)
    BY <1>2 DEF Run
  <2>2. \A k \in 1 .. Len(p.segs) : p.segs[1].pkt <= p.segs[k].pkt
    <3>1. TAKE k \in 1 .. Len(p.segs)
    <3>2. p.segs[1].pkt \in Nat /\ p.segs[k].pkt \in Nat
      BY <1>2, <1>3
    <3>3. QED BY <2>1, <3>2 DEF Before
  <2>3. \A k \in 1 .. Len(p.segs) : Before(p.segs[k], pkt)
    BY DEF RunsTo
  <2>4. \A k \in 1 .. Len(p.segs) : p.segs[k].pkt <= pkt
    BY <1>3, <2>3 DEF Before
  <2>5. QED BY <2>2, <2>4 DEF First
<1>5. First(p).pkt \in Nat /\ First(p).off \in Nat /\ First(p).pkt <= pkt
  BY <1>2, <1>3, <1>4 DEF First
<1> HIDE DEF t
<1>6. ASSUME NEW i \in 1 .. Len(t)
      PROVE  Len(t[i].segs) > 0 /\ Run(q, t[i].segs) /\ (t[i].cont <=> First(t[i]).off # 0)
  <2>1. CASE i = Len(pages) + 1
    BY <1>1, <2>1
  <2>2. CASE i \in 1 .. Len(pages)
    <3>1. t[i] = pages[i]
      BY <1>1, <2>2
    <3>2. QED BY <2>2, <3>1 DEF PageRuns
  <2>3. QED BY <1>1, <2>1, <2>2
<1>7. ASSUME NEW i \in 1 .. Len(t) - 1
      PROVE  Leads(Last(t[i]), First(t[i + 1]).pkt, First(t[i + 1]).off)
  <2>1. CASE i = Len(pages)
    <3>1. pages # <<>> /\ t[i] = pages[Len(pages)] /\ t[i + 1] = p
      BY <1>1, <2>1, EmptySeq
    <3>2. QED BY <3>1 DEF PagesReach
  <2>2. CASE i < Len(pages)
    <3>1. i \in 1 .. Len(pages) - 1 /\ t[i] = pages[i] /\ t[i + 1] = pages[i + 1]
      BY <1>1, <2>2
    <3>2. QED BY <3>1 DEF PageRuns
  <2>3. QED BY <1>1, <2>1, <2>2
<1>8. ASSUME NEW i \in 1 .. Len(t), NEW j \in 1 .. Len(t), i < j,
             NEW k \in 1 .. Len(t[i].segs), NEW l \in 1 .. Len(t[j].segs)
      PROVE  Before(t[i].segs[k], t[j].segs[l].pkt)
  <2>1. i \in 1 .. Len(pages) /\ t[i] = pages[i]
    BY <1>1, <1>8
  <2>2. CASE j = Len(pages) + 1
    <3>1. t[j] = p
      BY <1>1, <2>2
    <3>2. First(p).pkt <= p.segs[l].pkt /\ p.segs[l].pkt \in Nat
      BY <1>3, <1>4, <3>1
    <3>3. QED BY <1>5, <2>1, <3>1, <3>2, ReachLater
  <2>3. CASE j <= Len(pages)
    <3>1. j \in 1 .. Len(pages) /\ t[j] = pages[j]
      BY <1>1, <2>3
    <3>2. k \in 1 .. Len(pages[i].segs) /\ l \in 1 .. Len(pages[j].segs)
      BY <2>1, <3>1
    <3>3. Before(pages[i].segs[k], pages[j].segs[l].pkt)
      BY <1>8, <2>1, <3>1, <3>2 DEF PageRuns
    <3>4. QED BY <2>1, <3>1, <3>3
  <2>4. QED BY <1>1, <2>2, <2>3
<1>9. PageRuns(q, t)
  <2>1. First(t[1]).off = 0
    <3>1. CASE pages = <<>>
      BY <1>1, <3>1 DEF PagesReach
    <3>2. CASE pages # <<>>
      <4>1. 1 \in 1 .. Len(pages)
        BY <1>1, <3>2, EmptySeq
      <4>2. QED BY <1>1, <3>2, <4>1 DEF PageRuns
    <3>3. QED BY <3>1, <3>2
  <2>2. QED BY <1>6, <1>7, <1>8, <2>1 DEF PageRuns
<1>10. ASSUME NEW i \in 1 .. Len(t), NEW k \in 1 .. Len(t[i].segs) PROVE Before(t[i].segs[k], pkt)
  <2>1. CASE i = Len(pages) + 1
    BY <1>1, <2>1 DEF RunsTo
  <2>2. CASE i <= Len(pages)
    BY <1>1, <1>5, <2>2, ReachLater
  <2>3. QED BY <1>1, <2>1, <2>2
<1>11. Leads(Last(t[Len(t)]), pkt, o)
  <2>1. p.segs # <<>>
    BY <1>2
  <2>2. QED BY <1>1, <2>1 DEF RunsTo, Last
<1>12. QED BY <1>1, <1>9, <1>10, <1>11 DEF t, PagesReach

-----------------------------------------------------------------------------
(* The writer.                                                             *)

\* Where the next segment will be cut, and where the pending page starts.
NextPkt  == IF busy THEN Len(sent) ELSE Len(sent) + 1
StartPkt == IF lacing = <<>> THEN NextPkt ELSE lacing[1].pkt
StartOff == IF lacing = <<>> THEN off ELSE lacing[1].off

WriterInv ==
  /\ PageRuns(sent, out)
  /\ Run(sent, lacing)
  /\ RunsTo(lacing, NextPkt, off)
  /\ PagesReach(out, StartPkt, StartOff)
  /\ pending_continued <=> StartOff # 0

LEMMA EmptyRun ==
  ASSUME NEW q, NEW pkt, NEW o
  PROVE  Run(q, <<>>) /\ RunsTo(<<>>, pkt, o)
BY DEF Run, RunsTo

\* What emit_page does to the pages when it is given a run that starts where
\* they lead.
LEMMA EmitRun ==
  ASSUME TypeInv, NEW q \in Seq(Packet), NEW segs \in Seq(Segment), segs # <<>>,
         NEW g \in Granule \cup {NoGranule}, NEW c \in BOOLEAN, NEW e \in BOOLEAN,
         NEW pkt \in Nat, NEW o \in Nat,
         PageRuns(q, out), Run(q, segs), RunsTo(segs, pkt, o),
         PagesReach(out, segs[1].pkt, segs[1].off),
         pending_continued <=> segs[1].off # 0,
         EmitPage(segs, g, c, e)
  PROVE  /\ PageRuns(q, out') /\ PagesReach(out', pkt, o)
         /\ lacing' = <<>> /\ (pending_continued' <=> c)
<1> DEFINE page == [cont |-> pending_continued, bos |-> bos_pending, eos |-> e, granule |-> g,
                    seq |-> sequence, segs |-> segs]
<1>1. page \in Page
  BY DEF TypeInv, TypeOK, Page
<1>2. /\ page.segs = segs /\ (page.cont <=> pending_continued)
      /\ out' = Append(out, page) /\ out \in Seq(Page)
      /\ lacing' = <<>> /\ (pending_continued' <=> c)
  BY DEF EmitPage, TypeInv, TypeOK
<1>3. Len(page.segs) > 0 /\ First(page) = segs[1]
  BY <1>2, EmptySeq DEF First
<1> HIDE DEF page
<1>4. PageRuns(q, Append(out, page)) /\ PagesReach(Append(out, page), pkt, o)
  BY <1>1, <1>2, <1>3, PageRunsAppend
<1>5. QED BY <1>2, <1>4

\* The pending page is gone: what is left of WriterInv.
LEMMA WriterInvEmitted ==
  ASSUME lacing' = <<>>, PageRuns(sent', out'), PagesReach(out', NextPkt', off'),
         pending_continued' <=> off' # 0
  PROVE  WriterInv'
<1>1. StartPkt' = NextPkt' /\ StartOff' = off'
  BY DEF StartPkt, StartOff
<1>2. QED BY <1>1, EmptyRun DEF WriterInv

LEMMA WriterInit == Init => WriterInv
<1> SUFFICES ASSUME Init PROVE WriterInv
  OBVIOUS
<1>1. out = <<>> /\ lacing = <<>> /\ off = 0 /\ pending_continued = FALSE
  BY DEF Init
<1>2. PageRuns(sent, <<>>) /\ \A pkt : PagesReach(<<>>, pkt, 0)
  BY DEF PageRuns, PagesReach
<1>3. StartOff = 0
  BY <1>1 DEF StartOff
<1>4. QED BY <1>1, <1>2, <1>3, EmptyRun DEF WriterInv

LEMMA WriterPush ==
  ASSUME TypeInv, WriterInv, NEW data \in Payload, NEW granule \in Granule,
         PushPacket(data, granule)
  PROVE  WriterInv'
<1> DEFINE p == [data |-> data, granule |-> granule]
<1>1. p \in Packet /\ sent' = Append(sent, p) /\ sent \in Seq(Packet)
  BY DEF PushPacket, Packet, TypeInv, TypeOK
<1> HIDE DEF p
<1>2. /\ Len(sent') = Len(sent) + 1 /\ Len(sent) \in Nat
      /\ ~busy /\ busy' = TRUE /\ off = 0 /\ off' = 0
      /\ sent' \in Seq(Packet)
  BY <1>1, AppendProperties DEF PushPacket, TypeInv, CursorInv
<1>3. NextPkt' = Len(sent) + 1 /\ NextPkt = Len(sent) + 1
  BY <1>2 DEF NextPkt
<1>4. PageRuns(sent', out) /\ Run(sent', lacing)
  BY <1>1, PageRunsGrow, RunGrows DEF WriterInv, TypeInv, TypeOK
<1>5. CASE Len(lacing) = MaxSegs
  <2>1. EmitPage(lacing, page_granule, FALSE, FALSE) /\ lacing # <<>>
    BY <1>5, FramingAssumption DEF PushPacket
  <2>2. StartPkt = lacing[1].pkt /\ StartOff = lacing[1].off
    BY <2>1 DEF StartPkt, StartOff
  <2>3. /\ lacing \in Seq(Segment) /\ page_granule \in Granule \cup {NoGranule}
        /\ RunsTo(lacing, Len(sent) + 1, 0)
        /\ PagesReach(out, lacing[1].pkt, lacing[1].off)
        /\ (pending_continued <=> lacing[1].off # 0)
    BY <1>2, <1>3, <2>2 DEF WriterInv, TypeInv, TypeOK
  <2>4. /\ PageRuns(sent', out') /\ PagesReach(out', Len(sent) + 1, 0)
        /\ lacing' = <<>> /\ ~pending_continued'
    <3>1. Len(sent) + 1 \in Nat /\ 0 \in Nat /\ FALSE \in BOOLEAN
      BY <1>2
    <3>2. QED BY <1>2, <1>4, <2>1, <2>3, <3>1, EmitRun, Zenon
  <2>5. QED BY <1>2, <1>3, <2>4, WriterInvEmitted
<1>6. CASE Len(lacing) # MaxSegs
  <2>1. UNCHANGED <<lacing, pending_continued, out>>
    BY <1>6 DEF PushPacket, KeepPage
  <2>2. StartPkt' = StartPkt /\ StartOff' = StartOff
    BY <1>2, <1>3, <2>1 DEF StartPkt, StartOff
  <2>3. QED BY <1>2, <1>3, <1>4, <2>1, <2>2 DEF WriterInv
<1>7. QED BY <1>5, <1>6

\* The segment of PutSegment continues the pending page's run.
LEMMA PutRun ==
  ASSUME TypeInv, WriterInv, PutSegment
  PROVE  /\ Append(lacing, NewSegment) \in Seq(Segment) /\ Append(lacing, NewSegment) # <<>>
         /\ Run(sent, Append(lacing, NewSegment))
         /\ \A pkt, o \in Nat : Leads(NewSegment, pkt, o) => RunsTo(Append(lacing, NewSegment), pkt, o)
         /\ Append(lacing, NewSegment)[1].pkt = StartPkt
         /\ Append(lacing, NewSegment)[1].off = StartOff
         /\ Open(NewSegment) <=> Take = SegSize
         /\ NewSegment.pkt = Len(sent) /\ NewSegment.off = off
<1>1. /\ busy /\ Len(sent) > 0 /\ off <= Len(Current.data)
      /\ lacing \in Seq(Segment) /\ Len(sent) \in Nat /\ off \in Nat
  BY DEF PutSegment, TypeInv, TypeOK, CursorInv, Current
<1>2. /\ Take \in 0 .. SegSize /\ off + Take <= Len(Current.data)
      /\ Take < SegSize => off + Take = Len(Current.data)
      /\ NewSegment \in Segment /\ Len(NewSegment.data) = Take
  BY <1>1, NewSegmentType DEF TypeInv
<1>3. /\ NewSegment.pkt = Len(sent) /\ NewSegment.off = off
      /\ NewSegment.data = SubSeq(Current.data, off + 1, off + Take)
  BY DEF NewSegment
<1>4. Open(NewSegment) <=> Take = SegSize
  BY <1>2 DEF Open
<1>5. Cut(sent, NewSegment)
  BY <1>1, <1>2, <1>3, <1>4, FramingAssumption DEF Cut, Current
<1>6. RunsTo(lacing, NewSegment.pkt, NewSegment.off)
  BY <1>1, <1>3 DEF WriterInv, NextPkt
<1>7. Run(sent, Append(lacing, NewSegment))
  BY <1>1, <1>2, <1>5, <1>6, RunAppend DEF WriterInv, TypeInv, TypeOK
<1>8. ASSUME NEW pkt \in Nat, NEW o \in Nat, Leads(NewSegment, pkt, o)
      PROVE  RunsTo(Append(lacing, NewSegment), pkt, o)
  BY <1>1, <1>2, <1>6, <1>8, RunsToAppend
<1>9. /\ Append(lacing, NewSegment)[1].pkt = StartPkt
      /\ Append(lacing, NewSegment)[1].off = StartOff
  <2>1. CASE lacing = <<>>
    <3>1. Append(lacing, NewSegment)[1] = NewSegment
      BY <2>1
    <3>2. QED BY <1>1, <1>3, <2>1, <3>1 DEF StartPkt, StartOff, NextPkt
  <2>2. CASE lacing # <<>>
    <3>1. Append(lacing, NewSegment)[1] = lacing[1]
      BY <1>1, <1>2, <2>2, EmptySeq, AppendProperties
    <3>2. QED BY <2>2, <3>1 DEF StartPkt, StartOff
  <2>3. QED BY <2>1, <2>2
<1>10. Append(lacing, NewSegment) \in Seq(Segment) /\ Append(lacing, NewSegment) # <<>>
  BY <1>1, <1>2, AppendProperties
<1>11. QED BY <1>3, <1>4, <1>7, <1>8, <1>9, <1>10

LEMMA WriterPut ==
  ASSUME TypeInv, WriterInv, PutSegment
  PROVE  WriterInv'
<1> DEFINE segs == Append(lacing, NewSegment)
<1>1. /\ segs \in Seq(Segment) /\ segs # <<>> /\ Run(sent, segs)
      /\ \A pkt, o \in Nat : Leads(NewSegment, pkt, o) => RunsTo(segs, pkt, o)
      /\ segs[1].pkt = StartPkt /\ segs[1].off = StartOff
      /\ Open(NewSegment) <=> Take = SegSize
      /\ NewSegment.pkt = Len(sent) /\ NewSegment.off = off
  BY PutRun
<1>2. /\ busy /\ sent' = sent /\ sent \in Seq(Packet) /\ Len(sent) \in Nat /\ off \in Nat
      /\ Take \in 0 .. SegSize /\ Current.granule \in Granule
  <2>1. Current \in Packet /\ Take \in 0 .. SegSize
    BY NewSegmentType DEF PutSegment, TypeInv, CursorInv, Current
  <2>2. QED BY <2>1 DEF PutSegment, TypeInv, TypeOK, Packet
<1>3. /\ PageRuns(sent, out) /\ PagesReach(out, segs[1].pkt, segs[1].off)
      /\ (pending_continued <=> segs[1].off # 0)
  BY <1>1 DEF WriterInv
<1>4. CASE Take < SegSize
  <2>1. busy' = FALSE /\ off' = 0
    BY <1>4 DEF PutSegment
  <2>2. NextPkt' = Len(sent) + 1 /\ Len(sent) + 1 \in Nat /\ 0 \in Nat /\ FALSE \in BOOLEAN
    BY <1>2, <2>1 DEF NextPkt
  <2>3. Leads(NewSegment, Len(sent) + 1, 0)
    BY <1>1, <1>2, <1>4, FramingAssumption DEF Leads
  <2>4. RunsTo(segs, Len(sent) + 1, 0)
    BY <1>1, <2>2, <2>3
  <2>5. CASE page_target # NoTarget /\ body_len + Take >= page_target
    <3>1. EmitPage(segs, Current.granule, FALSE, FALSE)
      BY <1>4, <2>5 DEF PutSegment
    <3> HIDE DEF segs
    <3>2. /\ PageRuns(sent, out') /\ PagesReach(out', Len(sent) + 1, 0)
          /\ lacing' = <<>> /\ ~pending_continued'
      BY <1>1, <1>2, <1>3, <2>2, <2>4, <3>1, EmitRun, Zenon
    <3>3. QED BY <1>2, <2>1, <2>2, <3>2, WriterInvEmitted
  <2>6. CASE ~(page_target # NoTarget /\ body_len + Take >= page_target)
    <3>1. lacing' = segs /\ UNCHANGED <<pending_continued, out>>
      BY <1>4, <2>6 DEF PutSegment
    <3>2. StartPkt' = segs[1].pkt /\ StartOff' = segs[1].off
      BY <1>1, <3>1 DEF StartPkt, StartOff
    <3> HIDE DEF segs
    <3>3. QED BY <1>1, <1>2, <1>3, <2>1, <2>2, <2>4, <3>1, <3>2 DEF WriterInv
  <2>7. QED BY <2>5, <2>6
<1>5. CASE ~(Take < SegSize)
  <2>1. /\ off' = off + Take /\ Take = SegSize /\ lacing' = segs /\ busy' = busy
        /\ UNCHANGED <<pending_continued, out>>
    BY <1>2, <1>5, FramingAssumption DEF PutSegment
  <2>2. NextPkt' = Len(sent) /\ off + SegSize \in Nat
    BY <1>2, <2>1, FramingAssumption DEF NextPkt
  <2>3. Leads(NewSegment, Len(sent), off + SegSize)
    BY <1>1, <2>1 DEF Leads
  <2>4. RunsTo(segs, Len(sent), off + SegSize)
    BY <1>1, <1>2, <2>2, <2>3
  <2>5. StartPkt' = segs[1].pkt /\ StartOff' = segs[1].off
    BY <1>1, <2>1 DEF StartPkt, StartOff
  <2> HIDE DEF segs
  <2>6. QED BY <1>1, <1>2, <1>3, <2>1, <2>2, <2>4, <2>5 DEF WriterInv
<1>6. QED BY <1>4, <1>5

\* A page boundary: SpillPage, FlushPage, and finish when a page is pending.
LEMMA WriterEmit ==
  ASSUME TypeInv, WriterInv, lacing # <<>>, NEW c \in BOOLEAN, NEW e \in BOOLEAN,
         EmitPage(lacing, page_granule, c, e), UNCHANGED <<sent, busy, off>>,
         c <=> off # 0
  PROVE  WriterInv'
<1>1. /\ lacing \in Seq(Segment) /\ sent \in Seq(Packet) /\ off \in Nat /\ Len(sent) \in Nat
      /\ page_granule \in Granule \cup {NoGranule}
  BY DEF TypeInv, TypeOK
<1>2. NextPkt \in Nat /\ NextPkt' = NextPkt /\ off' = off /\ sent' = sent
  BY <1>1 DEF NextPkt
<1>3. /\ PageRuns(sent, out) /\ Run(sent, lacing) /\ RunsTo(lacing, NextPkt, off)
      /\ PagesReach(out, lacing[1].pkt, lacing[1].off)
      /\ (pending_continued <=> lacing[1].off # 0)
  BY DEF WriterInv, StartPkt, StartOff
<1>4. /\ PageRuns(sent, out') /\ PagesReach(out', NextPkt, off)
      /\ lacing' = <<>> /\ (pending_continued' <=> c)
  BY <1>1, <1>2, <1>3, EmitRun, Zenon
<1>5. QED BY <1>2, <1>4, WriterInvEmitted

\* Nothing of the segments changes: SetPageTarget, the reader, stuttering.
LEMMA WriterFrame ==
  ASSUME WriterInv, UNCHANGED <<sent, busy, off, lacing, pending_continued, out>>
  PROVE  WriterInv'
<1>1. StartPkt' = StartPkt /\ StartOff' = StartOff /\ NextPkt' = NextPkt
  BY DEF StartPkt, StartOff, NextPkt
<1>2. QED BY <1>1 DEF WriterInv

\* Pages with the same segments and continued flags are in the same order.
LEMMA SameRuns ==
  ASSUME NEW q, NEW pages, NEW pages2, Len(pages2) = Len(pages), Len(pages) \in Nat,
         (pages2 = <<>>) <=> (pages = <<>>), pages # <<>> => Len(pages) \in 1 .. Len(pages),
         \A i \in 1 .. Len(pages) : pages2[i].segs = pages[i].segs /\ (pages2[i].cont <=> pages[i].cont)
  PROVE  /\ PageRuns(q, pages) => PageRuns(q, pages2)
         /\ \A pkt, o : PagesReach(pages, pkt, o) => PagesReach(pages2, pkt, o)
<1>1. /\ \A i \in 1 .. Len(pages) : First(pages2[i]) = First(pages[i]) /\ Last(pages2[i]) = Last(pages[i])
      /\ \A i \in 1 .. Len(pages) - 1 : i \in 1 .. Len(pages) /\ i + 1 \in 1 .. Len(pages)
  BY DEF First, Last
<1>2. ASSUME PageRuns(q, pages) PROVE PageRuns(q, pages2)
  <2>1. pages2 # <<>> => First(pages2[1]).off = 0
    <3>1. pages # <<>> => 1 \in 1 .. Len(pages)
      OBVIOUS
    <3>2. pages # <<>> => First(pages[1]).off = 0
      BY <1>2 DEF PageRuns
    <3>3. QED BY <3>1, <3>2, <1>1
  <2>2. \A i \in 1 .. Len(pages2) : /\ Len(pages2[i].segs) > 0
                                    /\ Run(q, pages2[i].segs)
                                    /\ pages2[i].cont <=> First(pages2[i]).off # 0
    BY <1>1, <1>2 DEF PageRuns
  <2>3. \A i \in 1 .. Len(pages2) - 1 :
          Leads(Last(pages2[i]), First(pages2[i + 1]).pkt, First(pages2[i + 1]).off)
    BY <1>1, <1>2 DEF PageRuns
  <2>4. \A i, j \in 1 .. Len(pages2) : i < j =>
          \A k \in 1 .. Len(pages2[i].segs), l \in 1 .. Len(pages2[j].segs) :
            Before(pages2[i].segs[k], pages2[j].segs[l].pkt)
    BY <1>2 DEF PageRuns
  <2>5. QED BY <2>1, <2>2, <2>3, <2>4 DEF PageRuns
<1>3. \A pkt, o : PagesReach(pages, pkt, o) => PagesReach(pages2, pkt, o)
  BY <1>1 DEF PagesReach
<1>4. QED BY <1>2, <1>3

\* What finish does to the pages already out: nothing but the EOS flag.
LEMMA Restamp ==
  ASSUME TypeInv, Finish, lacing = <<>>
  PROVE  /\ Len(out') = Len(out) /\ (out' = <<>> <=> out = <<>>)
         /\ out # <<>> => Len(out) \in 1 .. Len(out)
         /\ \A i \in 1 .. Len(out) : out'[i].segs = out[i].segs /\ (out'[i].cont <=> out[i].cont)
<1>1. out' = IF out = <<>> THEN out ELSE [out EXCEPT ![Len(out)].eos = TRUE]
  BY DEF Finish
<1>2. CASE out = <<>>
  BY <1>1, <1>2
<1>3. CASE out # <<>>
  <2>1. out \in Seq(Page) /\ Len(out) \in 1 .. Len(out)
    BY <1>3, EmptySeq DEF TypeInv, TypeOK
  <2> DEFINE last == [out[Len(out)] EXCEPT !.eos = TRUE]
  <2>2. out[Len(out)] \in Page
    BY <2>1, ElementOfSeq
  <2>3. last \in Page /\ last.segs = out[Len(out)].segs /\ last.cont = out[Len(out)].cont
    BY <2>2 DEF Page
  <2>4. out' = [out EXCEPT ![Len(out)] = last]
    BY <1>1, <1>3
  <2> HIDE DEF last
  <2>5. /\ out' \in Seq(Page) /\ Len(out') = Len(out)
        /\ \A i \in 1 .. Len(out) : out'[i] = IF i = Len(out) THEN last ELSE out[i]
    BY <2>1, <2>3, <2>4, ExceptSeq
  <2>6. out' # <<>>
    BY <2>1, <2>5, EmptySeq
  <2>7. QED BY <1>3, <2>1, <2>3, <2>5, <2>6
<1>4. QED BY <1>2, <1>3

LEMMA WriterFinish ==
  ASSUME TypeInv, WriterInv, Finish
  PROVE  WriterInv'
<1>1. UNCHANGED <<sent, busy, off>> /\ off = 0
  BY DEF Finish, TypeInv, CursorInv
<1>2. CASE lacing # <<>>
  <2>1. EmitPage(lacing, page_granule, FALSE, TRUE)
    BY <1>2 DEF Finish
  <2>2. QED BY <1>1, <1>2, <2>1, WriterEmit
<1>3. CASE lacing = <<>>
  <2>1. UNCHANGED <<lacing, pending_continued>>
    BY <1>3 DEF Finish
  <2>2. Len(out) \in Nat
    BY DEF TypeInv, TypeOK
  <2>3. /\ PageRuns(sent, out) => PageRuns(sent, out')
        /\ PagesReach(out, StartPkt, StartOff) => PagesReach(out', StartPkt, StartOff)
    BY <1>3, <2>2, Restamp, SameRuns
  <2>4. StartPkt' = StartPkt /\ StartOff' = StartOff /\ NextPkt' = NextPkt
    BY <1>1, <2>1 DEF StartPkt, StartOff, NextPkt
  <2>5. QED BY <1>1, <2>1, <2>3, <2>4 DEF WriterInv
<1>4. QED BY <1>2, <1>3

LEMMA WriterStep == TypeInv /\ WriterInv /\ [Next]_vars => WriterInv'
<1> SUFFICES ASSUME TypeInv, WriterInv, [Next]_vars PROVE WriterInv'
  OBVIOUS
<1>1. CASE UNCHANGED vars \/ Reader \/ Terminated
  <2>1. UNCHANGED writer
    BY <1>1, Zenon DEF vars, Reader, Terminated, RefusePage, AcceptPage, TakeSegment, PushForeign, Reset
  <2>2. QED BY <2>1, WriterFrame, Zenon DEF writer
<1>2. ASSUME NEW data \in Payload, NEW granule \in Granule, PushPacket(data, granule) PROVE WriterInv'
  BY <1>2, WriterPush
<1>3. CASE PutSegment
  BY <1>3, WriterPut
<1>4. CASE SpillPage
  <2>1. /\ busy /\ Len(lacing) = MaxSegs /\ EmitPage(lacing, page_granule, TRUE, FALSE)
        /\ UNCHANGED <<sent, busy, off>>
    BY <1>4 DEF SpillPage
  <2>3. off # 0
    BY <2>1, FramingAssumption DEF TypeInv, CursorInv
  <2>4. lacing # <<>>
    BY <2>1, FramingAssumption
  <2>2. QED BY <2>1, <2>3, <2>4, WriterEmit
<1>5. CASE FlushPage
  <2>1. /\ lacing # <<>> /\ EmitPage(lacing, page_granule, FALSE, FALSE)
        /\ UNCHANGED <<sent, busy, off>> /\ off = 0
    BY <1>5 DEF FlushPage, TypeInv, CursorInv
  <2>2. QED BY <2>1, WriterEmit
<1>6. CASE Finish
  BY <1>6, WriterFinish
<1>7. ASSUME NEW t \in Target \cup {NoTarget}, SetPageTarget(t) PROVE WriterInv'
  BY <1>7, WriterFrame DEF SetPageTarget
<1>8. QED BY <1>1, <1>2, <1>3, <1>4, <1>5, <1>6, <1>7 DEF Next, Writer

-----------------------------------------------------------------------------
(* The assembler.                                                          *)

\* What the assembler holds is the part of the open packet it has read.
AssemblerInv ==
  /\ locked # "own" => ~mid_packet /\ ~in_page
  /\ in_page =>
       LET s == out[rpage].segs[rlace + 1]
       IN /\ mid_packet <=> s.off # 0
          /\ pending = SubSeq(sent[s.pkt].data, 1, s.off)
  /\ ~in_page /\ ~mid_packet => pending = <<>>
  /\ ~in_page /\ mid_packet =>
       /\ rpage > 1
       /\ LET s == Last(out[rpage - 1])
          IN Open(s) /\ pending = SubSeq(sent[s.pkt].data, 1, s.off + SegSize)

\* The first lace of page j still to be read.
At(j) == IF in_page /\ j = rpage THEN rlace + 1 ELSE 1

\* Packet pkt lies strictly before whatever is still to be read or written.
Ahead(pkt) ==
  /\ pkt < StartPkt
  /\ \A j \in rpage .. Len(out) : pkt < out[j].segs[At(j)].pkt

OrderInv == \A i \in 1 .. Len(got) : Ahead(got[i].pkt)

IInv == TypeInv /\ WriterInv /\ AssemblerInv /\ OrderInv /\ Genuine

\* The reader's view of a writer step: pages and packets are only added, and
\* an added page starts where the pending page did.
LEMMA EmitForward ==
  ASSUME TypeInv, NEW segs \in Seq(Segment), NEW g \in Granule \cup {NoGranule},
         NEW c \in BOOLEAN, NEW e \in BOOLEAN, EmitPage(segs, g, c, e)
  PROVE  /\ Len(out') = Len(out) + 1 /\ Len(out) \in Nat
         /\ \A i \in 1 .. Len(out) : out'[i] = out[i]
         /\ out'[Len(out) + 1].segs = segs
<1> DEFINE page == [cont |-> pending_continued, bos |-> bos_pending, eos |-> e, granule |-> g,
                    seq |-> sequence, segs |-> segs]
<1>1. page \in Page
  BY DEF TypeInv, TypeOK, Page
<1>2. page.segs = segs /\ out' = Append(out, page) /\ out \in Seq(Page)
  BY DEF EmitPage, TypeInv, TypeOK
<1> HIDE DEF page
<1>3. QED BY <1>1, <1>2, AppendProperties

Forward ==
  /\ UNCHANGED reader
  /\ \A i \in 1 .. Len(out) : out'[i].segs = out[i].segs
  /\ \/ Len(out') = Len(out) + 1 /\ out'[Len(out) + 1].segs[1].pkt = StartPkt
     \/ Len(out') = Len(out) /\ StartPkt' = StartPkt
  /\ Len(sent) <= Len(sent')
  /\ \A i \in 1 .. Len(sent) : sent'[i] = sent[i]

LEMMA WriterForward == TypeInv /\ WriterInv /\ Writer => Forward
<1> SUFFICES ASSUME TypeInv, WriterInv, Writer PROVE Forward
  OBVIOUS
<1>1. UNCHANGED reader
  BY Zenon DEF Writer, PushPacket, PutSegment, SpillPage, FlushPage, Finish, SetPageTarget
<1>2. /\ lacing \in Seq(Segment) /\ page_granule \in Granule \cup {NoGranule}
      /\ Len(sent) \in Nat /\ Len(out) \in Nat
  BY DEF TypeInv, TypeOK
<1>3. ASSUME NEW data \in Payload, NEW granule \in Granule, PushPacket(data, granule)
      PROVE  Forward
  <2> DEFINE p == [data |-> data, granule |-> granule]
  <2>1. p \in Packet /\ sent' = Append(sent, p) /\ sent \in Seq(Packet) /\ ~busy /\ busy' = TRUE
    BY <1>3 DEF PushPacket, Packet, TypeInv, TypeOK
  <2> HIDE DEF p
  <2>2. Len(sent') = Len(sent) + 1 /\ \A i \in 1 .. Len(sent) : sent'[i] = sent[i]
    BY <2>1, AppendProperties
  <2>3. CASE Len(lacing) = MaxSegs
    <3>1. EmitPage(lacing, page_granule, FALSE, FALSE)
      BY <1>3, <2>3 DEF PushPacket
    <3>2. lacing # <<>>
      BY <2>3, FramingAssumption
    <3>3. /\ Len(out') = Len(out) + 1 /\ \A i \in 1 .. Len(out) : out'[i] = out[i]
          /\ out'[Len(out) + 1].segs = lacing
      BY <1>2, <3>1, EmitForward
    <3>4. QED BY <1>1, <1>2, <2>2, <3>2, <3>3 DEF Forward, StartPkt
  <2>4. CASE Len(lacing) # MaxSegs
    <3>1. lacing' = lacing /\ out' = out
      BY <1>3, <2>4 DEF PushPacket, KeepPage
    <3>2. NextPkt' = NextPkt
      BY <2>1, <2>2, <1>2 DEF NextPkt
    <3>3. QED BY <1>1, <1>2, <2>2, <3>1, <3>2 DEF Forward, StartPkt
  <2>5. QED BY <2>3, <2>4
<1>4. CASE PutSegment
  <2> DEFINE segs == Append(lacing, NewSegment)
  <2>1. segs \in Seq(Segment) /\ segs # <<>> /\ segs[1].pkt = StartPkt
    BY <1>4, PutRun
  <2>2. sent' = sent
    BY <1>4 DEF PutSegment
  <2>3. Current.granule \in Granule \cup {NoGranule}
    <3>1. Current \in Packet
      BY <1>4, NewSegmentType DEF PutSegment, TypeInv, CursorInv, Current
    <3>2. QED BY <3>1 DEF Packet
  <2>4. EmitPage(segs, Current.granule, FALSE, FALSE) \/ (lacing' = segs /\ out' = out)
    BY <1>4 DEF PutSegment
  <2>5. CASE EmitPage(segs, Current.granule, FALSE, FALSE)
    <3>1. /\ Len(out') = Len(out) + 1 /\ \A i \in 1 .. Len(out) : out'[i] = out[i]
          /\ out'[Len(out) + 1].segs = segs
      BY <2>1, <2>3, <2>5, EmitForward
    <3> HIDE DEF segs
    <3>2. QED BY <1>1, <1>2, <2>1, <2>2, <3>1 DEF Forward
  <2>6. CASE lacing' = segs /\ out' = out
    <3> HIDE DEF segs
    <3>1. StartPkt' = StartPkt
      BY <2>1, <2>6 DEF StartPkt
    <3>2. QED BY <1>1, <1>2, <2>2, <2>6, <3>1 DEF Forward
  <2>7. QED BY <2>4, <2>5, <2>6
<1>5. CASE SpillPage \/ FlushPage \/ (Finish /\ lacing # <<>>)
  <2>1. /\ sent' = sent /\ lacing # <<>>
        /\ \/ EmitPage(lacing, page_granule, TRUE, FALSE)
           \/ EmitPage(lacing, page_granule, FALSE, FALSE)
           \/ EmitPage(lacing, page_granule, FALSE, TRUE)
    BY <1>5, FramingAssumption DEF SpillPage, FlushPage, Finish
  <2>2. /\ Len(out') = Len(out) + 1 /\ \A i \in 1 .. Len(out) : out'[i] = out[i]
        /\ out'[Len(out) + 1].segs = lacing
    BY <1>2, <2>1, EmitForward
  <2>3. QED BY <1>1, <1>2, <2>1, <2>2 DEF Forward, StartPkt
<1>6. CASE Finish /\ lacing = <<>>
  <2>1. UNCHANGED <<sent, busy, lacing>>
    BY <1>6 DEF Finish
  <2>2. StartPkt' = StartPkt
    BY <2>1 DEF StartPkt, NextPkt
  <2>3. QED BY <1>1, <1>2, <1>6, <2>1, <2>2, Restamp DEF Forward
<1>7. ASSUME NEW t \in Target \cup {NoTarget}, SetPageTarget(t) PROVE Forward
  <2>1. UNCHANGED <<sent, busy, lacing, out>>
    BY <1>7 DEF SetPageTarget
  <2>2. QED BY <1>1, <1>2, <2>1 DEF Forward, StartPkt, NextPkt
<1>8. QED BY <1>3, <1>4, <1>5, <1>6, <1>7 DEF Writer

LEMMA StartPktType == TypeInv => StartPkt \in Nat
<1> SUFFICES ASSUME TypeInv PROVE StartPkt \in Nat
  OBVIOUS
<1>1. lacing \in Seq(Segment) /\ Len(sent) \in Nat
  BY DEF TypeInv, TypeOK
<1>2. CASE lacing = <<>>
  BY <1>1, <1>2 DEF StartPkt, NextPkt
<1>3. CASE lacing # <<>>
  <2>1. 1 \in 1 .. Len(lacing)
    BY <1>1, <1>3, EmptySeq
  <2>2. lacing[1].pkt \in Nat
    BY <1>1, <2>1, SegmentTypes
  <2>3. QED BY <1>3, <2>2 DEF StartPkt
<1>4. QED BY <1>2, <1>3

\* Facts about where things are that the steps below share.
LEMMA Positions ==
  ASSUME TypeInv, WriterInv
  PROVE  /\ StartPkt \in Nat /\ Len(out) \in Nat /\ Len(sent) \in Nat
         /\ \A i \in 1 .. Len(out) : \A k \in 1 .. Len(out[i].segs) :
              /\ Cut(sent, out[i].segs[k])
              /\ out[i].segs[k] \in Segment /\ out[i].segs[k].pkt \in 1 .. Len(sent)
              /\ Before(out[i].segs[k], StartPkt)
         /\ \A i \in 1 .. Len(out) : /\ out[i].segs \in Seq(Segment) /\ Len(out[i].segs) \in Nat
                                     /\ Len(out[i].segs) > 0
<1>1. out \in Seq(Page) /\ lacing \in Seq(Segment) /\ Len(sent) \in Nat /\ Len(out) \in Nat
  BY DEF TypeInv, TypeOK
<1>2. \A i \in 1 .. Len(out) : out[i].segs \in Seq(Segment) /\ Len(out[i].segs) \in Nat
  BY <1>1, PageTypes
<1>3. ASSUME NEW i \in 1 .. Len(out), NEW k \in 1 .. Len(out[i].segs)
      PROVE  /\ Cut(sent, out[i].segs[k])
             /\ out[i].segs[k] \in Segment /\ out[i].segs[k].pkt \in 1 .. Len(sent)
             /\ Before(out[i].segs[k], StartPkt)
  <2>1. Cut(sent, out[i].segs[k]) /\ Before(out[i].segs[k], StartPkt)
    BY DEF WriterInv, PageRuns, Run, PagesReach
  <2>2. out[i].segs[k] \in Segment
    BY <1>2, SegmentTypes
  <2>3. QED BY <2>1, <2>2 DEF Cut
<1>4. StartPkt \in Nat
  BY StartPktType
<1>5. \A i \in 1 .. Len(out) : Len(out[i].segs) > 0
  BY DEF TypeInv, PositionInv
<1>6. QED BY <1>1, <1>2, <1>3, <1>4, <1>5

LEMMA SafetyWriter ==
  ASSUME IInv, Writer
  PROVE  AssemblerInv' /\ OrderInv' /\ Genuine'
<1> USE DEF IInv
<1>1. TypeInv' /\ WriterInv' /\ Forward
  BY TypeWriter, WriterStep, WriterForward DEF Next
<1>2. /\ rpage' = rpage /\ rlace' = rlace /\ in_page' = in_page /\ got' = got
      /\ pending' = pending /\ mid_packet' = mid_packet /\ locked' = locked
  BY <1>1, Zenon DEF Forward, reader
<1>3. /\ StartPkt \in Nat /\ Len(out) \in Nat /\ Len(sent) \in Nat
      /\ \A i \in 1 .. Len(out) : /\ out[i].segs \in Seq(Segment) /\ Len(out[i].segs) \in Nat
                                  /\ Len(out[i].segs) > 0
      /\ \A i \in 1 .. Len(out) : \A k \in 1 .. Len(out[i].segs) :
           out[i].segs[k] \in Segment /\ out[i].segs[k].pkt \in 1 .. Len(sent)
  BY Positions
<1>4. /\ \A i \in 1 .. Len(out) : out'[i].segs = out[i].segs
      /\ \A i \in 1 .. Len(sent) : sent'[i] = sent[i]
      /\ Len(sent) <= Len(sent') /\ Len(sent') \in Nat /\ Len(out') \in Nat
      /\ Len(out) <= Len(out')
  <2>1. sent' \in Seq(Packet) /\ out' \in Seq(Page)
    BY <1>1, Zenon DEF TypeInv, TypeOK
  <2>2. Len(sent') \in Nat /\ Len(out') \in Nat
    BY <2>1
  <2>3. QED BY <1>1, <1>3, <2>2 DEF Forward
<1>5. AssemblerInv'
  <2>1. CASE in_page
    <3> DEFINE s == out[rpage].segs[rlace + 1]
    <3>1. rpage \in 1 .. Len(out) /\ rlace + 1 \in 1 .. Len(out[rpage].segs)
      BY <1>3, <2>1 DEF TypeInv, TypeOK, PositionInv
    <3>2. out'[rpage'].segs[rlace' + 1] = s /\ s.pkt \in 1 .. Len(sent)
      BY <1>2, <1>3, <1>4, <3>1
    <3>3. sent'[s.pkt] = sent[s.pkt]
      BY <1>4, <3>2
    <3>4. (mid_packet <=> s.off # 0) /\ pending = SubSeq(sent[s.pkt].data, 1, s.off)
      BY <2>1 DEF AssemblerInv
    <3> HIDE DEF s
    <3>5. QED BY <1>2, <2>1, <3>2, <3>3, <3>4 DEF AssemblerInv
  <2>2. CASE ~in_page /\ mid_packet
    <3> DEFINE s == Last(out[rpage - 1])
    <3>1. /\ rpage > 1 /\ Open(s) /\ pending = SubSeq(sent[s.pkt].data, 1, s.off + SegSize)
      BY <2>2 DEF AssemblerInv
    <3>2. rpage - 1 \in 1 .. Len(out)
      BY <1>3, <3>1 DEF TypeInv, PositionInv
    <3>3. Last(out'[rpage' - 1]) = s /\ s.pkt \in 1 .. Len(sent)
      BY <1>2, <1>3, <1>4, <3>2 DEF Last
    <3>4. sent'[s.pkt] = sent[s.pkt]
      BY <1>4, <3>3
    <3> HIDE DEF s
    <3>5. QED BY <1>2, <2>2, <3>1, <3>3, <3>4 DEF AssemblerInv
  <2>3. CASE ~in_page /\ ~mid_packet
    BY <1>2, <2>3 DEF AssemblerInv
  <2>4. QED BY <2>1, <2>2, <2>3
<1>6. ASSUME NEW pkt \in Nat, Ahead(pkt) PROVE Ahead(pkt)'
  <2>1. \A j \in 1 .. Len(out) : At(j)' = At(j)
    BY <1>2 DEF At
  <2>2. ASSUME NEW j \in rpage .. Len(out) PROVE pkt < out'[j].segs[At(j)'].pkt
    <3>1. j \in 1 .. Len(out)
      BY <1>3 DEF TypeInv, PositionInv
    <3>2. QED BY <1>4, <1>6, <2>1, <3>1 DEF Ahead
  <2>3. CASE Len(out') = Len(out) /\ StartPkt' = StartPkt
    BY <1>2, <1>6, <2>2, <2>3 DEF Ahead
  <2>4. CASE Len(out') = Len(out) + 1 /\ out'[Len(out) + 1].segs[1].pkt = StartPkt
    <3>7. PICK n \in Nat : n = Len(out) + 1
      BY <1>3
    <3>1. At(n)' = 1
      <4>1. in_page => rpage # Len(out) + 1
        BY <1>3 DEF TypeInv, PositionInv
      <4>2. QED BY <1>2, <4>1, <3>7 DEF At
    <3>2. pkt < out'[n].segs[At(n)'].pkt
      BY <1>6, <2>4, <3>1, <3>7 DEF Ahead
    <3>3. /\ Before(out'[Len(out) + 1].segs[1], StartPkt') /\ StartPkt' \in Nat
      <4>1. Len(out) + 1 \in 1 .. Len(out')
        BY <1>3, <2>4
      <4>2. 1 \in 1 .. Len(out'[Len(out) + 1].segs)
        <5>1. out' \in Seq(Page) /\ Len(out'[Len(out) + 1].segs) > 0
          BY <1>1, <4>1 DEF TypeInv, TypeOK, PositionInv
        <5>2. QED BY <4>1, <5>1, PageTypes
      <4>3. StartPkt' \in Nat
        <5>1. (TypeInv => StartPkt \in Nat)'
          BY StartPktType, PTL
        <5>2. QED BY <1>1, <5>1
      <4>4. QED BY <1>1, <4>1, <4>2, <4>3 DEF WriterInv, PagesReach
    <3>4. pkt < StartPkt'
      BY <1>3, <1>6, <2>4, <3>3 DEF Before, Ahead
    <3>5. \A j \in rpage' .. Len(out') : pkt < out'[j].segs[At(j)'].pkt
      <4>1. SUFFICES ASSUME NEW j \in rpage .. Len(out) + 1
                     PROVE  pkt < out'[j].segs[At(j)'].pkt
        BY <1>2, <2>4
      <4>2. CASE j = Len(out) + 1
        BY <3>2, <3>7, <4>2
      <4>3. CASE j # Len(out) + 1
        <5>1. j \in rpage .. Len(out)
          BY <1>3, <4>3 DEF TypeInv, PositionInv
        <5>2. QED BY <2>2, <5>1
      <4>4. QED BY <4>2, <4>3
    <3>6. QED BY <3>4, <3>5 DEF Ahead
  <2>5. QED BY <1>1, <2>3, <2>4 DEF Forward
<1>7. \A i \in 1 .. Len(got) : got[i].pkt \in Nat
  <2>1. \A i \in 1 .. Len(got) : got[i] \in Delivery
    BY ElementOfSeq DEF TypeInv, TypeOK
  <2>2. QED BY <2>1 DEF Delivery
<1>8. OrderInv'
  BY <1>2, <1>6, <1>7 DEF OrderInv
<1>9. Genuine'
  BY <1>2, <1>3, <1>4 DEF Genuine
<1>10. QED BY <1>5, <1>8, <1>9

LEMMA Splice ==
  ASSUME NEW d \in Seq(Byte), NEW o \in Nat, NEW n \in Nat, o + n <= Len(d)
  PROVE  SubSeq(d, 1, o) \o SubSeq(d, o + 1, o + n) = SubSeq(d, 1, o + n)
<1>1. 1 \in 1 .. Len(d) + 1 /\ o \in 0 .. Len(d) /\ o + n \in o .. Len(d)
  OBVIOUS
<1>2. QED BY <1>1, ConcatAdjacentSubSeq

\* The lace to take: its packet, and what the assembler holds of it.
LEMMA TakeFacts ==
  ASSUME IInv, in_page, NEW s, s = out[rpage].segs[rlace + 1]
  PROVE  /\ rpage \in 1 .. Len(out) /\ rlace + 1 \in 1 .. Len(out[rpage].segs) /\ rlace \in Nat
         /\ s.pkt \in 1 .. Len(sent) /\ s.off \in Nat
         /\ pending \o s.data = SubSeq(sent[s.pkt].data, 1, s.off + Len(s.data))
         /\ ~Open(s) => pending \o s.data = sent[s.pkt].data
<1>1. /\ rpage \in 1 .. Len(out) /\ rlace + 1 \in 1 .. Len(out[rpage].segs) /\ rlace \in Nat
  <2>1. Len(out[rpage].segs) \in Nat /\ Len(out) \in Nat
    BY Positions DEF IInv, TypeInv, PositionInv
  <2>2. QED BY <2>1 DEF IInv, TypeInv, PositionInv, TypeOK
<1>2. s \in Segment /\ Cut(sent, s) /\ s.pkt \in 1 .. Len(sent)
  BY <1>1, Positions DEF IInv
<1>3. s.off \in Nat /\ Len(s.data) \in Nat
  BY <1>2 DEF Segment
<1>4. sent[s.pkt].data \in Seq(Byte)
  <2>1. sent[s.pkt] \in Packet
    BY <1>2, ElementOfSeq DEF IInv, TypeInv, TypeOK
  <2>2. QED BY <2>1, FramingAssumption DEF Packet
<1>5. pending = SubSeq(sent[s.pkt].data, 1, s.off)
  BY DEF IInv, AssemblerInv
<1>6. pending \o s.data = SubSeq(sent[s.pkt].data, 1, s.off + Len(s.data))
  <2> DEFINE d == sent[s.pkt].data
             n == Len(s.data)
  <2>1. s.off + n <= Len(d) /\ s.data = SubSeq(d, s.off + 1, s.off + n)
    BY <1>2 DEF Cut
  <2>2. d \in Seq(Byte) /\ n \in Nat /\ pending = SubSeq(d, 1, s.off)
    BY <1>3, <1>4, <1>5
  <2> HIDE DEF d, n
  <2>3. SubSeq(d, 1, s.off) \o SubSeq(d, s.off + 1, s.off + n) = SubSeq(d, 1, s.off + n)
    BY <1>3, <2>1, <2>2, Splice
  <2>4. pending \o s.data = SubSeq(d, 1, s.off + n)
    BY <2>1, <2>2, <2>3
  <2>5. QED BY <2>4 DEF d, n
<1>7. ~Open(s) => pending \o s.data = sent[s.pkt].data
  BY <1>2, <1>4, <1>6, SubSeqFull DEF Cut
<1>8. QED BY <1>1, <1>2, <1>3, <1>6, <1>7

\* Taking a lace moves past it: what lay before it, and its own packet when
\* it ends there, lies before all that is left.
LEMMA TakeAhead ==
  ASSUME IInv, TakeSegment, NEW s, s = out[rpage].segs[rlace + 1],
         NEW pkt \in Nat, pkt < s.pkt \/ (pkt = s.pkt /\ ~Open(s))
  PROVE  Ahead(pkt)'
<1>1. in_page /\ UNCHANGED writer
  BY DEF TakeSegment
<1>2. /\ rpage \in 1 .. Len(out) /\ rlace + 1 \in 1 .. Len(out[rpage].segs) /\ rlace \in Nat
      /\ s.pkt \in Nat
  <2>1. Len(sent) \in Nat
    BY Positions DEF IInv
  <2>2. QED BY <1>1, <2>1, TakeFacts
<1>3. /\ StartPkt \in Nat /\ Len(out) \in Nat /\ Len(out[rpage].segs) \in Nat
      /\ \A i \in 1 .. Len(out) : \A k \in 1 .. Len(out[i].segs) : out[i].segs[k].pkt \in Nat
      /\ \A i \in 1 .. Len(out) : Len(out[i].segs) > 0 /\ Len(out[i].segs) \in Nat
  <2>1. Len(sent) \in Nat
    BY Positions DEF IInv
  <2>2. StartPkt \in Nat
    BY <2>1, Positions DEF IInv
  <2>3. Len(out) \in Nat /\ Len(out[rpage].segs) \in Nat
    BY <2>1, Positions DEF IInv
  <2>4. \A i \in 1 .. Len(out) : \A k \in 1 .. Len(out[i].segs) : out[i].segs[k].pkt \in Nat
    BY Positions DEF IInv
  <2>5. \A i \in 1 .. Len(out) : Len(out[i].segs) > 0 /\ Len(out[i].segs) \in Nat
    BY Positions DEF IInv
  <2>6. QED BY <2>2, <2>3, <2>4, <2>5
<1>4. out' = out /\ StartPkt' = StartPkt
  BY <1>1 DEF writer, StartPkt, NextPkt
<1>5. ASSUME NEW later \in Nat, Before(s, later) PROVE pkt < later
  BY <1>2, <1>5 DEF Before
<1>6. pkt < StartPkt
  <2>1. Before(s, StartPkt)
    BY <1>2, Positions DEF IInv
  <2>2. QED BY <1>3, <1>5, <2>1
<1>7. ASSUME NEW j \in rpage + 1 .. Len(out) PROVE pkt < out[j].segs[1].pkt
  <2>1. j \in 1 .. Len(out) /\ rpage < j /\ 1 \in 1 .. Len(out[j].segs)
    BY <1>2, <1>3
  <2>2. Before(s, out[j].segs[1].pkt)
    BY <1>2, <2>1 DEF IInv, WriterInv, PageRuns
  <2>3. QED BY <1>3, <1>5, <2>1, <2>2
<1>8. CASE rlace + 1 = Len(out[rpage].segs)
  <2>1. in_page' = FALSE /\ rpage' = rpage + 1
    BY <1>8 DEF TakeSegment
  <2>2. \A j : At(j)' = 1
    BY <2>1 DEF At
  <2>3. QED BY <1>4, <1>6, <1>7, <2>1, <2>2 DEF Ahead
<1>9. CASE rlace + 1 # Len(out[rpage].segs)
  <2>1. in_page' = TRUE /\ rpage' = rpage /\ rlace' = rlace + 1
    BY <1>1, <1>9 DEF TakeSegment
  <2>2. rlace + 2 \in 1 .. Len(out[rpage].segs)
    BY <1>2, <1>3, <1>9
  <2>3. Before(s, out[rpage].segs[rlace + 2].pkt)
    BY <1>2, <2>2 DEF IInv, WriterInv, PageRuns, Run
  <2>4. pkt < out[rpage].segs[rlace + 2].pkt
    BY <1>2, <1>3, <1>5, <2>2, <2>3
  <2>5. ASSUME NEW j \in rpage .. Len(out) PROVE pkt < out[j].segs[At(j)'].pkt
    <3>1. CASE j = rpage
      <4>1. At(j)' = rlace + 2
        BY <1>2, <2>1, <3>1 DEF At
      <4>2. QED BY <2>4, <3>1, <4>1
    <3>2. CASE j # rpage
      <4>1. At(j)' = 1 /\ j \in rpage + 1 .. Len(out)
        BY <1>2, <2>1, <3>2 DEF At
      <4>2. QED BY <1>7, <4>1
    <3>3. QED BY <3>1, <3>2
  <2>6. QED BY <1>4, <1>6, <2>1, <2>5 DEF Ahead
<1>10. QED BY <1>8, <1>9

LEMMA SafetyTake ==
  ASSUME IInv, TakeSegment
  PROVE  AssemblerInv' /\ OrderInv' /\ Genuine'
<1> DEFINE segs == out[rpage].segs
<1>0. PICK s : s = segs[rlace + 1]
  OBVIOUS
<1>1. in_page /\ sent' = sent /\ out' = out /\ locked' = locked
  BY DEF TakeSegment, writer
<1>2. /\ rpage \in 1 .. Len(out) /\ rlace + 1 \in 1 .. Len(segs) /\ rlace \in Nat
      /\ s.pkt \in 1 .. Len(sent) /\ s.off \in Nat
      /\ pending \o s.data = SubSeq(sent[s.pkt].data, 1, s.off + Len(s.data))
      /\ ~Open(s) => pending \o s.data = sent[s.pkt].data
  BY <1>0, <1>1, TakeFacts
<1>3. Len(sent) \in Nat /\ Len(segs) \in Nat /\ Len(out) \in Nat /\ s.pkt \in Nat
  <2>1. Len(sent) \in Nat /\ Len(segs) \in Nat /\ Len(out) \in Nat
    BY <1>2, Positions DEF IInv
  <2>2. QED BY <1>2, <2>1
<1>4. /\ Open(s) => pending' = pending \o s.data /\ mid_packet' = TRUE /\ got' = got
      /\ ~Open(s) => /\ got' = Append(got, [pkt |-> s.pkt, data |-> pending \o s.data])
                     /\ pending' = <<>> /\ mid_packet' = FALSE
  BY <1>0 DEF TakeSegment
<1>5. locked' = "own"
  BY <1>1 DEF IInv, AssemblerInv
<1>6. AssemblerInv'
  <2>1. CASE rlace + 1 = Len(segs)
    <3>1. in_page' = FALSE /\ rpage' = rpage + 1
      BY <2>1 DEF TakeSegment
    <3>2. Last(out'[rpage' - 1]) = s
      BY <1>0, <1>1, <1>2, <2>1, <3>1 DEF Last
    <3>3. CASE Open(s)
      <4>1. pending' = SubSeq(sent'[s.pkt].data, 1, s.off + SegSize)
        BY <1>1, <1>2, <1>4, <3>3 DEF Open
      <4>2. QED BY <1>2, <1>4, <1>5, <3>1, <3>2, <3>3, <4>1 DEF AssemblerInv
    <3>4. CASE ~Open(s)
      BY <1>4, <1>5, <3>1, <3>4 DEF AssemblerInv
    <3>5. QED BY <3>3, <3>4
  <2>2. CASE rlace + 1 # Len(segs)
    <3>1. in_page' = TRUE /\ rpage' = rpage /\ rlace' = rlace + 1
      BY <1>1, <2>2 DEF TakeSegment
    <3>2. rlace + 1 \in 1 .. Len(segs) - 1 /\ (rlace + 1) + 1 = rlace' + 1
      BY <1>2, <1>3, <2>2, <3>1
    <3>3. PICK t : t = segs[rlace + 2]
      OBVIOUS
    <3>4. Leads(s, t.pkt, t.off)
      <4>1. Run(sent, segs)
        BY <1>2 DEF IInv, WriterInv, PageRuns
      <4>2. (rlace + 1) + 1 = rlace + 2
        BY <1>2
      <4>3. QED BY <1>0, <3>2, <3>3, <4>1, <4>2 DEF Run
    <3>5. t = out'[rpage'].segs[rlace' + 1]
      <4>1. rlace' + 1 = rlace + 2
        BY <1>2, <3>1
      <4>2. QED BY <1>1, <3>1, <3>3, <4>1
    <3>6. (mid_packet' <=> t.off # 0) /\ pending' = SubSeq(sent'[t.pkt].data, 1, t.off)
      <4>1. CASE Open(s)
        <5>1. t.pkt = s.pkt /\ t.off = s.off + SegSize
          BY <3>4, <4>1 DEF Leads
        <5>2. pending' = SubSeq(sent'[t.pkt].data, 1, t.off)
          BY <1>1, <1>2, <1>4, <4>1, <5>1 DEF Open
        <5>3. t.off # 0
          BY <1>2, <5>1, FramingAssumption
        <5>4. QED BY <1>4, <4>1, <5>2, <5>3
      <4>2. CASE ~Open(s)
        <5>1. t.off = 0
          BY <3>4, <4>2 DEF Leads
        <5>2. SubSeq(sent'[t.pkt].data, 1, 0) = <<>>
          BY SubSeqEmpty
        <5>3. QED BY <1>4, <4>2, <5>1, <5>2
      <4>3. QED BY <4>1, <4>2
    <3>7. QED BY <1>5, <3>1, <3>5, <3>6 DEF AssemblerInv
  <2>3. QED BY <2>1, <2>2
<1>7. got \in Seq(Delivery) /\ Len(got) \in Nat
  BY DEF IInv, TypeInv, TypeOK
<1>8. \A i \in 1 .. Len(got) : got[i].pkt \in Nat /\ got[i].pkt < s.pkt
  <2>1. \A i \in 1 .. Len(got) : got[i] \in Delivery
    BY <1>7, ElementOfSeq
  <2>2. ASSUME NEW i \in 1 .. Len(got) PROVE got[i].pkt < s.pkt
    <3>1. got[i].pkt < out[rpage].segs[At(rpage)].pkt
      BY <1>2, <1>3 DEF IInv, OrderInv, Ahead
    <3>2. At(rpage) = rlace + 1
      BY <1>1 DEF At
    <3>3. QED BY <1>0, <3>1, <3>2
  <2>3. QED BY <2>1, <2>2 DEF Delivery
<1>9. \A i \in 1 .. Len(got') :
        \/ i \in 1 .. Len(got) /\ got'[i] = got[i]
        \/ /\ ~Open(s) /\ i = Len(got) + 1
           /\ got'[i] = [pkt |-> s.pkt, data |-> pending \o s.data]
  <2>1. CASE Open(s)
    BY <1>4, <2>1
  <2>2. CASE ~Open(s)
    <3>1. [pkt |-> s.pkt, data |-> pending \o s.data] \in Delivery
      <4>1. TypeInv'
        BY TypeReader DEF IInv, Reader
      <4>2. got' \in Seq(Delivery)
        BY <4>1, Zenon DEF TypeInv, TypeOK
      <4>3. got' = Append(got, [pkt |-> s.pkt, data |-> pending \o s.data])
        BY <1>4, <2>2
      <4>4. Len(got) + 1 \in 1 .. Len(got') /\ got'[Len(got) + 1] = [pkt |-> s.pkt, data |-> pending \o s.data]
        BY <1>7, <4>3
      <4>5. QED BY <4>2, <4>4, ElementOfSeq
    <3>2. PICK d \in Delivery : d = [pkt |-> s.pkt, data |-> pending \o s.data]
      BY <3>1
    <3>3. got' = Append(got, d)
      BY <1>4, <2>2, <3>2
    <3>4. /\ Len(got') = Len(got) + 1
          /\ \A i \in 1 .. Len(got) : got'[i] = got[i]
          /\ got'[Len(got) + 1] = d
      BY <1>7, <3>3, AppendProperties
    <3>5. QED BY <1>7, <2>2, <3>2, <3>4
  <2>3. QED BY <2>1, <2>2
<1>10. ASSUME NEW i \in 1 .. Len(got') PROVE Ahead(got[i].pkt)'
  <2>1. PICK p : p = got'[i].pkt
    OBVIOUS
  <2>2. p \in Nat /\ (p < s.pkt \/ (p = s.pkt /\ ~Open(s)))
    BY <1>3, <1>8, <1>9, <2>1
  <2>3. Ahead(p)'
    BY <1>0, <2>2, TakeAhead
  <2>4. QED BY <2>1, <2>3 DEF Ahead
<1>11. OrderInv'
  BY <1>10 DEF OrderInv
<1>12. Genuine'
  <2>1. ASSUME NEW i \in 1 .. Len(got')
        PROVE  got'[i].pkt \in 1 .. Len(sent') /\ got'[i].data = sent'[got'[i].pkt].data
    <3>1. CASE i \in 1 .. Len(got) /\ got'[i] = got[i]
      BY <1>1, <3>1 DEF IInv, Genuine
    <3>2. CASE ~Open(s) /\ got'[i] = [pkt |-> s.pkt, data |-> pending \o s.data]
      BY <1>1, <1>2, <3>2
    <3>3. QED BY <1>9, <3>1, <3>2
  <2>2. ASSUME NEW i \in 1 .. Len(got'), NEW j \in 1 .. Len(got'), i < j
        PROVE  got'[i].pkt < got'[j].pkt
    <3>1. i \in 1 .. Len(got) /\ got'[i] = got[i]
      <4>1. Len(got') <= Len(got) + 1
        BY <1>4, <1>7
      <4>2. QED BY <1>7, <1>9, <2>2, <4>1
    <3>2. CASE j \in 1 .. Len(got) /\ got'[j] = got[j]
      BY <2>2, <3>1, <3>2 DEF IInv, Genuine
    <3>3. CASE got'[j] = [pkt |-> s.pkt, data |-> pending \o s.data]
      BY <1>8, <3>1, <3>3
    <3>4. QED BY <1>9, <3>2, <3>3
  <2>3. QED BY <2>1, <2>2 DEF Genuine
<1>13. QED BY <1>6, <1>11, <1>12

LEMMA SafetyReader ==
  ASSUME IInv, Reader
  PROVE  AssemblerInv' /\ OrderInv' /\ Genuine'
<1> USE DEF IInv
<1>1. /\ StartPkt \in Nat /\ Len(out) \in Nat
      /\ \A i \in 1 .. Len(out) : Len(out[i].segs) > 0 /\ Len(out[i].segs) \in Nat
  BY Positions
<1>2. CASE ~TakeSegment
  <2>1. /\ UNCHANGED writer /\ got' = got /\ ~in_page
    BY <1>2, Zenon DEF Reader, RefusePage, AcceptPage, PushForeign, Reset, PageToPush
  <2>2. out' = out /\ sent' = sent /\ StartPkt' = StartPkt
    BY <2>1 DEF writer, StartPkt, NextPkt
  <2>3. Genuine'
    BY <2>1, <2>2 DEF Genuine
  <2>4. rpage \in 1 .. Len(out) + 1
    BY DEF TypeInv, PositionInv
  <2>5. /\ rpage' \in Nat /\ rpage <= rpage'
        /\ in_page' => rpage' = rpage /\ rlace' = 0
    <3>1. CASE RefusePage
      BY <2>1, <2>4, <1>1, <3>1 DEF RefusePage
    <3>2. CASE AcceptPage
      BY <2>4, <1>1, <3>2 DEF AcceptPage
    <3>3. CASE PushForeign
      BY <2>1, <2>4, <1>1, <3>3 DEF PushForeign
    <3>4. ASSUME NEW page \in 1 .. Len(out) + 1, Reset(page)
          PROVE  rpage' \in Nat /\ rpage <= rpage' /\ (in_page' => rpage' = rpage /\ rlace' = 0)
      BY <2>1, <2>4, <1>1, <3>4 DEF Reset
    <3>5. QED BY <1>2, <3>1, <3>2, <3>3, <3>4 DEF Reader
  <2>6. ASSUME NEW pkt \in Nat, Ahead(pkt) PROVE Ahead(pkt)'
    <3>1. \A j \in rpage' .. Len(out) : j \in rpage .. Len(out)
      BY <2>4, <2>5, <1>1
    <3>2. \A j : At(j) = 1 /\ At(j)' = 1
      BY <2>1, <2>5 DEF At
    <3>3. QED BY <2>2, <2>6, <3>1, <3>2 DEF Ahead
  <2>7. \A i \in 1 .. Len(got) : got[i].pkt \in Nat
    <3>1. \A i \in 1 .. Len(got) : got[i] \in Delivery
      BY ElementOfSeq DEF TypeInv, TypeOK
    <3>2. QED BY <3>1 DEF Delivery
  <2>8. OrderInv'
    BY <2>1, <2>6, <2>7 DEF OrderInv
  <2>9. AssemblerInv'
    <3> DEFINE s == Last(out[rpage - 1])
               t == First(out[rpage])
    <3>1. mid_packet => /\ locked = "own" /\ rpage > 1 /\ Open(s)
                        /\ pending = SubSeq(sent[s.pkt].data, 1, s.off + SegSize)
      BY <2>1 DEF AssemblerInv
    <3>2. PageToPush => rpage \in 1 .. Len(out) /\ out[rpage].segs[1] = t
      BY <2>4, <1>1 DEF PageToPush, First
    <3>3. PageToPush /\ mid_packet => t.pkt = s.pkt /\ t.off = s.off + SegSize /\ s.off \in Nat
      <4>1. SUFFICES ASSUME PageToPush, mid_packet
                     PROVE  t.pkt = s.pkt /\ t.off = s.off + SegSize /\ s.off \in Nat
        OBVIOUS
      <4>2. rpage - 1 \in 1 .. Len(out) - 1 /\ rpage - 1 \in 1 .. Len(out) /\ (rpage - 1) + 1 = rpage
        <5>1. rpage > 1 /\ rpage \in 1 .. Len(out)
          BY <3>1, <3>2, <4>1
        <5>2. QED BY <5>1, <1>1
      <4>3. Leads(s, t.pkt, t.off)
        BY <4>2 DEF WriterInv, PageRuns
      <4>4. s \in Segment
        <5>1. Len(out[rpage - 1].segs) \in 1 .. Len(out[rpage - 1].segs)
          BY <4>2, <1>1
        <5>2. QED BY <4>2, <5>1, Positions DEF Last
      <4>5. s.off \in Nat
        BY <4>4 DEF Segment
      <4>6. Open(s)
        BY <3>1, <4>1
      <4>7. t.pkt = s.pkt /\ t.off = s.off + SegSize
        BY <4>3, <4>6 DEF Leads
      <4>8. QED BY <4>5, <4>7
    <3>4. PageToPush => (out[rpage].cont <=> t.off # 0)
      BY <3>2 DEF WriterInv, PageRuns
    <3> HIDE DEF s, t
    <3>5. CASE RefusePage
      <4>1. ~mid_packet
        <5>1. PageToPush /\ (locked = "other" \/ out[rpage].cont # mid_packet)
          BY <3>5 DEF RefusePage
        <5>2. SUFFICES ASSUME mid_packet PROVE FALSE
          OBVIOUS
        <5>3. t.off = s.off + SegSize /\ s.off \in Nat
          BY <5>1, <5>2, <3>3
        <5>4. t.off # 0
          BY <5>3, FramingAssumption
        <5>5. out[rpage].cont
          BY <5>1, <5>4, <3>4
        <5>6. locked = "own"
          BY <5>2, <3>1
        <5>7. out[rpage].cont \in BOOLEAN /\ mid_packet \in BOOLEAN
          <6>1. out \in Seq(Page) /\ rpage \in 1 .. Len(out)
            BY <5>1, <3>2 DEF TypeInv, TypeOK
          <6>2. out[rpage] \in Page
            BY <6>1, ElementOfSeq
          <6>3. mid_packet \in BOOLEAN
            BY Zenon DEF TypeInv, TypeOK
          <6>4. QED BY <6>2, <6>3 DEF Page
        <5>8. out[rpage].cont = mid_packet
          BY <5>2, <5>5, <5>7, Zenon
        <5>9. QED BY <5>1, <5>6, <5>8
      <4>2. mid_packet' = mid_packet /\ pending' = pending /\ in_page' = in_page
        BY <3>5 DEF RefusePage
      <4>3. pending = <<>>
        BY <2>1, <4>1 DEF AssemblerInv
      <4>4. QED BY <2>1, <4>1, <4>2, <4>3 DEF AssemblerInv
    <3>6. CASE AcceptPage
      <4>1. /\ locked' = "own" /\ in_page' = TRUE /\ rlace' = 0 /\ rpage' = rpage
            /\ mid_packet' = mid_packet /\ pending' = pending
            /\ PageToPush /\ (out[rpage].cont <=> mid_packet)
        BY <3>6 DEF AcceptPage
      <4>2. (mid_packet <=> t.off # 0) /\ t = out'[rpage'].segs[rlace' + 1]
        BY <4>1, <3>2, <3>4, <2>2
      <4>3. pending = SubSeq(sent[t.pkt].data, 1, t.off)
        <5>1. CASE mid_packet
          BY <5>1, <4>1, <3>1, <3>3
        <5>2. CASE ~mid_packet
          <6>1. t.off = 0 /\ pending = <<>>
            BY <5>2, <4>2, <2>1 DEF AssemblerInv
          <6>2. QED BY <6>1, SubSeqEmpty
        <5>3. QED BY <5>1, <5>2
      <4>4. QED BY <4>1, <4>2, <4>3, <2>2 DEF AssemblerInv
    <3>7. CASE PushForeign
      <4>1. /\ mid_packet' = mid_packet /\ pending' = pending /\ in_page' = in_page
            /\ rpage' = rpage /\ locked' = IF locked = "none" THEN "other" ELSE locked
        BY <3>7 DEF PushForeign
      <4>2. QED BY <2>1, <2>2, <4>1 DEF AssemblerInv
    <3>8. ASSUME NEW page \in 1 .. Len(out) + 1, Reset(page) PROVE AssemblerInv'
      <4>1. /\ locked' = "none" /\ mid_packet' = FALSE /\ pending' = <<>> /\ in_page' = in_page
        BY <3>8 DEF Reset
      <4>2. QED BY <2>1, <4>1 DEF AssemblerInv
    <3>9. QED BY <1>2, <3>5, <3>6, <3>7, <3>8 DEF Reader
  <2>10. QED BY <2>3, <2>8, <2>9
<1>3. CASE TakeSegment
  BY <1>3, SafetyTake
<1>4. QED BY <1>2, <1>3

LEMMA SafetyInit == Init => IInv
<1> SUFFICES ASSUME Init PROVE IInv
  OBVIOUS
<1>1. /\ in_page = FALSE /\ mid_packet = FALSE /\ pending = <<>> /\ got = <<>>
  BY DEF Init
<1>2. AssemblerInv
  BY <1>1 DEF AssemblerInv
<1>3. OrderInv /\ Genuine
  BY <1>1 DEF OrderInv, Genuine
<1>4. QED BY <1>2, <1>3, TypeInit, WriterInit DEF IInv

LEMMA SafetyStep == IInv /\ [Next]_vars => IInv'
<1> SUFFICES ASSUME IInv, [Next]_vars PROVE IInv'
  OBVIOUS
<1>1. TypeInv' /\ WriterInv'
  BY TypeStep, WriterStep DEF IInv
<1>2. CASE Writer
  BY <1>1, <1>2, SafetyWriter DEF IInv
<1>3. CASE Reader
  BY <1>1, <1>3, SafetyReader DEF IInv
<1>4. CASE UNCHANGED vars
  <2>1. UNCHANGED writer /\ UNCHANGED reader
    BY <1>4 DEF vars
  <2>2. /\ StartPkt' = StartPkt /\ out' = out /\ sent' = sent /\ got' = got /\ in_page' = in_page
        /\ rpage' = rpage /\ rlace' = rlace /\ mid_packet' = mid_packet /\ pending' = pending
        /\ locked' = locked
    BY <2>1 DEF writer, reader, StartPkt, NextPkt
  <2>3. AssemblerInv'
    BY <2>2 DEF IInv, AssemblerInv
  <2>4. OrderInv'
    BY <2>2 DEF IInv, OrderInv, Ahead, At
  <2>5. Genuine'
    BY <2>2 DEF IInv, Genuine
  <2>6. QED BY <1>1, <2>3, <2>4, <2>5 DEF IInv
<1>5. QED BY <1>2, <1>3, <1>4, Zenon DEF Next, Terminated

LEMMA Invariance == Spec => []IInv
BY SafetyInit, SafetyStep, PTL DEF Spec

\* Every packet PacketAssembler returns is one that was pushed into
\* PageWriter, byte for byte, in order and at most once, whatever pages are
\* dropped between resets.
THEOREM GenuineDelivery == Spec => []Genuine
<1>1. IInv => Genuine
  BY DEF IInv
<1>2. QED BY <1>1, Invariance, PTL

\* The continued flag of every emitted page agrees with how the page before
\* it ends.
THEOREM ContinuedFlagsCorrect == Spec => []ContinuedFlags
<1>1. IInv => ContinuedFlags
  <2> SUFFICES ASSUME IInv, NEW i \in 1 .. Len(out)
               PROVE  out[i].cont <=> i > 1 /\ Open(Last(out[i - 1]))
    BY DEF ContinuedFlags
  <2>1. out[i].cont <=> First(out[i]).off # 0
    BY DEF IInv, WriterInv, PageRuns
  <2>2. Len(out) \in Nat /\ \A j \in 1 .. Len(out) :
          Len(out[j].segs) \in 1 .. Len(out[j].segs) /\ 1 \in 1 .. Len(out[j].segs)
    BY Positions DEF IInv
  <2>3. CASE i = 1
    BY <2>1, <2>2, <2>3 DEF IInv, WriterInv, PageRuns
  <2>4. CASE i # 1
    <3>1. i - 1 \in 1 .. Len(out) - 1 /\ i - 1 \in 1 .. Len(out) /\ (i - 1) + 1 = i /\ i > 1
      BY <2>2, <2>4
    <3>2. PICK s : s = Last(out[i - 1])
      OBVIOUS
    <3>3. Leads(s, First(out[i]).pkt, First(out[i]).off)
      BY <3>1, <3>2 DEF IInv, WriterInv, PageRuns
    <3>4. s \in Segment
      BY <3>1, <3>2, <2>2, Positions DEF IInv, Last
    <3>5. s.off \in Nat
      BY <3>4 DEF Segment
    <3>6. First(out[i]).off # 0 <=> Open(s)
      BY <3>3, <3>5, FramingAssumption DEF Leads
    <3>7. QED BY <2>1, <3>1, <3>2, <3>6
  <2>5. QED BY <2>3, <2>4
<1>2. QED BY <1>1, Invariance, PTL

-----------------------------------------------------------------------------
(* Framing implements PacketChannel: seen from the packets alone, pushing  *)
(* one sends it, the lace that ends one delivers it, and every other step  *)
(* of the writer and of the assembler is invisible.                        *)

\* Each step of the writer sends one packet or leaves the channel alone.
LEMMA WriterChannel == Writer => [Channel!Next]_Channel!vars
<1> SUFFICES ASSUME Writer PROVE [Channel!Next]_Channel!vars
  OBVIOUS
<1>1. ASSUME NEW data \in Payload, NEW granule \in Granule, PushPacket(data, granule)
      PROVE  Channel!Next
  <2>1. got' = got
    BY <1>1, Zenon DEF PushPacket, reader
  <2>2. Channel!Send(data, granule)
    BY <1>1, <2>1 DEF PushPacket, Channel!Send
  <2>3. QED BY <2>2 DEF Channel!Next
<1>2. CASE UNCHANGED <<sent, got>>
  BY <1>2 DEF Channel!vars
<1>3. PutSegment \/ SpillPage \/ FlushPage \/ Finish => UNCHANGED <<sent, got>>
  BY Zenon DEF PutSegment, SpillPage, FlushPage, Finish, reader
<1>4. ASSUME NEW t \in Target \cup {NoTarget}, SetPageTarget(t) PROVE UNCHANGED <<sent, got>>
  BY <1>4, Zenon DEF SetPageTarget, reader
<1>5. QED BY <1>1, <1>2, <1>3, <1>4, Zenon DEF Writer

\* The lace that ends a packet delivers it: Genuine, once it holds after the
\* step, says that the bytes are those sent and the number the next one up.
LEMMA TakeChannel == IInv /\ Genuine' /\ TakeSegment => [Channel!Next]_Channel!vars
<1> SUFFICES ASSUME IInv, Genuine', TakeSegment PROVE [Channel!Next]_Channel!vars
  OBVIOUS
<1>1. sent' = sent
  BY Zenon DEF TakeSegment, writer
<1>2. CASE got' = got
  BY <1>1, <1>2 DEF Channel!vars
<1>3. CASE got' # got
  <2>1. got \in Seq(Delivery) /\ Len(got) \in Nat
    BY DEF IInv, TypeInv, TypeOK
  <2>2. PICK d : got' = Append(got, d)
    BY <1>3, Zenon DEF TakeSegment
  <2>3. got' \in Seq(Delivery)
    <3>1. TypeInv'
      BY TypeReader DEF IInv, Reader
    <3>2. QED BY <3>1, Zenon DEF TypeInv, TypeOK
  <2>4. Len(got') = Len(got) + 1 /\ got'[Len(got) + 1] = d
    BY <2>1, <2>2
  <2>5. d \in Delivery
    BY <2>1, <2>3, <2>4, ElementOfSeq
  <2>6. \A i \in 1 .. Len(got) : got'[i] = got[i]
    BY <2>1, <2>2, <2>5, AppendProperties
  <2>7. d.pkt \in 1 .. Len(sent) /\ d.data = sent[d.pkt].data
    BY <1>1, <2>1, <2>4 DEF Genuine
  <2>8. d.pkt > Channel!LastTaken
    <3>1. CASE got = <<>>
      BY <3>1, <2>7 DEF Channel!LastTaken, IInv, TypeInv, TypeOK
    <3>2. CASE got # <<>>
      <4>1. Len(got) \in 1 .. Len(got)
        BY <2>1, <3>2, EmptySeq
      <4>2. got'[Len(got)].pkt < got'[Len(got) + 1].pkt
        <5>1. /\ Len(got) \in 1 .. Len(got') /\ Len(got) + 1 \in 1 .. Len(got')
              /\ Len(got) < Len(got) + 1
          BY <2>1, <2>4, <4>1
        <5>2. QED BY <5>1, Zenon DEF Genuine
      <4>3. got[Len(got)].pkt < d.pkt /\ got[Len(got)] \in Delivery
        BY <2>1, <2>4, <2>6, <4>1, <4>2, ElementOfSeq
      <4>4. QED BY <3>2, <4>3, <2>5 DEF Channel!LastTaken, Delivery
    <3>3. QED BY <3>1, <3>2
  <2>9. d = [pkt |-> d.pkt, data |-> d.data]
    BY <2>5 DEF Delivery
  <2>10. Channel!Deliver(d.pkt)
    <3>1. d = [pkt |-> d.pkt, data |-> sent[d.pkt].data]
      BY <2>7, <2>9
    <3>2. QED BY <1>1, <2>2, <2>8, <3>1 DEF Channel!Deliver
  <2>11. QED BY <2>7, <2>10 DEF Channel!Next
<1>4. QED BY <1>2, <1>3

\* The other steps of the assembler neither send nor deliver.
LEMMA ReaderChannel ==
  (RefusePage \/ AcceptPage \/ PushForeign \/ \E page \in 1 .. Len(out) + 1 : Reset(page))
    => [Channel!Next]_Channel!vars
<1>1. (RefusePage \/ AcceptPage \/ PushForeign \/ \E page \in 1 .. Len(out) + 1 : Reset(page))
        => UNCHANGED <<sent, got>>
  BY Zenon DEF RefusePage, AcceptPage, PushForeign, Reset, writer
<1>2. QED BY <1>1 DEF Channel!vars

LEMMA ChannelStep == IInv /\ IInv' /\ [Next]_vars => [Channel!Next]_Channel!vars
<1> SUFFICES ASSUME IInv, IInv', [Next]_vars PROVE [Channel!Next]_Channel!vars
  OBVIOUS
<1>1. CASE Writer
  BY <1>1, WriterChannel
<1>2. CASE Reader
  <2>1. Genuine'
    BY Zenon DEF IInv
  <2>2. QED BY <1>2, <2>1, TakeChannel, ReaderChannel, Zenon DEF Reader
<1>3. CASE UNCHANGED vars
  <2>1. UNCHANGED <<sent, got>>
    BY <1>3, Zenon DEF vars, writer, reader
  <2>2. QED BY <2>1 DEF Channel!vars
<1>4. QED BY <1>1, <1>2, <1>3, Zenon DEF Next, Terminated

LEMMA ChannelInit == Init => Channel!Init
BY DEF Init, Channel!Init

\* PageWriter and PacketAssembler together are a channel of packets: pages,
\* laces, flushes, drops and resets never show but as packets skipped.
THEOREM ChannelImplemented == Spec => ImplementsChannel
<1>1. Init => Channel!Init
  BY ChannelInit
<1>2. IInv /\ IInv' /\ [Next]_vars => [Channel!Next]_Channel!vars
  BY ChannelStep
<1>3. QED BY <1>1, <1>2, Invariance, PTL DEF Spec, ImplementsChannel, Channel!Spec

-----------------------------------------------------------------------------
(* Page headers: the headers PageWriter stamps are true.                   *)
(*                                                                         *)
(* HeadersTrue alone is not inductive: a page is cut from the pending one, *)
(* so the pending page must already carry the granule of the last packet   *)
(* completed on it, the counter must be the number of pages, and BOS must  *)
(* be pending exactly until the first page is out.                         *)

\* g is the granule a page holding segs must carry, over a sequence q of packets.
Stamped(q, segs, g) ==
  \/ g = NoGranule /\ \A k \in 1 .. Len(segs) : Open(segs[k])
  \/ \E k \in 1 .. Len(segs) : /\ ~Open(segs[k]) /\ g = q[segs[k].pkt].granule
                              /\ \A l \in 1 .. Len(segs) : ~Open(segs[l]) => l <= k

\* The header of page i of the n pages out, apart from its granule.
HeaderOf(page, i, n, fin) ==
  /\ page.seq = i - 1
  /\ page.bos <=> i = 1
  /\ page.eos <=> fin /\ i = n
  /\ Len(page.segs) \in 1 .. MaxSegs

PagesInv ==
  \A i \in 1 .. Len(out) : /\ Stamped(sent, out[i].segs, out[i].granule)
                           /\ HeaderOf(out[i], i, Len(out), closed)

HeaderInv ==
  /\ PagesInv
  /\ Stamped(sent, lacing, page_granule)
  /\ sequence = Len(out)
  /\ bos_pending <=> out = <<>>

-----------------------------------------------------------------------------
(* Stamps.                                                                 *)

\* A page holding nothing carries no granule.
LEMMA StampedEmpty == ASSUME NEW q PROVE Stamped(q, <<>>, NoGranule)
BY DEF Stamped

\* Later packets do not change the stamp of a page.
LEMMA StampedGrows ==
  ASSUME NEW q \in Seq(Packet), NEW p \in Packet, NEW segs \in Seq(Segment), NEW g,
         Run(q, segs), Stamped(q, segs, g)
  PROVE  Stamped(Append(q, p), segs, g)
<1>1. \A i \in 1 .. Len(q) : Append(q, p)[i] = q[i]
  BY AppendProperties
<1>2. \A k \in 1 .. Len(segs) : segs[k].pkt \in 1 .. Len(q)
  BY DEF Run, Cut
<1>3. QED BY <1>1, <1>2 DEF Stamped

\* A full lace leaves the stamp, the last lace of a packet renews it.
LEMMA StampedAppend ==
  ASSUME NEW q, NEW segs \in Seq(Segment), NEW s \in Segment, NEW g, Stamped(q, segs, g)
  PROVE  /\ Open(s) => Stamped(q, Append(segs, s), g)
         /\ ~Open(s) => Stamped(q, Append(segs, s), q[s.pkt].granule)
<1> DEFINE t == Append(segs, s)
<1>1. /\ Len(t) = Len(segs) + 1 /\ Len(segs) \in Nat
      /\ \A k \in 1 .. Len(segs) : t[k] = segs[k]
      /\ t[Len(segs) + 1] = s
  BY AppendProperties
<1> HIDE DEF t
<1>2. ASSUME Open(s) PROVE Stamped(q, t, g)
  <2>1. CASE g = NoGranule /\ \A k \in 1 .. Len(segs) : Open(segs[k])
    BY <1>1, <1>2, <2>1 DEF Stamped
  <2>2. ASSUME NEW k \in 1 .. Len(segs), ~Open(segs[k]), g = q[segs[k].pkt].granule,
               \A l \in 1 .. Len(segs) : ~Open(segs[l]) => l <= k
        PROVE  Stamped(q, t, g)
    <3>1. k \in 1 .. Len(t) /\ ~Open(t[k]) /\ g = q[t[k].pkt].granule
      BY <1>1, <2>2
    <3>2. \A l \in 1 .. Len(t) : ~Open(t[l]) => l <= k
      BY <1>1, <1>2, <2>2
    <3>3. QED BY <3>1, <3>2 DEF Stamped
  <2>3. QED BY <2>1, <2>2 DEF Stamped
<1>3. ASSUME ~Open(s) PROVE Stamped(q, t, q[s.pkt].granule)
  <2>1. Len(t) \in 1 .. Len(t) /\ t[Len(t)] = s
    BY <1>1
  <2>2. \A l \in 1 .. Len(t) : l <= Len(t)
    BY <1>1
  <2>3. QED BY <1>3, <2>1, <2>2 DEF Stamped
<1>4. QED BY <1>2, <1>3 DEF t

\* A page stamped in this sense is StampedRight.
LEMMA StampedIsRight ==
  ASSUME NEW page, Stamped(sent, page.segs, page.granule)
  PROVE  StampedRight(page)
<1>1. CASE \A k \in 1 .. Len(page.segs) : Open(page.segs[k])
  <2>1. Completes(page) = {}
    BY <1>1 DEF Completes
  <2>2. page.granule = NoGranule
    BY <1>1 DEF Stamped
  <2>3. QED BY <2>1, <2>2 DEF StampedRight
<1>2. CASE \E k \in 1 .. Len(page.segs) : ~Open(page.segs[k])
  <2>1. PICK k \in 1 .. Len(page.segs) :
          /\ ~Open(page.segs[k]) /\ page.granule = sent[page.segs[k].pkt].granule
          /\ \A l \in 1 .. Len(page.segs) : ~Open(page.segs[l]) => l <= k
    BY <1>2 DEF Stamped
  <2>2. k \in Completes(page) /\ \A l \in Completes(page) : l <= k
    BY <2>1 DEF Completes
  <2>3. QED BY <2>1, <2>2 DEF StampedRight
<1>3. QED BY <1>1, <1>2

-----------------------------------------------------------------------------
(* The writer.                                                             *)

\* What emit_page does to the headers when it is given a page stamped right.
LEMMA EmitHeader ==
  ASSUME TypeInv, HeaderInv, NEW segs \in Seq(Segment), Len(segs) \in 1 .. MaxSegs,
         NEW g \in Granule \cup {NoGranule}, NEW c \in BOOLEAN, NEW e \in BOOLEAN,
         EmitPage(segs, g, c, e), ~closed, closed' = e,
         \A i \in 1 .. Len(out) : Stamped(sent', out[i].segs, out[i].granule),
         Stamped(sent', segs, g)
  PROVE  HeaderInv'
<1> DEFINE page == [cont |-> pending_continued, bos |-> bos_pending, eos |-> e, granule |-> g,
                    seq |-> sequence, segs |-> segs]
<1>1. page \in Page
  BY DEF TypeInv, TypeOK, Page
<1>2. /\ out' = Append(out, page) /\ out \in Seq(Page)
      /\ lacing' = <<>> /\ page_granule' = NoGranule /\ sequence' = sequence + 1
  BY DEF EmitPage, TypeInv, TypeOK
<1>3. /\ Len(out') = Len(out) + 1 /\ Len(out) \in Nat
      /\ \A i \in 1 .. Len(out) : out'[i] = out[i]
      /\ out'[Len(out) + 1] = page
  BY <1>1, <1>2, AppendProperties
<1>4. ASSUME NEW i \in 1 .. Len(out)
      PROVE  /\ Stamped(sent', out'[i].segs, out'[i].granule)
             /\ HeaderOf(out'[i], i, Len(out'), closed')
  <2>1. HeaderOf(out[i], i, Len(out), closed)
    BY DEF HeaderInv, PagesInv
  <2>2. ~out[i].eos /\ i # Len(out')
    BY <1>3, <2>1 DEF HeaderOf
  <2>3. QED BY <1>3, <2>1, <2>2 DEF HeaderOf
<1>5. /\ Stamped(sent', page.segs, page.granule)
      /\ HeaderOf(page, Len(out) + 1, Len(out'), closed')
  <2>1. page.bos <=> Len(out) + 1 = 1
    BY <1>2, <1>3, EmptySeq DEF HeaderInv
  <2>2. page.eos <=> closed' /\ Len(out) + 1 = Len(out')
    BY <1>3
  <2>3. page.seq = (Len(out) + 1) - 1
    BY <1>3 DEF HeaderInv
  <2> HIDE DEF page
  <2>4. page.segs = segs /\ page.granule = g
    BY DEF page
  <2>5. QED BY <2>1, <2>2, <2>3, <2>4 DEF HeaderOf
<1>6. PagesInv'
  <2>1. \A i \in 1 .. Len(out') : i \in 1 .. Len(out) \/ i = Len(out) + 1
    BY <1>3
  <2> HIDE DEF page
  <2>2. QED BY <1>3, <1>4, <1>5, <2>1 DEF PagesInv
<1>7. Stamped(sent', lacing', page_granule')
  BY <1>2, StampedEmpty
<1>8. sequence' = Len(out')
  BY <1>2, <1>3 DEF HeaderInv
<1>9. bos_pending' <=> out' = <<>>
  <2>1. bos_pending' = FALSE
    BY DEF EmitPage
  <2>2. out' # <<>>
    BY <1>2, <1>3, EmptySeq
  <2>3. QED BY <2>1, <2>2
<1>10. QED BY <1>6, <1>7, <1>8, <1>9 DEF HeaderInv

\* A step that emits nothing and sends nothing keeps the pages as they are.
LEMMA HeaderFrame ==
  ASSUME HeaderInv, UNCHANGED <<sent, out, sequence, bos_pending, closed>>,
         Stamped(sent', lacing', page_granule')
  PROVE  HeaderInv'
BY DEF HeaderInv, PagesInv

LEMMA HeaderInit == Init => HeaderInv
<1> SUFFICES ASSUME Init PROVE HeaderInv
  OBVIOUS
<1>1. lacing = <<>> /\ page_granule = NoGranule /\ out = <<>> /\ sequence = 0
  BY DEF Init
<1>2. bos_pending
  BY DEF Init
<1>3. QED BY <1>1, <1>2, StampedEmpty DEF HeaderInv, PagesInv

LEMMA HeaderPush ==
  ASSUME TypeInv, WriterInv, HeaderInv,
         NEW data \in Payload, NEW granule \in Granule, PushPacket(data, granule)
  PROVE  HeaderInv'
<1>1. [data |-> data, granule |-> granule] \in Packet
  BY DEF Packet
<1>2. PICK p \in Packet : sent' = Append(sent, p)
  BY <1>1 DEF PushPacket
<1>3. sent \in Seq(Packet) /\ lacing \in Seq(Segment) /\ out \in Seq(Page)
  BY DEF TypeInv, TypeOK
<1>4. Stamped(sent', lacing, page_granule)
  BY <1>2, <1>3, StampedGrows DEF HeaderInv, WriterInv
<1>5. ASSUME NEW i \in 1 .. Len(out) PROVE Stamped(sent', out[i].segs, out[i].granule)
  <2>1. out[i].segs \in Seq(Segment)
    BY <1>3, PageTypes
  <2>2. Run(sent, out[i].segs) /\ Stamped(sent, out[i].segs, out[i].granule)
    BY DEF HeaderInv, PagesInv, WriterInv, PageRuns
  <2>3. QED BY <1>2, <1>3, <2>1, <2>2, StampedGrows
<1>6. CASE Len(lacing) = MaxSegs
  <2>1. EmitPage(lacing, page_granule, FALSE, FALSE) /\ ~closed
    BY <1>6 DEF PushPacket
  <2>2. closed' = FALSE
    <3>1. closed' = closed /\ closed \in BOOLEAN
      BY Zenon DEF PushPacket, TypeInv, TypeOK
    <3>2. QED BY <2>1, <3>1
  <2>3. Len(lacing) \in 1 .. MaxSegs
    BY <1>6, FramingAssumption
  <2>4. page_granule \in Granule \cup {NoGranule}
    BY DEF TypeInv, TypeOK
  <2>5. QED BY <1>3, <1>4, <1>5, <2>1, <2>2, <2>3, <2>4, EmitHeader
<1>7. CASE Len(lacing) # MaxSegs
  <2>1. /\ UNCHANGED <<lacing, page_granule, out, sequence, bos_pending, closed>>
    BY <1>7, Zenon DEF PushPacket, KeepPage
  <2>2. QED BY <1>4, <1>5, <2>1 DEF HeaderInv, PagesInv
<1>8. QED BY <1>6, <1>7

LEMMA HeaderPut ==
  ASSUME TypeInv, HeaderInv, PutSegment
  PROVE  HeaderInv'
<1>1. /\ Current \in Packet /\ Take \in 0 .. SegSize
      /\ NewSegment \in Segment /\ Len(NewSegment.data) = Take
  BY NewSegmentType DEF PutSegment, TypeInv, CursorInv, Current
<1>2. /\ sent' = sent /\ lacing \in Seq(Segment)
      /\ Len(lacing) \in Nat /\ Len(lacing) < MaxSegs /\ Stamped(sent, lacing, page_granule)
  BY DEF PutSegment, TypeInv, TypeOK, HeaderInv
<1>3. ~closed /\ closed' = FALSE
  <2>1. closed' = closed /\ closed \in BOOLEAN /\ ~closed
    BY Zenon DEF PutSegment, TypeInv, TypeOK, CursorInv
  <2>2. QED BY <2>1
<1>4. NewSegment.pkt = Len(sent) /\ (Open(NewSegment) <=> Take = SegSize)
  BY <1>1 DEF NewSegment, Open
<1>5. /\ Append(lacing, NewSegment) \in Seq(Segment)
      /\ Len(Append(lacing, NewSegment)) \in 1 .. MaxSegs
  <2>1. /\ Append(lacing, NewSegment) \in Seq(Segment)
        /\ Len(Append(lacing, NewSegment)) = Len(lacing) + 1
    BY <1>1, <1>2, AppendProperties
  <2>2. QED BY <1>2, <2>1, FramingAssumption
<1>6. /\ Take = SegSize => Stamped(sent, Append(lacing, NewSegment), page_granule)
      /\ Take # SegSize => Stamped(sent, Append(lacing, NewSegment), Current.granule)
  BY <1>1, <1>2, <1>4, StampedAppend DEF Current
<1>7. CASE Take < SegSize /\ page_target # NoTarget /\ body_len + Take >= page_target
  <2>1. EmitPage(Append(lacing, NewSegment), Current.granule, FALSE, FALSE)
    BY <1>7 DEF PutSegment
  <2>2. Current.granule \in Granule \cup {NoGranule}
    BY <1>1 DEF Packet
  <2>3. \A i \in 1 .. Len(out) : Stamped(sent', out[i].segs, out[i].granule)
    BY <1>2 DEF HeaderInv, PagesInv
  <2>4. Stamped(sent', Append(lacing, NewSegment), Current.granule)
    BY <1>2, <1>6, <1>7, FramingAssumption
  <2>5. QED BY <1>3, <1>5, <2>1, <2>2, <2>3, <2>4, EmitHeader
<1>8. CASE Take < SegSize /\ ~(page_target # NoTarget /\ body_len + Take >= page_target)
  <2>1. /\ lacing' = Append(lacing, NewSegment) /\ page_granule' = Current.granule
        /\ UNCHANGED <<sent, out, sequence, bos_pending, closed>>
    BY <1>8 DEF PutSegment
  <2>2. Stamped(sent', lacing', page_granule')
    BY <1>2, <1>6, <1>8, <2>1, FramingAssumption
  <2>3. QED BY <2>1, <2>2, HeaderFrame
<1>9. CASE ~(Take < SegSize)
  <2>1. /\ lacing' = Append(lacing, NewSegment) /\ page_granule' = page_granule
        /\ UNCHANGED <<sent, out, sequence, bos_pending, closed>>
    BY <1>9 DEF PutSegment
  <2>2. Stamped(sent', lacing', page_granule')
    BY <1>1, <1>2, <1>6, <1>9, <2>1, FramingAssumption
  <2>3. QED BY <2>1, <2>2, HeaderFrame
<1>10. QED BY <1>7, <1>8, <1>9

\* A pending page that goes out as it is.
LEMMA HeaderEmit ==
  ASSUME TypeInv, HeaderInv, lacing # <<>>, sent' = sent, NEW c \in BOOLEAN, NEW e \in BOOLEAN,
         EmitPage(lacing, page_granule, c, e), ~closed, closed' = e
  PROVE  HeaderInv'
<1>1. lacing \in Seq(Segment) /\ page_granule \in Granule \cup {NoGranule}
  BY DEF TypeInv, TypeOK
<1>2. Len(lacing) \in 1 .. MaxSegs
  BY <1>1, EmptySeq DEF TypeInv, CursorInv
<1>3. Stamped(sent', lacing, page_granule)
  BY DEF HeaderInv
<1>4. \A i \in 1 .. Len(out) : Stamped(sent', out[i].segs, out[i].granule)
  BY DEF HeaderInv, PagesInv
<1>5. QED BY <1>1, <1>2, <1>3, <1>4, EmitHeader

\* finish with nothing pending re-stamps the last page.
LEMMA HeaderRestamp ==
  ASSUME TypeInv, HeaderInv, Finish, lacing = <<>>
  PROVE  HeaderInv'
<1>1. /\ ~closed /\ closed' = TRUE /\ sent' = sent
      /\ UNCHANGED <<lacing, page_granule, bos_pending, sequence>>
      /\ out' = IF out = <<>> THEN out ELSE [out EXCEPT ![Len(out)].eos = TRUE]
  BY DEF Finish
<1>2. CASE out = <<>>
  BY <1>1, <1>2 DEF HeaderInv, PagesInv
<1>3. CASE out # <<>>
  <2>1. out \in Seq(Page) /\ Len(out) \in 1 .. Len(out) /\ Len(out) \in Nat
    BY <1>3, EmptySeq DEF TypeInv, TypeOK
  <2> DEFINE last == [out[Len(out)] EXCEPT !.eos = TRUE]
  <2>2. out[Len(out)] \in Page
    BY <2>1, ElementOfSeq
  <2>3. /\ last \in Page /\ last.segs = out[Len(out)].segs /\ last.granule = out[Len(out)].granule
        /\ last.seq = out[Len(out)].seq /\ last.bos = out[Len(out)].bos /\ last.eos = TRUE
    BY <2>2 DEF Page
  <2>4. out' = [out EXCEPT ![Len(out)] = last]
    BY <1>1, <1>3
  <2> HIDE DEF last
  <2>5. /\ out' \in Seq(Page) /\ Len(out') = Len(out)
        /\ \A i \in 1 .. Len(out) : out'[i] = IF i = Len(out) THEN last ELSE out[i]
    BY <2>1, <2>3, <2>4, ExceptSeq
  <2>6. out' # <<>>
    BY <2>1, <2>5, EmptySeq
  <2>7. ASSUME NEW i \in 1 .. Len(out')
        PROVE  /\ Stamped(sent', out'[i].segs, out'[i].granule)
               /\ HeaderOf(out'[i], i, Len(out'), closed')
    <3>1. Stamped(sent, out[i].segs, out[i].granule) /\ HeaderOf(out[i], i, Len(out), closed)
      BY <2>5 DEF HeaderInv, PagesInv
    <3>2. CASE i = Len(out)
      BY <1>1, <2>3, <2>5, <3>1, <3>2 DEF HeaderOf
    <3>3. CASE i # Len(out)
      BY <1>1, <2>5, <3>1, <3>3 DEF HeaderOf
    <3>4. QED BY <3>2, <3>3
  <2>8. PagesInv'
    BY <2>7 DEF PagesInv
  <2>9. QED BY <1>1, <1>3, <2>5, <2>6, <2>8 DEF HeaderInv
<1>4. QED BY <1>2, <1>3

LEMMA HeaderStep == TypeInv /\ WriterInv /\ HeaderInv /\ [Next]_vars => HeaderInv'
<1> SUFFICES ASSUME TypeInv, WriterInv, HeaderInv, [Next]_vars PROVE HeaderInv'
  OBVIOUS
<1>1. CASE UNCHANGED vars \/ Reader \/ Terminated
  <2>1. UNCHANGED writer
    BY <1>1, Zenon DEF vars, Reader, Terminated, RefusePage, AcceptPage, TakeSegment, PushForeign, Reset
  <2>2. UNCHANGED <<sent, lacing, page_granule, out, sequence, bos_pending, closed>>
    BY <2>1, Zenon DEF writer
  <2>3. QED BY <2>2 DEF HeaderInv, PagesInv
<1>2. ASSUME NEW data \in Payload, NEW granule \in Granule, PushPacket(data, granule) PROVE HeaderInv'
  BY <1>2, HeaderPush
<1>3. CASE PutSegment
  BY <1>3, HeaderPut
<1>4. closed \in BOOLEAN
  BY Zenon DEF TypeInv, TypeOK
<1>5. CASE SpillPage
  <2>1. /\ Len(lacing) = MaxSegs /\ EmitPage(lacing, page_granule, TRUE, FALSE)
        /\ sent' = sent /\ ~closed /\ closed' = closed
    BY <1>5 DEF SpillPage, TypeInv, CursorInv
  <2>2. lacing # <<>> /\ closed' = FALSE
    BY <1>4, <2>1, FramingAssumption
  <2>3. QED BY <2>1, <2>2, HeaderEmit
<1>6. CASE FlushPage
  <2>1. /\ lacing # <<>> /\ EmitPage(lacing, page_granule, FALSE, FALSE)
        /\ sent' = sent /\ ~closed /\ closed' = closed
    BY <1>6 DEF FlushPage
  <2>2. closed' = FALSE
    BY <1>4, <2>1
  <2>3. QED BY <2>1, <2>2, HeaderEmit
<1>7. CASE Finish
  <2>1. CASE lacing = <<>>
    BY <1>7, <2>1, HeaderRestamp
  <2>2. CASE lacing # <<>>
    <3>1. /\ EmitPage(lacing, page_granule, FALSE, TRUE) /\ sent' = sent /\ ~closed /\ closed' = TRUE
      BY <1>7, <2>2 DEF Finish
    <3>2. QED BY <2>2, <3>1, HeaderEmit
  <2>3. QED BY <2>1, <2>2
<1>8. ASSUME NEW t \in Target \cup {NoTarget}, SetPageTarget(t) PROVE HeaderInv'
  <2>1. UNCHANGED <<sent, lacing, page_granule, out, sequence, bos_pending, closed>>
    BY <1>8, Zenon DEF SetPageTarget
  <2>2. QED BY <2>1, HeaderFrame DEF HeaderInv
<1>9. QED BY <1>1, <1>2, <1>3, <1>5, <1>6, <1>7, <1>8 DEF Next, Writer

\* Every page PageWriter emits tells the truth: the granule of the last packet
\* completed on it, BOS on the first page alone, EOS on the last alone once the
\* stream is closed, sequence numbers without a gap, and a table that is
\* neither empty nor longer than MAX_PAGE_SEGMENTS.
THEOREM HeadersCorrect == Spec => []HeadersTrue
<1>1. IInv /\ HeaderInv /\ [Next]_vars => HeaderInv'
  BY HeaderStep DEF IInv
<1>2. HeaderInv => HeadersTrue
  <2> SUFFICES ASSUME HeaderInv, NEW i \in 1 .. Len(out)
               PROVE  /\ StampedRight(out[i])
                      /\ HeaderOf(out[i], i, Len(out), closed)
    BY DEF HeadersTrue, HeaderOf
  <2>1. QED BY StampedIsRight DEF HeaderInv, PagesInv
<1>3. Spec => []HeaderInv
  BY <1>1, HeaderInit, Invariance, PTL DEF Spec
<1>4. QED BY <1>2, <1>3, PTL
=============================================================================
