---------------------------- MODULE OggMuxProofs ----------------------------
(***************************************************************************)
(* Type correctness of the muxer, for every set of links, streams and      *)
(* packets, every segment table, page target and serial space.             *)
(*                                                                         *)
(* TypeOK alone is not inductive: that flush_page closes a page only when  *)
(* the builder holds a lace, that write_packet never spans past the last   *)
(* lace, that a link is opened only where there is one and that a serial   *)
(* is always free depend on where a call stands and on which streams have  *)
(* been given a serial.  TypeInv adds both; there is a lemma per action.   *)
(***************************************************************************)
EXTENDS OggMux, SequenceLemmas

-----------------------------------------------------------------------------
(* The sets the variables range over.                                      *)

Stages ==
  {"idle", "arm", "arm_skeleton", "fishead", "theora_bos", "other_bos", "theora_headers",
   "other_headers", "drain_headers", "bone", "index", "skeleton_eos", "close_link",
   "drain_link", "link", "close", "drain", "backfill"}
HeaderLoops  == {"theora_headers", "other_headers"}
BosLoops     == {"theora_bos", "other_bos"}
ClosingLoops == {"close_link", "close"}
Loops == {"arm", "bone", "index"} \cup BosLoops \cup HeaderLoops \cup ClosingLoops
StepNames == {"none", "packet", "put", "stamp", "flush", "release"}

Granules    == Nat \cup {NoPts}
LaceSet     == [pkt : Nat, n : Nat, open : BOOLEAN]
SegsSet     == {q \in Seq(LaceSet) : Len(q) <= MaxSegs}
PageFlags   == SUBSET {"bos", "cont", "eos"}
PageSet     == [stream : Streams \cup {"skeleton"}, serial : Serials \cup {NoSerial}, seq : Nat,
                flags : PageFlags, granule : Granules, segs : SegsSet, time : Nat, link : Nat]
ItemSet     == [page : PageSet, kf : Granules]
BuilderSet  == [segs : SegsSet, cont : BOOLEAN, granule : Granules, kf : Granules]
KeypointSet == [offset : Nat, timestamp : Nat]
WritingSet  == [s : Streams, p : Packet, from : Nat]

\* The streams that build_link_writers has yet to give a serial.
Unarmed(s) ==
  \/ \E k \in DOMAIN Links : k > link /\ s \in ToSet(Links[k])
  \/ stage = "arm" /\ \E i \in turn .. Len(Order) : s = Order[i]

ControlInv ==
  /\ link \in DOMAIN Links
  /\ stage \in Stages /\ step \in StepNames /\ turn \in 1 .. Len(Order) /\ extra \in Nat
  /\ stage \notin Loops => turn = 1
  /\ stage \in {"close_link", "drain_link", "link"} => link < Len(Links) /\ ~Skeleton
CallInv ==
  step # "none" =>
    /\ writing.s \in Current
    /\ stage \in {"idle"} \cup HeaderLoops \cup ClosingLoops
    /\ stage # "idle" => writing.s = Turn
    /\ stage \in ClosingLoops =>
         step \in {"flush", "release"} /\ writing.from >= writing.p.laces
WritingInv ==
  /\ writing \in WritingSet
  /\ step \in {"packet", "put"} => writing.from < writing.p.laces
  /\ step \in {"flush", "stamp"} => buffered[writing.s].segs # <<>>
FlagsInv ==
  /\ header_written \in BOOLEAN
  /\ trailer_written \in BOOLEAN
  /\ content_started \in BOOLEAN
TargetInv == page_target \in Targets \cup {NoTarget}
SerialsInv ==
  /\ serial \in [Streams -> Serials \cup {NoSerial}]
  /\ skel_serial \in Serials \cup {NoSerial}
  /\ used_serials \subseteq Serials
  /\ \A n \in used_serials : n = skel_serial \/ \E s \in Streams : serial[s] = n
  /\ skel_serial # NoSerial => Skeleton /\ stage \notin {"arm", "arm_skeleton"}
  /\ \A s \in Streams : Unarmed(s) => serial[s] = NoSerial
  /\ stage = "arm_skeleton" => used_serials # {} /\ Skeleton
BuffersInv == buffered \in [Streams -> BuilderSet]
QueuesInv  == queue \in [Streams -> Seq(ItemSet)]
WireInv    == wire \in Seq(PageSet)
BosInv     == bos_emitted \in [Streams -> BOOLEAN]
HeadersInv == /\ headers_remaining \in [Streams -> Nat]
              /\ \A s \in Streams : headers_remaining[s] <= Need[s]
NumbersInv == /\ seq_no \in [Streams -> Nat] /\ sk_seq \in Nat
ClocksInv  == newest_time \in [Streams -> Nat] /\ last_granule \in [Streams -> Nat]
FramesInv  == next_frame \in [Streams -> Nat] /\ last_kf \in [Streams -> Nat]
KeypointsInv == /\ keypoints \in [Streams -> Seq(KeypointSet)]
                /\ \A s \in Streams : Len(keypoints[s]) <= MaxKeypoints
SentInv == sent \in [Streams -> Seq(Packet)]

DataInv ==
  /\ BuffersInv /\ QueuesInv /\ WireInv /\ BosInv /\ HeadersInv
  /\ NumbersInv /\ ClocksInv /\ FramesInv /\ KeypointsInv /\ SentInv
data == <<seq_no, buffered, headers_remaining, bos_emitted, queue, newest_time, last_granule,
          next_frame, last_kf, keypoints, sk_seq, sent, wire>>

TypeInv == ControlInv /\ CallInv /\ WritingInv /\ FlagsInv /\ TargetInv /\ SerialsInv /\ DataInv

-----------------------------------------------------------------------------
(* Serials: there is a free one, and FreeSerial finds it.                  *)

LEMMA Remainder ==
  ASSUME NEW S \in Nat \ {0}, NEW d \in Int, NEW e \in 0 .. S - 1
  PROVE  (S * d + e) % S = e
OBVIOUS

LEMMA RoomForSerials ==
  ASSUME NEW f \in [Streams -> Serials \cup {NoSerial}], NEW U,
         \A n \in U : \E s \in Streams : f[s] = n
  PROVE  \E n \in Serials : n \notin U
<1>1. SUFFICES ASSUME \A n \in Serials : n \in U PROVE FALSE
  OBVIOUS
<1>2. /\ IsFiniteSet(Streams) /\ SerialSpace \in Nat /\ Cardinality(Streams) < SerialSpace
      /\ Cardinality(Streams) \in Nat
  BY MuxAssumption, FS_CardinalityType
<1> DEFINE g == [s \in Streams |-> IF f[s] \in Serials THEN f[s] ELSE 0]
<1>3. g \in Surjection(Streams, Serials)
  <2>1. 0 \in Serials
    BY <1>2 DEF Serials
  <2>2. g \in [Streams -> Serials]
    BY <2>1
  <2>3. \A n \in Serials : \E s \in Streams : g[s] = n
    BY <1>1
  <2>4. QED BY <2>2, <2>3 DEF Surjection
<1>4. Cardinality(Serials) <= Cardinality(Streams)
  BY <1>2, <1>3, FS_Surjection
<1>5. Cardinality(Serials) = SerialSpace
  BY <1>2, FS_Interval DEF Serials
<1>6. QED BY <1>2, <1>4, <1>5

LEMMA FreeSerialFacts ==
  ASSUME NEW first \in Nat, \E n \in Serials : n \notin used_serials
  PROVE  FreeSerial(first) \in Serials /\ FreeSerial(first) \notin used_serials
<1> DEFINE At(d) == (first + d) % SerialSpace
           D == {d \in 0 .. SerialSpace - 1 : At(d) \notin used_serials}
<1>1. PICK n \in Serials : n \notin used_serials
  OBVIOUS
<1>2. SerialSpace \in Nat \ {0} /\ n \in 0 .. SerialSpace - 1
  BY <1>1, MuxAssumption DEF Serials
<1>3. D # {}
  <2> DEFINE f == first % SerialSpace
             q == first \div SerialSpace
             d == IF n >= f THEN n - f ELSE n + SerialSpace - f
  <2>1. f \in 0 .. SerialSpace - 1 /\ q \in Int /\ first = SerialSpace * q + f
    BY <1>2
  <2>2. d \in 0 .. SerialSpace - 1
    <3> HIDE DEF f, q
    <3>1. QED BY <1>2, <2>1
  <2>3. At(d) = n
    <3> HIDE DEF f, q
    <3>1. CASE n >= f
      <4>1. first + d = SerialSpace * q + n
        BY <1>2, <2>1, <3>1
      <4>2. (SerialSpace * q + n) % SerialSpace = n
        BY <1>2, <2>1, Remainder
      <4>3. QED BY <4>1, <4>2
    <3>2. CASE n < f
      <4>1. first + d = SerialSpace * (q + 1) + n
        <5>1. SerialSpace * (q + 1) = SerialSpace * q + SerialSpace
          BY <1>2, <2>1
        <5>2. QED BY <1>2, <2>1, <3>2, <5>1
      <4>2. q + 1 \in Int
        BY <2>1
      <4>3. (SerialSpace * (q + 1) + n) % SerialSpace = n
        BY <1>2, <4>2, Remainder
      <4>4. QED BY <4>1, <4>3
    <3>3. QED BY <1>2, <2>1, <3>1, <3>2
  <2> HIDE DEF d, At
  <2>4. d \in D
    BY <1>1, <2>2, <2>3
  <2>5. QED BY <2>4
<1>4. PICK d \in D : \A e \in D : d <= e
  <2>1. D \in SUBSET Nat
    BY <1>2
  <2>2. QED BY <1>3, <2>1, LeastNatural
<1>5. \E x \in 0 .. SerialSpace - 1 : /\ At(x) \notin used_serials
                                      /\ \A e \in 0 .. x - 1 : At(e) \in used_serials
  <2>1. \A e \in 0 .. d - 1 : e \in 0 .. SerialSpace - 1 /\ e \notin D
    BY <1>2, <1>4
  <2>2. \A e \in 0 .. d - 1 : At(e) \in used_serials
    BY <2>1
  <2>3. QED BY <1>4, <2>2
<1>6. PICK x \in 0 .. SerialSpace - 1 : /\ At(x) \notin used_serials
                                        /\ FreeSerial(first) = At(x)
  BY <1>5, Zenon DEF FreeSerial
<1>7. At(x) \in Serials
  BY <1>2 DEF Serials
<1>8. QED BY <1>6, <1>7

LEMMA MaxSerialFacts ==
  ASSUME used_serials \subseteq Serials, used_serials # {}
  PROVE  MaxSerial \in used_serials /\ MaxSerial \in Nat
<1>1. SerialSpace \in Nat
  BY MuxAssumption
<1> DEFINE T == {m \in Nat : m < SerialSpace /\ SerialSpace - 1 - m \in used_serials}
<1>2. T # {} /\ T \in SUBSET Nat
  <2>1. PICK n \in used_serials : TRUE
    OBVIOUS
  <2>2. n \in 0 .. SerialSpace - 1
    BY <2>1 DEF Serials
  <2>3. SerialSpace - 1 - n \in T
    BY <1>1, <2>1, <2>2
  <2>4. QED BY <2>3
<1>3. PICK m \in T : \A k \in T : m <= k
  BY <1>2, LeastNatural
<1>4. \A n \in used_serials : n <= SerialSpace - 1 - m
  <2> SUFFICES ASSUME NEW n \in used_serials PROVE n <= SerialSpace - 1 - m
    OBVIOUS
  <2>1. n \in 0 .. SerialSpace - 1
    BY DEF Serials
  <2>2. SerialSpace - 1 - n \in T
    BY <1>1, <2>1
  <2>3. QED BY <1>1, <1>3, <2>1, <2>2
<1>5. \E n \in used_serials : \A k \in used_serials : k <= n
  BY <1>3, <1>4
<1>6. MaxSerial \in used_serials
  BY <1>5, Zenon DEF MaxSerial
<1>7. QED BY <1>6 DEF Serials

-----------------------------------------------------------------------------
(* The streams of a link.                                                  *)

LEMMA OrderFacts ==
  ASSUME link \in DOMAIN Links
  PROVE  /\ Order \in Seq(Streams) /\ Len(Order) \in Nat \ {0}
         /\ \A i \in 1 .. Len(Order) : Order[i] \in Streams /\ Order[i] \in Current
         /\ Current \subseteq Streams
         /\ \A s \in Current : \E i \in 1 .. Len(Order) : s = Order[i]
<1>1. Order \in Seq(Streams) /\ Order # <<>>
  BY MuxAssumption DEF Order
<1>2. Len(Order) \in Nat \ {0} /\ DOMAIN Order = 1 .. Len(Order)
  BY <1>1
<1>3. \A i \in 1 .. Len(Order) : Order[i] \in Streams
  BY <1>1
<1>4. Current = {Order[i] : i \in 1 .. Len(Order)}
  BY <1>2 DEF Current, ToSet
<1> HIDE DEF Order
<1>5. QED BY <1>1, <1>2, <1>3, <1>4


-----------------------------------------------------------------------------
(* Type correctness, one lemma per action.                                 *)

LEMMA HeaderPacketType == HeaderPacket \in Packet /\ HeaderPacket.laces = 1
BY DEF HeaderPacket, Packet, NoPts

LEMMA EmptyBuilderType == EmptyBuilder \in BuilderSet
<1>1. <<>> \in SegsSet
  BY MuxAssumption DEF SegsSet
<1>2. QED BY <1>1 DEF EmptyBuilder, BuilderSet, Granules, NoPts

LEMMA InitType == Init => TypeInv
<1> SUFFICES ASSUME Init PROVE TypeInv
  OBVIOUS
<1>1. link = 1 /\ 1 \in DOMAIN Links
  BY MuxAssumption DEF Init
<1>2. Len(Order) \in Nat \ {0} /\ Links[1][1] \in Streams
  BY <1>1, OrderFacts DEF Order
<1>3. ControlInv
  <2>1. stage = "arm" /\ step = "none" /\ turn = 1 /\ extra = 0
    BY DEF Init
  <2>2. QED BY <1>1, <1>2, <2>1 DEF ControlInv, Stages, StepNames, Loops
<1>4. CallInv /\ WritingInv
  <2>1. step = "none" /\ writing = NoPacket
    BY DEF Init
  <2>2. NoPacket \in WritingSet
    BY <1>2, HeaderPacketType DEF NoPacket, WritingSet
  <2>3. QED BY <2>1, <2>2 DEF CallInv, WritingInv
<1>5. FlagsInv /\ TargetInv
  BY DEF Init, FlagsInv, TargetInv
<1>6. SerialsInv
  BY DEF Init, SerialsInv
<1>7. BuffersInv /\ QueuesInv /\ WireInv /\ BosInv
  BY EmptyBuilderType DEF Init, BuffersInv, QueuesInv, WireInv, BosInv
<1>8. HeadersInv
  BY MuxAssumption DEF Init, HeadersInv
<1>9. NumbersInv /\ ClocksInv /\ FramesInv
  BY DEF Init, NumbersInv, ClocksInv, FramesInv
<1>10. KeypointsInv /\ SentInv
  BY MuxAssumption DEF Init, KeypointsInv, SentInv
<1>11. QED
  BY <1>3, <1>4, <1>5, <1>6, <1>7, <1>8, <1>9, <1>10 DEF TypeInv, DataInv


\* What a step leaves alone.
LEMMA DataKept == DataInv /\ UNCHANGED data => DataInv'
<1> SUFFICES ASSUME DataInv, UNCHANGED data PROVE DataInv'
  OBVIOUS
<1>1. BuffersInv' /\ QueuesInv' /\ WireInv' /\ BosInv' /\ HeadersInv'
  BY Zenon DEF DataInv, data, BuffersInv, QueuesInv, WireInv, BosInv, HeadersInv
<1>2. NumbersInv' /\ ClocksInv' /\ FramesInv' /\ KeypointsInv' /\ SentInv'
  BY Zenon DEF DataInv, data, NumbersInv, ClocksInv, FramesInv, KeypointsInv, SentInv
<1>3. QED BY <1>1, <1>2, Zenon DEF DataInv

LEMMA ControlKept ==
  ControlInv /\ UNCHANGED <<stage, turn, extra, link>> /\ step' \in StepNames => ControlInv'
<1> SUFFICES ASSUME ControlInv, UNCHANGED <<stage, turn, extra, link>>, step' \in StepNames
             PROVE  ControlInv'
  OBVIOUS
<1>1. Order' = Order
  BY DEF Order
<1>2. QED BY <1>1, Zenon DEF ControlInv

LEMMA SerialsKept ==
  /\ SerialsInv /\ UNCHANGED <<serial, used_serials, skel_serial>>
  /\ \/ UNCHANGED <<stage, turn, link>>
     \/ UNCHANGED link /\ stage' \notin {"arm", "arm_skeleton"}
  => SerialsInv'
<1> SUFFICES ASSUME SerialsInv, UNCHANGED <<serial, used_serials, skel_serial>>,
                    \/ UNCHANGED <<stage, turn, link>>
                    \/ UNCHANGED link /\ stage' \notin {"arm", "arm_skeleton"}
             PROVE  SerialsInv'
  OBVIOUS
<1>1. CASE UNCHANGED <<stage, turn, link>>
  <2>1. \A s : Unarmed(s)' => Unarmed(s)
    BY <1>1, Zenon DEF Unarmed, Order
  <2>2. stage' = stage
    BY <1>1
  <2>3. QED BY <2>1, <2>2, Zenon DEF SerialsInv
<1>2. CASE UNCHANGED link /\ stage' \notin {"arm", "arm_skeleton"}
  <2>1. \A s : Unarmed(s)' => Unarmed(s)
    BY <1>2, Zenon DEF Unarmed
  <2>2. stage' # "arm_skeleton"
    BY <1>2
  <2>3. QED BY <1>2, <2>1, <2>2, Zenon DEF SerialsInv
<1>3. QED BY <1>1, <1>2

LEMMA AfterStage ==
  ASSUME stage \in Stages
  PROVE  /\ After(stage) \in Stages
         /\ stage \notin {"close_link", "drain_link"} =>
              After(stage) \notin {"close_link", "drain_link", "link"}
         /\ stage # "link" /\ stage # "arm" => After(stage) \notin {"arm", "arm_skeleton"}
BY DEF Stages, After, AfterHeaders, AfterClose

\* A loop takes the next stream, or ends.
LEMMA TurnTaken ==
  ASSUME ControlInv, NextTurn, UNCHANGED <<step, link>>, extra' \in Nat, stage \in Loops
  PROVE  ControlInv'
<1>1. Len(Order) \in Nat \ {0} /\ Order' = Order
  BY OrderFacts DEF ControlInv, Order
<1>2. CASE turn < Len(Order) /\ turn' = turn + 1 /\ UNCHANGED stage
  BY <1>1, <1>2 DEF ControlInv
<1>3. CASE turn = Len(Order) /\ turn' = 1 /\ stage' = After(stage)
  <2>1. stage' \in Stages
    BY <1>3, AfterStage DEF ControlInv
  <2>2. stage' \in {"close_link", "drain_link", "link"} => stage = "close_link"
    BY <1>3, AfterStage DEF ControlInv, Loops, BosLoops, HeaderLoops, ClosingLoops
  <2>3. QED BY <1>1, <1>3, <2>1, <2>2 DEF ControlInv
<1>4. QED BY <1>2, <1>3 DEF NextTurn

LEMMA StageLeft ==
  ASSUME ControlInv, NextStage, UNCHANGED <<step, link, extra>>, stage \notin Loops
  PROVE  ControlInv'
<1>1. Order' = Order /\ turn' = 1 /\ turn = 1
  BY DEF ControlInv, NextStage, Order
<1>2. stage' \in Stages
  BY AfterStage DEF ControlInv, NextStage
<1>3. stage' \in {"close_link", "drain_link", "link"} => stage = "drain_link"
  BY AfterStage DEF ControlInv, NextStage, Loops, BosLoops, HeaderLoops, ClosingLoops
<1>4. QED BY <1>1, <1>2, <1>3 DEF ControlInv

\* A call that only sets out on its first stage.
LEMMA CallLoaded ==
  ASSUME TypeInv, Idle, UNCHANGED <<turn, extra, step, writing, link, serial, used_serials, skel_serial>>,
         UNCHANGED data, stage' \in Stages \ {"arm", "arm_skeleton", "drain_link", "link"},
         stage' = "close_link" => link < Len(Links) /\ ~Skeleton,
         FlagsInv', TargetInv'
  PROVE  TypeInv'
<1>1. ControlInv'
  <2>1. Order' = Order
    BY DEF Order
  <2>2. turn = 1
    BY DEF Idle, TypeInv, ControlInv, Loops, BosLoops, HeaderLoops, ClosingLoops
  <2>3. QED BY <2>1, <2>2 DEF TypeInv, ControlInv
<1>2. CallInv' /\ WritingInv'
  <2>1. step' = "none" /\ buffered' = buffered
    BY DEF Idle, data
  <2>2. QED BY <2>1, Zenon DEF TypeInv, CallInv, WritingInv, Idle
<1>3. SerialsInv'
  BY SerialsKept DEF TypeInv
<1>4. DataInv'
  BY DataKept DEF TypeInv
<1>5. QED BY <1>1, <1>2, <1>3, <1>4, Zenon DEF TypeInv

LEMMA WriteHeaderType == TypeInv /\ WriteHeader => TypeInv'
<1> SUFFICES ASSUME TypeInv, WriteHeader PROVE TypeInv'
  OBVIOUS
<1>1. Idle /\ stage' \in {"fishead", "theora_bos"}
  BY DEF WriteHeader
<1>2. UNCHANGED <<turn, extra, step, writing, link, serial, used_serials, skel_serial>>
  BY Zenon DEF WriteHeader, writers, skeleton
<1>3. UNCHANGED data
  BY Zenon DEF WriteHeader, writers, skeleton, data
<1>4. FlagsInv' /\ TargetInv'
  BY Zenon DEF TypeInv, WriteHeader, FlagsInv, TargetInv
<1>5. QED BY <1>1, <1>2, <1>3, <1>4, CallLoaded DEF Stages

LEMMA BeginNewLinkType == TypeInv /\ BeginNewLink => TypeInv'
<1> SUFFICES ASSUME TypeInv, BeginNewLink PROVE TypeInv'
  OBVIOUS
<1>1. Idle /\ stage' = "close_link" /\ link < Len(Links) /\ ~Skeleton
  BY DEF BeginNewLink
<1>2. UNCHANGED <<turn, extra, step, writing, link, serial, used_serials, skel_serial>>
  BY Zenon DEF BeginNewLink, writers, skeleton, calls
<1>3. UNCHANGED data
  BY Zenon DEF BeginNewLink, writers, skeleton, data
<1>4. FlagsInv' /\ TargetInv'
  BY Zenon DEF TypeInv, BeginNewLink, FlagsInv, TargetInv, calls
<1>5. QED BY <1>1, <1>2, <1>3, <1>4, CallLoaded DEF Stages

LEMMA WriteTrailerType == TypeInv /\ WriteTrailer => TypeInv'
<1> SUFFICES ASSUME TypeInv, WriteTrailer PROVE TypeInv'
  OBVIOUS
<1>1. Idle /\ stage' = "close"
  BY DEF WriteTrailer
<1>2. UNCHANGED <<turn, extra, step, writing, link, serial, used_serials, skel_serial>>
  BY Zenon DEF WriteTrailer, writers, skeleton, calls
<1>3. UNCHANGED data
  BY Zenon DEF WriteTrailer, writers, skeleton, data
<1>4. FlagsInv' /\ TargetInv'
  BY Zenon DEF TypeInv, WriteTrailer, FlagsInv, TargetInv, calls
<1>5. QED BY <1>1, <1>2, <1>3, <1>4, CallLoaded DEF Stages

LEMMA SetPageTargetType ==
  ASSUME NEW t \in Targets \cup {NoTarget}
  PROVE  TypeInv /\ SetPageTarget(t) => TypeInv'
<1> SUFFICES ASSUME TypeInv, SetPageTarget(t) PROVE TypeInv'
  OBVIOUS
<1>1. UNCHANGED <<stage, turn, extra, step, writing, link, serial, used_serials, skel_serial>>
  BY Zenon DEF SetPageTarget, control, writers, skeleton
<1>2. UNCHANGED data
  BY Zenon DEF SetPageTarget, writers, skeleton, data
<1>3. FlagsInv' /\ TargetInv'
  BY Zenon DEF TypeInv, SetPageTarget, FlagsInv, TargetInv
<1>4. ControlInv'
  BY <1>1, ControlKept DEF TypeInv, ControlInv
<1>5. CallInv' /\ WritingInv'
  <2>1. Current' = Current /\ Turn' = Turn /\ buffered' = buffered
    BY <1>1, <1>2, Zenon DEF Current, Turn, Order, data
  <2>2. QED BY <1>1, <2>1, Zenon DEF TypeInv, CallInv, WritingInv
<1>6. SerialsInv'
  BY <1>1, SerialsKept DEF TypeInv
<1>7. DataInv'
  BY <1>2, DataKept DEF TypeInv
<1>8. QED BY <1>3, <1>4, <1>5, <1>6, <1>7, Zenon DEF TypeInv

LEMMA WritePacketType ==
  ASSUME NEW s \in Streams, NEW p \in Packets[s]
  PROVE  TypeInv /\ WritePacket(s, p) => TypeInv'
<1> SUFFICES ASSUME TypeInv, WritePacket(s, p) PROVE TypeInv'
  OBVIOUS
<1>1. UNCHANGED <<stage, turn, extra, link, serial, used_serials, skel_serial>>
  BY Zenon DEF WritePacket, calls, writers, skeleton
<1>2. UNCHANGED data
  BY Zenon DEF WritePacket, writers, skeleton, data
<1>3. FlagsInv' /\ TargetInv'
  BY Zenon DEF TypeInv, WritePacket, FlagsInv, TargetInv, calls
<1>4. step' = "packet" /\ writing' = [s |-> s, p |-> p, from |-> 0] /\ s \in Current /\ stage = "idle"
  BY DEF WritePacket, Call, Idle
<1>5. ControlInv'
  BY <1>1, <1>4, ControlKept DEF TypeInv, StepNames
<1>6. CallInv'
  <2>1. Current' = Current
    BY <1>1 DEF Current, Order
  <2>2. QED BY <1>1, <1>4, <2>1 DEF CallInv, ClosingLoops
<1>7. WritingInv'
  <2>1. p \in Packet
    BY MuxAssumption
  <2>2. writing' \in WritingSet /\ writing'.p = p /\ writing'.from = 0 /\ p.laces > 0
    BY <1>4, <2>1 DEF WritingSet, Packet
  <2>3. QED BY <1>4, <2>2 DEF WritingInv
<1>8. SerialsInv'
  BY <1>1, SerialsKept DEF TypeInv
<1>9. DataInv'
  BY <1>2, DataKept DEF TypeInv
<1>10. QED BY <1>3, <1>5, <1>6, <1>7, <1>8, <1>9, Zenon DEF TypeInv

LEMMA Quiet ==
  ASSUME WritingInv, step' = "none", UNCHANGED writing
  PROVE  CallInv' /\ WritingInv'
BY DEF WritingInv, CallInv

LEMMA ArmType == TypeInv /\ Arm => TypeInv'
<1> SUFFICES ASSUME TypeInv, Arm PROVE TypeInv'
  OBVIOUS
<1> DEFINE n == FreeSerial(Index[Turn])
<1>1. stage = "arm" /\ step = "none" /\ NextTurn
  BY DEF Arm, Inside
<1>2. UNCHANGED <<extra, step, writing, link, skel_serial>>
  BY Zenon DEF Arm, skeleton
<1>3. /\ Order \in Seq(Streams) /\ Len(Order) \in Nat \ {0} /\ turn \in 1 .. Len(Order)
      /\ Turn = Order[turn] /\ Turn \in Streams /\ Turn \in Current
  BY OrderFacts DEF TypeInv, ControlInv, Turn
<1>4. skel_serial = NoSerial
  BY <1>1 DEF TypeInv, SerialsInv
<1>5. n \in Serials /\ n \notin used_serials /\ n # NoSerial
  <2>1. \A m \in used_serials : m \in Serials /\ m # NoSerial
    BY DEF TypeInv, SerialsInv, Serials, NoSerial
  <2>2. \A m \in used_serials : \E s \in Streams : serial[s] = m
    BY <1>4, <2>1 DEF TypeInv, SerialsInv
  <2>3. \E m \in Serials : m \notin used_serials
    BY <2>2, RoomForSerials DEF TypeInv, SerialsInv
  <2>4. Index[Turn] \in Nat
    BY <1>3, MuxAssumption
  <2>5. n \in Serials /\ n \notin used_serials
    BY <2>3, <2>4, FreeSerialFacts
  <2>6. QED BY <2>5 DEF Serials, NoSerial
<1>6. serial' = [serial EXCEPT ![Turn] = n] /\ used_serials' = used_serials \cup {n}
  BY DEF Arm
<1> HIDE DEF n
<1>7. UNCHANGED data
  BY Zenon DEF Arm, skeleton, data
<1>8. FlagsInv' /\ TargetInv'
  BY Zenon DEF TypeInv, Arm, FlagsInv, TargetInv
<1>9. ControlInv'
  <2>1. stage \in Loops /\ extra' \in Nat
    BY <1>1, <1>2 DEF Loops, TypeInv, ControlInv
  <2>2. QED BY <1>1, <1>2, <2>1, TurnTaken DEF TypeInv
<1>10. CallInv' /\ WritingInv'
  BY <1>1, <1>2, Quiet DEF TypeInv
<1>11. SerialsInv'
  <2>1. serial' \in [Streams -> Serials \cup {NoSerial}]
    BY <1>3, <1>5, <1>6 DEF TypeInv, SerialsInv
  <2>2. Unarmed(Turn)
    BY <1>1, <1>3 DEF Unarmed
  <2>3. \A m \in used_serials' : \E s \in Streams : serial'[s] = m
    <3> SUFFICES ASSUME NEW m \in used_serials' PROVE \E s \in Streams : serial'[s] = m
      OBVIOUS
    <3>1. CASE m = n
      <4>1. serial'[Turn] = n
        BY <1>3, <1>6 DEF TypeInv, SerialsInv
      <4>2. QED BY <1>3, <3>1, <4>1
    <3>2. CASE m \in used_serials
      <4>1. m # NoSerial
        BY <3>2 DEF TypeInv, SerialsInv, Serials, NoSerial
      <4>2. PICK s \in Streams : serial[s] = m
        BY <1>4, <3>2, <4>1 DEF TypeInv, SerialsInv
      <4>3. serial[Turn] = NoSerial
        BY <1>3, <2>2 DEF TypeInv, SerialsInv
      <4>4. s # Turn
        BY <4>1, <4>2, <4>3
      <4>5. serial'[s] = m
        BY <1>6, <4>2, <4>4 DEF TypeInv, SerialsInv
      <4>6. QED BY <4>5
    <3>3. QED BY <1>6, <3>1, <3>2
  <2>4. \A s : Unarmed(s)' => Unarmed(s) /\ s # Turn
    <3> SUFFICES ASSUME NEW s, Unarmed(s)' PROVE Unarmed(s) /\ s # Turn
      OBVIOUS
    <3>1. Order' = Order /\ link' = link /\ link \in DOMAIN Links
      BY <1>2 DEF Order, TypeInv, ControlInv
    <3>2. CASE \E k \in DOMAIN Links : k > link /\ s \in ToSet(Links[k])
      <4>1. Unarmed(s)
        BY <3>2 DEF Unarmed
      <4>2. PICK k \in DOMAIN Links : k > link /\ s \in ToSet(Links[k])
        BY <3>2
      <4>3. k # link
        BY <3>1, <4>2, MuxAssumption
      <4>4. s \notin Current
        BY <3>1, <4>2, <4>3, MuxAssumption DEF Current, Order
      <4>5. QED BY <1>3, <4>1, <4>4
    <3>3. CASE stage' = "arm" /\ \E i \in turn' .. Len(Order) : s = Order[i]
      <4>1. turn' = turn + 1 /\ turn < Len(Order)
        <5>1. link \in Nat /\ After("arm") # "arm"
          BY <3>1, MuxAssumption DEF After
        <5>2. QED BY <1>1, <3>3, <5>1 DEF NextTurn
      <4>2. PICK i \in turn' .. Len(Order) : s = Order[i]
        BY <3>3
      <4>3. i \in turn .. Len(Order) /\ i # turn /\ i \in DOMAIN Order /\ turn \in DOMAIN Order
        BY <1>3, <4>1, <4>2
      <4>4. s # Turn
        BY <1>3, <3>1, <4>2, <4>3, MuxAssumption DEF Order
      <4>5. QED BY <1>1, <4>2, <4>3, <4>4 DEF Unarmed
    <3>4. QED BY <3>1, <3>2, <3>3 DEF Unarmed
  <2>5. \A s \in Streams : Unarmed(s)' => serial'[s] = NoSerial
    BY <1>6, <2>4 DEF TypeInv, SerialsInv
  <2>6. used_serials' \subseteq Serials /\ used_serials' # {} /\ skel_serial' = NoSerial
    BY <1>2, <1>4, <1>5, <1>6 DEF TypeInv, SerialsInv
  <2>7. stage' = "arm_skeleton" => Skeleton
    BY <1>1 DEF NextTurn, After
  <2>8. QED BY <2>1, <2>3, <2>5, <2>6, <2>7 DEF SerialsInv
<1>12. DataInv'
  BY <1>7, DataKept DEF TypeInv
<1>13. QED BY <1>8, <1>9, <1>10, <1>11, <1>12, Zenon DEF TypeInv

LEMMA ArmSkeletonType == TypeInv /\ ArmSkeleton => TypeInv'
<1> SUFFICES ASSUME TypeInv, ArmSkeleton PROVE TypeInv'
  OBVIOUS
<1>1. stage = "arm_skeleton" /\ step = "none" /\ NextStage /\ stage' = "idle"
  BY DEF ArmSkeleton, Inside, NextStage, After
<1>2. UNCHANGED <<extra, step, writing, link, serial>>
  BY Zenon DEF ArmSkeleton, writers
<1>3. UNCHANGED data
  BY Zenon DEF ArmSkeleton, writers, data
<1>4. FlagsInv' /\ TargetInv'
  BY Zenon DEF TypeInv, ArmSkeleton, FlagsInv, TargetInv
<1>5. ControlInv'
  BY <1>1, <1>2, StageLeft DEF TypeInv, Loops, BosLoops, HeaderLoops, ClosingLoops
<1>6. CallInv' /\ WritingInv'
  BY <1>1, <1>2, Quiet DEF TypeInv
<1>7. SkeletonSerial \in Serials
  <2>1. CASE SkelSerial # NoSerial
    BY <2>1, MuxAssumption DEF SkeletonSerial
  <2>2. CASE SkelSerial = NoSerial
    <3>1. MaxSerial \in Nat
      BY <1>1, MaxSerialFacts DEF TypeInv, SerialsInv
    <3>2. skel_serial = NoSerial
      BY <1>1 DEF TypeInv, SerialsInv
    <3>3. \A m \in used_serials : \E s \in Streams : serial[s] = m
      BY <3>2 DEF TypeInv, SerialsInv, Serials, NoSerial
    <3>4. \E m \in Serials : m \notin used_serials
      BY <3>3, RoomForSerials DEF TypeInv, SerialsInv
    <3>5. MaxSerial + 1 \in Nat
      BY <3>1
    <3>6. QED BY <2>2, <3>4, <3>5, FreeSerialFacts DEF SkeletonSerial
  <2>3. QED BY <2>1, <2>2
<1>8. SerialsInv'
  <2>1. skel_serial' = SkeletonSerial /\ used_serials' = used_serials \cup {SkeletonSerial}
    BY DEF ArmSkeleton
  <2>2. skel_serial = NoSerial
    BY <1>1 DEF TypeInv, SerialsInv
  <2>3. \A m \in used_serials : \E s \in Streams : serial[s] = m
    BY <2>2 DEF TypeInv, SerialsInv, Serials, NoSerial
  <2>4. \A s : Unarmed(s)' => Unarmed(s)
    BY <1>1, <1>2 DEF Unarmed
  <2>5. Skeleton
    BY <1>1 DEF TypeInv, SerialsInv
  <2>6. \A s \in Streams : Unarmed(s)' => serial'[s] = NoSerial
    BY <1>2, <2>4 DEF TypeInv, SerialsInv
  <2>7. used_serials' \subseteq Serials /\ skel_serial' \in Serials \cup {NoSerial}
    BY <1>7, <2>1 DEF TypeInv, SerialsInv
  <2>8. \A m \in used_serials' : m = skel_serial' \/ \E s \in Streams : serial'[s] = m
    BY <1>2, <2>1, <2>3
  <2>9. serial' \in [Streams -> Serials \cup {NoSerial}]
    BY <1>2 DEF TypeInv, SerialsInv
  <2>10. QED BY <1>1, <2>5, <2>6, <2>7, <2>8, <2>9 DEF SerialsInv
<1>9. DataInv'
  BY <1>3, DataKept DEF TypeInv
<1>10. QED BY <1>4, <1>5, <1>6, <1>8, <1>9, Zenon DEF TypeInv

LEMMA NextLinkType == TypeInv /\ NextLink => TypeInv'
<1> SUFFICES ASSUME TypeInv, NextLink PROVE TypeInv'
  OBVIOUS
<1>1. stage = "link" /\ step = "none" /\ turn' = turn /\ stage' = "arm" /\ link' = link + 1
  BY DEF NextLink, Inside, NextStage, After
<1>2. UNCHANGED <<extra, step, writing, serial, used_serials, skel_serial>>
  BY Zenon DEF NextLink, writers, skeleton
<1>3. UNCHANGED data
  BY Zenon DEF NextLink, writers, skeleton, data
<1>4. FlagsInv' /\ TargetInv'
  <2>1. content_started' = FALSE
    BY DEF NextLink
  <2>2. QED BY <2>1, Zenon DEF TypeInv, NextLink, FlagsInv, TargetInv
<1>5. turn = 1 /\ link < Len(Links) /\ ~Skeleton /\ link' \in DOMAIN Links
  <2>1. turn = 1 /\ link < Len(Links) /\ ~Skeleton /\ link \in DOMAIN Links
    BY <1>1 DEF TypeInv, ControlInv, Loops, BosLoops, HeaderLoops, ClosingLoops
  <2>2. QED BY <1>1, <2>1, MuxAssumption
<1>6. ControlInv'
  <2>1. Len(Order)' \in Nat \ {0}
    BY <1>5, MuxAssumption DEF Order
  <2>2. QED BY <1>1, <1>2, <1>5, <2>1 DEF TypeInv, ControlInv, Stages, Loops
<1>7. CallInv' /\ WritingInv'
  BY <1>1, <1>2, Quiet DEF TypeInv
<1>8. SerialsInv'
  <2>1. skel_serial = NoSerial
    BY <1>5 DEF TypeInv, SerialsInv
  <2>2. \A s : Unarmed(s)' => Unarmed(s)
    <3> SUFFICES ASSUME NEW s, Unarmed(s)' PROVE Unarmed(s)
      OBVIOUS
    <3>1. link \in Nat /\ link' > link
      BY <1>1, MuxAssumption DEF TypeInv, ControlInv
    <3>2. CASE \E k \in DOMAIN Links : k > link' /\ s \in ToSet(Links[k])
      <4>1. PICK k \in DOMAIN Links : k > link' /\ s \in ToSet(Links[k])
        BY <3>2
      <4>2. k > link
        BY <3>1, <4>1, <1>1, MuxAssumption
      <4>3. QED BY <4>1, <4>2 DEF Unarmed
    <3>3. CASE \E i \in turn' .. Len(Order)' : s = Order[i]'
      <4>1. PICK i \in 1 .. Len(Links[link']) : s = Links[link'][i]
        BY <1>1, <1>5, <3>3 DEF Order
      <4>2. Links[link'] \in Seq(Streams)
        BY <1>5, MuxAssumption
      <4>3. s \in ToSet(Links[link'])
        BY <4>1, <4>2 DEF ToSet
      <4>4. QED BY <1>5, <3>1, <4>3 DEF Unarmed
    <3>4. QED BY <3>2, <3>3 DEF Unarmed
  <2>3. \A s \in Streams : Unarmed(s)' => serial'[s] = NoSerial
    BY <1>2, <2>2 DEF TypeInv, SerialsInv
  <2>4. stage' # "arm_skeleton" /\ skel_serial' = NoSerial
    BY <1>1, <1>2, <2>1
  <2>5. QED BY <1>2, <2>3, <2>4, Zenon DEF TypeInv, SerialsInv
<1>9. DataInv'
  BY <1>3, DataKept DEF TypeInv
<1>10. QED BY <1>4, <1>6, <1>7, <1>8, <1>9, Zenon DEF TypeInv

-----------------------------------------------------------------------------
(* Pages made in the header section.                                       *)

LEMMA PageType ==
  ASSUME NEW s \in Streams, NEW flags \in PageFlags, NEW granule \in Granules,
         NEW segs \in SegsSet, NEW time \in Nat,
         ControlInv, SerialsInv, NumbersInv
  PROVE  Page(s, flags, granule, segs, time) \in PageSet
<1>1. serial[s] \in Serials \cup {NoSerial} /\ seq_no[s] \in Nat
  BY DEF SerialsInv, NumbersInv
<1>2. link \in Nat
  BY MuxAssumption DEF ControlInv
<1>3. QED BY <1>1, <1>2 DEF Page, PageSet

LEMMA SkeletonPageType ==
  ASSUME NEW flags \in PageFlags, ControlInv, SerialsInv, NumbersInv
  PROVE  SkeletonPage(flags) \in PageSet
<1>1. link \in Nat
  BY MuxAssumption DEF ControlInv
<1>2. <<>> \in SegsSet /\ 0 \in Granules
  BY MuxAssumption DEF SegsSet, Granules
<1>3. QED BY <1>1, <1>2 DEF SkeletonPage, PageSet, SerialsInv, NumbersInv

\* Whose turn it is, in a loop.
LEMMA TurnType ==
  ASSUME ControlInv
  PROVE  Turn \in Streams /\ Turn \in Current /\ Current \subseteq Streams
BY OrderFacts DEF ControlInv, Turn

LEMMA FlagsKept ==
  FlagsInv /\ TargetInv /\ UNCHANGED calls => FlagsInv' /\ TargetInv'
BY Zenon DEF FlagsInv, TargetInv, calls

LEMMA WriteBosType == TypeInv /\ WriteBos => TypeInv'
<1> SUFFICES ASSUME TypeInv, WriteBos PROVE TypeInv'
  OBVIOUS
<1>1. step = "none" /\ stage \in BosLoops /\ NextTurn /\ headers_remaining[Turn] > 0
  BY DEF WriteBos, BosTurn, InPass, Inside, BosLoops
<1>2. UNCHANGED <<extra, step, writing, link, serial, used_serials, skel_serial>>
  BY Zenon DEF WriteBos, calls, skeleton
<1>3. UNCHANGED <<calls, buffered, queue, newest_time, last_granule, next_frame, last_kf,
                  keypoints, sk_seq>>
  BY Zenon DEF WriteBos, skeleton
<1>4. FlagsInv' /\ TargetInv'
  BY <1>3, FlagsKept DEF TypeInv
<1>5. ControlInv'
  BY <1>1, <1>2, TurnTaken DEF TypeInv, ControlInv, Loops
<1>6. CallInv' /\ WritingInv'
  BY <1>1, <1>2, Quiet DEF TypeInv
<1>7. SerialsInv'
  <2>1. stage' \notin {"arm", "arm_skeleton"}
    <3>1. After(stage) \notin {"arm", "arm_skeleton"} /\ stage \notin {"arm", "arm_skeleton"}
      BY <1>1 DEF BosLoops, After
    <3>2. QED BY <1>1, <3>1 DEF NextTurn
  <2>2. QED BY <1>2, <2>1, SerialsKept DEF TypeInv
<1>8. Turn \in Streams
  BY TurnType DEF TypeInv
<1>9. WireInv'
  <2>1. <<Lace(1, 1, 1)>> \in SegsSet
    BY MuxAssumption DEF SegsSet, LaceSet, Lace
  <2>2. {"bos"} \in PageFlags /\ 0 \in Granules
    BY DEF PageFlags, Granules
  <2>3. Page(Turn, {"bos"}, 0, <<Lace(1, 1, 1)>>, 0) \in PageSet
    BY <1>8, <2>1, <2>2, PageType DEF TypeInv, DataInv
  <2>4. wire \in Seq(PageSet) /\ wire' = Append(wire, Page(Turn, {"bos"}, 0, <<Lace(1, 1, 1)>>, 0))
    BY DEF WriteBos, TypeInv, DataInv, WireInv
  <2>5. QED BY <2>3, <2>4 DEF WireInv
<1>10. SentInv'
  <2>1. sent' = [sent EXCEPT ![Turn] = Append(@, HeaderPacket)]
    BY DEF WriteBos
  <2>2. QED BY <1>8, <2>1, HeaderPacketType DEF TypeInv, DataInv, SentInv
<1>11. NumbersInv' /\ BosInv'
  <2>1. /\ seq_no' = [seq_no EXCEPT ![Turn] = @ + 1]
        /\ bos_emitted' = [bos_emitted EXCEPT ![Turn] = TRUE]
    BY DEF WriteBos
  <2>2. QED BY <1>3, <1>8, <2>1 DEF TypeInv, DataInv, NumbersInv, BosInv
<1>12. HeadersInv'
  <2>1. headers_remaining' = [headers_remaining EXCEPT ![Turn] = @ - 1]
    BY DEF WriteBos
  <2>2. QED BY <1>1, <1>8, <2>1, MuxAssumption DEF TypeInv, DataInv, HeadersInv
<1>13. BuffersInv' /\ QueuesInv' /\ ClocksInv' /\ FramesInv' /\ KeypointsInv'
  BY <1>3, Zenon DEF TypeInv, DataInv, BuffersInv, QueuesInv, ClocksInv, FramesInv, KeypointsInv
<1>14. QED
  BY <1>4, <1>5, <1>6, <1>7, <1>9, <1>10, <1>11, <1>12, <1>13, Zenon DEF TypeInv, DataInv

LEMMA WriteSecondaryType == TypeInv /\ WriteSecondary => TypeInv'
<1> SUFFICES ASSUME TypeInv, WriteSecondary PROVE TypeInv'
  OBVIOUS
<1>1. stage \in HeaderLoops /\ step' = "packet"
  BY DEF WriteSecondary, HeaderTurn, InPass, Inside, HeaderLoops, Call
<1>2. writing' = [s |-> Turn, p |-> HeaderPacket, from |-> 0] /\ extra' = extra + 1
  BY DEF WriteSecondary, Call
<1>3. UNCHANGED <<stage, turn, link, serial, used_serials, skel_serial, calls>>
  BY Zenon DEF WriteSecondary, calls, writers, skeleton
<1>4. UNCHANGED data
  BY Zenon DEF WriteSecondary, writers, skeleton, data
<1>5. FlagsInv' /\ TargetInv'
  BY <1>3, FlagsKept DEF TypeInv
<1>6. Order' = Order /\ Turn' = Turn /\ Current' = Current
  BY <1>3, Zenon DEF Order, Turn, Current
<1>7. ControlInv'
  BY <1>1, <1>2, <1>3, <1>6 DEF TypeInv, ControlInv, StepNames
<1>8. Turn \in Streams /\ Turn \in Current
  BY TurnType DEF TypeInv
<1>9. CallInv'
  BY <1>1, <1>2, <1>3, <1>6, <1>8 DEF CallInv, HeaderLoops, ClosingLoops
<1>10. WritingInv'
  <2>1. writing' \in WritingSet /\ writing'.from = 0 /\ writing'.p.laces = 1
    BY <1>2, <1>8, HeaderPacketType DEF WritingSet
  <2>2. QED BY <1>1, <2>1 DEF WritingInv
<1>11. SerialsInv'
  BY <1>3, SerialsKept DEF TypeInv
<1>12. DataInv'
  BY <1>4, DataKept DEF TypeInv
<1>13. QED BY <1>5, <1>7, <1>9, <1>10, <1>11, <1>12, Zenon DEF TypeInv

LEMMA PassTurnType == TypeInv /\ PassTurn => TypeInv'
<1> SUFFICES ASSUME TypeInv, PassTurn PROVE TypeInv'
  OBVIOUS
<1>1. step = "none" /\ stage \in BosLoops \cup HeaderLoops /\ NextTurn /\ extra' = 0
  BY DEF PassTurn, Inside, BosLoops, HeaderLoops
<1>2. UNCHANGED <<step, writing, link, serial, used_serials, skel_serial, calls>>
  BY Zenon DEF PassTurn, calls, writers, skeleton
<1>3. UNCHANGED data
  BY Zenon DEF PassTurn, writers, skeleton, data
<1>4. FlagsInv' /\ TargetInv'
  BY <1>2, FlagsKept DEF TypeInv
<1>5. ControlInv'
  BY <1>1, <1>2, TurnTaken DEF TypeInv, Loops
<1>6. CallInv' /\ WritingInv'
  BY <1>1, <1>2, Quiet DEF TypeInv
<1>7. SerialsInv'
  <2>1. After(stage) \notin {"arm", "arm_skeleton"} /\ stage \notin {"arm", "arm_skeleton"}
    BY <1>1 DEF BosLoops, HeaderLoops, After, AfterHeaders
  <2>2. stage' \notin {"arm", "arm_skeleton"}
    BY <1>1, <2>1 DEF NextTurn
  <2>3. QED BY <1>2, <2>2, SerialsKept DEF TypeInv
<1>8. DataInv'
  BY <1>3, DataKept DEF TypeInv
<1>9. QED BY <1>4, <1>5, <1>6, <1>7, <1>8, Zenon DEF TypeInv

LEMMA WriteSkeletonPageType == TypeInv /\ WriteSkeletonPage => TypeInv'
<1> SUFFICES ASSUME TypeInv, WriteSkeletonPage PROVE TypeInv'
  OBVIOUS
<1>1. /\ step = "none"
      /\ \/ stage \in {"fishead", "skeleton_eos"} /\ NextStage
         \/ stage \in {"bone", "index"} /\ NextTurn
  BY DEF WriteSkeletonPage, Inside
<1>2. UNCHANGED <<extra, step, writing, link, serial, used_serials, skel_serial, calls>>
  BY Zenon DEF WriteSkeletonPage, calls, writers
<1>3. UNCHANGED <<seq_no, buffered, headers_remaining, bos_emitted, queue, newest_time,
                  last_granule, next_frame, last_kf, keypoints, sent>>
  BY Zenon DEF WriteSkeletonPage, writers
<1>4. FlagsInv' /\ TargetInv'
  BY <1>2, FlagsKept DEF TypeInv
<1>5. ControlInv'
  <2>1. CASE stage \in {"fishead", "skeleton_eos"} /\ NextStage
    BY <1>2, <2>1, StageLeft DEF TypeInv, Loops, BosLoops, HeaderLoops, ClosingLoops
  <2>2. CASE stage \in {"bone", "index"} /\ NextTurn
    BY <1>2, <2>2, TurnTaken DEF TypeInv, ControlInv, Loops
  <2>3. QED BY <1>1, <2>1, <2>2
<1>6. CallInv' /\ WritingInv'
  BY <1>1, <1>2, Quiet DEF TypeInv
<1>7. SerialsInv'
  <2>1. After(stage) \notin {"arm", "arm_skeleton"} /\ stage \notin {"arm", "arm_skeleton"}
    BY <1>1 DEF After
  <2>2. stage' \notin {"arm", "arm_skeleton"}
    BY <1>1, <2>1 DEF NextTurn, NextStage
  <2>3. QED BY <1>2, <2>2, SerialsKept DEF TypeInv
<1>8. WireInv'
  <2>1. PICK flags \in PageFlags : wire' = Append(wire, SkeletonPage(flags))
    BY DEF WriteSkeletonPage, PageFlags
  <2>2. SkeletonPage(flags) \in PageSet
    BY SkeletonPageType DEF TypeInv, DataInv
  <2>3. wire \in Seq(PageSet)
    BY DEF TypeInv, DataInv, WireInv
  <2>4. QED BY <2>1, <2>2, <2>3 DEF WireInv
<1>9. NumbersInv'
  <2>1. sk_seq' = sk_seq + 1
    BY DEF WriteSkeletonPage
  <2>2. QED BY <1>3, <2>1 DEF TypeInv, DataInv, NumbersInv
<1>10. BuffersInv' /\ QueuesInv' /\ ClocksInv' /\ FramesInv' /\ KeypointsInv'
  BY <1>3, Zenon DEF TypeInv, DataInv, BuffersInv, QueuesInv, ClocksInv, FramesInv, KeypointsInv
<1>11. HeadersInv' /\ BosInv' /\ SentInv'
  BY <1>3, Zenon DEF TypeInv, DataInv, HeadersInv, BosInv, SentInv
<1>12. QED BY <1>4, <1>5, <1>6, <1>7, <1>8, <1>9, <1>10, <1>11, Zenon DEF TypeInv, DataInv

-----------------------------------------------------------------------------
(* The steps of write_packet.                                              *)

\* The packet write_packet is at work on, and its builder.
LEMMA AtWork ==
  ASSUME TypeInv
  PROVE  /\ writing.s \in Streams /\ writing.p \in Packet /\ writing.from \in Nat
         /\ writing.p.laces \in Nat \ {0} /\ writing.p.pts \in Granules
         /\ buffered[writing.s] \in BuilderSet /\ buffered[writing.s].segs \in Seq(LaceSet)
         /\ Len(buffered[writing.s].segs) \in Nat /\ Len(buffered[writing.s].segs) <= MaxSegs
<1>1. writing.s \in Streams /\ writing.p \in Packet /\ writing.from \in Nat
  BY DEF TypeInv, WritingInv, WritingSet
<1>2. writing.p.laces \in Nat \ {0} /\ writing.p.pts \in Granules
  BY <1>1 DEF Packet, Granules
<1>3. buffered[writing.s] \in BuilderSet
  BY <1>1 DEF TypeInv, DataInv, BuffersInv
<1>4. buffered[writing.s].segs \in SegsSet
  BY <1>3 DEF BuilderSet
<1>5. QED BY <1>1, <1>2, <1>3, <1>4 DEF SegsSet

\* A step of write_packet keeps to its stream and its stage.
LEMMA CallKept ==
  ASSUME CallInv, step # "none", step' \in StepNames,
         UNCHANGED <<stage, turn, link>>, writing'.s = writing.s,
         stage \in ClosingLoops =>
           step' \in {"none", "flush", "release"} /\ UNCHANGED writing
  PROVE  CallInv'
<1>1. Current' = Current /\ Turn' = Turn
  BY Zenon DEF Current, Turn, Order
<1>2. QED BY <1>1 DEF CallInv

LEMMA BeginPacketType == TypeInv /\ BeginPacket => TypeInv'
<1> SUFFICES ASSUME TypeInv, BeginPacket PROVE TypeInv'
  OBVIOUS
<1> DEFINE s == writing.s
           crowded == buffered[s].segs # <<>> /\ Len(buffered[s].segs) + writing.p.laces > MaxSegs
<1>1. step = "packet" /\ UNCHANGED <<stage, turn, extra>>
      /\ step' = IF crowded THEN "flush" ELSE "put"
  BY DEF BeginPacket, Doing, GoTo
<1>2. UNCHANGED <<writing, link, serial, used_serials, skel_serial, calls>>
  BY Zenon DEF BeginPacket, calls, writers, skeleton
<1>3. UNCHANGED <<seq_no, buffered, headers_remaining, bos_emitted, queue, newest_time,
                  last_granule, next_frame, last_kf, keypoints, sk_seq, wire>>
  BY Zenon DEF BeginPacket, writers, skeleton
<1>4. FlagsInv' /\ TargetInv'
  BY <1>2, FlagsKept DEF TypeInv
<1>5. ControlInv'
  BY <1>1, <1>2, ControlKept DEF TypeInv, StepNames
<1>6. CallInv'
  <2>1. stage \notin ClosingLoops
    BY <1>1 DEF TypeInv, CallInv
  <2>2. QED BY <1>1, <1>2, <2>1, CallKept DEF TypeInv, StepNames
<1>7. WritingInv'
  BY <1>1, <1>2, <1>3 DEF TypeInv, WritingInv
<1>8. SerialsInv'
  BY <1>1, <1>2, SerialsKept DEF TypeInv
<1>9. SentInv'
  <2>1. sent' = [sent EXCEPT ![s] = Append(@, writing.p)]
    BY DEF BeginPacket
  <2>2. s \in Streams /\ writing.p \in Packet
    BY AtWork
  <2>3. QED BY <2>1, <2>2 DEF TypeInv, DataInv, SentInv
<1>10. BuffersInv' /\ QueuesInv' /\ ClocksInv' /\ FramesInv' /\ KeypointsInv'
  BY <1>3, Zenon DEF TypeInv, DataInv, BuffersInv, QueuesInv, ClocksInv, FramesInv, KeypointsInv
<1>11. HeadersInv' /\ BosInv' /\ NumbersInv' /\ WireInv'
  BY <1>3, Zenon DEF TypeInv, DataInv, HeadersInv, BosInv, NumbersInv, WireInv
<1>12. QED BY <1>4, <1>5, <1>6, <1>7, <1>8, <1>9, <1>10, <1>11, Zenon DEF TypeInv, DataInv

LEMMA PutLacesType == TypeInv /\ PutLaces => TypeInv'
<1> SUFFICES ASSUME TypeInv, PutLaces PROVE TypeInv'
  OBVIOUS
<1> DEFINE s == writing.s
           room == MaxSegs - Len(buffered[s].segs)
           take == IF room < LacesLeft THEN room ELSE LacesLeft
           laces == [i \in 1 .. take |-> Lace(Len(sent[s]), writing.from + i, writing.p.laces)]
<1>1. step = "put" /\ UNCHANGED <<stage, turn, extra>>
      /\ step' = IF take < LacesLeft THEN "flush" ELSE "stamp"
  BY DEF PutLaces, Doing, GoTo
<1>2. UNCHANGED <<link, serial, used_serials, skel_serial, calls>>
  BY Zenon DEF PutLaces, calls, skeleton
<1>3. UNCHANGED <<seq_no, headers_remaining, bos_emitted, queue, newest_time,
                  last_granule, next_frame, last_kf, keypoints, sk_seq, sent, wire>>
  BY Zenon DEF PutLaces, skeleton
<1>4. /\ writing' = [writing EXCEPT !.from = @ + take]
      /\ buffered' = [buffered EXCEPT ![s].segs = @ \o laces]
  BY DEF PutLaces
<1>5. FlagsInv' /\ TargetInv'
  BY <1>2, FlagsKept DEF TypeInv
<1>6. ControlInv'
  BY <1>1, <1>2, ControlKept DEF TypeInv, StepNames
<1>7. writing \in WritingSet /\ writing.from < writing.p.laces
  BY <1>1 DEF TypeInv, WritingInv
<1>8. /\ take \in Nat /\ take <= room /\ take <= LacesLeft /\ LacesLeft \in Nat
      /\ room > 0 => take > 0
  <2>1. LacesLeft \in Nat \ {0}
    BY <1>7, AtWork DEF LacesLeft
  <2>2. MaxSegs \in Nat
    BY MuxAssumption
  <2>3. room \in Nat
    BY <2>2, AtWork
  <2> HIDE DEF room
  <2>4. QED BY <2>1, <2>3
<1>9. /\ writing' \in WritingSet /\ writing'.s = s
  BY <1>4, <1>7, <1>8, AtWork DEF WritingSet
<1>10. CallInv'
  <2>1. stage \notin ClosingLoops
    BY <1>1 DEF TypeInv, CallInv
  <2>2. QED BY <1>1, <1>2, <1>9, <2>1, CallKept DEF TypeInv, StepNames
<1>11. laces \in Seq(LaceSet) /\ Len(laces) = take
  <2>1. sent[s] \in Seq(Packet)
    BY AtWork DEF TypeInv, DataInv, SentInv
  <2>2. Len(sent[s]) \in Nat
    BY <2>1
  <2> HIDE DEF take
  <2>3. \A i \in 1 .. take : Lace(Len(sent[s]), writing.from + i, writing.p.laces) \in LaceSet
    BY <1>8, <2>2, AtWork DEF Lace, LaceSet
  <2>4. QED BY <1>8, <2>3
<1> HIDE DEF laces, take
<1>12. buffered[s].segs \o laces \in SegsSet /\ buffered[s].segs \o laces # <<>>
  <2>1. /\ buffered[s].segs \o laces \in Seq(LaceSet)
        /\ Len(buffered[s].segs \o laces) = Len(buffered[s].segs) + take
    <3>1. buffered[s].segs \in Seq(LaceSet)
      BY AtWork
    <3> HIDE DEF s
    <3>2. QED BY <1>11, <3>1
  <2>2. Len(buffered[s].segs) \in Nat /\ MaxSegs \in Nat \ {0} /\ Len(buffered[s].segs) <= MaxSegs
    BY AtWork, MuxAssumption
  <2> DEFINE both == buffered[s].segs \o laces
             n == Len(buffered[s].segs)
  <2>3. both \in Seq(LaceSet) /\ Len(both) = n + take
    BY <2>1
  <2>4. n \in Nat /\ take \in Nat /\ take <= MaxSegs - n /\ (MaxSegs - n > 0 => take > 0)
    BY <1>8, <2>2
  <2> HIDE DEF both, n
  <2>5. Len(both) <= MaxSegs /\ Len(both) > 0
    BY <2>2, <2>3, <2>4 DEF n
  <2>6. both \in SegsSet /\ both # <<>>
    BY <2>3, <2>5 DEF SegsSet
  <2>7. QED BY <2>6 DEF both
<1>13. BuffersInv'
  <2>1. [buffered[s] EXCEPT !.segs = @ \o laces] \in BuilderSet
    BY <1>12, AtWork DEF BuilderSet
  <2>2. buffered' = [buffered EXCEPT ![s] = [buffered[s] EXCEPT !.segs = @ \o laces]]
    BY <1>4
  <2>3. QED BY <2>1, <2>2, AtWork DEF TypeInv, DataInv, BuffersInv
<1>14. WritingInv'
  <2>1. buffered'[s].segs = buffered[s].segs \o laces
    BY <1>4, AtWork DEF TypeInv, DataInv, BuffersInv, BuilderSet
  <2>2. step' \notin {"packet", "put"}
    BY <1>1
  <2>3. QED BY <1>9, <1>12, <2>1, <2>2 DEF WritingInv
<1>15. SerialsInv'
  BY <1>1, <1>2, SerialsKept DEF TypeInv
<1>16. QueuesInv' /\ ClocksInv' /\ FramesInv' /\ KeypointsInv' /\ SentInv'
  BY <1>3, Zenon DEF TypeInv, DataInv, SentInv, QueuesInv, ClocksInv, FramesInv, KeypointsInv
<1>17. HeadersInv' /\ BosInv' /\ NumbersInv' /\ WireInv'
  BY <1>3, Zenon DEF TypeInv, DataInv, HeadersInv, BosInv, NumbersInv, WireInv
<1>18. QED BY <1>5, <1>6, <1>10, <1>13, <1>14, <1>15, <1>16, <1>17, Zenon DEF TypeInv, DataInv

LEMMA StampHeaderType == TypeInv /\ StampHeader => TypeInv'
<1> SUFFICES ASSUME TypeInv, StampHeader PROVE TypeInv'
  OBVIOUS
<1> DEFINE s == writing.s
<1>1. step = "stamp" /\ UNCHANGED <<stage, turn, extra>> /\ step' = "flush"
      /\ headers_remaining[s] > 0
  BY DEF StampHeader, Doing, GoTo
<1>2. UNCHANGED <<writing, link, serial, used_serials, skel_serial, calls>>
  BY Zenon DEF StampHeader, calls, skeleton
<1>3. UNCHANGED <<seq_no, bos_emitted, queue, newest_time,
                  last_granule, next_frame, last_kf, keypoints, sk_seq, sent, wire>>
  BY Zenon DEF StampHeader, skeleton
<1>4. /\ headers_remaining' = [headers_remaining EXCEPT ![s] = @ - 1]
      /\ buffered' = [buffered EXCEPT ![s].granule = 0]
  BY DEF StampHeader
<1>5. FlagsInv' /\ TargetInv'
  BY <1>2, FlagsKept DEF TypeInv
<1>6. ControlInv'
  BY <1>1, <1>2, ControlKept DEF TypeInv, StepNames
<1>7. CallInv'
  <2>1. stage \notin ClosingLoops
    BY <1>1 DEF TypeInv, CallInv
  <2>2. QED BY <1>1, <1>2, <2>1, CallKept DEF TypeInv, StepNames
<1>8. BuffersInv' /\ buffered'[s].segs = buffered[s].segs
  <2>1. [buffered[s] EXCEPT !.granule = 0] \in BuilderSet
    BY AtWork DEF BuilderSet, Granules
  <2>2. buffered' = [buffered EXCEPT ![s] = [buffered[s] EXCEPT !.granule = 0]]
    BY <1>4
  <2>3. [buffered[s] EXCEPT !.granule = 0].segs = buffered[s].segs
    BY AtWork DEF BuilderSet
  <2>4. buffered'[s] = [buffered[s] EXCEPT !.granule = 0]
    BY <2>2, AtWork DEF TypeInv, DataInv, BuffersInv
  <2>5. BuffersInv'
    BY <2>1, <2>2, AtWork DEF TypeInv, DataInv, BuffersInv
  <2>6. QED BY <2>3, <2>4, <2>5
<1>9. WritingInv'
  BY <1>1, <1>2, <1>8 DEF TypeInv, WritingInv
<1>10. HeadersInv'
  <2>1. s \in Streams /\ headers_remaining \in [Streams -> Nat]
    BY AtWork DEF TypeInv, DataInv, HeadersInv
  <2>2. \A r \in Streams : headers_remaining[r] <= Need[r] /\ Need[r] \in Nat
    BY MuxAssumption DEF TypeInv, DataInv, HeadersInv
  <2> HIDE DEF s
  <2>3. QED BY <1>1, <1>4, <2>1, <2>2 DEF HeadersInv
<1>11. SerialsInv'
  BY <1>1, <1>2, SerialsKept DEF TypeInv
<1>12. QueuesInv' /\ ClocksInv' /\ FramesInv' /\ KeypointsInv' /\ SentInv'
  BY <1>3, Zenon DEF TypeInv, DataInv, SentInv, QueuesInv, ClocksInv, FramesInv, KeypointsInv
<1>13. BosInv' /\ NumbersInv' /\ WireInv'
  BY <1>3, Zenon DEF TypeInv, DataInv, BosInv, NumbersInv, WireInv
<1>14. QED BY <1>5, <1>6, <1>7, <1>8, <1>9, <1>10, <1>11, <1>12, <1>13, Zenon DEF TypeInv, DataInv

LEMMA ProductNat == ASSUME NEW m \in Nat, NEW n \in Nat PROVE m * n \in Nat
OBVIOUS

LEMMA FirstKeyframeType ==
  ASSUME TypeInv, NEW pts \in Granules
  PROVE  FirstKeyframe(writing.s, writing.p, pts) \in Granules
<1>1. buffered[writing.s].kf \in Granules
  BY AtWork DEF BuilderSet
<1>2. QED BY <1>1, Zenon DEF FirstKeyframe

LEMMA StampedBuilder ==
  ASSUME TypeInv, NEW granule \in Granules, NEW kf \in Granules,
         buffered' = [buffered EXCEPT ![writing.s].granule = granule, ![writing.s].kf = kf]
  PROVE  BuffersInv' /\ buffered'[writing.s].segs = buffered[writing.s].segs
<1> DEFINE s == writing.s
           b == [buffered[s] EXCEPT !.granule = granule, !.kf = kf]
<1>1. s \in Streams /\ buffered \in [Streams -> BuilderSet] /\ buffered[s] \in BuilderSet
  BY AtWork DEF TypeInv, DataInv, BuffersInv
<1> HIDE DEF s
<1>2. buffered' = [buffered EXCEPT ![s] = b]
  <2>1. buffered' = [buffered EXCEPT ![s].granule = granule, ![s].kf = kf]
    BY DEF s
  <2>2. QED BY <1>1, <2>1
<1>3. b \in BuilderSet /\ b.segs = buffered[s].segs
  BY <1>1 DEF BuilderSet
<1>4. buffered'[s] = b
  BY <1>1, <1>2
<1>5. BuffersInv'
  BY <1>1, <1>2, <1>3 DEF BuffersInv
<1>6. QED BY <1>3, <1>4, <1>5 DEF s

LEMMA StampContentType == TypeInv /\ StampContent => TypeInv'
<1> SUFFICES ASSUME TypeInv, StampContent PROVE TypeInv'
  OBVIOUS
<1> DEFINE s == writing.s
           p == writing.p
<1>1. step = "stamp" /\ UNCHANGED <<stage, turn, extra>> /\ step' \in {"flush", "none"}
  BY DEF StampContent, Doing, GoTo
<1>2. UNCHANGED <<writing, link, serial, used_serials, skel_serial, header_written,
                  trailer_written, page_target>>
  BY Zenon DEF StampContent
<1>3. UNCHANGED <<seq_no, headers_remaining, bos_emitted, queue, newest_time,
                  last_granule, next_frame, last_kf, keypoints, sk_seq, sent, wire>>
  BY Zenon DEF StampContent
<1>4. FlagsInv' /\ TargetInv'
  <2>1. content_started' = TRUE
    BY DEF StampContent
  <2>2. QED BY <1>2, <2>1, Zenon DEF TypeInv, FlagsInv, TargetInv
<1>5. ControlInv'
  BY <1>1, <1>2, ControlKept DEF TypeInv, StepNames
<1>6. CallInv'
  <2>1. stage \notin ClosingLoops
    BY <1>1 DEF TypeInv, CallInv
  <2>2. QED BY <1>1, <1>2, <2>1, CallKept DEF TypeInv, StepNames
<1>7. BuffersInv' /\ buffered'[s].segs = buffered[s].segs
  <2>1. CASE p.pts = NoPts
    <3>1. buffered' = buffered
      BY <2>1 DEF StampContent
    <3>2. QED BY <3>1, Zenon DEF TypeInv, DataInv, BuffersInv
  <2>2. CASE p.pts # NoPts
    <3>1. buffered' = [buffered EXCEPT ![s].granule = p.pts, ![s].kf = FirstKeyframe(s, p, p.pts)]
      BY <2>2 DEF StampContent
    <3>2. p.pts \in Granules /\ FirstKeyframe(s, p, p.pts) \in Granules
      BY AtWork, FirstKeyframeType
    <3>3. QED BY <3>1, <3>2, StampedBuilder
  <2>3. QED BY <2>1, <2>2
<1>8. WritingInv'
  BY <1>1, <1>2, <1>7 DEF TypeInv, WritingInv
<1>9. SerialsInv'
  BY <1>1, <1>2, SerialsKept DEF TypeInv
<1>10. QueuesInv' /\ ClocksInv' /\ FramesInv' /\ KeypointsInv' /\ SentInv'
  BY <1>3, Zenon DEF TypeInv, DataInv, SentInv, QueuesInv, ClocksInv, FramesInv, KeypointsInv
<1>11. HeadersInv' /\ BosInv' /\ NumbersInv' /\ WireInv'
  BY <1>3, Zenon DEF TypeInv, DataInv, HeadersInv, BosInv, NumbersInv, WireInv
<1>12. QED BY <1>4, <1>5, <1>6, <1>7, <1>8, <1>9, <1>10, <1>11, Zenon DEF TypeInv, DataInv

LEMMA PackType ==
  ASSUME NEW frame \in Nat, NEW kf \in Nat, kf <= frame
  PROVE  Pack(frame, kf) \in Nat
<1>1. kf + 1 \in Nat /\ frame - kf \in Nat /\ Span \in Nat
  BY MuxAssumption
<1>2. (kf + 1) * Span \in Nat
  BY <1>1, ProductNat
<1> DEFINE m == (kf + 1) * Span
<1> HIDE DEF m
<1>3. m \in Nat
  BY <1>2 DEF m
<1>4. m + (frame - kf) \in Nat
  BY <1>1, <1>3
<1>5. QED BY <1>4 DEF Pack, m

LEMMA StampTheoraType == TypeInv /\ StampTheora => TypeInv'
<1> SUFFICES ASSUME TypeInv, StampTheora PROVE TypeInv'
  OBVIOUS
<1> DEFINE s     == writing.s
           p     == writing.p
           frame == IF p.pts = NoPts THEN next_frame[s] ELSE p.pts
           kf    == IF p.keyframe THEN frame ELSE last_kf[s]
           packs == kf <= frame /\ frame - kf < Span
<1>1. step = "stamp" /\ last_kf' = [last_kf EXCEPT ![s] = kf]
  BY DEF StampTheora, Doing
<1>2. UNCHANGED <<writing, link, serial, used_serials, skel_serial, header_written,
                  trailer_written, page_target>>
  BY Zenon DEF StampTheora
<1>3. UNCHANGED <<seq_no, headers_remaining, bos_emitted, queue, newest_time,
                  last_granule, keypoints, sk_seq, sent, wire>>
  BY Zenon DEF StampTheora
<1>4. stage \notin ClosingLoops
  BY <1>1 DEF TypeInv, CallInv
<1>5. frame \in Nat /\ kf \in Nat /\ last_kf'\in [Streams -> Nat]
  <2>1. s \in Streams /\ p.pts \in Granules /\ next_frame[s] \in Nat /\ last_kf[s] \in Nat
        /\ last_kf \in [Streams -> Nat]
    BY AtWork DEF TypeInv, DataInv, FramesInv
  <2>2. frame \in Nat
    BY <2>1 DEF Granules
  <2> HIDE DEF frame
  <2>3. kf \in Nat
    BY <2>1, <2>2
  <2> HIDE DEF kf
  <2>4. QED BY <1>1, <2>1, <2>2, <2>3
<1>6. QueuesInv' /\ ClocksInv' /\ KeypointsInv' /\ SentInv'
  BY <1>3, Zenon DEF TypeInv, DataInv, SentInv, QueuesInv, ClocksInv, KeypointsInv
<1>7. HeadersInv' /\ BosInv' /\ NumbersInv' /\ WireInv'
  BY <1>3, Zenon DEF TypeInv, DataInv, HeadersInv, BosInv, NumbersInv, WireInv
<1>8. \/ /\ packs
         /\ next_frame' = [next_frame EXCEPT ![s] = frame + 1]
         /\ buffered' = [buffered EXCEPT ![s].granule = Pack(frame, kf),
                                         ![s].kf = FirstKeyframe(s, p, frame)]
         /\ content_started' = TRUE
         /\ step' \in {"flush", "none"} /\ UNCHANGED <<stage, turn, extra>>
      \/ /\ stage' = "idle" /\ turn' = 1 /\ extra' = 0 /\ step' = "none"
         /\ UNCHANGED <<next_frame, buffered, content_started>>
  BY DEF StampTheora, GoTo
<1>9. CASE /\ packs
           /\ next_frame' = [next_frame EXCEPT ![s] = frame + 1]
           /\ buffered' = [buffered EXCEPT ![s].granule = Pack(frame, kf),
                                           ![s].kf = FirstKeyframe(s, p, frame)]
           /\ content_started' = TRUE
           /\ step' \in {"flush", "none"} /\ UNCHANGED <<stage, turn, extra>>
  <2>1. FlagsInv' /\ TargetInv'
    BY <1>2, <1>9, Zenon DEF TypeInv, FlagsInv, TargetInv
  <2>2. ControlInv'
    BY <1>2, <1>9, ControlKept DEF TypeInv, StepNames
  <2>3. CallInv'
    BY <1>1, <1>2, <1>4, <1>9, CallKept DEF TypeInv, StepNames
  <2>4. BuffersInv' /\ buffered'[s].segs = buffered[s].segs
    <3>1. Pack(frame, kf) \in Granules
      <4> HIDE DEF frame, kf
      <4>1. QED BY <1>5, <1>9, PackType DEF Granules
    <3>2. FirstKeyframe(s, p, frame) \in Granules
      <4>1. frame \in Granules
        BY <1>5 DEF Granules
      <4> HIDE DEF frame
      <4>2. QED BY <4>1, FirstKeyframeType
    <3> HIDE DEF frame, kf
    <3>3. QED BY <1>9, <3>1, <3>2, StampedBuilder
  <2>5. WritingInv'
    BY <1>1, <1>2, <1>9, <2>4 DEF TypeInv, WritingInv
  <2>6. SerialsInv'
    BY <1>2, <1>9, SerialsKept DEF TypeInv
  <2>7. FramesInv'
    <3>1. s \in Streams /\ next_frame \in [Streams -> Nat]
      BY AtWork DEF TypeInv, DataInv, FramesInv
    <3> HIDE DEF frame, kf
    <3>2. QED BY <1>5, <1>9, <3>1 DEF FramesInv
  <2>8. QED BY <1>6, <1>7, <2>1, <2>2, <2>3, <2>4, <2>5, <2>6, <2>7, Zenon DEF TypeInv, DataInv
<1>10. CASE /\ stage' = "idle" /\ turn' = 1 /\ extra' = 0 /\ step' = "none"
            /\ UNCHANGED <<next_frame, buffered, content_started>>
  <2>1. FlagsInv' /\ TargetInv'
    BY <1>2, <1>10, Zenon DEF TypeInv, FlagsInv, TargetInv
  <2>2. ControlInv'
    <3>1. Order' = Order
      BY <1>2 DEF Order
    <3>2. QED BY <1>2, <1>10, <3>1 DEF TypeInv, ControlInv, Stages, StepNames
  <2>3. CallInv' /\ WritingInv'
    BY <1>2, <1>10, Quiet DEF TypeInv
  <2>4. BuffersInv'
    BY <1>10, Zenon DEF TypeInv, DataInv, BuffersInv
  <2>5. SerialsInv'
    BY <1>2, <1>10, SerialsKept DEF TypeInv
  <2>6. FramesInv'
    BY <1>5, <1>10 DEF TypeInv, DataInv, FramesInv
  <2>7. QED BY <1>6, <1>7, <2>1, <2>2, <2>3, <2>4, <2>5, <2>6, Zenon DEF TypeInv, DataInv
<1>11. QED BY <1>8, <1>9, <1>10, Zenon

\* The time of a page, as the interleave compares it.
LEMMA PageTimeType ==
  ASSUME NEW s \in Streams, NEW granule \in Granules, newest_time[s] \in Nat
  PROVE  PageTime(s, granule) \in Nat
<1>1. Scale[s] \in Nat /\ Span \in Nat \ {0}
  BY MuxAssumption
<1>2. CASE granule = NoPts
  BY <1>2 DEF PageTime
<1>3. CASE granule \in Nat /\ s \in Theora
  <2>1. FrameCount(granule) \in Nat
    <3>1. granule \div Span \in Nat /\ granule % Span \in Nat
      BY <1>1, <1>3
    <3>2. QED BY <3>1 DEF FrameCount
  <2>2. FrameCount(granule) * Scale[s] \in Nat
    BY <1>1, <2>1, ProductNat
  <2>3. granule # NoPts
    BY <1>3 DEF NoPts
  <2>4. QED BY <1>3, <2>2, <2>3 DEF PageTime
<1>4. CASE granule \in Nat /\ s \notin Theora
  <2>1. granule * Scale[s] \in Nat /\ granule # NoPts
    <3>1. \A m, n \in Nat : m * n \in Nat
      BY ProductNat
    <3>2. granule * Scale[s] \in Nat
      BY <1>1, <1>4, <3>1
    <3>3. QED BY <1>4, <3>2 DEF NoPts
  <2>2. QED BY <1>4, <2>1 DEF PageTime
<1>5. QED BY <1>2, <1>3, <1>4 DEF Granules

LEMMA NextBuilderType ==
  ASSUME NEW b \in BuilderSet, b.segs # <<>>
  PROVE  NextBuilder(b) \in BuilderSet
<1>1. b.segs \in Seq(LaceSet)
  BY DEF BuilderSet, SegsSet
<1>2. Last(b.segs) \in LaceSet
  BY <1>1 DEF Last
<1>3. Last(b.segs).open \in BOOLEAN
  BY <1>2 DEF LaceSet
<1>4. NextBuilder(b) = [EmptyBuilder EXCEPT !.cont = Last(b.segs).open]
  BY DEF NextBuilder
<1>5. QED BY <1>3, <1>4, EmptyBuilderType DEF BuilderSet

LEMMA FlushPageType == TypeInv /\ FlushPage => TypeInv'
<1> SUFFICES ASSUME TypeInv, FlushPage PROVE TypeInv'
  OBVIOUS
<1> DEFINE s     == writing.s
           b     == buffered[s]
           t     == PageTime(s, b.granule)
           time  == IF t > newest_time[s] THEN t ELSE newest_time[s]
           flags == (IF b.cont THEN {"cont"} ELSE {}) \cup (IF bos_emitted[s] THEN {} ELSE {"bos"})
           item  == [page |-> Page(s, flags, b.granule, b.segs, time), kf |-> b.kf]
<1>1. step = "flush" /\ UNCHANGED <<stage, turn, extra>> /\ step' = "release"
  BY DEF FlushPage, Doing, GoTo
<1>2. UNCHANGED <<writing, link, serial, used_serials, skel_serial, calls>>
  BY Zenon DEF FlushPage, calls, skeleton
<1>3. UNCHANGED <<headers_remaining, next_frame, last_kf, keypoints, sk_seq, sent, wire>>
  BY Zenon DEF FlushPage, skeleton
<1>4. /\ queue' = [queue EXCEPT ![s] = Append(@, item)]
      /\ buffered' = [buffered EXCEPT ![s] = NextBuilder(b)]
      /\ newest_time' = [newest_time EXCEPT ![s] = time]
      /\ last_granule' = IF b.granule = NoPts THEN last_granule
                         ELSE [last_granule EXCEPT ![s] = b.granule]
      /\ seq_no' = [seq_no EXCEPT ![s] = @ + 1]
      /\ bos_emitted' = [bos_emitted EXCEPT ![s] = TRUE]
  BY DEF FlushPage
<1>5. /\ s \in Streams /\ b \in BuilderSet /\ b.segs # <<>> /\ newest_time[s] \in Nat
      /\ b.granule \in Granules /\ b.kf \in Granules /\ b.segs \in SegsSet
  BY <1>1, AtWork DEF TypeInv, WritingInv, DataInv, ClocksInv, BuilderSet
<1>6. time \in Nat
  BY <1>5, PageTimeType
<1>7. item \in ItemSet
  <2>1. flags \in PageFlags
    BY DEF PageFlags
  <2> HIDE DEF time, flags
  <2>2. Page(s, flags, b.granule, b.segs, time) \in PageSet
    BY <1>5, <1>6, <2>1, PageType DEF TypeInv, DataInv
  <2>3. QED BY <1>5, <2>2 DEF ItemSet
<1>8. NextBuilder(b) \in BuilderSet
  BY <1>5, NextBuilderType
<1> HIDE DEF item, time, b
<1>9. FlagsInv' /\ TargetInv'
  BY <1>2, FlagsKept DEF TypeInv
<1>10. ControlInv'
  BY <1>1, <1>2, ControlKept DEF TypeInv, StepNames
<1>11. CallInv'
  BY <1>1, <1>2, CallKept DEF TypeInv, StepNames
<1>12. WritingInv'
  BY <1>1, <1>2 DEF TypeInv, WritingInv
<1>13. SerialsInv'
  BY <1>1, <1>2, SerialsKept DEF TypeInv
<1>14. QueuesInv'
  BY <1>4, <1>5, <1>7 DEF TypeInv, DataInv, QueuesInv
<1>15. BuffersInv'
  BY <1>4, <1>5, <1>8 DEF TypeInv, DataInv, BuffersInv
<1>16. ClocksInv'
  <2>1. CASE b.granule = NoPts
    BY <1>4, <1>5, <1>6, <2>1 DEF TypeInv, DataInv, ClocksInv
  <2>2. CASE b.granule # NoPts
    <3>1. b.granule \in Nat
      BY <1>5, <2>2 DEF Granules
    <3>2. QED BY <1>4, <1>5, <1>6, <2>2, <3>1 DEF TypeInv, DataInv, ClocksInv
  <2>3. QED BY <2>1, <2>2
<1>17. NumbersInv' /\ BosInv'
  BY <1>3, <1>4, <1>5 DEF TypeInv, DataInv, NumbersInv, BosInv
<1>18. HeadersInv' /\ FramesInv' /\ KeypointsInv' /\ SentInv' /\ WireInv'
  BY <1>3, Zenon DEF TypeInv, DataInv, HeadersInv, FramesInv, KeypointsInv, SentInv, WireInv
<1>19. QED
  BY <1>9, <1>10, <1>11, <1>12, <1>13, <1>14, <1>15, <1>16, <1>17, <1>18, Zenon
  DEF TypeInv, DataInv

-----------------------------------------------------------------------------
(* The interleave.                                                         *)

\* There is an earliest front page whenever a stream holds enough pages.
LEMMA EarliestFacts ==
  ASSUME ControlInv, QueuesInv, NEW n \in Nat, Holding(n) # {}
  PROVE  /\ Earliest(n) \in Holding(n)
         /\ \A j \in Holding(n) :
              \/ FrontTime(Order[Earliest(n)]) < FrontTime(Order[j])
              \/ FrontTime(Order[Earliest(n)]) = FrontTime(Order[j]) /\ Earliest(n) <= j
<1> DEFINE F(i) == FrontTime(Order[i])
<1>1. Order \in Seq(Streams) /\ Holding(n) \in SUBSET Nat
  BY OrderFacts DEF ControlInv, Holding
<1>2. \A i \in Holding(n) : F(i) \in Nat
  <2> SUFFICES ASSUME NEW i \in Holding(n) PROVE F(i) \in Nat
    OBVIOUS
  <2>1. Order[i] \in Streams /\ Len(queue[Order[i]]) > n
    BY <1>1 DEF Holding
  <2>2. queue[Order[i]] \in Seq(ItemSet)
    BY <2>1 DEF QueuesInv
  <2>3. Head(queue[Order[i]]) \in ItemSet
    BY <2>1, <2>2
  <2>4. Head(queue[Order[i]]).page \in PageSet
    BY <2>3 DEF ItemSet
  <2>5. QED BY <2>4 DEF FrontTime, PageSet
<1> HIDE DEF F
<1>3. PICK i \in Holding(n) : \A j \in Holding(n) : F(i) <= F(j)
  <2> DEFINE T == {F(i) : i \in Holding(n)}
  <2>1. T \in SUBSET Nat /\ T # {}
    BY <1>2
  <2>2. PICK t \in T : \A u \in T : t <= u
    BY <2>1, LeastNatural
  <2>3. QED BY <2>2
<1>4. PICK k \in {j \in Holding(n) : F(j) = F(i)} : \A m \in {j \in Holding(n) : F(j) = F(i)} : k <= m
  <2> DEFINE T == {j \in Holding(n) : F(j) = F(i)}
  <2>1. T \in SUBSET Nat /\ T # {}
    BY <1>1
  <2> HIDE DEF T
  <2>2. PICK t \in T : \A u \in T : t <= u
    BY <2>1, LeastNatural
  <2>3. QED BY <2>2 DEF T
<1>5. \A j \in Holding(n) : F(k) < F(j) \/ (F(k) = F(j) /\ k <= j)
  BY <1>2, <1>3, <1>4
<1>6. \E m \in Holding(n) : \A j \in Holding(n) :
        \/ FrontTime(Order[m]) < FrontTime(Order[j])
        \/ FrontTime(Order[m]) = FrontTime(Order[j]) /\ m <= j
  BY <1>4, <1>5 DEF F
<1>7. QED BY <1>6, Zenon DEF Earliest

\* The stream whose page is let out.
LEMMA EarliestStream ==
  ASSUME ControlInv, QueuesInv, NEW n \in Nat, Holding(n) # {}
  PROVE  /\ Order[Earliest(n)] \in Streams /\ Order[Earliest(n)] \in Current
         /\ queue[Order[Earliest(n)]] # <<>> /\ Len(queue[Order[Earliest(n)]]) > n
<1>1. Earliest(n) \in Holding(n)
  BY EarliestFacts
<1>2. Earliest(n) \in 1 .. Len(Order) /\ Len(queue[Order[Earliest(n)]]) > n
  BY <1>1, OrderFacts DEF Holding, ControlInv
<1>3. Order[Earliest(n)] \in Streams /\ Order[Earliest(n)] \in Current
  BY <1>2, OrderFacts DEF ControlInv
<1>4. QED BY <1>2, <1>3 DEF QueuesInv

LEMMA WritePendingType ==
  ASSUME TypeInv, NEW s \in Streams, queue[s] # <<>>, WritePending(s)
  PROVE  WireInv' /\ QueuesInv' /\ KeypointsInv'
<1> DEFINE at == PageOffset
           kf == Head(queue[s]).kf
<1>1. Head(queue[s]) \in ItemSet /\ Tail(queue[s]) \in Seq(ItemSet) /\ wire \in Seq(PageSet)
  BY DEF TypeInv, DataInv, QueuesInv, WireInv
<1>2. Head(queue[s]).page \in PageSet /\ kf \in Granules
  BY <1>1 DEF ItemSet
<1>3. WireInv'
  BY <1>1, <1>2 DEF WritePending, WireInv
<1>4. QueuesInv'
  BY <1>1 DEF WritePending, TypeInv, DataInv, QueuesInv
<1>5. KeypointsInv'
  <2>1. CASE keypoints' = keypoints
    BY <2>1 DEF TypeInv, DataInv, KeypointsInv
  <2>2. CASE /\ kf # NoPts /\ Accepts(s, at, kf)
             /\ keypoints' = [keypoints EXCEPT ![s] = Append(@, [offset |-> at, timestamp |-> kf])]
    <3>1. kf \in Nat
      BY <1>2, <2>2 DEF Granules
    <3>2. at \in Nat
      BY <1>1 DEF PageOffset
    <3> HIDE DEF at, kf
    <3>3. [offset |-> at, timestamp |-> kf] \in KeypointSet
      BY <3>1, <3>2 DEF KeypointSet
    <3>4. Len(keypoints[s]) < MaxKeypoints /\ MaxKeypoints \in Nat
      BY <2>2, MuxAssumption DEF Accepts
    <3>5. keypoints \in [Streams -> Seq(KeypointSet)]
      BY DEF TypeInv, DataInv, KeypointsInv
    <3>6. keypoints' \in [Streams -> Seq(KeypointSet)]
      BY <2>2, <3>3, <3>5
    <3>7. Len(Append(keypoints[s], [offset |-> at, timestamp |-> kf])) <= MaxKeypoints
      BY <3>4, <3>5
    <3>8. \A r \in Streams : Len(keypoints'[r]) <= MaxKeypoints
      BY <2>2, <3>5, <3>7 DEF TypeInv, DataInv, KeypointsInv
    <3>9. QED BY <3>6, <3>8 DEF KeypointsInv
  <2>3. QED BY <2>1, <2>2, Zenon DEF WritePending
<1>6. QED BY <1>3, <1>4, <1>5

LEMMA PageLetOut ==
  ASSUME TypeInv, NEW s \in Streams, queue[s] # <<>>, WritePending(s),
         UNCHANGED <<control, calls, serial, seq_no, buffered, headers_remaining, bos_emitted,
                     newest_time, last_granule, next_frame, last_kf, sample_times, measured,
                     fishead, published, sk_seq, skel_serial, sent, refused>>
  PROVE  TypeInv'
<1>1. UNCHANGED <<stage, turn, extra, step, writing, link, serial, used_serials, skel_serial>>
  BY Zenon DEF control, calls
<1>2. FlagsInv' /\ TargetInv'
  BY FlagsKept DEF TypeInv
<1>3. ControlInv'
  BY <1>1, ControlKept DEF TypeInv, ControlInv
<1>4. CallInv' /\ WritingInv'
  <2>1. Current' = Current /\ Turn' = Turn
    BY <1>1, Zenon DEF Current, Turn, Order
  <2>2. QED BY <1>1, <2>1, Zenon DEF TypeInv, CallInv, WritingInv
<1>5. SerialsInv'
  BY <1>1, SerialsKept DEF TypeInv
<1>6. WireInv' /\ QueuesInv' /\ KeypointsInv'
  BY WritePendingType
<1>7. BuffersInv' /\ BosInv' /\ HeadersInv'
  BY Zenon DEF TypeInv, DataInv, BuffersInv, BosInv, HeadersInv
<1>8. NumbersInv' /\ ClocksInv' /\ FramesInv' /\ SentInv'
  BY Zenon DEF TypeInv, DataInv, NumbersInv, ClocksInv, FramesInv, SentInv
<1>9. QED BY <1>2, <1>3, <1>4, <1>5, <1>6, <1>7, <1>8, Zenon DEF TypeInv, DataInv

LEMMA ReleasePageType == TypeInv /\ ReleasePage => TypeInv'
<1> SUFFICES ASSUME TypeInv, ReleasePage PROVE TypeInv'
  OBVIOUS
<1> DEFINE s == Order[Earliest(1)]
<1>1. Holding(1) # {} /\ WritePending(s)
  BY DEF ReleasePage, Releasable
<1>2. s \in Streams /\ queue[s] # <<>>
  BY <1>1, EarliestStream DEF TypeInv, DataInv
<1>3. QED BY <1>1, <1>2, PageLetOut DEF ReleasePage

LEMMA DrainPageType == TypeInv /\ DrainPage => TypeInv'
<1> SUFFICES ASSUME TypeInv, DrainPage PROVE TypeInv'
  OBVIOUS
<1> DEFINE s == Order[Earliest(0)]
<1>1. Holding(0) # {} /\ WritePending(s)
  BY DEF DrainPage
<1>2. s \in Streams /\ queue[s] # <<>>
  BY <1>1, EarliestStream DEF TypeInv, DataInv
<1>3. QED BY <1>1, <1>2, PageLetOut DEF DrainPage

LEMMA ReleaseDoneType == TypeInv /\ ReleaseDone => TypeInv'
<1> SUFFICES ASSUME TypeInv, ReleaseDone PROVE TypeInv'
  OBVIOUS
<1>1. step = "release" /\ UNCHANGED <<stage, turn, extra>>
      /\ step' = IF LacesLeft > 0 THEN "put" ELSE "none"
  BY DEF ReleaseDone, Doing, GoTo
<1>2. UNCHANGED <<writing, link, serial, used_serials, skel_serial, calls>>
  BY Zenon DEF ReleaseDone, calls, writers, skeleton
<1>3. UNCHANGED data
  BY Zenon DEF ReleaseDone, writers, skeleton, data
<1>4. FlagsInv' /\ TargetInv'
  BY <1>2, FlagsKept DEF TypeInv
<1>5. ControlInv'
  BY <1>1, <1>2, ControlKept DEF TypeInv, StepNames
<1>6. CallInv'
  <2>1. stage \in ClosingLoops => step' = "none"
    BY <1>1, AtWork DEF TypeInv, CallInv, LacesLeft
  <2>2. QED BY <1>1, <1>2, <2>1, CallKept DEF TypeInv, StepNames
<1>7. WritingInv'
  BY <1>1, <1>2, AtWork DEF TypeInv, WritingInv, LacesLeft
<1>8. SerialsInv'
  BY <1>1, <1>2, SerialsKept DEF TypeInv
<1>9. DataInv'
  BY <1>3, DataKept DEF TypeInv
<1>10. QED BY <1>4, <1>5, <1>6, <1>7, <1>8, <1>9, Zenon DEF TypeInv

LEMMA DrainDoneType == TypeInv /\ DrainDone => TypeInv'
<1> SUFFICES ASSUME TypeInv, DrainDone PROVE TypeInv'
  OBVIOUS
<1>1. step = "none" /\ stage \in {"drain_headers", "drain_link", "drain"} /\ NextStage
  BY DEF DrainDone, Draining, Inside
<1>2. UNCHANGED <<extra, step, writing, link, serial, used_serials, skel_serial, calls>>
  BY Zenon DEF DrainDone, calls, writers, skeleton
<1>3. UNCHANGED data
  BY Zenon DEF DrainDone, writers, skeleton, data
<1>4. FlagsInv' /\ TargetInv'
  BY <1>2, FlagsKept DEF TypeInv
<1>5. ControlInv'
  BY <1>1, <1>2, StageLeft DEF TypeInv, Loops, BosLoops, HeaderLoops, ClosingLoops
<1>6. CallInv' /\ WritingInv'
  BY <1>1, <1>2, Quiet DEF TypeInv
<1>7. SerialsInv'
  <2>1. stage' \notin {"arm", "arm_skeleton"}
    BY <1>1 DEF NextStage, After
  <2>2. QED BY <1>2, <2>1, SerialsKept DEF TypeInv
<1>8. DataInv'
  BY <1>3, DataKept DEF TypeInv
<1>9. QED BY <1>4, <1>5, <1>6, <1>7, <1>8, Zenon DEF TypeInv

-----------------------------------------------------------------------------
(* The end of a link.                                                      *)

LEMMA CloseFlushType == TypeInv /\ CloseFlush => TypeInv'
<1> SUFFICES ASSUME TypeInv, CloseFlush PROVE TypeInv'
  OBVIOUS
<1>1. stage \in ClosingLoops /\ step' = "flush" /\ buffered[Turn].segs # <<>>
  BY DEF CloseFlush, Closing, Inside, ClosingLoops, Call
<1>2. writing' = [s |-> Turn, p |-> HeaderPacket, from |-> 1]
  BY DEF CloseFlush, Call
<1>3. UNCHANGED <<stage, turn, extra, link, serial, used_serials, skel_serial, calls>>
  BY Zenon DEF CloseFlush, calls, writers, skeleton
<1>4. UNCHANGED data
  BY Zenon DEF CloseFlush, writers, skeleton, data
<1>5. FlagsInv' /\ TargetInv'
  BY <1>3, FlagsKept DEF TypeInv
<1>6. Turn' = Turn /\ Current' = Current
  BY <1>3, Zenon DEF Order, Turn, Current
<1>7. ControlInv'
  BY <1>1, <1>3, ControlKept DEF TypeInv, StepNames
<1>8. Turn \in Streams /\ Turn \in Current
  BY TurnType DEF TypeInv
<1>9. CallInv'
  BY <1>1, <1>2, <1>3, <1>6, <1>8, HeaderPacketType DEF CallInv
<1>10. WritingInv'
  <2>1. writing' \in WritingSet /\ writing'.s = Turn
    BY <1>2, <1>8, HeaderPacketType DEF WritingSet
  <2>2. buffered' = buffered
    BY <1>4 DEF data
  <2>3. QED BY <1>1, <2>1, <2>2 DEF WritingInv
<1>11. SerialsInv'
  BY <1>3, SerialsKept DEF TypeInv
<1>12. DataInv'
  BY <1>4, DataKept DEF TypeInv
<1>13. QED BY <1>5, <1>7, <1>9, <1>10, <1>11, <1>12, Zenon DEF TypeInv

LEMMA CloseStreamType == TypeInv /\ CloseStream => TypeInv'
<1> SUFFICES ASSUME TypeInv, CloseStream PROVE TypeInv'
  OBVIOUS
<1> DEFINE s == Turn
           n == Len(queue[s])
           nil == [kf |-> NoPts, page |-> Page(s, {"eos"}, last_granule[s], <<>>, newest_time[s])]
<1>1. stage \in ClosingLoops /\ step = "none" /\ NextTurn
  BY DEF CloseStream, Closing, Inside, ClosingLoops
<1>2. UNCHANGED <<extra, step, writing, link, serial, used_serials, skel_serial, calls>>
  BY Zenon DEF CloseStream, calls, skeleton
<1>3. UNCHANGED <<buffered, headers_remaining, bos_emitted, newest_time, last_granule, next_frame,
                  last_kf, keypoints, sk_seq, sent, wire>>
  BY Zenon DEF CloseStream, skeleton
<1>4. FlagsInv' /\ TargetInv'
  BY <1>2, FlagsKept DEF TypeInv
<1>5. ControlInv'
  BY <1>1, <1>2, TurnTaken DEF TypeInv, ControlInv, Loops
<1>6. CallInv' /\ WritingInv'
  BY <1>1, <1>2, Quiet DEF TypeInv
<1>7. SerialsInv'
  <2>1. After(stage) \notin {"arm", "arm_skeleton"} /\ stage \notin {"arm", "arm_skeleton"}
    BY <1>1 DEF ClosingLoops, After, AfterClose
  <2>2. stage' \notin {"arm", "arm_skeleton"}
    BY <1>1, <2>1 DEF NextTurn
  <2>3. QED BY <1>2, <2>2, SerialsKept DEF TypeInv
<1>8. s \in Streams /\ queue \in [Streams -> Seq(ItemSet)] /\ seq_no \in [Streams -> Nat]
      /\ sk_seq \in Nat
  BY TurnType DEF TypeInv, DataInv, QueuesInv, NumbersInv
<1>9. nil \in ItemSet
  <2>1. <<>> \in SegsSet /\ {"eos"} \in PageFlags
    BY MuxAssumption DEF SegsSet, PageFlags
  <2>2. last_granule[s] \in Granules /\ newest_time[s] \in Nat
    BY <1>8 DEF TypeInv, DataInv, ClocksInv, Granules
  <2>3. Page(s, {"eos"}, last_granule[s], <<>>, newest_time[s]) \in PageSet
    BY <1>8, <2>1, <2>2, PageType DEF TypeInv, DataInv
  <2>4. QED BY <2>3 DEF ItemSet, Granules
<1> HIDE DEF nil, s
<1>10. QueuesInv' /\ NumbersInv'
  <2>1. CASE /\ n > 0 /\ seq_no' = seq_no
             /\ queue' = [queue EXCEPT ![s][n].page.flags = @ \cup {"eos"}]
    <3> DEFINE item == queue[s][n]
               closed == [item EXCEPT !.page.flags = @ \cup {"eos"}]
    <3>1. queue[s] \in Seq(ItemSet) /\ n \in 1 .. Len(queue[s])
      BY <1>8, <2>1
    <3>2. item \in ItemSet
      BY <3>1
    <3> HIDE DEF item, n
    <3>3. item.page \in PageSet /\ item.page.flags \in PageFlags
      BY <3>2 DEF ItemSet, PageSet
    <3>4. item.page.flags \cup {"eos"} \in PageFlags
      BY <3>3 DEF PageFlags
    <3>5. closed \in ItemSet
      <4>1. [item.page EXCEPT !.flags = @ \cup {"eos"}] \in PageSet
        BY <3>3, <3>4 DEF PageSet
      <4>2. closed = [item EXCEPT !.page = [item.page EXCEPT !.flags = @ \cup {"eos"}]]
        BY <3>2 DEF ItemSet
      <4>3. QED BY <3>2, <4>1, <4>2 DEF ItemSet
    <3>6. queue' = [queue EXCEPT ![s] = [queue[s] EXCEPT ![n] = closed]]
      BY <2>1 DEF item
    <3>7. [queue[s] EXCEPT ![n] = closed] \in Seq(ItemSet)
      <4> HIDE DEF closed
      <4>1. QED BY <3>1, <3>5
    <3>8. QED BY <1>3, <1>8, <2>1, <3>6, <3>7 DEF QueuesInv, NumbersInv
  <2>2. CASE /\ queue' = [queue EXCEPT ![s] = <<nil>>]
             /\ seq_no' = [seq_no EXCEPT ![s] = @ + 1]
    <3>1. <<nil>> \in Seq(ItemSet)
      BY <1>9
    <3>2. QED BY <1>3, <1>8, <2>2, <3>1 DEF QueuesInv, NumbersInv
  <2>3. CASE UNCHANGED <<queue, seq_no>>
    BY <1>3, <1>8, <2>3 DEF QueuesInv, NumbersInv
  <2>4. QED BY <2>1, <2>2, <2>3, Zenon DEF CloseStream, s, nil
<1>11. BuffersInv' /\ ClocksInv' /\ FramesInv' /\ KeypointsInv'
  BY <1>3, Zenon DEF TypeInv, DataInv, BuffersInv, ClocksInv, FramesInv, KeypointsInv
<1>12. HeadersInv' /\ BosInv' /\ SentInv' /\ WireInv'
  BY <1>3, Zenon DEF TypeInv, DataInv, HeadersInv, BosInv, SentInv, WireInv
<1>13. QED BY <1>4, <1>5, <1>6, <1>7, <1>10, <1>11, <1>12, Zenon DEF TypeInv, DataInv

LEMMA BackfillType == TypeInv /\ Backfill => TypeInv'
<1> SUFFICES ASSUME TypeInv, Backfill PROVE TypeInv'
  OBVIOUS
<1>1. step = "none" /\ stage = "backfill" /\ NextStage
  BY DEF Backfill, Inside
<1>2. UNCHANGED <<extra, step, writing, link, serial, used_serials, skel_serial, header_written,
                  content_started, page_target>>
  BY Zenon DEF Backfill, writers
<1>3. UNCHANGED data
  BY Zenon DEF Backfill, writers, data
<1>4. FlagsInv' /\ TargetInv'
  <2>1. trailer_written' = TRUE
    BY DEF Backfill
  <2>2. QED BY <1>2, <2>1, Zenon DEF TypeInv, FlagsInv, TargetInv
<1>5. ControlInv'
  BY <1>1, <1>2, StageLeft DEF TypeInv, Loops, BosLoops, HeaderLoops, ClosingLoops
<1>6. CallInv' /\ WritingInv'
  BY <1>1, <1>2, Quiet DEF TypeInv
<1>7. SerialsInv'
  <2>1. stage' \notin {"arm", "arm_skeleton"}
    BY <1>1 DEF NextStage, After
  <2>2. QED BY <1>2, <2>1, SerialsKept DEF TypeInv
<1>8. DataInv'
  BY <1>3, DataKept DEF TypeInv
<1>9. QED BY <1>4, <1>5, <1>6, <1>7, <1>8, Zenon DEF TypeInv

-----------------------------------------------------------------------------
(* The theorem.                                                            *)

LEMMA StillType == TypeInv /\ UNCHANGED vars => TypeInv'
<1> SUFFICES ASSUME TypeInv, UNCHANGED vars PROVE TypeInv'
  OBVIOUS
<1>1. UNCHANGED <<stage, turn, extra, step, writing, link, serial, used_serials, skel_serial, calls>>
  BY Zenon DEF vars, control, calls, writers, skeleton
<1>2. UNCHANGED data
  BY Zenon DEF vars, writers, skeleton, data
<1>3. FlagsInv' /\ TargetInv'
  BY <1>1, FlagsKept DEF TypeInv
<1>4. ControlInv'
  BY <1>1, ControlKept DEF TypeInv, ControlInv
<1>5. CallInv' /\ WritingInv'
  <2>1. Current' = Current /\ Turn' = Turn /\ buffered' = buffered
    BY <1>1, <1>2, Zenon DEF Current, Turn, Order, data
  <2>2. QED BY <1>1, <2>1, Zenon DEF TypeInv, CallInv, WritingInv
<1>6. SerialsInv'
  BY <1>1, SerialsKept DEF TypeInv
<1>7. DataInv'
  BY <1>2, DataKept DEF TypeInv
<1>8. QED BY <1>3, <1>4, <1>5, <1>6, <1>7, Zenon DEF TypeInv

LEMMA TypeStep == TypeInv /\ [Next]_vars => TypeInv'
<1> SUFFICES ASSUME TypeInv, [Next]_vars PROVE TypeInv'
  OBVIOUS
<1>1. CASE WriteHeader
  BY <1>1, WriteHeaderType
<1>2. CASE BeginNewLink
  BY <1>2, BeginNewLinkType
<1>3. CASE WriteTrailer
  BY <1>3, WriteTrailerType
<1>4. CASE \E t \in Targets \cup {NoTarget} : SetPageTarget(t)
  BY <1>4, SetPageTargetType
<1>5. CASE \E s \in Streams : \E p \in Packets[s] : WritePacket(s, p)
  BY <1>5, WritePacketType
<1>6. CASE Arm
  BY <1>6, ArmType
<1>7. CASE ArmSkeleton
  BY <1>7, ArmSkeletonType
<1>8. CASE NextLink
  BY <1>8, NextLinkType
<1>9. CASE WriteBos
  BY <1>9, WriteBosType
<1>10. CASE WriteSecondary
  BY <1>10, WriteSecondaryType
<1>11. CASE PassTurn
  BY <1>11, PassTurnType
<1>12. CASE WriteSkeletonPage
  BY <1>12, WriteSkeletonPageType
<1>13. CASE BeginPacket
  BY <1>13, BeginPacketType
<1>14. CASE PutLaces
  BY <1>14, PutLacesType
<1>15. CASE StampHeader
  BY <1>15, StampHeaderType
<1>16. CASE StampContent
  BY <1>16, StampContentType
<1>17. CASE StampTheora
  BY <1>17, StampTheoraType
<1>18. CASE FlushPage
  BY <1>18, FlushPageType
<1>19. CASE ReleasePage
  BY <1>19, ReleasePageType
<1>20. CASE ReleaseDone
  BY <1>20, ReleaseDoneType
<1>21. CASE DrainPage
  BY <1>21, DrainPageType
<1>22. CASE DrainDone
  BY <1>22, DrainDoneType
<1>23. CASE CloseFlush
  BY <1>23, CloseFlushType
<1>24. CASE CloseStream
  BY <1>24, CloseStreamType
<1>25. CASE Backfill
  BY <1>25, BackfillType
<1>26. CASE UNCHANGED vars
  BY <1>26, StillType
<1>27. QED
  BY <1>1, <1>2, <1>3, <1>4, <1>5, <1>6, <1>7, <1>8, <1>9, <1>10, <1>11, <1>12, <1>13, <1>14,
     <1>15, <1>16, <1>17, <1>18, <1>19, <1>20, <1>21, <1>22, <1>23, <1>24, <1>25, <1>26, Zenon
  DEF Next, Calls, Steps, Terminated

LEMMA TypeInvTypes == TypeInv => TypeOK
<1> SUFFICES ASSUME TypeInv PROVE TypeOK
  OBVIOUS
<1>1. link \in DOMAIN Links /\ page_target \in Targets \cup {NoTarget} /\ used_serials \subseteq Serials
  BY DEF TypeInv, ControlInv, TargetInv, SerialsInv
<1>2. {header_written, trailer_written, content_started} \subseteq BOOLEAN
  BY DEF TypeInv, FlagsInv
<1>3. ASSUME NEW s \in Streams
      PROVE  /\ serial[s] \in Serials \cup {NoSerial}
             /\ Len(buffered[s].segs) <= MaxSegs /\ buffered[s].cont \in BOOLEAN
             /\ headers_remaining[s] \in 0 .. Need[s]
             /\ {seq_no[s], newest_time[s], last_granule[s], next_frame[s], last_kf[s]} \subseteq Nat
             /\ Len(keypoints[s]) <= MaxKeypoints
  <2>1. serial[s] \in Serials \cup {NoSerial}
    BY DEF TypeInv, SerialsInv
  <2>2. buffered[s] \in BuilderSet
    BY DEF TypeInv, DataInv, BuffersInv
  <2>3. Len(buffered[s].segs) <= MaxSegs /\ buffered[s].cont \in BOOLEAN
    BY <2>2 DEF BuilderSet, SegsSet
  <2>4. headers_remaining[s] \in 0 .. Need[s]
    BY MuxAssumption DEF TypeInv, DataInv, HeadersInv
  <2>5. {seq_no[s], newest_time[s], last_granule[s], next_frame[s], last_kf[s]} \subseteq Nat
    BY DEF TypeInv, DataInv, NumbersInv, ClocksInv, FramesInv
  <2>6. Len(keypoints[s]) <= MaxKeypoints
    BY DEF TypeInv, DataInv, KeypointsInv
  <2>7. QED BY <2>1, <2>3, <2>4, <2>5, <2>6
<1>4. \A i \in DOMAIN wire : Len(wire[i].segs) <= MaxSegs
  <2> SUFFICES ASSUME NEW i \in DOMAIN wire PROVE Len(wire[i].segs) <= MaxSegs
    OBVIOUS
  <2>1. wire[i] \in PageSet
    BY DEF TypeInv, DataInv, WireInv
  <2>2. QED BY <2>1 DEF PageSet, SegsSet
<1>5. QED BY <1>1, <1>2, <1>3, <1>4 DEF TypeOK

\* However the streams are multiplexed, linked and closed, and in whatever order the
\* calls come, no page and no builder holds more laces than a segment table, a stream's
\* header packets never run below zero, granules and clocks stay natural, and a link
\* never runs out of serials.
THEOREM MuxTypes == Spec => []TypeOK
<1>1. Init => TypeInv
  BY InitType
<1>2. TypeInv /\ [Next]_vars => TypeInv'
  BY TypeStep
<1>3. TypeInv => TypeOK
  BY TypeInvTypes
<1>4. QED BY <1>1, <1>2, <1>3, PTL DEF Spec
=============================================================================
