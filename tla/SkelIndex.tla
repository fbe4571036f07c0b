------------------------------- MODULE SkelIndex -------------------------------
(***************************************************************************)
(* The keyframe index packet of src/src/skeleton.rs: its variable-length   *)
(* integers, its deltas, and the search for the keypoint of a time.  An    *)
(* index is [serial, denominator, first, last, keypoints], a byte is a     *)
(* chunk with its last-byte flag, and a time is a pair <<p, q>>, q > 0.    *)
(***************************************************************************)
EXTENDS Integers, Sequences, SequencesExt, FiniteSetsExt, Options

CONSTANTS
  Base,        \* values of a chunk (2^7)
  VbiBytes,    \* most bytes of one integer (10)
  Word         \* 2^64

ASSUME IndexAssumption ==
  /\ Base \in Nat \ {0, 1} /\ VbiBytes \in Nat \ {0} /\ Word \in Nat \ {0}
  /\ Base ^ VbiBytes >= Word

Wrapped(t) == ((t + Word \div 2) % Word) - Word \div 2

\* write_vbi_u64
WriteVbi(n) ==
  LET len == Min({k \in 1 .. VbiBytes : n < Base ^ k})
  IN [i \in 1 .. len |-> [chunk |-> (n \div Base ^ (i - 1)) % Base, last |-> i = len]]

\* read_vbi_u64, the value and the bytes it took; what is shifted out is lost.
ReadVbi(bytes) ==
  LET ends == {i \in DOMAIN bytes : i <= VbiBytes /\ bytes[i].last}
      used == Min(ends)
  IN IF ends = {} THEN None
     ELSE Some([value |-> MapThenSumSet(LAMBDA i : bytes[i].chunk * Base ^ (i - 1), 1 .. used) % Word,
                used  |-> used])

\* to_bytes, an offset below the one before it saturates.
IndexBytes(index) ==
  LET points == index.keypoints
      offset(i) == IF i = 0 THEN 0 ELSE points[i].offset
      time(i)   == IF i = 0 THEN 0 ELSE points[i].timestamp
      delta(i)  == WriteVbi(Max({0, offset(i) - offset(i - 1)}))
                   \o WriteVbi((time(i) - time(i - 1)) % Word)
  IN [index |-> [index EXCEPT !.keypoints = <<>>], n |-> Len(points),
      bytes |-> FlattenSeq([i \in DOMAIN points |-> delta(i)])]

\* One turn of the loop of parse; got is an Option, None once it failed.
NextPoint(got) ==
  LET at   == got[1]
      off  == ReadVbi(at.rest)
      rest == SubSeq(at.rest, off[1].used + 1, Len(at.rest))
      time == ReadVbi(rest)
      point == [offset |-> at.offset + off[1].value, timestamp |-> Wrapped(at.time + time[1].value)]
  IN IF got = None \/ off = None THEN None
     ELSE IF time = None \/ point.offset >= Word THEN None
     ELSE Some([rest |-> SubSeq(rest, time[1].used + 1, Len(rest)), offset |-> point.offset,
                time |-> point.timestamp, points |-> Append(at.points, point)])

\* parse, None for an Err.
IndexOf(packet) ==
  LET got == FoldLeft(LAMBDA acc, i : NextPoint(acc),
                      Some([rest |-> packet.bytes, offset |-> 0, time |-> 0, points |-> <<>>]),
                      [i \in 1 .. packet.n |-> i])
  IN IF got = None THEN None ELSE Some([packet.index EXCEPT !.keypoints = got[1].points])

Sorted(points) == \A i \in 2 .. Len(points) : /\ points[i - 1].offset <= points[i].offset
                                              /\ points[i - 1].timestamp <= points[i].timestamp

\* A definition marked mutant is a plausible slip in the operator below it.
CeilPoint(index, target) ==   \* mutant: the time is rounded up
  LET points == index.keypoints
      num    == -((-(target[1] * index.denominator)) \div target[2])
      after  == {i \in DOMAIN points : points[i].timestamp > num}
  IN IF index.denominator = 0 \/ points = <<>> THEN None
     ELSE IF after = {} THEN Some(Len(points))
     ELSE IF Min(after) = 1 THEN None ELSE Some(Min(after) - 1)
\* keypoint_for_time: the last keypoint at or before the target.  Of keypoints
\* in no order it answers whichever its bisection meets, here the first.
KeypointForTime(index, target) ==
  LET points == index.keypoints
      num    == (target[1] * index.denominator) \div target[2]
      after  == {i \in DOMAIN points : points[i].timestamp > num}
  IN IF index.denominator = 0 \/ points = <<>> THEN None
     ELSE IF num >= Word \div 2 THEN Some(Len(points))
     ELSE IF target[1] * index.denominator <= -(Word \div 2) * target[2] THEN None
     ELSE IF after = {} THEN Some(Len(points))
     ELSE IF Min(after) = 1 THEN None ELSE Some(Min(after) - 1)

\* seek_offset_for_time
SeekOffsetForTime(indexes, target) ==
  LET found == {i \in DOMAIN indexes : KeypointForTime(indexes[i], target) # None}
  IN IF found = {} THEN None
     ELSE Some(Min({indexes[i].keypoints[KeypointForTime(indexes[i], target)[1]].offset : i \in found}))

\* indexed_duration_seconds, as a pair; the times are compared crosswise.
Before(a, b) == a[1] * b[2] <= b[1] * a[2]
IndexedDuration(indexes) ==
  LET known  == {i \in DOMAIN indexes : indexes[i].denominator # 0}
      firsts == {<<indexes[i].first, indexes[i].denominator>> : i \in known}
      lasts  == {<<indexes[i].last, indexes[i].denominator>> : i \in known}
      first  == CHOOSE f \in firsts : \A g \in firsts : Before(f, g)
      last   == CHOOSE l \in lasts : \A g \in lasts : Before(g, l)
  IN IF known = {} THEN None
     ELSE Some(<<last[1] * first[2] - first[1] * last[2], last[2] * first[2]>>)
=============================================================================
