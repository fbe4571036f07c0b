----------------------------- MODULE TheoraGranule -----------------------------
(***************************************************************************)
(* The granule positions of a Theora stream, src/src/theora.rs, and what a *)
(* Skeleton bone makes of them.  t is [shift, count_from_one].             *)
(***************************************************************************)
EXTENDS Integers, Sequences, Options

CONSTANT TopBit    \* bits of a granule but its sign (63)

ASSUME GranuleAssumption == TopBit \in Nat \ {0}

Limit   == 2 ^ TopBit
Bias(t) == IF t.count_from_one THEN 1 ELSE 0

MaxOffset(t) == IF t.shift = 0 THEN 0 ELSE IF t.shift >= TopBit THEN Limit - 1 ELSE 2 ^ t.shift - 1

\* split: the key frame half and the offset.
Split(t, g) ==
  IF g < 0 \/ t.shift >= TopBit THEN None
  ELSE IF t.shift = 0 THEN Some([upper |-> g, offset |-> 0])
  ELSE Some([upper |-> g \div 2 ^ t.shift, offset |-> g % 2 ^ t.shift])

\* An index below the origin is none; a sum past the top neither.
Indexed(n) == IF n \in 0 .. Limit - 1 THEN Some(n) ELSE None

FrameIndex(t, g) ==
  LET half == Split(t, g)
  IN IF half = None THEN None
     ELSE IF half[1].upper + half[1].offset >= Limit THEN None
     ELSE Indexed(half[1].upper + half[1].offset - Bias(t))
FrameCount(t, g) == LET n == FrameIndex(t, g) IN IF n = None THEN None ELSE Indexed(n[1] + 1)
KeyframeIndex(t, g) ==
  LET half == Split(t, g) IN IF half = None THEN None ELSE Indexed(half[1].upper - Bias(t))
IsKeyframe(t, g) == LET half == Split(t, g) IN IF half = None THEN FALSE ELSE half[1].offset = 0

\* The low bits of a shift that went past the top.
Shifted(n, shift) ==
  LET v == (n * 2 ^ shift) % (2 * Limit) IN IF v >= Limit THEN v - 2 * Limit ELSE v

\* A definition marked mutant is a plausible slip in the operator below it.
PackRoomy(t, frame, keyframe) ==   \* mutant: the offset may need one bit more than it has
  LET offset == frame - keyframe
      upper  == keyframe + Bias(t)
      v      == Shifted(upper, t.shift)
  IN IF frame < 0 \/ keyframe < 0 \/ keyframe > frame \/ offset > MaxOffset(t) + 1 THEN None
     ELSE IF t.shift = 0 THEN Some(upper + offset)
     ELSE IF t.shift >= TopBit \/ v < 0 \/ v \div 2 ^ t.shift # upper THEN None
     ELSE Some(upper * 2 ^ t.shift + offset)
Pack(t, frame, keyframe) ==
  LET offset == frame - keyframe
      upper  == keyframe + Bias(t)
      v      == Shifted(upper, t.shift)
  IN IF frame < 0 \/ keyframe < 0 \/ keyframe > frame \/ offset > MaxOffset(t) THEN None
     ELSE IF t.shift = 0 THEN Some(upper + offset)
     ELSE IF t.shift >= TopBit \/ v < 0 \/ v \div 2 ^ t.shift # upper THEN None
     ELSE Some(v + offset)

\* FisBone::extract_granules, of a bone with the stream's shift.
ExtractGranules(shift, g) ==
  IF g < 0 \/ shift = 0 THEN g
  ELSE IF shift >= TopBit THEN 0
  ELSE LET sum == (g \div 2 ^ shift) + (g % 2 ^ shift)
       IN IF sum >= Limit THEN Limit - 1 ELSE sum
=============================================================================
