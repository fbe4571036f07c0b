---------------------------- MODULE SequenceLemmas ----------------------------
(***************************************************************************)
(* Facts the proofs share: a set of naturals has a least member, and what  *)
(* FlattenSeq of the community modules is on a sequence grown by one part. *)
(* Its recursion has no equation to cite: Runs(f, ss, n) says that f runs  *)
(* it up to n, and such a function exists for every n by the least n for   *)
(* which there would be none.                                              *)
(***************************************************************************)
EXTENDS Integers, Sequences, SequencesExt, FiniteSets, FiniteSetTheorems, WellFoundedInduction, TLAPS

\* A set of naturals that is not empty has a least element: the intervals
\* from 0 to its elements are well-founded by strict inclusion.
LEMMA LeastNatural ==
  ASSUME NEW T \in SUBSET Nat, T # {}
  PROVE  \E x \in T : \A y \in T : x <= y
<1>1. PICK t \in T : TRUE
  OBVIOUS
<1> DEFINE F == {0 .. x : x \in {y \in T : y <= t}}
<1>2. IsFiniteSet(0 .. t)
  BY FS_Interval
<1>3. F \subseteq SUBSET (0 .. t) /\ F # {}
  BY <1>1
<1>4. PICK A \in F : \A B \in F : ~(<<B, A>> \in StrictSubsetOrdering(0 .. t))
  <2> HIDE DEF F
  <2>1. IsWellFoundedOn(StrictSubsetOrdering(0 .. t), FiniteSubsetsOf(0 .. t))
    BY FS_StrictSubsetOrderingWellFounded
  <2>2. IsWellFoundedOn(StrictSubsetOrdering(0 .. t), SUBSET (0 .. t))
    BY <1>2, <2>1, FS_FiniteSubsetsOfFinite
  <2>3. QED BY <1>3, <2>2, WFMin
<1>5. PICK x \in T : x <= t /\ A = 0 .. x
  BY <1>4
<1>6. ASSUME NEW y \in T, y < x PROVE FALSE
  <2>1. 0 .. y \in F
    BY <1>5, <1>6
  <2>2. 0 .. y \subseteq A /\ A # 0 .. y /\ 0 .. y \in SUBSET (0 .. t) /\ A \in SUBSET (0 .. t)
    <3>1. x \in A /\ x \notin 0 .. y
      BY <1>5, <1>6
    <3>2. QED BY <3>1, <1>5, <1>6
  <2>3. <<0 .. y, A>> \in StrictSubsetOrdering(0 .. t)
    BY <2>2 DEF StrictSubsetOrdering
  <2>4. QED BY <1>4, <2>1, <2>3
<1>7. QED BY <1>6

\* f runs the recursion of FlattenSeq up to n.
Runs(f, ss, n) ==
  f = [i \in 1 .. n |-> IF i = 1 THEN ss[i] ELSE f[i - 1] \o ss[i]]

LEMMA RunsExist ==
  ASSUME NEW ss, NEW n \in Nat
  PROVE  \E f : Runs(f, ss, n)
<1> DEFINE T == {k \in Nat : ~\E f : Runs(f, ss, k)}
<1>1. SUFFICES ASSUME T # {} PROVE FALSE
  OBVIOUS
<1>2. PICK k \in T : \A m \in T : k <= m
  BY <1>1, LeastNatural
<1>3. CASE k = 0
  <2> DEFINE e == [i \in 1 .. 0 |-> IF i = 1 THEN ss[i] ELSE ss[i]]
  <2>1. Runs(e, ss, 0)
    BY DEF Runs
  <2>2. QED BY <1>2, <1>3, <2>1
<1>4. CASE k # 0
  <2>1. k \in Nat /\ k - 1 \in Nat /\ k - 1 \notin T
    BY <1>2, <1>4
  <2>2. PICK f : Runs(f, ss, k - 1)
    BY <2>1
  <2> DEFINE g == [i \in 1 .. k |-> IF i = k THEN (IF k = 1 THEN ss[k] ELSE f[k - 1] \o ss[k]) ELSE f[i]]
  <2>3. \A i \in 1 .. k : g[i] = IF i = 1 THEN ss[i] ELSE g[i - 1] \o ss[i]
    <3> SUFFICES ASSUME NEW i \in 1 .. k
                 PROVE  g[i] = IF i = 1 THEN ss[i] ELSE g[i - 1] \o ss[i]
      OBVIOUS
    <3>1. CASE i = k
      <4>1. CASE i = 1
        BY <3>1, <4>1
      <4>2. CASE i # 1
        <5>1. i - 1 \in 1 .. k /\ i - 1 # k
          BY <3>1, <4>2, <2>1
        <5>2. g[i - 1] = f[i - 1]
          BY <5>1
        <5>3. QED BY <5>2, <3>1, <4>2
      <4>3. QED BY <4>1, <4>2
    <3>2. CASE i # k
      <4>1. i \in 1 .. k - 1
        BY <3>2, <2>1
      <4>2. f[i] = IF i = 1 THEN ss[i] ELSE f[i - 1] \o ss[i]
        BY <4>1, <2>2 DEF Runs
      <4>3. g[i] = f[i] /\ (i # 1 => g[i - 1] = f[i - 1])
        BY <4>1, <2>1, <3>2
      <4>4. QED BY <4>2, <4>3
    <3>3. QED BY <3>1, <3>2
  <2>4. Runs(g, ss, k)
    <3> HIDE DEF g
    <3>1. g = [i \in 1 .. k |-> g[i]]
      BY DEF g
    <3>2. QED BY <3>1, <2>3 DEF Runs
  <2>5. QED BY <2>4, <1>2
<1>5. QED BY <1>3, <1>4

\* What FlattenSeq is.
LEMMA FlattenRuns ==
  ASSUME NEW ss, Len(ss) \in Nat \ {0}
  PROVE  \E f : Runs(f, ss, Len(ss)) /\ FlattenSeq(ss) = f[Len(ss)]
<1> DEFINE f == CHOOSE flatten : flatten = [i \in 1 .. Len(ss) |->
                   IF i = 1 THEN ss[i] ELSE flatten[i - 1] \o ss[i]]
<1>1. Runs(f, ss, Len(ss))
  <2>1. PICK g : Runs(g, ss, Len(ss))
    BY RunsExist
  <2>2. QED BY <2>1, Zenon DEF Runs
<1>2. FlattenSeq(ss) = f[Len(ss)]
  BY Zenon DEF FlattenSeq
<1>3. QED BY <1>1, <1>2, Zenon

\* What has been run of two sequences agrees as long as they do.
LEMMA RunsAgree ==
  ASSUME NEW ss, NEW tt, NEW n \in Nat, NEW m \in Nat, NEW f, NEW g,
         Runs(f, ss, n), Runs(g, tt, m), n <= m, \A i \in 1 .. n : ss[i] = tt[i]
  PROVE  \A i \in 1 .. n : f[i] = g[i]
<1> DEFINE T == {i \in 1 .. n : f[i] # g[i]}
<1>1. SUFFICES ASSUME T # {} PROVE FALSE
  OBVIOUS
<1>2. PICK k \in T : \A i \in T : k <= i
  <2>1. T \in SUBSET Nat
    OBVIOUS
  <2>2. QED BY <1>1, <2>1, LeastNatural
<1>3. k \in 1 .. n /\ k \in 1 .. m /\ f[k] # g[k]
  BY <1>2
<1>4. f[k] = IF k = 1 THEN ss[k] ELSE f[k - 1] \o ss[k]
  BY <1>3 DEF Runs
<1>5. g[k] = IF k = 1 THEN tt[k] ELSE g[k - 1] \o tt[k]
  BY <1>3 DEF Runs
<1>6. k # 1 => f[k - 1] = g[k - 1]
  <2>1. k # 1 => k - 1 \in 1 .. n /\ k - 1 \notin T
    BY <1>2, <1>3
  <2>2. QED BY <2>1
<1>7. QED BY <1>3, <1>4, <1>5, <1>6

LEMMA RunsType ==
  ASSUME NEW S, NEW ss \in Seq(Seq(S)), NEW f, Runs(f, ss, Len(ss))
  PROVE  \A i \in 1 .. Len(ss) : f[i] \in Seq(S)
<1> DEFINE T == {i \in 1 .. Len(ss) : f[i] \notin Seq(S)}
<1>1. SUFFICES ASSUME T # {} PROVE FALSE
  OBVIOUS
<1>2. PICK k \in T : \A i \in T : k <= i
  <2>1. T \in SUBSET Nat
    OBVIOUS
  <2>2. QED BY <1>1, <2>1, LeastNatural
<1>3. k \in 1 .. Len(ss) /\ f[k] \notin Seq(S) /\ ss[k] \in Seq(S)
  BY <1>2
<1>4. f[k] = IF k = 1 THEN ss[k] ELSE f[k - 1] \o ss[k]
  BY <1>3 DEF Runs
<1>5. k # 1 => f[k - 1] \in Seq(S)
  <2>1. k # 1 => k - 1 \in 1 .. Len(ss) /\ k - 1 \notin T
    BY <1>2, <1>3
  <2>2. QED BY <2>1
<1>6. QED BY <1>3, <1>4, <1>5

LEMMA FlattenType ==
  ASSUME NEW S, NEW ss \in Seq(Seq(S))
  PROVE  FlattenSeq(ss) \in Seq(S)
<1>1. CASE Len(ss) = 0
  <2>1. FlattenSeq(ss) = ss
    BY <1>1, Zenon DEF FlattenSeq
  <2>2. ss = <<>>
    BY <1>1
  <2>3. QED BY <2>1, <2>2
<1>2. CASE Len(ss) # 0
  <2>1. PICK f : Runs(f, ss, Len(ss)) /\ FlattenSeq(ss) = f[Len(ss)]
    BY <1>2, FlattenRuns
  <2>2. \A i \in 1 .. Len(ss) : f[i] \in Seq(S)
    BY <2>1, RunsType
  <2>3. QED BY <1>2, <2>1, <2>2
<1>3. QED BY <1>1, <1>2

OneTurn(g, tt, n) == g[n] = IF n = 1 THEN tt[n] ELSE g[n - 1] \o tt[n]
LEMMA RunsLast ==
  ASSUME NEW tt, NEW n \in Nat \ {0}, NEW g, Runs(g, tt, n)
  PROVE  OneTurn(g, tt, n)
<1>1. n \in 1 .. n
  OBVIOUS
<1>2. QED BY <1>1 DEF Runs, OneTurn

OneMorePart(f, n, g, tt, m) == g[m] = f[n] \o tt[m]

LEMMA RunsExtend ==
  ASSUME NEW ss, NEW tt, NEW n \in Nat \ {0}, NEW m \in Nat, m = n + 1, NEW f, NEW g,
         Runs(f, ss, n), Runs(g, tt, m), \A i \in 1 .. n : ss[i] = tt[i]
  PROVE  OneMorePart(f, n, g, tt, m)
<1>1. n \in Nat /\ m \in Nat \ {0} /\ n <= m /\ n \in 1 .. n /\ m # 1 /\ m - 1 = n
  OBVIOUS
<1>2. \A i \in 1 .. n : f[i] = g[i]
  BY <1>1, RunsAgree
<1>3. OneTurn(g, tt, m)
  BY <1>1, RunsLast
<1>4. QED BY <1>1, <1>2, <1>3 DEF OneTurn, OneMorePart

\* FlattenSeq puts a part more at the end of what it has put together.
LEMMA FlattenAppend ==
  ASSUME NEW S, NEW ss \in Seq(Seq(S)), NEW t \in Seq(S)
  PROVE  FlattenSeq(Append(ss, t)) = FlattenSeq(ss) \o t
<1> DEFINE tt == Append(ss, t)
<1>1. /\ Len(ss) \in Nat /\ Len(tt) = Len(ss) + 1 /\ tt[Len(ss) + 1] = t
      /\ \A i \in 1 .. Len(ss) : ss[i] = tt[i]
  OBVIOUS
<1>2. PICK g : Runs(g, tt, Len(tt)) /\ FlattenSeq(tt) = g[Len(tt)]
  <2> HIDE DEF tt
  <2>1. Len(tt) \in Nat \ {0}
    BY <1>1
  <2>2. QED BY <2>1, FlattenRuns
<1>3. CASE Len(ss) = 0
  <2>1. ss = <<>> /\ <<>> \o t = t /\ tt = <<t>>
    BY <1>3
  <2>2. FlattenSeq(ss) = ss
    BY <1>3, Zenon DEF FlattenSeq
  <2>3. g[Len(tt)] = t
    <3> HIDE DEF tt
    <3>1. Len(tt) = 1 /\ tt[1] = t
      BY <1>1, <1>3
    <3>2. OneTurn(g, tt, 1)
      BY <1>2, <3>1, RunsLast
    <3>3. QED BY <3>1, <3>2 DEF OneTurn
  <2>4. QED BY <1>2, <2>1, <2>2, <2>3
<1>4. CASE Len(ss) # 0
  <2>1. PICK f : Runs(f, ss, Len(ss)) /\ FlattenSeq(ss) = f[Len(ss)]
    BY <1>1, <1>4, FlattenRuns
  <2> HIDE DEF tt
  <2>2. PICK n : n = Len(ss)
    OBVIOUS
  <2>3. PICK m : m = Len(tt)
    OBVIOUS
  <2>4. /\ n \in Nat \ {0} /\ m \in Nat /\ m = n + 1
        /\ Runs(f, ss, n) /\ Runs(g, tt, m) /\ \A i \in 1 .. n : ss[i] = tt[i]
    BY <1>1, <1>2, <1>4, <2>1, <2>2, <2>3
  <2>5. OneMorePart(f, n, g, tt, m)
    BY <2>4, RunsExtend
  <2>6. FlattenSeq(tt) = FlattenSeq(ss) \o t
    BY <1>1, <1>2, <2>1, <2>2, <2>3, <2>4, <2>5 DEF OneMorePart
  <2>7. QED BY <2>6 DEF tt
<1>5. QED BY <1>3, <1>4
=============================================================================
