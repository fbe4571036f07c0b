-------------------------- MODULE OggValidateProofs --------------------------
(***************************************************************************)
(* Proofs about OggValidate, for every input, space of sequence numbers    *)
(* and cap on issues: what each operator returns, the types of the walk,   *)
(* and that a report is clean exactly for an input that keeps every rule   *)
(* of RFC 3533.  The rules of a whole file are those of its pages, each    *)
(* against the pages before it, and that every bitstream ends; the models  *)
(* the walk keeps are what the pages passed say.                           *)
(***************************************************************************)
EXTENDS OggValidate, SequenceLemmas, SequenceTheorems

-----------------------------------------------------------------------------
(* Numbers.                                                                *)

\* Sequence numbers wrap: q is one past the number of c exactly when it is
\* the number of c + 1.
LEMMA OnePast ==
  ASSUME NEW S \in Nat \ {0, 1}, NEW c \in Nat, NEW q \in 0 .. S - 1
  PROVE  (q - (c % S)) % S = 1 <=> q = (c + 1) % S
<1> DEFINE r == c % S
<1>1. r \in 0 .. S - 1 /\ c = S * (c \div S) + r /\ c \div S \in Int
  OBVIOUS
<1>2. (c + 1) % S = IF r = S - 1 THEN 0 ELSE r + 1
  <2>1. CASE r = S - 1
    <3>1. c + 1 = S * ((c \div S) + 1) + 0
      BY <1>1, <2>1
    <3>2. (S * ((c \div S) + 1) + 0) % S = 0
      BY <1>1
    <3>3. QED BY <3>1, <3>2, <2>1
  <2>2. CASE r # S - 1
    <3>1. c + 1 = S * (c \div S) + (r + 1)
      BY <1>1, <2>2
    <3>2. \A d \in Int : \A e \in 0 .. S - 1 : (S * d + e) % S = e
      OBVIOUS
    <3>3. r + 1 \in 0 .. S - 1
      BY <1>1, <2>2
    <3>4. (S * (c \div S) + (r + 1)) % S = r + 1
      BY <1>1, <3>2, <3>3
    <3>5. QED BY <3>1, <3>4, <2>2
  <2>3. QED BY <2>1, <2>2
<1> HIDE DEF r
<1>3. (q - r) % S = IF q >= r THEN q - r ELSE q - r + S
  <2>1. CASE q >= r
    <3>1. q - r = S * 0 + (q - r) /\ q - r \in 0 .. S - 1
      BY <1>1, <2>1
    <3>2. (S * 0 + (q - r)) % S = q - r
      BY <3>1
    <3>3. QED BY <3>1, <3>2, <2>1
  <2>2. CASE q < r
    <3>1. q - r = S * (-1) + (q - r + S) /\ q - r + S \in 0 .. S - 1
      BY <1>1, <2>2
    <3>2. (S * (-1) + (q - r + S)) % S = q - r + S
      BY <3>1
    <3>3. QED BY <3>1, <3>2, <2>2, <1>1
  <2>3. QED BY <2>1, <2>2, <1>1
<1>4. QED BY <1>1, <1>2, <1>3 DEF r

-----------------------------------------------------------------------------
(* Pages, models and the report.                                           *)

RuleName == {"CapturePattern", "Truncated", "CrcMismatch", "Version", "ContinuedBos",
             "SequenceStart", "DuplicateBos", "SerialReuse", "BosNotContiguous", "MissingBos",
             "PageAfterEos", "SequenceGap", "SequenceRegression", "ContinuedWithoutPartial",
             "PartialNotContinued", "SpuriousGranule", "MissingGranule", "GranuleRegression",
             "EosMidPacket", "MissingEos"}
Issue  == [rule: RuleName, at: Nat, serial: SUBSET Nat]
Report == [pages: Nat, streams: Nat, links: Nat, junk: Nat, issues: Seq(Issue),
           suppressed: Nat, complete: BOOLEAN]
Capped(r) == Len(r.issues) <= MaxIssues /\ (r.suppressed > 0 => Len(r.issues) = MaxIssues)
TotalOf(r) == Len(r.issues) + r.suppressed

LEMMA CompletedType ==
  ASSUME NEW page \in Page
  PROVE  /\ Completed(page) \in Nat
         /\ Completed(page) > 0 => page.laces # <<>>
<1> DEFINE S == {i \in DOMAIN page.laces : ~page.laces[i]}
<1>1. page.laces \in Seq(BOOLEAN)
  BY DEF Page
<1>2. IsFiniteSet(1 .. Len(page.laces)) /\ DOMAIN page.laces = 1 .. Len(page.laces)
  BY <1>1, FS_Interval
<1>3. IsFiniteSet(S)
  BY <1>2, FS_Subset
<1>4. Cardinality(S) \in Nat /\ (S = {} => Cardinality(S) = 0)
  BY <1>3, FS_CardinalityType, FS_EmptySet
<1>5. page.laces = <<>> => S = {}
  BY <1>2
<1>6. QED BY <1>4, <1>5 DEF Completed

LEMMA EndsOpenType == ASSUME NEW page \in Page PROVE EndsOpen(page) \in BOOLEAN
BY DEF EndsOpen

LEMMA FreshType == ASSUME NEW page \in Page PROVE Fresh(page) \in StreamModel
BY DEF Fresh, StreamModel, Page

LEMMA RebaselinedFields ==
  ASSUME NEW page \in Page, NEW model \in StreamModel
  PROVE  LET m == Rebaselined(page, model)
         IN /\ m \in StreamModel
            /\ m.last_seq = page.seq
            /\ m.open_packet = EndsOpen(page)
            /\ m.eos <=> model.eos \/ page.eos
            /\ m.last_granule = IF Completed(page) > 0 /\ page.granule # -1 THEN page.granule
                                ELSE model.last_granule
            /\ m.tainted = model.tainted /\ m.after_eos_reported = model.after_eos_reported
<1> DEFINE o == EndsOpen(page)
           e == model.eos \/ page.eos
           g == IF Completed(page) > 0 /\ page.granule # -1 THEN page.granule
                ELSE model.last_granule
<1>1. o \in BOOLEAN /\ e \in BOOLEAN
  BY EndsOpenType, Zenon
<1>2. g \in Int /\ page.seq \in 0 .. SeqSpace - 1
  BY DEF Page, StreamModel
<1>3. Rebaselined(page, model) =
        [model EXCEPT !.last_seq = page.seq, !.open_packet = o, !.eos = e, !.last_granule = g]
  BY Zenon DEF Rebaselined
<1> HIDE DEF o, e, g
<1>4. PICK m : m = [model EXCEPT !.last_seq = page.seq, !.open_packet = o, !.eos = e, !.last_granule = g]
  OBVIOUS
<1>5. /\ m \in StreamModel /\ m.last_seq = page.seq /\ m.open_packet = o /\ m.eos = e
      /\ m.last_granule = g
      /\ m.tainted = model.tainted /\ m.after_eos_reported = model.after_eos_reported
  BY <1>1, <1>2, <1>4 DEF StreamModel
<1>6. QED BY <1>3, <1>4, <1>5, Zenon DEF o, e, g

LEMMA InsertFacts ==
  ASSUME NEW map, NEW key, NEW value
  PROVE  /\ DOMAIN Insert(map, key, value) = DOMAIN map \cup {key}
         /\ Insert(map, key, value)[key] = value
         /\ \A k \in DOMAIN map : k # key => Insert(map, key, value)[k] = map[k]
BY DEF Insert

LEMMA WhenFacts ==
  ASSUME NEW c, NEW rule \in RuleName
  PROVE  /\ When(c, rule) \in Seq(RuleName)
         /\ Len(When(c, rule)) = IF c THEN 1 ELSE 0
BY DEF When

LEMMA IssuesFacts ==
  ASSUME NEW rules \in Seq(RuleName), NEW at \in Nat, NEW serials \in SUBSET Nat
  PROVE  Issues(rules, at, serials) \in Seq(Issue) /\ Len(Issues(rules, at, serials)) = Len(rules)
<1>1. \A i \in 1 .. Len(rules) : rules[i] \in RuleName
  BY ElementOfSeq
<1>2. DOMAIN rules = 1 .. Len(rules) /\ Len(rules) \in Nat
  OBVIOUS
<1>3. QED BY <1>1, <1>2 DEF Issues, Issue

\* push keeps the cap and counts every issue, kept or suppressed.
LEMMA PushFacts ==
  ASSUME NEW r \in Report, Capped(r), NEW issues \in Seq(Issue)
  PROVE  LET p == Push(r, issues)
         IN /\ p \in Report /\ Capped(p)
            /\ TotalOf(p) = TotalOf(r) + Len(issues)
            /\ p.pages = r.pages /\ p.streams = r.streams /\ p.links = r.links
            /\ p.junk = r.junk /\ p.complete = r.complete
<1> DEFINE all  == r.issues \o issues
           kept == IF Len(all) < MaxIssues THEN Len(all) ELSE MaxIssues
           q    == SubSeq(all, 1, kept)
           n    == r.suppressed + Len(all) - kept
<1>1. r.issues \in Seq(Issue) /\ r.suppressed \in Nat /\ Len(r.issues) \in Nat /\ Len(issues) \in Nat
  BY DEF Report
<1>2. all \in Seq(Issue) /\ Len(all) = Len(r.issues) + Len(issues)
  BY <1>1, ConcatProperties
<1>3. kept \in Nat /\ kept <= Len(all) /\ kept <= MaxIssues
  BY <1>1, <1>2, ValidateAssumption
<1>4. q \in Seq(Issue) /\ Len(q) = kept
  <2> HIDE DEF all, kept
  <2>1. \A i \in 1 .. kept : all[i] \in Issue
    BY <1>2, <1>3, ElementOfSeq
  <2>2. QED BY <1>2, <1>3, <2>1, SubSeqProperties
<1>5. n \in Nat
  BY <1>1, <1>2, <1>3
<1>6. Push(r, issues) = [r EXCEPT !.issues = q, !.suppressed = n]
  BY DEF Push
<1>7. n > 0 => kept = MaxIssues
  BY <1>1, <1>2, <1>3 DEF Capped
<1>8. kept + n = Len(r.issues) + r.suppressed + Len(issues)
  BY <1>1, <1>2, <1>3
<1> HIDE DEF q, n, kept
<1>9. QED BY <1>3, <1>4, <1>5, <1>6, <1>7, <1>8 DEF Report, Capped, TotalOf

\* Two lists of rules, one after the other, are as long as both.
LEMMA RulesConcat ==
  ASSUME NEW s \in Seq(RuleName), NEW t \in Seq(RuleName)
  PROVE  s \o t \in Seq(RuleName) /\ Len(s \o t) = Len(s) + Len(t) /\ Len(s) \in Nat /\ Len(t) \in Nat
BY ConcatProperties

LEMMA FinishRulesFacts ==
  ASSUME NEW page \in Page, NEW model \in StreamModel
  PROVE  /\ FinishRules(page, model) \in Seq(RuleName)
         /\ Len(FinishRules(page, model)) = 0 <=>
              /\ page.laces # <<>> => (page.granule = -1 <=> Completed(page) = 0)
              /\ ~GranuleFell(page, model)
              /\ ~(page.eos /\ EndsOpen(page))
<1> DEFINE c1 == page.laces # <<>> /\ Completed(page) = 0 /\ page.granule # -1
           c2 == Completed(page) > 0 /\ page.granule = -1
           c3 == GranuleFell(page, model)
           c4 == page.eos /\ EndsOpen(page)
           w1 == When(c1, "SpuriousGranule")
           w2 == When(c2, "MissingGranule")
           w3 == When(c3, "GranuleRegression")
           w4 == When(c4, "EosMidPacket")
<1>1. FinishRules(page, model) = w1 \o w2 \o w3 \o w4
  BY Zenon DEF FinishRules
<1>2. c1 \/ c2 <=> ~(page.laces # <<>> => (page.granule = -1 <=> Completed(page) = 0))
  BY CompletedType
<1> HIDE DEF c1, c2, c3, c4
<1>3. /\ w1 \in Seq(RuleName) /\ Len(w1) = IF c1 THEN 1 ELSE 0
      /\ w2 \in Seq(RuleName) /\ Len(w2) = IF c2 THEN 1 ELSE 0
      /\ w3 \in Seq(RuleName) /\ Len(w3) = IF c3 THEN 1 ELSE 0
      /\ w4 \in Seq(RuleName) /\ Len(w4) = IF c4 THEN 1 ELSE 0
  <2>1. /\ "SpuriousGranule" \in RuleName /\ "MissingGranule" \in RuleName
        /\ "GranuleRegression" \in RuleName /\ "EosMidPacket" \in RuleName
    BY DEF RuleName
  <2>2. QED BY <2>1, WhenFacts
<1> HIDE DEF w1, w2, w3, w4
<1>4. /\ w1 \o w2 \o w3 \o w4 \in Seq(RuleName)
      /\ Len(w1 \o w2 \o w3 \o w4) = Len(w1) + Len(w2) + Len(w3) + Len(w4)
  <2>1. w1 \o w2 \in Seq(RuleName) /\ Len(w1 \o w2) = Len(w1) + Len(w2)
    BY <1>3, RulesConcat
  <2>2. w1 \o w2 \o w3 \in Seq(RuleName) /\ Len(w1 \o w2 \o w3) = Len(w1 \o w2) + Len(w3)
    BY <1>3, <2>1, RulesConcat
  <2>3. /\ w1 \o w2 \o w3 \o w4 \in Seq(RuleName)
        /\ Len(w1 \o w2 \o w3 \o w4) = Len(w1 \o w2 \o w3) + Len(w4)
    BY <1>3, <2>2, RulesConcat
  <2>4. QED BY <2>1, <2>2, <2>3
<1>5. Len(w1 \o w2 \o w3 \o w4) = 0 <=> ~c1 /\ ~c2 /\ ~c3 /\ ~c4
  BY <1>3, <1>4
<1>6. QED BY <1>1, <1>2, <1>4, <1>5 DEF c3, c4

-----------------------------------------------------------------------------
(* Types.                                                                  *)

LiveOK(models) ==
  /\ DOMAIN models \in SUBSET Nat /\ IsFiniteSet(DOMAIN models)
  /\ \A serial \in DOMAIN models : models[serial] \in StreamModel

\* The pages read among the first n of the input.
ReadUpTo(n) == {k \in 1 .. n : data[k].state = "ok"}

WalkOK == data \in Seq(Item) /\ pos \in 1 .. Len(data) + 1 /\ link_has_data \in BOOLEAN
ReportOK == report \in Report /\ Capped(report) /\ report.pages = Cardinality(ReadUpTo(pos - 1))
TypeInv == WalkOK /\ LiveOK(live) /\ ReportOK

LEMMA HereType ==
  ASSUME data \in Seq(Item), pos \in 1 .. Len(data) + 1, pos <= Len(data)
  PROVE  /\ pos \in 1 .. Len(data) /\ Len(data) \in Nat
         /\ Here \in Item /\ Here.page \in Page /\ Here.claims \in Nat /\ Here.page.serial \in Nat
<1>1. pos \in 1 .. Len(data) /\ Len(data) \in Nat
  OBVIOUS
<1>2. Here \in Item
  BY <1>1, ElementOfSeq DEF Here
<1>3. QED BY <1>1, <1>2 DEF Item, Page

\* find_next_valid_page skips pages that are not valid and nothing else.
LEMMA NextValidFacts ==
  ASSUME data \in Seq(Item), pos \in 1 .. Len(data)
  PROVE  /\ NextValid \in pos + 1 .. Len(data) + 1
         /\ \A k \in pos + 1 .. NextValid - 1 : ~Valid(k)
<1> DEFINE after == {k \in pos + 1 .. Len(data) : Valid(k)}
<1>1. Len(data) \in Nat
  OBVIOUS
<1>2. CASE after = {}
  <2>1. NextValid = Len(data) + 1
    BY <1>2 DEF NextValid
  <2>2. QED BY <1>1, <1>2, <2>1
<1>3. CASE after # {}
  <2>1. after \in SUBSET Nat
    BY <1>1
  <2>2. \E k \in after : \A j \in after : k <= j
    BY <1>3, <2>1, LeastNatural
  <2>3. NextValid = CHOOSE k \in after : \A j \in after : k <= j
    BY <1>3 DEF NextValid
  <2>4. NextValid \in after /\ \A j \in after : NextValid <= j
    BY <2>2, <2>3
  <2>5. QED BY <1>1, <2>4
<1>4. QED BY <1>2, <1>3

\* Skipped pages are not read, the next one may be.
LEMMA ReadSkip ==
  ASSUME data \in Seq(Item), NEW n \in Nat, NEW m \in Nat, n <= m,
         \A k \in n + 1 .. m : data[k].state # "ok"
  PROVE  ReadUpTo(m) = ReadUpTo(n)
BY DEF ReadUpTo

LEMMA ReadOne ==
  ASSUME NEW n \in Nat, data[n + 1].state = "ok"
  PROVE  Cardinality(ReadUpTo(n + 1)) = Cardinality(ReadUpTo(n)) + 1
<1>1. ReadUpTo(n + 1) = ReadUpTo(n) \cup {n + 1} /\ n + 1 \notin ReadUpTo(n)
  BY DEF ReadUpTo
<1>2. IsFiniteSet(1 .. n) /\ ReadUpTo(n) \subseteq 1 .. n
  BY FS_Interval DEF ReadUpTo
<1>3. QED BY <1>1, <1>2, FS_Subset, FS_AddElement

\* What an accepted page does to the report, whatever it breaks.
LEMMA AcceptFacts ==
  ASSUME WalkOK, ReportOK, At("ok"), NEW rules \in Seq(RuleName), NEW r \in Report,
         r.issues = report.issues, r.suppressed = report.suppressed, r.pages = report.pages,
         r.junk = report.junk, r.complete = report.complete, Accept(rules, r)
  PROVE  /\ UNCHANGED <<file, data>> /\ pos' = pos + 1 /\ pos' \in 1 .. Len(data') + 1
         /\ ReportOK'
         /\ TotalOf(report') = TotalOf(report) + Len(rules)
         /\ report'.pages = report.pages + 1 /\ report'.streams = r.streams
         /\ report'.links = IF report.pages = 0 THEN 1 ELSE r.links
         /\ report'.junk = report.junk /\ report'.complete = report.complete
<1> DEFINE l == IF report.pages = 0 THEN 1 ELSE r.links
           i == Issues(rules, pos, {Here.page.serial})
<1>1. pos \in 1 .. Len(data) /\ Here.page.serial \in Nat /\ Len(data) \in Nat
  BY HereType DEF WalkOK, At
<1>2. PICK q : q = [r EXCEPT !.pages = r.pages + 1, !.links = l]
  OBVIOUS
<1>3. i \in Seq(Issue) /\ Len(i) = Len(rules)
  <2>1. {Here.page.serial} \in SUBSET Nat /\ pos \in Nat
    BY <1>1
  <2>2. QED BY <2>1, IssuesFacts
<1>4. l \in Nat /\ r.pages + 1 \in Nat
  BY DEF Report
<1>13. report' = Push(q, i)
  BY <1>2 DEF Accept
<1> HIDE DEF l, i
<1>5. /\ q \in Report /\ q.pages = report.pages + 1 /\ q.links = l /\ q.streams = r.streams
      /\ q.junk = report.junk /\ q.complete = report.complete
      /\ q.issues = report.issues /\ q.suppressed = report.suppressed
  <2>1. q \in Report
    BY <1>2, <1>4 DEF Report
  <2>2. /\ q.pages = r.pages + 1 /\ q.links = l /\ q.streams = r.streams /\ q.junk = r.junk
        /\ q.complete = r.complete /\ q.issues = r.issues /\ q.suppressed = r.suppressed
    BY <1>2 DEF Report
  <2>3. QED BY <2>1, <2>2
<1>6. Capped(q) /\ TotalOf(q) = TotalOf(report)
  BY <1>5 DEF ReportOK, Capped, TotalOf
<1>7. /\ report' \in Report /\ Capped(report') /\ TotalOf(report') = TotalOf(report) + Len(rules)
      /\ report'.pages = report.pages + 1 /\ report'.streams = r.streams /\ report'.links = l
      /\ report'.junk = report.junk /\ report'.complete = report.complete
  BY <1>13, <1>3, <1>5, <1>6, PushFacts
<1>8. UNCHANGED <<file, data>> /\ pos' = pos + 1
  BY DEF Accept
<1>9. pos' \in 1 .. Len(data') + 1
  BY <1>1, <1>8
<1>10. Capped(report)'
  BY <1>7 DEF Capped
<1>11. report'.pages = Cardinality(ReadUpTo(pos - 1))'
  <2>1. data[(pos - 1) + 1].state = "ok" /\ pos - 1 \in Nat /\ (pos - 1) + 1 = pos /\ pos' - 1 = pos
    BY <1>1, <1>8 DEF At, Here
  <2>2. Cardinality(ReadUpTo(pos)) = Cardinality(ReadUpTo(pos - 1)) + 1
    BY <2>1, ReadOne
  <2>3. ReadUpTo(pos - 1)' = ReadUpTo(pos)
    BY <1>8, <2>1 DEF ReadUpTo
  <2>4. QED BY <1>7, <2>2, <2>3 DEF ReportOK
<1>12. QED BY <1>7, <1>8, <1>9, <1>10, <1>11, Zenon DEF ReportOK, l

\* What a page that is not read does to the report.
LEMMA SkipFacts ==
  ASSUME WalkOK, ReportOK, pos <= Len(data), Here.state # "ok",
         NEW issues \in Seq(Issue), NEW next \in pos + 1 .. Len(data) + 1, NEW junk \in Nat,
         \A k \in pos + 1 .. next - 1 : ~Valid(k),
         data' = data, pos' = next,
         report' = [Push(report, issues) EXCEPT !.junk = junk]
  PROVE  /\ pos' \in 1 .. Len(data') + 1 /\ ReportOK'
         /\ TotalOf(report') = TotalOf(report) + Len(issues) /\ report'.complete = report.complete
<1>1. pos \in 1 .. Len(data) /\ Len(data) \in Nat
  BY DEF WalkOK
<1>2. PICK p : p = Push(report, issues)
  OBVIOUS
<1>3. /\ p \in Report /\ Capped(p) /\ TotalOf(p) = TotalOf(report) + Len(issues)
      /\ p.pages = report.pages /\ p.complete = report.complete
  BY <1>2, PushFacts DEF ReportOK
<1>4. PICK q : q = [p EXCEPT !.junk = junk]
  OBVIOUS
<1>5. /\ q \in Report /\ q.pages = p.pages /\ q.complete = p.complete
      /\ q.issues = p.issues /\ q.suppressed = p.suppressed
  BY <1>3, <1>4 DEF Report
<1>6. report' = q
  BY <1>2, <1>4
<1>7. Capped(q) /\ TotalOf(q) = TotalOf(p)
  BY <1>3, <1>5 DEF Capped, TotalOf
<1>8. Capped(report)'
  BY <1>6, <1>7 DEF Capped
<1>9. ReadUpTo(pos - 1)' = ReadUpTo(pos - 1)
  <2>1. \A k \in (pos - 1) + 1 .. next - 1 : data[k].state # "ok"
    <3>1. \A k \in pos + 1 .. next - 1 : data[k].state # "ok"
      BY <1>1 DEF Valid
    <3>2. data[pos].state # "ok"
      BY DEF Here
    <3>3. \A k \in (pos - 1) + 1 .. next - 1 : k = pos \/ k \in pos + 1 .. next - 1
      BY <1>1
    <3>4. QED BY <3>1, <3>2, <3>3
  <2>2. ReadUpTo(next - 1) = ReadUpTo(pos - 1)
    <3>1. pos - 1 \in Nat /\ next - 1 \in Nat /\ pos - 1 <= next - 1 /\ data \in Seq(Item)
      BY <1>1 DEF WalkOK
    <3>2. QED BY <2>1, <3>1, ReadSkip
  <2>3. QED BY <2>2 DEF ReadUpTo
<1>10. pos' \in 1 .. Len(data') + 1
  BY <1>1
<1>11. QED BY <1>3, <1>5, <1>6, <1>7, <1>8, <1>9, <1>10 DEF ReportOK

-----------------------------------------------------------------------------
(* What check_page reports.                                                *)

\* The rules of a page that do not look at the pages before it, but for the
\* granule it may not fall below.
SoundPage(page, model) ==
  /\ page.laces # <<>> => (page.granule = -1 <=> Completed(page) = 0)
  /\ ~GranuleFell(page, model)
  /\ ~(page.eos /\ EndsOpen(page))

LEMMA BosRulesFacts ==
  ASSUME Here.page \in Page
  PROVE  /\ BosRules \in Seq(RuleName)
         /\ Len(BosRules) = 0 <=>
              /\ ~Here.page.cont /\ Here.page.seq = 0 /\ ~Duplicate /\ ~Reuse
              /\ ~(link_has_data /\ ~Duplicate /\ ~AllClosed)
              /\ SoundPage(Here.page, Fresh(Here.page))
<1> DEFINE c1 == Here.page.cont
           c2 == Here.page.seq # 0
           c3 == Duplicate
           c4 == Reuse
           c5 == link_has_data /\ ~Duplicate /\ ~AllClosed
           w1 == When(c1, "ContinuedBos")
           w2 == When(c2, "SequenceStart")
           w3 == When(c3, "DuplicateBos")
           w4 == When(c4, "SerialReuse")
           w5 == When(c5, "BosNotContiguous")
           w6 == FinishRules(Here.page, Fresh(Here.page))
<1>1. BosRules = w1 \o w2 \o w3 \o w4 \o w5 \o w6
  BY Zenon DEF BosRules
<1>2. w6 \in Seq(RuleName) /\ (Len(w6) = 0 <=> SoundPage(Here.page, Fresh(Here.page)))
  BY FreshType, FinishRulesFacts, Zenon DEF SoundPage
<1> HIDE DEF c1, c2, c3, c4, c5, w6
<1>3. /\ w1 \in Seq(RuleName) /\ Len(w1) = IF c1 THEN 1 ELSE 0
      /\ w2 \in Seq(RuleName) /\ Len(w2) = IF c2 THEN 1 ELSE 0
      /\ w3 \in Seq(RuleName) /\ Len(w3) = IF c3 THEN 1 ELSE 0
      /\ w4 \in Seq(RuleName) /\ Len(w4) = IF c4 THEN 1 ELSE 0
      /\ w5 \in Seq(RuleName) /\ Len(w5) = IF c5 THEN 1 ELSE 0
  <2>1. /\ "ContinuedBos" \in RuleName /\ "SequenceStart" \in RuleName
        /\ "DuplicateBos" \in RuleName /\ "SerialReuse" \in RuleName
        /\ "BosNotContiguous" \in RuleName
    BY DEF RuleName
  <2>2. QED BY <2>1, WhenFacts
<1> HIDE DEF w1, w2, w3, w4, w5
<1>4. /\ w1 \o w2 \o w3 \o w4 \o w5 \o w6 \in Seq(RuleName)
      /\ Len(w1 \o w2 \o w3 \o w4 \o w5 \o w6)
           = Len(w1) + Len(w2) + Len(w3) + Len(w4) + Len(w5) + Len(w6)
      /\ Len(w6) \in Nat
  <2>1. w1 \o w2 \in Seq(RuleName) /\ Len(w1 \o w2) = Len(w1) + Len(w2)
    BY <1>3, RulesConcat
  <2>2. w1 \o w2 \o w3 \in Seq(RuleName) /\ Len(w1 \o w2 \o w3) = Len(w1 \o w2) + Len(w3)
    BY <1>3, <2>1, RulesConcat
  <2>3. /\ w1 \o w2 \o w3 \o w4 \in Seq(RuleName)
        /\ Len(w1 \o w2 \o w3 \o w4) = Len(w1 \o w2 \o w3) + Len(w4)
    BY <1>3, <2>2, RulesConcat
  <2>4. /\ w1 \o w2 \o w3 \o w4 \o w5 \in Seq(RuleName)
        /\ Len(w1 \o w2 \o w3 \o w4 \o w5) = Len(w1 \o w2 \o w3 \o w4) + Len(w5)
    BY <1>3, <2>3, RulesConcat
  <2>5. /\ w1 \o w2 \o w3 \o w4 \o w5 \o w6 \in Seq(RuleName)
        /\ Len(w1 \o w2 \o w3 \o w4 \o w5 \o w6) = Len(w1 \o w2 \o w3 \o w4 \o w5) + Len(w6)
        /\ Len(w6) \in Nat
    BY <1>2, <2>4, RulesConcat
  <2>6. QED BY <2>1, <2>2, <2>3, <2>4, <2>5
<1>5. Len(w1 \o w2 \o w3 \o w4 \o w5 \o w6) = 0 <=> ~c1 /\ ~c2 /\ ~c3 /\ ~c4 /\ ~c5 /\ Len(w6) = 0
  BY <1>3, <1>4
<1>6. QED BY <1>1, <1>2, <1>4, <1>5, Zenon DEF c1, c2, c3, c4, c5

LEMMA NextRulesFacts ==
  ASSUME Here.page \in Page, Model \in StreamModel
  PROVE  /\ NextRules \in Seq(RuleName)
         /\ Len(NextRules) = 0 <=> /\ Here.page.cont <=> Model.open_packet
                                   /\ SoundPage(Here.page, Model)
<1> DEFINE c1 == Here.page.cont /\ ~Model.open_packet
           c2 == ~Here.page.cont /\ Model.open_packet
           w1 == When(c1, "ContinuedWithoutPartial")
           w2 == When(c2, "PartialNotContinued")
           w3 == FinishRules(Here.page, Model)
<1>1. NextRules = w1 \o w2 \o w3
  BY Zenon DEF NextRules
<1>2. w3 \in Seq(RuleName) /\ (Len(w3) = 0 <=> SoundPage(Here.page, Model))
  BY FinishRulesFacts, Zenon DEF SoundPage
<1>3. ~c1 /\ ~c2 <=> (Here.page.cont <=> Model.open_packet)
  BY Zenon
<1> HIDE DEF c1, c2, w3
<1>4. /\ w1 \in Seq(RuleName) /\ Len(w1) = IF c1 THEN 1 ELSE 0
      /\ w2 \in Seq(RuleName) /\ Len(w2) = IF c2 THEN 1 ELSE 0
  <2>1. "ContinuedWithoutPartial" \in RuleName /\ "PartialNotContinued" \in RuleName
    BY DEF RuleName
  <2>2. QED BY <2>1, WhenFacts
<1> HIDE DEF w1, w2
<1>5. /\ w1 \o w2 \o w3 \in Seq(RuleName) /\ Len(w1 \o w2 \o w3) = Len(w1) + Len(w2) + Len(w3)
      /\ Len(w3) \in Nat
  <2>1. w1 \o w2 \in Seq(RuleName) /\ Len(w1 \o w2) = Len(w1) + Len(w2)
    BY <1>4, RulesConcat
  <2>2. /\ w1 \o w2 \o w3 \in Seq(RuleName) /\ Len(w1 \o w2 \o w3) = Len(w1 \o w2) + Len(w3)
        /\ Len(w3) \in Nat
    BY <1>2, <2>1, RulesConcat
  <2>3. QED BY <2>1, <2>2
<1>6. Len(w1 \o w2 \o w3) = 0 <=> ~c1 /\ ~c2 /\ Len(w3) = 0
  BY <1>4, <1>5
<1>7. QED BY <1>1, <1>2, <1>3, <1>5, <1>6

LEMMA LiveInsert ==
  ASSUME NEW models, LiveOK(models), NEW serial \in Nat, NEW m \in StreamModel
  PROVE  LiveOK(Insert(models, serial, m))
<1>1. DOMAIN Insert(models, serial, m) = DOMAIN models \cup {serial}
  BY InsertFacts
<1>2. IsFiniteSet(DOMAIN models \cup {serial})
  BY FS_AddElement DEF LiveOK
<1>3. \A k \in DOMAIN Insert(models, serial, m) : Insert(models, serial, m)[k] \in StreamModel
  <2>1. SUFFICES ASSUME NEW k \in DOMAIN models \cup {serial}
                 PROVE  Insert(models, serial, m)[k] \in StreamModel
    BY <1>1
  <2>2. Insert(models, serial, m)[k] = IF k = serial THEN m ELSE models[k]
    BY DEF Insert
  <2>3. k # serial => models[k] \in StreamModel
    BY DEF LiveOK
  <2>4. QED BY <2>2, <2>3
<1>4. DOMAIN models \cup {serial} \in SUBSET Nat
  BY DEF LiveOK
<1>5. QED BY <1>1, <1>2, <1>3, <1>4, Zenon DEF LiveOK

LEMMA NoneLive == LiveOK(<<>>) /\ DOMAIN <<>> = {}
BY FS_EmptySet DEF LiveOK

LEMMA TaintType ==
  ASSUME LiveOK(live), NEW serial \in Nat
  PROVE  LiveOK(Taint(serial))
<1>1. CASE serial \in DOMAIN live
  <2>1. PICK m : m = [live[serial] EXCEPT !.tainted = TRUE]
    OBVIOUS
  <2>2. m \in StreamModel
    BY <1>1, <2>1 DEF LiveOK, StreamModel
  <2>3. Taint(serial) = [live EXCEPT ![serial] = m]
    BY <1>1, <2>1 DEF Taint
  <2>4. QED BY <2>2, <2>3 DEF LiveOK
<1>2. CASE serial \notin DOMAIN live
  BY <1>2 DEF Taint
<1>3. QED BY <1>1, <1>2

\* The issues of the end of the input.
LEMMA MissingEosFacts ==
  ASSUME LiveOK(live), pos \in Nat
  PROVE  MissingEos \in Seq(Issue) /\ Len(MissingEos) = Cardinality(Unended)
         /\ (Cardinality(Unended) = 0 <=> Unended = {}) /\ Cardinality(Unended) \in Nat
<1>1. IsFiniteSet(Unended) /\ Unended \in SUBSET Nat
  BY FS_Subset DEF Unended, LiveOK
<1>2. Cardinality(Unended) \in Nat /\ (Cardinality(Unended) = 0 <=> Unended = {})
  BY <1>1, FS_CardinalityType, FS_EmptySet
<1>3. \A i \in 1 .. Cardinality(Unended) :
        [rule |-> "MissingEos", at |-> pos,
         serial |-> {n \in Unended : Cardinality({m \in Unended : m < n}) = i - 1}] \in Issue
  BY <1>1 DEF Issue, RuleName
<1>4. /\ MissingEos \in Seq(Issue)
      /\ Len(MissingEos) = Cardinality(Unended)
  <2> DEFINE told(i) == [rule |-> "MissingEos", at |-> pos,
                         serial |-> {n \in Unended : Cardinality({m \in Unended : m < n}) = i - 1}]
  <2>1. MissingEos = [i \in 1 .. Cardinality(Unended) |-> told(i)]
    BY Zenon DEF MissingEos
  <2>2. \A i \in 1 .. Cardinality(Unended) : told(i) \in Issue
    BY <1>3
  <2> HIDE DEF told
  <2>3. QED BY <1>2, <2>1, <2>2
<1>5. QED BY <1>2, <1>4

-----------------------------------------------------------------------------
(* Every action keeps the types, and what it adds to the report.           *)

LEMMA TypeInit == Init => TypeInv
<1> SUFFICES ASSUME Init PROVE TypeInv
  OBVIOUS
<1>1. data \in Seq(Item) /\ pos = 1 /\ link_has_data = FALSE /\ live = <<>>
  BY DEF Init
<1>2. Len(data) \in Nat
  BY <1>1
<1>3. WalkOK
  <2>1. pos \in 1 .. Len(data) + 1
    BY <1>1, <1>2
  <2>2. QED BY <1>1, <2>1 DEF WalkOK
<1>4. LiveOK(live)
  BY <1>1, NoneLive
<1>5. report \in Report /\ report.pages = 0 /\ report.issues = <<>> /\ report.suppressed = 0
  BY DEF Init, Report
<1>6. Capped(report)
  BY <1>5, ValidateAssumption DEF Capped
<1>7. ReadUpTo(pos - 1) = {}
  BY <1>1 DEF ReadUpTo
<1>8. QED BY <1>3, <1>4, <1>5, <1>6, <1>7, FS_EmptySet DEF TypeInv, ReportOK

LEMMA OneIssue ==
  ASSUME NEW rule \in RuleName, pos \in Nat, NEW serials \in SUBSET Nat
  PROVE  /\ Issues(<<rule>>, pos, serials) \in Seq(Issue)
         /\ Len(Issues(<<rule>>, pos, serials)) = 1
<1>1. <<rule>> \in Seq(RuleName) /\ Len(<<rule>>) = 1
  OBVIOUS
<1>2. QED BY <1>1, IssuesFacts

\* What cannot be read is reported once and is not counted as a page.
Skipped == /\ TypeInv' /\ UNCHANGED <<file, data>>
           /\ TotalOf(report') = TotalOf(report) + 1 /\ report'.complete = report.complete

LEMMA SkippedFrom ==
  ASSUME TypeInv, pos <= Len(data), Here.state # "ok",
         NEW rule \in RuleName, NEW serials \in SUBSET Nat, NEW junk \in Nat,
         NEW next \in pos + 1 .. Len(data) + 1, \A k \in pos + 1 .. next - 1 : ~Valid(k),
         UNCHANGED <<file, data, link_has_data>>, pos' = next, LiveOK(live'),
         report' = [Push(report, Issues(<<rule>>, pos, serials)) EXCEPT !.junk = junk]
  PROVE  Skipped
<1>1. WalkOK /\ ReportOK /\ pos \in Nat /\ link_has_data \in BOOLEAN /\ data \in Seq(Item)
  BY DEF TypeInv, WalkOK
<1>2. /\ Issues(<<rule>>, pos, serials) \in Seq(Issue)
      /\ Len(Issues(<<rule>>, pos, serials)) = 1
  BY <1>1, OneIssue
<1>3. /\ pos' \in 1 .. Len(data') + 1 /\ ReportOK'
      /\ TotalOf(report') = TotalOf(report) + 1 /\ report'.complete = report.complete
  BY <1>1, <1>2, SkipFacts
<1>4. WalkOK'
  BY <1>1, <1>3 DEF WalkOK
<1>5. LiveOK(live)'
  BY DEF LiveOK
<1>6. QED BY <1>3, <1>4, <1>5 DEF Skipped, TypeInv

LEMMA PlainPush ==
  ASSUME TypeInv, NEW rule \in RuleName, NEW serials \in SUBSET Nat,
         report' = Push(report, Issues(<<rule>>, pos, serials))
  PROVE  \E junk \in Nat : report' = [Push(report, Issues(<<rule>>, pos, serials)) EXCEPT !.junk = junk]
<1>1. report \in Report /\ Capped(report) /\ pos \in Nat
  BY DEF TypeInv, ReportOK, WalkOK
<1>2. Issues(<<rule>>, pos, serials) \in Seq(Issue)
  BY <1>1, OneIssue
<1>3. PICK p : p = Push(report, Issues(<<rule>>, pos, serials))
  OBVIOUS
<1>4. p \in Report /\ p.junk = report.junk
  BY <1>1, <1>2, <1>3, PushFacts
<1>5. p = [p EXCEPT !.junk = report.junk]
  BY <1>4 DEF Report
<1>6. report.junk \in Nat
  BY <1>1 DEF Report
<1>7. QED BY <1>3, <1>5, <1>6

LEMMA SkippedBy ==
  ASSUME TypeInv, NoCapture \/ Truncated \/ BadCrc \/ OtherVersion
  PROVE  Skipped
<1>1. /\ data \in Seq(Item) /\ pos \in 1 .. Len(data) + 1 /\ LiveOK(live)
      /\ report \in Report /\ Capped(report)
  BY DEF TypeInv, WalkOK, ReportOK
<1>2. pos <= Len(data) /\ Here.state # "ok"
  BY DEF NoCapture, Truncated, BadCrc, OtherVersion, At
<1>3. /\ pos \in 1 .. Len(data) /\ Len(data) \in Nat /\ Here \in Item /\ Here.page \in Page
      /\ Here.claims \in Nat /\ Here.page.serial \in Nat
  BY <1>1, <1>2, HereType
<1>4. NextValid \in pos + 1 .. Len(data) + 1 /\ \A k \in pos + 1 .. NextValid - 1 : ~Valid(k)
  BY <1>1, <1>3, NextValidFacts
<1>5. /\ "CapturePattern" \in RuleName /\ "Truncated" \in RuleName
      /\ "CrcMismatch" \in RuleName /\ "Version" \in RuleName
  BY DEF RuleName
<1>6. UNCHANGED <<file, data, link_has_data>>
  BY Zenon DEF NoCapture, Truncated, BadCrc, OtherVersion
<1>7. {} \in SUBSET Nat /\ {Here.claims} \in SUBSET Nat /\ {Here.page.serial} \in SUBSET Nat
  BY <1>3
<1>8. CASE NoCapture
  <2>1. PICK p : p = Push(report, Issues(<<"CapturePattern">>, pos, {}))
    OBVIOUS
  <2>2. p \in Report /\ p.junk = report.junk
    <3>1. Issues(<<"CapturePattern">>, pos, {}) \in Seq(Issue)
      BY <1>3, <1>5, <1>7, OneIssue
    <3>2. QED BY <3>1, <2>1, <1>1, PushFacts
  <2>3. PICK junk : junk = p.junk + NextValid - pos
    OBVIOUS
  <2>4. junk \in Nat
    <3>1. report.junk \in Nat
      BY <1>1 DEF Report
    <3>2. p.junk \in Nat
      BY <2>2, <3>1
    <3>3. QED BY <1>3, <1>4, <2>3, <3>2
  <2>5. report' = [p EXCEPT !.junk = junk]
    <3>1. report' = [Push(report, Issues(<<"CapturePattern">>, pos, {})) EXCEPT !.junk = @ + NextValid - pos]
      BY <1>8, Zenon DEF NoCapture
    <3>2. report' = [p EXCEPT !.junk = p.junk + NextValid - pos]
      BY <2>1, <3>1
    <3>3. QED BY Zenon, <2>3, <3>2
  <2>6. pos' = NextValid /\ LiveOK(live')
    BY <1>1, <1>8 DEF NoCapture
  <2>7. QED BY <1>2, <1>4, <1>5, <1>6, <1>7, <2>1, <2>4, <2>5, <2>6, SkippedFrom
<1>9. CASE Truncated
  <2>1. pos' = NextValid /\ LiveOK(live')
    BY <1>1, <1>9 DEF Truncated
  <2>2. report' = Push(report, Issues(<<"Truncated">>, pos, {}))
    BY <1>9 DEF Truncated
  <2>3. PICK junk \in Nat :
          report' = [Push(report, Issues(<<"Truncated">>, pos, {})) EXCEPT !.junk = junk]
    BY <1>5, <1>7, <2>2, PlainPush
  <2>4. QED BY <1>2, <1>4, <1>5, <1>6, <1>7, <2>1, <2>3, SkippedFrom
<1>10. CASE BadCrc
  <2>1. pos' = NextValid /\ LiveOK(live')
    BY <1>1, <1>3, <1>10, TaintType DEF BadCrc
  <2>2. report' = Push(report, Issues(<<"CrcMismatch">>, pos, {Here.claims}))
    BY <1>10 DEF BadCrc
  <2>3. PICK junk \in Nat :
          report' = [Push(report, Issues(<<"CrcMismatch">>, pos, {Here.claims})) EXCEPT !.junk = junk]
    BY <1>5, <1>7, <2>2, PlainPush
  <2>4. QED BY <1>2, <1>4, <1>5, <1>6, <1>7, <2>1, <2>3, SkippedFrom
<1>11. CASE OtherVersion
  <2>1. pos' = pos + 1 /\ LiveOK(live')
    BY <1>1, <1>3, <1>11, TaintType DEF OtherVersion
  <2>2. report' = Push(report, Issues(<<"Version">>, pos, {Here.page.serial}))
    BY <1>11 DEF OtherVersion
  <2>3. pos + 1 \in pos + 1 .. Len(data) + 1 /\ \A k \in pos + 1 .. (pos + 1) - 1 : ~Valid(k)
    BY <1>3
  <2>4. PICK junk \in Nat :
          report' = [Push(report, Issues(<<"Version">>, pos, {Here.page.serial})) EXCEPT !.junk = junk]
    BY <1>5, <1>7, <2>2, PlainPush
  <2>5. QED BY <1>2, <1>5, <1>6, <1>7, <2>1, <2>3, <2>4, SkippedFrom
<1>12. QED BY <1>8, <1>9, <1>10, <1>11

\* A page read: it is counted, and its rules are.
Taken(rules, streams, links) ==
  /\ TypeInv' /\ UNCHANGED <<file, data>> /\ pos' = pos + 1
  /\ TotalOf(report') = TotalOf(report) + Len(rules) /\ report'.complete = report.complete
  /\ report'.pages = report.pages + 1 /\ report'.junk = report.junk
  /\ report'.streams = streams
  /\ report'.links = IF report.pages = 0 THEN 1 ELSE links

LEMMA TakenFrom ==
  ASSUME TypeInv, At("ok"), NEW rules \in Seq(RuleName), NEW r \in Report,
         r.issues = report.issues, r.suppressed = report.suppressed, r.pages = report.pages,
         r.junk = report.junk, r.complete = report.complete, Accept(rules, r),
         LiveOK(live'), link_has_data' \in BOOLEAN
  PROVE  Taken(rules, r.streams, r.links)
<1>1. WalkOK /\ ReportOK
  BY DEF TypeInv
<1>2. /\ UNCHANGED <<file, data>> /\ pos' = pos + 1 /\ pos' \in 1 .. Len(data') + 1 /\ ReportOK'
      /\ TotalOf(report') = TotalOf(report) + Len(rules)
      /\ report'.pages = report.pages + 1 /\ report'.streams = r.streams
      /\ report'.links = IF report.pages = 0 THEN 1 ELSE r.links
      /\ report'.junk = report.junk /\ report'.complete = report.complete
  BY <1>1, AcceptFacts
<1>3. WalkOK'
  BY <1>1, <1>2 DEF WalkOK
<1>4. LiveOK(live)'
  BY DEF LiveOK
<1>5. TypeInv'
  BY <1>2, <1>3, <1>4 DEF TypeInv
<1>6. QED BY <1>2, <1>5 DEF Taken

\* A page that counts no bitstream and no link.
LEMMA TakenPlain ==
  ASSUME TypeInv, At("ok"), NEW rules \in Seq(RuleName), Accept(rules, report),
         LiveOK(live'), link_has_data' \in BOOLEAN
  PROVE  Taken(rules, report.streams, report.links)
BY TakenFrom DEF TypeInv, ReportOK

LEMMA PageHere ==
  ASSUME TypeInv, At("ok")
  PROVE  /\ pos \in 1 .. Len(data) /\ Len(data) \in Nat /\ data[pos].state = "ok"
         /\ Here.page \in Page /\ Here.page.serial \in Nat /\ LiveOK(live)
         /\ Known => Model \in StreamModel
<1>1. data \in Seq(Item) /\ pos \in 1 .. Len(data) + 1 /\ pos <= Len(data) /\ LiveOK(live)
  BY DEF TypeInv, WalkOK, At
<1>2. /\ pos \in 1 .. Len(data) /\ Len(data) \in Nat
      /\ Here.page \in Page /\ Here.page.serial \in Nat
  BY <1>1, HereType
<1>3. Known => Model \in StreamModel
  BY <1>1 DEF Known, Model, LiveOK
<1>4. QED BY <1>1, <1>2, <1>3 DEF At, Here

LEMMA BosTaken ==
  ASSUME TypeInv, BosPage
  PROVE  Taken(BosRules, report.streams + 1, IF NewLink THEN report.links + 1 ELSE report.links)
<1>1. At("ok")
  BY DEF BosPage
<1>2. Here.page \in Page /\ Here.page.serial \in Nat /\ LiveOK(live)
  BY <1>1, PageHere
<1>3. BosRules \in Seq(RuleName)
  BY <1>2, BosRulesFacts
<1>4. PICK m : m = Rebaselined(Here.page, Fresh(Here.page))
  OBVIOUS
<1>5. m \in StreamModel
  BY <1>2, <1>4, FreshType, RebaselinedFields
<1>6. LiveOK(live')
  <2>1. live' = Insert(<<>>, Here.page.serial, m) \/ live' = Insert(live, Here.page.serial, m)
    BY <1>4 DEF BosPage, Becomes
  <2>2. LiveOK(Insert(<<>>, Here.page.serial, m)) /\ LiveOK(Insert(live, Here.page.serial, m))
    BY <1>2, <1>5, NoneLive, LiveInsert
  <2>3. QED BY <2>1, <2>2
<1>7. link_has_data' \in BOOLEAN
  BY DEF BosPage, TypeInv, WalkOK
<1>8. PICK l : l = IF NewLink THEN report.links + 1 ELSE report.links
  OBVIOUS
<1>9. report \in Report /\ l \in Nat /\ report.streams + 1 \in Nat
  BY <1>8 DEF TypeInv, ReportOK, Report
<1>10. PICK r : r = [report EXCEPT !.streams = report.streams + 1, !.links = l]
  OBVIOUS
<1>11. Accept(BosRules, r)
  BY <1>8, <1>10 DEF BosPage
<1>12. r \in Report /\ r.streams = report.streams + 1 /\ r.links = l
  BY <1>9, <1>10 DEF Report
<1>13. /\ r.issues = report.issues /\ r.suppressed = report.suppressed
       /\ r.pages = report.pages /\ r.junk = report.junk /\ r.complete = report.complete
  BY <1>9, <1>10 DEF Report
<1>14. Taken(BosRules, r.streams, r.links)
  BY <1>1, <1>3, <1>6, <1>7, <1>11, <1>12, <1>13, TakenFrom
<1>15. QED BY <1>8, <1>12, <1>14

LEMMA OrphanTaken ==
  ASSUME TypeInv, OrphanPage
  PROVE  \E rules \in Seq(RuleName) :
           Len(rules) > 0 /\ Taken(rules, report.streams + 1, report.links)
<1>1. At("ok") /\ link_has_data' \in BOOLEAN
  BY DEF OrphanPage, DataPage
<1>2. Here.page \in Page /\ Here.page.serial \in Nat /\ LiveOK(live)
  BY <1>1, PageHere
<1>3. PICK m : m = Rebaselined(Here.page, Fresh(Here.page))
  OBVIOUS
<1>4. m \in StreamModel
  BY <1>2, <1>3, FreshType, RebaselinedFields
<1>5. LiveOK(live')
  <2>1. live' = Insert(live, Here.page.serial, m)
    BY <1>3 DEF OrphanPage, Becomes
  <2>2. QED BY <2>1, <1>2, <1>4, LiveInsert
<1>6. report \in Report /\ report.streams + 1 \in Nat
  BY DEF TypeInv, ReportOK, Report
<1>7. PICK r : r = [report EXCEPT !.streams = report.streams + 1]
  OBVIOUS
<1>8. PICK rules : rules = <<"MissingBos">> \o FinishRules(Here.page, Fresh(Here.page))
  OBVIOUS
<1>9. rules \in Seq(RuleName) /\ Len(rules) > 0
  <2>1. "MissingBos" \in RuleName
    BY DEF RuleName
  <2>2. <<"MissingBos">> \in Seq(RuleName) /\ Len(<<"MissingBos">>) = 1
    BY <2>1
  <2>3. FinishRules(Here.page, Fresh(Here.page)) \in Seq(RuleName)
    BY <1>2, FreshType, FinishRulesFacts
  <2>4. QED BY <1>8, <2>2, <2>3, RulesConcat
<1>10. Accept(rules, r)
  BY <1>7, <1>8 DEF OrphanPage
<1>11. r \in Report /\ r.streams = report.streams + 1 /\ r.links = report.links
  BY <1>6, <1>7 DEF Report
<1>12. /\ r.issues = report.issues /\ r.suppressed = report.suppressed
       /\ r.pages = report.pages /\ r.junk = report.junk /\ r.complete = report.complete
  BY <1>6, <1>7 DEF Report
<1>13. Taken(rules, r.streams, r.links)
  BY <1>1, <1>5, <1>9, <1>10, <1>11, <1>12, TakenFrom
<1>14. QED BY <1>9, <1>11, <1>13

\* A page of a bitstream the walk has a model of.
LEMMA KnownTaken ==
  ASSUME TypeInv, DataPage, Known, NEW m \in StreamModel, Becomes(m),
         NEW rules \in Seq(RuleName), Accept(rules, report)
  PROVE  Taken(rules, report.streams, report.links)
<1>1. At("ok") /\ link_has_data' \in BOOLEAN
  BY DEF DataPage
<1>2. Here.page.serial \in Nat /\ LiveOK(live)
  BY <1>1, PageHere
<1>3. LiveOK(live')
  BY <1>2, LiveInsert DEF Becomes
<1>4. QED BY <1>1, <1>3, TakenPlain

LEMMA NextTaken ==
  ASSUME TypeInv, NextPage
  PROVE  Taken(NextRules, report.streams, report.links)
<1>1. DataPage /\ Known /\ At("ok") /\ Becomes(Rebaselined(Here.page, Model)) /\ Accept(NextRules, report)
  BY DEF NextPage, Ordinary, DataPage
<1>2. Here.page \in Page /\ Model \in StreamModel
  BY <1>1, PageHere
<1>3. Rebaselined(Here.page, Model) \in StreamModel /\ NextRules \in Seq(RuleName)
  BY <1>2, RebaselinedFields, NextRulesFacts
<1>4. QED BY <1>1, <1>3, KnownTaken

LEMMA HoleTaken ==
  ASSUME TypeInv, HolePage
  PROVE  \E rules \in Seq(RuleName) : Len(rules) > 0 /\ Taken(rules, report.streams, report.links)
<1>1. DataPage /\ Known /\ At("ok") /\ Becomes(Rebaselined(Here.page, Model))
  BY DEF HolePage, Ordinary, DataPage
<1>2. Here.page \in Page /\ Model \in StreamModel
  BY <1>1, PageHere
<1>3. Rebaselined(Here.page, Model) \in StreamModel
  BY <1>2, RebaselinedFields
<1>4. PICK rule \in RuleName : Accept(<<rule>>, report)
  BY DEF HolePage, RuleName
<1>5. <<rule>> \in Seq(RuleName) /\ Len(<<rule>>) > 0
  OBVIOUS
<1>6. Taken(<<rule>>, report.streams, report.links)
  BY <1>1, <1>3, <1>4, <1>5, KnownTaken
<1>7. QED BY <1>5, <1>6

LEMMA TaintedTaken ==
  ASSUME TypeInv, TaintedPage
  PROVE  Taken(<<>>, report.streams, report.links)
<1>1. DataPage /\ Known /\ At("ok") /\ Accept(<<>>, report)
      /\ Becomes([Rebaselined(Here.page, Model) EXCEPT !.tainted = FALSE])
  BY DEF TaintedPage, DataPage
<1>2. Here.page \in Page /\ Model \in StreamModel
  BY <1>1, PageHere
<1>3. Rebaselined(Here.page, Model) \in StreamModel
  BY <1>2, RebaselinedFields
<1>4. [Rebaselined(Here.page, Model) EXCEPT !.tainted = FALSE] \in StreamModel
  BY <1>3 DEF StreamModel
<1>5. <<>> \in Seq(RuleName)
  OBVIOUS
<1>6. QED BY <1>1, <1>4, <1>5, KnownTaken

LEMMA AfterEosTaken ==
  ASSUME TypeInv, PageAfterEos
  PROVE  Taken(When(~Model.after_eos_reported, "PageAfterEos"), report.streams, report.links)
<1>1. DataPage /\ Known /\ At("ok") /\ Accept(When(~Model.after_eos_reported, "PageAfterEos"), report)
      /\ Becomes([Model EXCEPT !.after_eos_reported = TRUE, !.last_seq = Here.page.seq,
                               !.open_packet = EndsOpen(Here.page)])
  BY DEF PageAfterEos, DataPage
<1>2. Here.page \in Page /\ Model \in StreamModel /\ Here.page.seq \in 0 .. SeqSpace - 1
  BY <1>1, PageHere DEF Page
<1>3. EndsOpen(Here.page) \in BOOLEAN
  BY <1>2, EndsOpenType
<1>4. [Model EXCEPT !.after_eos_reported = TRUE, !.last_seq = Here.page.seq,
                    !.open_packet = EndsOpen(Here.page)] \in StreamModel
  BY <1>2, <1>3 DEF StreamModel
<1>5. When(~Model.after_eos_reported, "PageAfterEos") \in Seq(RuleName)
  <2>1. "PageAfterEos" \in RuleName
    BY DEF RuleName
  <2>2. QED BY <2>1, WhenFacts
<1>6. QED BY <1>1, <1>4, <1>5, KnownTaken

\* The end of the input: a file of nothing, and the bitstreams left open.
LEMMA FinishFacts ==
  ASSUME TypeInv, Finish
  PROVE  /\ TypeInv' /\ UNCHANGED <<file, data, pos, live, finished, link_has_data>>
         /\ report'.complete
         /\ TotalOf(report') = TotalOf(report) + (IF data = <<>> THEN 1 ELSE 0) + Cardinality(Unended)
         /\ report'.pages = report.pages /\ report'.streams = report.streams
         /\ report'.links = report.links /\ report'.junk = report.junk
<1>1. /\ data \in Seq(Item) /\ pos \in Nat /\ LiveOK(live) /\ report \in Report /\ Capped(report)
  BY DEF TypeInv, WalkOK, ReportOK
<1>2. UNCHANGED <<file, data, pos, live, finished, link_has_data>>
  BY Zenon DEF Finish
<1>3. PICK w : w = When(data = <<>>, "Truncated")
  OBVIOUS
<1>4. w \in Seq(RuleName) /\ Len(w) = IF data = <<>> THEN 1 ELSE 0
  <2>1. "Truncated" \in RuleName
    BY DEF RuleName
  <2>2. QED BY <1>3, <2>1, WhenFacts
<1>5. PICK i : i = Issues(w, pos, {})
  OBVIOUS
<1>6. i \in Seq(Issue) /\ Len(i) = Len(w)
  <2>1. {} \in SUBSET Nat
    OBVIOUS
  <2>2. QED BY <1>1, <1>4, <1>5, <2>1, IssuesFacts
<1>7. /\ MissingEos \in Seq(Issue) /\ Len(MissingEos) = Cardinality(Unended)
      /\ Cardinality(Unended) \in Nat
  BY <1>1, MissingEosFacts
<1>8. /\ i \o MissingEos \in Seq(Issue)
      /\ Len(i \o MissingEos) = (IF data = <<>> THEN 1 ELSE 0) + Cardinality(Unended)
  <2>1. i \o MissingEos \in Seq(Issue) /\ Len(i \o MissingEos) = Len(i) + Len(MissingEos)
    BY <1>6, <1>7, ConcatProperties
  <2>2. QED BY <1>4, <1>6, <1>7, <2>1
<1>9. PICK p : p = Push(report, i \o MissingEos)
  OBVIOUS
<1>10. /\ p \in Report /\ Capped(p) /\ TotalOf(p) = TotalOf(report) + Len(i \o MissingEos)
       /\ p.pages = report.pages /\ p.streams = report.streams /\ p.links = report.links
       /\ p.junk = report.junk
  BY <1>1, <1>8, <1>9, PushFacts
<1>11. report' = [p EXCEPT !.complete = TRUE]
  BY <1>3, <1>5, <1>9 DEF Finish
<1>12. report' \in Report
  BY <1>10, <1>11 DEF Report
<1>13. /\ report'.issues = p.issues /\ report'.suppressed = p.suppressed /\ report'.complete
       /\ report'.pages = p.pages /\ report'.streams = p.streams /\ report'.links = p.links
       /\ report'.junk = p.junk
  BY <1>10, <1>11 DEF Report
<1>14. Capped(report)' /\ TotalOf(report') = TotalOf(p)
  BY <1>10, <1>13 DEF Capped, TotalOf
<1>15. TotalOf(report') = TotalOf(report) + (IF data = <<>> THEN 1 ELSE 0) + Cardinality(Unended)
  <2>1. TotalOf(report) \in Nat
    BY <1>1 DEF TotalOf, Report
  <2>2. QED BY <1>7, <1>8, <1>10, <1>14, <2>1
<1>16. ReadUpTo(pos - 1)' = ReadUpTo(pos - 1)
  BY <1>2 DEF ReadUpTo
<1>17. ReportOK'
  BY <1>10, <1>12, <1>13, <1>14, <1>16 DEF ReportOK, TypeInv
<1>18. WalkOK' /\ LiveOK(live)'
  BY <1>2 DEF TypeInv, WalkOK, LiveOK
<1>19. QED BY <1>2, <1>10, <1>13, <1>15, <1>17, <1>18 DEF TypeInv

LEMMA TypeStep == TypeInv /\ [Next]_vars => TypeInv'
<1> SUFFICES ASSUME TypeInv, [Next]_vars PROVE TypeInv'
  OBVIOUS
<1>1. CASE NoCapture \/ Truncated \/ BadCrc \/ OtherVersion
  BY <1>1, SkippedBy DEF Skipped
<1>2. CASE BosPage
  BY <1>2, BosTaken DEF Taken
<1>3. CASE OrphanPage
  BY <1>3, OrphanTaken DEF Taken
<1>4. CASE PageAfterEos
  BY <1>4, AfterEosTaken DEF Taken
<1>5. CASE TaintedPage
  BY <1>5, TaintedTaken DEF Taken
<1>6. CASE HolePage
  BY <1>6, HoleTaken DEF Taken
<1>7. CASE NextPage
  BY <1>7, NextTaken DEF Taken
<1>8. CASE Finish
  BY <1>8, FinishFacts
<1>9. CASE UNCHANGED vars
  <2>1. UNCHANGED <<data, pos, live, link_has_data, report>>
    BY <1>9 DEF vars
  <2>2. WalkOK' /\ ReadUpTo(pos - 1)' = ReadUpTo(pos - 1) /\ Capped(report)' = Capped(report)
    BY <2>1 DEF WalkOK, ReadUpTo, TypeInv, Capped
  <2>3. LiveOK(live)'
    BY <2>1 DEF LiveOK, TypeInv
  <2>4. ReportOK'
    BY <2>1, <2>2 DEF ReportOK, TypeInv
  <2>5. QED BY <2>2, <2>3, <2>4 DEF TypeInv
<1>10. QED
  BY <1>1, <1>2, <1>3, <1>4, <1>5, <1>6, <1>7, <1>8, <1>9 DEF Next, Walk, Terminated

LEMMA TypeInvariant == Spec => []TypeInv
BY TypeInit, TypeStep, PTL DEF Spec

\* The walk keeps the types: the models are those of pages it has passed, the
\* position stays in the input, the report keeps its cap and suppresses
\* nothing before it is full, and the pages it counts are those before the
\* position that could be read, however the input is damaged.
THEOREM TypesHold == Spec => []TypeOK
<1>1. TypeInv => TypeOK
  BY DEF TypeInv, WalkOK, LiveOK, ReportOK, Capped, ReadUpTo, TypeOK
<1>2. QED BY <1>1, TypeInvariant, PTL

-----------------------------------------------------------------------------
(* The rules, page by page.                                                *)

\* The pages of a bitstream among the first n of a file.
Seen(f, n, serial) == {j \in 1 .. n : f[j].page.serial = serial}

\* RFC 3533 of one page against the pages of its bitstream before it.
GoodAgainst(f, k, page, before) ==
  /\ page.bos <=> before = {}
  /\ page.seq = Cardinality(before) % SeqSpace
  /\ page.cont <=> \E j \in before : IsLast(before, j) /\ EndsOpen(f[j].page)
  /\ page.laces # <<>> => (page.granule = -1 <=> Completed(page) = 0)
  /\ \A j \in before : Completed(page) > 0 /\ Completed(f[j].page) > 0 =>
                         f[j].page.granule <= page.granule
  /\ page.eos => ~EndsOpen(page)
  /\ \A j \in before : ~f[j].page.eos
  /\ page.bos => Grouped(f, k)
GoodPage(f, k) ==
  f[k].state = "ok" /\ GoodAgainst(f, k, f[k].page, Seen(f, k - 1, f[k].page.serial))
GoodUpTo(f, n) == \A k \in 1 .. n : GoodPage(f, k)

\* What the walk keeps of a bitstream nothing was said of.
ModelOf(f, seen, model) ==
  /\ model.last_seq = (Cardinality(seen) - 1) % SeqSpace
  /\ \E j \in seen : /\ IsLast(seen, j)
                     /\ model.open_packet <=> EndsOpen(f[j].page)
                     /\ model.eos <=> f[j].page.eos
  /\ ~model.tainted /\ ~model.after_eos_reported
  /\ \A j \in seen : Completed(f[j].page) > 0 =>
                       model.last_granule # -1 /\ f[j].page.granule <= model.last_granule
  /\ model.last_granule # -1 => \E j \in seen : /\ Completed(f[j].page) > 0
                                                /\ f[j].page.granule = model.last_granule

\* The bitstreams of the current link and those of the links before are those
\* seen; the models are theirs, and the links before are closed.
StreamsOf(f, n, models, closed) ==
  /\ \A k \in 1 .. n : f[k].page.serial \in DOMAIN models \cup closed
  /\ DOMAIN models \cap closed = {}
  /\ \A serial \in DOMAIN models : ModelOf(f, Seen(f, n, serial), models[serial])
  /\ \A serial \in closed : \E j \in Seen(f, n, serial) : f[j].page.eos

\* BOS pages, and those a link begins with.
Starts(f, n) == {k \in 1 .. n : f[k].page.bos}
LinkStarts(f, n) == {k \in Starts(f, n) : k = 1 \/ k - 1 \notin Starts(f, n)}

Counted(f, n, r) ==
  /\ r.pages = n /\ r.junk = 0
  /\ r.streams = Cardinality(Starts(f, n)) /\ r.links = Cardinality(LinkStarts(f, n))

\* The walk so far found nothing to report.
CleanSoFar ==
  /\ GoodUpTo(data, pos - 1)
  /\ StreamsOf(data, pos - 1, live, finished)
  /\ link_has_data <=> pos > 1 /\ ~data[pos - 1].page.bos
  /\ Counted(data, pos - 1, report)

\* The report, at every step, says what there is to say of the input so far.
Verdict ==
  /\ TotalOf(report) = 0 => CleanSoFar
  /\ TotalOf(report) > 0 => ~WellFormed(data)
  /\ report.complete => /\ pos > Len(data)
                        /\ TotalOf(report) = 0 => data # <<>> /\ Unended = {}

-----------------------------------------------------------------------------
(* Pages of a file.                                                        *)

LEMMA ItemType ==
  ASSUME NEW f \in Seq(Item), NEW k \in 1 .. Len(f)
  PROVE  /\ f[k] \in Item /\ f[k].page \in Page /\ f[k].page.serial \in Nat
         /\ f[k].page.granule \in Int /\ f[k].page.seq \in 0 .. SeqSpace - 1
         /\ f[k].page.bos \in BOOLEAN /\ f[k].page.eos \in BOOLEAN /\ f[k].page.cont \in BOOLEAN
<1>1. f[k] \in Item
  BY ElementOfSeq
<1>2. f[k].page \in Page
  BY <1>1 DEF Item
<1>3. QED BY <1>1, <1>2 DEF Page

LEMMA SeenFacts ==
  ASSUME NEW f, NEW n \in Nat, NEW serial
  PROVE  /\ IsFiniteSet(Seen(f, n, serial)) /\ Seen(f, n, serial) \subseteq 1 .. n
         /\ Cardinality(Seen(f, n, serial)) \in Nat
         /\ Cardinality(Seen(f, n, serial)) = 0 <=> Seen(f, n, serial) = {}
<1>1. Seen(f, n, serial) \subseteq 1 .. n /\ IsFiniteSet(1 .. n)
  BY FS_Interval DEF Seen
<1>2. IsFiniteSet(Seen(f, n, serial))
  BY <1>1, FS_Subset
<1>3. QED BY <1>1, <1>2, FS_CardinalityType, FS_EmptySet

\* One page more is one more of its own bitstream and of no other.
OneSeenMore(f, n, serial) ==
  /\ Seen(f, n + 1, serial) = Seen(f, n, serial) \cup {n + 1}
  /\ Cardinality(Seen(f, n + 1, serial)) = Cardinality(Seen(f, n, serial)) + 1
  /\ IsLast(Seen(f, n + 1, serial), n + 1)

LEMMA SeenNext ==
  ASSUME NEW f, NEW n \in Nat, NEW serial
  PROVE  /\ f[n + 1].page.serial = serial => OneSeenMore(f, n, serial)
         /\ f[n + 1].page.serial # serial => Seen(f, n + 1, serial) = Seen(f, n, serial)
<1>1. 1 .. n + 1 = (1 .. n) \cup {n + 1} /\ n + 1 \notin 1 .. n
  OBVIOUS
<1>2. CASE f[n + 1].page.serial = serial
  <2>1. Seen(f, n + 1, serial) = Seen(f, n, serial) \cup {n + 1} /\ n + 1 \notin Seen(f, n, serial)
    BY <1>1, <1>2 DEF Seen
  <2>2. Cardinality(Seen(f, n + 1, serial)) = Cardinality(Seen(f, n, serial)) + 1
    BY <2>1, SeenFacts, FS_AddElement
  <2>3. IsLast(Seen(f, n + 1, serial), n + 1)
    BY <2>1 DEF IsLast, Seen
  <2>4. QED BY <1>2, <2>1, <2>2, <2>3, Zenon DEF OneSeenMore
<1>3. CASE f[n + 1].page.serial # serial
  BY <1>1, <1>3 DEF Seen
<1>4. QED BY <1>2, <1>3

\* The pages before the last of a bitstream are those seen before it.
LEMMA SeenBefore ==
  ASSUME NEW f, NEW n \in Nat, NEW serial, NEW l \in Seen(f, n, serial)
  PROVE  /\ l \in 1 .. n /\ f[l].page.serial = serial
         /\ Seen(f, l - 1, f[l].page.serial) = {j \in Seen(f, n, serial) : j < l}
BY DEF Seen

LEMMA LastExists ==
  ASSUME NEW n \in Nat, NEW S \in SUBSET (1 .. n), S # {}
  PROVE  \E k \in S : IsLast(S, k)
<1> DEFINE T == {n - k : k \in S}
<1>1. T \in SUBSET Nat /\ T # {}
  <2>1. PICK k \in S : TRUE
    OBVIOUS
  <2>2. n - k \in T
    BY <2>1
  <2>3. \A i \in S : n - i \in Nat
    OBVIOUS
  <2>4. QED BY <2>2, <2>3
<1>2. PICK x \in T : \A y \in T : x <= y
  BY <1>1, LeastNatural
<1>3. PICK k \in S : x = n - k
  BY <1>2
<1>4. ASSUME NEW j \in S PROVE j <= k
  <2>1. n - k <= n - j
    BY <1>2, <1>3, <1>4
  <2>2. QED BY <2>1
<1>5. QED BY <1>4 DEF IsLast

LEMMA LastUnique ==
  ASSUME NEW S \in SUBSET Nat, NEW j, NEW k, IsLast(S, j), IsLast(S, k)
  PROVE  j = k
BY DEF IsLast

LEMMA GoodNextPage ==
  ASSUME NEW f, NEW n \in Nat
  PROVE  GoodUpTo(f, n + 1) <=> GoodUpTo(f, n) /\ GoodPage(f, n + 1)
<1>1. 1 .. n + 1 = (1 .. n) \cup {n + 1}
  OBVIOUS
<1>2. QED BY <1>1, Zenon DEF GoodUpTo

\* In a good bitstream only the last page may end it.
LEMMA EndedAtLast ==
  ASSUME NEW f, NEW n \in Nat, NEW serial, GoodUpTo(f, n),
         NEW l, IsLast(Seen(f, n, serial), l), NEW j \in Seen(f, n, serial), f[j].page.eos
  PROVE  j = l
<1>1. l \in Seen(f, n, serial) /\ l \in 1 .. n /\ j \in 1 .. n /\ j <= l
  BY DEF IsLast, Seen
<1>2. ASSUME j # l PROVE FALSE
  <2>1. j \in Seen(f, l - 1, f[l].page.serial)
    BY <1>1, <1>2, SeenBefore
  <2>2. GoodPage(f, l)
    BY <1>1 DEF GoodUpTo
  <2>3. QED BY <2>1, <2>2 DEF GoodPage, GoodAgainst
<1>3. QED BY <1>2

\* Every bitstream ends.
Ended(f) == \A k \in 1 .. Len(f) : \E j \in Seen(f, Len(f), f[k].page.serial) : f[j].page.eos

LEMMA OfSerialSeen ==
  ASSUME NEW f \in Seq(Item), NEW serial
  PROVE  OfSerial(f, serial) = Seen(f, Len(f), serial) /\ DOMAIN f = 1 .. Len(f) /\ Len(f) \in Nat
BY DEF OfSerial, Seen

LEMMA GoodOfWellFormed ==
  ASSUME NEW f \in Seq(Item), WellFormed(f), NEW k \in 1 .. Len(f)
  PROVE  GoodPage(f, k)
<1> DEFINE s      == f[k].page.serial
           S      == Seen(f, Len(f), s)
           page   == f[k].page
           before == {j \in S : j < k}
<1>1. k \in S /\ k \in DOMAIN f /\ Len(f) \in Nat
  BY DEF Seen
<1>2. f[k].state = "ok" /\ (page.bos => Grouped(f, k)) /\ WellFormedStream(f, S)
  BY <1>1, OfSerialSeen DEF WellFormed
<1>3. /\ page.bos <=> before = {}
      /\ page.eos <=> IsLast(S, k)
      /\ page.seq = Cardinality(before) % SeqSpace
      /\ page.cont <=> \E j \in before : IsLast(before, j) /\ EndsOpen(f[j].page)
      /\ page.laces # <<>> => (page.granule = -1 <=> Completed(page) = 0)
      /\ \A j \in before : Completed(page) > 0 /\ Completed(f[j].page) > 0 =>
                             f[j].page.granule <= page.granule
      /\ page.eos => ~EndsOpen(page)
  BY <1>1, <1>2, Zenon DEF WellFormedStream
<1>4. \A j \in before : ~f[j].page.eos
  <2>1. SUFFICES ASSUME NEW j \in before, f[j].page.eos PROVE FALSE
    OBVIOUS
  <2>2. j \in S /\ f[j].page.serial = s /\ j \in 1 .. Len(f) /\ j < k
    BY DEF Seen
  <2>3. f[j].page.eos => IsLast(S, j)
    BY <1>2, <2>2, Zenon DEF WellFormedStream
  <2>4. k <= j
    BY <1>1, <2>1, <2>3 DEF IsLast
  <2>5. QED BY <1>1, <2>2, <2>4
<1>5. before = Seen(f, k - 1, page.serial)
  BY <1>1, SeenBefore
<1> HIDE DEF page, before
<1>6. GoodPage(f, k) <=> f[k].state = "ok" /\ GoodAgainst(f, k, page, before)
  BY <1>5, Zenon DEF GoodPage, page
<1>7. QED BY <1>2, <1>3, <1>4, <1>6, Zenon DEF GoodAgainst

LEMMA StreamOfGood ==
  ASSUME NEW f \in Seq(Item), GoodUpTo(f, Len(f)), Ended(f), NEW serial
  PROVE  WellFormedStream(f, Seen(f, Len(f), serial))
<1> DEFINE S == Seen(f, Len(f), serial)
<1> SUFFICES ASSUME NEW k \in S
             PROVE  LET page   == f[k].page
                        before == {j \in S : j < k}
                    IN /\ page.bos <=> before = {}
                       /\ page.eos <=> IsLast(S, k)
                       /\ page.seq = Cardinality(before) % SeqSpace
                       /\ page.cont <=> \E j \in before : IsLast(before, j) /\ EndsOpen(f[j].page)
                       /\ page.laces # <<>> => (page.granule = -1 <=> Completed(page) = 0)
                       /\ \A j \in before : Completed(page) > 0 /\ Completed(f[j].page) > 0 =>
                                              f[j].page.granule <= page.granule
                       /\ page.eos => ~EndsOpen(page)
  BY Zenon DEF WellFormedStream
<1>1. k \in 1 .. Len(f) /\ f[k].page.serial = serial /\ Len(f) \in Nat
  BY DEF Seen
<1>2. Seen(f, k - 1, f[k].page.serial) = {j \in S : j < k}
  BY <1>1, SeenBefore
<1>3. GoodPage(f, k)
  BY <1>1 DEF GoodUpTo
<1>4. PICK l \in S : IsLast(S, l)
  <2>1. S \in SUBSET (1 .. Len(f)) /\ S # {}
    BY DEF Seen
  <2>2. QED BY <1>1, <2>1, LastExists
<1>5. PICK e \in S : f[e].page.eos
  BY <1>1 DEF Ended
<1>6. \A j \in S : f[j].page.eos => j = l
  BY <1>1, <1>4, EndedAtLast
<1>7. f[k].page.eos <=> IsLast(S, k)
  <2>1. S \in SUBSET Nat
    BY DEF Seen
  <2>2. IsLast(S, k) => k = l
    BY <1>4, <2>1, LastUnique
  <2>3. QED BY <1>4, <1>5, <1>6, <2>2
<1>8. QED BY <1>2, <1>3, <1>7, Zenon DEF GoodPage, GoodAgainst

\* RFC 3533 of a file is RFC 3533 of each of its pages, and an end to every
\* bitstream.
LEMMA WellFormedPages ==
  ASSUME NEW f \in Seq(Item)
  PROVE  WellFormed(f) <=> f # <<>> /\ GoodUpTo(f, Len(f)) /\ Ended(f)
<1>1. DOMAIN f = 1 .. Len(f) /\ Len(f) \in Nat
  OBVIOUS
<1>2. ASSUME WellFormed(f) PROVE f # <<>> /\ GoodUpTo(f, Len(f)) /\ Ended(f)
  <2>1. f # <<>>
    BY <1>2 DEF WellFormed
  <2>2. GoodUpTo(f, Len(f))
    BY <1>2, GoodOfWellFormed DEF GoodUpTo
  <2>3. ASSUME NEW k \in 1 .. Len(f)
        PROVE  \E j \in Seen(f, Len(f), f[k].page.serial) : f[j].page.eos
    <3> DEFINE S == Seen(f, Len(f), f[k].page.serial)
    <3>1. S \in SUBSET (1 .. Len(f)) /\ S # {}
      BY DEF Seen
    <3>2. PICK l \in S : IsLast(S, l)
      BY <1>1, <3>1, LastExists
    <3>3. WellFormedStream(f, S)
      BY <1>1, <1>2, OfSerialSeen DEF WellFormed
    <3>4. f[l].page.eos <=> IsLast(S, l)
      BY <3>2, <3>3, Zenon DEF WellFormedStream
    <3>5. QED BY <3>2, <3>4
  <2>4. QED BY <2>1, <2>2, <2>3 DEF Ended
<1>3. ASSUME f # <<>>, GoodUpTo(f, Len(f)), Ended(f) PROVE WellFormed(f)
  <2>1. \A k \in DOMAIN f : GoodPage(f, k)
    BY <1>1, <1>3 DEF GoodUpTo
  <2>2. \A k \in DOMAIN f : f[k].state = "ok" /\ (f[k].page.bos => Grouped(f, k))
    BY <2>1, Zenon DEF GoodPage, GoodAgainst
  <2>3. \A k \in DOMAIN f : WellFormedStream(f, OfSerial(f, f[k].page.serial))
    BY <1>3, StreamOfGood, OfSerialSeen
  <2>4. QED BY <1>3, <2>2, <2>3 DEF WellFormed
<1>4. QED BY <1>2, <1>3

\* One page that breaks a rule, and the file does.
LEMMA OneBadPage ==
  ASSUME NEW f \in Seq(Item), NEW k \in 1 .. Len(f), ~GoodPage(f, k)
  PROVE  ~WellFormed(f)
BY GoodOfWellFormed

-----------------------------------------------------------------------------
(* Models.                                                                 *)

\* A model's eos is set exactly when a page of its bitstream ended it.
LEMMA ModelEos ==
  ASSUME NEW f, NEW n \in Nat, NEW serial, GoodUpTo(f, n),
         NEW m, ModelOf(f, Seen(f, n, serial), m)
  PROVE  m.eos <=> \E j \in Seen(f, n, serial) : f[j].page.eos
<1>1. PICK l \in Seen(f, n, serial) : IsLast(Seen(f, n, serial), l) /\ (m.eos <=> f[l].page.eos)
  BY Zenon DEF ModelOf
<1>2. \A j \in Seen(f, n, serial) : f[j].page.eos => j = l
  BY <1>1, EndedAtLast
<1>3. QED BY <1>1, <1>2

\* What its first page, or one more, makes of the model of a bitstream.
LEMMA ModelNext ==
  ASSUME NEW f \in Seq(Item), NEW n \in Nat, n + 1 <= Len(f), GoodPage(f, n + 1),
         NEW m \in StreamModel,
         \/ Seen(f, n, f[n + 1].page.serial) = {} /\ m = Fresh(f[n + 1].page)
         \/ ModelOf(f, Seen(f, n, f[n + 1].page.serial), m) /\ ~m.eos
  PROVE  ModelOf(f, Seen(f, n + 1, f[n + 1].page.serial), Rebaselined(f[n + 1].page, m))
<1> DEFINE page   == f[n + 1].page
           before == Seen(f, n, page.serial)
           seen   == Seen(f, n + 1, page.serial)
<1>1. page \in Page /\ page.granule \in Int /\ n + 1 \in 1 .. Len(f)
  BY ItemType
<1>2. before \in SUBSET (1 .. n) /\ Cardinality(before) \in Nat
  BY SeenFacts
<1>3. /\ seen = before \cup {n + 1} /\ Cardinality(seen) = Cardinality(before) + 1
      /\ IsLast(seen, n + 1)
  <2>1. OneSeenMore(f, n, page.serial)
    BY SeenNext
  <2>2. QED BY <2>1, Zenon DEF OneSeenMore
<1>4. PICK w : w = Rebaselined(page, m)
  OBVIOUS
<1>5. /\ w.last_seq = page.seq /\ w.open_packet = EndsOpen(page) /\ (w.eos <=> m.eos \/ page.eos)
      /\ w.last_granule = IF Completed(page) > 0 /\ page.granule # -1 THEN page.granule
                          ELSE m.last_granule
      /\ w.tainted = m.tainted /\ w.after_eos_reported = m.after_eos_reported
  BY <1>1, <1>4, RebaselinedFields
<1>6. /\ page.seq = Cardinality(before) % SeqSpace
      /\ page.laces # <<>> => (page.granule = -1 <=> Completed(page) = 0)
      /\ \A j \in before : Completed(page) > 0 /\ Completed(f[j].page) > 0 =>
                             f[j].page.granule <= page.granule
  <2>1. (n + 1) - 1 = n
    OBVIOUS
  <2>2. QED BY <2>1, Zenon DEF GoodPage, GoodAgainst
<1>7. Completed(page) \in Nat /\ (Completed(page) > 0 => page.granule # -1)
  BY <1>1, <1>6, CompletedType
<1>8. ~m.eos /\ ~m.tainted /\ ~m.after_eos_reported
  BY DEF Fresh, ModelOf
<1>9. /\ \A j \in before : Completed(f[j].page) > 0 =>
                             m.last_granule # -1 /\ f[j].page.granule <= m.last_granule
      /\ m.last_granule # -1 => \E j \in before : /\ Completed(f[j].page) > 0
                                                  /\ f[j].page.granule = m.last_granule
  BY DEF Fresh, ModelOf
<1>10. w.last_seq = (Cardinality(seen) - 1) % SeqSpace
  BY <1>2, <1>3, <1>5, <1>6
<1>11. \A j \in seen : Completed(f[j].page) > 0 =>
                         w.last_granule # -1 /\ f[j].page.granule <= w.last_granule
  <2>1. CASE Completed(page) > 0
    <3>1. w.last_granule = page.granule /\ page.granule # -1
      BY <1>5, <1>7, <2>1
    <3>2. \A j \in before : Completed(f[j].page) > 0 => f[j].page.granule <= page.granule
      BY <1>6, <2>1
    <3>3. page.granule <= page.granule
      BY <1>1
    <3>4. QED BY <1>3, <3>1, <3>2, <3>3
  <2>2. CASE ~(Completed(page) > 0)
    <3>1. w.last_granule = m.last_granule
      BY <1>5, <2>2
    <3>2. QED BY <1>3, <1>9, <2>2, <3>1
  <2>3. QED BY <2>1, <2>2
<1>12. w.last_granule # -1 => \E j \in seen : /\ Completed(f[j].page) > 0
                                              /\ f[j].page.granule = w.last_granule
  <2>1. CASE Completed(page) > 0
    BY <1>3, <1>5, <1>7, <2>1
  <2>2. CASE ~(Completed(page) > 0)
    <3>1. w.last_granule = m.last_granule
      BY <1>5, <2>2
    <3>2. QED BY <1>3, <1>9, <3>1
  <2>3. QED BY <2>1, <2>2
<1>13. \E j \in seen : /\ IsLast(seen, j)
                       /\ w.open_packet <=> EndsOpen(f[j].page)
                       /\ w.eos <=> f[j].page.eos
  BY <1>3, <1>5, <1>8
<1>14. ~w.tainted /\ ~w.after_eos_reported
  BY <1>5, <1>8
<1> HIDE DEF page, seen
<1>15. ModelOf(f, seen, w)
  BY <1>10, <1>11, <1>12, <1>13, <1>14, Zenon DEF ModelOf
<1>16. QED BY <1>4, <1>15 DEF page, seen

\* A page of one bitstream leaves the models of the others what they are.
LEMMA OtherModels ==
  ASSUME NEW f, NEW n \in Nat, NEW serial, f[n + 1].page.serial # serial,
         NEW m, ModelOf(f, Seen(f, n, serial), m)
  PROVE  ModelOf(f, Seen(f, n + 1, serial), m)
<1>1. Seen(f, n + 1, serial) = Seen(f, n, serial)
  BY SeenNext
<1>2. QED BY <1>1

\* A bitstream is seen exactly when the walk knows it or knew it in a link before.
LEMMA SeenKnown ==
  ASSUME NEW f, NEW n \in Nat, NEW models, NEW closed, StreamsOf(f, n, models, closed), NEW serial
  PROVE  Seen(f, n, serial) # {} <=> serial \in DOMAIN models \cup closed
<1>1. ASSUME NEW j \in Seen(f, n, serial) PROVE serial \in DOMAIN models \cup closed
  BY <1>1 DEF StreamsOf, Seen
<1>2. ASSUME serial \in DOMAIN models PROVE Seen(f, n, serial) # {}
  <2>1. ModelOf(f, Seen(f, n, serial), models[serial])
    BY <1>2 DEF StreamsOf
  <2>2. QED BY <2>1, Zenon DEF ModelOf
<1>3. ASSUME serial \in closed PROVE Seen(f, n, serial) # {}
  BY <1>3 DEF StreamsOf
<1>4. QED BY <1>1, <1>2, <1>3

\* One page more, of a bitstream the link knows or of one it opens.
LEMMA StreamsNext ==
  ASSUME NEW f \in Seq(Item), NEW n \in Nat, n + 1 <= Len(f), GoodPage(f, n + 1),
         NEW models, NEW closed, StreamsOf(f, n, models, closed), NEW m \in StreamModel,
         \/ Seen(f, n, f[n + 1].page.serial) = {} /\ m = Fresh(f[n + 1].page)
         \/ /\ f[n + 1].page.serial \in DOMAIN models
            /\ m = models[f[n + 1].page.serial] /\ ~m.eos
  PROVE  StreamsOf(f, n + 1, Insert(models, f[n + 1].page.serial, Rebaselined(f[n + 1].page, m)), closed)
<1> DEFINE s == f[n + 1].page.serial
           w == Rebaselined(f[n + 1].page, m)
           after == Insert(models, s, w)
<1>1. DOMAIN after = DOMAIN models \cup {s} /\ after[s] = w
      /\ \A k \in DOMAIN models : k # s => after[k] = models[k]
  <2> HIDE DEF s, w
  <2>1. QED BY DEF Insert
<1>2. ModelOf(f, Seen(f, n + 1, s), w)
  <2>1. s \in DOMAIN models => ModelOf(f, Seen(f, n, s), models[s])
    BY DEF StreamsOf
  <2>2. QED BY <2>1, ModelNext
<1>3. s \notin closed
  <2>1. Seen(f, n, s) = {} => s \notin closed
    BY SeenKnown
  <2>2. QED BY <2>1 DEF StreamsOf
<1> HIDE DEF s, w, after
<1>4. \A k \in 1 .. n + 1 : f[k].page.serial \in DOMAIN after \cup closed
  <2>1. 1 .. n + 1 = (1 .. n) \cup {n + 1}
    OBVIOUS
  <2>2. QED BY <1>1, <2>1 DEF StreamsOf, s
<1>5. DOMAIN after \cap closed = {}
  BY <1>1, <1>3 DEF StreamsOf
<1>6. ASSUME NEW serial \in DOMAIN after
      PROVE  ModelOf(f, Seen(f, n + 1, serial), after[serial])
  <2>1. CASE serial = s
    BY <1>1, <1>2, <2>1
  <2>2. CASE serial # s
    <3>1. serial \in DOMAIN models /\ after[serial] = models[serial]
      BY <1>1, <2>2
    <3>2. ModelOf(f, Seen(f, n, serial), models[serial]) /\ f[n + 1].page.serial # serial
      BY <2>2, <3>1 DEF StreamsOf, s
    <3>3. QED BY <3>1, <3>2, OtherModels
  <2>3. QED BY <2>1, <2>2
<1>7. ASSUME NEW serial \in closed
      PROVE  \E j \in Seen(f, n + 1, serial) : f[j].page.eos
  <2>1. PICK j \in Seen(f, n, serial) : f[j].page.eos
    BY DEF StreamsOf
  <2>2. j \in Seen(f, n + 1, serial)
    BY DEF Seen
  <2>3. QED BY <2>1, <2>2
<1>8. StreamsOf(f, n + 1, after, closed)
  BY <1>4, <1>5, <1>6, <1>7, Zenon DEF StreamsOf
<1>9. QED BY <1>8 DEF s, w, after

\* A link that ends gives its bitstreams, each with its last page, to those before.
LEMMA StreamsClosed ==
  ASSUME NEW f, NEW n \in Nat, NEW models, NEW closed, StreamsOf(f, n, models, closed),
         \A serial \in DOMAIN models : models[serial].eos
  PROVE  StreamsOf(f, n, <<>>, closed \cup DOMAIN models)
<1>1. DOMAIN <<>> = {}
  BY NoneLive
<1>2. \A serial \in DOMAIN models : \E j \in Seen(f, n, serial) : f[j].page.eos
  <2>1. SUFFICES ASSUME NEW serial \in DOMAIN models
                 PROVE  \E j \in Seen(f, n, serial) : f[j].page.eos
    OBVIOUS
  <2>2. ModelOf(f, Seen(f, n, serial), models[serial])
    BY DEF StreamsOf
  <2>3. QED BY <2>2, Zenon DEF ModelOf
<1>3. /\ \A k \in 1 .. n : f[k].page.serial \in DOMAIN models \cup closed
      /\ \A serial \in closed : \E j \in Seen(f, n, serial) : f[j].page.eos
  BY Zenon DEF StreamsOf
<1>4. QED BY <1>1, <1>2, <1>3 DEF StreamsOf

-----------------------------------------------------------------------------
(* What a page is checked against is what RFC 3533 says of it.             *)

\* The bitstreams passed have all ended exactly when those of the link have.
LEMMA GroupedClosed ==
  ASSUME NEW f, NEW n \in Nat, GoodUpTo(f, n), NEW models, NEW closed,
         StreamsOf(f, n, models, closed)
  PROVE  Grouped(f, n + 1) <=> \/ n = 0 \/ f[n].page.bos
                               \/ \A serial \in DOMAIN models : models[serial].eos
<1>1. Grouped(f, n + 1) <=> \/ n = 0 \/ f[n].page.bos
                            \/ \A j \in 1 .. n : \E m \in 1 .. n :
                                 f[m].page.serial = f[j].page.serial /\ f[m].page.eos
  <2>1. (n + 1) - 1 = n /\ (n + 1 = 1 <=> n = 0)
    OBVIOUS
  <2>2. QED BY <2>1, Zenon DEF Grouped
<1>2. ASSUME \A serial \in DOMAIN models : models[serial].eos, NEW j \in 1 .. n
      PROVE  \E m \in 1 .. n : f[m].page.serial = f[j].page.serial /\ f[m].page.eos
  <2>1. PICK serial \in DOMAIN models \cup closed : serial = f[j].page.serial
    BY DEF StreamsOf
  <2>2. \E m \in Seen(f, n, serial) : f[m].page.eos
    <3>1. CASE serial \in DOMAIN models
      <4>1. ModelOf(f, Seen(f, n, serial), models[serial]) /\ models[serial].eos
        BY <1>2, <3>1 DEF StreamsOf
      <4>2. QED BY <4>1, Zenon DEF ModelOf
    <3>2. CASE serial \in closed
      BY <3>2 DEF StreamsOf
    <3>3. QED BY <2>1, <3>1, <3>2
  <2>3. QED BY <2>1, <2>2 DEF Seen
<1>3. ASSUME \A j \in 1 .. n : \E m \in 1 .. n :
               f[m].page.serial = f[j].page.serial /\ f[m].page.eos,
             NEW serial \in DOMAIN models
      PROVE  models[serial].eos
  <2>1. ModelOf(f, Seen(f, n, serial), models[serial])
    BY DEF StreamsOf
  <2>2. PICK j \in Seen(f, n, serial) : TRUE
    BY <2>1, Zenon DEF ModelOf
  <2>3. PICK m \in 1 .. n : f[m].page.serial = serial /\ f[m].page.eos
    BY <1>3, <2>2 DEF Seen
  <2>4. m \in Seen(f, n, serial)
    BY <2>3 DEF Seen
  <2>5. QED BY <2>1, <2>3, <2>4, ModelEos
<1>4. QED BY <1>1, <1>2, <1>3

\* Here, with the pages passed counted by n.
LEMMA CleanHere ==
  ASSUME TypeInv, CleanSoFar, At("ok")
  PROVE  \E n \in Nat :
           /\ n = pos - 1 /\ n + 1 = pos /\ n + 1 <= Len(data) /\ data \in Seq(Item)
           /\ GoodUpTo(data, n) /\ StreamsOf(data, n, live, finished)
           /\ link_has_data <=> n # 0 /\ ~data[n].page.bos
           /\ Counted(data, n, report)
           /\ Here.page = data[n + 1].page /\ data[n + 1].state = "ok"
           /\ Here.page \in Page /\ LiveOK(live) /\ (Known => Model \in StreamModel)
<1>1. /\ pos \in 1 .. Len(data) /\ Len(data) \in Nat /\ data[pos].state = "ok"
      /\ Here.page \in Page /\ LiveOK(live) /\ (Known => Model \in StreamModel)
      /\ data \in Seq(Item)
  BY PageHere DEF TypeInv, WalkOK
<1>2. PICK n \in Nat : n = pos - 1
  BY <1>1
<1>3. n + 1 = pos /\ n + 1 <= Len(data) /\ (pos > 1 <=> n # 0)
  BY <1>1, <1>2
<1>4. /\ GoodUpTo(data, n) /\ StreamsOf(data, n, live, finished) /\ Counted(data, n, report)
      /\ link_has_data <=> n # 0 /\ ~data[n].page.bos
  BY <1>2, <1>3, Zenon DEF CleanSoFar
<1>5. Here.page = data[n + 1].page
  BY <1>3 DEF Here
<1>6. QED BY <1>1, <1>2, <1>3, <1>4, <1>5

\* GoodPage of the page after the first n, with what is before it named.
LEMMA GoodAfter ==
  ASSUME NEW f, NEW n \in Nat, NEW page, page = f[n + 1].page,
         NEW before, before = Seen(f, n, page.serial), f[n + 1].state = "ok"
  PROVE  GoodPage(f, n + 1) <=> GoodAgainst(f, n + 1, page, before)
<1>1. (n + 1) - 1 = n
  OBVIOUS
<1>2. QED BY <1>1, Zenon DEF GoodPage

LEMMA BosGood ==
  ASSUME TypeInv, CleanSoFar, At("ok"), Here.page.bos
  PROVE  Len(BosRules) = 0 <=> GoodPage(data, pos)
<1>1. PICK n \in Nat :
        /\ n = pos - 1 /\ n + 1 = pos /\ n + 1 <= Len(data) /\ data \in Seq(Item)
        /\ GoodUpTo(data, n) /\ StreamsOf(data, n, live, finished)
        /\ link_has_data <=> n # 0 /\ ~data[n].page.bos
        /\ Here.page = data[n + 1].page /\ data[n + 1].state = "ok" /\ Here.page \in Page
  BY CleanHere
<1>2. PICK page : page = Here.page
  OBVIOUS
<1>3. PICK before : before = Seen(data, n, page.serial)
  OBVIOUS
<1>4. before # {} <=> page.serial \in DOMAIN live \cup finished
  BY <1>1, <1>3, SeenKnown
<1>5. Duplicate \/ Reuse <=> before # {}
  BY <1>2, <1>4 DEF Duplicate, Reuse, Known
<1>6. Grouped(data, n + 1) <=> n = 0 \/ data[n].page.bos \/ AllClosed
  BY <1>1, GroupedClosed DEF AllClosed
<1>7. /\ Len(BosRules) = 0 <=>
           /\ ~page.cont /\ page.seq = 0 /\ ~Duplicate /\ ~Reuse
           /\ ~(link_has_data /\ ~Duplicate /\ ~AllClosed)
           /\ SoundPage(page, Fresh(page))
  BY <1>1, <1>2, BosRulesFacts
<1>8. SoundPage(page, Fresh(page)) <=>
        /\ page.laces # <<>> => (page.granule = -1 <=> Completed(page) = 0)
        /\ page.eos => ~EndsOpen(page)
  <2>1. ~GranuleFell(page, Fresh(page))
    BY DEF GranuleFell, Fresh
  <2>2. QED BY <2>1, Zenon DEF SoundPage
<1>9. GoodPage(data, n + 1) <=>
        /\ page.bos <=> before = {}
        /\ page.seq = Cardinality(before) % SeqSpace
        /\ page.cont <=> \E j \in before : IsLast(before, j) /\ EndsOpen(data[j].page)
        /\ page.laces # <<>> => (page.granule = -1 <=> Completed(page) = 0)
        /\ \A j \in before : Completed(page) > 0 /\ Completed(data[j].page) > 0 =>
                               data[j].page.granule <= page.granule
        /\ page.eos => ~EndsOpen(page)
        /\ \A j \in before : ~data[j].page.eos
        /\ page.bos => Grouped(data, n + 1)
  <2>1. GoodPage(data, n + 1) <=> GoodAgainst(data, n + 1, page, before)
    BY <1>1, <1>2, <1>3, GoodAfter
  <2>2. QED BY <2>1, Zenon DEF GoodAgainst
<1>10. page.bos
  BY <1>2
<1>11. CASE before = {}
  <2>1. Cardinality(before) % SeqSpace = 0
    <3>1. Cardinality(before) = 0
      BY <1>11, FS_EmptySet
    <3>2. 0 % SeqSpace = 0
      BY ValidateAssumption
    <3>3. QED BY <3>1, <3>2
  <2>2. GoodPage(data, n + 1) <=>
          /\ ~page.cont /\ page.seq = 0 /\ Grouped(data, n + 1)
          /\ page.laces # <<>> => (page.granule = -1 <=> Completed(page) = 0)
          /\ page.eos => ~EndsOpen(page)
    BY <1>9, <1>10, <1>11, <2>1
  <2>3. ~Duplicate /\ ~Reuse
    BY <1>5, <1>11
  <2>4. Grouped(data, n + 1) <=> ~(link_has_data /\ ~Duplicate /\ ~AllClosed)
    BY <1>1, <1>6, <2>3, Zenon
  <2>5. QED BY <1>1, <1>7, <1>8, <2>2, <2>3, <2>4, Zenon
<1>12. CASE before # {}
  <2>1. ~GoodPage(data, n + 1)
    BY <1>9, <1>10, <1>12
  <2>2. ~(Len(BosRules) = 0)
    BY <1>5, <1>7, <1>12, Zenon
  <2>3. QED BY <1>1, <2>1, <2>2
<1>13. QED BY <1>11, <1>12

\* A page of data of a bitstream the link knows and that has not ended.
LEMMA OrdinaryHere ==
  ASSUME TypeInv, CleanSoFar, At("ok"), ~Here.page.bos, Known, ~Model.eos
  PROVE  /\ ~Model.tainted
         /\ GoodPage(data, pos) => Distance = 1
         /\ Distance = 1 =>
              (GoodPage(data, pos) <=> (Here.page.cont <=> Model.open_packet)
                                       /\ SoundPage(Here.page, Model))
<1>1. PICK n \in Nat :
        /\ n = pos - 1 /\ n + 1 = pos /\ n + 1 <= Len(data) /\ data \in Seq(Item)
        /\ GoodUpTo(data, n) /\ StreamsOf(data, n, live, finished)
        /\ Here.page = data[n + 1].page /\ data[n + 1].state = "ok" /\ Here.page \in Page
        /\ Model \in StreamModel
  BY CleanHere
<1>2. PICK page : page = Here.page
  OBVIOUS
<1>3. PICK before : before = Seen(data, n, page.serial)
  OBVIOUS
<1>4. PICK m : m = Model
  OBVIOUS
<1>5. ModelOf(data, before, m)
  BY <1>1, <1>2, <1>3, <1>4 DEF StreamsOf, Known, Model
<1>6. PICK l \in before : IsLast(before, l) /\ (m.open_packet <=> EndsOpen(data[l].page))
  BY <1>5, Zenon DEF ModelOf
<1>7. before \in SUBSET Nat /\ Cardinality(before) \in Nat /\ Cardinality(before) # 0
  BY <1>3, <1>6, SeenFacts
<1>8. m.open_packet <=> \E j \in before : IsLast(before, j) /\ EndsOpen(data[j].page)
  BY <1>6, <1>7, LastUnique
<1>9. \A j \in before : ~data[j].page.eos
  BY <1>1, <1>3, <1>4, <1>5, ModelEos
<1>10. Distance = 1 <=> page.seq = Cardinality(before) % SeqSpace
  <2>1. m.last_seq = (Cardinality(before) - 1) % SeqSpace
    BY <1>5, Zenon DEF ModelOf
  <2>2. PICK c \in Nat : c = Cardinality(before) - 1 /\ c + 1 = Cardinality(before)
    BY <1>7
  <2>3. page.seq \in 0 .. SeqSpace - 1
    BY <1>1, <1>2 DEF Page
  <2>4. (page.seq - (c % SeqSpace)) % SeqSpace = 1 <=> page.seq = (c + 1) % SeqSpace
    BY <2>3, ValidateAssumption, OnePast
  <2>5. Distance = (page.seq - m.last_seq) % SeqSpace
    BY <1>2, <1>4 DEF Distance
  <2>6. QED BY <2>1, <2>2, <2>4, <2>5
<1>11. GoodPage(data, n + 1) <=>
        /\ page.bos <=> before = {}
        /\ page.seq = Cardinality(before) % SeqSpace
        /\ page.cont <=> \E j \in before : IsLast(before, j) /\ EndsOpen(data[j].page)
        /\ page.laces # <<>> => (page.granule = -1 <=> Completed(page) = 0)
        /\ \A j \in before : Completed(page) > 0 /\ Completed(data[j].page) > 0 =>
                               data[j].page.granule <= page.granule
        /\ page.eos => ~EndsOpen(page)
        /\ \A j \in before : ~data[j].page.eos
        /\ page.bos => Grouped(data, n + 1)
  <2>1. GoodPage(data, n + 1) <=> GoodAgainst(data, n + 1, page, before)
    BY <1>1, <1>2, <1>3, GoodAfter
  <2>2. QED BY <2>1, Zenon DEF GoodAgainst
<1>12. ASSUME page.laces # <<>> => (page.granule = -1 <=> Completed(page) = 0)
       PROVE  ~GranuleFell(page, m) <=>
                \A j \in before : Completed(page) > 0 /\ Completed(data[j].page) > 0 =>
                                    data[j].page.granule <= page.granule
  <2>1. Completed(page) \in Nat /\ (Completed(page) > 0 => page.granule # -1)
    BY <1>1, <1>2, <1>12, CompletedType
  <2>2. /\ \A j \in before : Completed(data[j].page) > 0 =>
                               m.last_granule # -1 /\ data[j].page.granule <= m.last_granule
        /\ m.last_granule # -1 => \E j \in before : /\ Completed(data[j].page) > 0
                                                    /\ data[j].page.granule = m.last_granule
    BY <1>5, Zenon DEF ModelOf
  <2>3. page.granule \in Int /\ m.last_granule \in Int
    BY <1>1, <1>2, <1>4 DEF Page, StreamModel
  <2>4. \A j \in before : data[j].page.granule \in Int
    <3>1. \A j \in before : j \in 1 .. Len(data)
      BY <1>1, <1>3 DEF Seen
    <3>2. QED BY <1>1, <3>1, ItemType
  <2>5. GranuleFell(page, m) <=> /\ Completed(page) > 0 /\ page.granule # -1
                                 /\ m.last_granule # -1 /\ page.granule < m.last_granule
    BY Zenon DEF GranuleFell
  <2>6. CASE Completed(page) > 0
    <3>1. CASE m.last_granule = -1
      BY <2>2, <2>5, <2>6, <3>1
    <3>2. CASE m.last_granule # -1
      <4>1. PICK k \in before : Completed(data[k].page) > 0
                                /\ data[k].page.granule = m.last_granule
        BY <2>2, <3>2
      <4>2. ~GranuleFell(page, m) <=> m.last_granule <= page.granule
        BY <2>1, <2>3, <2>5, <2>6, <3>2
      <4>3. ASSUME m.last_granule <= page.granule, NEW j \in before, Completed(data[j].page) > 0
            PROVE  data[j].page.granule <= page.granule
        <5>1. data[j].page.granule <= m.last_granule
          BY <2>2, <4>3
        <5>2. QED BY <2>3, <2>4, <4>3, <5>1
      <4>4. QED BY <2>6, <4>1, <4>2, <4>3
    <3>3. QED BY <3>1, <3>2
  <2>7. CASE ~(Completed(page) > 0)
    BY <2>5, <2>7
  <2>8. QED BY <2>6, <2>7
<1>13. ~m.tainted
  BY <1>5, Zenon DEF ModelOf
<1>14. ~page.bos /\ before # {}
  BY <1>2, <1>6
<1>15. GoodPage(data, n + 1) <=> /\ Distance = 1 /\ (page.cont <=> m.open_packet)
                                 /\ SoundPage(page, m)
  BY <1>8, <1>9, <1>10, <1>11, <1>12, <1>14, Zenon DEF SoundPage
<1>16. QED BY <1>1, <1>2, <1>4, <1>13, <1>15, Zenon

-----------------------------------------------------------------------------
(* Bitstreams and links counted.                                           *)

LEMMA StartsNext ==
  ASSUME NEW f, NEW n \in Nat
  PROVE  /\ f[n + 1].page.bos =>
              Cardinality(Starts(f, n + 1)) = Cardinality(Starts(f, n)) + 1
         /\ ~f[n + 1].page.bos => Starts(f, n + 1) = Starts(f, n)
         /\ f[n + 1].page.bos /\ (n = 0 \/ ~f[n].page.bos) =>
              Cardinality(LinkStarts(f, n + 1)) = Cardinality(LinkStarts(f, n)) + 1
         /\ ~(f[n + 1].page.bos /\ (n = 0 \/ ~f[n].page.bos)) => LinkStarts(f, n + 1) = LinkStarts(f, n)
         /\ Starts(f, 0) = {} /\ LinkStarts(f, 0) = {}
<1>1. 1 .. n + 1 = (1 .. n) \cup {n + 1} /\ n + 1 \notin 1 .. n
  OBVIOUS
<1>2. Starts(f, n) \subseteq 1 .. n /\ LinkStarts(f, n) \subseteq 1 .. n
  BY DEF Starts, LinkStarts
<1>3. IsFiniteSet(Starts(f, n)) /\ IsFiniteSet(LinkStarts(f, n))
  <2>1. IsFiniteSet(1 .. n)
    BY FS_Interval
  <2>2. QED BY <1>2, <2>1, FS_Subset
<1>4. \A k \in Starts(f, n) : k - 1 \in Starts(f, n + 1) <=> k - 1 \in Starts(f, n)
  BY DEF Starts
<1>5. n \in Starts(f, n + 1) <=> n # 0 /\ f[n].page.bos
  BY DEF Starts
<1>6. CASE f[n + 1].page.bos
  <2>1. Starts(f, n + 1) = Starts(f, n) \cup {n + 1} /\ n + 1 \notin Starts(f, n)
    BY <1>1, <1>6 DEF Starts
  <2>2. Cardinality(Starts(f, n + 1)) = Cardinality(Starts(f, n)) + 1
    BY <1>3, <2>1, FS_AddElement
  <2>3. CASE n = 0 \/ ~f[n].page.bos
    <3>1. LinkStarts(f, n + 1) = LinkStarts(f, n) \cup {n + 1} /\ n + 1 \notin LinkStarts(f, n)
      <4>1. (n + 1) - 1 = n /\ (n + 1 = 1 <=> n = 0)
        OBVIOUS
      <4>2. n + 1 = 1 \/ (n + 1) - 1 \notin Starts(f, n + 1)
        BY <1>5, <2>3, <4>1
      <4>3. QED BY <1>1, <1>2, <1>4, <2>1, <4>2 DEF LinkStarts
    <3>2. Cardinality(LinkStarts(f, n + 1)) = Cardinality(LinkStarts(f, n)) + 1
      BY <1>3, <3>1, FS_AddElement
    <3>3. QED BY <1>6, <2>2, <2>3, <3>2 DEF Starts, LinkStarts
  <2>4. CASE ~(n = 0 \/ ~f[n].page.bos)
    <3>1. (n + 1) - 1 = n /\ n + 1 # 1
      BY <2>4
    <3>2. (n + 1) - 1 \in Starts(f, n + 1)
      BY <1>5, <2>4, <3>1
    <3>3. LinkStarts(f, n + 1) = LinkStarts(f, n)
      BY <1>1, <1>2, <1>4, <2>1, <3>1, <3>2 DEF LinkStarts
    <3>4. QED BY <1>6, <2>2, <2>4, <3>3 DEF Starts, LinkStarts
  <2>5. QED BY <2>3, <2>4
<1>7. CASE ~f[n + 1].page.bos
  <2>1. Starts(f, n + 1) = Starts(f, n)
    BY <1>1, <1>7 DEF Starts
  <2>2. QED BY <1>7, <2>1 DEF Starts, LinkStarts
<1>8. QED BY <1>6, <1>7

-----------------------------------------------------------------------------
(* Every step keeps the verdict.                                           *)

\* A clean input one page further.
LEMMA CleanAfter ==
  ASSUME NEW n \in Nat, n + 1 = pos, GoodUpTo(data, n), GoodPage(data, n + 1),
         data' = data, pos' = pos + 1, StreamsOf(data, n + 1, live', finished'),
         link_has_data' <=> ~data[n + 1].page.bos, Counted(data, n + 1, report')
  PROVE  CleanSoFar'
<1>1. pos' - 1 = n + 1 /\ pos' > 1
  OBVIOUS
<1>2. GoodUpTo(data, n + 1)
  BY GoodNextPage
<1>3. /\ GoodUpTo(data, pos' - 1) /\ StreamsOf(data, pos' - 1, live', finished')
      /\ Counted(data, pos' - 1, report')
      /\ link_has_data' <=> pos' > 1 /\ ~data[pos' - 1].page.bos
  BY <1>1, <1>2
<1>4. QED BY <1>3, Zenon DEF CleanSoFar

LEMMA CleanBos ==
  ASSUME TypeInv, CleanSoFar, BosPage, GoodPage(data, pos), Len(BosRules) = 0
  PROVE  CleanSoFar'
<1>1. At("ok") /\ Here.page.bos
  BY DEF BosPage
<1>2. PICK n \in Nat :
        /\ n = pos - 1 /\ n + 1 = pos /\ n + 1 <= Len(data) /\ data \in Seq(Item)
        /\ GoodUpTo(data, n) /\ StreamsOf(data, n, live, finished)
        /\ link_has_data <=> n # 0 /\ ~data[n].page.bos
        /\ Counted(data, n, report)
        /\ Here.page = data[n + 1].page /\ Here.page \in Page
  BY <1>1, CleanHere
<1>3. Taken(BosRules, report.streams + 1, IF NewLink THEN report.links + 1 ELSE report.links)
  BY BosTaken
<1>4. /\ data' = data /\ pos' = pos + 1 /\ report'.pages = report.pages + 1
      /\ report'.junk = report.junk /\ report'.streams = report.streams + 1
      /\ report'.links = IF report.pages = 0 THEN 1 ELSE IF NewLink THEN report.links + 1
                                                         ELSE report.links
  BY <1>3 DEF Taken
<1>5. ~Duplicate /\ ~(link_has_data /\ ~AllClosed)
  BY <1>2, BosRulesFacts
<1>6. NewLink <=> link_has_data
  BY <1>5 DEF NewLink
<1>7. Seen(data, n, data[n + 1].page.serial) = {}
  <2>1. GoodPage(data, n + 1) /\ data[n + 1].page.bos /\ (n + 1) - 1 = n
    BY <1>1, <1>2
  <2>2. QED BY <2>1, Zenon DEF GoodPage, GoodAgainst
<1>8. PICK m : m = Fresh(data[n + 1].page)
  OBVIOUS
<1>9. m \in StreamModel
  BY <1>2, <1>8, FreshType
<1>10. StreamsOf(data, n + 1, live', finished')
  <2>1. CASE NewLink
    <3>1. /\ live' = Insert(<<>>, data[n + 1].page.serial, Rebaselined(data[n + 1].page, m))
          /\ finished' = finished \cup DOMAIN live
      BY <1>2, <1>8, <2>1 DEF BosPage
    <3>2. AllClosed
      BY <2>1 DEF NewLink
    <3>3. StreamsOf(data, n, <<>>, finished \cup DOMAIN live)
      BY <1>2, <3>2, StreamsClosed DEF AllClosed
    <3>4. QED BY <1>2, <1>7, <1>8, <1>9, <3>1, <3>3, StreamsNext
  <2>2. CASE ~NewLink
    <3>1. /\ live' = Insert(live, data[n + 1].page.serial, Rebaselined(data[n + 1].page, m))
          /\ finished' = finished
      BY <1>2, <1>8, <2>2 DEF BosPage, Becomes
    <3>2. QED BY <1>2, <1>7, <1>8, <1>9, <3>1, StreamsNext
  <2>3. QED BY <2>1, <2>2
<1>11. link_has_data' <=> ~data[n + 1].page.bos
  <2>1. ~link_has_data'
    BY <1>6 DEF BosPage
  <2>2. QED BY <1>1, <1>2, <2>1
<1>12. Counted(data, n + 1, report')
  <2>1. /\ report.pages = n /\ report.junk = 0
        /\ report.streams = Cardinality(Starts(data, n))
        /\ report.links = Cardinality(LinkStarts(data, n))
    BY <1>2 DEF Counted
  <2>2. Cardinality(Starts(data, n + 1)) = Cardinality(Starts(data, n)) + 1
    BY <1>1, <1>2, StartsNext
  <2>3. report'.links = Cardinality(LinkStarts(data, n + 1))
    <3>1. CASE n = 0
      <4>1. Cardinality(LinkStarts(data, n)) = 0
        BY <3>1, StartsNext, FS_EmptySet
      <4>2. Cardinality(LinkStarts(data, n + 1)) = Cardinality(LinkStarts(data, n)) + 1
        BY <1>1, <1>2, <3>1, StartsNext
      <4>3. QED BY <1>4, <2>1, <3>1, <4>1, <4>2
    <3>2. CASE n # 0 /\ NewLink
      <4>1. Cardinality(LinkStarts(data, n + 1)) = Cardinality(LinkStarts(data, n)) + 1
        BY <1>1, <1>2, <1>6, <3>2, StartsNext
      <4>2. QED BY <1>4, <2>1, <3>2, <4>1
    <3>3. CASE n # 0 /\ ~NewLink
      <4>1. LinkStarts(data, n + 1) = LinkStarts(data, n)
        BY <1>1, <1>2, <1>6, <3>3, StartsNext
      <4>2. QED BY <1>4, <2>1, <3>3, <4>1
    <3>4. QED BY <3>1, <3>2, <3>3
  <2>4. QED BY <1>4, <2>1, <2>2, <2>3 DEF Counted
<1>13. QED BY <1>2, <1>4, <1>10, <1>11, <1>12, CleanAfter

LEMMA CleanNext ==
  ASSUME TypeInv, CleanSoFar, NextPage, GoodPage(data, pos)
  PROVE  CleanSoFar'
<1>1. /\ At("ok") /\ ~Here.page.bos /\ Known /\ ~Model.eos /\ link_has_data' = TRUE
      /\ finished' = finished /\ Becomes(Rebaselined(Here.page, Model))
  BY DEF NextPage, Ordinary, DataPage
<1>2. PICK n \in Nat :
        /\ n = pos - 1 /\ n + 1 = pos /\ n + 1 <= Len(data) /\ data \in Seq(Item)
        /\ GoodUpTo(data, n) /\ StreamsOf(data, n, live, finished)
        /\ Counted(data, n, report)
        /\ Here.page = data[n + 1].page /\ Here.page \in Page /\ Model \in StreamModel
  BY <1>1, CleanHere
<1>3. Taken(NextRules, report.streams, report.links)
  BY NextTaken
<1>4. /\ data' = data /\ pos' = pos + 1 /\ report'.pages = report.pages + 1
      /\ report'.junk = report.junk /\ report'.streams = report.streams
      /\ report'.links = IF report.pages = 0 THEN 1 ELSE report.links
  BY <1>3 DEF Taken
<1>5. PICK m : m = Model
  OBVIOUS
<1>6. /\ data[n + 1].page.serial \in DOMAIN live /\ m = live[data[n + 1].page.serial] /\ ~m.eos
      /\ live' = Insert(live, data[n + 1].page.serial, Rebaselined(data[n + 1].page, m))
  BY <1>1, <1>2, <1>5 DEF Known, Model, Becomes
<1>7. StreamsOf(data, n + 1, live', finished')
  BY <1>1, <1>2, <1>5, <1>6, StreamsNext
<1>8. n # 0
  <2>1. Seen(data, n, data[n + 1].page.serial) # {}
    BY <1>2, <1>6, SeenKnown
  <2>2. QED BY <2>1 DEF Seen
<1>9. Counted(data, n + 1, report')
  <2>1. Starts(data, n + 1) = Starts(data, n) /\ LinkStarts(data, n + 1) = LinkStarts(data, n)
    BY <1>1, <1>2, StartsNext
  <2>2. QED BY <1>2, <1>4, <1>8, <2>1 DEF Counted
<1>10. link_has_data' <=> ~data[n + 1].page.bos
  BY <1>1, <1>2
<1>11. QED BY <1>2, <1>4, <1>7, <1>9, <1>10, CleanAfter

\* What the walk reports of the other pages is a rule they break.
LEMMA OtherwiseBad ==
  ASSUME TypeInv, CleanSoFar, OrphanPage \/ PageAfterEos \/ TaintedPage \/ HolePage
  PROVE  /\ ~GoodPage(data, pos) /\ ~TaintedPage
         /\ PageAfterEos => Len(When(~Model.after_eos_reported, "PageAfterEos")) > 0
<1>1. At("ok") /\ ~Here.page.bos
  BY DEF OrphanPage, PageAfterEos, TaintedPage, HolePage, Ordinary, DataPage
<1>2. PICK n \in Nat :
        /\ n = pos - 1 /\ n + 1 = pos /\ n + 1 <= Len(data) /\ data \in Seq(Item)
        /\ GoodUpTo(data, n) /\ StreamsOf(data, n, live, finished)
        /\ Here.page = data[n + 1].page /\ data[n + 1].state = "ok" /\ Here.page \in Page
  BY <1>1, CleanHere
<1>3. PICK page : page = Here.page
  OBVIOUS
<1>4. PICK before : before = Seen(data, n, page.serial)
  OBVIOUS
<1>5. GoodPage(data, n + 1) => /\ page.bos <=> before = {}
                               /\ \A j \in before : ~data[j].page.eos
  <2>1. GoodPage(data, n + 1) <=> GoodAgainst(data, n + 1, page, before)
    BY <1>2, <1>3, <1>4, GoodAfter
  <2>2. QED BY <2>1, Zenon DEF GoodAgainst
<1>6. CASE Known /\ Model.eos
  <2>1. ModelOf(data, before, Model)
    BY <1>2, <1>3, <1>4, <1>6 DEF StreamsOf, Known, Model
  <2>2. \E j \in before : data[j].page.eos
    BY <1>6, <2>1, Zenon DEF ModelOf
  <2>3. ~Model.after_eos_reported
    BY <2>1, Zenon DEF ModelOf
  <2>4. ~GoodPage(data, pos)
    BY <1>2, <1>5, <2>2
  <2>5. ~TaintedPage
    BY <1>6 DEF TaintedPage
  <2>6. Len(When(~Model.after_eos_reported, "PageAfterEos")) > 0
    BY <2>3 DEF When
  <2>7. QED BY <2>4, <2>5, <2>6
<1>7. CASE Known /\ ~Model.eos
  <2>1. ~Model.tainted /\ (GoodPage(data, pos) => Distance = 1)
    BY <1>1, <1>7, OrdinaryHere
  <2>2. HolePage
    BY <1>7, <2>1 DEF OrphanPage, PageAfterEos, TaintedPage
  <2>3. ~PageAfterEos /\ ~TaintedPage /\ Distance # 1
    BY <1>7, <2>1, <2>2 DEF PageAfterEos, TaintedPage, HolePage
  <2>4. QED BY <2>1, <2>3
<1>8. CASE ~Known
  <2>1. ~PageAfterEos /\ ~TaintedPage
    BY <1>8 DEF PageAfterEos, TaintedPage
  <2>2. CASE before = {}
    BY <1>1, <1>2, <1>3, <1>5, <2>1, <2>2
  <2>3. CASE before # {}
    <3>1. page.serial \in finished
      BY <1>2, <1>3, <1>4, <1>8, <2>3, SeenKnown DEF Known
    <3>2. \E j \in before : data[j].page.eos
      BY <1>2, <1>4, <3>1 DEF StreamsOf
    <3>3. QED BY <1>2, <1>5, <2>1, <3>2
  <2>4. QED BY <2>2, <2>3
<1>9. QED BY <1>6, <1>7, <1>8

\* Every bitstream of a clean input ends when none of the last link is left open.
LEMMA EndedWhenClosed ==
  ASSUME data \in Seq(Item), pos = Len(data) + 1, CleanSoFar
  PROVE  Ended(data) <=> Unended = {}
<1>1. PICK n \in Nat : n = Len(data)
  OBVIOUS
<1>2. GoodUpTo(data, n) /\ StreamsOf(data, n, live, finished)
  <2>1. pos - 1 = n
    BY <1>1
  <2>2. QED BY <2>1 DEF CleanSoFar
<1>3. ASSUME Ended(data), NEW serial \in DOMAIN live PROVE live[serial].eos
  <2>1. ModelOf(data, Seen(data, n, serial), live[serial])
    BY <1>2 DEF StreamsOf
  <2>2. PICK k \in Seen(data, n, serial) : TRUE
    BY <2>1, Zenon DEF ModelOf
  <2>3. PICK j \in Seen(data, n, serial) : data[j].page.eos
    BY <1>1, <1>3, <2>2 DEF Ended, Seen
  <2>4. QED BY <1>2, <2>1, <2>3, ModelEos
<1>4. ASSUME Unended = {}, NEW k \in 1 .. n
      PROVE  \E j \in Seen(data, n, data[k].page.serial) : data[j].page.eos
  <2>1. PICK serial \in DOMAIN live \cup finished : serial = data[k].page.serial
    BY <1>2 DEF StreamsOf
  <2>2. CASE serial \in DOMAIN live
    <3>1. ModelOf(data, Seen(data, n, serial), live[serial]) /\ live[serial].eos
      BY <1>2, <1>4, <2>2 DEF StreamsOf, Unended
    <3>2. QED BY <2>1, <3>1, Zenon DEF ModelOf
  <2>3. CASE serial \in finished
    BY <1>2, <2>1, <2>3 DEF StreamsOf
  <2>4. QED BY <2>1, <2>2, <2>3
<1>5. QED BY <1>1, <1>3, <1>4 DEF Ended, Unended

LEMMA VerdictInit == Init => Verdict
<1> SUFFICES ASSUME Init PROVE Verdict
  OBVIOUS
<1>1. /\ pos = 1 /\ live = <<>> /\ finished = {} /\ link_has_data = FALSE /\ ~report.complete
      /\ report.issues = <<>> /\ report.suppressed = 0 /\ report.pages = 0 /\ report.junk = 0
      /\ report.streams = 0 /\ report.links = 0
  BY DEF Init
<1>2. TotalOf(report) = 0
  BY <1>1 DEF TotalOf
<1>3. pos - 1 = 0 /\ 1 .. 0 = {}
  BY <1>1
<1>4. GoodUpTo(data, 0)
  BY <1>3 DEF GoodUpTo
<1>5. StreamsOf(data, 0, live, finished)
  BY <1>1, <1>3, NoneLive DEF StreamsOf
<1>6. Counted(data, 0, report)
  BY <1>1, StartsNext, FS_EmptySet DEF Counted
<1>7. CleanSoFar
  BY <1>1, <1>3, <1>4, <1>5, <1>6 DEF CleanSoFar
<1>8. QED BY <1>1, <1>2, <1>7 DEF Verdict

\* Nothing is taken back of what was reported.
LEMMA ToldBefore ==
  ASSUME TypeInv, Verdict, ~report.complete, data' = data, report'.complete = report.complete,
         NEW k \in Nat, TotalOf(report') = TotalOf(report) + k,
         TotalOf(report) = 0 /\ k = 0 => CleanSoFar',
         TotalOf(report) = 0 /\ k > 0 => ~WellFormed(data)
  PROVE  Verdict'
<1>1. TotalOf(report) \in Nat
  BY DEF TypeInv, ReportOK, Report, TotalOf
<1>2. TotalOf(report') = 0 => CleanSoFar'
  BY <1>1
<1>3. TotalOf(report') > 0 => ~WellFormed(data')
  <2>1. CASE TotalOf(report) > 0
    BY <2>1 DEF Verdict
  <2>2. CASE TotalOf(report) = 0
    BY <2>2
  <2>3. QED BY <1>1, <2>1, <2>2
<1>4. QED BY <1>2, <1>3, Zenon DEF Verdict

\* A page read, whose rules are those it breaks.
LEMMA VerdictTaken ==
  ASSUME TypeInv, Verdict, At("ok"), NEW rules \in Seq(RuleName), NEW streams, NEW links,
         Taken(rules, streams, links),
         CleanSoFar => (Len(rules) = 0 <=> GoodPage(data, pos)),
         CleanSoFar /\ Len(rules) = 0 => CleanSoFar'
  PROVE  Verdict'
<1>1. pos \in 1 .. Len(data) /\ data \in Seq(Item) /\ Len(data) \in Nat
  BY PageHere DEF TypeInv, WalkOK
<1>2. ~report.complete
  BY <1>1 DEF Verdict
<1>3. /\ data' = data /\ report'.complete = report.complete
      /\ TotalOf(report') = TotalOf(report) + Len(rules) /\ Len(rules) \in Nat
  BY DEF Taken
<1>4. TotalOf(report) = 0 /\ Len(rules) = 0 => CleanSoFar'
  BY DEF Verdict
<1>5. TotalOf(report) = 0 /\ Len(rules) > 0 => ~WellFormed(data)
  BY <1>1, OneBadPage DEF Verdict
<1>6. QED BY <1>2, <1>3, <1>4, <1>5, ToldBefore

LEMMA VerdictSkipped ==
  ASSUME TypeInv, Verdict, NoCapture \/ Truncated \/ BadCrc \/ OtherVersion
  PROVE  Verdict'
<1>1. pos <= Len(data) /\ data[pos].state # "ok" /\ data \in Seq(Item) /\ pos \in 1 .. Len(data)
  <2>1. pos <= Len(data) /\ data[pos].state # "ok"
    BY DEF NoCapture, Truncated, BadCrc, OtherVersion, At, Here
  <2>2. QED BY <2>1 DEF TypeInv, WalkOK
<1>2. ~report.complete
  BY <1>1 DEF Verdict
<1>3. data' = data /\ report'.complete = report.complete /\ TotalOf(report') = TotalOf(report) + 1
  BY SkippedBy DEF Skipped
<1>4. ~GoodPage(data, pos)
  BY <1>1 DEF GoodPage
<1>5. ~WellFormed(data)
  BY <1>1, <1>4, OneBadPage
<1>6. QED BY <1>2, <1>3, <1>5, ToldBefore

LEMMA VerdictFinish ==
  ASSUME TypeInv, Verdict, Finish
  PROVE  Verdict'
<1>1. /\ UNCHANGED <<data, pos, live, finished, link_has_data>> /\ report'.complete
      /\ TotalOf(report') = TotalOf(report) + (IF data = <<>> THEN 1 ELSE 0) + Cardinality(Unended)
      /\ report'.pages = report.pages /\ report'.streams = report.streams
      /\ report'.links = report.links /\ report'.junk = report.junk
  BY FinishFacts
<1>2. data \in Seq(Item) /\ pos = Len(data) + 1 /\ LiveOK(live) /\ TotalOf(report) \in Nat
  <2>1. pos > Len(data) /\ pos \in 1 .. Len(data) + 1 /\ data \in Seq(Item)
    BY DEF Finish, TypeInv, WalkOK
  <2>2. TotalOf(report) \in Nat
    BY DEF TypeInv, ReportOK, Report, TotalOf
  <2>3. QED BY <2>1, <2>2 DEF TypeInv
<1>3. Cardinality(Unended) \in Nat /\ (Cardinality(Unended) = 0 <=> Unended = {})
  BY <1>2, MissingEosFacts
<1>4. CleanSoFar => CleanSoFar'
  BY <1>1 DEF CleanSoFar, Counted
<1>5. Unended' = Unended
  BY <1>1 DEF Unended
<1>6. TotalOf(report') = 0 => CleanSoFar' /\ data' # <<>> /\ Unended' = {}
  <2>1. TotalOf(report') = 0 => TotalOf(report) = 0 /\ data # <<>> /\ Cardinality(Unended) = 0
    BY <1>1, <1>2, <1>3
  <2>2. QED BY <1>1, <1>3, <1>4, <1>5, <2>1 DEF Verdict
<1>7. TotalOf(report') > 0 => ~WellFormed(data')
  <2>1. CASE TotalOf(report) > 0
    BY <1>1, <2>1 DEF Verdict
  <2>2. CASE TotalOf(report) = 0
    <3>1. CleanSoFar
      BY <2>2 DEF Verdict
    <3>2. Ended(data) <=> Unended = {}
      BY <1>2, <3>1, EndedWhenClosed
    <3>3. WellFormed(data) => data # <<>> /\ Unended = {}
      BY <1>2, <3>2, WellFormedPages
    <3>4. WellFormed(data) => TotalOf(report') = 0
      BY <1>1, <1>3, <2>2, <3>3
    <3>5. QED BY <1>1, <3>4
  <2>3. QED BY <1>2, <2>1, <2>2
<1>8. pos' > Len(data')
  BY <1>1, <1>2
<1>9. QED BY <1>6, <1>7, <1>8, Zenon DEF Verdict

LEMMA VerdictStep == TypeInv /\ Verdict /\ [Next]_vars => Verdict'
<1> SUFFICES ASSUME TypeInv, Verdict, [Next]_vars PROVE Verdict'
  OBVIOUS
<1>1. CASE NoCapture \/ Truncated \/ BadCrc \/ OtherVersion
  BY <1>1, VerdictSkipped
<1>2. CASE BosPage
  <2>1. At("ok") /\ Here.page.bos
    BY <1>2 DEF BosPage
  <2>2. BosRules \in Seq(RuleName)
    BY <2>1, PageHere, BosRulesFacts
  <2>3. CleanSoFar => (Len(BosRules) = 0 <=> GoodPage(data, pos))
    BY <2>1, BosGood
  <2>4. CleanSoFar /\ Len(BosRules) = 0 => CleanSoFar'
    BY <1>2, <2>3, CleanBos
  <2>5. QED BY <1>2, <2>1, <2>2, <2>3, <2>4, BosTaken, VerdictTaken
<1>3. CASE NextPage
  <2>1. /\ At("ok") /\ ~Here.page.bos /\ Known /\ ~Model.eos /\ Distance = 1
    BY <1>3 DEF NextPage, Ordinary, DataPage
  <2>2. Here.page \in Page /\ Model \in StreamModel
    BY <2>1, PageHere
  <2>3. /\ NextRules \in Seq(RuleName)
        /\ Len(NextRules) = 0 <=> /\ Here.page.cont <=> Model.open_packet
                                  /\ SoundPage(Here.page, Model)
    BY <2>2, NextRulesFacts
  <2>4. CleanSoFar => (GoodPage(data, pos) <=> (Here.page.cont <=> Model.open_packet)
                                                /\ SoundPage(Here.page, Model))
    BY <2>1, OrdinaryHere
  <2>5. CleanSoFar => (Len(NextRules) = 0 <=> GoodPage(data, pos))
    BY <2>3, <2>4, Zenon
  <2>6. CleanSoFar /\ Len(NextRules) = 0 => CleanSoFar'
    BY <1>3, <2>5, CleanNext
  <2>7. QED BY <1>3, <2>1, <2>3, <2>5, <2>6, NextTaken, VerdictTaken
<1>4. CASE OrphanPage
  <2>1. At("ok")
    BY <1>4 DEF OrphanPage, DataPage
  <2>2. PICK rules \in Seq(RuleName) :
          Len(rules) > 0 /\ Taken(rules, report.streams + 1, report.links)
    BY <1>4, OrphanTaken
  <2>3. QED BY <1>4, <2>1, <2>2, OtherwiseBad, VerdictTaken
<1>5. CASE HolePage
  <2>1. At("ok")
    BY <1>5 DEF HolePage, Ordinary, DataPage
  <2>2. PICK rules \in Seq(RuleName) :
          Len(rules) > 0 /\ Taken(rules, report.streams, report.links)
    BY <1>5, HoleTaken
  <2>3. QED BY <1>5, <2>1, <2>2, OtherwiseBad, VerdictTaken
<1>6. CASE PageAfterEos
  <2>1. At("ok")
    BY <1>6 DEF PageAfterEos, DataPage
  <2>2. PICK rules : rules = When(~Model.after_eos_reported, "PageAfterEos")
    OBVIOUS
  <2>3. rules \in Seq(RuleName)
    <3>1. "PageAfterEos" \in RuleName
      BY DEF RuleName
    <3>2. QED BY <2>2, <3>1, WhenFacts
  <2>4. Taken(rules, report.streams, report.links)
    BY <1>6, <2>2, AfterEosTaken
  <2>5. CleanSoFar => Len(rules) > 0 /\ ~GoodPage(data, pos)
    BY <1>6, <2>2, OtherwiseBad
  <2>6. QED BY <2>1, <2>3, <2>4, <2>5, VerdictTaken
<1>7. CASE TaintedPage
  <2>1. At("ok") /\ <<>> \in Seq(RuleName)
    BY <1>7 DEF TaintedPage, DataPage
  <2>2. ~CleanSoFar
    BY <1>7, OtherwiseBad
  <2>3. QED BY <1>7, <2>1, <2>2, TaintedTaken, VerdictTaken
<1>8. CASE Finish
  BY <1>8, VerdictFinish
<1>9. CASE UNCHANGED vars
  BY <1>9 DEF vars, Verdict, CleanSoFar, Unended
<1>10. QED
  BY <1>1, <1>2, <1>3, <1>4, <1>5, <1>6, <1>7, <1>8, <1>9 DEF Next, Walk, Terminated

LEMMA VerdictInvariant == Spec => []Verdict
BY VerdictInit, VerdictStep, TypeInvariant, PTL DEF Spec

LEMMA VerdictMeans ==
  ASSUME TypeInv, Verdict
  PROVE  CleanIffConformant
<1> SUFFICES ASSUME report.complete
             PROVE  /\ Clean <=> WellFormed(data)
                    /\ Clean => /\ report.pages = Len(data) /\ report.junk = 0
                                /\ report.streams = Cardinality(Opening)
                                /\ report.links
                                     = Cardinality({k \in Opening : k = 1 \/ k - 1 \notin Opening})
  BY Zenon DEF CleanIffConformant
<1>1. data \in Seq(Item) /\ pos = Len(data) + 1 /\ DOMAIN data = 1 .. Len(data) /\ pos - 1 = Len(data)
  BY DEF Verdict, TypeInv, WalkOK
<1>2. (Clean <=> TotalOf(report) = 0) /\ TotalOf(report) \in Nat
  BY DEF Clean, Total, TotalOf, TypeInv, ReportOK, Report
<1>3. CASE TotalOf(report) = 0
  <2>1. CleanSoFar /\ data # <<>> /\ Unended = {}
    BY <1>3 DEF Verdict
  <2>2. GoodUpTo(data, Len(data)) /\ Counted(data, Len(data), report)
    BY <1>1, <2>1 DEF CleanSoFar
  <2>3. Ended(data)
    BY <1>1, <2>1, EndedWhenClosed
  <2>4. WellFormed(data)
    BY <1>1, <2>1, <2>2, <2>3, WellFormedPages
  <2>5. Starts(data, Len(data)) = Opening
    BY <1>1, Zenon DEF Starts, Opening
  <2>6. LinkStarts(data, Len(data)) = {k \in Opening : k = 1 \/ k - 1 \notin Opening}
    BY <2>5, Zenon DEF LinkStarts
  <2>7. QED BY <1>2, <1>3, <2>2, <2>4, <2>5, <2>6, Zenon DEF Counted
<1>4. CASE TotalOf(report) > 0
  BY <1>2, <1>4 DEF Verdict
<1>5. QED BY <1>2, <1>3, <1>4

\* A finished report is clean exactly when the input keeps every rule of RFC
\* 3533, though the walk sees one page at a time and forgets a link when the
\* next begins; a clean report counts a bitstream per BOS page and a link per
\* run of BOS pages.
THEOREM CleanReports == Spec => []CleanIffConformant
BY TypeInvariant, VerdictInvariant, VerdictMeans, PTL
=============================================================================
