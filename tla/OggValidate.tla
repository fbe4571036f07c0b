------------------------------ MODULE OggValidate ------------------------------
(***************************************************************************)
(* The conformance validator of src/src/validate.rs: one walk over a       *)
(* physical bitstream, one step per page, with a model of every logical    *)
(* bitstream of the link it is in, and the report it fills.                *)
(*                                                                         *)
(* A page keeps what the rules look at; its laces are TRUE where the value *)
(* is 255.  What stands at an offset is a page in one of the states page_at *)
(* tells apart, and a byte offset is a number of pages.                    *)
(***************************************************************************)
EXTENDS Integers, Sequences, FiniteSets, SequencesExt

CONSTANTS
  SeqSpace,      \* sequence numbers (2^32)
  MaxIssues      \* issues a report keeps (1024)

ASSUME ValidateAssumption == SeqSpace \in Nat \ {0, 1} /\ MaxIssues \in Nat

VARIABLES
  file,            \* what was written: pages, their states, the serial they claim
  data,            \* the input: what is left of it
  pos,             \* the page the walk is at
  live,            \* the models of the current link's bitstreams, by serial
  finished,        \* serials of the links before
  link_has_data,
  report           \* ConformanceReport

vars == <<file, data, pos, live, finished, link_has_data, report>>

\* What became of a page: whole, a version other than 0, a checksum that does
\* not match, no capture pattern, longer than what is left, or not there at all.
States == {"ok", "version", "damaged", "junk", "cut", "lost"}
Left(f) == SelectSeq(f, LAMBDA item : item.state # "lost")

Page == [serial: Nat, seq: 0 .. SeqSpace - 1, bos: BOOLEAN, eos: BOOLEAN, cont: BOOLEAN,
         granule: Int, laces: Seq(BOOLEAN)]
Item == [state: States, page: Page, claims: Nat]

Completed(page) == Cardinality({i \in DOMAIN page.laces : ~page.laces[i]})
EndsOpen(page)  == page.laces # <<>> /\ Last(page.laces)

\* No granule is known while last_granule is -1.
Fresh(page) == [last_seq |-> page.seq, last_granule |-> -1, open_packet |-> FALSE,
                eos |-> FALSE, after_eos_reported |-> FALSE, tainted |-> FALSE]

Init ==
  /\ data = Left(file) /\ data \in Seq(Item)
  /\ pos = 1 /\ live = <<>> /\ finished = {} /\ link_has_data = FALSE
  /\ report = [pages |-> 0, streams |-> 0, links |-> 0, junk |-> 0,
               issues |-> <<>>, suppressed |-> 0, complete |-> FALSE]

-----------------------------------------------------------------------------
(* The report.                                                             *)

Here == data[pos]
At(state) == pos <= Len(data) /\ Here.state = state
When(condition, rule) == IF condition THEN <<rule>> ELSE <<>>

\* The serial of an issue is None where no page is known.
Issues(rules, at, serials) == [i \in DOMAIN rules |-> [rule |-> rules[i], at |-> at, serial |-> serials]]

\* A definition marked mutant is a plausible slip in the operator below it.
OneMore(r, issues) ==   \* mutant: the cap is off by one
  LET all == r.issues \o issues
  IN [r EXCEPT !.issues = SubSeq(all, 1, IF Len(all) < MaxIssues + 1 THEN Len(all) ELSE MaxIssues + 1),
               !.suppressed = @ + Len(all) - Len(r.issues)]
\* push, past the cap an issue is counted only.
Push(r, issues) ==
  LET all  == r.issues \o issues
      kept == IF Len(all) < MaxIssues THEN Len(all) ELSE MaxIssues
  IN [r EXCEPT !.issues = SubSeq(all, 1, kept), !.suppressed = @ + Len(all) - kept]

Valid(k) == data[k].state \in {"ok", "version"}
\* find_next_valid_page, from the page after this one.
NextValid ==
  LET after == {k \in pos + 1 .. Len(data) : Valid(k)}
  IN IF after = {} THEN Len(data) + 1 ELSE CHOOSE k \in after : \A j \in after : k <= j

Untainted(serial) == live    \* mutant: the stream is not told
Taint(serial) == IF serial \in DOMAIN live THEN [live EXCEPT ![serial].tainted = TRUE] ELSE live

-----------------------------------------------------------------------------
(* What stands where a page must begin.                                    *)

NoCapture ==
  /\ At("junk")
  /\ report' = [Push(report, Issues(<<"CapturePattern">>, pos, {})) EXCEPT !.junk = @ + NextValid - pos]
  /\ pos' = NextValid
  /\ UNCHANGED <<file, data, live, finished, link_has_data>>

Truncated ==
  /\ At("cut")
  /\ report' = Push(report, Issues(<<"Truncated">>, pos, {}))
  /\ pos' = NextValid
  /\ UNCHANGED <<file, data, live, finished, link_has_data>>

\* The serial is that of a header not to be trusted.
BadCrc ==
  /\ At("damaged")
  /\ report' = Push(report, Issues(<<"CrcMismatch">>, pos, {Here.claims}))
  /\ live' = Taint(Here.claims)
  /\ pos' = NextValid
  /\ UNCHANGED <<file, data, finished, link_has_data>>

OtherVersion ==
  /\ At("version")
  /\ report' = Push(report, Issues(<<"Version">>, pos, {Here.page.serial}))
  /\ live' = Taint(Here.page.serial)
  /\ pos' = pos + 1
  /\ UNCHANGED <<file, data, finished, link_has_data>>

-----------------------------------------------------------------------------
(* check_page.                                                             *)

Known == Here.page.serial \in DOMAIN live
Model == live[Here.page.serial]
Insert(map, key, value) ==
  [k \in DOMAIN map \cup {key} |-> IF k = key THEN value ELSE map[k]]
Becomes(model) == live' = Insert(live, Here.page.serial, model)

StrictGranules(page, model) ==   \* mutant: a granule must grow
  /\ Completed(page) > 0 /\ page.granule # -1
  /\ model.last_granule # -1 /\ page.granule <= model.last_granule
GranuleFell(page, model) ==
  /\ Completed(page) > 0 /\ page.granule # -1
  /\ model.last_granule # -1 /\ page.granule < model.last_granule

\* finish_page_checks: what it reports, and the model it leaves.
FinishRules(page, model) ==
     When(page.laces # <<>> /\ Completed(page) = 0 /\ page.granule # -1, "SpuriousGranule")
  \o When(Completed(page) > 0 /\ page.granule = -1, "MissingGranule")
  \o When(GranuleFell(page, model), "GranuleRegression")
  \o When(page.eos /\ EndsOpen(page), "EosMidPacket")
EosLeft(page, model) ==   \* mutant: the end of the bitstream is not noted
  [model EXCEPT !.last_seq = page.seq, !.open_packet = EndsOpen(page),
                !.last_granule = IF Completed(page) > 0 /\ page.granule # -1 THEN page.granule ELSE @]
Rebaselined(page, model) ==
  [model EXCEPT !.last_seq = page.seq, !.open_packet = EndsOpen(page), !.eos = @ \/ page.eos,
                !.last_granule = IF Completed(page) > 0 /\ page.granule # -1 THEN page.granule ELSE @]

Accept(rules, r) ==
  /\ report' = Push([r EXCEPT !.pages = @ + 1, !.links = IF report.pages = 0 THEN 1 ELSE @],
                    Issues(rules, pos, {Here.page.serial}))
  /\ pos' = pos + 1
  /\ UNCHANGED <<file, data>>

AllClosed == \A serial \in DOMAIN live : live[serial].eos
Duplicate == Known /\ ~Model.eos
NewLink   == link_has_data /\ ~Duplicate /\ AllClosed

Reuse     == ~Duplicate /\ (Here.page.serial \in finished \/ Known)
BosRules  ==    When(Here.page.cont, "ContinuedBos") \o When(Here.page.seq # 0, "SequenceStart")
             \o When(Duplicate, "DuplicateBos") \o When(Reuse, "SerialReuse")
             \o When(link_has_data /\ ~Duplicate /\ ~AllClosed, "BosNotContiguous")
             \o FinishRules(Here.page, Fresh(Here.page))

BosPage ==
  /\ At("ok") /\ Here.page.bos
  /\ Accept(BosRules, [report EXCEPT !.streams = @ + 1, !.links = IF NewLink THEN @ + 1 ELSE @])
  /\ LET model == Rebaselined(Here.page, Fresh(Here.page))
     IN \/ /\ NewLink
           /\ live' = Insert(<<>>, Here.page.serial, model)
           /\ finished' = finished \cup DOMAIN live
           /\ link_has_data' = FALSE
        \/ /\ ~NewLink
           /\ Becomes(model)
           /\ UNCHANGED <<finished, link_has_data>>

\* A page of data begins the link's data section.
DataPage == At("ok") /\ ~Here.page.bos /\ link_has_data' = TRUE /\ UNCHANGED finished

OrphanPage ==
  /\ DataPage /\ ~Known
  /\ Accept(<<"MissingBos">> \o FinishRules(Here.page, Fresh(Here.page)),
            [report EXCEPT !.streams = @ + 1])
  /\ Becomes(Rebaselined(Here.page, Fresh(Here.page)))

PageAfterEos ==
  /\ DataPage /\ Known /\ Model.eos
  /\ Accept(When(~Model.after_eos_reported, "PageAfterEos"), report)
  /\ Becomes([Model EXCEPT !.after_eos_reported = TRUE, !.last_seq = Here.page.seq,
                           !.open_packet = EndsOpen(Here.page)])

\* The page before this one was skipped: nothing is known for one page.
TaintedPage ==
  /\ DataPage /\ Known /\ ~Model.eos /\ Model.tainted
  /\ Accept(<<>>, report)
  /\ Becomes([Rebaselined(Here.page, Model) EXCEPT !.tainted = FALSE])

Distance == (Here.page.seq - Model.last_seq) % SeqSpace
\* As a signed number of the same width the distance is positive.
Forward  == Distance < SeqSpace \div 2 /\ Distance > 0
Ordinary == DataPage /\ Known /\ ~Model.eos /\ ~Model.tainted

HolePage ==
  /\ Ordinary /\ Distance # 1
  /\ Accept(<<IF Forward THEN "SequenceGap" ELSE "SequenceRegression">>, report)
  /\ Becomes(Rebaselined(Here.page, Model))

NextRules ==    When(Here.page.cont /\ ~Model.open_packet, "ContinuedWithoutPartial")
             \o When(~Here.page.cont /\ Model.open_packet, "PartialNotContinued")
             \o FinishRules(Here.page, Model)

NextPage ==
  /\ Ordinary /\ Distance = 1
  /\ Accept(NextRules, report)
  /\ Becomes(Rebaselined(Here.page, Model))

-----------------------------------------------------------------------------
(* End of the input.                                                       *)

\* One issue per bitstream left open, in the order of their serials.
Unended == {serial \in DOMAIN live : ~live[serial].eos}
MissingEos ==
  [i \in 1 .. Cardinality(Unended) |->
     [rule |-> "MissingEos", at |-> pos,
      serial |-> {n \in Unended : Cardinality({m \in Unended : m < n}) = i - 1}]]

Finish ==
  /\ pos > Len(data) /\ ~report.complete
  /\ report' = [Push(report, Issues(When(data = <<>>, "Truncated"), pos, {}) \o MissingEos)
                  EXCEPT !.complete = TRUE]
  /\ UNCHANGED <<file, data, pos, live, finished, link_has_data>>

Terminated == report.complete /\ UNCHANGED vars

Walk == \/ NoCapture \/ Truncated \/ BadCrc \/ OtherVersion
        \/ BosPage \/ OrphanPage \/ PageAfterEos \/ TaintedPage \/ HolePage \/ NextPage
        \/ Finish
Next == Walk \/ Terminated
Spec == Init /\ [][Next]_vars

-----------------------------------------------------------------------------
(* Properties.                                                             *)

Total == Len(report.issues) + report.suppressed
Clean == Total = 0

\* RFC 3533 of a whole file, page by page against the pages before and after:
\* the rules of the module's documentation, without a walk.
OfSerial(f, serial) == {k \in DOMAIN f : f[k].page.serial = serial}
FirstOf(S) == CHOOSE k \in S : \A j \in S : k <= j
LastOf(S)  == CHOOSE k \in S : \A j \in S : j <= k
IsLast(S, k) == k \in S /\ \A j \in S : j <= k
WellFormedStream(f, S) ==
  \A k \in S :
    LET page == f[k].page
        before == {j \in S : j < k}
    IN /\ page.bos <=> before = {}
       /\ page.eos <=> IsLast(S, k)
       /\ page.seq = Cardinality(before) % SeqSpace
       /\ page.cont <=> \E j \in before : IsLast(before, j) /\ EndsOpen(f[j].page)
       /\ page.laces # <<>> => (page.granule = -1 <=> Completed(page) = 0)
       /\ \A j \in before : Completed(page) > 0 /\ Completed(f[j].page) > 0 =>
                              f[j].page.granule <= page.granule
       /\ page.eos => ~EndsOpen(page)
\* A BOS page opens the file, stands with other BOS pages, or opens a link.
Grouped(f, k) ==
  \/ k = 1 \/ f[k - 1].page.bos
  \/ \A j \in 1 .. k - 1 : \E m \in 1 .. k - 1 :
       f[m].page.serial = f[j].page.serial /\ f[m].page.eos
WellFormed(f) ==
  /\ f # <<>>
  /\ \A k \in DOMAIN f : f[k].state = "ok"
  /\ \A k \in DOMAIN f : WellFormedStream(f, OfSerial(f, f[k].page.serial))
  /\ \A k \in DOMAIN f : f[k].page.bos => Grouped(f, k)

StreamModel == [last_seq: 0 .. SeqSpace - 1, last_granule: Int, open_packet: BOOLEAN,
                eos: BOOLEAN, after_eos_reported: BOOLEAN, tainted: BOOLEAN]

\* Every variable has its type; what is skipped is not counted as a page, and
\* the pages counted are those the walk has passed and could read.
TypeOK ==
  /\ \A serial \in DOMAIN live : live[serial] \in StreamModel
  /\ link_has_data \in BOOLEAN /\ pos \in 1 .. Len(data) + 1
  /\ Len(report.issues) <= MaxIssues /\ (report.suppressed > 0 => Len(report.issues) = MaxIssues)
  /\ report.pages = Cardinality({k \in 1 .. pos - 1 : data[k].state = "ok"})

\* A report is clean exactly when the file keeps every rule of RFC 3533, though
\* the walk sees one page at a time, forgets a link when the next begins and
\* takes up again after every violation; nothing is lost to the cap.  A clean
\* report counts a bitstream per BOS page and a link per run of BOS pages.
Opening == {k \in DOMAIN data : data[k].page.bos}
CleanIffConformant ==
  report.complete =>
    /\ Clean <=> WellFormed(data)
    /\ Clean => /\ report.pages = Len(data) /\ report.junk = 0
                /\ report.streams = Cardinality(Opening)
                /\ report.links = Cardinality({k \in Opening : k = 1 \/ k - 1 \notin Opening})

\* A conformant file with pages lost or unreadable: what is said of it is so.
Intact(f) == WellFormed([k \in DOMAIN f |-> [f[k] EXCEPT !.state = "ok"]])
Mangled == Intact(file) /\ report.suppressed = 0
\* Where the pages written stand in the data, and their reading.
Rank(k) == Cardinality({j \in 1 .. k : file[j].state # "lost"})
Read(serial) == {k \in OfSerial(file, serial) : file[k].state = "ok"}
Unread(serial) == OfSerial(file, serial) \ Read(serial)
Told(rule, at, serial) == \E i \in DOMAIN report.issues :
  LET issue == report.issues[i]
  IN issue.rule = rule /\ issue.at = at /\ issue.serial = {serial}

\* Damage does not cascade within a stream.  A page that follows a loss is said
\* to, once, unless a spoilt page claiming its serial was reported between;
\* no other rule about sequence, continuation, granules or serials speaks up.
LossToldOnce ==
  report.complete /\ Mangled =>
    /\ \A i \in DOMAIN report.issues : report.issues[i].rule \in
         {"CapturePattern", "Truncated", "CrcMismatch", "Version", "SequenceGap", "MissingBos",
          "MissingEos", "BosNotContiguous"}
    /\ \A k \in DOMAIN file :
         LET serial == file[k].page.serial
             before == {j \in Read(serial) : j < k}
         IN file[k].state = "ok" /\ before # {} =>
              LET between == LastOf(before) + 1 .. k - 1
                  lost == between \cap Unread(serial)
                  told == {m \in between : file[m].state # "lost" /\
                             \/ Told("CrcMismatch", Rank(m), serial)
                             \/ Told("Version", Rank(m), serial)}
              IN Told("SequenceGap", Rank(k), serial) <=> lost # {} /\ told = {}

\* A page missing at either end of a bitstream is told as such, and a page
\* nobody could read is told where it stands or by the page it leads to.
EndsTold ==
  report.complete /\ Mangled =>
    \A k \in DOMAIN file :
      LET serial == file[k].page.serial
          read == Read(serial)
      IN /\ read # {} /\ k = FirstOf(read) =>
              (Told("MissingBos", Rank(k), serial) <=> ~file[k].page.bos)
         /\ read # {} => (Told("MissingEos", pos, serial) <=> LastOf(OfSerial(file, serial)) \notin read)
         /\ file[k].state \notin {"ok", "lost"} =>
              \/ \E i \in DOMAIN report.issues : report.issues[i].at = Rank(k)
              \/ k > 1 /\ file[k - 1].state # "ok"

(* What the comments of validate.rs say and the code does not do.          *)

\* "so a single flipped bit yields one precise issue instead of a wall of
\* cascading noise"
OneFlipOneIssue ==
  report.complete /\ Intact(file)
  /\ Cardinality({k \in DOMAIN file : file[k].state # "ok"}) = 1
  /\ (\A k \in DOMAIN file : file[k].state \in {"ok", "damaged"}) => Total = 1
=============================================================================
