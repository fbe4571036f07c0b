----------------------------- MODULE OggDemuxProofs -----------------------------
(***************************************************************************)
(* What open, next_packet and build_seek_index keep true of the demuxer.   *)
(*                                                                         *)
(* TypeInv is the type invariant with what it rests on: public streams and *)
(* states name each other one to one, and no state has the serial of the   *)
(* Skeleton, so that no page has two owners.                               *)
(*                                                                         *)
(* Genuine speaks of packets delivered, and says nothing of the one that   *)
(* is being put together, nor of where the demuxer stands in the file.     *)
(* FlowInv says both.  The pages before a cursor are done with; the page   *)
(* at hand is at it, and the queue has those after it that survive up to   *)
(* where the input stands (Cursor).  What a stream or the Skeleton has in  *)
(* hand is a stretch of one packet that ends where the last page of its    *)
(* serial with anything on it does, and the sequence number kept is that   *)
(* of the last page of all (Pending), so that a page taken for the next    *)
(* one by its number goes on with it.  Packets put out, delivered or       *)
(* queued, end at segments of pages before the cursor, in the order of the *)
(* file (EmittedInv), as do those kept of the Skeleton (SkeletonInv).      *)
(*                                                                         *)
(* HeadersKeptBack asks that the headers left to take are told of the      *)
(* right page: HeadFlow adds, of each state, that the page which claimed   *)
(* its serial last has as many headers as are left and have been taken     *)
(* since (Taken), or that it still waits for that page, which will find    *)
(* it untouched (Waits); no page passes that claims a serial and gets no   *)
(* owner (Met); and each packet put out has the headers of its bitstream   *)
(* behind it (Backed).                                                     *)
(***************************************************************************)
EXTENDS OggDemux, SequenceLemmas, SequenceTheorems

-----------------------------------------------------------------------------
(* The three walks over a sequence, step by step.                          *)

\* f takes the segments of a page, as process_page does.
Reassembly(f, page, acc, n) ==
  f = [i \in 0 .. n |-> IF i = 0 THEN acc ELSE Resumed(f[i - 1], page.segs[i], i = 1 /\ page.cont)]

LEMMA ReassemblyExists ==
  ASSUME NEW page, NEW acc, NEW n \in Nat
  PROVE  \E f : Reassembly(f, page, acc, n)
<1> DEFINE T == {k \in Nat : ~\E f : Reassembly(f, page, acc, k)}
<1>1. SUFFICES ASSUME T # {} PROVE FALSE
  OBVIOUS
<1>2. PICK k \in T : \A m \in T : k <= m
  BY <1>1, LeastNatural
<1>3. CASE k = 0
  <2> DEFINE e == [i \in 0 .. 0 |-> acc]
  <2>1. \A i \in 0 .. 0 : i = 0
    OBVIOUS
  <2>2. Reassembly(e, page, acc, 0)
    BY <2>1 DEF Reassembly
  <2>3. QED BY <1>2, <1>3, <2>2
<1>4. CASE k # 0
  <2>1. k \in Nat /\ k - 1 \in Nat /\ k - 1 \notin T
    BY <1>2, <1>4
  <2>2. PICK f : Reassembly(f, page, acc, k - 1)
    BY <2>1
  <2> DEFINE last == Resumed(f[k - 1], page.segs[k], k = 1 /\ page.cont)
             g == [i \in 0 .. k |-> IF i = k THEN last ELSE f[i]]
  <2>3. k \in 0 .. k /\ k - 1 \in 0 .. k - 1 /\ k - 1 \in 0 .. k /\ k - 1 # k
    BY <2>1
  <2>4. ASSUME NEW i \in 0 .. k
        PROVE  g[i] = IF i = 0 THEN acc ELSE Resumed(g[i - 1], page.segs[i], i = 1 /\ page.cont)
    <3>1. CASE i = k
      <4>1. g[k] = last /\ g[k - 1] = f[k - 1]
        <5> HIDE DEF last
        <5>1. QED BY <2>3
      <4> HIDE DEF g
      <4>2. QED BY <1>4, <3>1, <4>1
    <3>2. CASE i # k
      <4>1. i \in 0 .. k - 1 /\ (i # 0 => i - 1 \in 0 .. k /\ i - 1 # k)
        BY <2>1, <3>2
      <4>2. g[i] = f[i] /\ (i # 0 => g[i - 1] = f[i - 1])
        <5> HIDE DEF last
        <5>1. QED BY <3>2, <4>1
      <4> HIDE DEF g
      <4>3. f[i] = IF i = 0 THEN acc ELSE Resumed(f[i - 1], page.segs[i], i = 1 /\ page.cont)
        BY <2>2, <4>1 DEF Reassembly
      <4>4. QED BY <4>2, <4>3
    <3>3. QED BY <3>1, <3>2
  <2>5. g = [i \in 0 .. k |-> g[i]]
    <3> HIDE DEF last
    <3>1. QED OBVIOUS
  <2> HIDE DEF g, last
  <2>6. Reassembly(g, page, acc, k)
    BY <2>4, <2>5 DEF Reassembly
  <2>7. QED BY <1>2, <2>6
<1>5. QED BY <1>3, <1>4

StartOf(s) == [pending |-> s.pending, valid |-> s.pending_valid, done |-> <<>>]

LEMMA ReassembledRuns ==
  ASSUME NEW page, NEW s, Len(page.segs) \in Nat
  PROVE  \E f : Reassembly(f, page, StartOf(s), Len(page.segs)) /\ Reassembled(page, s) = f[Len(page.segs)]
<1> DEFINE f == CHOOSE after : after = [i \in 0 .. Len(page.segs) |->
                  IF i = 0 THEN StartOf(s) ELSE Resumed(after[i - 1], page.segs[i], i = 1 /\ page.cont)]
<1>1. Reassembly(f, page, StartOf(s), Len(page.segs))
  <2>1. PICK g : Reassembly(g, page, StartOf(s), Len(page.segs))
    BY ReassemblyExists
  <2>2. QED BY <2>1, Zenon DEF Reassembly
<1>2. Reassembled(page, s) = f[Len(page.segs)]
  BY Zenon DEF Reassembled, StartOf
<1>3. QED BY <1>1, <1>2, Zenon

\* The same, as process_skeleton_page does.
Absorption(f, page, acc, n) ==
  f = [i \in 0 .. n |-> IF i = 0 THEN acc ELSE Absorb(f[i - 1], page.segs[i], i = 1 /\ page.cont)]

LEMMA AbsorptionExists ==
  ASSUME NEW page, NEW acc, NEW n \in Nat
  PROVE  \E f : Absorption(f, page, acc, n)
<1> DEFINE T == {k \in Nat : ~\E f : Absorption(f, page, acc, k)}
<1>1. SUFFICES ASSUME T # {} PROVE FALSE
  OBVIOUS
<1>2. PICK k \in T : \A m \in T : k <= m
  BY <1>1, LeastNatural
<1>3. CASE k = 0
  <2> DEFINE e == [i \in 0 .. 0 |-> acc]
  <2>1. \A i \in 0 .. 0 : i = 0
    OBVIOUS
  <2>2. Absorption(e, page, acc, 0)
    BY <2>1 DEF Absorption
  <2>3. QED BY <1>2, <1>3, <2>2
<1>4. CASE k # 0
  <2>1. k \in Nat /\ k - 1 \in Nat /\ k - 1 \notin T
    BY <1>2, <1>4
  <2>2. PICK f : Absorption(f, page, acc, k - 1)
    BY <2>1
  <2> DEFINE last == Absorb(f[k - 1], page.segs[k], k = 1 /\ page.cont)
             g == [i \in 0 .. k |-> IF i = k THEN last ELSE f[i]]
  <2>3. k \in 0 .. k /\ k - 1 \in 0 .. k - 1 /\ k - 1 \in 0 .. k /\ k - 1 # k
    BY <2>1
  <2>4. ASSUME NEW i \in 0 .. k
        PROVE  g[i] = IF i = 0 THEN acc ELSE Absorb(g[i - 1], page.segs[i], i = 1 /\ page.cont)
    <3>1. CASE i = k
      <4>1. g[k] = last /\ g[k - 1] = f[k - 1]
        <5> HIDE DEF last
        <5>1. QED BY <2>3
      <4> HIDE DEF g
      <4>2. QED BY <1>4, <3>1, <4>1
    <3>2. CASE i # k
      <4>1. i \in 0 .. k - 1 /\ (i # 0 => i - 1 \in 0 .. k /\ i - 1 # k)
        BY <2>1, <3>2
      <4>2. g[i] = f[i] /\ (i # 0 => g[i - 1] = f[i - 1])
        <5> HIDE DEF last
        <5>1. QED BY <3>2, <4>1
      <4> HIDE DEF g
      <4>3. f[i] = IF i = 0 THEN acc ELSE Absorb(f[i - 1], page.segs[i], i = 1 /\ page.cont)
        BY <2>2, <4>1 DEF Absorption
      <4>4. QED BY <4>2, <4>3
    <3>3. QED BY <3>1, <3>2
  <2>5. g = [i \in 0 .. k |-> g[i]]
    <3> HIDE DEF last
    <3>1. QED OBVIOUS
  <2> HIDE DEF g, last
  <2>6. Absorption(g, page, acc, k)
    BY <2>4, <2>5 DEF Absorption
  <2>7. QED BY <1>2, <2>6
<1>5. QED BY <1>3, <1>4

LEMMA AbsorbedRuns ==
  ASSUME NEW page, NEW acc, Len(page.segs) \in Nat
  PROVE  \E f : Absorption(f, page, acc, Len(page.segs)) /\ Absorbed(page, acc) = f[Len(page.segs)]
<1> DEFINE f == CHOOSE after : after = [i \in 0 .. Len(page.segs) |->
                  IF i = 0 THEN acc ELSE Absorb(after[i - 1], page.segs[i], i = 1 /\ page.cont)]
<1>1. Absorption(f, page, acc, Len(page.segs))
  <2>1. PICK g : Absorption(g, page, acc, Len(page.segs))
    BY AbsorptionExists
  <2>2. QED BY <2>1, Zenon DEF Absorption
<1>2. Absorbed(page, acc) = f[Len(page.segs)]
  BY Zenon DEF Absorbed
<1>3. QED BY <1>1, <1>2, Zenon

\* f goes over the pages of the file, as build_seek_index does.
Scanning(f, acc, n) ==
  f = [i \in 0 .. n |-> IF i = 0 THEN acc ELSE ScanPage(f[i - 1], i)]

LEMMA ScanningExists ==
  ASSUME NEW acc, NEW n \in Nat
  PROVE  \E f : Scanning(f, acc, n)
<1> DEFINE T == {k \in Nat : ~\E f : Scanning(f, acc, k)}
<1>1. SUFFICES ASSUME T # {} PROVE FALSE
  OBVIOUS
<1>2. PICK k \in T : \A m \in T : k <= m
  BY <1>1, LeastNatural
<1>3. CASE k = 0
  <2> DEFINE e == [i \in 0 .. 0 |-> acc]
  <2>1. \A i \in 0 .. 0 : i = 0
    OBVIOUS
  <2>2. Scanning(e, acc, 0)
    BY <2>1 DEF Scanning
  <2>3. QED BY <1>2, <1>3, <2>2
<1>4. CASE k # 0
  <2>1. k \in Nat /\ k - 1 \in Nat /\ k - 1 \notin T
    BY <1>2, <1>4
  <2>2. PICK f : Scanning(f, acc, k - 1)
    BY <2>1
  <2> DEFINE last == ScanPage(f[k - 1], k)
             g == [i \in 0 .. k |-> IF i = k THEN last ELSE f[i]]
  <2>3. k \in 0 .. k /\ k - 1 \in 0 .. k - 1 /\ k - 1 \in 0 .. k /\ k - 1 # k
    BY <2>1
  <2>4. ASSUME NEW i \in 0 .. k
        PROVE  g[i] = IF i = 0 THEN acc ELSE ScanPage(g[i - 1], i)
    <3>1. CASE i = k
      <4>1. g[k] = last /\ g[k - 1] = f[k - 1]
        <5> HIDE DEF last
        <5>1. QED BY <2>3
      <4> HIDE DEF g
      <4>2. QED BY <1>4, <3>1, <4>1
    <3>2. CASE i # k
      <4>1. i \in 0 .. k - 1 /\ (i # 0 => i - 1 \in 0 .. k /\ i - 1 # k)
        BY <2>1, <3>2
      <4>2. g[i] = f[i] /\ (i # 0 => g[i - 1] = f[i - 1])
        <5> HIDE DEF last
        <5>1. QED BY <3>2, <4>1
      <4> HIDE DEF g
      <4>3. f[i] = IF i = 0 THEN acc ELSE ScanPage(f[i - 1], i)
        BY <2>2, <4>1 DEF Scanning
      <4>4. QED BY <4>2, <4>3
    <3>3. QED BY <3>1, <3>2
  <2>5. g = [i \in 0 .. k |-> g[i]]
    <3> HIDE DEF last
    <3>1. QED OBVIOUS
  <2> HIDE DEF g, last
  <2>6. Scanning(g, acc, k)
    BY <2>4, <2>5 DEF Scanning
  <2>7. QED BY <1>2, <2>6
<1>5. QED BY <1>3, <1>4

ScanStart == [index |-> seek_index, link |-> next_link_index, seen |-> seen_nonbos,
              duplicates |-> 0, met |-> {}, registry |-> Registry]

LEMMA ScanRuns ==
  ASSUME Len(file) \in Nat
  PROVE  \E f : Scanning(f, ScanStart, Len(file)) /\ Scan = f[Len(file)]
<1> DEFINE f == CHOOSE after : after = [k \in 0 .. Len(file) |->
                  IF k = 0 THEN ScanStart ELSE ScanPage(after[k - 1], k)]
<1>1. Scanning(f, ScanStart, Len(file))
  <2>1. PICK g : Scanning(g, ScanStart, Len(file))
    BY ScanningExists
  <2>2. QED BY <2>1, Zenon DEF Scanning
<1>2. Scan = f[Len(file)]
  BY Zenon DEF Scan, ScanStart
<1>3. QED BY <1>1, <1>2, Zenon

-----------------------------------------------------------------------------
(* Types.                                                                  *)

PublicStream == [serial: Nat, codec: Sources, extradata: Seq(Seq(Piece))]
SkeletonState == [serial: Nat \cup {NoSerial}, pending: Seq(Piece), last_seq: Nat \cup {NoSeq},
                  eos_seen: BOOLEAN, packets: Seq(Seq(Piece))]
Ledger == [count: [Kinds -> Nat], total: Nat, events: Seq([kind: Kinds, serial: Nat, seq: Nat])]

\* Public streams and states name each other; no state is the Skeleton's.
RegistryOK(strs, states, skel) ==
  /\ strs \in Seq(PublicStream)
  /\ skel \in SkeletonState /\ skel.serial \notin DOMAIN states
  /\ \A serial \in DOMAIN states :
       /\ states[serial] \in StreamState
       /\ states[serial].pending_valid <=> states[serial].pending # <<>>
       /\ states[serial].public_index \in DOMAIN strs
       /\ strs[states[serial].public_index].serial = serial
  /\ \A i \in DOMAIN strs : /\ strs[i].serial \in DOMAIN states
                            /\ states[strs[i].serial].public_index = i
Indexed(e) == /\ e.off \in DOMAIN file
              /\ file[e.off].page.serial = e.serial /\ file[e.off].page.granule = e.granule

FileInv    == file \in Files /\ pos \in 1 .. Len(file) + 1
ControlInv ==
  /\ phase \in {"bos", "headers", "idle", "next", "failed"} /\ pages_consumed \in Nat
  /\ hand = <<>> \/ \E k \in DOMAIN file : hand = <<file[k].page>>
  /\ at \in {"none", "bos", "body"} /\ (at = "none" <=> hand = <<>>)
  /\ page_queue \in Seq(Page)
  /\ \A i \in DOMAIN page_queue : \E k \in DOMAIN file : page_queue[i] = file[k].page
  /\ eof_reached \in BOOLEAN /\ seen_nonbos \in BOOLEAN /\ seek_index_built \in BOOLEAN
  /\ next_link_index \in Nat
QueueInv    == out_queue \in Seq(Delivery) /\ delivered \in Seq(Delivery)
RegistryInv == RegistryOK(streams, state_by_serial, skeleton)
LedgerInv   == damage \in Ledger
IndexInv    == \A e \in seek_index : Indexed(e)
TypeInv     == FileInv /\ ControlInv /\ QueueInv /\ RegistryInv /\ LedgerInv /\ IndexInv

LEMMA FileFacts ==
  ASSUME FileInv
  PROVE  /\ file \in Seq(Item) /\ Len(file) \in Nat /\ DOMAIN file = 1 .. Len(file) /\ pos \in Nat
         /\ \A k \in DOMAIN file :
              /\ file[k].page \in Page /\ file[k].state \in {"ok", "lost", "bad", "junk", "cut"}
              /\ file[k].page.bos => file[k].page.segs # <<>>
              /\ file[k].state = "cut" => k = Len(file)
<1>1. file \in Seq(Item) /\ pos \in 1 .. Len(file) + 1
  BY FilesAssumption DEF FileInv
<1>2. Len(file) \in Nat /\ DOMAIN file = 1 .. Len(file) /\ pos \in Nat
  BY <1>1
<1>3. ASSUME NEW k \in DOMAIN file
      PROVE  /\ file[k].page \in Page /\ file[k].state \in {"ok", "lost", "bad", "junk", "cut"}
             /\ file[k].page.bos => file[k].page.segs # <<>>
             /\ file[k].state = "cut" => k = Len(file)
  <2>1. file[k] \in Item
    BY <1>1
  <2>2. file[k].page \in Page /\ file[k].state \in {"ok", "lost", "bad", "junk", "cut"}
    BY <2>1 DEF Item
  <2>3. /\ file[k].page.bos => file[k].page.segs # <<>>
        /\ file[k].state = "cut" => k = Len(file)
    BY <1>3, FilesAssumption DEF FileInv
  <2>4. QED BY <2>2, <2>3
<1>4. QED BY <1>1, <1>2, <1>3

LEMMA PageFacts ==
  ASSUME NEW page \in Page
  PROVE  /\ page.src \in Sources /\ page.serial \in Nat /\ page.seq \in Nat
         /\ page.bos \in BOOLEAN /\ page.eos \in BOOLEAN /\ page.cont \in BOOLEAN
         /\ page.granule \in Int /\ page.segs \in Seq(Segment) /\ Len(page.segs) \in Nat
         /\ DOMAIN page.segs = 1 .. Len(page.segs)
         /\ page.segs # <<>> => 1 \in DOMAIN page.segs /\ page.segs[1].src \in Sources
<1>1. page.segs \in Seq(Segment)
  BY DEF Page
<1>2. page.segs # <<>> => 1 \in DOMAIN page.segs /\ page.segs[1] \in Segment
  BY <1>1
<1>3. QED BY <1>1, <1>2 DEF Page, Segment

LEMMA MinFacts ==
  ASSUME NEW S \in SUBSET Nat, S # {}
  PROVE  Min(S) \in S /\ \A k \in S : Min(S) <= k
<1>1. PICK m \in S : \A k \in S : m <= k
  BY LeastNatural
<1>2. QED BY <1>1 DEF Min

\* What read_page reads is the next page that survives.
LEMMA LandingFacts ==
  ASSUME FileInv, CanRead
  PROVE  /\ Landing \in pos .. Len(file) /\ Landing \in DOMAIN file /\ Survives(Landing)
         /\ NextRead = file[Landing].page /\ NextRead \in Page
         /\ \A k \in pos .. Landing - 1 : ~Survives(k)
<1>1. /\ Present \in SUBSET Nat /\ Readable \in SUBSET Nat /\ Readable # {} /\ Present # {}
      /\ Readable \subseteq Present /\ Present \subseteq pos .. Len(file)
      /\ pos .. Len(file) \subseteq DOMAIN file
  BY FileFacts DEF Present, Readable, CanRead, FileInv
<1>2. /\ Min(Present) \in Present /\ \A k \in Present : Min(Present) <= k
      /\ Min(Readable) \in Readable /\ \A k \in Readable : Min(Readable) <= k
  BY <1>1, MinFacts
<1>3. \A k \in pos .. Len(file) : Survives(k) => k \in Readable /\ k \in Present
  BY DEF Alive, Survives, Readable, Present
<1>4. CASE Astray
  <2>1. Landing = Min(Readable)
    BY <1>4 DEF Landing
  <2>2. Landing \in Present /\ file[Landing].state \notin {"bad", "cut", "lost"}
    BY <1>2, <2>1 DEF Readable, Present
  <2>3. Landing \in pos .. Len(file) /\ Landing \in DOMAIN file
    BY <1>1, <2>2
  <2>4. Survives(Landing)
    BY <2>2, <2>3, FileFacts DEF Alive, Survives
  <2>5. \A k \in pos .. Landing - 1 : ~Survives(k)
    BY <1>2, <1>3, <2>1, <2>3, FileFacts
  <2>6. QED BY <2>3, <2>4, <2>5, FileFacts DEF NextRead
<1>5. CASE ~Astray
  <2>1. Landing = Min(Present)
    BY <1>5 DEF Landing
  <2>2. Landing \in Present /\ file[Landing].state \notin {"bad", "junk", "cut", "lost"}
    BY <1>1, <1>2, <1>5, <2>1 DEF Astray, Cut, CanRead, Present
  <2>3. Landing \in pos .. Len(file) /\ Landing \in DOMAIN file
    BY <1>1, <2>2
  <2>4. Survives(Landing)
    BY <2>2, <2>3, FileFacts DEF Alive, Survives
  <2>5. \A k \in pos .. Landing - 1 : ~Survives(k)
    BY <1>2, <1>3, <2>1, <2>3, FileFacts
  <2>6. QED BY <2>3, <2>4, <2>5, FileFacts DEF NextRead
<1>6. QED BY <1>4, <1>5

\* When it reads none, none is left.
LEMMA NothingLeft ==
  ASSUME FileInv, ~CanRead
  PROVE  \A k \in pos .. Len(file) : ~Survives(k)
<1> SUFFICES ASSUME NEW k \in pos .. Len(file), Survives(k) PROVE FALSE
  OBVIOUS
<1>1. k \in Readable /\ k \in Present /\ Present \in SUBSET Nat
  BY FileFacts DEF Alive, Survives, Readable, Present
<1>2. Cut /\ Min(Present) \in Present /\ Min(Present) <= k
  BY <1>1, MinFacts DEF CanRead
<1>3. Min(Present) = Len(file) /\ Min(Present) \in DOMAIN file
  BY <1>2, FileFacts DEF Cut, Present, FileInv
<1>4. k = Len(file)
  BY <1>2, <1>3, FileFacts
<1>5. QED BY <1>2, <1>3, <1>4 DEF Alive, Cut, Survives

LEMMA RecordType ==
  ASSUME NEW d \in Ledger, NEW kind \in Kinds, NEW page \in Page
  PROVE  Record(d, kind, page) \in Ledger
<1> DEFINE Event == [kind: Kinds, serial: Nat, seq: Nat]
           e == [kind |-> kind, serial |-> page.serial, seq |-> page.seq]
           r == Record(d, kind, page)
<1>1. e \in Event
  BY PageFacts
<1>2. d.count \in [Kinds -> Nat] /\ d.total \in Nat /\ d.events \in Seq(Event)
      /\ d = [count |-> d.count, total |-> d.total, events |-> d.events]
  BY DEF Ledger
<1> DEFINE cnt == [d.count EXCEPT ![kind] = d.count[kind] + 1]
           ev  == IF Len(d.events) < MaxEvents THEN Append(d.events, e) ELSE d.events
<1>3. r = [d EXCEPT !.count = cnt, !.total = d.total + 1, !.events = ev]
  BY Zenon DEF Record
<1>4. r = [count |-> cnt, total |-> d.total + 1, events |-> ev]
  <2> HIDE DEF cnt, ev, r
  <2>1. QED BY <1>2, <1>3, Zenon
<1> HIDE DEF e, Event
<1>5. cnt \in [Kinds -> Nat] /\ d.total + 1 \in Nat
  BY <1>2
<1>6. ev \in Seq(Event)
  BY <1>1, <1>2
<1> HIDE DEF cnt, ev
<1>7. QED BY <1>4, <1>5, <1>6 DEF Ledger, Event

-----------------------------------------------------------------------------
(* Registering a bitstream.                                                *)

AsRegistry(strs, states, skel) == [streams |-> strs, state_by_serial |-> states, skeleton |-> skel]

\* What registering leaves alone, and what it makes of the Skeleton.
Registered(states, skel, page, states2, skel2) ==
  /\ \A serial \in DOMAIN states : serial \in DOMAIN states2 /\ states2[serial] = states[serial]
  /\ \A serial \in DOMAIN states2 \ DOMAIN states :
       serial = page.serial /\ states2[serial].pending = <<>>
  /\ skel2.pending = skel.pending /\ skel2.packets = skel.packets
  /\ \/ skel2 = skel
     \/ /\ IsFishead(page) /\ skel.serial \in {NoSerial, page.serial}
        /\ skel2.serial = page.serial /\ skel2.last_seq = page.seq

PieceOf(seg) == [src |-> seg.src, pkt |-> seg.pkt, part |-> seg.part, of |-> seg.of]

LEMMA BytesFacts ==
  ASSUME NEW segs \in Seq(Segment)
  PROVE  /\ Bytes(segs) \in Seq(Piece) /\ Len(Bytes(segs)) = Len(segs)
         /\ \A i \in 1 .. Len(segs) : Bytes(segs)[i] = PieceOf(segs[i])
<1>1. Bytes(segs) = [i \in 1 .. Len(segs) |-> PieceOf(segs[i])]
  BY DEF Bytes, PieceOf
<1>2. ASSUME NEW i \in 1 .. Len(segs) PROVE PieceOf(segs[i]) \in Piece
  <2>1. segs[i] \in Segment
    OBVIOUS
  <2>2. QED BY <2>1 DEF PieceOf, Segment, Piece
<1>3. QED BY <1>1, <1>2

LEMMA NewStreamType ==
  ASSUME NEW page \in Page, page.segs # <<>>, NEW i \in Nat, NEW link \in Nat
  PROVE  /\ NewStream(page, i, link) \in StreamState /\ NewStream(page, i, link).public_index = i
         /\ NewStream(page, i, link).pending = <<>> /\ ~NewStream(page, i, link).pending_valid
<1> DEFINE s == NewStream(page, i, link)
<1>1. page.segs[1].src \in Sources
  BY PageFacts
<1>2. Need[page.segs[1].src] \in Nat
  BY <1>1, DemuxAssumption
<1>3. /\ <<>> \in Seq(Piece) /\ <<>> \in Seq(Seq(Piece)) /\ NoSeq \in Nat \cup {NoSeq} /\ NoTime \in Int
      /\ (page.segs[1].src \in Theora) \in BOOLEAN
  BY DEF NoTime
<1>4. QED BY <1>2, <1>3 DEF NewStream, StreamState

LEMMA Registering ==
  ASSUME NEW strs, NEW states, NEW skel, NEW page \in Page, page.segs # <<>>, NEW link \in Nat,
         RegistryOK(strs, states, skel), page.serial \notin DOMAIN states,
         NEW r, r = RegisterStream(AsRegistry(strs, states, skel), page, link)
  PROVE  /\ r = AsRegistry(r.streams, r.state_by_serial, r.skeleton)
         /\ RegistryOK(r.streams, r.state_by_serial, r.skeleton)
         /\ Registered(states, skel, page, r.state_by_serial, r.skeleton)
<1>1. page.serial \in Nat /\ page.seq \in Nat /\ page.serial # NoSerial
  BY PageFacts DEF NoSerial
<1>2. CASE IsFishead(page)
  <2> DEFINE skel2 == IF skel.serial = page.serial THEN [skel EXCEPT !.last_seq = page.seq]
                      ELSE IF skel.serial # NoSerial THEN skel
                      ELSE [skel EXCEPT !.serial = page.serial, !.last_seq = page.seq]
  <2>1. r = AsRegistry(strs, states, skel2)
    BY <1>2 DEF RegisterStream, AsRegistry
  <2>2. skel \in SkeletonState
    BY DEF RegistryOK
  <2>3. /\ skel2 \in SkeletonState /\ skel2.serial \in {skel.serial, page.serial}
        /\ skel2.pending = skel.pending /\ skel2.packets = skel.packets
        /\ \/ skel2 = skel
           \/ /\ skel.serial \in {NoSerial, page.serial}
              /\ skel2.serial = page.serial /\ skel2.last_seq = page.seq
    BY <1>1, <2>2 DEF SkeletonState
  <2> HIDE DEF skel2
  <2>4. r.streams = strs /\ r.state_by_serial = states /\ r.skeleton = skel2
    BY <2>1 DEF AsRegistry
  <2>5. RegistryOK(strs, states, skel2)
    BY <2>3, Zenon DEF RegistryOK
  <2>6. Registered(states, skel, page, states, skel2)
    BY <1>2, <2>3, Zenon DEF Registered
  <2>7. QED BY <2>1, <2>4, <2>5, <2>6, Zenon
<1>3. CASE ~IsFishead(page) /\ skel.serial = page.serial
  <2>1. r = AsRegistry(strs, states, skel)
    BY <1>3 DEF RegisterStream, AsRegistry
  <2>2. r.streams = strs /\ r.state_by_serial = states /\ r.skeleton = skel
    BY <2>1 DEF AsRegistry
  <2>3. Registered(states, skel, page, states, skel)
    BY Zenon DEF Registered
  <2>4. QED BY <2>1, <2>2, <2>3, Zenon
<1>4. CASE ~IsFishead(page) /\ skel.serial # page.serial
  <2> DEFINE new   == [serial |-> page.serial, codec |-> page.segs[1].src,
                       extradata |-> <<SubSeq(Bytes(page.segs), 1, 1)>>]
             strs2 == Append(strs, new)
             s     == NewStream(page, Len(strs) + 1, link)
             states2 == [serial \in DOMAIN states \cup {page.serial} |->
                           IF serial = page.serial THEN s ELSE states[serial]]
  <2>1. r = AsRegistry(strs2, states2, skel)
    BY <1>4 DEF RegisterStream, AsRegistry
  <2>2. strs \in Seq(PublicStream) /\ Len(strs) \in Nat
    BY DEF RegistryOK
  <2>3. new \in PublicStream
    <3>1. page.segs \in Seq(Segment) /\ page.segs[1].src \in Sources /\ 1 \in DOMAIN page.segs
      BY PageFacts
    <3>2. Bytes(page.segs) \in Seq(Piece) /\ Len(Bytes(page.segs)) >= 1
      BY <3>1, BytesFacts, PageFacts
    <3>3. SubSeq(Bytes(page.segs), 1, 1) \in Seq(Piece)
      BY <3>2
    <3>4. <<SubSeq(Bytes(page.segs), 1, 1)>> \in Seq(Seq(Piece))
      BY <3>3
    <3>5. QED BY <1>1, <3>1, <3>4 DEF PublicStream
  <2>4. s \in StreamState /\ s.public_index = Len(strs) + 1 /\ s.pending = <<>> /\ ~s.pending_valid
    BY <2>2, NewStreamType
  <2>5. new.serial = page.serial
    OBVIOUS
  <2> HIDE DEF new, s
  <2>6. /\ strs2 \in Seq(PublicStream) /\ DOMAIN strs2 = 1 .. Len(strs) + 1
        /\ strs2[Len(strs) + 1] = new /\ DOMAIN strs = 1 .. Len(strs)
        /\ \A i \in DOMAIN strs : strs2[i] = strs[i]
    BY <2>2, <2>3
  <2>7. /\ DOMAIN states2 = DOMAIN states \cup {page.serial} /\ states2[page.serial] = s
        /\ \A serial \in DOMAIN states : states2[serial] = states[serial]
    OBVIOUS
  <2> HIDE DEF strs2, states2
  <2>8. skel \in SkeletonState /\ skel.serial \notin DOMAIN states2
    BY <1>4, <2>7 DEF RegistryOK
  <2>9. ASSUME NEW serial \in DOMAIN states2
        PROVE  /\ states2[serial] \in StreamState
               /\ states2[serial].pending_valid <=> states2[serial].pending # <<>>
               /\ states2[serial].public_index \in DOMAIN strs2
               /\ strs2[states2[serial].public_index].serial = serial
    <3>1. CASE serial = page.serial
      BY <2>2, <2>4, <2>5, <2>6, <2>7, <3>1 DEF StreamState
    <3>2. CASE serial # page.serial
      BY <2>6, <2>7, <3>2 DEF RegistryOK
    <3>3. QED BY <3>1, <3>2
  <2>10. ASSUME NEW i \in DOMAIN strs2
         PROVE  strs2[i].serial \in DOMAIN states2 /\ states2[strs2[i].serial].public_index = i
    <3>1. CASE i = Len(strs) + 1
      BY <2>4, <2>5, <2>6, <2>7, <3>1
    <3>2. CASE i # Len(strs) + 1
      <4>1. i \in DOMAIN strs /\ strs[i].serial \in DOMAIN states
            /\ states[strs[i].serial].public_index = i
        BY <2>2, <2>6, <3>2 DEF RegistryOK
      <4>2. QED BY <2>6, <2>7, <4>1, Zenon
    <3>3. QED BY <3>1, <3>2
  <2>11. RegistryOK(strs2, states2, skel)
    BY <2>6, <2>8, <2>9, <2>10 DEF RegistryOK
  <2>12. Registered(states, skel, page, states2, skel)
    BY <2>4, <2>7 DEF Registered
  <2>13. r.streams = strs2 /\ r.state_by_serial = states2 /\ r.skeleton = skel
    BY <2>1 DEF AsRegistry
  <2>14. QED BY <2>1, <2>11, <2>12, <2>13, Zenon
<1>5. QED BY <1>2, <1>3, <1>4

\* One state changed, its public stream the same.
LEMMA StateChanged ==
  ASSUME NEW strs, NEW states, NEW skel, RegistryOK(strs, states, skel), NEW serial \in DOMAIN states,
         NEW s \in StreamState, s.pending_valid \in BOOLEAN, s.pending_valid <=> s.pending # <<>>,
         s.public_index = states[serial].public_index
  PROVE  RegistryOK(strs, [states EXCEPT ![serial] = s], skel)
<1> DEFINE states2 == [states EXCEPT ![serial] = s]
<1>1. /\ DOMAIN states2 = DOMAIN states /\ states2[serial] = s
      /\ \A t \in DOMAIN states : t # serial => states2[t] = states[t]
  OBVIOUS
<1> HIDE DEF states2
<1>2. \A t \in DOMAIN states2 : states2[t].public_index = states[t].public_index
  BY <1>1
<1>3. \A t \in DOMAIN states2 : /\ states2[t] \in StreamState
                                /\ states2[t].pending_valid <=> states2[t].pending # <<>>
  BY <1>1 DEF RegistryOK
<1>4. RegistryOK(strs, states2, skel)
  BY <1>1, <1>2, <1>3 DEF RegistryOK
<1>5. QED BY <1>4 DEF states2

-----------------------------------------------------------------------------
(* What a page makes of the packet in hand.                                *)

\* The bytes up to the i-th segment, before being those the page found.
Upto(page, before, i) ==
  IF i = 1 /\ page.cont THEN before \o <<PieceOf(page.segs[1])>> ELSE <<PieceOf(page.segs[i])>>
Ending(page, before, strict, m) ==
  page.segs[m].term /\ (strict /\ m = 1 /\ page.cont => before # <<>>)
\* The packets of done beyond those of base end at segments up to i, in order.
Collected(done, base, page, before, strict, i) ==
  \E ms \in Seq(1 .. i) :
    /\ Len(done) = Len(base) + Len(ms)
    /\ \A j \in 1 .. Len(base) : done[j] = base[j]
    /\ \A d, e \in 1 .. Len(ms) : d < e => ms[d] < ms[e]
    /\ \A d \in 1 .. Len(ms) : /\ done[Len(base) + d] = Upto(page, before, ms[d])
                               /\ Ending(page, before, strict, ms[d])

LEMMA UptoType ==
  ASSUME NEW page \in Page, NEW before \in Seq(Piece), NEW i \in 1 .. Len(page.segs)
  PROVE  /\ Upto(page, before, i) \in Seq(Piece) /\ Upto(page, before, i) # <<>>
         /\ Len(Upto(page, before, i)) \in Nat \ {0}
         /\ Upto(page, before, i)[Len(Upto(page, before, i))] = PieceOf(page.segs[i])
<1>1. page.segs \in Seq(Segment)
  BY PageFacts
<1>2. \A j \in 1 .. Len(page.segs) : PieceOf(page.segs[j]) \in Piece
  <2> TAKE j \in 1 .. Len(page.segs)
  <2>1. page.segs[j] \in Segment
    BY <1>1
  <2>2. QED BY <2>1 DEF PieceOf, Segment, Piece
<1> DEFINE p == PieceOf(page.segs[i])
<1>3. p \in Piece /\ (i = 1 => PieceOf(page.segs[1]) = p)
  BY <1>2
<1> HIDE DEF p
<1>4. CASE i = 1 /\ page.cont
  <2>1. Upto(page, before, i) = before \o <<p>>
    BY <1>3, <1>4 DEF Upto
  <2>2. QED BY <1>3, <2>1 DEF p
<1>5. CASE ~(i = 1 /\ page.cont)
  <2>1. Upto(page, before, i) = <<p>>
    BY <1>5 DEF Upto, p
  <2>2. QED BY <1>3, <2>1 DEF p
<1>6. QED BY <1>4, <1>5

LEMMA CollectNone ==
  ASSUME NEW done \in Seq(Seq(Piece)), NEW page, NEW before, NEW strict
  PROVE  Collected(done, done, page, before, strict, 0)
<1>1. <<>> \in Seq(1 .. 0) /\ Len(<<>>) = 0 /\ Len(done) \in Nat
  OBVIOUS
<1>2. /\ Len(done) = Len(done) + Len(<<>>)
      /\ \A j \in 1 .. Len(done) : done[j] = done[j]
      /\ \A d \in 1 .. Len(<<>>) : FALSE
  BY <1>1
<1>3. QED BY <1>1, <1>2, Zenon DEF Collected

LEMMA CollectMore ==
  ASSUME NEW done \in Seq(Seq(Piece)), NEW base \in Seq(Seq(Piece)), NEW page, NEW before, NEW strict,
         NEW i \in Nat \ {0}, Collected(done, base, page, before, strict, i - 1), NEW done2,
         \/ done2 = done
         \/ done2 = Append(done, Upto(page, before, i)) /\ Ending(page, before, strict, i)
  PROVE  Collected(done2, base, page, before, strict, i)
<1>1. PICK ms \in Seq(1 .. i - 1) :
        /\ Len(done) = Len(base) + Len(ms)
        /\ \A j \in 1 .. Len(base) : done[j] = base[j]
        /\ \A d, e \in 1 .. Len(ms) : d < e => ms[d] < ms[e]
        /\ \A d \in 1 .. Len(ms) : /\ done[Len(base) + d] = Upto(page, before, ms[d])
                                   /\ Ending(page, before, strict, ms[d])
  BY DEF Collected
<1>2. /\ Len(ms) \in Nat /\ Len(base) \in Nat /\ Len(done) \in Nat /\ ms \in Seq(1 .. i)
      /\ \A d \in 1 .. Len(ms) : ms[d] \in 1 .. i - 1
  BY <1>1
<1>3. CASE done2 = done
  BY <1>1, <1>2, <1>3 DEF Collected
<1>4. CASE done2 = Append(done, Upto(page, before, i)) /\ Ending(page, before, strict, i)
  <2> DEFINE u  == Upto(page, before, i)
             ns == Append(ms, i)
  <2>1. /\ Len(done2) = Len(done) + 1 /\ done2[Len(done) + 1] = u
        /\ \A j \in 1 .. Len(done) : done2[j] = done[j]
    <3> HIDE DEF u
    <3>1. QED BY <1>4 DEF u
  <2>2. /\ ns \in Seq(1 .. i) /\ Len(ns) = Len(ms) + 1 /\ ns[Len(ms) + 1] = i
        /\ \A d \in 1 .. Len(ms) : ns[d] = ms[d]
    BY <1>2
  <2> HIDE DEF ns
  <2>3. Len(done2) = Len(base) + Len(ns)
    BY <1>1, <1>2, <2>1, <2>2
  <2>4. \A j \in 1 .. Len(base) : done2[j] = base[j]
    BY <1>1, <1>2, <2>1
  <2>5. ASSUME NEW d \in 1 .. Len(ns), NEW e \in 1 .. Len(ns), d < e PROVE ns[d] < ns[e]
    <3>1. CASE e = Len(ns)
      <4>1. d \in 1 .. Len(ms) /\ ms[d] < i
        BY <1>2, <2>2, <2>5, <3>1
      <4>2. QED BY <2>2, <3>1, <4>1
    <3>2. CASE e # Len(ns)
      <4>1. d \in 1 .. Len(ms) /\ e \in 1 .. Len(ms)
        <5> DEFINE m == Len(ms)
                   n == Len(ns)
        <5>1. m \in Nat /\ n = m + 1 /\ d \in 1 .. n /\ e \in 1 .. n /\ e # n /\ d < e
          BY <1>2, <2>2, <2>5, <3>2
        <5> HIDE DEF m, n
        <5>2. d \in 1 .. m /\ e \in 1 .. m
          BY <5>1
        <5>3. QED BY <5>2 DEF m
      <4>2. ns[d] = ms[d] /\ ns[e] = ms[e] /\ ms[d] < ms[e]
        BY <1>1, <2>2, <2>5, <4>1
      <4>3. QED BY <4>2
    <3>3. QED BY <3>1, <3>2
  <2>6. ASSUME NEW d \in 1 .. Len(ns)
        PROVE  done2[Len(base) + d] = Upto(page, before, ns[d]) /\ Ending(page, before, strict, ns[d])
    <3>1. CASE d = Len(ns)
      BY <1>1, <1>2, <1>4, <2>1, <2>2, <3>1
    <3>2. CASE d # Len(ns)
      <4>1. d \in 1 .. Len(ms) /\ Len(base) + d \in 1 .. Len(done)
        BY <1>1, <1>2, <2>2, <3>2
      <4>2. QED BY <1>1, <2>1, <2>2, <4>1
    <3>3. QED BY <3>1, <3>2
  <2>7. QED BY <2>2, <2>3, <2>4, <2>5, <2>6 DEF Collected
<1>5. QED BY <1>3, <1>4

\* After i segments of process_page.
Resuming(acc, page, before, i) ==
  /\ acc.pending \in Seq(Piece) /\ acc.done \in Seq(Seq(Piece))
  /\ acc.valid \in BOOLEAN /\ (acc.valid <=> acc.pending # <<>>)
  /\ i = 0 => acc.pending = before
  /\ i # 0 /\ acc.pending # <<>> =>
       /\ acc.pending = Upto(page, before, i) /\ ~page.segs[i].term
       /\ i = 1 /\ page.cont => before # <<>>
  /\ Collected(acc.done, <<>>, page, before, TRUE, i)

LEMMA ResumedOne ==
  ASSUME NEW page \in Page, NEW before \in Seq(Piece), NEW i \in 1 .. Len(page.segs), NEW acc,
         acc = [pending |-> acc.pending, valid |-> acc.valid, done |-> acc.done],
         Resuming(acc, page, before, i - 1), NEW next,
         next = Resumed(acc, page.segs[i], i = 1 /\ page.cont)
  PROVE  /\ Resuming(next, page, before, i)
         /\ next = [pending |-> next.pending, valid |-> next.valid, done |-> next.done]
<1> DEFINE seg == page.segs[i]
           resumed == i = 1 /\ page.cont
           piece == <<PieceOf(seg)>>
           valid == resumed => acc.valid
           grown == IF ~resumed THEN piece ELSE IF acc.valid THEN acc.pending \o piece ELSE <<>>
           u == Upto(page, before, i)
<1>1. /\ acc.pending \in Seq(Piece) /\ (acc.valid <=> acc.pending # <<>>) /\ acc.valid \in BOOLEAN
      /\ i - 1 = 0 => acc.pending = before
  BY DEF Resuming
<1>2. /\ acc.done \in Seq(Seq(Piece)) /\ i \in Nat \ {0}
      /\ Collected(acc.done, <<>>, page, before, TRUE, i - 1)
  <2>1. acc.done \in Seq(Seq(Piece)) /\ Collected(acc.done, <<>>, page, before, TRUE, i - 1)
    BY Zenon DEF Resuming
  <2>2. Len(page.segs) \in Nat
    BY PageFacts
  <2>3. i \in Nat \ {0}
    BY <2>2
  <2>4. QED BY <2>1, <2>3
<1>3. <<>> \in Seq(Piece) /\ <<>> \in Seq(Seq(Piece))
  <2> DEFINE P == Piece
  <2> HIDE DEF P
  <2>1. <<>> \in Seq(P) /\ <<>> \in Seq(Seq(P))
    OBVIOUS
  <2>2. QED BY <2>1 DEF P
<1>4. u \in Seq(Piece) /\ u # <<>> /\ Append(acc.done, u) \in Seq(Seq(Piece))
  <2>1. u \in Seq(Piece) /\ u # <<>>
    BY UptoType
  <2> HIDE DEF u
  <2>2. QED BY <1>2, <2>1
<1>5. Collected(acc.done, <<>>, page, before, TRUE, i)
  BY <1>2, <1>3, CollectMore
<1>6. Ending(page, before, TRUE, i) => Collected(Append(acc.done, u), <<>>, page, before, TRUE, i)
  BY <1>2, <1>3, CollectMore
<1>7. Bytes(<<seg>>) = piece
  BY DEF Bytes, PieceOf
<1>8. next = IF seg.term
             THEN [pending |-> <<>>, valid |-> FALSE, done |-> IF valid THEN Append(acc.done, grown) ELSE acc.done]
             ELSE [pending |-> grown, valid |-> valid, done |-> acc.done]
  <2>1. next = IF seg.term
               THEN [acc EXCEPT !.pending = <<>>, !.valid = FALSE,
                                !.done = IF valid THEN Append(acc.done, grown) ELSE acc.done]
               ELSE [acc EXCEPT !.pending = grown, !.valid = valid]
    BY <1>7, Zenon DEF Resumed
  <2> HIDE DEF seg, grown, valid
  <2>2. QED BY <2>1
<1>9. /\ valid => grown = u /\ (i = 1 /\ page.cont => before # <<>>)
      /\ ~valid => grown = <<>>
      /\ valid \in BOOLEAN
  <2>1. CASE resumed
    <3>1. acc.pending = before
      BY <1>1, <2>1
    <3>2. QED BY <1>1, <2>1, <3>1 DEF Upto
  <2>2. CASE ~resumed
    BY <2>2 DEF Upto
  <2>3. QED BY <2>1, <2>2
<1>10. /\ i # 0 /\ u = Upto(page, before, i) /\ seg = page.segs[i]
       /\ valid /\ seg.term => Ending(page, before, TRUE, i)
  <2>1. valid /\ seg.term => Ending(page, before, TRUE, i)
    BY <1>9 DEF Ending
  <2>2. QED BY <1>2, <2>1
<1> HIDE DEF valid, grown, u, piece, resumed, seg
<1>11. ASSUME NEW done, done \in Seq(Seq(Piece)), Collected(done, <<>>, page, before, TRUE, i)
       PROVE  Resuming([pending |-> <<>>, valid |-> FALSE, done |-> done], page, before, i)
  <2> DEFINE a == [pending |-> <<>>, valid |-> FALSE, done |-> done]
  <2>1. a.pending = <<>> /\ a.valid = FALSE /\ a.done = done
    OBVIOUS
  <2> HIDE DEF a
  <2>2. Resuming(a, page, before, i)
    BY <1>3, <1>10, <1>11, <2>1 DEF Resuming
  <2>3. QED BY <2>2 DEF a
<1>12. CASE seg.term /\ valid
  <2>1. next = [pending |-> <<>>, valid |-> FALSE, done |-> Append(acc.done, u)]
    BY <1>8, <1>9, <1>12
  <2>2. Resuming(next, page, before, i)
    BY <1>4, <1>6, <1>10, <1>11, <1>12, <2>1
  <2>3. QED BY <2>1, <2>2
<1>13. CASE seg.term /\ ~valid
  <2>1. next = [pending |-> <<>>, valid |-> FALSE, done |-> acc.done]
    BY <1>8, <1>13
  <2>2. Resuming(next, page, before, i)
    BY <1>2, <1>5, <1>11, <2>1
  <2>3. QED BY <2>1, <2>2
<1>14. CASE ~seg.term /\ valid
  <2>1. next = [pending |-> u, valid |-> TRUE, done |-> acc.done]
    <3>1. valid = TRUE /\ grown = u
      BY <1>9, <1>14, Zenon
    <3>2. QED BY <1>8, <1>14, <3>1
  <2>2. i = 1 /\ page.cont => before # <<>>
    BY <1>9, <1>14
  <2>3. next.pending = u /\ next.valid = TRUE /\ next.done = acc.done
    BY <2>1
  <2>4. Resuming(next, page, before, i)
    BY <1>2, <1>4, <1>5, <1>10, <1>14, <2>2, <2>3 DEF Resuming
  <2>5. QED BY <2>1, <2>4
<1>15. CASE ~seg.term /\ ~valid
  <2>1. next = [pending |-> <<>>, valid |-> FALSE, done |-> acc.done]
    <3>1. valid = FALSE /\ grown = <<>>
      BY <1>9, <1>15, Zenon
    <3>2. QED BY <1>8, <1>15, <3>1
  <2>2. Resuming(next, page, before, i)
    BY <1>2, <1>5, <1>11, <2>1
  <2>3. QED BY <2>1, <2>2
<1>16. QED BY <1>12, <1>13, <1>14, <1>15

LEMMA ReassembledFacts ==
  ASSUME NEW page \in Page, NEW s, s.pending \in Seq(Piece), s.pending_valid \in BOOLEAN, s.pending_valid <=> s.pending # <<>>
  PROVE  Resuming(Reassembled(page, s), page, s.pending, Len(page.segs))
<1> DEFINE n == Len(page.segs)
           ok(a) == a = [pending |-> a.pending, valid |-> a.valid, done |-> a.done]
           good(a, i) == ok(a) /\ Resuming(a, page, s.pending, i)
<1>1. n \in Nat
  BY PageFacts
<1>2. PICK f : Reassembly(f, page, StartOf(s), n) /\ Reassembled(page, s) = f[n]
  BY <1>1, ReassembledRuns
<1>3. good(f[0], 0)
  <2>1. f[0] = StartOf(s)
    <3>1. 0 \in 0 .. n
      BY <1>1
    <3>2. QED BY <1>2, <3>1 DEF Reassembly
  <2>2. <<>> \in Seq(Seq(Piece))
    OBVIOUS
  <2>3. Collected(<<>>, <<>>, page, s.pending, TRUE, 0)
    BY <2>2, CollectNone
  <2>4. Resuming(StartOf(s), page, s.pending, 0)
    BY <2>2, <2>3 DEF StartOf, Resuming
  <2>5. ok(StartOf(s))
    BY DEF StartOf
  <2>6. QED BY <2>1, <2>4, <2>5
<1>4. ASSUME NEW k \in 1 .. n, good(f[k - 1], k - 1) PROVE good(f[k], k)
  <2>1. f[k] = Resumed(f[k - 1], page.segs[k], k = 1 /\ page.cont)
    <3>1. k \in 0 .. n /\ k # 0
      BY <1>1
    <3>2. QED BY <1>2, <3>1 DEF Reassembly
  <2>2. QED BY <1>4, <2>1, ResumedOne
<1> HIDE DEF good
<1> DEFINE T == {i \in 0 .. n : ~good(f[i], i)}
<1>5. SUFFICES ASSUME T # {} PROVE FALSE
  <2>1. n \in 0 .. n
    BY <1>1
  <2>2. QED BY <1>2, <2>1 DEF good
<1>6. PICK k \in T : \A m \in T : k <= m
  <2>1. T \in SUBSET Nat
    BY <1>1
  <2>2. QED BY <1>5, <2>1, LeastNatural
<1>7. k \in 0 .. n /\ ~good(f[k], k) /\ k # 0
  BY <1>1, <1>3, <1>6
<1>8. k - 1 \in 0 .. n /\ k - 1 \notin T /\ k \in 1 .. n
  BY <1>1, <1>6, <1>7
<1>9. QED BY <1>4, <1>7, <1>8

\* After i segments of process_skeleton_page, base being what was kept before.
Absorbing(acc, page, before, base, i) ==
  /\ acc.pending \in Seq(Piece) /\ acc.kept \in Seq(Seq(Piece))
  /\ i = 0 => acc.pending = before
  /\ i # 0 /\ acc.pending # <<>> => acc.pending = Upto(page, before, i) /\ ~page.segs[i].term
  /\ Collected(acc.kept, base, page, before, FALSE, i)
  /\ \A j \in Len(base) + 1 .. Len(acc.kept) : Recognised(acc.kept[j])

LEMMA AbsorbOne ==
  ASSUME NEW page \in Page, NEW before \in Seq(Piece), NEW base \in Seq(Seq(Piece)),
         NEW i \in 1 .. Len(page.segs), NEW acc,
         Absorbing(acc, page, before, base, i - 1), NEW next,
         next = Absorb(acc, page.segs[i], i = 1 /\ page.cont)
  PROVE  Absorbing(next, page, before, base, i)
<1> DEFINE seg == page.segs[i]
           resumed == i = 1 /\ page.cont
           piece == <<PieceOf(seg)>>
           grown == IF resumed THEN acc.pending \o piece ELSE piece
           u == Upto(page, before, i)
           more == IF seg.term /\ Recognised(u) THEN Append(acc.kept, u) ELSE acc.kept
<1>1. /\ acc.pending \in Seq(Piece) /\ acc.kept \in Seq(Seq(Piece))
      /\ i - 1 = 0 => acc.pending = before
      /\ Collected(acc.kept, base, page, before, FALSE, i - 1)
      /\ \A j \in Len(base) + 1 .. Len(acc.kept) : Recognised(acc.kept[j])
  BY Zenon DEF Absorbing
<1>2. i \in Nat \ {0} /\ i # 0
  <2>1. Len(page.segs) \in Nat
    BY PageFacts
  <2>2. QED BY <2>1
<1>3. u \in Seq(Piece) /\ u # <<>>
  BY UptoType
<1>4. <<>> \in Seq(Piece)
  <2> DEFINE P == Piece
  <2> HIDE DEF P
  <2>1. <<>> \in Seq(P)
    OBVIOUS
  <2>2. QED BY <2>1 DEF P
<1>5. Bytes(<<seg>>) = piece
  BY DEF Bytes, PieceOf
<1>6. grown = u
  <2>1. CASE resumed
    <3>1. acc.pending = before
      BY <1>1, <2>1
    <3>2. QED BY <2>1, <3>1 DEF Upto
  <2>2. CASE ~resumed
    BY <2>2 DEF Upto
  <2>3. QED BY <2>1, <2>2
<1>7. next = [pending |-> IF seg.term THEN <<>> ELSE grown,
              kept |-> IF seg.term /\ Recognised(grown) THEN Append(acc.kept, grown) ELSE acc.kept]
  BY <1>5, Zenon DEF Absorb
<1>8. next.pending = (IF seg.term THEN <<>> ELSE u) /\ next.kept = more
  <2> HIDE DEF seg, grown, u
  <2>1. /\ next.pending = IF seg.term THEN <<>> ELSE grown
        /\ next.kept = IF seg.term /\ Recognised(grown) THEN Append(acc.kept, grown) ELSE acc.kept
    <3> DEFINE A == IF seg.term THEN <<>> ELSE grown
               B == IF seg.term /\ Recognised(grown) THEN Append(acc.kept, grown) ELSE acc.kept
    <3>1. next = [pending |-> A, kept |-> B]
      BY <1>7
    <3> HIDE DEF A, B
    <3>2. next.pending = A /\ next.kept = B
      BY <3>1
    <3>3. QED BY <3>2 DEF A, B
  <2>2. next.kept = more
    BY <1>6, <2>1, Zenon
  <2>3. QED BY <1>6, <2>1, <2>2
<1>9. seg.term => Ending(page, before, FALSE, i)
  BY DEF Ending
<1>10. u = Upto(page, before, i) /\ seg = page.segs[i]
  OBVIOUS
<1> HIDE DEF u, grown, piece, resumed, seg
<1>11. Append(acc.kept, u) \in Seq(Seq(Piece))
  BY <1>1, <1>3
<1>12. Collected(next.kept, base, page, before, FALSE, i)
  <2>1. \/ next.kept = acc.kept
        \/ next.kept = Append(acc.kept, Upto(page, before, i)) /\ Ending(page, before, FALSE, i)
    BY <1>8, <1>9, <1>10
  <2>2. QED BY <1>1, <1>2, <2>1, CollectMore
<1>13. ASSUME NEW j \in Len(base) + 1 .. Len(next.kept) PROVE Recognised(next.kept[j])
  <2>1. CASE next.kept = acc.kept
    BY <1>1, <1>13, <2>1
  <2>2. CASE next.kept # acc.kept
    <3>1. next.kept = Append(acc.kept, u) /\ Recognised(u)
      BY <1>8, <2>2
    <3>2. Len(next.kept) = Len(acc.kept) + 1 /\ Len(acc.kept) \in Nat /\ Len(base) \in Nat
      BY <1>1, <3>1
    <3>3. CASE j = Len(next.kept)
      <4>1. next.kept[j] = u
        BY <1>1, <3>1, <3>2, <3>3
      <4>2. QED BY <3>1, <4>1
    <3>4. CASE j # Len(next.kept)
      <4> DEFINE m == Len(acc.kept)
                 b == Len(base)
      <4>2. m \in Nat /\ b \in Nat /\ j \in b + 1 .. m + 1 /\ j # m + 1
        BY <3>2, <3>4
      <4> HIDE DEF m, b
      <4>3. j \in b + 1 .. m /\ j \in 1 .. m
        BY <4>2
      <4> USE DEF m, b
      <4>5. \A x \in 1 .. Len(acc.kept) : Append(acc.kept, u)[x] = acc.kept[x]
        BY <1>1, <1>3
      <4>1. j \in Len(base) + 1 .. Len(acc.kept) /\ next.kept[j] = acc.kept[j]
        BY <3>1, <4>3, <4>5
      <4>4. QED BY <1>1, <4>1
    <3>5. QED BY <3>3, <3>4
  <2>3. QED BY <2>1, <2>2
<1>14. next.kept \in Seq(Seq(Piece)) /\ next.pending \in Seq(Piece)
  BY <1>1, <1>3, <1>4, <1>8, <1>11
<1>15. next.pending # <<>> => next.pending = Upto(page, before, i) /\ ~page.segs[i].term
  BY <1>8, <1>10
<1>16. QED BY <1>2, <1>12, <1>13, <1>14, <1>15 DEF Absorbing

LEMMA AbsorbedFacts ==
  ASSUME NEW page \in Page, NEW before \in Seq(Piece), NEW base \in Seq(Seq(Piece))
  PROVE  Absorbing(Absorbed(page, [pending |-> before, kept |-> base]), page, before, base, Len(page.segs))
<1> DEFINE n == Len(page.segs)
           start == [pending |-> before, kept |-> base]
           good(a, i) == Absorbing(a, page, before, base, i)
<1>1. n \in Nat
  BY PageFacts
<1>2. PICK f : Absorption(f, page, start, n) /\ Absorbed(page, start) = f[n]
  BY <1>1, AbsorbedRuns
<1>3. good(f[0], 0)
  <2>1. f[0] = start
    <3>1. 0 \in 0 .. n
      BY <1>1
    <3>2. QED BY <1>2, <3>1 DEF Absorption
  <2>2. Collected(base, base, page, before, FALSE, 0)
    BY CollectNone
  <2>3. \A j \in Len(base) + 1 .. Len(base) : FALSE
    <3>1. Len(base) \in Nat
      OBVIOUS
    <3>2. QED BY <3>1
  <2>4. start.pending = before /\ start.kept = base
    OBVIOUS
  <2> HIDE DEF start
  <2>5. good(start, 0)
    BY <2>2, <2>3, <2>4 DEF Absorbing
  <2>6. QED BY <2>1, <2>5
<1>4. ASSUME NEW k \in 1 .. n, good(f[k - 1], k - 1) PROVE good(f[k], k)
  <2>1. f[k] = Absorb(f[k - 1], page.segs[k], k = 1 /\ page.cont)
    <3>1. k \in 0 .. n /\ k # 0
      BY <1>1
    <3>2. QED BY <1>2, <3>1 DEF Absorption
  <2>2. QED BY <1>4, <2>1, AbsorbOne
<1> HIDE DEF good
<1> DEFINE T == {i \in 0 .. n : ~good(f[i], i)}
<1>5. SUFFICES ASSUME T # {} PROVE FALSE
  <2>1. n \in 0 .. n
    BY <1>1
  <2>2. QED BY <1>2, <2>1 DEF good
<1>6. PICK k \in T : \A m \in T : k <= m
  <2>1. T \in SUBSET Nat
    BY <1>1
  <2>2. QED BY <1>5, <2>1, LeastNatural
<1>7. k \in 0 .. n /\ ~good(f[k], k) /\ k # 0
  BY <1>1, <1>3, <1>6
<1>8. k - 1 \in 0 .. n /\ k - 1 \notin T /\ k \in 1 .. n
  BY <1>1, <1>6, <1>7
<1>9. QED BY <1>4, <1>7, <1>8

-----------------------------------------------------------------------------
(* A page of a stream: what is held over, taken and put out.               *)

LEMMA NoPieces == <<>> \in Seq(Piece) /\ <<>> \in Seq(Seq(Piece))
<1> DEFINE P == Piece
<1> HIDE DEF P
<1>1. <<>> \in Seq(P) /\ <<>> \in Seq(Seq(P))
  OBVIOUS
<1>2. QED BY <1>1 DEF P

\* No packet is held over a hole.
LEMMA HeldFacts ==
  ASSUME NEW s \in StreamState, s.pending_valid <=> s.pending # <<>>, NEW hole \in BOOLEAN
  PROVE  /\ HeldOver(s, hole).pending \in Seq(Piece) /\ HeldOver(s, hole).pending_valid \in BOOLEAN
         /\ HeldOver(s, hole).pending_valid <=> HeldOver(s, hole).pending # <<>>
         /\ HeldOver(s, hole).pending # <<>> => ~hole /\ HeldOver(s, hole).pending = s.pending
<1>1. s.pending \in Seq(Piece) /\ s.pending_valid \in BOOLEAN
  BY DEF StreamState
<1>2. CASE hole
  <2> DEFINE h == [s EXCEPT !.pending = <<>>, !.pending_valid = FALSE]
  <2>1. HeldOver(s, hole) = h /\ h.pending = <<>> /\ h.pending_valid = FALSE
    BY <1>2 DEF HeldOver, StreamState
  <2> HIDE DEF h
  <2>2. QED BY <2>1, NoPieces
<1>3. CASE ~hole
  <2>1. HeldOver(s, hole) = s
    BY <1>3 DEF HeldOver
  <2>2. QED BY <1>1, <1>3, <2>1
<1>4. QED BY <1>2, <1>3

LEMMA TakeFacts ==
  ASSUME NEW s \in StreamState, NEW done \in Seq(Seq(Piece))
  PROVE  /\ HeaderTake(s, done) \in 0 .. Len(done) /\ HeaderTake(s, done) <= s.headers_remaining
         /\ s.headers_remaining - HeaderTake(s, done) \in Nat
         /\ HeaderTake(s, done) < Len(done) => HeaderTake(s, done) = s.headers_remaining
<1>1. s.headers_remaining \in Nat /\ Len(done) \in Nat
  BY DEF StreamState
<1> DEFINE S == {s.headers_remaining, Len(done)}
<1>2. S \in SUBSET Nat /\ S # {}
  BY <1>1
<1>3. Min(S) \in S /\ \A k \in S : Min(S) <= k
  <2> HIDE DEF S
  <2>1. QED BY <1>2, MinFacts
<1>4. HeaderTake(s, done) = Min(S)
  BY DEF HeaderTake
<1>5. QED BY <1>1, <1>3, <1>4

LEMMA FrameTypes ==
  ASSUME NEW g \in Int
  PROVE  /\ FrameIndex(g) \in Int /\ KeyframeIndex(g) \in Int /\ IsKeyframe(g) \in BOOLEAN
<1>1. Span \in Nat \ {0} /\ CountBias \in Int
  BY DemuxAssumption
<1>2. g \div Span \in Int /\ g % Span \in Int
  BY <1>1
<1>3. QED BY <1>1, <1>2 DEF FrameIndex, KeyframeIndex, IsKeyframe, NoTime

LEMMA OutputType ==
  ASSUME NEW s \in StreamState, NEW page \in Page, NEW data \in Seq(Seq(Piece))
  PROVE  /\ Output(s, page, data) \in Seq(Delivery) /\ Len(Output(s, page, data)) = Len(data)
         /\ \A i \in 1 .. Len(data) : Output(s, page, data)[i].packet = data[i]
         /\ NextFrame(s, page, Len(data)) \in Int
<1> DEFINE n == Len(data)
           first == FirstFrame(s, page.granule, n)
           Time(i) == IF ~s.theora
                      THEN IF i = n /\ page.granule >= 0 THEN page.granule ELSE NoTime
                      ELSE IF first = NoTime THEN NoTime ELSE first + i - 1
<1>1. /\ s.public_index \in Nat /\ s.theora \in BOOLEAN /\ s.next_frame \in Int /\ page.granule \in Int
      /\ n \in Nat /\ NoTime \in Int
  BY PageFacts DEF StreamState, NoTime
<1>2. FrameIndex(page.granule) \in Int
  BY <1>1, FrameTypes
<1>3. first \in Int
  BY <1>1, <1>2 DEF FirstFrame
<1> HIDE DEF first
<1>4. ASSUME NEW i \in 1 .. n
      PROVE  /\ OutPacket(s, page, data[i], Time(i), i = n) \in Delivery
             /\ OutPacket(s, page, data[i], Time(i), i = n).packet = data[i]
  <2> DEFINE time == Time(i)
             last == i = n
             key  == IF ~s.theora THEN TRUE
                     ELSE IF time # NoTime THEN time = KeyframeIndex(page.granule)
                     ELSE last /\ IsKeyframe(page.granule)
             out  == OutPacket(s, page, data[i], time, last)
  <2>1. time \in Int
    BY <1>1, <1>3
  <2>2. last \in BOOLEAN
    OBVIOUS
  <2>3. IsKeyframe(page.granule) \in BOOLEAN
    BY <1>1, FrameTypes
  <2>4. data[i] \in Seq(Piece)
    OBVIOUS
  <2> HIDE DEF time, last, n
  <2>5. key \in BOOLEAN
    BY <2>2, <2>3
  <2>6. out = [stream |-> s.public_index, packet |-> data[i], pts |-> time, last |-> last, keyframe |-> key]
    BY Zenon DEF OutPacket
  <2> HIDE DEF key, out
  <2>7. out \in Delivery
    <3> DEFINE P == Seq(Piece)
    <3> HIDE DEF P
    <3>1. data[i] \in P
      BY <2>4 DEF P
    <3>2. Delivery = [stream: Nat, packet: P, pts: Int, last: BOOLEAN, keyframe: BOOLEAN]
      BY DEF Delivery, P
    <3>3. QED BY <1>1, <2>1, <2>2, <2>5, <2>6, <3>1, <3>2
  <2>8. out.packet = data[i]
    BY <2>6
  <2>9. QED BY <2>7, <2>8 DEF out, time, last
<1> DEFINE o == Output(s, page, data)
<1>5. o = [i \in 1 .. n |-> OutPacket(s, page, data[i], Time(i), i = n)]
  BY Zenon DEF Output, first
<1>6. o \in Seq(Delivery) /\ Len(o) = n /\ \A i \in 1 .. n : o[i].packet = data[i]
  <2> DEFINE P(i) == OutPacket(s, page, data[i], Time(i), i = n)
             D == Delivery
  <2>1. \A i \in 1 .. n : P(i) \in D /\ P(i).packet = data[i]
    BY <1>4
  <2>2. o = [i \in 1 .. n |-> P(i)]
    BY <1>5
  <2> HIDE DEF P, D, o, n, Time
  <2>3. n \in Nat
    BY <1>1
  <2>4. o \in Seq(D) /\ Len(o) = n /\ \A i \in 1 .. n : o[i] = P(i)
    BY <2>1, <2>2, <2>3
  <2>5. QED BY <2>1, <2>4 DEF D
<1>7. NextFrame(s, page, n) \in Int
  BY <1>1, <1>3 DEF NextFrame, first
<1>8. QED BY <1>6, <1>7

LEMMA SubSeqFacts ==
  ASSUME NEW S, NEW done \in Seq(S), NEW take \in 0 .. Len(done)
  PROVE  /\ SubSeq(done, 1, take) \in Seq(S) /\ Len(SubSeq(done, 1, take)) = take
         /\ SubSeq(done, take + 1, Len(done)) \in Seq(S)
         /\ Len(SubSeq(done, take + 1, Len(done))) = Len(done) - take
         /\ \A i \in 1 .. Len(done) - take : SubSeq(done, take + 1, Len(done))[i] = done[take + i]
<1>1. Len(done) \in Nat /\ take \in Nat /\ take <= Len(done) /\ Len(done) - take \in Nat
  OBVIOUS
<1>2. \A i \in 1 .. take : done[i] \in S
  BY <1>1
<1>3. SubSeq(done, 1, take) \in Seq(S) /\ Len(SubSeq(done, 1, take)) = take
  BY <1>1, <1>2
<1>4. \A i \in take + 1 .. Len(done) : done[i] \in S
  BY <1>1
<1>5. SubSeq(done, take + 1, Len(done)) = [i \in 1 .. Len(done) - take |-> done[take + i]]
  BY <1>1
<1>6. \A i \in 1 .. Len(done) - take : done[take + i] \in S
  BY <1>1
<1>7. QED BY <1>1, <1>3, <1>5, <1>6

\* Public streams whose serials stay.
LEMMA ExtradataSwapped ==
  ASSUME NEW strs, NEW states, NEW skel, RegistryOK(strs, states, skel), NEW strs2 \in Seq(PublicStream),
         DOMAIN strs2 = DOMAIN strs, \A i \in DOMAIN strs : strs2[i].serial = strs[i].serial
  PROVE  RegistryOK(strs2, states, skel)
BY DEF RegistryOK

LEMMA ExtradataFacts ==
  ASSUME NEW strs \in Seq(PublicStream), NEW s \in StreamState, s.public_index \in DOMAIN strs
  PROVE  /\ WithExtradata(strs, s) \in Seq(PublicStream) /\ DOMAIN WithExtradata(strs, s) = DOMAIN strs
         /\ \A i \in DOMAIN strs : WithExtradata(strs, s)[i].serial = strs[i].serial
<1>1. CASE s.header_packets = <<>>
  BY <1>1 DEF WithExtradata
<1>2. CASE s.header_packets # <<>>
  <2> DEFINE i == s.public_index
             x == CodecPrivate(strs[i].codec, s.header_packets)
             str == [strs[i] EXCEPT !.extradata = x]
             out == [strs EXCEPT ![i] = str]
  <2>1. s.header_packets \in Seq(Seq(Piece)) /\ Len(s.header_packets) >= 1
    <3>1. s.header_packets \in Seq(Seq(Piece))
      BY DEF StreamState
    <3>2. QED BY <1>2, <3>1
  <2>2. x \in Seq(Seq(Piece))
    BY <2>1 DEF CodecPrivate
  <2>3. WithExtradata(strs, s) = out
    BY <1>2 DEF WithExtradata
  <2>4. strs[i] \in PublicStream
    OBVIOUS
  <2> HIDE DEF x
  <2>5. str \in PublicStream /\ str.serial = strs[i].serial
    <3> DEFINE P == Seq(Seq(Piece))
    <3>1. x \in P
      BY <2>2
    <3> HIDE DEF P
    <3>2. PublicStream = [serial: Nat, codec: Sources, extradata: P]
      BY DEF PublicStream, P
    <3>3. QED BY <2>4, <3>1, <3>2
  <2> HIDE DEF str
  <2>6. out \in Seq(PublicStream) /\ DOMAIN out = DOMAIN strs
        /\ \A j \in DOMAIN strs : out[j].serial = strs[j].serial
    BY <2>5
  <2>7. QED BY <2>3, <2>6
<1>3. QED BY <1>1, <1>2

LEMMA AllExtradataFacts ==
  ASSUME RegistryInv
  PROVE  RegistryOK(AllExtradata, state_by_serial, skeleton)
<1>1. streams \in Seq(PublicStream)
  BY DEF RegistryInv, RegistryOK
<1> DEFINE S == PublicStream
           W(i) == WithExtradata(streams, state_by_serial[streams[i].serial])[i]
           out == AllExtradata
<1>2. ASSUME NEW i \in DOMAIN streams PROVE W(i) \in S /\ W(i).serial = streams[i].serial
  <2> DEFINE s == state_by_serial[streams[i].serial]
  <2>1. s \in StreamState /\ s.public_index \in DOMAIN streams
    BY DEF RegistryInv, RegistryOK
  <2>2. WithExtradata(streams, s) \in Seq(PublicStream) /\ DOMAIN WithExtradata(streams, s) = DOMAIN streams
        /\ WithExtradata(streams, s)[i].serial = streams[i].serial
    BY <1>1, <2>1, ExtradataFacts
  <2> HIDE DEF s
  <2>3. WithExtradata(streams, s)[i] \in PublicStream
    BY <2>2
  <2>4. QED BY <2>2, <2>3 DEF s
<1>3. out = [i \in DOMAIN streams |-> W(i)]
  BY Zenon DEF AllExtradata
<1> HIDE DEF W, S, out
<1>4. out \in Seq(S) /\ DOMAIN out = DOMAIN streams /\ \A i \in DOMAIN streams : out[i] = W(i)
  <2>1. Len(streams) \in Nat /\ DOMAIN streams = 1 .. Len(streams)
    BY <1>1
  <2>2. QED BY <1>2, <1>3, <2>1
<1>5. \A i \in DOMAIN streams : out[i].serial = streams[i].serial
  BY <1>2, <1>4
<1>6. QED BY <1>4, <1>5, ExtradataSwapped DEF S, out, RegistryInv

-----------------------------------------------------------------------------
(* The type invariant, action by action.                                   *)

LEMMA ReadTypes ==
  ASSUME TypeInv, ReadPage
  PROVE  /\ FileInv' /\ LedgerInv' /\ IndexInv'
         /\ file' = file /\ NextRead \in Page /\ Landing \in DOMAIN file /\ NextRead = file[Landing].page
<1>1. FileInv /\ LedgerInv /\ IndexInv /\ CanRead /\ file' = file /\ pos' = Landing + 1
  BY DEF TypeInv, ReadPage
<1>2. /\ Landing \in pos .. Len(file) /\ Landing \in DOMAIN file /\ NextRead = file[Landing].page
      /\ NextRead \in Page /\ pos \in Nat /\ Len(file) \in Nat /\ pos >= 1
  <2>1. pos >= 1
    BY <1>1, FileFacts DEF FileInv
  <2>2. QED BY <1>1, <2>1, LandingFacts, FileFacts
<1>3. FileInv'
  BY <1>1, <1>2 DEF FileInv
<1>4. LedgerInv'
  <2>1. damage' = Record(damage, "resync", NextRead) \/ damage' = damage
    BY DEF ReadPage
  <2>2. "resync" \in Kinds
    BY DEF Kinds
  <2>3. QED BY <1>1, <1>2, <2>1, <2>2, RecordType DEF LedgerInv
<1>5. IndexInv'
  <2>1. seek_index' = IndexRecord(seek_index, NextRead, Landing)
    BY DEF ReadPage
  <2>2. ASSUME NEW e \in seek_index' PROVE Indexed(e)
    <3>1. e \in seek_index \/ e = [serial |-> NextRead.serial, granule |-> NextRead.granule, off |-> Landing]
      BY <2>1 DEF IndexRecord
    <3>2. QED BY <1>1, <1>2, <3>1 DEF IndexInv, Indexed
  <2>3. \A e \in seek_index' : Indexed(e)'
    BY <1>1, <2>2 DEF Indexed
  <2>4. QED BY <2>3 DEF IndexInv
<1>6. QED BY <1>1, <1>2, <1>3, <1>4, <1>5

LEMMA ReadNoneTypes ==
  ASSUME TypeInv, ReadNone
  PROVE  FileInv' /\ LedgerInv' /\ IndexInv' /\ file' = file
<1>1. /\ FileInv /\ LedgerInv /\ IndexInv /\ file' = file /\ pos' = Len(file) + 1
      /\ seek_index' = seek_index
  BY DEF TypeInv, ReadNone
<1>2. Len(file) \in Nat /\ pos >= 1 /\ pos <= Len(file) + 1
  BY <1>1, FileFacts DEF FileInv
<1>3. FileInv'
  BY <1>1, <1>2 DEF FileInv
<1>4. LedgerInv'
  <2>1. CASE Cut
    <3>1. Present # {} /\ Present \subseteq pos .. Len(file)
      BY <2>1 DEF Cut, Present
    <3>2. Len(file) \in DOMAIN file
      <4>1. PICK k \in pos .. Len(file) : TRUE
        BY <3>1
      <4>2. pos \in Nat /\ pos <= k /\ k <= Len(file) /\ DOMAIN file = 1 .. Len(file)
        BY <1>1, <4>1, FileFacts
      <4>3. QED BY <1>2, <4>2
    <3>3. file[Len(file)].page \in Page
      BY <1>1, <3>2, FileFacts
    <3>4. damage' = Record(damage, "truncated", file[Len(file)].page) /\ "truncated" \in Kinds
      BY <2>1 DEF ReadNone, Kinds
    <3>5. QED BY <1>1, <3>3, <3>4, RecordType DEF LedgerInv
  <2>2. CASE ~Cut
    BY <1>1, <2>2 DEF ReadNone, LedgerInv
  <2>3. QED BY <2>1, <2>2
<1>5. IndexInv'
  BY <1>1 DEF IndexInv, Indexed
<1>6. QED BY <1>1, <1>3, <1>4, <1>5

\* What unchanged variables keep.
LEMMA KeptTypes ==
  ASSUME TypeInv
  PROVE  /\ UNCHANGED <<file, pos>> => FileInv'
         /\ UNCHANGED <<file, seek_index>> => IndexInv'
         /\ UNCHANGED <<out_queue, delivered>> => QueueInv'
         /\ UNCHANGED registry => RegistryInv'
         /\ UNCHANGED damage => LedgerInv'
<1>1. UNCHANGED <<file, pos>> => FileInv'
  BY DEF TypeInv, FileInv
<1>2. UNCHANGED <<file, seek_index>> => IndexInv'
  BY DEF TypeInv, IndexInv, Indexed
<1>3. UNCHANGED <<out_queue, delivered>> => QueueInv'
  BY DEF TypeInv, QueueInv
<1>4. UNCHANGED registry => RegistryInv'
  BY DEF TypeInv, RegistryInv, registry
<1>5. UNCHANGED damage => LedgerInv'
  BY DEF TypeInv, LedgerInv
<1>6. QED BY <1>1, <1>2, <1>3, <1>4, <1>5

\* A step that moves neither pages nor phase.
Control == <<phase, pages_consumed, hand, at, page_queue, eof_reached, seen_nonbos, seek_index_built,
             next_link_index>>

LEMMA HandFacts ==
  ASSUME TypeInv, hand # <<>>
  PROVE  /\ InHand \in Page /\ hand = <<InHand>> /\ (InHand.bos => InHand.segs # <<>>)
         /\ \E k \in DOMAIN file : InHand = file[k].page
<1>1. PICK k \in DOMAIN file : hand = <<file[k].page>>
  BY DEF TypeInv, ControlInv
<1>2. FileInv
  BY DEF TypeInv
<1>3. InHand = file[k].page
  BY <1>1 DEF InHand
<1>4. QED BY <1>1, <1>2, <1>3, FileFacts

LEMMA RegisteringTypes ==
  ASSUME TypeInv, NEW page \in Page, page.segs # <<>>, NEW link \in Nat, page.serial \notin DOMAIN state_by_serial,
         NEW r, r = RegisterStream(Registry, page, link)
  PROVE  /\ r = AsRegistry(r.streams, r.state_by_serial, r.skeleton)
         /\ RegistryOK(r.streams, r.state_by_serial, r.skeleton)
         /\ Registered(state_by_serial, skeleton, page, r.state_by_serial, r.skeleton)
<1>1. Registry = AsRegistry(streams, state_by_serial, skeleton)
  BY DEF Registry, AsRegistry
<1>2. RegistryOK(streams, state_by_serial, skeleton)
  BY DEF TypeInv, RegistryInv
<1>3. QED BY <1>1, <1>2, Registering

LEMMA BosPageTypes ==
  ASSUME TypeInv, BosPage
  PROVE  TypeInv'
<1>1. ReadPage /\ FileInv' /\ LedgerInv' /\ IndexInv'
      /\ file' = file /\ NextRead \in Page /\ Landing \in DOMAIN file /\ NextRead = file[Landing].page
  BY ReadTypes DEF BosPage
<1>2. /\ page_queue' = Append(page_queue, NextRead) /\ phase' \in {"bos", LeaveBos}
      /\ UNCHANGED <<pages_consumed, hand, at, out_queue, eof_reached, next_link_index, seen_nonbos,
                     seek_index_built, delivered>>
  BY DEF BosPage, links
<1>3. ControlInv'
  <2>1. ControlInv /\ page_queue \in Seq(Page)
    BY DEF TypeInv, ControlInv
  <2>2. /\ page_queue' \in Seq(Page) /\ Len(page_queue') = Len(page_queue) + 1
        /\ page_queue'[Len(page_queue) + 1] = NextRead
        /\ \A i \in 1 .. Len(page_queue) : page_queue'[i] = page_queue[i]
    BY <1>1, <1>2, <2>1
  <2>3. ASSUME NEW i \in DOMAIN page_queue' PROVE \E k \in DOMAIN file : page_queue'[i] = file[k].page
    <3>1. i \in 1 .. Len(page_queue) \/ i = Len(page_queue) + 1
      BY <2>1, <2>2
    <3>2. QED BY <1>1, <2>1, <2>2, <3>1 DEF ControlInv
  <2>4. phase' \in {"bos", "headers", "idle", "next", "failed"}
    BY <1>2 DEF LeaveBos
  <2>5. QED BY <1>1, <1>2, <2>1, <2>2, <2>3, <2>4 DEF ControlInv
<1>4. QueueInv'
  BY <1>2, KeptTypes
<1>5. RegistryInv'
  <2>1. CASE NextRead.bos /\ NextRead.serial \notin DOMAIN state_by_serial
    <3> DEFINE r == RegisterStream(Registry, NextRead, next_link_index)
    <3>1. Becomes(r)
      BY <2>1 DEF BosPage
    <3>2. FileInv /\ next_link_index \in Nat
      BY DEF TypeInv, ControlInv
    <3>3. NextRead.segs # <<>>
      BY <1>1, <2>1, <3>2, FileFacts
    <3>4. RegistryOK(r.streams, r.state_by_serial, r.skeleton)
      BY <1>1, <2>1, <3>2, <3>3, RegisteringTypes
    <3> HIDE DEF r
    <3>5. QED BY <3>1, <3>4 DEF Becomes, RegistryInv
  <2>2. CASE ~(NextRead.bos /\ NextRead.serial \notin DOMAIN state_by_serial)
    BY <2>2, KeptTypes DEF BosPage
  <2>3. QED BY <2>1, <2>2
<1>6. QED BY <1>1, <1>3, <1>4, <1>5 DEF TypeInv

LEMMA BosEofTypes ==
  ASSUME TypeInv, BosEof
  PROVE  TypeInv'
<1>1. ReadNone /\ FileInv' /\ LedgerInv' /\ IndexInv' /\ file' = file
  BY ReadNoneTypes DEF BosEof
<1>2. QueueInv' /\ RegistryInv'
  BY KeptTypes DEF BosEof
<1>3. ControlInv'
  BY <1>1 DEF BosEof, LeaveBos, TypeInv, ControlInv, links
<1>4. QED BY <1>1, <1>2, <1>3 DEF TypeInv

LEMMA OpenTypes ==
  ASSUME TypeInv, OpenDone \/ OpenEof
  PROVE  TypeInv'
<1>1. /\ phase' = "idle" /\ streams' = AllExtradata /\ file' = file
      /\ UNCHANGED <<pages_consumed, hand, at, page_queue, out_queue, eof_reached, state_by_serial, skeleton,
                     next_link_index, seen_nonbos, seek_index_built, delivered>>
  BY DEF OpenDone, OpenEof, links, reader, ReadNone
<1>2. FileInv' /\ LedgerInv' /\ IndexInv'
  BY ReadNoneTypes, KeptTypes DEF OpenDone, OpenEof, reader
<1>3. RegistryInv'
  <2>1. RegistryOK(AllExtradata, state_by_serial, skeleton)
    BY AllExtradataFacts DEF TypeInv
  <2>2. QED BY <1>1, <2>1 DEF RegistryInv
<1>4. ControlInv'
  BY <1>1 DEF TypeInv, ControlInv
<1>5. QueueInv'
  BY <1>1, KeptTypes
<1>6. QED BY <1>2, <1>3, <1>4, <1>5 DEF TypeInv

LEMMA TakeQueuedTypes ==
  ASSUME TypeInv, TakeQueued
  PROVE  TypeInv'
<1>1. /\ page_queue # <<>> /\ hand' = <<Head(page_queue)>> /\ page_queue' = Tail(page_queue) /\ at' = "bos"
      /\ pages_consumed' \in {pages_consumed, pages_consumed + 1}
      /\ UNCHANGED <<file, pos, seek_index, phase, out_queue, eof_reached, registry, next_link_index, seen_nonbos,
                     damage, seek_index_built, delivered>>
  BY DEF TakeQueued, links, reader
<1>2. FileInv' /\ LedgerInv' /\ IndexInv' /\ QueueInv' /\ RegistryInv'
  BY <1>1, KeptTypes
<1>3. ControlInv'
  <2>1. page_queue \in Seq(Page) /\ \A i \in DOMAIN page_queue : \E k \in DOMAIN file : page_queue[i] = file[k].page
    BY DEF TypeInv, ControlInv
  <2>2. /\ Head(page_queue) = page_queue[1] /\ 1 \in DOMAIN page_queue /\ Tail(page_queue) \in Seq(Page)
        /\ \A i \in DOMAIN Tail(page_queue) : Tail(page_queue)[i] = page_queue[i + 1] /\ i + 1 \in DOMAIN page_queue
    BY <1>1, <2>1
  <2>3. \A i \in DOMAIN Tail(page_queue) : \E k \in DOMAIN file : Tail(page_queue)[i] = file[k].page
    BY <2>1, <2>2
  <2>4. \E k \in DOMAIN file : hand' = <<file[k].page>>
    BY <1>1, <2>1, <2>2
  <2>5. pages_consumed' \in Nat /\ hand' # <<>>
    BY <1>1 DEF TypeInv, ControlInv
  <2>6. ControlInv
    BY DEF TypeInv
  <2>7. QED BY <1>1, <2>2, <2>3, <2>4, <2>5, <2>6 DEF ControlInv
<1>4. QED BY <1>2, <1>3 DEF TypeInv

LEMMA TakeReadTypes ==
  ASSUME TypeInv, TakeRead
  PROVE  TypeInv'
<1>1. /\ ReadPage /\ hand' = <<NextRead>> /\ at' = "bos"
      /\ pages_consumed' \in {pages_consumed, pages_consumed + 1}
      /\ UNCHANGED <<phase, page_queue, out_queue, eof_reached, registry, next_link_index, seen_nonbos,
                     seek_index_built, delivered>>
  BY DEF TakeRead, links
<1>2. FileInv' /\ LedgerInv' /\ IndexInv'
      /\ file' = file /\ NextRead \in Page /\ Landing \in DOMAIN file /\ NextRead = file[Landing].page
  BY <1>1, ReadTypes
<1>3. QueueInv' /\ RegistryInv'
  BY <1>1, KeptTypes
<1>4. ControlInv'
  <2>1. pages_consumed' \in Nat /\ hand' # <<>> /\ ControlInv
    BY <1>1 DEF TypeInv, ControlInv
  <2>2. \E k \in DOMAIN file : hand' = <<file[k].page>>
    BY <1>1, <1>2
  <2>3. QED BY <1>1, <1>2, <2>1, <2>2 DEF ControlInv
<1>5. QED BY <1>2, <1>3, <1>4 DEF TypeInv

LEMMA NextPacketTypes ==
  ASSUME TypeInv, NextPacket
  PROVE  TypeInv'
<1>1. FileInv' /\ LedgerInv' /\ IndexInv' /\ QueueInv' /\ RegistryInv'
  BY KeptTypes DEF NextPacket, reader
<1>2. ControlInv'
  BY DEF NextPacket, TypeInv, ControlInv, links, reader
<1>3. QED BY <1>1, <1>2 DEF TypeInv

LEMMA DeliverTypes ==
  ASSUME TypeInv, Deliver
  PROVE  TypeInv'
<1>1. FileInv' /\ LedgerInv' /\ IndexInv' /\ RegistryInv'
  BY KeptTypes DEF Deliver, reader
<1>2. ControlInv'
  BY DEF Deliver, TypeInv, ControlInv, links, reader
<1>3. QueueInv'
  <2> DEFINE D == Delivery
  <2>1. out_queue \in Seq(D) /\ delivered \in Seq(D) /\ out_queue # <<>>
    BY DEF TypeInv, QueueInv, Deliver
  <2>2. delivered' = Append(delivered, Head(out_queue)) /\ out_queue' = Tail(out_queue)
    BY DEF Deliver
  <2> HIDE DEF D
  <2>3. Head(out_queue) \in D /\ Tail(out_queue) \in Seq(D)
    BY <2>1
  <2>4. delivered' \in Seq(D) /\ out_queue' \in Seq(D)
    BY <2>1, <2>2, <2>3
  <2>5. QED BY <2>4 DEF QueueInv, D
<1>4. QED BY <1>1, <1>2, <1>3 DEF TypeInv

LEMMA EndOfFileTypes ==
  ASSUME TypeInv, EndOfFile
  PROVE  TypeInv'
<1>1. ReadNone /\ FileInv' /\ LedgerInv' /\ IndexInv' /\ file' = file
  BY ReadNoneTypes DEF EndOfFile
<1>2. QueueInv' /\ RegistryInv'
  BY KeptTypes DEF EndOfFile
<1>3. ControlInv'
  BY <1>1 DEF EndOfFile, TypeInv, ControlInv, links
<1>4. QED BY <1>1, <1>2, <1>3 DEF TypeInv

-----------------------------------------------------------------------------
(* The type invariant: process_page.                                       *)

LEMMA LinkFacts ==
  ASSUME TypeInv
  PROVE  LinkAfter \in Nat /\ next_link_index \in Nat
BY DEF TypeInv, ControlInv, LinkAfter

\* BOS handling: the page stays in hand.
LEMMA BosStepControl ==
  ASSUME TypeInv, BosStep
  PROVE  /\ ControlInv' /\ FileInv' /\ IndexInv' /\ QueueInv'
         /\ hand # <<>> /\ InHand \in Page /\ InHand.serial \in Nat
<1>1. /\ AtBos /\ at' = "body" /\ seen_nonbos' \in {TRUE, FALSE, seen_nonbos}
      /\ next_link_index' \in {next_link_index, LinkAfter}
      /\ UNCHANGED <<file, pos, seek_index, phase, pages_consumed, hand, page_queue, eof_reached,
                     seek_index_built, out_queue, delivered>>
  BY Zenon DEF BosStep, PlainPage, NewBos, RegisteredBos, DuplicateBos, SkeletonBos, Rest, reader, links
<1>2. ControlInv'
  BY <1>1, LinkFacts DEF TypeInv, ControlInv, AtBos
<1>3. InHand.serial \in Nat /\ InHand \in Page
  BY <1>1, HandFacts, PageFacts DEF AtBos
<1>4. FileInv' /\ IndexInv' /\ QueueInv'
  BY <1>1, KeptTypes
<1>5. QED BY <1>1, <1>2, <1>3, <1>4 DEF AtBos

LEMMA CountDuplicateType ==
  ASSUME TypeInv, NEW page \in Page
  PROVE  CountDuplicate(damage, page) \in Ledger
<1>1. "duplicate" \in Kinds /\ damage \in Ledger
  BY DEF Kinds, TypeInv, LedgerInv
<1>2. QED BY <1>1, RecordType DEF CountDuplicate

LEMMA PlainPageTypes ==
  ASSUME TypeInv, PlainPage
  PROVE  TypeInv'
<1>1. ControlInv' /\ FileInv' /\ IndexInv' /\ QueueInv'
  BY BosStepControl DEF BosStep
<1>2. RegistryInv' /\ LedgerInv'
  BY KeptTypes DEF PlainPage
<1>3. QED BY <1>1, <1>2 DEF TypeInv

LEMMA ProcessedTypes ==
  ASSUME NEW strs, NEW states, NEW skel, RegistryOK(strs, states, skel), NEW serial, NEW r,
         r = Processed(AsRegistry(strs, states, skel), serial)
  PROVE  /\ r = AsRegistry(strs, r.state_by_serial, skel) /\ RegistryOK(strs, r.state_by_serial, skel)
         /\ r.streams = strs /\ r.skeleton = skel /\ DOMAIN r.state_by_serial = DOMAIN states
         /\ \A t \in DOMAIN states : /\ r.state_by_serial[t].pending = states[t].pending
                                     /\ r.state_by_serial[t].last_seq = states[t].last_seq
<1>1. CASE serial \in DOMAIN states
  <2> DEFINE s == [states[serial] EXCEPT !.bos_processed = TRUE]
             states2 == [states EXCEPT ![serial] = s]
  <2>1. states[serial] \in StreamState
    BY <1>1 DEF RegistryOK
  <2>2. /\ s \in StreamState /\ s.public_index = states[serial].public_index /\ s.last_seq = states[serial].last_seq
        /\ s.pending = states[serial].pending /\ s.pending_valid = states[serial].pending_valid
    BY <2>1 DEF StreamState
  <2>3. s.pending_valid \in BOOLEAN
    BY <2>2 DEF StreamState
  <2>4. s.pending_valid <=> s.pending # <<>>
    BY <1>1, <2>2 DEF RegistryOK
  <2> HIDE DEF s
  <2>5. RegistryOK(strs, states2, skel)
    BY <1>1, <2>2, <2>3, <2>4, StateChanged
  <2>6. r = AsRegistry(strs, states2, skel)
    BY <1>1 DEF Processed, AsRegistry, s
  <2>7. DOMAIN states2 = DOMAIN states /\ \A t \in DOMAIN states : states2[t] = IF t = serial THEN s ELSE states[t]
    OBVIOUS
  <2>8. \A t \in DOMAIN states : states2[t].pending = states[t].pending /\ states2[t].last_seq = states[t].last_seq
    BY <2>2, <2>7
  <2> HIDE DEF states2
  <2>9. r.streams = strs /\ r.state_by_serial = states2 /\ r.skeleton = skel
    BY <2>6 DEF AsRegistry
  <2>10. QED BY <2>5, <2>6, <2>7, <2>8, <2>9, Zenon
<1>2. CASE serial \notin DOMAIN states
  <2>1. r = AsRegistry(strs, states, skel)
    BY <1>2 DEF Processed, AsRegistry
  <2>2. r.streams = strs /\ r.state_by_serial = states /\ r.skeleton = skel
    BY <2>1 DEF AsRegistry
  <2>3. QED BY <2>1, <2>2, Zenon
<1>3. QED BY <1>1, <1>2

LEMMA NewBosTypes ==
  ASSUME TypeInv, NewBos
  PROVE  TypeInv'
<1>1. ControlInv' /\ FileInv' /\ IndexInv' /\ QueueInv' /\ hand # <<>> /\ InHand \in Page
  BY BosStepControl DEF BosStep
<1>2. LedgerInv'
  BY KeptTypes DEF NewBos
<1>3. RegistryInv'
  <2> DEFINE r == RegisterStream(Registry, InHand, LinkAfter)
             q == Processed(r, InHand.serial)
  <2>1. InHand.bos /\ InHand.serial \notin DOMAIN state_by_serial /\ Becomes(q)
    BY DEF NewBos, Known
  <2>2. r = AsRegistry(r.streams, r.state_by_serial, r.skeleton)
        /\ RegistryOK(r.streams, r.state_by_serial, r.skeleton)
    BY <1>1, <2>1, HandFacts, LinkFacts, RegisteringTypes
  <2> HIDE DEF r
  <2>3. q.streams = r.streams /\ q.skeleton = r.skeleton /\ RegistryOK(r.streams, q.state_by_serial, r.skeleton)
    <3>1. q = Processed(AsRegistry(r.streams, r.state_by_serial, r.skeleton), InHand.serial)
      BY <2>2, Zenon
    <3> HIDE DEF q
    <3> DEFINE strs == r.streams
               states == r.state_by_serial
               skel == r.skeleton
    <3>2. RegistryOK(strs, states, skel) /\ q = Processed(AsRegistry(strs, states, skel), InHand.serial)
      BY <2>2, <3>1
    <3> HIDE DEF strs, states, skel
    <3>3. q.streams = strs /\ q.skeleton = skel /\ RegistryOK(strs, q.state_by_serial, skel)
      BY <3>2, ProcessedTypes
    <3>4. QED BY <3>3 DEF strs, states, skel
  <2> HIDE DEF q
  <2>4. QED BY <2>1, <2>3 DEF Becomes, RegistryInv
<1>4. QED BY <1>1, <1>2, <1>3 DEF TypeInv

LEMMA RegisteredBosTypes ==
  ASSUME TypeInv, RegisteredBos
  PROVE  TypeInv'
<1>1. ControlInv' /\ FileInv' /\ IndexInv' /\ QueueInv' /\ hand # <<>> /\ InHand \in Page
  BY BosStepControl DEF BosStep
<1>2. LedgerInv'
  BY KeptTypes DEF RegisteredBos
<1>3. RegistryInv'
  <2> DEFINE q == Processed(AsRegistry(streams, state_by_serial, skeleton), InHand.serial)
  <2>1. /\ InHand.serial \in DOMAIN state_by_serial
        /\ state_by_serial' = [state_by_serial EXCEPT ![InHand.serial].bos_processed = TRUE]
        /\ streams' = streams /\ skeleton' = skeleton
    BY DEF RegisteredBos, Known
  <2>2. q.state_by_serial = state_by_serial'
    BY <2>1 DEF Processed, AsRegistry
  <2>3. RegistryOK(streams, q.state_by_serial, skeleton)
    <3> HIDE DEF q
    <3>1. RegistryOK(streams, state_by_serial, skeleton)
      BY DEF TypeInv, RegistryInv
    <3>2. QED BY <3>1, ProcessedTypes DEF q
  <2> HIDE DEF q
  <2>4. QED BY <2>1, <2>2, <2>3 DEF RegistryInv
<1>4. QED BY <1>1, <1>2, <1>3 DEF TypeInv

LEMMA RestartedFacts ==
  ASSUME NEW s \in StreamState, NEW page \in Page, page.segs # <<>>, NEW link \in Nat
  PROVE  /\ Restarted(s, page, link) \in StreamState /\ Restarted(s, page, link).public_index = s.public_index
         /\ Restarted(s, page, link).pending = <<>> /\ Restarted(s, page, link).pending_valid = FALSE
<1>1. page.segs[1].src \in Sources
  BY PageFacts
<1>2. Need[page.segs[1].src] \in Nat
  BY <1>1, DemuxAssumption
<1>3. QED BY <1>2, NoPieces DEF Restarted, StreamState

LEMMA DuplicateBosTypes ==
  ASSUME TypeInv, DuplicateBos
  PROVE  TypeInv'
<1>1. ControlInv' /\ FileInv' /\ IndexInv' /\ QueueInv' /\ hand # <<>> /\ InHand \in Page
  BY BosStepControl DEF BosStep
<1>2. LedgerInv'
  BY <1>1, CountDuplicateType DEF DuplicateBos, LedgerInv
<1>3. RegistryInv'
  <2> DEFINE s == state_by_serial[InHand.serial]
             s2 == Restarted(s, InHand, LinkAfter)
  <2>1. /\ InHand.bos /\ InHand.serial \in DOMAIN state_by_serial
        /\ state_by_serial' = [state_by_serial EXCEPT ![InHand.serial] = s2]
        /\ streams' = streams /\ skeleton' = skeleton
    BY DEF DuplicateBos, Duplicate, Known
  <2>2. RegistryOK(streams, state_by_serial, skeleton)
    BY DEF TypeInv, RegistryInv
  <2>3. s \in StreamState
    BY <2>1, <2>2 DEF RegistryOK
  <2>4. s2 \in StreamState /\ s2.public_index = s.public_index /\ s2.pending = <<>> /\ s2.pending_valid = FALSE
    <3> HIDE DEF s
    <3>1. QED BY <1>1, <2>1, <2>3, HandFacts, LinkFacts, RestartedFacts
  <2> HIDE DEF s2
  <2>5. RegistryOK(streams, [state_by_serial EXCEPT ![InHand.serial] = s2], skeleton)
    BY <2>1, <2>2, <2>4, StateChanged
  <2>6. QED BY <2>1, <2>5 DEF RegistryInv
<1>4. QED BY <1>1, <1>2, <1>3 DEF TypeInv

LEMMA SkeletonBosTypes ==
  ASSUME TypeInv, SkeletonBos
  PROVE  TypeInv'
<1>1. ControlInv' /\ FileInv' /\ IndexInv' /\ QueueInv' /\ hand # <<>> /\ InHand \in Page
  BY BosStepControl DEF BosStep
<1>2. LedgerInv'
  <2>1. damage' = damage \/ damage' = CountDuplicate(damage, InHand)
    BY DEF SkeletonBos
  <2>2. QED BY <1>1, <2>1, CountDuplicateType DEF TypeInv, LedgerInv
<1>3. RegistryInv'
  <2>1. CASE UNCHANGED registry
    BY <2>1, KeptTypes
  <2>2. CASE ~UNCHANGED registry
    <3> DEFINE r == RegisterStream(Registry, InHand, next_link_index)
    <3>1. InHand.bos /\ Becomes(r) /\ InHand.serial \notin DOMAIN state_by_serial
      BY <2>2 DEF SkeletonBos, Known
    <3>2. RegistryOK(r.streams, r.state_by_serial, r.skeleton)
      BY <1>1, <3>1, HandFacts, LinkFacts, RegisteringTypes
    <3> HIDE DEF r
    <3>3. QED BY <3>1, <3>2 DEF Becomes, RegistryInv
  <2>3. QED BY <2>1, <2>2
<1>4. QED BY <1>1, <1>2, <1>3 DEF TypeInv

\* The body: the page is let go.
LEMMA BodyControl ==
  ASSUME TypeInv, BodyStep
  PROVE  /\ ControlInv' /\ FileInv' /\ IndexInv'
         /\ hand # <<>> /\ InHand \in Page /\ InHand.serial \in Nat
<1>1. /\ AtBody /\ LetGo
      /\ UNCHANGED <<file, pos, seek_index, phase, pages_consumed, page_queue, eof_reached, seen_nonbos,
                     next_link_index, seek_index_built>>
  BY Zenon DEF BodyStep, SkipUnknown, SkeletonPage, ContentPage, Rest, reader, links
<1>2. ControlInv'
  BY <1>1 DEF TypeInv, ControlInv, LetGo
<1>3. InHand.serial \in Nat /\ InHand \in Page
  BY <1>1, HandFacts, PageFacts DEF AtBody
<1>4. FileInv' /\ IndexInv'
  BY <1>1, KeptTypes
<1>5. QED BY <1>1, <1>2, <1>3, <1>4 DEF AtBody

LEMMA SkipUnknownTypes ==
  ASSUME TypeInv, SkipUnknown
  PROVE  TypeInv'
<1>1. ControlInv' /\ FileInv' /\ IndexInv'
  BY BodyControl DEF BodyStep
<1>2. RegistryInv' /\ LedgerInv' /\ QueueInv'
  BY KeptTypes DEF SkipUnknown, Rest
<1>3. QED BY <1>1, <1>2 DEF TypeInv

\* A page of the Skeleton: what is held and what is absorbed.
LEMMA SkeletonAbsorbs ==
  ASSUME TypeInv, SkeletonPage
  PROVE  \E before, r :
           /\ before \in Seq(Piece)
           /\ before # <<>> => ~SkeletonHole(InHand, skeleton.last_seq) /\ before = skeleton.pending
           /\ Absorbing(r, InHand, before, skeleton.packets, Len(InHand.segs))
           /\ skeleton' = [skeleton EXCEPT !.pending = r.pending, !.last_seq = InHand.seq, !.packets = r.kept,
                                           !.eos_seen = skeleton.eos_seen \/ InHand.eos]
           /\ damage' \in {damage, Record(damage, "hole", InHand)}
<1> DEFINE hole == SkeletonHole(InHand, skeleton.last_seq)
           held == SkeletonHeld(skeleton.pending, hole)
           r == Absorbed(InHand, [pending |-> held, kept |-> skeleton.packets])
<1>1. InHand \in Page /\ skeleton.pending \in Seq(Piece) /\ skeleton.packets \in Seq(Seq(Piece))
  <2>1. skeleton \in SkeletonState
    BY DEF TypeInv, RegistryInv, RegistryOK
  <2>2. QED BY <2>1, BodyControl DEF BodyStep, SkeletonState
<1>2. /\ skeleton' = [skeleton EXCEPT !.pending = r.pending, !.last_seq = InHand.seq, !.packets = r.kept,
                                      !.eos_seen = skeleton.eos_seen \/ InHand.eos]
      /\ damage' = IF hole THEN Record(damage, "hole", InHand) ELSE damage
  BY Zenon DEF SkeletonPage
<1>3. held \in Seq(Piece) /\ (held # <<>> => ~hole /\ held = skeleton.pending)
  BY <1>1, NoPieces DEF SkeletonHeld
<1> HIDE DEF held, hole
<1>4. Absorbing(r, InHand, held, skeleton.packets, Len(InHand.segs))
  BY <1>1, <1>3, AbsorbedFacts
<1> HIDE DEF r
<1>5. held # <<>> => ~SkeletonHole(InHand, skeleton.last_seq) /\ held = skeleton.pending
  BY <1>3 DEF hole
<1>6. damage' \in {damage, Record(damage, "hole", InHand)}
  BY <1>2
<1>7. QED BY <1>2, <1>3, <1>4, <1>5, <1>6, Zenon

LEMMA SkeletonPageTypes ==
  ASSUME TypeInv, SkeletonPage
  PROVE  TypeInv'
<1>1. ControlInv' /\ FileInv' /\ IndexInv' /\ InHand \in Page
  BY BodyControl DEF BodyStep
<1>2. QueueInv'
  BY KeptTypes DEF SkeletonPage, Rest
<1>3. PICK before, r :
           /\ before \in Seq(Piece)
           /\ before # <<>> => ~SkeletonHole(InHand, skeleton.last_seq) /\ before = skeleton.pending
           /\ Absorbing(r, InHand, before, skeleton.packets, Len(InHand.segs))
           /\ skeleton' = [skeleton EXCEPT !.pending = r.pending, !.last_seq = InHand.seq, !.packets = r.kept,
                                           !.eos_seen = skeleton.eos_seen \/ InHand.eos]
           /\ damage' \in {damage, Record(damage, "hole", InHand)}
  BY SkeletonAbsorbs
<1>4. LedgerInv'
  <2>1. "hole" \in Kinds
    BY DEF Kinds
  <2>2. QED BY <1>1, <1>3, <2>1, RecordType DEF TypeInv, LedgerInv
<1>5. RegistryInv'
  <2> DEFINE P == Seq(Piece)
             PP == Seq(Seq(Piece))
  <2>1. r.pending \in P /\ r.kept \in PP
    BY <1>3 DEF Absorbing
  <2>2. InHand.seq \in Nat /\ InHand.eos \in BOOLEAN
    BY <1>1, PageFacts
  <2>3. RegistryOK(streams, state_by_serial, skeleton) /\ skeleton \in SkeletonState
    BY DEF TypeInv, RegistryInv, RegistryOK
  <2>4. SkeletonState = [serial: Nat \cup {NoSerial}, pending: P, last_seq: Nat \cup {NoSeq},
                         eos_seen: BOOLEAN, packets: PP]
    BY DEF SkeletonState
  <2> HIDE DEF P, PP
  <2>5. skeleton' \in SkeletonState /\ skeleton'.serial = skeleton.serial
    BY <1>3, <2>1, <2>2, <2>3, <2>4
  <2>6. streams' = streams /\ state_by_serial' = state_by_serial
    BY DEF SkeletonPage
  <2>7. QED BY <2>3, <2>5, <2>6 DEF RegistryInv, RegistryOK
<1>6. QED BY <1>1, <1>2, <1>4, <1>5 DEF TypeInv

\* What process_page makes of a page of a stream: before is the packet in hand
\* it goes on with, r what the segments make of it, next the state of the
\* stream after it, and data its packets but for the headers.
PageTurned(before, r, next, take, data) ==
  LET s == state_by_serial[InHand.serial]
  IN /\ before \in Seq(Piece) /\ take \in Nat /\ data \in Seq(Seq(Piece))
     /\ InHand.serial \in DOMAIN state_by_serial /\ s \in StreamState
     /\ before # <<>> => ~Hole(InHand, s.last_seq) /\ before = s.pending
     /\ Resuming(r, InHand, before, Len(InHand.segs))
     /\ next \in StreamState /\ next.public_index = s.public_index
     /\ next.headers_remaining = s.headers_remaining - take /\ next.bos_processed = s.bos_processed
     /\ Len(data) > 0 => take = s.headers_remaining
     /\ next.pending = r.pending /\ next.last_seq = InHand.seq
     /\ next.pending_valid <=> next.pending # <<>>
     /\ take <= Len(r.done) /\ Len(data) = Len(r.done) - take
     /\ \A i \in 1 .. Len(data) : data[i] = r.done[take + i]
     /\ state_by_serial' = [state_by_serial EXCEPT ![InHand.serial] = next]
     /\ out_queue' = out_queue \o Output(s, InHand, data)
     /\ streams' \in {streams, WithExtradata(streams, next)}
     /\ damage' \in {damage, Record(damage, "hole", InHand), Record(damage, "framing", InHand)}

LEMMA ContentTurned ==
  ASSUME TypeInv, ContentPage
  PROVE  \E before, r, next, take, data : PageTurned(before, r, next, take, data)
<1> DEFINE s    == state_by_serial[InHand.serial]
           hole == Hole(InHand, s.last_seq)
           held == HeldOver(s, hole)
           r    == Reassembled(InHand, held)
           take == HeaderTake(s, r.done)
           data == SubSeq(r.done, take + 1, Len(r.done))
           next == [s EXCEPT !.pending = r.pending, !.pending_valid = r.valid,
                             !.headers_remaining = s.headers_remaining - take,
                             !.header_packets = s.header_packets \o SubSeq(r.done, 1, take),
                             !.next_frame = NextFrame(s, InHand, Len(data)),
                             !.last_seq = InHand.seq]
<1>1. InHand \in Page /\ InHand.seq \in Nat /\ InHand.serial \in DOMAIN state_by_serial
  BY BodyControl, PageFacts DEF BodyStep, ContentPage, Known
<1>2. s \in StreamState
  BY <1>1 DEF TypeInv, RegistryInv, RegistryOK
<1>3. s.pending_valid <=> s.pending # <<>>
  BY <1>1 DEF TypeInv, RegistryInv, RegistryOK
<1>4. /\ damage' = ContentDamage(s, hole)
      /\ state_by_serial' = [state_by_serial EXCEPT ![InHand.serial] = next]
      /\ out_queue' = out_queue \o Output(s, InHand, data)
      /\ streams' = IF take > 0 /\ take = s.headers_remaining THEN WithExtradata(streams, next) ELSE streams
  BY Zenon DEF ContentPage
<1>5. hole \in BOOLEAN /\ (hole <=> Hole(InHand, s.last_seq))
  BY DEF Hole
<1> HIDE DEF s
<1>6. /\ held.pending \in Seq(Piece) /\ held.pending_valid \in BOOLEAN
      /\ held.pending_valid <=> held.pending # <<>>
      /\ held.pending # <<>> => ~hole /\ held.pending = s.pending
  <2> HIDE DEF hole
  <2>1. QED BY <1>2, <1>3, <1>5, HeldFacts
<1> HIDE DEF hole, held
<1>7. Resuming(r, InHand, held.pending, Len(InHand.segs))
  BY <1>1, <1>6, ReassembledFacts
<1>8. /\ r.done \in Seq(Seq(Piece)) /\ r.pending \in Seq(Piece) /\ r.valid \in BOOLEAN
      /\ r.valid <=> r.pending # <<>>
  BY <1>7 DEF Resuming
<1> HIDE DEF r
<1>9. /\ take \in 0 .. Len(r.done) /\ s.headers_remaining - take \in Nat
      /\ take < Len(r.done) => take = s.headers_remaining
  BY <1>2, <1>8, TakeFacts
<1>10. Len(r.done) \in Nat /\ take \in Nat /\ take <= Len(r.done)
  BY <1>8, <1>9
<1> HIDE DEF take
<1>11. /\ SubSeq(r.done, 1, take) \in Seq(Seq(Piece)) /\ data \in Seq(Seq(Piece))
       /\ Len(data) = Len(r.done) - take
       /\ \A i \in 1 .. Len(r.done) - take : data[i] = r.done[take + i]
  BY <1>8, <1>9, SubSeqFacts
<1> HIDE DEF data
<1>12. NextFrame(s, InHand, Len(data)) \in Int
  BY <1>1, <1>2, <1>11, OutputType
<1>13. s.header_packets \o SubSeq(r.done, 1, take) \in Seq(Seq(Piece))
  <2>1. s.header_packets \in Seq(Seq(Piece))
    BY <1>2 DEF StreamState
  <2>2. QED BY <1>11, <2>1
<1>14. /\ next \in StreamState /\ next.public_index = s.public_index /\ next.pending = r.pending
       /\ next.last_seq = InHand.seq /\ next.pending_valid = r.valid
       /\ next.headers_remaining = s.headers_remaining - take /\ next.bos_processed = s.bos_processed
  <2> DEFINE remaining == s.headers_remaining - take
             packets == s.header_packets \o SubSeq(r.done, 1, take)
             frame == NextFrame(s, InHand, Len(data))
             P == Seq(Piece)
             PP == Seq(Seq(Piece))
  <2>1. /\ remaining \in Nat /\ packets \in PP /\ frame \in Int /\ r.pending \in P /\ InHand.seq \in Nat
        /\ r.valid \in BOOLEAN
    BY <1>1, <1>8, <1>9, <1>12, <1>13
  <2>2. StreamState = [public_index: Nat, headers_remaining: Nat, header_packets: PP,
                pending: P, pending_valid: BOOLEAN, link_index: Nat,
                last_seq: Nat \cup {NoSeq}, bos_processed: BOOLEAN,
                next_frame: Int, theora: BOOLEAN]
    BY DEF StreamState
  <2>3. next = [s EXCEPT !.pending = r.pending, !.pending_valid = r.valid, !.headers_remaining = remaining,
                         !.header_packets = packets, !.next_frame = frame, !.last_seq = InHand.seq]
    OBVIOUS
  <2> HIDE DEF remaining, packets, frame, P, PP, next
  <2>4. /\ next \in StreamState /\ next.public_index = s.public_index /\ next.pending = r.pending
        /\ next.last_seq = InHand.seq /\ next.pending_valid = r.valid
        /\ next.headers_remaining = remaining /\ next.bos_processed = s.bos_processed
    BY <1>2, <2>1, <2>2, <2>3
  <2>5. QED BY <2>4 DEF remaining
<1> HIDE DEF next
<1>15. damage' \in {damage, Record(damage, "hole", InHand), Record(damage, "framing", InHand)}
  BY <1>4 DEF ContentDamage
<1>16. next.pending_valid <=> next.pending # <<>>
  BY <1>8, <1>14
<1>17. \A i \in 1 .. Len(data) : data[i] = r.done[take + i]
  BY <1>11
<1>18. held.pending # <<>> => ~Hole(InHand, s.last_seq) /\ held.pending = s.pending
  BY <1>5, <1>6
<1>19. streams' \in {streams, WithExtradata(streams, next)}
  BY <1>4
<1> DEFINE before == held.pending
<1>20. before \in Seq(Piece) /\ take \in Nat /\ data \in Seq(Seq(Piece))
  BY <1>6, <1>10, <1>11
<1>21. Len(data) > 0 => take = s.headers_remaining
  BY <1>9, <1>10, <1>11
<1>22. PageTurned(before, r, next, take, data)
  BY <1>1, <1>2, <1>4, <1>7, <1>10, <1>11, <1>14, <1>15, <1>16, <1>17, <1>18, <1>19, <1>20, <1>21, Zenon
  DEF PageTurned, s
<1> HIDE DEF before
<1>23. QED BY <1>22, Zenon

LEMMA ContentPageTypes ==
  ASSUME TypeInv, ContentPage
  PROVE  TypeInv'
<1>1. ControlInv' /\ FileInv' /\ IndexInv' /\ InHand \in Page
  BY BodyControl DEF BodyStep
<1>2. PICK before, r, next, take, data : PageTurned(before, r, next, take, data)
  BY ContentTurned
<1>3. QueueInv'
  <2> DEFINE D == Delivery
             o == Output(state_by_serial[InHand.serial], InHand, data)
  <2>1. o \in Seq(D)
    BY <1>1, <1>2, OutputType DEF PageTurned
  <2>2. out_queue \in Seq(D) /\ delivered \in Seq(D) /\ delivered' = delivered
    BY DEF TypeInv, QueueInv, ContentPage, Rest
  <2>3. out_queue' = out_queue \o o
    BY <1>2 DEF PageTurned
  <2> HIDE DEF D, o
  <2>4. out_queue' \in Seq(D)
    BY <2>1, <2>2, <2>3
  <2>5. QED BY <2>2, <2>4 DEF QueueInv, D
<1>4. LedgerInv'
  <2>1. "hole" \in Kinds /\ "framing" \in Kinds /\ damage \in Ledger
    BY DEF Kinds, TypeInv, LedgerInv
  <2>2. QED BY <1>1, <1>2, <2>1, RecordType DEF LedgerInv, PageTurned
<1>5. RegistryInv'
  <2>1. RegistryOK(streams, state_by_serial, skeleton)
    BY DEF TypeInv, RegistryInv
  <2> DEFINE serial == InHand.serial
             s == state_by_serial[serial]
  <2>7. /\ serial \in DOMAIN state_by_serial /\ next \in StreamState /\ next.public_index = s.public_index
        /\ next.pending_valid <=> next.pending # <<>>
        /\ state_by_serial' = [state_by_serial EXCEPT ![serial] = next]
        /\ streams' \in {streams, WithExtradata(streams, next)}
    BY <1>2 DEF PageTurned
  <2>2. RegistryOK(streams, state_by_serial', skeleton)
    <3>1. next.pending_valid \in BOOLEAN
      BY <2>7 DEF StreamState
    <3>2. QED BY <2>1, <2>7, <3>1, StateChanged
  <2>3. skeleton' = skeleton
    BY DEF ContentPage
  <2>4. CASE streams' = streams
    BY <2>2, <2>3, <2>4 DEF RegistryInv
  <2>5. CASE streams' = WithExtradata(streams, next)
    <3>1. streams \in Seq(PublicStream) /\ next.public_index \in DOMAIN streams
      BY <2>1, <2>7 DEF RegistryOK
    <3>2. /\ WithExtradata(streams, next) \in Seq(PublicStream)
          /\ DOMAIN WithExtradata(streams, next) = DOMAIN streams
          /\ \A i \in DOMAIN streams : WithExtradata(streams, next)[i].serial = streams[i].serial
      BY <2>7, <3>1, ExtradataFacts
    <3>3. RegistryOK(streams', state_by_serial', skeleton)
      BY <2>2, <2>5, <3>2, ExtradataSwapped
    <3>4. QED BY <2>3, <3>3 DEF RegistryInv
  <2>6. QED BY <2>4, <2>5, <2>7
<1>6. QED BY <1>1, <1>3, <1>4, <1>5 DEF TypeInv

-----------------------------------------------------------------------------
(* The scan of build_seek_index.                                           *)

FisheadPage(k, serial, seq) ==
  file[k].page.bos /\ IsFishead(file[k].page) /\ file[k].page.serial = serial /\ file[k].page.seq = seq
\* What the registering of bitstreams leaves alone: what a state or the Skeleton
\* holds of a packet.
Untouched(states, skel, states2, skel2) ==
  /\ \A t \in DOMAIN states : t \in DOMAIN states2 /\ states2[t] = states[t]
  /\ \A t \in DOMAIN states2 : t \notin DOMAIN states => states2[t].pending = <<>>
  /\ skel2.pending = skel.pending /\ skel2.packets = skel.packets
  /\ skel.serial # NoSerial => skel2.serial = skel.serial
  /\ \/ skel2.serial = skel.serial /\ skel2.last_seq = skel.last_seq
     \/ \E k \in DOMAIN file : FisheadPage(k, skel2.serial, skel2.last_seq)

LEMMA RegisteredUntouched ==
  ASSUME NEW states, NEW skel, NEW k \in DOMAIN file, file[k].page.bos, NEW states2, NEW skel2,
         Registered(states, skel, file[k].page, states2, skel2)
  PROVE  Untouched(states, skel, states2, skel2)
<1>1. /\ \A t \in DOMAIN states : t \in DOMAIN states2 /\ states2[t] = states[t]
      /\ \A t \in DOMAIN states2 : t \notin DOMAIN states => states2[t].pending = <<>>
      /\ skel2.pending = skel.pending /\ skel2.packets = skel.packets
  BY DEF Registered
<1>2. CASE skel2 = skel
  BY <1>1, <1>2, Zenon DEF Untouched
<1>3. CASE skel2 # skel
  <2>1. /\ IsFishead(file[k].page) /\ skel.serial \in {NoSerial, file[k].page.serial}
        /\ skel2.serial = file[k].page.serial /\ skel2.last_seq = file[k].page.seq
    BY <1>3, Zenon DEF Registered
  <2>2. FisheadPage(k, skel2.serial, skel2.last_seq)
    BY <2>1, Zenon DEF FisheadPage
  <2>3. skel.serial # NoSerial => skel2.serial = skel.serial
    BY <2>1
  <2>4. QED BY <1>1, <2>2, <2>3, Zenon DEF Untouched
<1>4. QED BY <1>2, <1>3

LEMMA UntouchedSelf ==
  ASSUME NEW states, NEW skel
  PROVE  Untouched(states, skel, states, skel)
BY Zenon DEF Untouched

LEMMA UntouchedTwice ==
  ASSUME NEW states, NEW skel, NEW states2, NEW skel2, NEW states3, NEW skel3,
         Untouched(states, skel, states2, skel2), Untouched(states2, skel2, states3, skel3)
  PROVE  Untouched(states, skel, states3, skel3)
<1>1. ASSUME NEW t \in DOMAIN states PROVE t \in DOMAIN states3 /\ states3[t] = states[t]
  BY Zenon DEF Untouched
<1>2. ASSUME NEW t \in DOMAIN states3, t \notin DOMAIN states PROVE states3[t].pending = <<>>
  <2>1. CASE t \in DOMAIN states2
    <3>1. states3[t] = states2[t] /\ states2[t].pending = <<>>
      BY <1>2, <2>1, Zenon DEF Untouched
    <3>2. QED BY <3>1
  <2>2. CASE t \notin DOMAIN states2
    BY <1>2, <2>2, Zenon DEF Untouched
  <2>3. QED BY <2>1, <2>2
<1>3. skel3.pending = skel.pending /\ skel3.packets = skel.packets
  BY DEF Untouched
<1>4. skel.serial # NoSerial => skel3.serial = skel.serial
  BY DEF Untouched
<1>5. \/ skel3.serial = skel.serial /\ skel3.last_seq = skel.last_seq
      \/ \E k \in DOMAIN file : FisheadPage(k, skel3.serial, skel3.last_seq)
  <2>1. CASE skel3.serial = skel2.serial /\ skel3.last_seq = skel2.last_seq
    BY <2>1, Zenon DEF Untouched
  <2>2. CASE ~(skel3.serial = skel2.serial /\ skel3.last_seq = skel2.last_seq)
    BY <2>2, Zenon DEF Untouched
  <2>3. QED BY <2>1, <2>2
<1>6. QED BY <1>1, <1>2, <1>3, <1>4, <1>5, Zenon DEF Untouched

Shaped(a) == a = [index |-> a.index, link |-> a.link, seen |-> a.seen, duplicates |-> a.duplicates,
                  met |-> a.met, registry |-> a.registry]
Counted(a) ==
  /\ Shaped(a)
  /\ \A e \in a.index : Indexed(e)
  /\ a.link \in Nat /\ a.seen \in BOOLEAN /\ a.duplicates \in Nat
RegistryKept(r) ==
  /\ r = AsRegistry(r.streams, r.state_by_serial, r.skeleton)
  /\ RegistryOK(r.streams, r.state_by_serial, r.skeleton)
  /\ Untouched(state_by_serial, skeleton, r.state_by_serial, r.skeleton)

LEMMA ScanPageFacts ==
  ASSUME TypeInv, NEW k \in DOMAIN file, NEW acc, Counted(acc), RegistryKept(acc.registry)
  PROVE  Counted(ScanPage(acc, k)) /\ RegistryKept(ScanPage(acc, k).registry)
<1> DEFINE page == file[k].page
           idx == IndexRecord(acc.index, page, k)
           reg == acc.registry
           indexed == [acc EXCEPT !.index = idx]
           linked == IF acc.seen THEN [indexed EXCEPT !.link = indexed.link + 1, !.seen = FALSE] ELSE indexed
           dup == page.serial # reg.skeleton.serial /\ page.serial \in acc.met
           met == IF page.serial = reg.skeleton.serial THEN acc.met ELSE acc.met \cup {page.serial}
           next == ScanPage(acc, k)
           new == RegisterStream(linked.registry, page, linked.link)
<1>1. FileInv /\ page \in Page /\ (page.bos => page.segs # <<>>)
  BY FileFacts DEF TypeInv
<1>2. /\ Shaped(acc) /\ \A e \in acc.index : Indexed(e)
      /\ acc.link \in Nat /\ acc.seen \in BOOLEAN /\ acc.duplicates \in Nat
  BY Zenon DEF Counted
<1>3. \A e \in idx : Indexed(e)
  <2>1. \A e \in idx : e \in acc.index \/ e = [serial |-> page.serial, granule |-> page.granule, off |-> k]
    BY DEF IndexRecord
  <2>2. QED BY <1>2, <2>1 DEF Indexed
<1> HIDE DEF page, idx, reg
<1>4. /\ Counted(indexed) /\ indexed.registry = reg /\ indexed.link = acc.link /\ indexed.seen = acc.seen
      /\ indexed.duplicates = acc.duplicates
  <2>1. indexed = [index |-> idx, link |-> acc.link, seen |-> acc.seen, duplicates |-> acc.duplicates,
                   met |-> acc.met, registry |-> acc.registry]
    BY <1>2 DEF Shaped
  <2> HIDE DEF indexed
  <2>2. /\ Shaped(indexed) /\ indexed.index = idx /\ indexed.link = acc.link /\ indexed.seen = acc.seen
        /\ indexed.duplicates = acc.duplicates /\ indexed.registry = acc.registry
    BY <2>1 DEF Shaped
  <2>3. QED BY <1>2, <1>3, <2>2 DEF Counted, reg
<1> HIDE DEF indexed
<1>5. Counted(linked) /\ linked.registry = reg /\ linked.link \in Nat /\ linked.duplicates \in Nat
  <2>1. CASE acc.seen
    <3> DEFINE l == [indexed EXCEPT !.link = indexed.link + 1, !.seen = FALSE]
    <3>1. linked = l
      BY <2>1
    <3> DEFINE m == indexed.link + 1
    <3>2. m \in Nat /\ Shaped(indexed) /\ (\A e \in indexed.index : Indexed(e)) /\ indexed.duplicates \in Nat
      <4>1. indexed.link \in Nat
        BY <1>4, Zenon DEF Counted
      <4>2. QED BY <1>4, <4>1, <1>2 DEF Counted
    <3>3. l = [indexed EXCEPT !.link = m, !.seen = FALSE]
      OBVIOUS
    <3> HIDE DEF l, m
    <3>4. l = [index |-> indexed.index, link |-> m, seen |-> FALSE,
               duplicates |-> indexed.duplicates, met |-> indexed.met, registry |-> indexed.registry]
      BY <3>2, <3>3 DEF Shaped
    <3>5. /\ Shaped(l) /\ l.index = indexed.index /\ l.link = m /\ l.seen = FALSE
          /\ l.duplicates = indexed.duplicates /\ l.registry = indexed.registry
      BY <3>4 DEF Shaped
    <3>6. Counted(l) /\ l.link \in Nat /\ l.duplicates \in Nat
      BY <3>2, <3>5 DEF Counted
    <3>7. QED BY <1>4, <3>1, <3>5, <3>6
  <2>2. CASE ~acc.seen
    BY <1>2, <1>4, <2>2
  <2>3. QED BY <2>1, <2>2
<1> HIDE DEF linked
<1>6. next = IF file[k].state = "lost" THEN acc
             ELSE IF ~page.bos THEN [indexed EXCEPT !.seen = TRUE]
             ELSE IF dup THEN [linked EXCEPT !.duplicates = linked.duplicates + 1]
             ELSE IF page.serial \in DOMAIN reg.state_by_serial THEN [indexed EXCEPT !.met = met]
             ELSE IF file[k].state = "cut" THEN [indexed EXCEPT !.met = met]
             ELSE [linked EXCEPT !.met = met, !.registry = new]
  BY Zenon DEF ScanPage, page, reg, idx, indexed, linked
<1> HIDE DEF dup, met, next
<1>7. RegistryKept(reg)
  BY DEF reg
<1>8. CASE file[k].state = "lost"
  BY <1>6, <1>8 DEF next
<1>9. ASSUME next = [indexed EXCEPT !.seen = TRUE] PROVE Counted(next) /\ RegistryKept(next.registry)
  <2>1. next = [index |-> indexed.index, link |-> indexed.link, seen |-> TRUE,
                duplicates |-> indexed.duplicates, met |-> indexed.met, registry |-> indexed.registry]
    BY <1>4, <1>9 DEF Counted, Shaped
  <2>2. /\ Shaped(next) /\ next.index = indexed.index /\ next.link = indexed.link /\ next.seen = TRUE
        /\ next.duplicates = indexed.duplicates /\ next.registry = indexed.registry
    BY <2>1 DEF Shaped
  <2>3. QED BY <1>4, <1>7, <2>2 DEF Counted
<1>10. ASSUME next = [linked EXCEPT !.duplicates = linked.duplicates + 1]
       PROVE  Counted(next) /\ RegistryKept(next.registry)
  <2>1. next = [index |-> linked.index, link |-> linked.link, seen |-> linked.seen,
                duplicates |-> linked.duplicates + 1, met |-> linked.met, registry |-> linked.registry]
    BY <1>5, <1>10 DEF Counted, Shaped
  <2>2. /\ Shaped(next) /\ next.index = linked.index /\ next.link = linked.link /\ next.seen = linked.seen
        /\ next.duplicates = linked.duplicates + 1 /\ next.registry = linked.registry
    BY <2>1 DEF Shaped
  <2>3. QED BY <1>5, <1>7, <2>2 DEF Counted
<1>11. ASSUME next = [indexed EXCEPT !.met = met] PROVE Counted(next) /\ RegistryKept(next.registry)
  <2>1. next = [index |-> indexed.index, link |-> indexed.link, seen |-> indexed.seen,
                duplicates |-> indexed.duplicates, met |-> met, registry |-> indexed.registry]
    BY <1>4, <1>11 DEF Counted, Shaped
  <2>2. /\ Shaped(next) /\ next.index = indexed.index /\ next.link = indexed.link /\ next.seen = indexed.seen
        /\ next.duplicates = indexed.duplicates /\ next.registry = indexed.registry
    BY <2>1 DEF Shaped
  <2>3. QED BY <1>4, <1>7, <2>2 DEF Counted
<1>12. ASSUME page.bos, page.serial \notin DOMAIN reg.state_by_serial,
              next = [linked EXCEPT !.met = met, !.registry = new]
       PROVE  Counted(next) /\ RegistryKept(next.registry)
  <2> DEFINE strs == reg.streams
             states == reg.state_by_serial
             skel == reg.skeleton
  <2>1. /\ reg = AsRegistry(strs, states, skel) /\ RegistryOK(strs, states, skel)
        /\ Untouched(state_by_serial, skeleton, states, skel)
    BY <1>7 DEF RegistryKept
  <2> HIDE DEF strs, states, skel
  <2>2. /\ new = AsRegistry(new.streams, new.state_by_serial, new.skeleton)
        /\ RegistryOK(new.streams, new.state_by_serial, new.skeleton)
        /\ Registered(states, skel, page, new.state_by_serial, new.skeleton)
    <3>1. new = RegisterStream(AsRegistry(strs, states, skel), page, linked.link)
      BY <1>5, <2>1, Zenon
    <3> HIDE DEF new
    <3>2. page.serial \notin DOMAIN states /\ page.segs # <<>>
      BY <1>1, <1>12 DEF states
    <3>3. QED BY <1>1, <1>5, <2>1, <3>1, <3>2, Registering
  <2> HIDE DEF new
  <2>3. Untouched(states, skel, new.state_by_serial, new.skeleton)
    BY <1>12, <2>2, RegisteredUntouched DEF page
  <2>4. RegistryKept(new)
    BY <2>1, <2>2, <2>3, UntouchedTwice, Zenon DEF RegistryKept
  <2>5. next = [index |-> linked.index, link |-> linked.link, seen |-> linked.seen,
                duplicates |-> linked.duplicates, met |-> met, registry |-> new]
    BY <1>5, <1>12 DEF Counted, Shaped
  <2>6. /\ Shaped(next) /\ next.index = linked.index /\ next.link = linked.link /\ next.seen = linked.seen
        /\ next.duplicates = linked.duplicates /\ next.registry = new
    BY <2>5 DEF Shaped
  <2>7. QED BY <1>5, <2>4, <2>6 DEF Counted
<1> HIDE DEF new
<1>13. Counted(next) /\ RegistryKept(next.registry)
  BY <1>6, <1>8, <1>9, <1>10, <1>11, <1>12, Zenon DEF next
<1>14. QED BY <1>13 DEF next

LEMMA ScanFacts ==
  ASSUME TypeInv
  PROVE  Counted(Scan) /\ RegistryKept(Scan.registry)
<1> DEFINE n == Len(file)
           good(a) == Counted(a) /\ RegistryKept(a.registry)
<1>1. n \in Nat /\ DOMAIN file = 1 .. n
  BY FileFacts DEF TypeInv
<1>2. PICK f : Scanning(f, ScanStart, n) /\ Scan = f[n]
  BY <1>1, ScanRuns
<1>3. good(f[0])
  <2>1. f[0] = ScanStart
    <3>1. 0 \in 0 .. n
      BY <1>1
    <3>2. QED BY <1>2, <3>1 DEF Scanning
  <2>2. /\ ScanStart.index = seek_index /\ ScanStart.link = next_link_index /\ ScanStart.seen = seen_nonbos
        /\ ScanStart.duplicates = 0 /\ ScanStart.registry = Registry /\ Shaped(ScanStart)
    BY DEF ScanStart, Shaped
  <2>3. /\ Registry.streams = streams /\ Registry.state_by_serial = state_by_serial
        /\ Registry.skeleton = skeleton /\ Registry = AsRegistry(streams, state_by_serial, skeleton)
    BY DEF Registry, AsRegistry
  <2>4. Counted(ScanStart)
    BY <2>2 DEF Counted, TypeInv, ControlInv, IndexInv
  <2>5. RegistryKept(Registry)
    BY <2>3, UntouchedSelf DEF RegistryKept, TypeInv, RegistryInv
  <2>6. QED BY <2>1, <2>2, <2>4, <2>5
<1>4. ASSUME NEW k \in 1 .. n, good(f[k - 1]) PROVE good(f[k])
  <2>1. f[k] = ScanPage(f[k - 1], k)
    <3>1. k \in 0 .. n /\ k # 0
      BY <1>1
    <3>2. QED BY <1>2, <3>1 DEF Scanning
  <2>2. QED BY <1>1, <1>4, <2>1, ScanPageFacts
<1> HIDE DEF good
<1> DEFINE T == {i \in 0 .. n : ~good(f[i])}
<1>5. SUFFICES ASSUME T # {} PROVE FALSE
  <2>1. n \in 0 .. n
    BY <1>1
  <2>2. QED BY <1>2, <2>1 DEF good
<1>6. PICK k \in T : \A m \in T : k <= m
  <2>1. T \in SUBSET Nat
    BY <1>1
  <2>2. QED BY <1>5, <2>1, LeastNatural
<1>7. k \in 0 .. n /\ ~good(f[k]) /\ k # 0
  BY <1>1, <1>3, <1>6
<1>8. k - 1 \in 0 .. n /\ k - 1 \notin T /\ k \in 1 .. n
  BY <1>1, <1>6, <1>7
<1>9. QED BY <1>4, <1>7, <1>8

LEMMA BuildSeekIndexTypes ==
  ASSUME TypeInv, BuildSeekIndex
  PROVE  TypeInv'
<1> DEFINE r == Scan
<1>1. Counted(r) /\ RegistryKept(r.registry)
  BY ScanFacts
<1>2. /\ seek_index' = r.index /\ next_link_index' = r.link /\ seen_nonbos' = r.seen
      /\ damage' = [damage EXCEPT !.count["duplicate"] = r.duplicates]
      /\ Becomes(r.registry) /\ seek_index_built' = TRUE
      /\ UNCHANGED <<file, pos, phase, pages_consumed, hand, at, page_queue, out_queue, eof_reached, delivered>>
  BY DEF BuildSeekIndex
<1> HIDE DEF r
<1>3. FileInv' /\ QueueInv'
  BY <1>2, KeptTypes
<1>4. IndexInv'
  BY <1>1, <1>2 DEF IndexInv, Counted, Indexed
<1>5. ControlInv'
  BY <1>1, <1>2 DEF TypeInv, ControlInv, Counted
<1>6. RegistryInv'
  BY <1>1, <1>2 DEF RegistryInv, RegistryKept, Becomes
<1>7. LedgerInv'
  <2> DEFINE cnt == [damage.count EXCEPT !["duplicate"] = r.duplicates]
             E == Seq([kind: Kinds, serial: Nat, seq: Nat])
  <2>1. Ledger = [count: [Kinds -> Nat], total: Nat, events: E]
    BY DEF Ledger
  <2> HIDE DEF E
  <2>2. damage \in Ledger /\ r.duplicates \in Nat /\ "duplicate" \in Kinds
    BY <1>1 DEF TypeInv, LedgerInv, Counted, Kinds
  <2>3. cnt \in [Kinds -> Nat]
    BY <2>1, <2>2
  <2>4. damage' = [damage EXCEPT !.count = cnt]
    BY <1>2
  <2> HIDE DEF cnt
  <2>5. QED BY <2>1, <2>2, <2>3, <2>4 DEF LedgerInv
<1>8. QED BY <1>3, <1>4, <1>5, <1>6, <1>7 DEF TypeInv

-----------------------------------------------------------------------------
(* Type correctness.                                                       *)

LEMMA TypesAtFirst == Init => TypeInv
<1> SUFFICES ASSUME Init PROVE TypeInv
  OBVIOUS
<1>1. FileInv
  <2>1. file \in Seq(Item) /\ pos = 1 /\ file \in Files
    BY FilesAssumption DEF Init
  <2>2. QED BY <2>1 DEF FileInv
<1>2. ControlInv
  <2>1. <<>> \in Seq(Page) /\ DOMAIN <<>> = {}
    <3> DEFINE P == Page
    <3> HIDE DEF P
    <3>1. <<>> \in Seq(P)
      OBVIOUS
    <3>2. QED BY <3>1 DEF P
  <2>2. QED BY <2>1 DEF Init, ControlInv
<1>3. QueueInv
  <2> DEFINE P == Delivery
  <2> HIDE DEF P
  <2>1. <<>> \in Seq(P)
    OBVIOUS
  <2>2. QED BY <2>1 DEF P, Init, QueueInv
<1>4. RegistryInv
  <2>1. <<>> \in Seq(PublicStream)
    <3> DEFINE P == PublicStream
    <3> HIDE DEF P
    <3>1. <<>> \in Seq(P)
      OBVIOUS
    <3>2. QED BY <3>1 DEF P
  <2>2. skeleton \in SkeletonState
    <3> DEFINE P == Seq(Piece)
               PP == Seq(Seq(Piece))
    <3>1. <<>> \in P /\ <<>> \in PP
      BY NoPieces
    <3>2. SkeletonState = [serial: Nat \cup {NoSerial}, pending: P, last_seq: Nat \cup {NoSeq},
                           eos_seen: BOOLEAN, packets: PP]
      BY DEF SkeletonState
    <3> HIDE DEF P, PP
    <3>3. QED BY <3>1, <3>2 DEF Init
  <2>3. streams = <<>> /\ state_by_serial = <<>> /\ DOMAIN <<>> = {}
    BY DEF Init
  <2>4. QED BY <2>1, <2>2, <2>3 DEF RegistryInv, RegistryOK
<1>5. LedgerInv
  <2> DEFINE E == [kind: Kinds, serial: Nat, seq: Nat]
  <2>1. Ledger = [count: [Kinds -> Nat], total: Nat, events: Seq(E)]
    BY DEF Ledger
  <2> HIDE DEF E
  <2>2. <<>> \in Seq(E) /\ [kind \in Kinds |-> 0] \in [Kinds -> Nat]
    OBVIOUS
  <2>3. QED BY <2>1, <2>2 DEF Init, LedgerInv
<1>6. IndexInv
  BY DEF Init, IndexInv
<1>7. QED BY <1>1, <1>2, <1>3, <1>4, <1>5, <1>6 DEF TypeInv

LEMMA StutterTypes == TypeInv /\ UNCHANGED vars => TypeInv'
<1> SUFFICES ASSUME TypeInv, UNCHANGED vars PROVE TypeInv'
  OBVIOUS
<1>1. FileInv' /\ IndexInv' /\ QueueInv' /\ RegistryInv' /\ LedgerInv'
  BY KeptTypes DEF vars, reader
<1>2. ControlInv'
  BY DEF TypeInv, ControlInv, vars, reader, links
<1>3. QED BY <1>1, <1>2 DEF TypeInv

LEMMA TypesKept == TypeInv /\ [Next]_vars => TypeInv'
<1> SUFFICES ASSUME TypeInv, [Next]_vars PROVE TypeInv'
  OBVIOUS
<1>1. CASE Open
  BY <1>1, BosPageTypes, BosEofTypes, OpenTypes, Zenon DEF Open
<1>2. CASE TakePage
  BY <1>2, TakeQueuedTypes, TakeReadTypes, Zenon DEF TakePage
<1>3. CASE BosStep
  BY <1>3, PlainPageTypes, NewBosTypes, RegisteredBosTypes, DuplicateBosTypes, SkeletonBosTypes, Zenon DEF BosStep
<1>4. CASE BodyStep
  BY <1>4, SkipUnknownTypes, SkeletonPageTypes, ContentPageTypes, Zenon DEF BodyStep
<1>5. CASE Answer
  BY <1>5, DeliverTypes, EndOfFileTypes, Zenon DEF Answer
<1>6. CASE Caller
  BY <1>6, NextPacketTypes, BuildSeekIndexTypes, Zenon DEF Caller
<1>7. CASE Refused \/ UNCHANGED vars
  BY <1>7, StutterTypes, Zenon DEF Refused
<1>8. QED BY <1>1, <1>2, <1>3, <1>4, <1>5, <1>6, <1>7, Zenon DEF Next, Work

LEMMA AlwaysTyped == Spec => []TypeInv
BY TypesAtFirst, TypesKept, PTL DEF Spec

LEMMA TypedTypes == TypeInv => TypeOK
<1> SUFFICES ASSUME TypeInv PROVE TypeOK
  OBVIOUS
<1>1. file \in Seq(Item) /\ pos \in 1 .. Len(file) + 1
  BY FileFacts DEF TypeInv, FileInv
<1>2. /\ phase \in {"bos", "headers", "idle", "next", "failed"} /\ pages_consumed \in Nat
      /\ hand \in {<<>>} \cup {<<file[k].page>> : k \in DOMAIN file}
      /\ at \in {"none", "bos", "body"} /\ (at = "none" <=> hand = <<>>)
      /\ page_queue \in Seq(Page)
      /\ eof_reached \in BOOLEAN /\ seen_nonbos \in BOOLEAN /\ seek_index_built \in BOOLEAN
      /\ next_link_index \in Nat
  BY DEF TypeInv, ControlInv
<1>3. out_queue \in Seq(Delivery) /\ delivered \in Seq(Delivery)
  BY DEF TypeInv, QueueInv
<1>4. RegistryOK(streams, state_by_serial, skeleton)
  BY DEF TypeInv, RegistryInv
<1>5. ASSUME NEW i \in DOMAIN streams
      PROVE  /\ streams[i].serial \in Nat /\ streams[i].codec \in Sources
             /\ streams[i].extradata \in Seq(Seq(Piece))
  <2>1. streams \in Seq(PublicStream)
    BY <1>4 DEF RegistryOK
  <2>2. streams[i] \in PublicStream
    BY <2>1
  <2>3. QED BY <2>2 DEF PublicStream
<1>6. ASSUME NEW serial \in DOMAIN state_by_serial
      PROVE  LET s == state_by_serial[serial]
             IN /\ s \in StreamState /\ s.pending_valid = (s.pending # <<>>)
                /\ s.public_index \in DOMAIN streams /\ streams[s.public_index].serial = serial
  <2>1. /\ state_by_serial[serial] \in StreamState
        /\ state_by_serial[serial].pending_valid <=> state_by_serial[serial].pending # <<>>
        /\ state_by_serial[serial].public_index \in DOMAIN streams
        /\ streams[state_by_serial[serial].public_index].serial = serial
    BY <1>4 DEF RegistryOK
  <2>2. state_by_serial[serial].pending_valid \in BOOLEAN
    BY <2>1 DEF StreamState
  <2>3. state_by_serial[serial].pending_valid = (state_by_serial[serial].pending # <<>>)
    BY <2>1, <2>2
  <2>4. QED BY <2>1, <2>3
<1>7. skeleton.packets \in Seq(Seq(Piece)) /\ skeleton.pending \in Seq(Piece)
  BY <1>4 DEF RegistryOK, SkeletonState
<1>8. damage.count \in [Kinds -> Nat] /\ damage.total \in Nat
  BY DEF TypeInv, LedgerInv, Ledger
<1>9. \A e \in seek_index : file[e.off].page.serial = e.serial /\ file[e.off].page.granule = e.granule
  BY DEF TypeInv, IndexInv, Indexed
<1>10. QED BY <1>1, <1>2, <1>3, <1>5, <1>6, <1>7, <1>8, <1>9, Zenon DEF TypeOK

\* Every variable of the demuxer has its type, whatever the file holds and
\* whatever is lost of it: no step of open, next_packet or build_seek_index
\* indexes a stream that is not there, and a packet is in hand of a bitstream
\* exactly when its state says so.
THEOREM DemuxTypes == Spec => []TypeOK
BY AlwaysTyped, TypedTypes, PTL

-----------------------------------------------------------------------------
(* Packets are put together from pages that follow each other.             *)

\* Consecutive parts of one packet, and of the first if the flags are true.
Stretch(p) == \A j \in 1 .. Len(p) : p[j] = [p[1] EXCEPT !.part = p[1].part + (j - 1)]
Started(f, p) == Honest(f) => p[1].part = 1
\* It ends at segment i of page k, which survives.
EndsAt(f, p, k, i) ==
  /\ k \in DOMAIN f /\ Alive(f, k) /\ i \in DOMAIN f[k].page.segs
  /\ p \in Seq(Piece) /\ p # <<>> /\ p[Len(p)] = PieceOf(f[k].page.segs[i]) /\ Stretch(p)
\* The pages before page c were taken: p is what is in hand of the bitstream of
\* a serial, its last page that survived having the number seq.
Pending(f, p, seq, serial, c) ==
  \E j, l \in DOMAIN f :
    /\ j <= l /\ l < c /\ \A m \in {j, l} : Alive(f, m) /\ f[m].page.serial = serial
    /\ \A m \in AliveOf(f, serial, j + 1, c - 1) : m <= l /\ f[m].page.segs = <<>>
    /\ EndsAt(f, p, j, Len(f[j].page.segs)) /\ f[j].page.segs # <<>> /\ ~LastSegment(f[j].page).term
    /\ \/ seq = f[l].page.seq
       \/ \E m \in DOMAIN f : /\ f[m].page.bos /\ IsFishead(f[m].page) /\ f[m].page.serial = serial
                              /\ seq = f[m].page.seq
\* A packet put out, or kept of the Skeleton.
Emitted(f, p, k, i) == EndsAt(f, p, k, i) /\ f[k].page.segs[i].term /\ Started(f, p)
Saved(f, p, serial, k, i) ==
  EndsAt(f, p, k, i) /\ f[k].page.segs[i].term /\ f[k].page.serial = serial /\ Recognised(p)
Earlier(k, i, l, j) == k < l \/ (k = l /\ i < j)

FileOK(f) ==
  /\ f \in Seq(Item) /\ Laid(f) /\ Seamless(f)

LEMMA FileOKFacts ==
  ASSUME NEW f, FileOK(f)
  PROVE  /\ Len(f) \in Nat /\ DOMAIN f = 1 .. Len(f)
         /\ \A k \in DOMAIN f :
              /\ f[k].page \in Page /\ f[k].page.segs \in Seq(Segment) /\ Len(f[k].page.segs) \in Nat
              /\ DOMAIN f[k].page.segs = 1 .. Len(f[k].page.segs)
              /\ f[k].page.seq \in Nat /\ f[k].page.cont \in BOOLEAN
<1>1. f \in Seq(Item)
  BY DEF FileOK
<1>2. Len(f) \in Nat /\ DOMAIN f = 1 .. Len(f)
  BY <1>1
<1>3. ASSUME NEW k \in DOMAIN f PROVE f[k].page \in Page
  <2>1. f[k] \in Item
    BY <1>1
  <2>2. QED BY <2>1 DEF Item
<1>4. QED BY <1>2, <1>3, PageFacts

LEMMA SegFacts ==
  ASSUME NEW f, FileOK(f), NEW k \in DOMAIN f, NEW i \in DOMAIN f[k].page.segs
  PROVE  /\ PieceOf(f[k].page.segs[i]) \in Piece /\ f[k].page.segs[i] \in Segment
         /\ f[k].page.segs[i].part \in Nat /\ f[k].page.segs[i].part >= 1
         /\ i > 1 => f[k].page.segs[i].part = 1
<1>1. f[k].page.segs \in Seq(Segment)
  BY FileOKFacts
<1>2. f[k].page.segs[i] \in Segment
  BY <1>1
<1>3. PieceOf(f[k].page.segs[i]) \in Piece /\ f[k].page.segs[i].part \in Nat
  BY <1>2 DEF PieceOf, Piece, Segment
<1>4. f[k].page.segs[i].part >= 1 /\ (i > 1 => f[k].page.segs[i].part = 1)
  BY DEF FileOK, Laid
<1>5. QED BY <1>2, <1>3, <1>4

\* Other pages do not disturb what is in hand.
LEMMA PendingStays ==
  ASSUME NEW f, FileOK(f), NEW p, NEW seq, NEW serial, NEW c \in Nat, Pending(f, p, seq, serial, c),
         NEW d \in Nat, c <= d, \A m \in c .. d - 1 : ~(Alive(f, m) /\ f[m].page.serial = serial)
  PROVE  Pending(f, p, seq, serial, d)
<1>1. PICK j, l \in DOMAIN f :
    /\ j <= l /\ l < c /\ \A m \in {j, l} : Alive(f, m) /\ f[m].page.serial = serial
    /\ \A m \in AliveOf(f, serial, j + 1, c - 1) : m <= l /\ f[m].page.segs = <<>>
    /\ EndsAt(f, p, j, Len(f[j].page.segs)) /\ f[j].page.segs # <<>> /\ ~LastSegment(f[j].page).term
    /\ \/ seq = f[l].page.seq
       \/ \E m \in DOMAIN f : /\ f[m].page.bos /\ IsFishead(f[m].page) /\ f[m].page.serial = serial
                              /\ seq = f[m].page.seq
  BY DEF Pending
<1>2. j \in Nat /\ l \in Nat
  BY FileOKFacts
<1>3. ASSUME NEW m \in AliveOf(f, serial, j + 1, d - 1) PROVE m <= l /\ f[m].page.segs = <<>>
  <2>1. m \in j + 1 .. d - 1 /\ Alive(f, m) /\ f[m].page.serial = serial
    BY DEF AliveOf
  <2>2. m \in j + 1 .. c - 1
    BY <1>2, <2>1
  <2>3. m \in AliveOf(f, serial, j + 1, c - 1)
    BY <2>1, <2>2 DEF AliveOf
  <2>4. QED BY <1>1, <2>3
<1>4. l < d
  BY <1>1, <1>2
<1>5. QED BY <1>1, <1>3, <1>4 DEF Pending

\* What goes on with it is the next part of the packet.
LEMMA JoinedNext ==
  ASSUME NEW f, FileOK(f), NEW c \in DOMAIN f, Alive(f, c), NEW p, NEW seq, Pending(f, p, seq, f[c].page.serial, c),
         ~(~f[c].page.bos /\ seq # NoSeq /\ f[c].page.seq # Successor(seq)),
         f[c].page.segs # <<>>, f[c].page.cont
  PROVE  PieceOf(f[c].page.segs[1]) = [p[Len(p)] EXCEPT !.part = p[Len(p)].part + 1]
<1> DEFINE serial == f[c].page.serial
<1>1. PICK j, l \in DOMAIN f :
    /\ j <= l /\ l < c /\ \A m \in {j, l} : Alive(f, m) /\ f[m].page.serial = serial
    /\ \A m \in AliveOf(f, serial, j + 1, c - 1) : m <= l /\ f[m].page.segs = <<>>
    /\ EndsAt(f, p, j, Len(f[j].page.segs)) /\ f[j].page.segs # <<>> /\ ~LastSegment(f[j].page).term
    /\ \/ seq = f[l].page.seq
       \/ \E m \in DOMAIN f : /\ f[m].page.bos /\ IsFishead(f[m].page) /\ f[m].page.serial = serial
                              /\ seq = f[m].page.seq
  BY DEF Pending
<1>2. seq # NoSeq
  <2>1. \A m \in DOMAIN f : f[m].page.seq \in Nat
    BY FileOKFacts
  <2>2. seq \in Nat
    BY <1>1, <2>1
  <2>3. QED BY <2>2 DEF NoSeq
<1>3. \/ f[c].page.bos \/ NumberedAfter(f, c, l)
      \/ \E m \in DOMAIN f : /\ f[m].page.bos /\ IsFishead(f[m].page) /\ f[m].page.serial = serial
                             /\ NumberedAfter(f, c, m)
  BY <1>1, <1>2 DEF NumberedAfter, Successor
<1>4. GoesOn(f, j, l, c)
  BY <1>1, <1>3 DEF GoesOn
<1>5. Bytes(<<f[c].page.segs[1]>>) = Bytes(<<[LastSegment(f[j].page) EXCEPT !.part = LastSegment(f[j].page).part + 1]>>)
  BY <1>4 DEF FileOK, Seamless
<1> DEFINE n == Len(f[j].page.segs)
           a == f[j].page.segs[n]
<1>6. n \in DOMAIN f[j].page.segs /\ p[Len(p)] = PieceOf(a) /\ LastSegment(f[j].page) = a
  BY <1>1 DEF EndsAt, LastSegment
<1>7. a \in Segment
  BY <1>6, SegFacts
<1> HIDE DEF a, n
<1>8. PieceOf(f[c].page.segs[1]) = PieceOf([a EXCEPT !.part = a.part + 1])
  <2> DEFINE b == f[c].page.segs[1]
             d == [a EXCEPT !.part = a.part + 1]
  <2>1. Bytes(<<b>>) = Bytes(<<d>>)
    BY <1>5, <1>6
  <2> HIDE DEF b, d
  <2>2. Bytes(<<b>>) = <<PieceOf(b)>> /\ Bytes(<<d>>) = <<PieceOf(d)>>
    BY DEF Bytes, PieceOf
  <2>3. PieceOf(b) = PieceOf(d)
    BY <2>1, <2>2
  <2>4. QED BY <2>3 DEF b, d
<1>9. PieceOf([a EXCEPT !.part = a.part + 1]) = [PieceOf(a) EXCEPT !.part = PieceOf(a).part + 1]
  BY <1>7 DEF PieceOf, Segment
<1>10. QED BY <1>6, <1>8, <1>9

\* The bytes up to a segment of the page at hand.
LEMMA UptoEnds ==
  ASSUME NEW f, FileOK(f), NEW c \in DOMAIN f, Alive(f, c), NEW before \in Seq(Piece),
         before # <<>> => /\ Stretch(before)
                          /\ f[c].page.cont =>
                               PieceOf(f[c].page.segs[1]) = [before[Len(before)] EXCEPT !.part = before[Len(before)].part + 1],
         NEW i \in DOMAIN f[c].page.segs
  PROVE  /\ EndsAt(f, Upto(f[c].page, before, i), c, i)
         /\ (i = 1 /\ f[c].page.cont => before # <<>> /\ Started(f, before)) => Started(f, Upto(f[c].page, before, i))
<1> DEFINE page == f[c].page
           p == PieceOf(page.segs[i])
           u == Upto(page, before, i)
<1>1. /\ page \in Page /\ DOMAIN page.segs = 1 .. Len(page.segs) /\ i \in Nat /\ 1 <= i /\ page.cont \in BOOLEAN
      /\ page.segs # <<>>
  BY FileOKFacts
<1>2. p \in Piece /\ p.part = page.segs[i].part /\ p.part \in Nat /\ p.part >= 1
      /\ (i > 1 => p.part = 1)
  <2>1. p \in Piece
    BY SegFacts
  <2>2. p.part = page.segs[i].part
    BY DEF PieceOf
  <2>3. QED BY <2>1, <2>2, SegFacts
<1>3. u \in Seq(Piece) /\ u # <<>> /\ u[Len(u)] = p
  BY <1>1, UptoType
<1>4. CASE i = 1 /\ page.cont /\ before # <<>>
  <2> DEFINE m == Len(before)
  <2>1. u = before \o <<PieceOf(page.segs[1])>> /\ PieceOf(page.segs[1]) = p
    BY <1>4 DEF Upto
  <2> HIDE DEF u, p
  <2>2. /\ m \in Nat /\ m >= 1 /\ Len(u) = m + 1 /\ u[m + 1] = p /\ u[1] = before[1]
        /\ \A j \in 1 .. m : u[j] = before[j]
    BY <1>2, <1>4, <2>1
  <2>3. before[1] \in Piece /\ before[1].part \in Nat
    <3>1. before[1] \in Piece
      BY <2>2
    <3>2. QED BY <3>1 DEF Piece
  <2>4. before[m] = [before[1] EXCEPT !.part = before[1].part + (m - 1)]
    BY <1>4, <2>2 DEF Stretch
  <2>5. p = [before[m] EXCEPT !.part = before[m].part + 1]
    BY <1>4, <2>1
  <2>6. p = [before[1] EXCEPT !.part = before[1].part + m]
    <3> DEFINE b == before[1]
    <3>1. b \in Piece /\ b.part \in Nat
      BY <2>3
    <3>2. before[m] = [b EXCEPT !.part = b.part + (m - 1)]
      BY <2>4
    <3> HIDE DEF b
    <3>3. before[m].part = b.part + (m - 1)
      BY <3>1, <3>2 DEF Piece
    <3>4. (b.part + (m - 1)) + 1 = b.part + m
      BY <2>2, <3>1
    <3>5. p = [before[m] EXCEPT !.part = b.part + m]
      BY <2>5, <3>3, <3>4
    <3>6. p = [b EXCEPT !.part = b.part + m]
      BY <3>1, <3>2, <3>5 DEF Piece
    <3>7. QED BY <3>6 DEF b
  <2>7. Stretch(u)
    <3> SUFFICES ASSUME NEW j \in 1 .. Len(u) PROVE u[j] = [u[1] EXCEPT !.part = u[1].part + (j - 1)]
      BY DEF Stretch
    <3>1. CASE j = m + 1
      <4>1. j - 1 = m
        BY <2>2, <3>1
      <4>2. QED BY <2>2, <2>6, <3>1, <4>1
    <3>2. CASE j # m + 1
      <4>1. j \in 1 .. m
        BY <2>2, <3>2
      <4>2. before[j] = [before[1] EXCEPT !.part = before[1].part + (j - 1)]
        BY <1>4, <4>1 DEF Stretch
      <4>3. QED BY <2>2, <4>1, <4>2
    <3>3. QED BY <3>1, <3>2
  <2>8. Started(f, before) => Started(f, u)
    BY <2>2 DEF Started
  <2>9. EndsAt(f, u, c, i)
    BY <1>3, <2>7 DEF EndsAt, p
  <2>10. QED BY <1>4, <2>8, <2>9 DEF u
<1>5. CASE ~(i = 1 /\ page.cont /\ before # <<>>)
  <2>1. u = <<p>>
    <3>1. CASE i = 1 /\ page.cont
      <4>1. before = <<>> /\ PieceOf(page.segs[1]) = p
        BY <1>5, <3>1
      <4> HIDE DEF p
      <4>2. u = <<>> \o <<p>>
        BY <3>1, <4>1 DEF Upto
      <4>3. QED BY <1>2, <4>2
    <3>2. CASE ~(i = 1 /\ page.cont)
      BY <3>2 DEF Upto
    <3>3. QED BY <3>1, <3>2
  <2> HIDE DEF u, p
  <2>2. p = [p EXCEPT !.part = p.part + (1 - 1)]
    BY <1>2 DEF Piece
  <2>3. Stretch(u)
    <3>1. Len(u) = 1 /\ u[1] = p
      BY <2>1
    <3>2. \A j \in 1 .. Len(u) : j = 1
      BY <3>1
    <3>3. QED BY <2>2, <3>1, <3>2 DEF Stretch
  <2>4. (i = 1 /\ page.cont => before # <<>>) => Started(f, u)
    <3> SUFFICES ASSUME ~(i = 1 /\ page.cont), Honest(f) PROVE p.part = 1
      <4>1. u[1] = p
        BY <2>1
      <4>2. QED BY <1>5, <4>1 DEF Started
    <3>1. CASE i > 1
      BY <1>2, <3>1
    <3>2. CASE i = 1
      <4>1. ~page.cont
        BY <3>2
      <4>2. page.cont <=> page.segs[1].part > 1
        BY DEF Honest
      <4>3. QED BY <1>2, <3>2, <4>1, <4>2
    <3>3. QED BY <1>1, <3>1, <3>2
  <2>5. EndsAt(f, u, c, i)
    BY <1>3, <2>3 DEF EndsAt, p
  <2>6. QED BY <2>4, <2>5 DEF u
<1>6. QED BY <1>4, <1>5

\* A packet that goes on past the page at hand.
LEMMA PendingNew ==
  ASSUME NEW f, FileOK(f), NEW c \in DOMAIN f, Alive(f, c), f[c].page.segs # <<>>, ~LastSegment(f[c].page).term,
         NEW p, EndsAt(f, p, c, Len(f[c].page.segs))
  PROVE  Pending(f, p, f[c].page.seq, f[c].page.serial, c + 1)
<1>1. c \in Nat
  BY FileOKFacts
<1>2. AliveOf(f, f[c].page.serial, c + 1, (c + 1) - 1) = {}
  BY <1>1 DEF AliveOf
<1>3. c <= c /\ c < c + 1
  BY <1>1
<1>4. QED BY <1>2, <1>3 DEF Pending

\* A page without a segment.
LEMMA PendingSilent ==
  ASSUME NEW f, FileOK(f), NEW c \in DOMAIN f, Alive(f, c), f[c].page.segs = <<>>,
         NEW p, NEW seq, Pending(f, p, seq, f[c].page.serial, c)
  PROVE  Pending(f, p, f[c].page.seq, f[c].page.serial, c + 1)
<1> DEFINE serial == f[c].page.serial
<1>1. PICK j, l \in DOMAIN f :
    /\ j <= l /\ l < c /\ \A m \in {j, l} : Alive(f, m) /\ f[m].page.serial = serial
    /\ \A m \in AliveOf(f, serial, j + 1, c - 1) : m <= l /\ f[m].page.segs = <<>>
    /\ EndsAt(f, p, j, Len(f[j].page.segs)) /\ f[j].page.segs # <<>> /\ ~LastSegment(f[j].page).term
  BY DEF Pending
<1>2. j \in Nat /\ l \in Nat /\ c \in Nat
  BY FileOKFacts
<1>3. j <= c /\ c < c + 1
  BY <1>1, <1>2
<1>4. ASSUME NEW m \in AliveOf(f, serial, j + 1, (c + 1) - 1) PROVE m <= c /\ f[m].page.segs = <<>>
  <2>1. m \in j + 1 .. c /\ Alive(f, m) /\ f[m].page.serial = serial
    BY <1>2 DEF AliveOf
  <2>2. CASE m = c
    BY <1>2, <2>2
  <2>3. CASE m # c
    <3>1. m \in j + 1 .. c - 1
      BY <1>2, <2>1, <2>3
    <3>2. m \in AliveOf(f, serial, j + 1, c - 1)
      BY <2>1, <3>1 DEF AliveOf
    <3>3. QED BY <1>1, <1>2, <3>1, <3>2
  <2>4. QED BY <2>2, <2>3
<1>5. \A m \in {j, c} : Alive(f, m) /\ f[m].page.serial = serial
  BY <1>1
<1>6. QED BY <1>1, <1>3, <1>4, <1>5 DEF Pending

-----------------------------------------------------------------------------
(* The flow of pages and packets.  c is the page process_page is at or, when *)
(* it is at none, where it goes on.                                          *)

\* queue holds the pages from one to another that survive.
Queued(f, q, queue, from, to) ==
  /\ q \in Seq(Nat) /\ Len(q) = Len(queue)
  /\ \A i \in 1 .. Len(q) : q[i] \in from .. to - 1 /\ Alive(f, q[i]) /\ queue[i] = f[q[i]].page
  /\ \A i, j \in 1 .. Len(q) : i < j => q[i] < q[j]
  /\ \A k \in from .. to - 1 : Alive(f, k) => \E i \in 1 .. Len(q) : q[i] = k
Cursor(f, c, h, queue, to) ==
  /\ c \in Nat /\ 1 <= c /\ c <= to
  /\ h # <<>> => c < to /\ Alive(f, c) /\ h = <<f[c].page>>
  /\ \E q : Queued(f, q, queue, IF h = <<>> THEN c ELSE c + 1, to)
PendingInv(f, states, c) ==
  \A serial \in DOMAIN states :
    states[serial].pending # <<>> =>
      /\ Pending(f, states[serial].pending, states[serial].last_seq, serial, c)
      /\ Started(f, states[serial].pending)
SkeletonInv(f, skel, c) ==
  /\ skel.serial = NoSerial => skel.pending = <<>> /\ skel.packets = <<>>
  /\ skel.pending # <<>> => Pending(f, skel.pending, skel.last_seq, skel.serial, c)
  /\ \A d \in DOMAIN skel.packets : \E k, i : Saved(f, skel.packets[d], skel.serial, k, i) /\ k < c
  /\ \A d, e \in DOMAIN skel.packets : d < e => \E k, i, l, j :
       /\ Saved(f, skel.packets[d], skel.serial, k, i) /\ Saved(f, skel.packets[e], skel.serial, l, j)
       /\ Earlier(k, i, l, j)
EmittedInv(f, out, c) ==
  /\ \A d \in DOMAIN out : \E k, i : Emitted(f, out[d].packet, k, i) /\ k < c
  /\ \A d, e \in DOMAIN out : d < e => \E k, i, l, j :
       Emitted(f, out[d].packet, k, i) /\ Emitted(f, out[e].packet, l, j) /\ Earlier(k, i, l, j)
Out == delivered \o out_queue
FlowAt(c) ==
  /\ Cursor(file, c, hand, page_queue, pos)
  /\ PendingInv(file, state_by_serial, c)
  /\ SkeletonInv(file, skeleton, c)
  /\ EmittedInv(file, Out, c)
FlowInv == \E c : FlowAt(c)

-----------------------------------------------------------------------------
(* The pages.                                                              *)

LEMMA QueueRead ==
  ASSUME NEW f, NEW q, NEW queue \in Seq(Page), NEW from \in Nat, NEW to \in Nat, Queued(f, q, queue, from, to),
         NEW k \in Nat, to <= k, from <= to, Alive(f, k), f[k].page \in Page, \A m \in to .. k - 1 : ~Alive(f, m)
  PROVE  Queued(f, Append(q, k), Append(queue, f[k].page), from, k + 1)
<1> DEFINE n == Len(q)
           r == Append(q, k)
           wider == Append(queue, f[k].page)
<1>1. /\ q \in Seq(Nat) /\ n \in Nat /\ Len(queue) = n
      /\ \A i \in 1 .. n : q[i] \in from .. to - 1 /\ Alive(f, q[i]) /\ queue[i] = f[q[i]].page
      /\ \A i, j \in 1 .. n : i < j => q[i] < q[j]
      /\ \A m \in from .. to - 1 : Alive(f, m) => \E i \in 1 .. n : q[i] = m
  BY DEF Queued
<1>2. /\ r \in Seq(Nat) /\ Len(r) = n + 1 /\ r[n + 1] = k /\ \A i \in 1 .. n : r[i] = q[i]
  BY <1>1
<1>3. /\ Len(wider) = n + 1 /\ wider[n + 1] = f[k].page /\ \A i \in 1 .. n : wider[i] = queue[i]
  BY <1>1
<1> HIDE DEF n, r, wider
<1>4. ASSUME NEW i \in 1 .. n + 1
      PROVE  r[i] \in from .. (k + 1) - 1 /\ Alive(f, r[i]) /\ wider[i] = f[r[i]].page
  <2>1. CASE i = n + 1
    BY <1>2, <1>3, <2>1
  <2>2. CASE i # n + 1
    <3>1. i \in 1 .. n
      BY <1>1, <2>2
    <3>2. q[i] \in from .. to - 1 /\ Alive(f, q[i]) /\ queue[i] = f[q[i]].page
      BY <1>1, <3>1
    <3>3. q[i] \in from .. (k + 1) - 1
      BY <3>2
    <3>4. QED BY <1>2, <1>3, <3>1, <3>2, <3>3
  <2>3. QED BY <2>1, <2>2
<1>5. ASSUME NEW i \in 1 .. n + 1, NEW j \in 1 .. n + 1, i < j PROVE r[i] < r[j]
  <2>1. i \in 1 .. n
    BY <1>1, <1>5
  <2>2. CASE j = n + 1
    <3>1. q[i] \in from .. to - 1
      BY <1>1, <2>1
    <3>2. q[i] < k
      BY <3>1
    <3>3. QED BY <1>2, <2>1, <2>2, <3>2
  <2>3. CASE j # n + 1
    <3>1. n \in Nat /\ j \in 1 .. n + 1 /\ j # n + 1
      BY <1>1, <2>3
    <3>2. j \in 1 .. n
      BY ONLY <3>1
    <3>3. QED BY <1>1, <1>2, <1>5, <2>1, <3>2
  <2>4. QED BY <2>2, <2>3
<1>6. ASSUME NEW m \in from .. (k + 1) - 1, Alive(f, m) PROVE \E i \in 1 .. n + 1 : r[i] = m
  <2>1. m \notin to .. k - 1
    BY <1>6
  <2>2. m \in from .. to - 1 \/ m = k
    BY <2>1
  <2>3. CASE m = k
    <3>1. n + 1 \in 1 .. n + 1
      BY <1>1
    <3>2. QED BY <1>2, <2>3, <3>1
  <2>4. CASE m \in from .. to - 1
    <3>1. PICK i \in 1 .. n : q[i] = m
      BY <1>1, <1>6, <2>4
    <3>2. i \in 1 .. n + 1 /\ r[i] = m
      BY <1>1, <1>2, <3>1
    <3>3. QED BY <3>2
  <2>5. QED BY <2>2, <2>3, <2>4
<1>7. Queued(f, r, wider, from, k + 1)
  BY <1>1, <1>2, <1>3, <1>4, <1>5, <1>6 DEF Queued
<1>8. QED BY <1>7 DEF r, wider

\* Nothing more to read: the queue ends where the file does.
LEMMA QueueOver ==
  ASSUME NEW f, NEW q, NEW queue, NEW from \in Nat, NEW to \in Nat, Queued(f, q, queue, from, to),
         NEW end \in Nat, to <= end, \A m \in to .. end - 1 : ~Alive(f, m)
  PROVE  Queued(f, q, queue, from, end)
<1>1. /\ q \in Seq(Nat) /\ Len(q) = Len(queue)
      /\ \A i \in 1 .. Len(q) : q[i] \in from .. to - 1 /\ Alive(f, q[i]) /\ queue[i] = f[q[i]].page
      /\ \A i, j \in 1 .. Len(q) : i < j => q[i] < q[j]
      /\ \A m \in from .. to - 1 : Alive(f, m) => \E i \in 1 .. Len(q) : q[i] = m
  BY DEF Queued
<1>2. \A i \in 1 .. Len(q) : q[i] \in from .. end - 1
  BY <1>1
<1>3. ASSUME NEW m \in from .. end - 1, Alive(f, m) PROVE m \in from .. to - 1
  BY <1>3
<1>4. QED BY <1>1, <1>2, <1>3 DEF Queued

\* The first page of the queue is the first that survives.
LEMMA QueueTaken ==
  ASSUME NEW f, NEW q, NEW queue \in Seq(Page), queue # <<>>, NEW from \in Nat, NEW to \in Nat,
         Queued(f, q, queue, from, to)
  PROVE  /\ q[1] \in from .. to - 1 /\ Alive(f, q[1]) /\ Head(queue) = f[q[1]].page
         /\ \A m \in from .. q[1] - 1 : ~Alive(f, m)
         /\ Queued(f, Tail(q), Tail(queue), q[1] + 1, to)
<1> DEFINE n == Len(q)
<1>1. /\ q \in Seq(Nat) /\ n \in Nat /\ Len(queue) = n
      /\ \A i \in 1 .. n : q[i] \in from .. to - 1 /\ Alive(f, q[i]) /\ queue[i] = f[q[i]].page
      /\ \A i, j \in 1 .. n : i < j => q[i] < q[j]
      /\ \A m \in from .. to - 1 : Alive(f, m) => \E i \in 1 .. n : q[i] = m
  BY DEF Queued
<1>2. n >= 1 /\ 1 \in 1 .. n /\ Head(queue) = queue[1]
  BY <1>1
<1>3. q[1] \in from .. to - 1 /\ Alive(f, q[1]) /\ Head(queue) = f[q[1]].page /\ q[1] \in Nat
  BY <1>1, <1>2
<1>4. ASSUME NEW m \in from .. to - 1, Alive(f, m) PROVE m >= q[1]
  <2>1. PICK i \in 1 .. n : q[i] = m
    BY <1>1, <1>4
  <2>2. CASE i = 1
    BY <1>3, <2>1, <2>2
  <2>3. CASE i # 1
    <3>1. 1 < i
      BY <2>3
    <3>2. QED BY <1>1, <1>2, <1>3, <2>1, <3>1
  <2>4. QED BY <2>2, <2>3
<1>5. \A m \in from .. q[1] - 1 : ~Alive(f, m)
  BY <1>3, <1>4
<1> DEFINE r == Tail(q)
           rest == Tail(queue)
<1>6. /\ r \in Seq(Nat) /\ Len(r) = n - 1 /\ \A i \in 1 .. n - 1 : r[i] = q[i + 1]
  BY <1>1, <1>2
<1>7. Len(rest) = n - 1 /\ \A i \in 1 .. n - 1 : rest[i] = queue[i + 1]
  BY <1>1, <1>2
<1> HIDE DEF n, r, rest
<1>8. \A i \in 1 .. n - 1 : i + 1 \in 1 .. n /\ 1 < i + 1
  BY <1>1
<1>9. ASSUME NEW i \in 1 .. n - 1
      PROVE  r[i] \in q[1] + 1 .. to - 1 /\ Alive(f, r[i]) /\ rest[i] = f[r[i]].page
  <2>1. r[i] = q[i + 1] /\ rest[i] = queue[i + 1] /\ q[1] < q[i + 1]
    BY <1>1, <1>2, <1>6, <1>7, <1>8
  <2>2. q[i + 1] \in from .. to - 1 /\ Alive(f, q[i + 1]) /\ queue[i + 1] = f[q[i + 1]].page
    BY <1>1, <1>8
  <2>3. q[i + 1] \in q[1] + 1 .. to - 1
    BY <1>3, <2>1, <2>2
  <2>4. QED BY <2>1, <2>2, <2>3
<1>10. ASSUME NEW i \in 1 .. n - 1, NEW j \in 1 .. n - 1, i < j PROVE r[i] < r[j]
  <2>1. i + 1 < j + 1 /\ i + 1 \in 1 .. n /\ j + 1 \in 1 .. n
    BY <1>8, <1>10
  <2>2. q[i + 1] < q[j + 1]
    BY <1>1, <2>1
  <2>3. QED BY <1>6, <2>2
<1>11. ASSUME NEW m \in q[1] + 1 .. to - 1, Alive(f, m) PROVE \E i \in 1 .. n - 1 : r[i] = m
  <2>1. m \in from .. to - 1
    BY <1>3
  <2>2. PICK i \in 1 .. n : q[i] = m
    BY <1>1, <1>11, <2>1
  <2>3. i # 1
    BY <1>3, <2>2
  <2>4. i - 1 \in 1 .. n - 1 /\ (i - 1) + 1 = i
    BY <1>1, <2>3
  <2>5. r[i - 1] = m
    BY <1>6, <2>2, <2>4
  <2>6. QED BY <2>4, <2>5
<1>12. Queued(f, r, rest, q[1] + 1, to)
  BY <1>6, <1>7, <1>9, <1>10, <1>11 DEF Queued
<1>13. QED BY <1>3, <1>5, <1>12 DEF r, rest

-----------------------------------------------------------------------------
(* What steps that put no packet together keep.                            *)

\* No state holds more of a packet than before, and the Skeleton the same.
Calm(f, states, skel, states2, skel2) ==
  /\ \A t \in DOMAIN states2 : states2[t].pending # <<>> =>
       /\ t \in DOMAIN states
       /\ states2[t].pending = states[t].pending /\ states2[t].last_seq = states[t].last_seq
  /\ skel2.pending = skel.pending /\ skel2.packets = skel.packets
  /\ skel.serial # NoSerial => skel2.serial = skel.serial
  /\ \/ skel2.serial = skel.serial /\ skel2.last_seq = skel.last_seq
     \/ \E m \in DOMAIN f : /\ f[m].page.bos /\ IsFishead(f[m].page) /\ f[m].page.serial = skel2.serial
                            /\ skel2.last_seq = f[m].page.seq

LEMMA UntouchedCalm ==
  ASSUME NEW states, NEW skel, NEW states2, NEW skel2, Untouched(states, skel, states2, skel2)
  PROVE  Calm(file, states, skel, states2, skel2)
<1>1. ASSUME NEW t \in DOMAIN states2, states2[t].pending # <<>>
      PROVE  t \in DOMAIN states /\ states2[t] = states[t]
  BY <1>1, Zenon DEF Untouched
<1>2. /\ skel2.pending = skel.pending /\ skel2.packets = skel.packets
      /\ skel.serial # NoSerial => skel2.serial = skel.serial
  BY DEF Untouched
<1>3. \/ skel2.serial = skel.serial /\ skel2.last_seq = skel.last_seq
      \/ \E m \in DOMAIN file : /\ file[m].page.bos /\ IsFishead(file[m].page)
                                /\ file[m].page.serial = skel2.serial /\ skel2.last_seq = file[m].page.seq
  BY DEF Untouched, FisheadPage
<1>4. QED BY <1>1, <1>2, <1>3 DEF Calm

\* A packet in hand stays the one in hand.
LEMMA PendingRenumbered ==
  ASSUME NEW f, NEW p, NEW seq, NEW serial, NEW c, Pending(f, p, seq, serial, c), NEW seq2,
         \/ seq2 = seq
         \/ \E m \in DOMAIN f : /\ f[m].page.bos /\ IsFishead(f[m].page) /\ f[m].page.serial = serial
                                /\ seq2 = f[m].page.seq
  PROVE  Pending(f, p, seq2, serial, c)
<1>1. CASE seq2 = seq
  BY <1>1
<1>2. CASE seq2 # seq
  BY <1>2 DEF Pending
<1>3. QED BY <1>1, <1>2

LEMMA CalmFlow ==
  ASSUME NEW f, FileOK(f), NEW states, NEW skel, NEW out, NEW c \in Nat,
         PendingInv(f, states, c), SkeletonInv(f, skel, c), EmittedInv(f, out, c),
         NEW states2, NEW skel2, Calm(f, states, skel, states2, skel2),
         NEW d \in Nat, c <= d,
         \A m \in c .. d - 1 : Alive(f, m) => f[m].page.serial \notin DOMAIN states /\ f[m].page.serial # skel.serial
  PROVE  PendingInv(f, states2, d) /\ SkeletonInv(f, skel2, d) /\ EmittedInv(f, out, d)
<1>1. ASSUME NEW t \in DOMAIN states2, states2[t].pending # <<>>
      PROVE  Pending(f, states2[t].pending, states2[t].last_seq, t, d) /\ Started(f, states2[t].pending)
  <2>1. t \in DOMAIN states /\ states2[t].pending = states[t].pending /\ states2[t].last_seq = states[t].last_seq
    BY <1>1 DEF Calm
  <2>2. Pending(f, states[t].pending, states[t].last_seq, t, c) /\ Started(f, states[t].pending)
    BY <1>1, <2>1 DEF PendingInv
  <2>3. \A m \in c .. d - 1 : ~(Alive(f, m) /\ f[m].page.serial = t)
    BY <2>1
  <2>4. Pending(f, states[t].pending, states[t].last_seq, t, d)
    BY <2>2, <2>3, PendingStays
  <2>5. QED BY <2>1, <2>2, <2>4
<1>2. PendingInv(f, states2, d)
  BY <1>1 DEF PendingInv
<1>3. ASSUME NEW k, k < c, k \in DOMAIN f PROVE k < d
  <2>1. k \in Nat
    <3>1. Len(f) \in Nat /\ DOMAIN f = 1 .. Len(f)
      BY FileOKFacts
    <3>2. QED BY <1>3, <3>1
  <2>2. QED BY <1>3, <2>1
<1>4. EmittedInv(f, out, d)
  <2>1. ASSUME NEW e \in DOMAIN out PROVE \E k, i : Emitted(f, out[e].packet, k, i) /\ k < d
    <3>1. PICK k, i : Emitted(f, out[e].packet, k, i) /\ k < c
      BY Zenon DEF EmittedInv
    <3>2. k < d
      BY <1>3, <3>1 DEF Emitted, EndsAt
    <3>3. QED BY <3>1, <3>2
  <2>2. QED BY <2>1, Zenon DEF EmittedInv
<1>5. SkeletonInv(f, skel2, d)
  <2>1. CASE skel.serial = NoSerial
    <3>1. skel2.pending = <<>> /\ skel2.packets = <<>>
      BY <2>1 DEF SkeletonInv, Calm
    <3>2. QED BY <3>1 DEF SkeletonInv
  <2>2. CASE skel.serial # NoSerial
    <3>1. skel2.pending = skel.pending /\ skel2.packets = skel.packets /\ skel2.serial = skel.serial
      BY <2>2 DEF Calm
    <3>2. ASSUME skel.pending # <<>> PROVE Pending(f, skel.pending, skel2.last_seq, skel.serial, d)
      <4>1. Pending(f, skel.pending, skel.last_seq, skel.serial, c)
        BY <3>2 DEF SkeletonInv
      <4>2. Pending(f, skel.pending, skel.last_seq, skel.serial, d)
        BY <4>1, PendingStays
      <4>3. \/ skel2.last_seq = skel.last_seq
            \/ \E m \in DOMAIN f : /\ f[m].page.bos /\ IsFishead(f[m].page) /\ f[m].page.serial = skel.serial
                                   /\ skel2.last_seq = f[m].page.seq
        BY <3>1 DEF Calm
      <4>4. QED BY <4>2, <4>3, PendingRenumbered
    <3>3. ASSUME NEW e \in DOMAIN skel.packets
          PROVE  \E k, i : Saved(f, skel.packets[e], skel.serial, k, i) /\ k < d
      <4>1. PICK k, i : Saved(f, skel.packets[e], skel.serial, k, i) /\ k < c
        BY Zenon DEF SkeletonInv
      <4>2. k < d
        BY <1>3, <4>1 DEF Saved, EndsAt
      <4>3. QED BY <4>1, <4>2
    <3>4. \A x, e \in DOMAIN skel.packets : x < e => \E k, i, l, j :
             /\ Saved(f, skel.packets[x], skel.serial, k, i) /\ Saved(f, skel.packets[e], skel.serial, l, j)
             /\ Earlier(k, i, l, j)
      BY Zenon DEF SkeletonInv
    <3>5. QED BY <2>2, <3>1, <3>2, <3>3, <3>4, Zenon DEF SkeletonInv
  <2>3. QED BY <2>1, <2>2
<1>6. QED BY <1>2, <1>4, <1>5

-----------------------------------------------------------------------------
(* The pages process_page takes, one by one.                               *)

LEMMA CursorFacts ==
  ASSUME NEW f, NEW c, NEW h, NEW queue, NEW to, Cursor(f, c, h, queue, to)
  PROVE  /\ c \in Nat /\ 1 <= c /\ c <= to
         /\ h # <<>> => c < to /\ Alive(f, c) /\ h = <<f[c].page>>
         /\ \E q : Queued(f, q, queue, IF h = <<>> THEN c ELSE c + 1, to)
BY DEF Cursor

LEMMA CursorRead ==
  ASSUME TypeInv, ReadPage, NEW c, NEW h, Cursor(file, c, h, page_queue, pos)
  PROVE  Cursor(file, c, h, Append(page_queue, NextRead), Landing + 1)
<1> DEFINE from == IF h = <<>> THEN c ELSE c + 1
<1>1. /\ Landing \in pos .. Len(file) /\ Landing \in DOMAIN file /\ Survives(Landing)
      /\ NextRead = file[Landing].page /\ NextRead \in Page
      /\ \A k \in pos .. Landing - 1 : ~Survives(k)
  BY LandingFacts DEF TypeInv, ReadPage
<1>2. pos \in Nat /\ Len(file) \in Nat /\ page_queue \in Seq(Page)
  BY FileFacts DEF TypeInv, ControlInv
<1>3. PICK q : Queued(file, q, page_queue, from, pos)
  BY CursorFacts
<1>4. c \in Nat /\ 1 <= c /\ c <= pos /\ (h # <<>> => c < pos /\ Alive(file, c) /\ h = <<file[c].page>>)
  BY CursorFacts
<1>5. from \in Nat /\ from <= pos /\ Landing \in Nat /\ pos <= Landing
  BY <1>1, <1>2, <1>4
<1>6. Alive(file, Landing) /\ \A m \in pos .. Landing - 1 : ~Alive(file, m)
  BY <1>1 DEF Survives
<1> HIDE DEF from
<1>7. Queued(file, Append(q, Landing), Append(page_queue, NextRead), from, Landing + 1)
  BY <1>1, <1>2, <1>3, <1>5, <1>6, QueueRead
<1>8. c <= Landing + 1 /\ (h # <<>> => c < Landing + 1)
  BY <1>2, <1>4, <1>5
<1>9. QED BY <1>4, <1>7, <1>8 DEF Cursor, from

LEMMA CursorOver ==
  ASSUME TypeInv, ReadNone, NEW c, NEW h, Cursor(file, c, h, page_queue, pos)
  PROVE  Cursor(file, c, h, page_queue, Len(file) + 1)
<1> DEFINE from == IF h = <<>> THEN c ELSE c + 1
           end == Len(file) + 1
<1>1. /\ pos \in Nat /\ end \in Nat /\ pos <= end /\ end - 1 = Len(file)
      /\ \A m \in pos .. Len(file) : ~Alive(file, m)
  <2>1. \A m \in pos .. Len(file) : ~Survives(m)
    BY NothingLeft DEF TypeInv, ReadNone
  <2>2. pos \in 1 .. Len(file) + 1 /\ Len(file) \in Nat
    BY FileFacts DEF TypeInv, FileInv
  <2>3. QED BY <2>1, <2>2 DEF Survives
<1>2. PICK q : Queued(file, q, page_queue, from, pos)
  BY CursorFacts
<1>3. c \in Nat /\ 1 <= c /\ c <= pos /\ (h # <<>> => c < pos /\ Alive(file, c) /\ h = <<file[c].page>>)
  BY CursorFacts
<1>4. from \in Nat
  BY <1>3
<1> HIDE DEF from, end
<1>5. Queued(file, q, page_queue, from, end)
  BY <1>1, <1>2, <1>4, QueueOver
<1>6. c <= end /\ (h # <<>> => c < end)
  BY <1>1, <1>3
<1>7. QED BY <1>3, <1>5, <1>6 DEF Cursor, from, end

LEMMA CursorTaken ==
  ASSUME NEW f, NEW c, NEW queue \in Seq(Page), queue # <<>>, NEW to \in Nat, Cursor(f, c, <<>>, queue, to)
  PROVE  \E d \in Nat : /\ c <= d /\ \A m \in c .. d - 1 : ~Alive(f, m)
                        /\ Cursor(f, d, <<Head(queue)>>, Tail(queue), to)
<1>1. PICK q : Queued(f, q, queue, c, to)
  BY CursorFacts
<1>2. c \in Nat /\ 1 <= c
  BY CursorFacts
<1> DEFINE d == q[1]
<1>3. /\ d \in c .. to - 1 /\ Alive(f, d) /\ Head(queue) = f[d].page
      /\ \A m \in c .. d - 1 : ~Alive(f, m)
      /\ Queued(f, Tail(q), Tail(queue), d + 1, to)
  BY <1>1, <1>2, QueueTaken
<1> HIDE DEF d
<1>4. d \in Nat /\ c <= d /\ 1 <= d /\ d <= to /\ d < to
  BY <1>2, <1>3
<1>5. Cursor(f, d, <<Head(queue)>>, Tail(queue), to)
  <2>1. <<Head(queue)>> # <<>> /\ <<Head(queue)>> = <<f[d].page>>
    BY <1>3
  <2>2. QED BY <1>3, <1>4, <2>1 DEF Cursor
<1>6. QED BY <1>3, <1>4, <1>5

LEMMA CursorLetGo ==
  ASSUME NEW f, NEW c, NEW h, h # <<>>, NEW queue, NEW to \in Nat, Cursor(f, c, h, queue, to)
  PROVE  Cursor(f, c + 1, <<>>, queue, to)
<1>1. c \in Nat /\ 1 <= c /\ c < to /\ \E q : Queued(f, q, queue, c + 1, to)
  BY CursorFacts
<1>2. c + 1 \in Nat /\ 1 <= c + 1 /\ c + 1 <= to
  BY <1>1
<1>3. QED BY <1>1, <1>2 DEF Cursor

\* The page in hand.
LEMMA AtPage ==
  ASSUME TypeInv, NEW c, FlowAt(c), hand # <<>>
  PROVE  c \in DOMAIN file /\ c \in Nat /\ Alive(file, c) /\ InHand = file[c].page
<1>1. c \in Nat /\ 1 <= c /\ c < pos /\ Alive(file, c) /\ hand = <<file[c].page>>
  BY CursorFacts DEF FlowAt
<1>2. pos \in 1 .. Len(file) + 1 /\ Len(file) \in Nat /\ DOMAIN file = 1 .. Len(file)
  BY FileFacts DEF TypeInv, FileInv
<1>3. QED BY <1>1, <1>2 DEF InHand

-----------------------------------------------------------------------------
(* The flow, action by action: pages read and taken.                       *)

\* A step that goes on to page d without putting a packet together.
LEMMA CalmStep ==
  ASSUME TypeInv, FileOK(file), NEW c, FlowAt(c), file' = file, Out' = Out,
         NEW d \in Nat, c <= d, Cursor(file, d, hand', page_queue', pos'),
         Calm(file, state_by_serial, skeleton, state_by_serial', skeleton'),
         \A m \in c .. d - 1 : Alive(file, m) =>
           file[m].page.serial \notin DOMAIN state_by_serial /\ file[m].page.serial # skeleton.serial
  PROVE  FlowAt(d)'
<1>1. c \in Nat
  BY CursorFacts DEF FlowAt
<1>2. PendingInv(file, state_by_serial, c) /\ SkeletonInv(file, skeleton, c) /\ EmittedInv(file, Out, c)
  BY DEF FlowAt
<1>3. /\ PendingInv(file, state_by_serial', d) /\ SkeletonInv(file, skeleton', d) /\ EmittedInv(file, Out, d)
  BY <1>1, <1>2, CalmFlow
<1>4. FlowAt(d)'
  BY <1>3 DEF FlowAt
<1>5. QED BY <1>4

LEMMA RegistryCalm ==
  ASSUME UNCHANGED <<state_by_serial, skeleton>>
  PROVE  Calm(file, state_by_serial, skeleton, state_by_serial', skeleton')
BY UntouchedSelf, UntouchedCalm

LEMMA BosPageFlow ==
  ASSUME TypeInv, FileOK(file), NEW c, FlowAt(c), BosPage
  PROVE  FlowAt(c)'
<1>1. FlowAt(c)
  OBVIOUS
<1>2. /\ ReadPage /\ file' = file /\ pos' = Landing + 1 /\ page_queue' = Append(page_queue, NextRead)
      /\ hand' = hand /\ out_queue' = out_queue /\ delivered' = delivered
  BY DEF BosPage, ReadPage
<1>3. c \in Nat /\ Cursor(file, c, hand, page_queue, pos)
  BY <1>1, CursorFacts DEF FlowAt
<1>4. Cursor(file, c, hand', page_queue', pos')
  BY <1>2, <1>3, CursorRead
<1>5. NextRead \in Page /\ Landing \in DOMAIN file /\ NextRead = file[Landing].page
  BY <1>2, ReadTypes
<1>6. Calm(file, state_by_serial, skeleton, state_by_serial', skeleton')
  <2>1. CASE NextRead.bos /\ NextRead.serial \notin DOMAIN state_by_serial
    <3> DEFINE r == RegisterStream(Registry, NextRead, next_link_index)
    <3>1. Becomes(r)
      BY <2>1 DEF BosPage
    <3>2. NextRead.segs # <<>>
      BY <1>5, <2>1, FileFacts DEF TypeInv
    <3>3. Registered(state_by_serial, skeleton, NextRead, r.state_by_serial, r.skeleton)
      BY <1>5, <2>1, <3>2, LinkFacts, RegisteringTypes
    <3> HIDE DEF r
    <3>4. Registered(state_by_serial, skeleton, file[Landing].page, state_by_serial', skeleton')
      BY <1>5, <3>1, <3>3 DEF Becomes
    <3>5. Untouched(state_by_serial, skeleton, state_by_serial', skeleton')
      BY <1>5, <2>1, <3>4, RegisteredUntouched
    <3>6. QED BY <3>5, UntouchedCalm
  <2>2. CASE ~(NextRead.bos /\ NextRead.serial \notin DOMAIN state_by_serial)
    BY <2>2, RegistryCalm DEF BosPage, registry
  <2>3. QED BY <2>1, <2>2
<1>7. Out' = Out
  BY <1>2 DEF Out
<1>8. c <= c /\ \A m \in c .. c - 1 : FALSE
  BY <1>3
<1>9. QED BY <1>1, <1>2, <1>3, <1>4, <1>6, <1>7, <1>8, CalmStep

\* The input is over.
LEMMA OverFlow ==
  ASSUME TypeInv, FileOK(file), NEW c, FlowAt(c), ReadNone,
         UNCHANGED <<hand, page_queue, out_queue, delivered, state_by_serial, skeleton>>
  PROVE  FlowAt(c)'
<1>1. FlowAt(c)
  OBVIOUS
<1>2. c \in Nat /\ Cursor(file, c, hand, page_queue, pos)
  BY <1>1, CursorFacts DEF FlowAt
<1>3. file' = file /\ pos' = Len(file) + 1
  BY DEF ReadNone
<1>4. Cursor(file, c, hand', page_queue', pos')
  BY <1>2, <1>3, CursorOver
<1>5. Out' = Out
  BY DEF Out
<1>6. c <= c /\ \A m \in c .. c - 1 : FALSE
  BY <1>2
<1>7. QED BY <1>1, <1>2, <1>3, <1>4, <1>5, <1>6, RegistryCalm, CalmStep

\* A step that changes no page, state or packet.
LEMMA IdleFlow ==
  ASSUME NEW c, FlowAt(c),
         UNCHANGED <<file, pos, hand, page_queue, out_queue, delivered, state_by_serial, skeleton>>
  PROVE  FlowAt(c)'
BY DEF FlowAt, Out

\* The next page is taken: those passed over did not survive.
Onward(c) == \E d \in Nat : c <= d /\ (\A m \in c .. d - 1 : ~Alive(file, m)) /\ FlowAt(d)'

LEMMA TakenFlow ==
  ASSUME TypeInv, FileOK(file), NEW c, FlowAt(c), hand = <<>>, NEW queue \in Seq(Page), queue # <<>>,
         NEW to \in Nat, Cursor(file, c, <<>>, queue, to),
         hand' = <<Head(queue)>>, page_queue' = Tail(queue), pos' = to,
         UNCHANGED <<file, out_queue, delivered, state_by_serial, skeleton>>
  PROVE  Onward(c)
<1>1. PICK d \in Nat : /\ c <= d /\ \A m \in c .. d - 1 : ~Alive(file, m)
                       /\ Cursor(file, d, <<Head(queue)>>, Tail(queue), to)
  BY CursorTaken
<1>2. Cursor(file, d, hand', page_queue', pos')
  BY <1>1
<1>3. Out' = Out
  BY DEF Out
<1>4. FlowAt(d)'
  BY <1>1, <1>2, <1>3, RegistryCalm, CalmStep
<1>5. QED BY <1>1, <1>4 DEF Onward

LEMMA TakeQueuedFlow ==
  ASSUME TypeInv, FileOK(file), NEW c, FlowAt(c), TakeQueued
  PROVE  Onward(c)
<1>1. FlowAt(c)
  OBVIOUS
<1>2. /\ hand = <<>> /\ page_queue # <<>> /\ hand' = <<Head(page_queue)>> /\ page_queue' = Tail(page_queue)
      /\ UNCHANGED <<file, pos, out_queue, delivered, state_by_serial, skeleton>>
  BY DEF TakeQueued, reader, registry
<1>3. page_queue \in Seq(Page) /\ pos \in Nat
  BY FileFacts DEF TypeInv, ControlInv
<1>4. Cursor(file, c, <<>>, page_queue, pos)
  BY <1>1, <1>2 DEF FlowAt
<1>5. QED BY <1>1, <1>2, <1>3, <1>4, TakenFlow

LEMMA TakeReadFlow ==
  ASSUME TypeInv, FileOK(file), NEW c, FlowAt(c), TakeRead
  PROVE  Onward(c)
<1>1. FlowAt(c)
  OBVIOUS
<1>2. /\ hand = <<>> /\ page_queue = <<>> /\ ReadPage /\ hand' = <<NextRead>> /\ page_queue' = <<>>
      /\ pos' = Landing + 1 /\ UNCHANGED <<file, out_queue, delivered, state_by_serial, skeleton>>
  BY DEF TakeRead, ReadPage, registry
<1>3. NextRead \in Page /\ Landing \in Nat /\ page_queue \in Seq(Page)
  BY <1>2, ReadTypes, FileFacts DEF TypeInv, ControlInv
<1> DEFINE queue == Append(page_queue, NextRead)
<1>4. Cursor(file, c, <<>>, queue, Landing + 1)
  BY <1>1, <1>2, CursorRead DEF FlowAt
<1>5. queue \in Seq(Page) /\ queue # <<>> /\ Head(queue) = NextRead /\ Tail(queue) = <<>>
  <2> DEFINE P == Page
  <2>1. NextRead \in P /\ page_queue = <<>>
    BY <1>2, <1>3
  <2> HIDE DEF P
  <2>2. queue \in Seq(P) /\ queue # <<>> /\ Head(queue) = NextRead /\ Tail(queue) = <<>>
    BY <2>1
  <2>3. QED BY <2>2 DEF P
<1>6. Landing + 1 \in Nat
  BY <1>3
<1> HIDE DEF queue
<1>7. QED BY <1>1, <1>2, <1>4, <1>5, <1>6, TakenFlow

-----------------------------------------------------------------------------
(* The flow: BOS handling, the scan, delivery.                             *)

\* The page at hand stays at hand.
LEMMA AtBosFlow ==
  ASSUME TypeInv, FileOK(file), NEW c, FlowAt(c),
         UNCHANGED <<file, pos, hand, page_queue, out_queue, delivered>>,
         Calm(file, state_by_serial, skeleton, state_by_serial', skeleton')
  PROVE  FlowAt(c)'
<1>1. FlowAt(c)
  OBVIOUS
<1>2. c \in Nat /\ Cursor(file, c, hand, page_queue, pos)
  BY <1>1, CursorFacts DEF FlowAt
<1>3. Cursor(file, c, hand', page_queue', pos')
  BY <1>2
<1>4. Out' = Out
  BY DEF Out
<1>5. c <= c /\ \A m \in c .. c - 1 : FALSE
  BY <1>2
<1>6. QED BY <1>1, <1>2, <1>3, <1>4, <1>5, CalmStep

LEMMA PageOfHand ==
  ASSUME TypeInv, hand # <<>>
  PROVE  \E k \in DOMAIN file : InHand = file[k].page
BY HandFacts

LEMMA NewBosFlow ==
  ASSUME TypeInv, FileOK(file), NEW c, FlowAt(c), NewBos
  PROVE  FlowAt(c)'
<1> DEFINE r == RegisterStream(Registry, InHand, LinkAfter)
           q == Processed(r, InHand.serial)
<1>1. /\ InHand.bos /\ InHand.serial \notin DOMAIN state_by_serial /\ Becomes(q) /\ hand # <<>>
      /\ UNCHANGED <<file, pos, hand, page_queue, out_queue, delivered>>
  BY DEF NewBos, Known, Rest, reader, AtBos
<1>2. PICK k \in DOMAIN file : InHand = file[k].page
  BY <1>1, PageOfHand
<1>3. InHand \in Page /\ InHand.segs # <<>>
  BY <1>1, HandFacts
<1>4. /\ r = AsRegistry(r.streams, r.state_by_serial, r.skeleton)
      /\ RegistryOK(r.streams, r.state_by_serial, r.skeleton)
      /\ Registered(state_by_serial, skeleton, InHand, r.state_by_serial, r.skeleton)
  BY <1>1, <1>3, LinkFacts, RegisteringTypes
<1> HIDE DEF r
<1> DEFINE strs == r.streams
           states == r.state_by_serial
           skel == r.skeleton
<1>5. Untouched(state_by_serial, skeleton, states, skel)
  BY <1>1, <1>2, <1>4, RegisteredUntouched
<1>6. Calm(file, state_by_serial, skeleton, states, skel)
  BY <1>5, UntouchedCalm
<1>7. RegistryOK(strs, states, skel) /\ q = Processed(AsRegistry(strs, states, skel), InHand.serial)
  BY <1>4, Zenon
<1> HIDE DEF q, strs, states, skel
<1>8. /\ q.skeleton = skel /\ DOMAIN q.state_by_serial = DOMAIN states
      /\ \A t \in DOMAIN states : /\ q.state_by_serial[t].pending = states[t].pending
                                  /\ q.state_by_serial[t].last_seq = states[t].last_seq
  BY <1>7, ProcessedTypes
<1>9. state_by_serial' = q.state_by_serial /\ skeleton' = q.skeleton
  BY <1>1 DEF Becomes
<1>10. Calm(file, state_by_serial, skeleton, state_by_serial', skeleton')
  <2>1. \A t \in DOMAIN state_by_serial' : state_by_serial'[t].pending # <<>> =>
           /\ t \in DOMAIN state_by_serial
           /\ state_by_serial'[t].pending = state_by_serial[t].pending
           /\ state_by_serial'[t].last_seq = state_by_serial[t].last_seq
    BY <1>6, <1>8, <1>9 DEF Calm
  <2>2. skeleton' = skel
    BY <1>8, <1>9
  <2>3. QED BY <1>6, <2>1, <2>2 DEF Calm
<1>11. QED BY <1>1, <1>10, AtBosFlow

LEMMA RegisteredBosFlow ==
  ASSUME TypeInv, FileOK(file), NEW c, FlowAt(c), RegisteredBos
  PROVE  FlowAt(c)'
<1> DEFINE q == Processed(AsRegistry(streams, state_by_serial, skeleton), InHand.serial)
<1>1. /\ InHand.serial \in DOMAIN state_by_serial
      /\ state_by_serial' = [state_by_serial EXCEPT ![InHand.serial].bos_processed = TRUE]
      /\ skeleton' = skeleton
      /\ UNCHANGED <<file, pos, hand, page_queue, out_queue, delivered>>
  BY DEF RegisteredBos, Known, Rest, reader
<1>2. q.state_by_serial = state_by_serial'
  BY <1>1 DEF Processed, AsRegistry
<1>3. RegistryOK(streams, state_by_serial, skeleton)
  BY DEF TypeInv, RegistryInv
<1> HIDE DEF q
<1>4. /\ DOMAIN q.state_by_serial = DOMAIN state_by_serial
      /\ \A t \in DOMAIN state_by_serial : /\ q.state_by_serial[t].pending = state_by_serial[t].pending
                                           /\ q.state_by_serial[t].last_seq = state_by_serial[t].last_seq
  BY <1>3, ProcessedTypes DEF q
<1>5. Calm(file, state_by_serial, skeleton, state_by_serial', skeleton)
  BY <1>2, <1>4 DEF Calm
<1>6. QED BY <1>1, <1>5, AtBosFlow

LEMMA DuplicateBosFlow ==
  ASSUME TypeInv, FileOK(file), NEW c, FlowAt(c), DuplicateBos
  PROVE  FlowAt(c)'
<1> DEFINE s2 == Restarted(state_by_serial[InHand.serial], InHand, LinkAfter)
<1>1. /\ InHand.bos /\ InHand.serial \in DOMAIN state_by_serial /\ hand # <<>>
      /\ state_by_serial' = [state_by_serial EXCEPT ![InHand.serial] = s2]
      /\ skeleton' = skeleton
      /\ UNCHANGED <<file, pos, hand, page_queue, out_queue, delivered>>
  BY DEF DuplicateBos, Duplicate, Known, AtBos, Rest, reader
<1>2. s2.pending = <<>>
  <2>1. state_by_serial[InHand.serial] \in StreamState
    BY <1>1 DEF TypeInv, RegistryInv, RegistryOK
  <2>2. InHand \in Page /\ InHand.segs # <<>>
    BY <1>1, HandFacts
  <2>3. QED BY <2>1, <2>2, LinkFacts, RestartedFacts
<1> HIDE DEF s2
<1>3. Calm(file, state_by_serial, skeleton, state_by_serial', skeleton)
  <2>1. ASSUME NEW t \in DOMAIN state_by_serial', state_by_serial'[t].pending # <<>>
        PROVE  t \in DOMAIN state_by_serial /\ state_by_serial'[t] = state_by_serial[t]
    BY <1>1, <1>2, <2>1
  <2>2. QED BY <2>1 DEF Calm
<1>4. QED BY <1>1, <1>3, AtBosFlow

LEMMA SkeletonBosFlow ==
  ASSUME TypeInv, FileOK(file), NEW c, FlowAt(c), SkeletonBos
  PROVE  FlowAt(c)'
<1>1. hand # <<>> /\ UNCHANGED <<file, pos, hand, page_queue, out_queue, delivered>>
  BY DEF SkeletonBos, AtBos, Rest, reader
<1>2. CASE UNCHANGED registry
  BY <1>1, <1>2, RegistryCalm, AtBosFlow DEF registry
<1>3. CASE ~UNCHANGED registry
  <2> DEFINE r == RegisterStream(Registry, InHand, next_link_index)
  <2>1. InHand.bos /\ Becomes(r) /\ InHand.serial \notin DOMAIN state_by_serial
    BY <1>3 DEF SkeletonBos, Known
  <2>2. PICK k \in DOMAIN file : InHand = file[k].page
    BY <1>1, PageOfHand
  <2>3. InHand \in Page /\ InHand.segs # <<>>
    BY <1>1, <2>1, HandFacts
  <2>4. Registered(state_by_serial, skeleton, InHand, r.state_by_serial, r.skeleton)
    BY <2>1, <2>3, LinkFacts, RegisteringTypes
  <2> HIDE DEF r
  <2>5. Registered(state_by_serial, skeleton, file[k].page, state_by_serial', skeleton')
    BY <2>1, <2>2, <2>4 DEF Becomes
  <2>6. Untouched(state_by_serial, skeleton, state_by_serial', skeleton')
    BY <2>1, <2>2, <2>5, RegisteredUntouched
  <2>7. QED BY <1>1, <2>6, UntouchedCalm, AtBosFlow
<1>4. QED BY <1>2, <1>3

LEMMA BuildSeekIndexFlow ==
  ASSUME TypeInv, FileOK(file), NEW c, FlowAt(c), BuildSeekIndex
  PROVE  FlowAt(c)'
<1> DEFINE r == Scan
<1>1. RegistryKept(r.registry)
  BY ScanFacts
<1>2. /\ Becomes(r.registry)
      /\ UNCHANGED <<file, pos, hand, page_queue, out_queue, delivered>>
  BY DEF BuildSeekIndex
<1> HIDE DEF r
<1>3. Untouched(state_by_serial, skeleton, state_by_serial', skeleton')
  BY <1>1, <1>2 DEF RegistryKept, Becomes
<1>4. QED BY <1>2, <1>3, UntouchedCalm, AtBosFlow

\* A packet handed over stays among those put out.
LEMMA DeliverOut ==
  ASSUME TypeInv, Deliver
  PROVE  Out' = Out
<1> DEFINE D == Delivery
<1>1. out_queue \in Seq(D) /\ delivered \in Seq(D) /\ out_queue # <<>>
  BY DEF TypeInv, QueueInv, Deliver
<1>2. delivered' = Append(delivered, Head(out_queue)) /\ out_queue' = Tail(out_queue)
  BY DEF Deliver
<1> HIDE DEF D
<1> DEFINE m == Len(delivered)
           n == Len(out_queue)
<1>3. m \in Nat /\ n \in Nat /\ n >= 1
  BY <1>1
<1>4. /\ Out \in Seq(D) /\ Len(Out) = m + n
      /\ \A i \in 1 .. m + n : Out[i] = IF i <= m THEN delivered[i] ELSE out_queue[i - m]
  BY <1>1 DEF Out
<1>5. Out' = Append(delivered, Head(out_queue)) \o Tail(out_queue)
  BY <1>2 DEF Out
<1>6. Out' = Out
  BY <1>1, <1>5 DEF Out
<1>7. QED BY <1>6

LEMMA DeliverFlow ==
  ASSUME TypeInv, FileOK(file), NEW c, FlowAt(c), Deliver
  PROVE  FlowAt(c)'
<1>1. Out' = Out
  BY DeliverOut
<1>2. UNCHANGED <<file, pos, hand, page_queue, state_by_serial, skeleton>>
  BY DEF Deliver, reader, registry
<1>3. FlowAt(c)
  OBVIOUS
<1>4. QED BY <1>1, <1>2, <1>3 DEF FlowAt

LEMMA SkipUnknownFlow ==
  ASSUME TypeInv, FileOK(file), NEW c, FlowAt(c), SkipUnknown
  PROVE  FlowAt(c + 1)'
<1>1. FlowAt(c)
  OBVIOUS
<1>2. /\ hand # <<>> /\ hand' = <<>> /\ InHand.serial # skeleton.serial /\ InHand.serial \notin DOMAIN state_by_serial
      /\ UNCHANGED <<file, pos, page_queue, out_queue, delivered, state_by_serial, skeleton>>
  BY DEF SkipUnknown, AtBody, Known, LetGo, Rest, reader, registry
<1>3. c \in Nat /\ InHand = file[c].page
  BY <1>1, <1>2, AtPage
<1>4. pos \in Nat
  BY FileFacts DEF TypeInv
<1>5. Cursor(file, c + 1, hand', page_queue', pos')
  BY <1>1, <1>2, <1>4, CursorLetGo DEF FlowAt
<1>6. Out' = Out
  BY <1>2 DEF Out
<1>7. c + 1 \in Nat /\ c <= c + 1 /\ \A m \in c .. (c + 1) - 1 : m = c
  BY <1>3
<1>8. \A m \in c .. (c + 1) - 1 : Alive(file, m) =>
           file[m].page.serial \notin DOMAIN state_by_serial /\ file[m].page.serial # skeleton.serial
  BY <1>2, <1>3, <1>7
<1>9. QED BY <1>1, <1>2, <1>5, <1>6, <1>7, <1>8, RegistryCalm, CalmStep

-----------------------------------------------------------------------------
(* The flow: the body of a page.                                           *)

\* The bytes up to a segment of the page at hand, before being what was in hand
\* unless a hole gave it up.
LEMMA TurnEnds ==
  ASSUME NEW f, FileOK(f), NEW c \in DOMAIN f, Alive(f, c), NEW before \in Seq(Piece), NEW seq,
         before # <<>> => ~(~f[c].page.bos /\ seq # NoSeq /\ f[c].page.seq # Successor(seq)),
         before # <<>> => Pending(f, before, seq, f[c].page.serial, c),
         NEW i \in DOMAIN f[c].page.segs
  PROVE  /\ EndsAt(f, Upto(f[c].page, before, i), c, i)
         /\ (i = 1 /\ f[c].page.cont => before # <<>> /\ Started(f, before)) => Started(f, Upto(f[c].page, before, i))
<1>1. f[c].page.segs # <<>>
  BY FileOKFacts
<1>2. ASSUME before # <<>>, f[c].page.cont
      PROVE  PieceOf(f[c].page.segs[1]) = [before[Len(before)] EXCEPT !.part = before[Len(before)].part + 1]
  BY <1>1, <1>2, JoinedNext
<1>3. ASSUME before # <<>> PROVE Stretch(before)
  BY <1>3 DEF Pending, EndsAt
<1>4. QED BY <1>2, <1>3, UptoEnds

\* more is out and n packets that page c puts out or the Skeleton keeps of it.
Longer(out, more, m, n) ==
  /\ m \in Nat /\ n \in Nat /\ DOMAIN out = 1 .. m /\ DOMAIN more = 1 .. m + n
  /\ \A d \in 1 .. m : more[d] = out[d]
EmittedFrom(f, more, m, n, c, g) ==
  /\ \A d \in 1 .. n : Emitted(f, more[m + d].packet, c, g[d])
  /\ \A d, e \in 1 .. n : d < e => g[d] < g[e]
SavedFrom(f, more, serial, m, n, c, g) ==
  /\ \A d \in 1 .. n : Saved(f, more[m + d], serial, c, g[d])
  /\ \A d, e \in 1 .. n : d < e => g[d] < g[e]

LEMMA EmittedMore ==
  ASSUME NEW f, FileOK(f), NEW c \in DOMAIN f, NEW out, EmittedInv(f, out, c), NEW more, NEW m, NEW n,
         Longer(out, more, m, n), NEW g, EmittedFrom(f, more, m, n, c, g)
  PROVE  EmittedInv(f, more, c + 1)
<1>1. /\ c \in Nat /\ m \in Nat /\ n \in Nat /\ DOMAIN out = 1 .. m /\ DOMAIN more = 1 .. m + n
      /\ \A d \in 1 .. m : more[d] = out[d]
      /\ \A d \in 1 .. n : Emitted(f, more[m + d].packet, c, g[d])
      /\ \A d, e \in 1 .. n : d < e => g[d] < g[e]
  BY FileOKFacts DEF Longer, EmittedFrom
<1>2. ASSUME NEW k, k \in DOMAIN f, k < c PROVE k < c + 1
  <2>1. Len(f) \in Nat /\ DOMAIN f = 1 .. Len(f)
    BY FileOKFacts
  <2>2. QED BY <1>1, <1>2, <2>1
<1>3. ASSUME NEW d \in 1 .. m PROVE \E k, i : Emitted(f, more[d].packet, k, i) /\ k < c /\ k \in DOMAIN f
  <2>1. PICK k, i : Emitted(f, out[d].packet, k, i) /\ k < c
    BY <1>1, <1>3, Zenon DEF EmittedInv
  <2>2. QED BY <1>1, <1>3, <2>1 DEF Emitted, EndsAt
<1>4. ASSUME NEW d \in 1 .. m + n, ~(d \in 1 .. m) PROVE d - m \in 1 .. n /\ m + (d - m) = d
  BY <1>1, <1>4
<1>5. ASSUME NEW d \in 1 .. m + n, ~(d \in 1 .. m) PROVE Emitted(f, more[d].packet, c, g[d - m])
  BY <1>1, <1>4, <1>5
<1>6. ASSUME NEW d \in 1 .. m + n PROVE \E k, i : Emitted(f, more[d].packet, k, i) /\ k < c + 1
  <2>1. CASE d \in 1 .. m
    BY <1>2, <1>3, <2>1
  <2>2. CASE ~(d \in 1 .. m)
    <3>1. Emitted(f, more[d].packet, c, g[d - m]) /\ c < c + 1
      BY <1>1, <1>5, <2>2
    <3>2. QED BY <3>1
  <2>3. QED BY <2>1, <2>2
<1>7. ASSUME NEW d \in 1 .. m + n, NEW e \in 1 .. m + n, d < e
      PROVE  \E k, i, l, j : Emitted(f, more[d].packet, k, i) /\ Emitted(f, more[e].packet, l, j) /\ Earlier(k, i, l, j)
  <2>1. CASE e \in 1 .. m
    <3>1. d \in 1 .. m
      BY <1>1, <1>7, <2>1
    <3>2. more[d] = out[d] /\ more[e] = out[e]
      BY <1>1, <2>1, <3>1
    <3>3. QED BY <1>1, <1>7, <2>1, <3>1, <3>2, Zenon DEF EmittedInv
  <2>2. CASE ~(e \in 1 .. m) /\ d \in 1 .. m
    <3>1. PICK k, i : Emitted(f, more[d].packet, k, i) /\ k < c
      BY <1>3, <2>2
    <3>2. Emitted(f, more[e].packet, c, g[e - m]) /\ Earlier(k, i, c, g[e - m])
      BY <1>5, <2>2, <3>1 DEF Earlier
    <3>3. QED BY <3>1, <3>2
  <2>3. CASE ~(e \in 1 .. m) /\ ~(d \in 1 .. m)
    <3>1. d - m \in 1 .. n /\ e - m \in 1 .. n /\ d - m < e - m
      BY <1>1, <1>4, <1>7, <2>3
    <3>2. g[d - m] < g[e - m]
      BY <1>1, <3>1
    <3>3. Earlier(c, g[d - m], c, g[e - m])
      BY <3>2 DEF Earlier
    <3>4. Emitted(f, more[d].packet, c, g[d - m]) /\ Emitted(f, more[e].packet, c, g[e - m])
      BY <1>5, <2>3
    <3>5. QED BY <3>3, <3>4
  <2>4. QED BY <2>1, <2>2, <2>3
<1>8. QED BY <1>1, <1>6, <1>7, Zenon DEF EmittedInv

\* More packets of the Skeleton kept from page c, in order.
Keeping(f, packets, serial, c) ==
  /\ \A d \in DOMAIN packets : \E k, i : Saved(f, packets[d], serial, k, i) /\ k < c
  /\ \A d, e \in DOMAIN packets : d < e => \E k, i, l, j :
       Saved(f, packets[d], serial, k, i) /\ Saved(f, packets[e], serial, l, j) /\ Earlier(k, i, l, j)

LEMMA SavedMore ==
  ASSUME NEW f, FileOK(f), NEW c \in DOMAIN f, NEW out, NEW serial, Keeping(f, out, serial, c), NEW more, NEW m, NEW n,
         Longer(out, more, m, n), NEW g, SavedFrom(f, more, serial, m, n, c, g)
  PROVE  Keeping(f, more, serial, c + 1)
<1>1. /\ c \in Nat /\ m \in Nat /\ n \in Nat /\ DOMAIN out = 1 .. m /\ DOMAIN more = 1 .. m + n
      /\ \A d \in 1 .. m : more[d] = out[d]
      /\ \A d \in 1 .. n : Saved(f, more[m + d], serial, c, g[d])
      /\ \A d, e \in 1 .. n : d < e => g[d] < g[e]
  BY FileOKFacts DEF Longer, SavedFrom
<1>2. ASSUME NEW k, k \in DOMAIN f, k < c PROVE k < c + 1
  <2>1. Len(f) \in Nat /\ DOMAIN f = 1 .. Len(f)
    BY FileOKFacts
  <2>2. QED BY <1>1, <1>2, <2>1
<1>3. ASSUME NEW d \in 1 .. m PROVE \E k, i : Saved(f, more[d], serial, k, i) /\ k < c /\ k \in DOMAIN f
  <2>1. PICK k, i : Saved(f, out[d], serial, k, i) /\ k < c
    BY <1>1, <1>3, Zenon DEF Keeping
  <2>2. QED BY <1>1, <1>3, <2>1 DEF Saved, EndsAt
<1>4. ASSUME NEW d \in 1 .. m + n, ~(d \in 1 .. m) PROVE d - m \in 1 .. n /\ m + (d - m) = d
  BY <1>1, <1>4
<1>5. ASSUME NEW d \in 1 .. m + n, ~(d \in 1 .. m) PROVE Saved(f, more[d], serial, c, g[d - m])
  BY <1>1, <1>4, <1>5
<1>6. ASSUME NEW d \in 1 .. m + n PROVE \E k, i : Saved(f, more[d], serial, k, i) /\ k < c + 1
  <2>1. CASE d \in 1 .. m
    BY <1>2, <1>3, <2>1
  <2>2. CASE ~(d \in 1 .. m)
    <3>1. Saved(f, more[d], serial, c, g[d - m]) /\ c < c + 1
      BY <1>1, <1>5, <2>2
    <3>2. QED BY <3>1
  <2>3. QED BY <2>1, <2>2
<1>7. ASSUME NEW d \in 1 .. m + n, NEW e \in 1 .. m + n, d < e
      PROVE  \E k, i, l, j : Saved(f, more[d], serial, k, i) /\ Saved(f, more[e], serial, l, j) /\ Earlier(k, i, l, j)
  <2>1. CASE e \in 1 .. m
    <3>1. d \in 1 .. m
      BY <1>1, <1>7, <2>1
    <3>2. more[d] = out[d] /\ more[e] = out[e]
      BY <1>1, <2>1, <3>1
    <3>3. QED BY <1>1, <1>7, <2>1, <3>1, <3>2, Zenon DEF Keeping
  <2>2. CASE ~(e \in 1 .. m) /\ d \in 1 .. m
    <3>1. PICK k, i : Saved(f, more[d], serial, k, i) /\ k < c
      BY <1>3, <2>2
    <3>2. Saved(f, more[e], serial, c, g[e - m]) /\ Earlier(k, i, c, g[e - m])
      BY <1>5, <2>2, <3>1 DEF Earlier
    <3>3. QED BY <3>1, <3>2
  <2>3. CASE ~(e \in 1 .. m) /\ ~(d \in 1 .. m)
    <3>1. d - m \in 1 .. n /\ e - m \in 1 .. n /\ d - m < e - m
      BY <1>1, <1>4, <1>7, <2>3
    <3>2. g[d - m] < g[e - m]
      BY <1>1, <3>1
    <3>3. Earlier(c, g[d - m], c, g[e - m])
      BY <3>2 DEF Earlier
    <3>4. Saved(f, more[d], serial, c, g[d - m]) /\ Saved(f, more[e], serial, c, g[e - m])
      BY <1>5, <2>3
    <3>5. QED BY <3>3, <3>4
  <2>4. QED BY <2>1, <2>2, <2>3
<1>8. QED BY <1>1, <1>6, <1>7, Zenon DEF Keeping

\* What the other streams and the Skeleton have in hand.
LEMMA OthersStay ==
  ASSUME NEW f, FileOK(f), NEW c \in DOMAIN f, NEW p, NEW seq, NEW serial, serial # f[c].page.serial,
         Pending(f, p, seq, serial, c)
  PROVE  Pending(f, p, seq, serial, c + 1)
<1>1. c \in Nat /\ c + 1 \in Nat /\ c <= c + 1
  BY FileOKFacts
<1>2. \A m \in c .. (c + 1) - 1 : ~(Alive(f, m) /\ f[m].page.serial = serial)
  BY <1>1
<1>3. QED BY <1>1, <1>2, PendingStays

\* The page taken is behind.
LEMMA BodyCursor ==
  ASSUME TypeInv, FileOK(file), NEW c, FlowAt(c), hand # <<>>, hand' = <<>>, UNCHANGED <<file, pos, page_queue>>
  PROVE  c + 1 \in Nat /\ Cursor(file, c + 1, hand', page_queue', pos')
<1>1. c \in Nat /\ pos \in Nat
  BY AtPage, FileFacts DEF TypeInv
<1>2. Cursor(file, c, hand, page_queue, pos)
  BY DEF FlowAt
<1>3. QED BY <1>1, <1>2, CursorLetGo

LEMMA TurnedPending ==
  ASSUME TypeInv, FileOK(file), NEW c, FlowAt(c), ContentPage, NEW before, NEW r, NEW next, NEW take, NEW data,
         PageTurned(before, r, next, take, data)
  PROVE  /\ PendingInv(file, state_by_serial', c + 1)
         /\ before # <<>> => /\ ~Hole(InHand, state_by_serial[InHand.serial].last_seq)
                             /\ Pending(file, before, state_by_serial[InHand.serial].last_seq, InHand.serial, c)
                             /\ Started(file, before)
<1> DEFINE serial == InHand.serial
           s == state_by_serial[serial]
           n == Len(InHand.segs)
<1>1. c \in DOMAIN file /\ c \in Nat /\ Alive(file, c) /\ InHand = file[c].page
  BY AtPage DEF ContentPage, AtBody
<1>2. /\ before \in Seq(Piece) /\ serial \in DOMAIN state_by_serial
      /\ before # <<>> => ~Hole(InHand, s.last_seq) /\ before = s.pending
      /\ Resuming(r, InHand, before, n)
      /\ next.pending = r.pending /\ next.last_seq = InHand.seq
      /\ state_by_serial' = [state_by_serial EXCEPT ![serial] = next]
  BY DEF PageTurned
<1>3. ASSUME before # <<>>
      PROVE  ~Hole(InHand, s.last_seq) /\ Pending(file, before, s.last_seq, serial, c) /\ Started(file, before)
  BY <1>2, <1>3 DEF FlowAt, PendingInv
<1>4. n \in Nat /\ DOMAIN InHand.segs = 1 .. n /\ (InHand.segs = <<>> <=> n = 0)
  <2>1. InHand.segs \in Seq(Segment)
    BY <1>1, FileOKFacts
  <2>2. QED BY <2>1
<1>5. ASSUME next.pending # <<>>
      PROVE  Pending(file, next.pending, next.last_seq, serial, c + 1) /\ Started(file, next.pending)
  <2>1. CASE n = 0
    <3>1. r.pending = before
      BY <1>2, <2>1 DEF Resuming
    <3>2. before # <<>> /\ next.pending = before
      BY <1>2, <1>5, <3>1
    <3>3. Pending(file, before, s.last_seq, serial, c) /\ Started(file, before)
      BY <1>3, <3>2
    <3>4. file[c].page.segs = <<>> /\ serial = file[c].page.serial /\ InHand.seq = file[c].page.seq
      BY <1>1, <1>4, <2>1
    <3> HIDE DEF s, serial
    <3>5. Pending(file, before, InHand.seq, serial, c + 1)
      BY <1>1, <3>3, <3>4, PendingSilent
    <3>6. QED BY <1>2, <3>2, <3>3, <3>5
  <2>2. CASE n # 0
    <3>1. /\ r.pending = Upto(InHand, before, n) /\ ~InHand.segs[n].term
          /\ n = 1 /\ InHand.cont => before # <<>>
      BY <1>2, <1>5, <2>2 DEF Resuming
    <3>2. n \in DOMAIN file[c].page.segs /\ file[c].page.segs # <<>>
      BY <1>1, <1>4, <2>2
    <3> DEFINE seq == s.last_seq
    <3>3. before # <<>> => ~(~file[c].page.bos /\ seq # NoSeq /\ file[c].page.seq # Successor(seq))
      BY <1>1, <1>3 DEF Hole
    <3>4. before # <<>> => Pending(file, before, seq, file[c].page.serial, c)
      BY <1>1, <1>3
    <3> HIDE DEF seq
    <3>5. /\ EndsAt(file, Upto(file[c].page, before, n), c, n)
          /\ (n = 1 /\ file[c].page.cont => before # <<>> /\ Started(file, before)) =>
                Started(file, Upto(file[c].page, before, n))
      BY <1>1, <1>2, <3>2, <3>3, <3>4, TurnEnds
    <3>6. next.pending = Upto(file[c].page, before, n) /\ n = Len(file[c].page.segs)
      BY <1>1, <1>2, <3>1
    <3>7. ~LastSegment(file[c].page).term
      BY <1>1, <3>1 DEF LastSegment
    <3>8. n = 1 /\ file[c].page.cont => before # <<>> /\ Started(file, before)
      BY <1>1, <1>3, <3>1
    <3> HIDE DEF n, s, serial
    <3>9. Pending(file, next.pending, file[c].page.seq, file[c].page.serial, c + 1)
      BY <1>1, <3>2, <3>5, <3>6, <3>7, PendingNew
    <3>10. QED BY <1>1, <1>2, <3>5, <3>6, <3>8, <3>9 DEF serial
  <2>3. QED BY <2>1, <2>2
<1>6. ASSUME NEW t \in DOMAIN state_by_serial, t # serial, state_by_serial[t].pending # <<>>
      PROVE  /\ Pending(file, state_by_serial[t].pending, state_by_serial[t].last_seq, t, c + 1)
             /\ Started(file, state_by_serial[t].pending)
  <2>1. /\ Pending(file, state_by_serial[t].pending, state_by_serial[t].last_seq, t, c)
        /\ Started(file, state_by_serial[t].pending)
    BY <1>6 DEF FlowAt, PendingInv
  <2>2. t # file[c].page.serial
    BY <1>1, <1>6
  <2>3. Pending(file, state_by_serial[t].pending, state_by_serial[t].last_seq, t, c + 1)
    BY <1>1, <2>1, <2>2, OthersStay
  <2>4. QED BY <2>1, <2>3
<1>7. PendingInv(file, state_by_serial', c + 1)
  <2> HIDE DEF serial
  <2>1. DOMAIN state_by_serial' = DOMAIN state_by_serial
    BY <1>2
  <2>2. \A t \in DOMAIN state_by_serial : state_by_serial'[t] = IF t = serial THEN next ELSE state_by_serial[t]
    BY <1>2
  <2>3. QED BY <1>5, <1>6, <2>1, <2>2 DEF PendingInv
<1>8. QED BY <1>3, <1>7

\* The packets a page ends, headers and data: each ends at a segment of it.
LEMMA TurnedDone ==
  ASSUME TypeInv, FileOK(file), NEW c, FlowAt(c), ContentPage, NEW before, NEW r, NEW next, NEW take, NEW data,
         PageTurned(before, r, next, take, data)
  PROVE  \E ms \in Seq(1 .. Len(InHand.segs)) :
           /\ Len(r.done) = Len(ms)
           /\ \A d, e \in 1 .. Len(ms) : d < e => ms[d] < ms[e]
           /\ \A d \in 1 .. Len(ms) : Emitted(file, r.done[d], c, ms[d])
<1> DEFINE serial == InHand.serial
           s == state_by_serial[serial]
           n == Len(InHand.segs)
<1>1. c \in DOMAIN file /\ c \in Nat /\ Alive(file, c) /\ InHand = file[c].page
  BY AtPage DEF ContentPage, AtBody
<1>2. before \in Seq(Piece) /\ Resuming(r, InHand, before, n)
  BY DEF PageTurned
<1>3. before # <<>> => /\ ~Hole(InHand, s.last_seq) /\ Pending(file, before, s.last_seq, serial, c)
                       /\ Started(file, before)
  BY TurnedPending
<1>4. n \in Nat /\ DOMAIN InHand.segs = 1 .. n
  BY <1>1, FileOKFacts
<1>5. PICK ms \in Seq(1 .. n) :
        /\ Len(r.done) = Len(ms)
        /\ \A d, e \in 1 .. Len(ms) : d < e => ms[d] < ms[e]
        /\ \A d \in 1 .. Len(ms) : /\ r.done[d] = Upto(InHand, before, ms[d])
                                   /\ Ending(InHand, before, TRUE, ms[d])
  <2>1. Collected(r.done, <<>>, InHand, before, TRUE, n)
    BY <1>2 DEF Resuming
  <2>2. PICK ms \in Seq(1 .. n) :
        /\ Len(r.done) = Len(<<>>) + Len(ms)
        /\ \A d, e \in 1 .. Len(ms) : d < e => ms[d] < ms[e]
        /\ \A d \in 1 .. Len(ms) : /\ r.done[Len(<<>>) + d] = Upto(InHand, before, ms[d])
                                   /\ Ending(InHand, before, TRUE, ms[d])
    BY <2>1, Zenon DEF Collected
  <2> DEFINE l == Len(ms)
  <2>3. l \in Nat /\ Len(<<>>) = 0
    OBVIOUS
  <2> HIDE DEF l
  <2>4. Len(<<>>) + l = l /\ \A d \in 1 .. l : Len(<<>>) + d = d
    BY <2>3
  <2>5. QED BY <2>2, <2>4 DEF l
<1> DEFINE l == Len(ms)
<1>6. l \in Nat /\ \A d \in 1 .. l : ms[d] \in 1 .. n
  BY <1>5
<1>7. ASSUME NEW d \in 1 .. l PROVE Emitted(file, r.done[d], c, ms[d])
  <2> DEFINE i == ms[d]
             seq == s.last_seq
  <2>1. /\ i \in DOMAIN file[c].page.segs /\ r.done[d] = Upto(file[c].page, before, i)
        /\ file[c].page.segs[i].term /\ (i = 1 /\ file[c].page.cont => before # <<>>)
    BY <1>1, <1>4, <1>5, <1>6 DEF Ending
  <2>2. before # <<>> => ~(~file[c].page.bos /\ seq # NoSeq /\ file[c].page.seq # Successor(seq))
    BY <1>1, <1>3 DEF Hole
  <2>3. before # <<>> => Pending(file, before, seq, file[c].page.serial, c)
    BY <1>1, <1>3
  <2> HIDE DEF i, seq
  <2>4. /\ EndsAt(file, Upto(file[c].page, before, i), c, i)
        /\ (i = 1 /\ file[c].page.cont => before # <<>> /\ Started(file, before)) =>
              Started(file, Upto(file[c].page, before, i))
    BY <1>1, <1>2, <2>1, <2>2, <2>3, TurnEnds
  <2>5. i = 1 /\ file[c].page.cont => before # <<>> /\ Started(file, before)
    BY <1>3, <2>1
  <2>6. Emitted(file, r.done[d], c, i)
    BY <2>1, <2>4, <2>5 DEF Emitted
  <2>7. QED BY <2>6 DEF i
<1>8. QED BY <1>5, <1>7

LEMMA TurnedEmits ==
  ASSUME TypeInv, FileOK(file), NEW c, FlowAt(c), ContentPage, NEW before, NEW r, NEW next, NEW take, NEW data,
         PageTurned(before, r, next, take, data)
  PROVE  EmittedInv(file, Out', c + 1)
<1> DEFINE serial == InHand.serial
           s == state_by_serial[serial]
           n == Len(InHand.segs)
<1>1. c \in DOMAIN file /\ c \in Nat /\ Alive(file, c) /\ InHand = file[c].page
  BY AtPage DEF ContentPage, AtBody
<1>2. /\ before \in Seq(Piece) /\ Resuming(r, InHand, before, n) /\ s \in StreamState
      /\ take \in Nat /\ data \in Seq(Seq(Piece)) /\ take <= Len(r.done) /\ Len(data) = Len(r.done) - take
      /\ \A i \in 1 .. Len(data) : data[i] = r.done[take + i]
      /\ out_queue' = out_queue \o Output(s, InHand, data)
  BY DEF PageTurned
<1>4. n \in Nat /\ DOMAIN InHand.segs = 1 .. n
  BY <1>1, FileOKFacts
<1>5. PICK ms \in Seq(1 .. n) :
        /\ Len(r.done) = Len(ms)
        /\ \A d, e \in 1 .. Len(ms) : d < e => ms[d] < ms[e]
        /\ \A d \in 1 .. Len(ms) : Emitted(file, r.done[d], c, ms[d])
  BY TurnedDone
<1> DEFINE l == Len(ms)
           o == Output(s, InHand, data)
           k == Len(data)
           g == [i \in 1 .. k |-> ms[take + i]]
<1>6. l \in Nat /\ \A d \in 1 .. l : ms[d] \in 1 .. n
  BY <1>5
<1>7. o \in Seq(Delivery) /\ Len(o) = k /\ \A i \in 1 .. k : o[i].packet = data[i]
  <2>1. InHand \in Page
    BY <1>1, FileOKFacts
  <2> HIDE DEF s
  <2>2. QED BY <1>2, <2>1, OutputType
<1>8. \A d \in 1 .. l : Emitted(file, r.done[d], c, ms[d])
  BY <1>5
<1>9. k \in Nat /\ take + k = l
  BY <1>2, <1>5, <1>6
<1> HIDE DEF k, l, o, n
<1>10. \A d \in 1 .. k : take + d \in 1 .. l
  BY <1>2, <1>9
<1>11. \A d \in 1 .. k : Emitted(file, o[d].packet, c, g[d])
  <2> TAKE d \in 1 .. k
  <2>1. o[d].packet = r.done[take + d]
    BY <1>2, <1>7 DEF k
  <2>2. Emitted(file, r.done[take + d], c, ms[take + d])
    BY <1>8, <1>10
  <2>3. QED BY <2>1, <2>2
<1>12. \A d, e \in 1 .. k : d < e => g[d] < g[e]
  <2> SUFFICES ASSUME NEW d \in 1 .. k, NEW e \in 1 .. k, d < e PROVE g[d] < g[e]
    OBVIOUS
  <2>1. take + d < take + e
    BY <1>2
  <2>2. ms[take + d] < ms[take + e]
    BY <1>5, <1>10, <2>1 DEF l
  <2>3. QED BY <2>2
<1> HIDE DEF g
<1> DEFINE D == Delivery
           m == Len(Out)
           more == Out'
<1>13. /\ Out \in Seq(D) /\ m \in Nat /\ DOMAIN Out = 1 .. m /\ more = Out \o o
  <2>1. out_queue \in Seq(D) /\ delivered \in Seq(D) /\ o \in Seq(D)
    BY <1>7 DEF TypeInv, QueueInv
  <2>2. out_queue' = out_queue \o o /\ delivered' = delivered
    BY <1>2 DEF ContentPage, Rest, o
  <2> HIDE DEF D
  <2>3. Out \in Seq(D)
    BY <2>1 DEF Out
  <2>4. more = delivered \o (out_queue \o o)
    BY <2>2 DEF Out
  <2>5. delivered \o (out_queue \o o) = (delivered \o out_queue) \o o
    BY <2>1
  <2>6. QED BY <2>3, <2>4, <2>5 DEF Out
<1> HIDE DEF more
<1>14. DOMAIN more = 1 .. m + k /\ (\A d \in 1 .. m : more[d] = Out[d]) /\ \A d \in 1 .. k : more[m + d] = o[d]
  <2>1. o \in Seq(D) /\ Len(o) = k
    BY <1>7
  <2> HIDE DEF D
  <2>2. QED BY <1>9, <1>13, <2>1
<1>15. \A d \in 1 .. k : Emitted(file, more[m + d].packet, c, g[d])
  BY <1>11, <1>14
<1>16. EmittedInv(file, Out, c)
  BY DEF FlowAt
<1> DEFINE out == Out
<1>17. Longer(out, more, m, k)
  BY <1>9, <1>13, <1>14 DEF Longer
<1>18. EmittedFrom(file, more, m, k, c, g)
  BY <1>12, <1>15 DEF EmittedFrom
<1> HIDE DEF m, out
<1>19. EmittedInv(file, more, c + 1)
  BY <1>1, <1>16, <1>17, <1>18, EmittedMore DEF out
<1>20. QED BY <1>19 DEF more

LEMMA ContentPageFlow ==
  ASSUME TypeInv, FileOK(file), NEW c, FlowAt(c), ContentPage
  PROVE  FlowAt(c + 1)'
<1>1. FlowAt(c)
  OBVIOUS
<1>2. PICK before, r, next, take, data : PageTurned(before, r, next, take, data)
  BY ContentTurned
<1>3. /\ hand # <<>> /\ hand' = <<>> /\ InHand.serial # skeleton.serial
      /\ UNCHANGED <<file, pos, page_queue, skeleton>>
  BY DEF ContentPage, AtBody, LetGo, Rest, reader
<1>4. c \in DOMAIN file /\ c \in Nat /\ InHand = file[c].page
  BY <1>1, <1>3, AtPage
<1>5. Cursor(file, c + 1, hand', page_queue', pos')
  BY <1>1, <1>3, BodyCursor
<1>6. PendingInv(file, state_by_serial', c + 1)
  BY <1>1, <1>2, TurnedPending
<1>7. EmittedInv(file, Out', c + 1)
  BY <1>1, <1>2, TurnedEmits
<1>8. SkeletonInv(file, skeleton, c + 1)
  <2> DEFINE none == <<>>
  <2>1. DOMAIN none = {}
    OBVIOUS
  <2> HIDE DEF none
  <2>2. PendingInv(file, none, c) /\ Calm(file, none, skeleton, none, skeleton)
    BY <2>1 DEF PendingInv, Calm
  <2>3. SkeletonInv(file, skeleton, c) /\ EmittedInv(file, Out, c)
    BY <1>1 DEF FlowAt
  <2>4. c + 1 \in Nat /\ c <= c + 1 /\ \A m \in c .. (c + 1) - 1 : m = c
    BY <1>4
  <2>5. \A m \in c .. (c + 1) - 1 : Alive(file, m) =>
          file[m].page.serial \notin DOMAIN none /\ file[m].page.serial # skeleton.serial
    BY <1>3, <1>4, <2>1, <2>4
  <2>6. QED BY <1>4, <2>2, <2>3, <2>4, <2>5, CalmFlow
<1>9. QED BY <1>3, <1>5, <1>6, <1>7, <1>8 DEF FlowAt

\* A page of the Skeleton: what is in hand of it after the page, and what is kept.
LEMMA SkeletonTurned ==
  ASSUME TypeInv, FileOK(file), NEW c, FlowAt(c), SkeletonPage
  PROVE  /\ skeleton'.serial = skeleton.serial
         /\ skeleton'.pending # <<>> => Pending(file, skeleton'.pending, skeleton'.last_seq, skeleton.serial, c + 1)
         /\ Keeping(file, skeleton'.packets, skeleton.serial, c + 1)
<1> DEFINE serial == skeleton.serial
           seq == skeleton.last_seq
           base == skeleton.packets
           n == Len(InHand.segs)
<1>1. c \in DOMAIN file /\ c \in Nat /\ Alive(file, c) /\ InHand = file[c].page /\ InHand.serial = serial
  BY AtPage DEF SkeletonPage, AtBody
<1>2. PICK before, r :
           /\ before \in Seq(Piece)
           /\ before # <<>> => ~SkeletonHole(InHand, skeleton.last_seq) /\ before = skeleton.pending
           /\ Absorbing(r, InHand, before, skeleton.packets, Len(InHand.segs))
           /\ skeleton' = [skeleton EXCEPT !.pending = r.pending, !.last_seq = InHand.seq, !.packets = r.kept,
                                           !.eos_seen = skeleton.eos_seen \/ InHand.eos]
           /\ damage' \in {damage, Record(damage, "hole", InHand)}
  BY SkeletonAbsorbs
<1>3. skeleton \in SkeletonState /\ base \in Seq(Seq(Piece))
  <2>1. skeleton \in SkeletonState
    BY DEF TypeInv, RegistryInv, RegistryOK
  <2>2. QED BY <2>1 DEF SkeletonState
<1>4. /\ skeleton'.serial = serial /\ skeleton'.pending = r.pending /\ skeleton'.last_seq = InHand.seq
      /\ skeleton'.packets = r.kept
  BY <1>2, <1>3 DEF SkeletonState
<1>5. before # <<>> => Pending(file, before, seq, serial, c)
  BY <1>2 DEF FlowAt, SkeletonInv
<1>6. n \in Nat /\ DOMAIN InHand.segs = 1 .. n /\ (InHand.segs = <<>> <=> n = 0)
  <2>1. InHand.segs \in Seq(Segment)
    BY <1>1, FileOKFacts
  <2>2. QED BY <2>1
<1>7. ASSUME NEW i \in 1 .. n PROVE EndsAt(file, Upto(InHand, before, i), c, i)
  <2>1. i \in DOMAIN file[c].page.segs
    BY <1>1, <1>6
  <2>2. before # <<>> => ~(~file[c].page.bos /\ seq # NoSeq /\ file[c].page.seq # Successor(seq))
    BY <1>1, <1>2 DEF SkeletonHole
  <2>3. before # <<>> => Pending(file, before, seq, file[c].page.serial, c)
    BY <1>1, <1>5
  <2> HIDE DEF seq
  <2>4. EndsAt(file, Upto(file[c].page, before, i), c, i)
    BY <1>1, <1>2, <2>1, <2>2, <2>3, TurnEnds
  <2>5. QED BY <1>1, <2>4
<1>8. ASSUME r.pending # <<>> PROVE Pending(file, r.pending, InHand.seq, serial, c + 1)
  <2>1. CASE n = 0
    <3>1. r.pending = before
      BY <1>2, <2>1 DEF Absorbing
    <3>2. Pending(file, before, seq, serial, c)
      BY <1>5, <1>8, <3>1
    <3>3. file[c].page.segs = <<>> /\ serial = file[c].page.serial /\ InHand.seq = file[c].page.seq
      BY <1>1, <1>6, <2>1
    <3> HIDE DEF seq, serial
    <3>4. Pending(file, before, InHand.seq, serial, c + 1)
      BY <1>1, <3>2, <3>3, PendingSilent
    <3>5. QED BY <3>1, <3>4
  <2>2. CASE n # 0
    <3>1. r.pending = Upto(InHand, before, n) /\ ~InHand.segs[n].term
      BY <1>2, <1>8, <2>2 DEF Absorbing
    <3>2. n \in 1 .. n /\ file[c].page.segs # <<>>
      BY <1>1, <1>6, <2>2
    <3>3. EndsAt(file, r.pending, c, Len(file[c].page.segs))
      BY <1>1, <1>7, <3>1, <3>2
    <3>4. ~LastSegment(file[c].page).term
      BY <1>1, <3>1 DEF LastSegment
    <3>5. Pending(file, r.pending, file[c].page.seq, file[c].page.serial, c + 1)
      BY <1>1, <3>2, <3>3, <3>4, PendingNew
    <3>6. QED BY <1>1, <3>5
  <2>3. QED BY <2>1, <2>2
<1> DEFINE m == Len(base)
<1>9. PICK ms \in Seq(1 .. n) :
        /\ Len(r.kept) = m + Len(ms)
        /\ \A j \in 1 .. m : r.kept[j] = base[j]
        /\ \A d, e \in 1 .. Len(ms) : d < e => ms[d] < ms[e]
        /\ \A d \in 1 .. Len(ms) : /\ r.kept[m + d] = Upto(InHand, before, ms[d])
                                   /\ Ending(InHand, before, FALSE, ms[d])
  <2>1. Collected(r.kept, base, InHand, before, FALSE, n)
    BY <1>2 DEF Absorbing
  <2>2. QED BY <2>1, Zenon DEF Collected
<1> DEFINE k == Len(ms)
           more == r.kept
<1>10. k \in Nat /\ m \in Nat /\ DOMAIN base = 1 .. m /\ \A d \in 1 .. k : ms[d] \in 1 .. n
  BY <1>3, <1>9
<1>11. more \in Seq(Seq(Piece)) /\ \A j \in m + 1 .. Len(more) : Recognised(more[j])
  BY <1>2 DEF Absorbing
<1>12. Longer(base, more, m, k)
  <2>1. Len(more) = m + k /\ DOMAIN more = 1 .. Len(more)
    BY <1>9, <1>11
  <2>2. QED BY <1>9, <1>10, <2>1 DEF Longer
<1>13. ASSUME NEW d \in 1 .. k PROVE Saved(file, more[m + d], serial, c, ms[d])
  <2>1. ms[d] \in 1 .. n /\ more[m + d] = Upto(InHand, before, ms[d]) /\ InHand.segs[ms[d]].term
    BY <1>9, <1>10 DEF Ending
  <2>2. EndsAt(file, more[m + d], c, ms[d])
    BY <1>7, <2>1
  <2>3. m + d \in m + 1 .. Len(more)
    <3> HIDE DEF m, k, more
    <3>1. Len(more) = m + k
      BY <1>9 DEF k, more
    <3>2. QED BY <1>10, <3>1
  <2>4. Recognised(more[m + d])
    BY <1>11, <2>3
  <2>5. QED BY <1>1, <2>1, <2>2, <2>4 DEF Saved
<1>14. SavedFrom(file, more, serial, m, k, c, ms)
  BY <1>9, <1>13 DEF SavedFrom
<1>15. Keeping(file, base, serial, c)
  BY DEF FlowAt, SkeletonInv, Keeping
<1>16. Keeping(file, more, serial, c + 1)
  <2> HIDE DEF base, more, serial, m, k
  <2>1. QED BY <1>1, <1>12, <1>14, <1>15, SavedMore
<1>17. QED BY <1>4, <1>8, <1>16

LEMMA SkeletonPageFlow ==
  ASSUME TypeInv, FileOK(file), NEW c, FlowAt(c), SkeletonPage
  PROVE  FlowAt(c + 1)'
<1>1. FlowAt(c)
  OBVIOUS
<1>2. /\ hand # <<>> /\ hand' = <<>> /\ InHand.serial = skeleton.serial
      /\ UNCHANGED <<file, pos, page_queue, out_queue, delivered, state_by_serial>>
  BY DEF SkeletonPage, AtBody, LetGo, Rest, reader
<1>3. c \in DOMAIN file /\ c \in Nat /\ InHand = file[c].page
  BY <1>1, <1>2, AtPage
<1>4. Cursor(file, c + 1, hand', page_queue', pos')
  BY <1>1, <1>2, BodyCursor
<1>5. /\ skeleton'.serial = skeleton.serial
      /\ skeleton'.pending # <<>> => Pending(file, skeleton'.pending, skeleton'.last_seq, skeleton.serial, c + 1)
      /\ Keeping(file, skeleton'.packets, skeleton.serial, c + 1)
  BY <1>1, SkeletonTurned
<1>6. skeleton'.serial # NoSerial
  <2>1. InHand.serial \in Nat
    BY BodyControl DEF BodyStep
  <2>2. QED BY <1>2, <1>5, <2>1 DEF NoSerial
<1>7. SkeletonInv(file, skeleton', c + 1)
  BY <1>5, <1>6 DEF SkeletonInv, Keeping
<1>8. PendingInv(file, state_by_serial, c + 1)
  <2>1. skeleton.serial \notin DOMAIN state_by_serial
    BY DEF TypeInv, RegistryInv, RegistryOK
  <2>2. ASSUME NEW t \in DOMAIN state_by_serial, state_by_serial[t].pending # <<>>
        PROVE  /\ Pending(file, state_by_serial[t].pending, state_by_serial[t].last_seq, t, c + 1)
               /\ Started(file, state_by_serial[t].pending)
    <3>1. t # file[c].page.serial
      BY <1>2, <1>3, <2>1
    <3>2. /\ Pending(file, state_by_serial[t].pending, state_by_serial[t].last_seq, t, c)
          /\ Started(file, state_by_serial[t].pending)
      BY <1>1, <2>2 DEF FlowAt, PendingInv
    <3>3. QED BY <1>3, <3>1, <3>2, OthersStay
  <2>3. QED BY <2>2 DEF PendingInv
<1>9. EmittedInv(file, Out', c + 1)
  <2>1. ASSUME NEW k, k \in DOMAIN file, k < c PROVE k < c + 1
    <3>1. Len(file) \in Nat /\ DOMAIN file = 1 .. Len(file)
      BY FileOKFacts
    <3>2. QED BY <1>3, <2>1, <3>1
  <2>2. Out' = Out
    BY <1>2 DEF Out
  <2>3. EmittedInv(file, Out, c)
    BY <1>1 DEF FlowAt
  <2>4. ASSUME NEW d \in DOMAIN Out PROVE \E k, i : Emitted(file, Out[d].packet, k, i) /\ k < c + 1
    <3>1. PICK k, i : Emitted(file, Out[d].packet, k, i) /\ k < c
      BY <2>3, Zenon DEF EmittedInv
    <3>2. k < c + 1
      BY <2>1, <3>1 DEF Emitted, EndsAt
    <3>3. QED BY <3>1, <3>2
  <2>5. EmittedInv(file, Out, c + 1)
    BY <2>3, <2>4, Zenon DEF EmittedInv
  <2>6. QED BY <2>2, <2>5
<1>10. QED BY <1>2, <1>4, <1>7, <1>8, <1>9 DEF FlowAt

-----------------------------------------------------------------------------
(* The flow is invariant, and shows what is delivered to be genuine.        *)

LEMMA FlowAtFirst == Init => FlowAt(1)
<1> SUFFICES ASSUME Init PROVE FlowAt(1)
  OBVIOUS
<1>1. /\ hand = <<>> /\ page_queue = <<>> /\ pos = 1 /\ out_queue = <<>> /\ delivered = <<>>
      /\ state_by_serial = <<>> /\ skeleton.pending = <<>> /\ skeleton.packets = <<>>
  BY DEF Init
<1>2. Queued(file, <<>>, <<>>, 1, 1)
  <2>1. <<>> \in Seq(Nat) /\ Len(<<>>) = 0 /\ 1 .. 0 = {} /\ 1 - 1 = 0
    OBVIOUS
  <2>2. QED BY <2>1 DEF Queued
<1>3. Cursor(file, 1, hand, page_queue, pos)
  <2>1. 1 \in Nat /\ 1 <= 1
    OBVIOUS
  <2>2. QED BY <1>1, <1>2, <2>1 DEF Cursor
<1>4. DOMAIN <<>> = {} /\ Out = <<>>
  <2>1. <<>> \o <<>> = <<>>
    OBVIOUS
  <2>2. QED BY <1>1, <2>1 DEF Out
<1>5. PendingInv(file, state_by_serial, 1) /\ EmittedInv(file, Out, 1)
  BY <1>1, <1>4 DEF PendingInv, EmittedInv
<1>6. SkeletonInv(file, skeleton, 1)
  BY <1>1, <1>4 DEF SkeletonInv
<1>7. QED BY <1>3, <1>5, <1>6 DEF FlowAt

\* The steps that leave pages, states and packets alone.
LEMMA QuietFlow ==
  ASSUME TypeInv, FileOK(file), NEW c, FlowAt(c), OpenDone \/ OpenEof \/ BosEof \/ EndOfFile \/ NextPacket \/ PlainPage
  PROVE  FlowAt(c)'
<1>1. CASE OpenDone
  BY <1>1, IdleFlow DEF OpenDone, reader
<1>2. CASE OpenEof
  BY <1>2, OverFlow DEF OpenEof
<1>3. CASE BosEof
  BY <1>3, OverFlow DEF BosEof, registry
<1>4. CASE EndOfFile
  BY <1>4, OverFlow DEF EndOfFile, registry
<1>5. CASE NextPacket
  BY <1>5, IdleFlow DEF NextPacket, reader, registry
<1>6. CASE PlainPage
  BY <1>6, IdleFlow DEF PlainPage, Rest, reader, registry
<1>7. QED BY <1>1, <1>2, <1>3, <1>4, <1>5, <1>6

\* Where a step leaves the cursor: at the page it was at, at the next page that
\* survives, or behind the page.
Steady == Open \/ BosStep \/ Answer \/ Caller \/ Refused \/ UNCHANGED vars
LEMMA FlowSteady ==
  ASSUME TypeInv, FileOK(file), NEW c, FlowAt(c), Steady
  PROVE  FlowAt(c)'
<1>1. CASE Open
  BY <1>1, BosPageFlow, QuietFlow, Zenon DEF Open
<1>2. CASE BosStep
  BY <1>2, QuietFlow, NewBosFlow, RegisteredBosFlow, DuplicateBosFlow, SkeletonBosFlow, Zenon DEF BosStep
<1>3. CASE Answer
  BY <1>3, DeliverFlow, QuietFlow, Zenon DEF Answer
<1>4. CASE Caller
  BY <1>4, QuietFlow, BuildSeekIndexFlow, Zenon DEF Caller
<1>5. CASE Refused \/ UNCHANGED vars
  <2>1. UNCHANGED vars
    BY <1>5 DEF Refused
  <2>2. QED BY <2>1, IdleFlow DEF vars, reader, registry
<1>6. QED BY <1>1, <1>2, <1>3, <1>4, <1>5, Zenon DEF Steady

LEMMA TakePageFlow ==
  ASSUME TypeInv, FileOK(file), NEW c, FlowAt(c), TakePage
  PROVE  Onward(c)
BY TakeQueuedFlow, TakeReadFlow, Zenon DEF TakePage

LEMMA BodyFlow ==
  ASSUME TypeInv, FileOK(file), NEW c, FlowAt(c), BodyStep
  PROVE  FlowAt(c + 1)'
BY SkipUnknownFlow, SkeletonPageFlow, ContentPageFlow, Zenon DEF BodyStep

LEMMA NextSteps == [Next]_vars => Steady \/ TakePage \/ BodyStep
BY Zenon DEF Next, Work, Steady

LEMMA FlowKept == TypeInv /\ FileOK(file) /\ FlowInv /\ [Next]_vars => FlowInv'
<1> SUFFICES ASSUME TypeInv, FileOK(file), FlowInv, [Next]_vars PROVE FlowInv'
  OBVIOUS
<1>1. PICK c : FlowAt(c)
  BY DEF FlowInv
<1>2. \E d : FlowAt(d)'
  BY <1>1, NextSteps, FlowSteady, TakePageFlow, BodyFlow, Zenon DEF Onward
<1>3. QED BY <1>2 DEF FlowInv

\* A stretch of a packet, piece by piece.
LEMMA StretchOne ==
  ASSUME NEW p \in Seq(Piece), Stretch(p)
  PROVE  OneStretch(p)
<1> SUFFICES ASSUME NEW j \in 2 .. Len(p) PROVE p[j] = [p[j - 1] EXCEPT !.part = p[j - 1].part + 1]
  BY DEF OneStretch
<1> DEFINE n == Len(p)
           b == p[1]
<1>1. n \in Nat /\ j \in 1 .. n /\ j - 1 \in 1 .. n /\ 1 \in 1 .. n
  <2>1. n \in Nat /\ j \in 2 .. n
    OBVIOUS
  <2> HIDE DEF n
  <2>2. QED BY <2>1
<1>2. b \in Piece
  BY <1>1
<1>3. b.part \in Nat /\ b = [src |-> b.src, pkt |-> b.pkt, part |-> b.part, of |-> b.of]
  BY <1>2 DEF Piece
<1>4. p[j] = [b EXCEPT !.part = b.part + (j - 1)] /\ p[j - 1] = [b EXCEPT !.part = b.part + ((j - 1) - 1)]
  BY <1>1 DEF Stretch
<1> HIDE DEF b, n
<1>5. p[j - 1].part = b.part + ((j - 1) - 1)
  BY <1>3, <1>4
<1>6. (b.part + ((j - 1) - 1)) + 1 = b.part + (j - 1)
  BY <1>1, <1>3
<1>7. [p[j - 1] EXCEPT !.part = b.part + (j - 1)] = [b EXCEPT !.part = b.part + (j - 1)]
  BY <1>3, <1>4
<1>8. QED BY <1>4, <1>5, <1>6, <1>7

\* A stretch from the first part to one that ends the packet is the packet.
LEMMA WholePacket ==
  ASSUME NEW f, FileOK(f), Honest(f), NEW p, NEW k, NEW i, EndsAt(f, p, k, i), f[k].page.segs[i].term, p[1].part = 1
  PROVE  /\ IsPacket(p, Src(p), Pkt(p))
         /\ f[k].page.segs[i].src = Src(p) /\ f[k].page.segs[i].pkt = Pkt(p)
         /\ f[k].page.segs[i].part = f[k].page.segs[i].of
<1> DEFINE seg == f[k].page.segs[i]
           n == Len(p)
           b == p[1]
<1>1. /\ k \in DOMAIN f /\ i \in DOMAIN f[k].page.segs
      /\ p \in Seq(Piece) /\ p # <<>> /\ p[n] = PieceOf(seg) /\ Stretch(p)
  BY DEF EndsAt
<1>2. seg.part = seg.of
  <2>1. seg.term <=> seg.part = seg.of
    BY <1>1 DEF Honest
  <2>2. QED BY <2>1
<1>3. n \in Nat /\ n >= 1 /\ 1 \in 1 .. n /\ n \in 1 .. n /\ DOMAIN p = 1 .. n
  BY <1>1
<1>4. b \in Piece
  BY <1>1, <1>3
<1>5. b = [src |-> b.src, pkt |-> b.pkt, part |-> b.part, of |-> b.of] /\ b.part = 1
  BY <1>4 DEF Piece
<1> HIDE DEF n, b
<1>6. \A j \in 1 .. n : p[j] = [b EXCEPT !.part = b.part + (j - 1)]
  BY <1>1 DEF Stretch, b, n
<1>7. \A j \in 1 .. n : b.part + (j - 1) = j
  BY <1>3, <1>5
<1>8. \A j \in 1 .. n : p[j] = [b EXCEPT !.part = j]
  BY <1>6, <1>7
<1>9. \A j \in 1 .. n : p[j].src = b.src /\ p[j].pkt = b.pkt /\ p[j].part = j /\ p[j].of = b.of
  BY <1>5, <1>8
<1>10. PieceOf(seg).src = seg.src /\ PieceOf(seg).pkt = seg.pkt /\ PieceOf(seg).part = seg.part /\ PieceOf(seg).of = seg.of
  BY DEF PieceOf
<1>11. seg.src = b.src /\ seg.pkt = b.pkt /\ seg.part = n /\ seg.of = b.of
  <2>1. p[n].src = b.src /\ p[n].pkt = b.pkt /\ p[n].part = n /\ p[n].of = b.of
    BY <1>3, <1>9
  <2>2. QED BY <1>1, <1>10, <2>1
<1>12. Src(p) = b.src /\ Pkt(p) = b.pkt
  BY DEF Src, Pkt, b
<1>13. n = b.of
  BY <1>2, <1>11
<1>14. IsPacket(p, b.src, b.pkt)
  BY <1>1, <1>3, <1>9, <1>13 DEF IsPacket, n, b
<1>15. QED BY <1>2, <1>11, <1>12, <1>14

\* Of two packets of one bitstream, the one that ends first comes first.
LEMMA LaidInOrder ==
  ASSUME NEW f, FileOK(f), NEW k \in DOMAIN f, NEW l \in DOMAIN f, NEW i \in DOMAIN f[k].page.segs,
         NEW j \in DOMAIN f[l].page.segs, Earlier(k, i, l, j),
         SamePart(f[k].page.segs[i], f[l].page.segs[j]),
         f[k].page.segs[i].part = f[k].page.segs[i].of, f[l].page.segs[j].part = f[l].page.segs[j].of
  PROVE  f[k].page.segs[i].pkt < f[l].page.segs[j].pkt
<1> DEFINE a == f[k].page.segs[i]
           b == f[l].page.segs[j]
<1>1. k < l \/ (k = l /\ i < j)
  BY DEF Earlier
<1>2. a.pkt < b.pkt \/ (a.pkt = b.pkt /\ a.part < b.part /\ a.of = b.of)
  BY <1>1 DEF FileOK, Laid
<1>3. a.part \in Nat /\ b.part \in Nat
  BY SegFacts
<1> HIDE DEF a, b
<1>4. ~(a.part < b.part /\ a.of = b.of)
  BY <1>3 DEF a, b
<1>5. QED BY <1>2, <1>4 DEF a, b

LEMMA FlowGenuine == TypeInv /\ FileOK(file) /\ FlowInv => Genuine
<1> SUFFICES ASSUME TypeInv, FileOK(file), FlowInv PROVE Genuine
  OBVIOUS
<1> DEFINE packet(i) == delivered[i].packet
           kept(i)   == skeleton.packets[i]
<1>1. PICK c : EmittedInv(file, Out, c) /\ SkeletonInv(file, skeleton, c)
  BY DEF FlowInv, FlowAt
<1>2. \A i \in DOMAIN delivered : i \in DOMAIN Out /\ Out[i].packet = packet(i)
  <2> DEFINE D == Delivery
  <2>1. out_queue \in Seq(D) /\ delivered \in Seq(D)
    BY DEF TypeInv, QueueInv
  <2> HIDE DEF D
  <2>2. DOMAIN delivered = 1 .. Len(delivered) /\ Len(delivered) \in Nat /\ Len(out_queue) \in Nat
    BY <2>1
  <2>3. DOMAIN Out = 1 .. Len(delivered) + Len(out_queue) /\ \A i \in 1 .. Len(delivered) : Out[i] = delivered[i]
    BY <2>1 DEF Out
  <2>4. QED BY <2>2, <2>3
<1>3. ASSUME NEW i \in DOMAIN delivered
      PROVE  \E k, a : Emitted(file, packet(i), k, a)
  BY <1>1, <1>2, Zenon DEF EmittedInv
<1>4. ASSUME NEW i \in DOMAIN delivered, NEW j \in DOMAIN delivered, i < j
      PROVE  \E k, a, l, b :
               Emitted(file, packet(i), k, a) /\ Emitted(file, packet(j), l, b) /\ Earlier(k, a, l, b)
  BY <1>1, <1>2, <1>4, Zenon DEF EmittedInv
<1>5. ASSUME NEW i \in DOMAIN skeleton.packets
      PROVE  \E k, a : Saved(file, kept(i), skeleton.serial, k, a)
  BY <1>1, Zenon DEF SkeletonInv
<1>6. ASSUME NEW i \in DOMAIN skeleton.packets, NEW j \in DOMAIN skeleton.packets, i < j
      PROVE  \E k, a, l, b : /\ Saved(file, kept(i), skeleton.serial, k, a)
                             /\ Saved(file, kept(j), skeleton.serial, l, b) /\ Earlier(k, a, l, b)
  BY <1>1, <1>6, Zenon DEF SkeletonInv
<1> HIDE DEF packet, kept
<1>7. \A i \in DOMAIN delivered : OneStretch(packet(i))
  <2> TAKE i \in DOMAIN delivered
  <2>1. PICK k, a : Emitted(file, packet(i), k, a)
    BY <1>3
  <2>2. packet(i) \in Seq(Piece) /\ Stretch(packet(i))
    BY <2>1 DEF Emitted, EndsAt
  <2>3. QED BY <2>2, StretchOne
<1>8. ASSUME Truthful
      PROVE  /\ \A i \in DOMAIN delivered : IsPacket(packet(i), Src(packet(i)), Pkt(packet(i)))
             /\ \A i, j \in DOMAIN delivered :
                  i < j /\ Src(packet(i)) = Src(packet(j)) /\ Src(packet(i)) \in Content =>
                    Pkt(packet(i)) < Pkt(packet(j))
             /\ \A i \in DOMAIN skeleton.packets :
                  IsPacket(kept(i), Src(kept(i)), Pkt(kept(i))) /\ Src(kept(i)) \in Fishead
             /\ \A i, j \in DOMAIN skeleton.packets : i < j => Pkt(kept(i)) < Pkt(kept(j))
  <2>1. Honest(file)
    BY <1>8 DEF Truthful
  <2>2. ASSUME NEW p, NEW k, NEW a, Emitted(file, p, k, a)
        PROVE  /\ k \in DOMAIN file /\ a \in DOMAIN file[k].page.segs /\ IsPacket(p, Src(p), Pkt(p))
               /\ file[k].page.segs[a].src = Src(p) /\ file[k].page.segs[a].pkt = Pkt(p)
               /\ file[k].page.segs[a].part = file[k].page.segs[a].of
    <3>1. EndsAt(file, p, k, a) /\ file[k].page.segs[a].term /\ p[1].part = 1
      BY <2>1, <2>2 DEF Emitted, Started
    <3>2. k \in DOMAIN file /\ a \in DOMAIN file[k].page.segs
      BY <3>1 DEF EndsAt
    <3>3. QED BY <2>1, <3>1, <3>2, WholePacket
  <2>3. ASSUME NEW p, NEW k, NEW a, Saved(file, p, skeleton.serial, k, a)
        PROVE  /\ k \in DOMAIN file /\ a \in DOMAIN file[k].page.segs /\ IsPacket(p, Src(p), Pkt(p))
               /\ file[k].page.segs[a].src = Src(p) /\ file[k].page.segs[a].pkt = Pkt(p)
               /\ file[k].page.segs[a].part = file[k].page.segs[a].of
               /\ file[k].page.serial = skeleton.serial /\ Src(p) \in Fishead /\ Pkt(p) # 0
    <3>1. /\ EndsAt(file, p, k, a) /\ file[k].page.segs[a].term /\ p[1].part = 1
          /\ file[k].page.serial = skeleton.serial /\ p[1].pkt > 1 /\ p[1].src \in Fishead
      BY <2>3 DEF Saved, Recognised
    <3>2. k \in DOMAIN file /\ a \in DOMAIN file[k].page.segs
      BY <3>1 DEF EndsAt
    <3>3. Src(p) \in Fishead /\ Pkt(p) # 0
      BY <3>1 DEF Src, Pkt
    <3>4. QED BY <2>1, <3>1, <3>2, <3>3, WholePacket
  <2>4. \A i \in DOMAIN delivered : IsPacket(packet(i), Src(packet(i)), Pkt(packet(i)))
    BY <1>3, <2>2
  <2>5. ASSUME NEW i \in DOMAIN delivered, NEW j \in DOMAIN delivered, i < j,
               Src(packet(i)) = Src(packet(j)), Src(packet(i)) \in Content
        PROVE  Pkt(packet(i)) < Pkt(packet(j))
    <3>1. PICK k, a, l, b :
            Emitted(file, packet(i), k, a) /\ Emitted(file, packet(j), l, b) /\ Earlier(k, a, l, b)
      BY <1>4, <2>5
    <3>2. /\ k \in DOMAIN file /\ a \in DOMAIN file[k].page.segs /\ file[k].page.segs[a].src = Src(packet(i))
          /\ file[k].page.segs[a].pkt = Pkt(packet(i)) /\ file[k].page.segs[a].part = file[k].page.segs[a].of
      BY <2>2, <3>1
    <3>3. /\ l \in DOMAIN file /\ b \in DOMAIN file[l].page.segs /\ file[l].page.segs[b].src = Src(packet(j))
          /\ file[l].page.segs[b].pkt = Pkt(packet(j)) /\ file[l].page.segs[b].part = file[l].page.segs[b].of
      BY <2>2, <3>1
    <3>4. SamePart(file[k].page.segs[a], file[l].page.segs[b])
      <4>1. Src(packet(i)) \notin Fishead
        BY <2>5 DEF Content
      <4>2. QED BY <2>5, <3>2, <3>3, <4>1 DEF SamePart
    <3>5. file[k].page.segs[a].pkt < file[l].page.segs[b].pkt
      BY <3>1, <3>2, <3>3, <3>4, LaidInOrder
    <3>6. QED BY <3>2, <3>3, <3>5
  <2>6. \A i \in DOMAIN skeleton.packets :
          IsPacket(kept(i), Src(kept(i)), Pkt(kept(i))) /\ Src(kept(i)) \in Fishead
    BY <1>5, <2>3
  <2>7. ASSUME NEW i \in DOMAIN skeleton.packets, NEW j \in DOMAIN skeleton.packets, i < j
        PROVE  Pkt(kept(i)) < Pkt(kept(j))
    <3>1. PICK k, a, l, b : /\ Saved(file, kept(i), skeleton.serial, k, a)
                            /\ Saved(file, kept(j), skeleton.serial, l, b) /\ Earlier(k, a, l, b)
      BY <1>6, <2>7
    <3>2. /\ k \in DOMAIN file /\ a \in DOMAIN file[k].page.segs /\ file[k].page.segs[a].src = Src(kept(i))
          /\ file[k].page.segs[a].pkt = Pkt(kept(i)) /\ file[k].page.segs[a].part = file[k].page.segs[a].of
          /\ file[k].page.serial = skeleton.serial /\ Src(kept(i)) \in Fishead /\ Pkt(kept(i)) # 0
      BY <2>3, <3>1
    <3>3. /\ l \in DOMAIN file /\ b \in DOMAIN file[l].page.segs /\ file[l].page.segs[b].src = Src(kept(j))
          /\ file[l].page.segs[b].pkt = Pkt(kept(j)) /\ file[l].page.segs[b].part = file[l].page.segs[b].of
          /\ file[l].page.serial = skeleton.serial /\ Src(kept(j)) \in Fishead /\ Pkt(kept(j)) # 0
      BY <2>3, <3>1
    <3>4. file[k].page.segs[a].src = file[l].page.segs[b].src
      BY <3>2, <3>3 DEF FileOK, Laid
    <3>5. SamePart(file[k].page.segs[a], file[l].page.segs[b])
      BY <3>2, <3>3, <3>4 DEF SamePart
    <3>6. file[k].page.segs[a].pkt < file[l].page.segs[b].pkt
      BY <3>1, <3>2, <3>3, <3>5, LaidInOrder
    <3>7. QED BY <3>2, <3>3, <3>6
  <2>8. QED BY <2>4, <2>5, <2>6, <2>7
<1>9. QED BY <1>7, <1>8, Zenon DEF Genuine, packet, kept

\* Of every file whose bitstreams were laid out in order and whose pages go on
\* where the page before them stopped, whatever pages are lost or damaged,
\* next_packet delivers whole packets, those of a bitstream in order and each at
\* most once, and keeps as the Skeleton's what is its own: nothing is put
\* together across a gap.
THEOREM PacketsGenuine == ASSUME Faithful PROVE Spec => []Genuine
<1> SUFFICES ASSUME Faithful PROVE Spec => []Genuine
  OBVIOUS
<1>1. TypeInv => FileOK(file)
  <2>1. TypeInv => file \in Files /\ file \in Seq(Item)
    BY FileFacts DEF TypeInv, FileInv
  <2>2. QED BY <2>1 DEF Faithful, FileOK
<1>2. TypeInv /\ FlowInv /\ [Next]_vars => FlowInv'
  BY <1>1, FlowKept
<1>3. TypeInv /\ FlowInv => Genuine
  BY <1>1, FlowGenuine
<1>4. Init => FlowInv
  BY FlowAtFirst DEF FlowInv
<1>5. QED BY AlwaysTyped, <1>2, <1>3, <1>4, PTL DEF Spec

-----------------------------------------------------------------------------
(* The headers of a bitstream are its first packets: page b opens it, and as *)
(* many packets ended since as have been taken.                              *)

Count(f, b) == Need[f[b].page.segs[1].src]
Opens(f, b, x) ==
  /\ b \in DOMAIN f /\ Alive(f, b) /\ f[b].page.serial = x
  /\ f[b].page.bos /\ ~IsFishead(f[b].page)
Claims(f, m, x) == Alive(f, m) /\ f[m].page.serial = x /\ f[m].page.bos
\* Page b is the last up to page e to claim serial x.
Current(f, b, x, e) == Opens(f, b, x) /\ b <= e /\ \A m \in b + 1 .. e : ~Claims(f, m, x)
First(f, b, x) == Opens(f, b, x) /\ \A m \in 1 .. b - 1 : ~Opens(f, m, x)
\* n segments from page b on that end packets, in the order of the file.
Trail(f, b, x, n, p, q) ==
  /\ \A d \in 1 .. n : /\ p[d] \in DOMAIN f /\ b <= p[d] /\ f[p[d]].page.serial = x
                       /\ q[d] \in DOMAIN f[p[d]].page.segs /\ f[p[d]].page.segs[q[d]].term
  /\ \A d, e \in 1 .. n : d < e => Earlier(p[d], q[d], p[e], q[e])
\* The headers but for those left were taken from pages before c.
Taken(f, b, x, c, left) ==
  \E n \in Nat : \E p, q :
    Trail(f, b, x, n, p, q) /\ (\A d \in 1 .. n : p[d] < c) /\ left + n = Count(f, b)
\* A state made ahead of its page waits for the first to open its serial.
Waits(f, x, left, h) ==
  \A b : Opens(f, b, x) =>
    /\ h < b
    /\ First(f, b, x) => /\ left = Count(f, b)
                         /\ \A m \in 1 .. b - 1 : Alive(f, m) /\ f[m].page.serial = x => f[m].page.bos
\* The BOS handling of pages up to h is done, and the body of those before c.
HeadsKept(f, s, x, c, h) ==
  /\ ~s.bos_processed => Waits(f, x, s.headers_remaining, h)
  /\ \A b : Current(f, b, x, h) => Taken(f, b, x, c, s.headers_remaining)

LEMMA OpensFacts ==
  ASSUME NEW f, FileOK(f), NEW b, NEW x, Opens(f, b, x)
  PROVE  b \in Nat /\ 1 <= b /\ Claims(f, b, x) /\ x \in Nat /\ x # NoSerial
<1>1. b \in DOMAIN f /\ f[b].page.serial = x /\ Claims(f, b, x)
  BY DEF Opens, Claims
<1>2. b \in Nat /\ 1 <= b /\ f[b].page \in Page
  BY <1>1, FileOKFacts
<1>3. x \in Nat
  BY <1>1, <1>2 DEF Page
<1>4. QED BY <1>1, <1>2, <1>3 DEF NoSerial

\* Pages that do not claim the serial leave its headers as they are.
LEMMA HeadsOn ==
  ASSUME NEW f, FileOK(f), NEW s, NEW x, NEW c \in Int, NEW h \in Int, HeadsKept(f, s, x, c, h),
         NEW s2, s2.headers_remaining = s.headers_remaining, s2.bos_processed = s.bos_processed,
         NEW c2 \in Int, NEW h2 \in Int, c <= c2, h <= h2, \A m \in h + 1 .. h2 : ~Claims(f, m, x)
  PROVE  HeadsKept(f, s2, x, c2, h2)
<1>1. ASSUME NEW b, Opens(f, b, x) PROVE b \in Int /\ (b <= h2 => b <= h)
  <2>1. b \in Nat /\ Claims(f, b, x)
    BY <1>1, OpensFacts
  <2>2. b \notin h + 1 .. h2
    BY <2>1
  <2>3. QED BY <2>1, <2>2
<1>2. ASSUME ~s2.bos_processed PROVE Waits(f, x, s2.headers_remaining, h2)
  <2>1. Waits(f, x, s.headers_remaining, h)
    BY <1>2 DEF HeadsKept
  <2>2. \A b : Opens(f, b, x) => h2 < b
    <3> SUFFICES ASSUME NEW b, Opens(f, b, x) PROVE h2 < b
      OBVIOUS
    <3>1. h < b
      BY <2>1 DEF Waits
    <3>2. QED BY <1>1, <3>1
  <2>3. QED BY <2>1, <2>2, Zenon DEF Waits
<1>3. ASSUME NEW b, Current(f, b, x, h2) PROVE Taken(f, b, x, c2, s2.headers_remaining)
  <2>1. Opens(f, b, x) /\ b <= h2 /\ \A m \in b + 1 .. h2 : ~Claims(f, m, x)
    BY <1>3 DEF Current
  <2>2. b \in Int /\ b <= h
    BY <1>1, <2>1
  <2>3. \A m \in b + 1 .. h : m \in b + 1 .. h2
    BY <2>2
  <2>4. Current(f, b, x, h)
    BY <2>1, <2>2, <2>3 DEF Current
  <2>5. Taken(f, b, x, c, s.headers_remaining)
    BY <2>4 DEF HeadsKept
  <2>6. PICK n \in Nat : \E p, q :
          Trail(f, b, x, n, p, q) /\ (\A d \in 1 .. n : p[d] < c) /\ s.headers_remaining + n = Count(f, b)
    BY <2>5 DEF Taken
  <2>7. PICK p, q :
          Trail(f, b, x, n, p, q) /\ (\A d \in 1 .. n : p[d] < c) /\ s.headers_remaining + n = Count(f, b)
    BY <2>6
  <2>8. \A d \in 1 .. n : p[d] < c2
    <3> SUFFICES ASSUME NEW d \in 1 .. n PROVE p[d] < c2
      OBVIOUS
    <3>1. p[d] \in DOMAIN f /\ p[d] < c
      BY <2>7 DEF Trail
    <3>2. p[d] \in Nat
      BY <3>1, FileOKFacts
    <3>3. QED BY <3>1, <3>2
  <2>9. QED BY <2>7, <2>8 DEF Taken
<1>4. QED BY <1>2, <1>3 DEF HeadsKept

\* A page that claims the serial: all its headers are still to come.
LEMMA HeadsBegun ==
  ASSUME NEW f, FileOK(f), NEW s, NEW x, NEW c \in Nat, Claims(f, c, x), s.bos_processed, s.headers_remaining \in Nat,
         Opens(f, c, x) => s.headers_remaining = Count(f, c)
  PROVE  HeadsKept(f, s, x, c, c)
<1>1. ASSUME NEW b, Current(f, b, x, c) PROVE Taken(f, b, x, c, s.headers_remaining)
  <2>1. Opens(f, b, x) /\ b <= c /\ (\A m \in b + 1 .. c : ~Claims(f, m, x)) /\ b \in Nat
    BY <1>1, OpensFacts DEF Current
  <2>2. b = c
    <3>1. c \notin b + 1 .. c
      BY <2>1
    <3>2. QED BY <2>1, <3>1
  <2>3. s.headers_remaining + 0 = Count(f, b)
    BY <2>1, <2>2
  <2>4. 0 \in Nat /\ 1 .. 0 = {}
    OBVIOUS
  <2>5. Trail(f, b, x, 0, <<>>, <<>>) /\ \A d \in 1 .. 0 : <<>>[d] < c
    BY <2>4 DEF Trail
  <2>6. QED BY <2>3, <2>4, <2>5, Zenon DEF Taken
<1>2. QED BY <1>1 DEF HeadsKept

\* Nothing has claimed the serial yet.
LEMMA HeadsAhead ==
  ASSUME NEW f, FileOK(f), NEW s, NEW x, NEW c \in Int, NEW h \in Int, Waits(f, x, s.headers_remaining, h)
  PROVE  HeadsKept(f, s, x, c, h)
<1>1. ASSUME NEW b, Current(f, b, x, h) PROVE FALSE
  <2>1. Opens(f, b, x) /\ b <= h
    BY <1>1 DEF Current
  <2>2. h < b /\ b \in Nat
    BY <2>1, OpensFacts DEF Waits
  <2>3. QED BY <2>1, <2>2
<1>2. QED BY <1>1 DEF HeadsKept

\* k segments of page c end packets, in order.
Ended(f, c, ms, k) ==
  /\ \A d \in 1 .. k : ms[d] \in DOMAIN f[c].page.segs /\ f[c].page.segs[ms[d]].term
  /\ \A d, e \in 1 .. k : d < e => ms[d] < ms[e]
\* The headers of the bitstream that page k belongs to come before segment i of it.
Backed(f, k, i) ==
  \A b : Current(f, b, f[k].page.serial, k) =>
    \E p, q : /\ Trail(f, b, f[k].page.serial, Count(f, b), p, q)
              /\ \A d \in 1 .. Count(f, b) : Earlier(p[d], q[d], k, i)

LEMMA TrailMore ==
  ASSUME NEW f, FileOK(f), NEW b, NEW x, NEW n \in Nat, NEW p, NEW q, Trail(f, b, x, n, p, q),
         NEW c \in DOMAIN f, b <= c, f[c].page.serial = x, \A d \in 1 .. n : p[d] < c,
         NEW k \in Nat, NEW ms, Ended(f, c, ms, k)
  PROVE  \E p2, q2 : /\ Trail(f, b, x, n + k, p2, q2)
                     /\ \A d \in 1 .. n + k : p2[d] < c \/ (p2[d] = c /\ \E e \in 1 .. k : q2[d] = ms[e])
<1> DEFINE p2 == [d \in 1 .. n + k |-> IF d <= n THEN p[d] ELSE c]
           q2 == [d \in 1 .. n + k |-> IF d <= n THEN q[d] ELSE ms[d - n]]
<1>1. \A d \in 1 .. n + k : d <= n => d \in 1 .. n /\ p2[d] = p[d] /\ q2[d] = q[d]
  OBVIOUS
<1>2. \A d \in 1 .. n + k : ~(d <= n) => d - n \in 1 .. k /\ p2[d] = c /\ q2[d] = ms[d - n]
  OBVIOUS
<1> HIDE DEF p2, q2
<1>3. ASSUME NEW d \in 1 .. n + k
      PROVE  /\ p2[d] \in DOMAIN f /\ b <= p2[d] /\ f[p2[d]].page.serial = x
             /\ q2[d] \in DOMAIN f[p2[d]].page.segs /\ f[p2[d]].page.segs[q2[d]].term
             /\ p2[d] < c \/ (p2[d] = c /\ \E e \in 1 .. k : q2[d] = ms[e])
  <2>1. CASE d <= n
    <3>1. d \in 1 .. n /\ p2[d] = p[d] /\ q2[d] = q[d]
      BY <1>1, <2>1
    <3>2. /\ p[d] \in DOMAIN f /\ b <= p[d] /\ f[p[d]].page.serial = x
          /\ q[d] \in DOMAIN f[p[d]].page.segs /\ f[p[d]].page.segs[q[d]].term
      BY <3>1 DEF Trail
    <3>3. QED BY <3>1, <3>2
  <2>2. CASE ~(d <= n)
    <3>1. d - n \in 1 .. k /\ p2[d] = c /\ q2[d] = ms[d - n]
      BY <1>2, <2>2
    <3>2. ms[d - n] \in DOMAIN f[c].page.segs /\ f[c].page.segs[ms[d - n]].term
      BY <3>1 DEF Ended
    <3>3. QED BY <3>1, <3>2
  <2>3. QED BY <2>1, <2>2
<1>4. ASSUME NEW d \in 1 .. n + k, NEW e \in 1 .. n + k, d < e PROVE Earlier(p2[d], q2[d], p2[e], q2[e])
  <2>1. CASE e <= n
    <3>1. d <= n
      BY <1>4, <2>1
    <3>2. QED BY <1>1, <1>4, <2>1, <3>1 DEF Trail
  <2>2. CASE ~(e <= n) /\ d <= n
    <3>1. p2[d] < c /\ p2[e] = c
      BY <1>1, <1>2, <2>2
    <3>2. QED BY <3>1 DEF Earlier
  <2>3. CASE ~(e <= n) /\ ~(d <= n)
    <3>1. /\ d - n \in 1 .. k /\ p2[d] = c /\ q2[d] = ms[d - n]
          /\ e - n \in 1 .. k /\ p2[e] = c /\ q2[e] = ms[e - n]
      BY <1>2, <2>3
    <3>2. d - n < e - n
      BY <1>4
    <3>3. ms[d - n] < ms[e - n]
      BY <3>1, <3>2 DEF Ended
    <3>4. QED BY <3>1, <3>3 DEF Earlier
  <2>4. QED BY <2>1, <2>2, <2>3
<1>5. Trail(f, b, x, n + k, p2, q2)
  BY <1>3, <1>4 DEF Trail
<1>6. QED BY <1>3, <1>5

\* The first packets a page ends are taken, no more than are left.
LEMMA HeadsTaken ==
  ASSUME NEW f, FileOK(f), NEW s, NEW x, NEW c \in DOMAIN f, Alive(f, c), f[c].page.serial = x,
         HeadsKept(f, s, x, c, c), f[c].page.bos => s.bos_processed, s.headers_remaining \in Nat,
         NEW k \in Nat, NEW ms, Ended(f, c, ms, k),
         NEW s2, s2.headers_remaining = s.headers_remaining - k, s2.bos_processed = s.bos_processed
  PROVE  HeadsKept(f, s2, x, c + 1, c)
<1>1. c \in Nat /\ 1 <= c
  BY FileOKFacts
<1>2. ASSUME ~s2.bos_processed PROVE Waits(f, x, s2.headers_remaining, c)
  <2>1. Waits(f, x, s.headers_remaining, c) /\ ~f[c].page.bos
    BY <1>2 DEF HeadsKept
  <2>2. ASSUME NEW b, First(f, b, x) PROVE FALSE
    <3>1. Opens(f, b, x)
      BY <2>2 DEF First
    <3>2. c < b /\ \A m \in 1 .. b - 1 : Alive(f, m) /\ f[m].page.serial = x => f[m].page.bos
      BY <2>1, <2>2, <3>1 DEF Waits
    <3>3. b \in Nat
      BY <3>1, OpensFacts
    <3>4. c \in 1 .. b - 1
      BY <1>1, <3>2, <3>3
    <3>5. QED BY <2>1, <3>2, <3>4
  <2>3. QED BY <2>1, <2>2 DEF Waits
<1>3. ASSUME NEW b, Current(f, b, x, c) PROVE Taken(f, b, x, c + 1, s2.headers_remaining)
  <2>1. Taken(f, b, x, c, s.headers_remaining) /\ b <= c
    BY <1>3 DEF HeadsKept, Current
  <2>2. PICK n \in Nat : \E p, q :
          Trail(f, b, x, n, p, q) /\ (\A d \in 1 .. n : p[d] < c) /\ s.headers_remaining + n = Count(f, b)
    BY <2>1 DEF Taken
  <2>3. PICK p, q :
          Trail(f, b, x, n, p, q) /\ (\A d \in 1 .. n : p[d] < c) /\ s.headers_remaining + n = Count(f, b)
    BY <2>2
  <2>4. PICK p2, q2 : /\ Trail(f, b, x, n + k, p2, q2)
                      /\ \A d \in 1 .. n + k : p2[d] < c \/ p2[d] = c
    <3>1. \E p2, q2 : /\ Trail(f, b, x, n + k, p2, q2)
                      /\ \A d \in 1 .. n + k : p2[d] < c \/ (p2[d] = c /\ \E e \in 1 .. k : q2[d] = ms[e])
      BY <2>1, <2>3, TrailMore
    <3>2. QED BY <3>1
  <2>5. \A d \in 1 .. n + k : p2[d] < c + 1
    <3> SUFFICES ASSUME NEW d \in 1 .. n + k PROVE p2[d] < c + 1
      OBVIOUS
    <3>1. p2[d] \in DOMAIN f /\ (p2[d] < c \/ p2[d] = c)
      BY <2>4 DEF Trail
    <3>2. p2[d] \in Nat
      BY <3>1, FileOKFacts
    <3>3. QED BY <1>1, <3>1, <3>2
  <2>6. n + k \in Nat /\ s2.headers_remaining + (n + k) = Count(f, b)
    BY <2>3
  <2>7. QED BY <2>4, <2>5, <2>6, Zenon DEF Taken
<1>4. QED BY <1>2, <1>3 DEF HeadsKept

\* Once none is left, what comes is not a header.
LEMMA HeadsBehind ==
  ASSUME NEW f, FileOK(f), NEW s, NEW c \in DOMAIN f, HeadsKept(f, s, f[c].page.serial, c, c),
         NEW k \in Nat, k = s.headers_remaining, NEW ms, Ended(f, c, ms, k),
         NEW i, \A e \in 1 .. k : ms[e] < i
  PROVE  Backed(f, c, i)
<1> DEFINE x == f[c].page.serial
<1>1. ASSUME NEW b, Current(f, b, x, c)
      PROVE  \E p, q : /\ Trail(f, b, x, Count(f, b), p, q)
                       /\ \A d \in 1 .. Count(f, b) : Earlier(p[d], q[d], c, i)
  <2>1. Taken(f, b, x, c, s.headers_remaining) /\ b <= c
    BY <1>1 DEF HeadsKept, Current
  <2>2. PICK n \in Nat : \E p, q :
          Trail(f, b, x, n, p, q) /\ (\A d \in 1 .. n : p[d] < c) /\ s.headers_remaining + n = Count(f, b)
    BY <2>1 DEF Taken
  <2>3. PICK p, q :
          Trail(f, b, x, n, p, q) /\ (\A d \in 1 .. n : p[d] < c) /\ s.headers_remaining + n = Count(f, b)
    BY <2>2
  <2>4. PICK p2, q2 : /\ Trail(f, b, x, n + k, p2, q2)
                      /\ \A d \in 1 .. n + k : p2[d] < c \/ (p2[d] = c /\ \E e \in 1 .. k : q2[d] = ms[e])
    BY <2>1, <2>3, TrailMore
  <2>5. n + k = Count(f, b)
    BY <2>3
  <2>6. \A d \in 1 .. n + k : Earlier(p2[d], q2[d], c, i)
    BY <2>4 DEF Earlier
  <2>7. QED BY <2>4, <2>5, <2>6
<1>2. QED BY <1>1 DEF Backed

-----------------------------------------------------------------------------
(* The headers, action by action: pages read and taken.                    *)

\* The page process_page is at counts once its BOS handling is done.
Handled(c) == IF at = "body" THEN c ELSE c - 1
Owned(x)   == x \in DOMAIN state_by_serial \/ x = skeleton.serial
StatesHeads(c) ==
  \A x \in DOMAIN state_by_serial : HeadsKept(file, state_by_serial[x], x, c, Handled(c))
Met(c) ==
  /\ phase \in {"bos", "idle"} => at = "none"
  /\ phase = "bos" => \A m \in 1 .. pos - 1 : Alive(file, m) => file[m].page.bos
  /\ \A b, x : Opens(file, b, x) /\ (b <= Handled(c) \/ (phase = "bos" /\ b < pos)) => Owned(x)
  /\ at = "body" /\ InHand.bos /\ InHand.serial \in DOMAIN state_by_serial =>
       state_by_serial[InHand.serial].bos_processed
OutHeads == \A d \in DOMAIN Out : \E k, i : Emitted(file, Out[d].packet, k, i) /\ Backed(file, k, i)
HeadsAt(c) == StatesHeads(c) /\ Met(c) /\ OutHeads

\* Serials stay taken.
Lasting ==
  /\ \A t \in DOMAIN state_by_serial : t \in DOMAIN state_by_serial'
  /\ skeleton.serial # NoSerial => skeleton'.serial = skeleton.serial

LEMMA OwnedLasts ==
  ASSUME Lasting, NEW x, Owned(x), x # NoSerial
  PROVE  Owned(x)'
BY DEF Lasting, Owned

LEMMA OutSame ==
  ASSUME OutHeads, file' = file, Out' = Out
  PROVE  OutHeads'
BY DEF OutHeads

LEMMA CursorNat ==
  ASSUME NEW c, FlowAt(c)
  PROVE  c \in Nat /\ 1 <= c /\ c <= pos
BY CursorFacts DEF FlowAt

\* Steps that leave states, serials and the page at hand alone.
LEMMA StillHeads ==
  ASSUME TypeInv, FileOK(file), NEW c, FlowAt(c), HeadsAt(c), Out' = Out,
         UNCHANGED <<file, at, hand, state_by_serial, skeleton>>,
         phase' # "bos" \/ (phase' = phase /\ pos' = pos), phase' = "idle" => at = "none"
  PROVE  HeadsAt(c)'
<1>1. StatesHeads(c)'
  BY DEF HeadsAt, StatesHeads, Handled
<1>2. OutHeads'
  BY OutSame DEF HeadsAt
<1>3. Met(c)'
  <2>1. Handled(c)' = Handled(c) /\ \A x : Owned(x)' <=> Owned(x)
    BY DEF Handled, Owned
  <2>2. InHand' = InHand
    BY DEF InHand
  <2>3. Met(c)
    BY DEF HeadsAt
  <2>4. phase' \in {"bos", "idle"} => at' = "none"
    BY <2>3 DEF Met
  <2>5. phase' = "bos" => \A m \in 1 .. pos' - 1 : Alive(file', m) => file'[m].page.bos
    BY <2>3 DEF Met
  <2>6. \A b, x : Opens(file', b, x) /\ (b <= Handled(c)' \/ (phase' = "bos" /\ b < pos')) => Owned(x)'
    BY <2>1, <2>3 DEF Met
  <2>7. at' = "body" /\ InHand'.bos /\ InHand'.serial \in DOMAIN state_by_serial' =>
          state_by_serial'[InHand'.serial].bos_processed
    BY <2>2, <2>3 DEF Met
  <2>8. QED BY <2>4, <2>5, <2>6, <2>7 DEF Met
<1>4. QED BY <1>1, <1>2, <1>3 DEF HeadsAt

LEMMA QuietHeads ==
  ASSUME TypeInv, FileOK(file), NEW c, FlowAt(c), HeadsAt(c),
         OpenDone \/ OpenEof \/ BosEof \/ NextPacket \/ Deliver \/ EndOfFile
  PROVE  HeadsAt(c)'
<1>1. /\ UNCHANGED <<file, at, hand, state_by_serial, skeleton>>
      /\ phase' # "bos" /\ (phase' = "idle" => hand = <<>>)
  <2>1. LeaveBos \in {"failed", "headers"}
    BY DEF LeaveBos
  <2>2. CASE OpenDone
    BY <2>2 DEF OpenDone, reader
  <2>3. CASE OpenEof
    BY <2>3 DEF OpenEof, ReadNone
  <2>4. CASE BosEof
    BY <2>1, <2>4 DEF BosEof, ReadNone, registry
  <2>5. CASE NextPacket
    BY <2>5 DEF NextPacket, reader, registry
  <2>6. CASE Deliver
    BY <2>6 DEF Deliver, reader, registry
  <2>7. CASE EndOfFile
    BY <2>7 DEF EndOfFile, ReadNone, registry
  <2>8. QED BY <2>2, <2>3, <2>4, <2>5, <2>6, <2>7
<1>2. Out' = Out
  <2>1. CASE Deliver
    BY <2>1, DeliverOut
  <2>2. CASE ~Deliver
    <3>1. UNCHANGED <<out_queue, delivered>>
      BY <2>2 DEF OpenDone, OpenEof, BosEof, NextPacket, EndOfFile
    <3>2. QED BY <3>1 DEF Out
  <2>3. QED BY <2>1, <2>2
<1>3. phase' = "idle" => at = "none"
  BY <1>1 DEF TypeInv, ControlInv
<1>4. QED BY <1>1, <1>2, <1>3, StillHeads

\* Pages passed over did not survive.
LEMMA TakePageHeads ==
  ASSUME TypeInv, FileOK(file), NEW c, FlowAt(c), HeadsAt(c), TakePage,
         NEW d \in Nat, c <= d, \A m \in c .. d - 1 : ~Alive(file, m)
  PROVE  HeadsAt(d)'
<1>1. /\ at' = "bos" /\ hand = <<>> /\ UNCHANGED <<file, phase, state_by_serial, skeleton, out_queue, delivered>>
      /\ phase \notin {"bos", "idle"}
  BY DEF TakePage, TakeQueued, TakeRead, ReadPage, Collecting, Draining, reader, registry
<1>2. at = "none" /\ c \in Nat
  BY <1>1, CursorNat DEF TypeInv, ControlInv
<1>3. Handled(c) = c - 1 /\ Handled(d)' = d - 1
  BY <1>1, <1>2 DEF Handled
<1>4. \A m \in (c - 1) + 1 .. d - 1 : ~Alive(file, m)
  BY <1>2
<1>5. StatesHeads(d)'
  <2> SUFFICES ASSUME NEW x \in DOMAIN state_by_serial PROVE HeadsKept(file, state_by_serial[x], x, d, d - 1)
    BY <1>1, <1>3 DEF StatesHeads
  <2>1. HeadsKept(file, state_by_serial[x], x, c, c - 1)
    BY <1>3 DEF HeadsAt, StatesHeads
  <2> DEFINE h == c - 1
             h2 == d - 1
  <2>2. c \in Int /\ h \in Int /\ d \in Int /\ h2 \in Int /\ h <= h2
    BY <1>2
  <2>3. \A m \in h + 1 .. h2 : ~Claims(file, m, x)
    BY <1>4 DEF Claims
  <2> HIDE DEF h, h2
  <2>4. HeadsKept(file, state_by_serial[x], x, d, h2)
    BY <2>1, <2>2, <2>3, HeadsOn DEF h
  <2>5. QED BY <2>4 DEF h2
<1>6. OutHeads'
  <2>1. Out' = Out
    BY <1>1 DEF Out
  <2>2. QED BY <1>1, <2>1, OutSame DEF HeadsAt
<1>7. Met(d)'
  <2>1. ASSUME NEW b, NEW x, Opens(file, b, x), b <= d - 1 PROVE Owned(x)'
    <3>1. b \in Nat /\ Alive(file, b)
      BY <2>1, OpensFacts DEF Opens
    <3>2. b \notin (c - 1) + 1 .. d - 1
      BY <1>4, <3>1
    <3>3. b <= c - 1
      BY <1>2, <2>1, <3>1, <3>2
    <3>4. Owned(x)
      BY <1>3, <2>1, <3>3 DEF HeadsAt, Met
    <3>5. QED BY <1>1, <3>4 DEF Owned
  <2>2. \A b, x : Opens(file', b, x) /\ (b <= Handled(d)' \/ (phase' = "bos" /\ b < pos')) => Owned(x)'
    BY <1>1, <1>3, <2>1
  <2>3. QED BY <1>1, <2>2 DEF Met
<1>8. QED BY <1>5, <1>6, <1>7 DEF HeadsAt

-----------------------------------------------------------------------------
(* The headers, action by action: bitstreams registered.                   *)

\* A state made when a bitstream is registered: all its headers are to come.
Ahead(s, page) ==
  ~IsFishead(page) /\ s.headers_remaining = Need[page.segs[1].src] /\ ~s.bos_processed
\* What the registering of a page adds.
Opened(states, skel, page, states2, skel2) ==
  /\ \A t \in DOMAIN states : t \in DOMAIN states2 /\ states2[t] = states[t]
  /\ \A t \in DOMAIN states2 : t \notin DOMAIN states => t = page.serial /\ Ahead(states2[t], page)
  /\ skel.serial # NoSerial => skel2.serial = skel.serial
  /\ ~IsFishead(page) => page.serial \in DOMAIN states2 \/ page.serial = skel2.serial

LEMMA RegisteredOpened ==
  ASSUME NEW strs, NEW states, NEW skel, NEW page, NEW link,
         NEW r, r = RegisterStream(AsRegistry(strs, states, skel), page, link)
  PROVE  Opened(states, skel, page, r.state_by_serial, r.skeleton) \/ page.serial \in DOMAIN states
<1> SUFFICES ASSUME page.serial \notin DOMAIN states
             PROVE  Opened(states, skel, page, r.state_by_serial, r.skeleton)
  OBVIOUS
<1>1. CASE IsFishead(page)
  <2>1. /\ r.state_by_serial = states
        /\ skel.serial # NoSerial => r.skeleton.serial = skel.serial
    <3>1. CASE skel.serial = page.serial
      <4> DEFINE skel2 == [skel EXCEPT !.last_seq = page.seq]
      <4>1. r = AsRegistry(strs, states, skel2)
        BY <1>1, <3>1 DEF RegisterStream, AsRegistry
      <4>2. r.state_by_serial = states /\ r.skeleton = skel2
        BY <4>1 DEF AsRegistry
      <4>3. skel2.serial = skel.serial
        OBVIOUS
      <4>4. QED BY <4>2, <4>3
    <3>2. CASE skel.serial # page.serial /\ skel.serial # NoSerial
      BY <1>1, <3>2 DEF RegisterStream, AsRegistry
    <3>3. CASE skel.serial # page.serial /\ skel.serial = NoSerial
      <4> DEFINE skel2 == [skel EXCEPT !.serial = page.serial, !.last_seq = page.seq]
      <4>1. r = AsRegistry(strs, states, skel2)
        BY <1>1, <3>3 DEF RegisterStream, AsRegistry
      <4>2. QED BY <3>3, <4>1 DEF AsRegistry
    <3>4. QED BY <3>1, <3>2, <3>3
  <2>2. QED BY <1>1, <2>1 DEF Opened
<1>2. CASE ~IsFishead(page) /\ skel.serial = page.serial
  <2>1. r = AsRegistry(strs, states, skel)
    BY <1>2 DEF RegisterStream, AsRegistry
  <2>2. r.state_by_serial = states /\ r.skeleton = skel
    BY <2>1 DEF AsRegistry
  <2>3. QED BY <1>2, <2>2 DEF Opened
<1>3. CASE ~IsFishead(page) /\ skel.serial # page.serial
  <2> DEFINE new == NewStream(page, Len(strs) + 1, link)
             states2 == [t \in DOMAIN states \cup {page.serial} |-> IF t = page.serial THEN new ELSE states[t]]
  <2>1. r.state_by_serial = states2 /\ r.skeleton = skel
    BY <1>3 DEF RegisterStream, AsRegistry
  <2>2. new.headers_remaining = Need[page.segs[1].src] /\ new.bos_processed = FALSE
    BY DEF NewStream
  <2> HIDE DEF new
  <2>3. \A t \in DOMAIN states : t \in DOMAIN states2 /\ states2[t] = states[t]
    OBVIOUS
  <2>4. \A t \in DOMAIN states2 : t \notin DOMAIN states => t = page.serial /\ states2[t] = new
    OBVIOUS
  <2>5. page.serial \in DOMAIN states2
    OBVIOUS
  <2> HIDE DEF states2
  <2>6. Opened(states, skel, page, states2, skel)
    BY <1>3, <2>2, <2>3, <2>4, <2>5 DEF Opened, Ahead
  <2>7. QED BY <2>1, <2>6
<1>4. QED BY <1>1, <1>2, <1>3

\* BOS pages read ahead of their handling.
LEMMA BosPageHeads ==
  ASSUME TypeInv, FileOK(file), NEW c, FlowAt(c), HeadsAt(c), BosPage
  PROVE  HeadsAt(c)'
<1> DEFINE page == file[Landing].page
<1>1. /\ phase = "bos" /\ ReadPage /\ file' = file /\ pos' = Landing + 1 /\ phase' \in {"bos", "failed", "headers"}
      /\ UNCHANGED <<hand, at, out_queue, delivered>>
      /\ phase' = "bos" => NextRead.bos
  BY DEF BosPage, ReadPage, LeaveBos
<1>2. /\ Landing \in pos .. Len(file) /\ Landing \in DOMAIN file /\ Alive(file, Landing)
      /\ NextRead = page /\ page \in Page
      /\ \A k \in pos .. Landing - 1 : ~Alive(file, k)
  BY <1>1, LandingFacts DEF TypeInv, ReadPage, Survives
<1>3. at = "none" /\ Handled(c) = c - 1 /\ Handled(c)' = c - 1
  <2>1. at = "none"
    BY <1>1 DEF HeadsAt, Met
  <2>2. QED BY <1>1, <2>1 DEF Handled
<1>4. c \in Nat /\ pos \in Nat /\ c <= pos /\ Landing \in Nat /\ pos <= Landing
  BY <1>2, CursorNat, FileFacts DEF TypeInv
<1>5. /\ \A t \in DOMAIN state_by_serial : t \in DOMAIN state_by_serial' /\ state_by_serial'[t] = state_by_serial[t]
      /\ skeleton.serial # NoSerial => skeleton'.serial = skeleton.serial
      /\ \A t \in DOMAIN state_by_serial' : t \notin DOMAIN state_by_serial =>
           t = page.serial /\ page.bos /\ Ahead(state_by_serial'[t], page)
      /\ page.bos /\ ~IsFishead(page) => page.serial \in DOMAIN state_by_serial' \/ page.serial = skeleton'.serial
  <2>1. CASE NextRead.bos /\ NextRead.serial \notin DOMAIN state_by_serial
    <3> DEFINE r == RegisterStream(Registry, page, next_link_index)
    <3>1. Becomes(r)
      BY <1>2, <2>1 DEF BosPage
    <3>2. r = RegisterStream(AsRegistry(streams, state_by_serial, skeleton), page, next_link_index)
      BY DEF Registry, AsRegistry
    <3> HIDE DEF r
    <3>3. Opened(state_by_serial, skeleton, page, r.state_by_serial, r.skeleton)
      BY <1>2, <2>1, <3>2, RegisteredOpened
    <3>4. Opened(state_by_serial, skeleton, page, state_by_serial', skeleton')
      BY <3>1, <3>3 DEF Becomes
    <3>5. QED BY <1>2, <2>1, <3>4 DEF Opened
  <2>2. CASE ~(NextRead.bos /\ NextRead.serial \notin DOMAIN state_by_serial)
    <3>1. UNCHANGED <<state_by_serial, skeleton>>
      BY <2>2 DEF BosPage, registry
    <3>2. QED BY <1>2, <2>2, <3>1
  <2>3. QED BY <2>1, <2>2
<1>6. Lasting
  BY <1>5 DEF Lasting
<1>7. ASSUME NEW b, NEW x, Opens(file, b, x), b < Landing + 1
      PROVE  Owned(x)'
  <2>1. b \in Nat /\ Alive(file, b) /\ x # NoSerial
    BY <1>7, OpensFacts DEF Opens
  <2>2. b < pos \/ b = Landing
    <3>1. b \notin pos .. Landing - 1
      BY <1>2, <2>1
    <3>2. QED BY <1>4, <1>7, <2>1, <3>1
  <2>3. CASE b < pos
    BY <1>1, <1>6, <1>7, <2>1, <2>3, OwnedLasts DEF HeadsAt, Met
  <2>4. CASE b = Landing
    BY <1>5, <1>7, <2>4 DEF Opens, Owned
  <2>5. QED BY <2>2, <2>3, <2>4
<1> DEFINE h == c - 1
<1>8. ASSUME NEW x \in DOMAIN state_by_serial' PROVE HeadsKept(file, state_by_serial'[x], x, c, h)
  <2>1. CASE x \in DOMAIN state_by_serial
    BY <1>3, <1>5, <2>1 DEF HeadsAt, StatesHeads
  <2>2. CASE x \notin DOMAIN state_by_serial
    <3> DEFINE s == state_by_serial'[x]
    <3>1. x = page.serial /\ page.bos /\ Ahead(s, page)
      BY <1>5, <2>2
    <3>2. x # skeleton.serial /\ x # NoSerial
      <4>1. RegistryInv'
        BY BosPageTypes DEF TypeInv
      <4>2. x # skeleton'.serial
        BY <4>1 DEF RegistryInv, RegistryOK
      <4>3. x \in Nat
        BY <1>2, <3>1, PageFacts
      <4>4. x # NoSerial
        BY <4>3 DEF NoSerial
      <4>5. QED BY <1>5, <4>2, <4>4
    <3>3. ASSUME NEW b, Opens(file, b, x) PROVE b \in Nat /\ Landing <= b
      <4>1. b \in Nat
        BY <3>3, OpensFacts
      <4>2. ~(b < pos)
        BY <1>1, <2>2, <3>2, <3>3 DEF HeadsAt, Met, Owned
      <4>3. b \notin pos .. Landing - 1
        BY <1>2, <3>3 DEF Opens
      <4>4. QED BY <1>4, <4>1, <4>2, <4>3
    <3>4. Opens(file, Landing, x)
      BY <1>2, <3>1 DEF Opens, Ahead
    <3>5. ASSUME NEW b, First(file, b, x) PROVE b = Landing
      <4>1. Opens(file, b, x) /\ b \in Nat /\ Landing <= b /\ 1 <= Landing
        BY <1>2, <3>3, <3>5, OpensFacts, <3>4 DEF First
      <4>2. Landing \notin 1 .. b - 1
        BY <3>4, <3>5 DEF First
      <4>3. QED BY <1>4, <4>1, <4>2
    <3>6. ASSUME NEW m \in 1 .. Landing - 1, Alive(file, m) PROVE file[m].page.bos
      <4>1. m \notin pos .. Landing - 1
        BY <1>2, <3>6
      <4>2. m \in 1 .. pos - 1
        BY <1>4, <4>1
      <4>3. QED BY <1>1, <3>6, <4>2 DEF HeadsAt, Met
    <3>7. Waits(file, x, s.headers_remaining, h)
      <4>1. \A b : Opens(file, b, x) => h < b
        BY <1>4, <3>3
      <4>2. \A b : First(file, b, x) => s.headers_remaining = Count(file, b)
        BY <3>1, <3>5 DEF Ahead, Count
      <4>3. \A b : First(file, b, x) => \A m \in 1 .. b - 1 : Alive(file, m) => file[m].page.bos
        BY <3>5, <3>6
      <4>4. QED BY <4>1, <4>2, <4>3, Zenon DEF Waits
    <3>8. c \in Int /\ h \in Int
      BY <1>4
    <3> HIDE DEF h, s
    <3>9. HeadsKept(file, s, x, c, h)
      BY <3>7, <3>8, HeadsAhead
    <3>10. QED BY <3>9 DEF s
  <2>3. QED BY <2>1, <2>2
<1>9. StatesHeads(c)'
  BY <1>1, <1>3, <1>8 DEF StatesHeads
<1>10. OutHeads'
  <2>1. Out' = Out
    BY <1>1 DEF Out
  <2>2. QED BY <1>1, <2>1, OutSame DEF HeadsAt
<1>11. Met(c)'
  <2>1. ASSUME phase' = "bos", NEW m \in 1 .. Landing, Alive(file, m) PROVE file[m].page.bos
    <3>1. CASE m = Landing
      BY <1>1, <1>2, <2>1, <3>1
    <3>2. CASE m # Landing
      <4>1. m \notin pos .. Landing - 1
        BY <1>2, <2>1
      <4>2. m \in 1 .. pos - 1
        BY <1>4, <3>2, <4>1
      <4>3. QED BY <1>1, <2>1, <4>2 DEF HeadsAt, Met
    <3>3. QED BY <3>1, <3>2
  <2>2. phase' = "bos" => \A m \in 1 .. pos' - 1 : Alive(file', m) => file'[m].page.bos
    <3>1. pos' - 1 = Landing
      BY <1>1, <1>4
    <3>2. QED BY <1>1, <2>1, <3>1
  <2>3. \A b, x : Opens(file', b, x) /\ (b <= Handled(c)' \/ (phase' = "bos" /\ b < pos')) => Owned(x)'
    <3> SUFFICES ASSUME NEW b, NEW x, Opens(file, b, x), b <= c - 1 \/ b < Landing + 1 PROVE Owned(x)'
      BY <1>1, <1>3
    <3>1. b \in Nat
      BY OpensFacts
    <3>2. b < Landing + 1
      BY <1>4, <3>1
    <3>3. QED BY <1>7, <3>2
  <2>4. phase' # "idle" /\ at' = "none"
    BY <1>1, <1>3
  <2>5. QED BY <2>2, <2>3, <2>4 DEF Met
<1>12. QED BY <1>9, <1>10, <1>11 DEF HeadsAt

\* BOS handling: the states of serials the page does not claim stay as they are.
LEMMA BosStepHeads ==
  ASSUME TypeInv, FileOK(file), NEW c, FlowAt(c), HeadsAt(c), hand # <<>>, at = "bos", at' = "body",
         UNCHANGED <<file, pos, hand, phase, out_queue, delivered>>, Lasting,
         \A x \in DOMAIN state_by_serial' :
           LET s2 == state_by_serial'[x]
           IN IF InHand.bos /\ x = InHand.serial
              THEN /\ s2.bos_processed /\ s2.headers_remaining \in Nat
                   /\ ~IsFishead(InHand) => s2.headers_remaining = Need[InHand.segs[1].src]
              ELSE /\ x \in DOMAIN state_by_serial
                   /\ s2.headers_remaining = state_by_serial[x].headers_remaining
                   /\ s2.bos_processed = state_by_serial[x].bos_processed,
         InHand.bos /\ ~IsFishead(InHand) =>
           InHand.serial \in DOMAIN state_by_serial' \/ InHand.serial = skeleton'.serial
  PROVE  HeadsAt(c)'
<1>1. c \in DOMAIN file /\ c \in Nat /\ Alive(file, c) /\ InHand = file[c].page /\ InHand' = InHand
  BY AtPage DEF InHand
<1>2. Handled(c) = c - 1 /\ Handled(c)' = c /\ phase \notin {"bos", "idle"}
  BY DEF Handled, HeadsAt, Met
<1> DEFINE h == c - 1
<1>3. c \in Int /\ h \in Int /\ c <= c /\ h <= c /\ h + 1 .. c = {c}
  BY <1>1
<1>4. ASSUME NEW x \in DOMAIN state_by_serial' PROVE HeadsKept(file, state_by_serial'[x], x, c, c)
  <2> DEFINE s2 == state_by_serial'[x]
             s == state_by_serial[x]
  <2>1. CASE InHand.bos /\ x = InHand.serial
    <3>1. Claims(file, c, x)
      BY <1>1, <2>1 DEF Claims
    <3>2. s2.bos_processed /\ s2.headers_remaining \in Nat
      BY <2>1
    <3>3. Opens(file, c, x) => s2.headers_remaining = Count(file, c)
      BY <1>1, <2>1 DEF Opens, Count
    <3> HIDE DEF s2
    <3>4. HeadsKept(file, s2, x, c, c)
      BY <1>1, <3>1, <3>2, <3>3, HeadsBegun
    <3>5. QED BY <3>4 DEF s2
  <2>2. CASE ~(InHand.bos /\ x = InHand.serial)
    <3>1. /\ x \in DOMAIN state_by_serial
          /\ s2.headers_remaining = s.headers_remaining /\ s2.bos_processed = s.bos_processed
      BY <2>2
    <3>2. HeadsKept(file, s, x, c, h)
      BY <1>2, <3>1 DEF HeadsAt, StatesHeads
    <3>3. \A m \in h + 1 .. c : ~Claims(file, m, x)
      BY <1>1, <1>3, <2>2 DEF Claims
    <3> HIDE DEF s, s2, h
    <3>4. HeadsKept(file, s2, x, c, c)
      BY <1>3, <3>1, <3>2, <3>3, HeadsOn
    <3>5. QED BY <3>4 DEF s2
  <2>3. QED BY <2>1, <2>2
<1>5. StatesHeads(c)'
  BY <1>2, <1>4 DEF StatesHeads
<1>6. OutHeads'
  <2>1. Out' = Out
    BY DEF Out
  <2>2. QED BY <2>1, OutSame DEF HeadsAt
<1>7. Met(c)'
  <2>1. ASSUME NEW b, NEW x, Opens(file, b, x), b <= c PROVE Owned(x)'
    <3>1. b \in Nat /\ x # NoSerial
      BY <2>1, OpensFacts
    <3>2. CASE b = c
      BY <1>1, <2>1, <3>2 DEF Opens, Owned
    <3>3. CASE b # c
      <4>1. b <= c - 1
        BY <1>1, <2>1, <3>1, <3>3
      <4>2. Owned(x)
        BY <1>2, <2>1, <4>1 DEF HeadsAt, Met
      <4>3. QED BY <3>1, <4>2, OwnedLasts
    <3>4. QED BY <3>2, <3>3
  <2>2. \A b, x : Opens(file', b, x) /\ (b <= Handled(c)' \/ (phase' = "bos" /\ b < pos')) => Owned(x)'
    BY <1>2, <2>1
  <2>3. InHand'.bos /\ InHand'.serial \in DOMAIN state_by_serial' =>
          state_by_serial'[InHand'.serial].bos_processed
    BY <1>1
  <2>4. QED BY <1>2, <2>2, <2>3 DEF Met
<1>8. QED BY <1>5, <1>6, <1>7 DEF HeadsAt

LEMMA NeedNat ==
  ASSUME TypeInv, hand # <<>>, InHand.bos
  PROVE  InHand \in Page /\ InHand.segs # <<>> /\ InHand.serial \in Nat /\ Need[InHand.segs[1].src] \in Nat
<1>1. InHand \in Page /\ InHand.segs # <<>>
  BY HandFacts
<1>2. InHand.segs[1].src \in Sources /\ InHand.serial \in Nat
  BY <1>1, PageFacts
<1>3. QED BY <1>1, <1>2, DemuxAssumption

LEMMA PlainPageHeads ==
  ASSUME TypeInv, FileOK(file), NEW c, FlowAt(c), HeadsAt(c), PlainPage
  PROVE  HeadsAt(c)'
<1>1. /\ hand # <<>> /\ at = "bos" /\ at' = "body" /\ ~InHand.bos
      /\ UNCHANGED <<file, pos, hand, phase, out_queue, delivered, state_by_serial, skeleton>>
  BY DEF PlainPage, AtBos, Rest, reader, registry
<1>2. Lasting
  BY <1>1 DEF Lasting
<1>3. QED BY <1>1, <1>2, BosStepHeads

LEMMA NewBosHeads ==
  ASSUME TypeInv, FileOK(file), NEW c, FlowAt(c), HeadsAt(c), NewBos
  PROVE  HeadsAt(c)'
<1> DEFINE r == RegisterStream(Registry, InHand, LinkAfter)
           q == Processed(r, InHand.serial)
           serial == InHand.serial
<1>1. /\ InHand.bos /\ InHand.serial \notin DOMAIN state_by_serial /\ Becomes(q)
      /\ hand # <<>> /\ at = "bos" /\ at' = "body"
      /\ UNCHANGED <<file, pos, hand, phase, out_queue, delivered>>
  BY DEF NewBos, Known, Rest, reader, AtBos
<1>2. /\ InHand \in Page /\ InHand.segs # <<>> /\ InHand.serial \in Nat /\ Need[InHand.segs[1].src] \in Nat
      /\ LinkAfter \in Nat
  BY <1>1, NeedNat, LinkFacts
<1>3. /\ r = AsRegistry(r.streams, r.state_by_serial, r.skeleton)
      /\ RegistryOK(r.streams, r.state_by_serial, r.skeleton)
  BY <1>1, <1>2, RegisteringTypes
<1>4. Opened(state_by_serial, skeleton, InHand, r.state_by_serial, r.skeleton)
  <2>1. r = RegisterStream(AsRegistry(streams, state_by_serial, skeleton), InHand, LinkAfter)
    BY DEF Registry, AsRegistry
  <2> HIDE DEF r
  <2>2. QED BY <1>1, <2>1, RegisteredOpened
<1> HIDE DEF r
<1> DEFINE states == r.state_by_serial
<1>5. /\ q.skeleton = r.skeleton /\ DOMAIN q.state_by_serial = DOMAIN states
      /\ \A t \in DOMAIN states : t # serial => q.state_by_serial[t] = states[t]
      /\ serial \in DOMAIN states => /\ q.state_by_serial[serial].bos_processed
                                     /\ q.state_by_serial[serial].headers_remaining = states[serial].headers_remaining
  <2>1. CASE serial \in DOMAIN states
    <3> DEFINE s == [states[serial] EXCEPT !.bos_processed = TRUE]
               states2 == [states EXCEPT ![serial] = s]
    <3>1. q = AsRegistry(r.streams, states2, r.skeleton)
      BY <1>3, <2>1 DEF Processed, AsRegistry
    <3>2. q.skeleton = r.skeleton /\ q.state_by_serial = states2
      BY <3>1 DEF AsRegistry
    <3>3. states[serial] \in StreamState
      BY <1>3, <2>1 DEF RegistryOK
    <3>4. s.bos_processed /\ s.headers_remaining = states[serial].headers_remaining
      BY <3>3 DEF StreamState
    <3> HIDE DEF s
    <3>5. /\ DOMAIN states2 = DOMAIN states /\ states2[serial] = s
          /\ \A t \in DOMAIN states : t # serial => states2[t] = states[t]
      BY <2>1
    <3>6. QED BY <3>2, <3>4, <3>5
  <2>2. CASE serial \notin DOMAIN states
    BY <2>2 DEF Processed
  <2>3. QED BY <2>1, <2>2
<1> HIDE DEF q
<1>6. state_by_serial' = q.state_by_serial /\ skeleton' = q.skeleton
  BY <1>1 DEF Becomes
<1>7. /\ \A t \in DOMAIN state_by_serial : t \in DOMAIN states /\ states[t] = state_by_serial[t]
      /\ \A t \in DOMAIN states : t \notin DOMAIN state_by_serial => t = serial /\ Ahead(states[t], InHand)
      /\ skeleton.serial # NoSerial => r.skeleton.serial = skeleton.serial
      /\ ~IsFishead(InHand) => serial \in DOMAIN states \/ serial = r.skeleton.serial
  BY <1>4 DEF Opened
<1> HIDE DEF states
<1>8. Lasting
  BY <1>5, <1>6, <1>7 DEF Lasting
<1>9. ASSUME NEW x \in DOMAIN state_by_serial'
      PROVE  LET s2 == state_by_serial'[x]
             IN IF InHand.bos /\ x = InHand.serial
                THEN /\ s2.bos_processed /\ s2.headers_remaining \in Nat
                     /\ ~IsFishead(InHand) => s2.headers_remaining = Need[InHand.segs[1].src]
                ELSE /\ x \in DOMAIN state_by_serial
                     /\ s2.headers_remaining = state_by_serial[x].headers_remaining
                     /\ s2.bos_processed = state_by_serial[x].bos_processed
  <2>1. x \in DOMAIN states
    BY <1>5, <1>6
  <2>2. CASE x = serial
    <3>1. states[x].headers_remaining = Need[InHand.segs[1].src]
      BY <1>1, <1>7, <2>1, <2>2 DEF Ahead
    <3>2. QED BY <1>1, <1>2, <1>5, <1>6, <2>1, <2>2, <3>1
  <2>3. CASE x # serial
    <3>1. x \in DOMAIN state_by_serial /\ state_by_serial'[x] = state_by_serial[x]
      BY <1>5, <1>6, <1>7, <2>1, <2>3
    <3>2. QED BY <2>3, <3>1
  <2>4. QED BY <2>2, <2>3
<1>10. InHand.bos /\ ~IsFishead(InHand) =>
         InHand.serial \in DOMAIN state_by_serial' \/ InHand.serial = skeleton'.serial
  BY <1>5, <1>6, <1>7
<1>11. QED BY <1>1, <1>8, <1>9, <1>10, BosStepHeads

\* The bitstream was registered ahead, by its first page.
LEMMA RegisteredBosHeads ==
  ASSUME TypeInv, FileOK(file), NEW c, FlowAt(c), HeadsAt(c), RegisteredBos
  PROVE  HeadsAt(c)'
<1> DEFINE serial == InHand.serial
           s == state_by_serial[serial]
           t == [s EXCEPT !.bos_processed = TRUE]
<1>1. /\ InHand.bos /\ serial \in DOMAIN state_by_serial /\ ~s.bos_processed
      /\ state_by_serial' = [state_by_serial EXCEPT ![serial] = t] /\ skeleton' = skeleton
      /\ hand # <<>> /\ at = "bos" /\ at' = "body"
      /\ UNCHANGED <<file, pos, hand, phase, out_queue, delivered>>
  BY DEF RegisteredBos, Known, Duplicate, Rest, reader, AtBos
<1>2. s \in StreamState
  BY <1>1 DEF TypeInv, RegistryInv, RegistryOK
<1>3. t.bos_processed /\ t.headers_remaining = s.headers_remaining /\ s.headers_remaining \in Nat
  BY <1>2 DEF StreamState
<1> HIDE DEF t
<1>4. c \in DOMAIN file /\ c \in Nat /\ Alive(file, c) /\ InHand = file[c].page
  BY <1>1, AtPage
<1>5. ~IsFishead(InHand) => s.headers_remaining = Need[InHand.segs[1].src]
  <2> SUFFICES ASSUME ~IsFishead(InHand) PROVE s.headers_remaining = Count(file, c)
    BY <1>4 DEF Count
  <2>1. Opens(file, c, serial)
    BY <1>1, <1>4 DEF Opens
  <2>2. Waits(file, serial, s.headers_remaining, c - 1)
    BY <1>1 DEF HeadsAt, StatesHeads, HeadsKept, Handled
  <2>3. ASSUME NEW m \in 1 .. c - 1 PROVE ~Opens(file, m, serial)
    <3>1. ~(c - 1 < m)
      BY <1>4
    <3>2. QED BY <2>2, <3>1 DEF Waits
  <2>4. First(file, c, serial)
    BY <2>1, <2>3 DEF First
  <2>5. QED BY <2>1, <2>2, <2>4 DEF Waits
<1> HIDE DEF s
<1>6. Lasting
  BY <1>1 DEF Lasting
<1>7. ASSUME NEW x \in DOMAIN state_by_serial'
      PROVE  LET s2 == state_by_serial'[x]
             IN IF InHand.bos /\ x = InHand.serial
                THEN /\ s2.bos_processed /\ s2.headers_remaining \in Nat
                     /\ ~IsFishead(InHand) => s2.headers_remaining = Need[InHand.segs[1].src]
                ELSE /\ x \in DOMAIN state_by_serial
                     /\ s2.headers_remaining = state_by_serial[x].headers_remaining
                     /\ s2.bos_processed = state_by_serial[x].bos_processed
  BY <1>1, <1>3, <1>5
<1>8. QED BY <1>1, <1>6, <1>7, BosStepHeads

\* The serial is claimed again: header capture is armed again.
LEMMA DuplicateBosHeads ==
  ASSUME TypeInv, FileOK(file), NEW c, FlowAt(c), HeadsAt(c), DuplicateBos
  PROVE  HeadsAt(c)'
<1> DEFINE serial == InHand.serial
           s == state_by_serial[serial]
           t == Restarted(s, InHand, LinkAfter)
<1>1. /\ InHand.bos /\ serial \in DOMAIN state_by_serial /\ s.bos_processed
      /\ state_by_serial' = [state_by_serial EXCEPT ![serial] = t] /\ skeleton' = skeleton
      /\ hand # <<>> /\ at = "bos" /\ at' = "body"
      /\ UNCHANGED <<file, pos, hand, phase, out_queue, delivered>>
  BY DEF DuplicateBos, Known, Duplicate, Rest, reader, AtBos
<1>2. s \in StreamState
  BY <1>1 DEF TypeInv, RegistryInv, RegistryOK
<1>3. Need[InHand.segs[1].src] \in Nat
  BY <1>1, NeedNat
<1>4. t.bos_processed = s.bos_processed /\ t.headers_remaining = Need[InHand.segs[1].src]
  BY <1>2 DEF StreamState, Restarted
<1> HIDE DEF t
<1>5. s.bos_processed
  BY <1>1
<1> HIDE DEF s
<1>6. Lasting
  BY <1>1 DEF Lasting
<1>7. ASSUME NEW x \in DOMAIN state_by_serial'
      PROVE  LET s2 == state_by_serial'[x]
             IN IF InHand.bos /\ x = InHand.serial
                THEN /\ s2.bos_processed /\ s2.headers_remaining \in Nat
                     /\ ~IsFishead(InHand) => s2.headers_remaining = Need[InHand.segs[1].src]
                ELSE /\ x \in DOMAIN state_by_serial
                     /\ s2.headers_remaining = state_by_serial[x].headers_remaining
                     /\ s2.bos_processed = state_by_serial[x].bos_processed
  BY <1>1, <1>3, <1>4, <1>5
<1>8. QED BY <1>1, <1>6, <1>7, BosStepHeads

LEMMA SkeletonBosHeads ==
  ASSUME TypeInv, FileOK(file), NEW c, FlowAt(c), HeadsAt(c), SkeletonBos
  PROVE  HeadsAt(c)'
<1>1. /\ InHand.bos /\ InHand.serial = skeleton.serial /\ hand # <<>> /\ at = "bos" /\ at' = "body"
      /\ UNCHANGED <<file, pos, hand, phase, out_queue, delivered>>
  BY DEF SkeletonBos, Rest, reader, AtBos
<1>2. InHand.serial \notin DOMAIN state_by_serial /\ skeleton.serial # NoSerial
  <2>1. skeleton.serial \notin DOMAIN state_by_serial
    BY DEF TypeInv, RegistryInv, RegistryOK
  <2>2. skeleton.serial \in Nat
    BY <1>1, NeedNat
  <2>3. QED BY <1>1, <2>1, <2>2 DEF NoSerial
<1>3. state_by_serial' = state_by_serial /\ skeleton'.serial = skeleton.serial
  <2>1. CASE UNCHANGED registry
    BY <2>1 DEF registry
  <2>2. CASE ~UNCHANGED registry
    <3> DEFINE skel2 == [skeleton EXCEPT !.last_seq = InHand.seq]
               r == RegisterStream(Registry, InHand, next_link_index)
    <3>1. IsFishead(InHand) /\ Becomes(r)
      BY <2>2 DEF SkeletonBos
    <3>2. r = AsRegistry(streams, state_by_serial, skel2)
      BY <1>1, <3>1 DEF RegisterStream, Registry, AsRegistry
    <3>3. r.state_by_serial = state_by_serial /\ r.skeleton = skel2
      BY <3>2 DEF AsRegistry
    <3>4. skel2.serial = skeleton.serial
      OBVIOUS
    <3> HIDE DEF r, skel2
    <3>5. QED BY <3>1, <3>3, <3>4 DEF Becomes
  <2>3. QED BY <2>1, <2>2
<1>4. Lasting
  BY <1>3 DEF Lasting
<1>5. QED BY <1>1, <1>2, <1>3, <1>4, BosStepHeads

-----------------------------------------------------------------------------
(* The headers: the body of a page.                                        *)

\* The page is let go: its BOS handling was done, and now its body is.
LEMMA BodyHeads ==
  ASSUME TypeInv, FileOK(file), NEW c, FlowAt(c), HeadsAt(c), hand # <<>>, at = "body", LetGo,
         UNCHANGED <<file, pos, phase>>, Lasting,
         \A x \in DOMAIN state_by_serial' : HeadsKept(file, state_by_serial'[x], x, c + 1, c),
         OutHeads'
  PROVE  HeadsAt(c + 1)'
<1>1. c \in Nat /\ at' = "none"
  BY AtPage DEF LetGo
<1>2. Handled(c) = c /\ Handled(c + 1)' = c /\ phase \notin {"bos", "idle"}
  BY <1>1 DEF Handled, HeadsAt, Met
<1>3. StatesHeads(c + 1)'
  BY <1>2 DEF StatesHeads
<1>4. Met(c + 1)'
  <2>1. ASSUME NEW b, NEW x, Opens(file, b, x), b <= c PROVE Owned(x)'
    <3>1. x # NoSerial
      BY <2>1, OpensFacts
    <3>2. Owned(x)
      BY <1>2, <2>1 DEF HeadsAt, Met
    <3>3. QED BY <3>1, <3>2, OwnedLasts
  <2>2. \A b, x : Opens(file', b, x) /\ (b <= Handled(c + 1)' \/ (phase' = "bos" /\ b < pos')) => Owned(x)'
    BY <1>2, <2>1
  <2>3. QED BY <1>1, <1>2, <2>2 DEF Met
<1>5. QED BY <1>3, <1>4 DEF HeadsAt

LEMMA BehindHeads ==
  ASSUME TypeInv, FileOK(file), NEW c, FlowAt(c), HeadsAt(c), hand # <<>>, at = "body",
         NEW x \in DOMAIN state_by_serial
  PROVE  HeadsKept(file, state_by_serial[x], x, c, c) /\ HeadsKept(file, state_by_serial[x], x, c + 1, c)
<1> DEFINE s == state_by_serial[x]
<1>1. HeadsKept(file, s, x, c, c)
  BY DEF HeadsAt, StatesHeads, Handled
<1>2. c \in Int /\ c + 1 \in Int /\ c <= c + 1 /\ c <= c /\ c + 1 .. c = {}
  BY AtPage
<1> HIDE DEF s
<1>3. HeadsKept(file, s, x, c + 1, c)
  <2> DEFINE c2 == c + 1
             m2 == c
  <2>1. c2 \in Int /\ c <= c2 /\ \A m \in c + 1 .. m2 : ~Claims(file, m, x)
    BY <1>2
  <2> HIDE DEF c2
  <2>2. HeadsKept(file, s, x, c2, m2)
    BY <1>1, <1>2, <2>1, HeadsOn
  <2>3. QED BY <2>2 DEF c2
<1>4. QED BY <1>1, <1>3 DEF s

LEMMA PassedHeads ==
  ASSUME TypeInv, FileOK(file), NEW c, FlowAt(c), HeadsAt(c), SkipUnknown \/ SkeletonPage
  PROVE  HeadsAt(c + 1)'
<1>1. /\ hand # <<>> /\ at = "body" /\ LetGo
      /\ UNCHANGED <<file, pos, phase, state_by_serial, out_queue, delivered>> /\ skeleton'.serial = skeleton.serial
  <2>1. CASE SkipUnknown
    BY <2>1 DEF SkipUnknown, AtBody, Rest, reader, registry
  <2>2. CASE SkeletonPage
    <3>1. /\ hand # <<>> /\ at = "body" /\ LetGo
          /\ UNCHANGED <<file, pos, phase, state_by_serial, out_queue, delivered>>
      BY <2>2 DEF SkeletonPage, AtBody, Rest, reader
    <3>2. skeleton \in SkeletonState
      BY DEF TypeInv, RegistryInv, RegistryOK
    <3>3. PICK p, n, k, e : skeleton' = [skeleton EXCEPT !.pending = p, !.last_seq = n, !.packets = k, !.eos_seen = e]
      BY <2>2 DEF SkeletonPage
    <3>4. skeleton'.serial = skeleton.serial
      BY <3>2, <3>3 DEF SkeletonState
    <3>5. QED BY <3>1, <3>4
  <2>3. QED BY <2>1, <2>2
<1>2. Lasting
  BY <1>1 DEF Lasting
<1>3. OutHeads'
  <2>1. Out' = Out
    BY <1>1 DEF Out
  <2>2. QED BY <1>1, <2>1, OutSame DEF HeadsAt
<1>4. \A x \in DOMAIN state_by_serial' : HeadsKept(file, state_by_serial'[x], x, c + 1, c)
  BY <1>1, BehindHeads
<1>5. QED BY <1>1, <1>2, <1>3, <1>4, BodyHeads

\* What a page of a bitstream ends: the headers it takes, and data behind them.
LEMMA TurnedHeads ==
  ASSUME TypeInv, FileOK(file), NEW c, FlowAt(c), HeadsAt(c), ContentPage,
         NEW before, NEW r, NEW next, NEW take, NEW data, PageTurned(before, r, next, take, data)
  PROVE  /\ HeadsKept(file, next, InHand.serial, c + 1, c)
         /\ \A d \in 1 .. Len(data) : \E i : Emitted(file, data[d], c, i) /\ Backed(file, c, i)
<1> DEFINE serial == InHand.serial
           s == state_by_serial[serial]
           n == Len(InHand.segs)
<1>1. /\ c \in DOMAIN file /\ c \in Nat /\ Alive(file, c) /\ InHand = file[c].page
      /\ hand # <<>> /\ at = "body"
  BY AtPage DEF ContentPage, AtBody
<1>2. /\ take \in Nat /\ serial \in DOMAIN state_by_serial /\ s \in StreamState
      /\ next.headers_remaining = s.headers_remaining - take /\ next.bos_processed = s.bos_processed
      /\ Len(data) > 0 => take = s.headers_remaining
      /\ take <= Len(r.done) /\ Len(data) = Len(r.done) - take
      /\ \A i \in 1 .. Len(data) : data[i] = r.done[take + i]
  BY DEF PageTurned
<1>3. s.headers_remaining \in Nat
  BY <1>2 DEF StreamState
<1>4. HeadsKept(file, s, serial, c, c)
  BY <1>1, <1>2, BehindHeads
<1>5. InHand.bos => s.bos_processed
  BY <1>1, <1>2 DEF HeadsAt, Met
<1> HIDE DEF s
<1>6. PICK ms \in Seq(1 .. n) :
        /\ Len(r.done) = Len(ms)
        /\ \A d, e \in 1 .. Len(ms) : d < e => ms[d] < ms[e]
        /\ \A d \in 1 .. Len(ms) : Emitted(file, r.done[d], c, ms[d])
  BY TurnedDone
<1> DEFINE l == Len(ms)
           k == Len(data)
<1>7. l \in Nat /\ take <= l /\ k = l - take /\ \A d \in 1 .. l : ms[d] \in 1 .. n
  BY <1>2, <1>6
<1>8. \A d \in 1 .. l : ms[d] \in DOMAIN file[c].page.segs /\ file[c].page.segs[ms[d]].term
  BY <1>1, <1>6 DEF Emitted, EndsAt
<1> HIDE DEF l, k
<1>9. \A d \in 1 .. take : d \in 1 .. l
  BY <1>2, <1>7
<1>10. Ended(file, c, ms, take)
  <2>1. \A d, e \in 1 .. take : d < e => ms[d] < ms[e]
    BY <1>6, <1>9 DEF l
  <2>2. QED BY <1>8, <1>9, <2>1 DEF Ended
<1>11. HeadsKept(file, next, serial, c + 1, c)
  BY <1>1, <1>2, <1>3, <1>4, <1>5, <1>10, HeadsTaken
<1>12. ASSUME NEW d \in 1 .. k PROVE \E i : Emitted(file, data[d], c, i) /\ Backed(file, c, i)
  <2>1. take + d \in 1 .. l /\ \A e \in 1 .. take : e < take + d
    BY <1>2, <1>7
  <2>2. data[d] = r.done[take + d]
    BY <1>2 DEF k
  <2>3. Emitted(file, data[d], c, ms[take + d])
    BY <1>6, <2>1, <2>2 DEF l
  <2>4. \A e \in 1 .. take : ms[e] < ms[take + d]
    BY <1>6, <1>9, <2>1 DEF l
  <2>5. take = s.headers_remaining
    <3>1. k > 0
      BY <1>7
    <3>2. QED BY <1>2, <3>1 DEF k
  <2> DEFINE i == ms[take + d]
  <2>6. \A e \in 1 .. take : ms[e] < i
    BY <2>4
  <2> HIDE DEF i
  <2>7. Backed(file, c, i)
    BY <1>1, <1>2, <1>4, <1>10, <2>5, <2>6, HeadsBehind
  <2>8. QED BY <2>3, <2>7 DEF i
<1>13. QED BY <1>11, <1>12 DEF k

LEMMA ContentPageHeads ==
  ASSUME TypeInv, FileOK(file), NEW c, FlowAt(c), HeadsAt(c), ContentPage
  PROVE  HeadsAt(c + 1)'
<1>1. PICK before, r, next, take, data : PageTurned(before, r, next, take, data)
  BY ContentTurned
<1> DEFINE serial == InHand.serial
           s == state_by_serial[serial]
           o == Output(s, InHand, data)
           k == Len(data)
<1>2. /\ hand # <<>> /\ at = "body" /\ LetGo /\ UNCHANGED <<file, pos, phase, skeleton, delivered>>
  BY DEF ContentPage, AtBody, Rest, reader
<1>3. /\ serial \in DOMAIN state_by_serial /\ s \in StreamState /\ data \in Seq(Seq(Piece))
      /\ state_by_serial' = [state_by_serial EXCEPT ![serial] = next]
      /\ out_queue' = out_queue \o o
  BY <1>1 DEF PageTurned
<1>4. /\ HeadsKept(file, next, serial, c + 1, c)
      /\ \A d \in 1 .. k : \E i : Emitted(file, data[d], c, i) /\ Backed(file, c, i)
  BY <1>1, TurnedHeads
<1>5. o \in Seq(Delivery) /\ Len(o) = k /\ \A i \in 1 .. k : o[i].packet = data[i]
  <2>1. InHand \in Page
    BY <1>2, HandFacts
  <2> HIDE DEF s
  <2>2. QED BY <1>3, <2>1, OutputType
<1> HIDE DEF s, o, k
<1>6. Lasting
  BY <1>2, <1>3 DEF Lasting
<1>7. \A x \in DOMAIN state_by_serial' : HeadsKept(file, state_by_serial'[x], x, c + 1, c)
  <2> SUFFICES ASSUME NEW x \in DOMAIN state_by_serial' PROVE HeadsKept(file, state_by_serial'[x], x, c + 1, c)
    OBVIOUS
  <2>1. CASE x = serial
    BY <1>3, <1>4, <2>1
  <2>2. CASE x # serial
    <3>1. x \in DOMAIN state_by_serial /\ state_by_serial'[x] = state_by_serial[x]
      BY <1>3, <2>2
    <3>2. QED BY <1>2, <3>1, BehindHeads
  <2>3. QED BY <2>1, <2>2
<1>8. OutHeads'
  <2> DEFINE D == Delivery
             m == Len(Out)
             more == Out'
  <2>1. Out \in Seq(D) /\ more = Out \o o
    <3>1. out_queue \in Seq(D) /\ delivered \in Seq(D) /\ o \in Seq(D)
      BY <1>5 DEF TypeInv, QueueInv
    <3> HIDE DEF D
    <3>2. Out \in Seq(D)
      BY <3>1 DEF Out
    <3>3. more = delivered \o (out_queue \o o)
      BY <1>2, <1>3 DEF Out
    <3>4. delivered \o (out_queue \o o) = (delivered \o out_queue) \o o
      BY <3>1
    <3>5. QED BY <3>2, <3>3, <3>4 DEF Out
  <2> HIDE DEF more
  <2>2. /\ m \in Nat /\ k \in Nat /\ DOMAIN more = 1 .. m + k
        /\ \A d \in 1 .. m : d \in DOMAIN Out /\ more[d] = Out[d]
        /\ \A d \in 1 .. m + k : ~(d \in 1 .. m) => d - m \in 1 .. k /\ more[d] = o[d - m]
    <3>1. o \in Seq(D) /\ Len(o) = k
      BY <1>5
    <3> HIDE DEF D
    <3>2. m \in Nat /\ k \in Nat /\ DOMAIN Out = 1 .. m
      BY <2>1, <3>1
    <3>3. DOMAIN more = 1 .. m + k /\ \A d \in 1 .. m : more[d] = Out[d]
      BY <2>1, <3>1
    <3>4. \A d \in 1 .. m + k : ~(d \in 1 .. m) => d - m \in 1 .. k /\ more[d] = o[d - m]
      BY <2>1, <3>1
    <3>5. QED BY <3>2, <3>3, <3>4
  <2> HIDE DEF m
  <2>3. ASSUME NEW d \in DOMAIN more
        PROVE  \E a, i : Emitted(file, more[d].packet, a, i) /\ Backed(file, a, i)
    <3>1. CASE d \in 1 .. m
      BY <2>2, <3>1 DEF HeadsAt, OutHeads
    <3>2. CASE ~(d \in 1 .. m)
      <4>1. d - m \in 1 .. k /\ more[d].packet = data[d - m]
        BY <1>5, <2>2, <3>2
      <4>2. QED BY <1>4, <4>1
    <3>3. QED BY <3>1, <3>2
  <2>4. QED BY <1>2, <2>3 DEF OutHeads, more
<1>9. QED BY <1>2, <1>6, <1>7, <1>8, BodyHeads

-----------------------------------------------------------------------------
(* The headers: the scan.                                                  *)

\* States the scan made come from the BOS page of their bitstream.
Fresh(states) ==
  \A t \in DOMAIN states : t \notin DOMAIN state_by_serial =>
    \E k \in DOMAIN file : /\ file[k].page.bos /\ file[k].page.serial = t
                           /\ Ahead(states[t], file[k].page)

LEMMA ScanPageRegistry ==
  ASSUME NEW acc, Shaped(acc), NEW k
  PROVE  LET page == file[k].page
             r == ScanPage(acc, k).registry
         IN \/ r = acc.registry
            \/ /\ page.bos /\ page.serial \notin DOMAIN acc.registry.state_by_serial
               /\ \E link : r = RegisterStream(acc.registry, page, link)
<1> DEFINE page == file[k].page
           idx == IndexRecord(acc.index, page, k)
           indexed == [acc EXCEPT !.index = idx]
           up == [indexed EXCEPT !.link = indexed.link + 1, !.seen = FALSE]
           linked == IF acc.seen THEN up ELSE indexed
           dup == page.serial # acc.registry.skeleton.serial /\ page.serial \in acc.met
           met == IF page.serial = acc.registry.skeleton.serial THEN acc.met ELSE acc.met \cup {page.serial}
           next == ScanPage(acc, k)
           new == RegisterStream(linked.registry, page, linked.link)
<1>1. next = IF file[k].state = "lost" THEN acc
             ELSE IF ~page.bos THEN [indexed EXCEPT !.seen = TRUE]
             ELSE IF dup THEN [linked EXCEPT !.duplicates = linked.duplicates + 1]
             ELSE IF page.serial \in DOMAIN acc.registry.state_by_serial THEN [indexed EXCEPT !.met = met]
             ELSE IF file[k].state = "cut" THEN [indexed EXCEPT !.met = met]
             ELSE [linked EXCEPT !.met = met, !.registry = new]
  BY Zenon DEF ScanPage
<1> HIDE DEF page, idx, dup, met, next, new
<1> DEFINE T == {"index", "link", "seen", "duplicates", "met", "registry"}
<1>2. acc = [f \in T |-> acc[f]]
  <2>1. acc = [index |-> acc.index, link |-> acc.link, seen |-> acc.seen, duplicates |-> acc.duplicates,
               met |-> acc.met, registry |-> acc.registry]
    BY DEF Shaped
  <2>2. QED BY <2>1
<1>3. DOMAIN acc = T
  BY <1>2
<1>4. DOMAIN indexed = T /\ indexed.registry = acc.registry
  BY <1>3
<1> HIDE DEF indexed
<1>5. DOMAIN up = T /\ up.registry = acc.registry
  BY <1>4
<1> HIDE DEF up
<1>6. DOMAIN linked = T /\ linked.registry = acc.registry
  BY <1>4, <1>5
<1> HIDE DEF linked
<1>7. [indexed EXCEPT !.seen = TRUE].registry = acc.registry /\ [indexed EXCEPT !.met = met].registry = acc.registry
  BY <1>4
<1>8. [linked EXCEPT !.duplicates = linked.duplicates + 1].registry = acc.registry
  BY <1>6
<1>9. [linked EXCEPT !.met = met, !.registry = new].registry = new
  BY <1>6
<1>10. \/ next.registry = acc.registry
       \/ /\ page.bos /\ page.serial \notin DOMAIN acc.registry.state_by_serial
          /\ next.registry = new
  BY <1>1, <1>7, <1>8, <1>9
<1>11. new = RegisterStream(acc.registry, page, linked.link)
  BY <1>6 DEF new
<1>12. QED BY <1>10, <1>11 DEF page, next

LEMMA ScanPageFresh ==
  ASSUME TypeInv, NEW k \in DOMAIN file, NEW acc, Counted(acc), RegistryKept(acc.registry),
         Fresh(acc.registry.state_by_serial)
  PROVE  Fresh(ScanPage(acc, k).registry.state_by_serial)
<1> DEFINE page == file[k].page
           r == ScanPage(acc, k).registry
           strs == acc.registry.streams
           states == acc.registry.state_by_serial
           skel == acc.registry.skeleton
<1>1. \/ r = acc.registry
      \/ /\ page.bos /\ page.serial \notin DOMAIN states
         /\ \E link : r = RegisterStream(acc.registry, page, link)
  BY ScanPageRegistry DEF Counted
<1>2. acc.registry = AsRegistry(strs, states, skel)
  BY DEF RegistryKept
<1>3. Fresh(states)
  OBVIOUS
<1> HIDE DEF r
<1>4. CASE r = acc.registry
  BY <1>4 DEF r
<1>5. CASE r # acc.registry
  <2>1. page.bos /\ page.serial \notin DOMAIN states
    BY <1>1, <1>5
  <2>2. PICK link : r = RegisterStream(acc.registry, page, link)
    BY <1>1, <1>5
  <2> HIDE DEF strs, states, skel
  <2>3. r = RegisterStream(AsRegistry(strs, states, skel), page, link)
    BY <1>2, <2>2
  <2>4. Opened(states, skel, page, r.state_by_serial, r.skeleton)
    BY <2>1, <2>3, RegisteredOpened
  <2> DEFINE states2 == r.state_by_serial
  <2>5. /\ \A t \in DOMAIN states : t \in DOMAIN states2 /\ states2[t] = states[t]
        /\ \A t \in DOMAIN states2 : t \notin DOMAIN states => t = page.serial /\ Ahead(states2[t], page)
    BY <2>4 DEF Opened
  <2> HIDE DEF states2
  <2>6. ASSUME NEW t \in DOMAIN states2, t \notin DOMAIN state_by_serial
        PROVE  \E m \in DOMAIN file : /\ file[m].page.bos /\ file[m].page.serial = t
                                      /\ Ahead(states2[t], file[m].page)
    <3>1. CASE t \in DOMAIN states
      BY <1>3, <2>5, <2>6, <3>1 DEF Fresh
    <3>2. CASE t \notin DOMAIN states
      BY <2>1, <2>5, <2>6, <3>2
    <3>3. QED BY <3>1, <3>2
  <2>7. Fresh(states2)
    BY <2>6 DEF Fresh
  <2>8. QED BY <2>7 DEF states2, r
<1>6. QED BY <1>4, <1>5

LEMMA ScanFresh ==
  ASSUME TypeInv
  PROVE  Fresh(Scan.registry.state_by_serial)
<1> DEFINE n == Len(file)
           good(a) == Counted(a) /\ RegistryKept(a.registry) /\ Fresh(a.registry.state_by_serial)
<1>1. n \in Nat /\ DOMAIN file = 1 .. n
  BY FileFacts DEF TypeInv
<1>2. PICK f : Scanning(f, ScanStart, n) /\ Scan = f[n]
  BY <1>1, ScanRuns
<1>3. good(f[0])
  <2>1. f[0] = ScanStart
    <3>1. 0 \in 0 .. n
      BY <1>1
    <3>2. QED BY <1>2, <3>1 DEF Scanning
  <2>2. /\ ScanStart.index = seek_index /\ ScanStart.link = next_link_index /\ ScanStart.seen = seen_nonbos
        /\ ScanStart.duplicates = 0 /\ ScanStart.registry = Registry /\ Shaped(ScanStart)
    BY DEF ScanStart, Shaped
  <2>3. /\ Registry.streams = streams /\ Registry.state_by_serial = state_by_serial
        /\ Registry.skeleton = skeleton /\ Registry = AsRegistry(streams, state_by_serial, skeleton)
    BY DEF Registry, AsRegistry
  <2>4. Counted(ScanStart)
    BY <2>2 DEF Counted, TypeInv, ControlInv, IndexInv
  <2>5. RegistryKept(Registry)
    BY <2>3, UntouchedSelf DEF RegistryKept, TypeInv, RegistryInv
  <2>6. Fresh(Registry.state_by_serial)
    BY <2>3 DEF Fresh
  <2>7. QED BY <2>1, <2>2, <2>4, <2>5, <2>6
<1>4. ASSUME NEW k \in 1 .. n, good(f[k - 1]) PROVE good(f[k])
  <2>1. f[k] = ScanPage(f[k - 1], k)
    <3>1. k \in 0 .. n /\ k # 0
      BY <1>1
    <3>2. QED BY <1>2, <3>1 DEF Scanning
  <2>2. QED BY <1>1, <1>4, <2>1, ScanPageFacts, ScanPageFresh
<1> HIDE DEF good
<1> DEFINE T == {i \in 0 .. n : ~good(f[i])}
<1>5. SUFFICES ASSUME T # {} PROVE FALSE
  <2>1. n \in 0 .. n
    BY <1>1
  <2>2. QED BY <1>2, <2>1 DEF good
<1>6. PICK k \in T : \A m \in T : k <= m
  <2>1. T \in SUBSET Nat
    BY <1>1
  <2>2. QED BY <1>5, <2>1, LeastNatural
<1>7. k \in 0 .. n /\ ~good(f[k]) /\ k # 0
  BY <1>1, <1>3, <1>6
<1>8. k - 1 \in 0 .. n /\ k - 1 \notin T /\ k \in 1 .. n
  BY <1>1, <1>6, <1>7
<1>9. QED BY <1>4, <1>7, <1>8

\* In a file that may be scanned the page the scan found is the first of its serial.
LEMMA BuildSeekIndexHeads ==
  ASSUME TypeInv, FileOK(file), NEW c, FlowAt(c), HeadsAt(c), Orderly(file), BuildSeekIndex
  PROVE  HeadsAt(c)'
<1> DEFINE r == Scan
           states == r.registry.state_by_serial
           skel == r.registry.skeleton
<1>1. Counted(r) /\ RegistryKept(r.registry) /\ Fresh(states)
  BY ScanFacts, ScanFresh
<1>2. /\ Becomes(r.registry) /\ phase = "idle" /\ MayScan(file)
      /\ UNCHANGED <<file, pos, phase, hand, at, page_queue, out_queue, delivered>>
  BY DEF BuildSeekIndex
<1> HIDE DEF r
<1>3. /\ state_by_serial' = states /\ skeleton' = skel
      /\ RegistryOK(streams', states, skel) /\ Untouched(state_by_serial, skeleton, states, skel)
  BY <1>1, <1>2 DEF RegistryKept, Becomes
<1> HIDE DEF states, skel
<1>4. /\ \A t \in DOMAIN state_by_serial : t \in DOMAIN states /\ states[t] = state_by_serial[t]
      /\ skeleton.serial # NoSerial => skel.serial = skeleton.serial
  BY <1>3 DEF Untouched
<1>5. Lasting
  BY <1>3, <1>4 DEF Lasting
<1>6. at = "none" /\ at' = "none" /\ Handled(c) = c - 1 /\ Handled(c)' = c - 1 /\ c \in Nat
  <2>1. at = "none"
    BY <1>2 DEF HeadsAt, Met
  <2>2. QED BY <1>2, <2>1, CursorNat DEF Handled
<1> DEFINE h == c - 1
<1>7. ASSUME NEW x \in DOMAIN states PROVE HeadsKept(file, states[x], x, c, h)
  <2>1. CASE x \in DOMAIN state_by_serial
    BY <1>4, <1>6, <2>1 DEF HeadsAt, StatesHeads
  <2>2. CASE x \notin DOMAIN state_by_serial
    <3> DEFINE s == states[x]
    <3>1. PICK k \in DOMAIN file : file[k].page.bos /\ file[k].page.serial = x /\ Ahead(s, file[k].page)
      BY <1>1, <2>2 DEF Fresh
    <3>2. file[k].page.segs # <<>> /\ 1 \in DOMAIN file[k].page.segs
      BY <3>1, FileFacts, PageFacts DEF TypeInv
    <3>3. x # skeleton.serial
      <4>1. x # skel.serial
        BY <1>3 DEF RegistryOK
      <4>2. x \in Nat
        BY <3>1, FileFacts, PageFacts DEF TypeInv
      <4>3. x # NoSerial
        BY <4>2 DEF NoSerial
      <4>4. QED BY <1>4, <4>1, <4>3
    <3>4. ASSUME NEW b, Opens(file, b, x)
          PROVE  /\ h < b /\ s.headers_remaining = Count(file, b)
                 /\ \A m \in 1 .. b - 1 : Alive(file, m) /\ file[m].page.serial = x => file[m].page.bos
      <4>1. b \in Nat /\ b \in DOMAIN file /\ file[b].page.serial = x /\ file[b].page.bos /\ 1 <= b
        BY <3>4, OpensFacts DEF Opens
      <4>2. ~(b <= h)
        BY <1>6, <2>2, <3>3, <3>4 DEF HeadsAt, Met, Owned
      <4>3. \A m \in DOMAIN file : file[m].page.serial = x => file[m].page.src = file[b].page.src
        BY <1>2, <4>1 DEF Orderly
      <4>4. file[k].page.segs[1].src = file[b].page.segs[1].src
        <5>1. 1 \in DOMAIN file[b].page.segs
          BY <4>1, FileFacts, PageFacts DEF TypeInv
        <5>2. /\ file[k].page.segs[1].src = file[k].page.src
              /\ file[b].page.segs[1].src = file[b].page.src
          BY <3>2, <4>1, <5>1 DEF Orderly
        <5>3. QED BY <3>1, <4>3, <5>2
      <4>5. s.headers_remaining = Count(file, b)
        BY <3>1, <4>4 DEF Ahead, Count
      <4>6. ASSUME NEW m \in 1 .. b - 1, file[m].page.serial = x PROVE FALSE
        <5>1. m \in DOMAIN file /\ m \in Nat
          <6>1. DOMAIN file = 1 .. Len(file) /\ Len(file) \in Nat
            BY FileOKFacts
          <6>2. QED BY <4>1, <6>1
        <5>2. b <= m
          BY <4>1, <4>3, <4>6, <5>1 DEF Orderly
        <5>3. QED BY <4>1, <5>1, <5>2
      <4>7. QED BY <1>6, <4>1, <4>2, <4>5, <4>6
    <3> HIDE DEF h
    <3>5. Waits(file, x, s.headers_remaining, h)
      BY <3>4, Zenon DEF Waits, First
    <3>6. c \in Int /\ h \in Int
      BY <1>6 DEF h
    <3> HIDE DEF s
    <3>7. HeadsKept(file, s, x, c, h)
      BY <3>5, <3>6, HeadsAhead
    <3>8. QED BY <3>7 DEF s
  <2>3. QED BY <2>1, <2>2
<1>8. StatesHeads(c)'
  BY <1>2, <1>3, <1>6, <1>7 DEF StatesHeads
<1>9. OutHeads'
  <2>1. Out' = Out
    BY <1>2 DEF Out
  <2>2. QED BY <1>2, <2>1, OutSame DEF HeadsAt
<1>10. Met(c)'
  <2>1. ASSUME NEW b, NEW x, Opens(file, b, x), b <= c - 1 PROVE Owned(x)'
    <3>1. x # NoSerial /\ Owned(x)
      BY <1>6, <2>1, OpensFacts DEF HeadsAt, Met
    <3>2. QED BY <1>5, <3>1, OwnedLasts
  <2>2. \A b, x : Opens(file', b, x) /\ (b <= Handled(c)' \/ (phase' = "bos" /\ b < pos')) => Owned(x)'
    BY <1>2, <1>6, <2>1
  <2>3. QED BY <1>2, <1>6, <2>2 DEF Met
<1>11. QED BY <1>8, <1>9, <1>10 DEF HeadsAt

-----------------------------------------------------------------------------
(* The headers: the invariant, and what it says of a packet.               *)

HeadFlow == Orderly(file) => \E c : FlowAt(c) /\ HeadsAt(c)

LEMMA HeadsAtFirst ==
  ASSUME Init, FileOK(file)
  PROVE  HeadsAt(1)
<1>1. /\ phase = "bos" /\ at = "none" /\ pos = 1 /\ state_by_serial = <<>> /\ out_queue = <<>> /\ delivered = <<>>
  BY DEF Init
<1>2. DOMAIN <<>> = {} /\ <<>> \o <<>> = <<>> /\ 1 .. 1 - 1 = {} /\ Handled(1) = 0
  BY <1>1 DEF Handled
<1>3. StatesHeads(1)
  BY <1>1, <1>2 DEF StatesHeads
<1>4. OutHeads
  <2>1. Out = <<>>
    BY <1>1, <1>2 DEF Out
  <2>2. QED BY <1>2, <2>1 DEF OutHeads
<1>5. Met(1)
  <2>1. ASSUME NEW b, NEW x, Opens(file, b, x), b <= 0 \/ b < 1 PROVE FALSE
    <3>1. b \in Nat /\ 1 <= b
      BY <2>1, OpensFacts
    <3>2. QED BY <2>1, <3>1
  <2>2. QED BY <1>1, <1>2, <2>1 DEF Met
<1>6. QED BY <1>3, <1>4, <1>5 DEF HeadsAt

LEMMA FileStays == [Next]_vars => file' = file
<1> SUFFICES ASSUME [Next]_vars PROVE file' = file
  OBVIOUS
<1>1. ASSUME ReadPage \/ ReadNone PROVE file' = file
  BY <1>1 DEF ReadPage, ReadNone
<1>2. ASSUME UNCHANGED reader PROVE file' = file
  BY <1>2 DEF reader
<1>3. CASE Steady
  <2>1. CASE Open
    BY <1>1, <1>2, <2>1 DEF Open, BosPage, BosEof, OpenDone, OpenEof
  <2>2. CASE BosStep
    BY <1>2, <2>2 DEF BosStep, PlainPage, NewBos, RegisteredBos, DuplicateBos, SkeletonBos
  <2>3. CASE Answer
    BY <1>1, <1>2, <2>3 DEF Answer, Deliver, EndOfFile
  <2>4. CASE Caller
    BY <1>2, <2>4 DEF Caller, NextPacket, BuildSeekIndex
  <2>5. CASE Refused \/ UNCHANGED vars
    BY <1>2, <2>5 DEF Refused, vars
  <2>6. QED BY <1>3, <2>1, <2>2, <2>3, <2>4, <2>5, Zenon DEF Steady
<1>4. CASE TakePage
  BY <1>1, <1>2, <1>4 DEF TakePage, TakeQueued, TakeRead
<1>5. CASE BodyStep
  BY <1>2, <1>5 DEF BodyStep, SkipUnknown, SkeletonPage, ContentPage
<1>6. QED BY <1>3, <1>4, <1>5, NextSteps

LEMMA HeadsSteady ==
  ASSUME TypeInv, FileOK(file), NEW c, FlowAt(c), HeadsAt(c), Orderly(file), Steady
  PROVE  HeadsAt(c)'
<1>1. CASE Open
  BY <1>1, BosPageHeads, QuietHeads, Zenon DEF Open
<1>2. CASE BosStep
  BY <1>2, PlainPageHeads, NewBosHeads, RegisteredBosHeads, DuplicateBosHeads, SkeletonBosHeads, Zenon DEF BosStep
<1>3. CASE Answer
  BY <1>3, QuietHeads, Zenon DEF Answer
<1>4. CASE Caller
  BY <1>4, QuietHeads, BuildSeekIndexHeads, Zenon DEF Caller
<1>5. CASE Refused \/ UNCHANGED vars
  <2>1. UNCHANGED vars
    BY <1>5 DEF Refused
  <2>2. UNCHANGED <<file, pos, at, hand, phase, state_by_serial, skeleton, out_queue, delivered>>
    BY <2>1 DEF vars, reader, registry
  <2>3. Out' = Out
    BY <2>2 DEF Out
  <2>4. phase' = "idle" => at = "none"
    BY <2>2 DEF HeadsAt, Met
  <2>5. QED BY <2>2, <2>3, <2>4, StillHeads
<1>6. QED BY <1>1, <1>2, <1>3, <1>4, <1>5, Zenon DEF Steady

LEMMA HeadFlowKept == TypeInv /\ FileOK(file) /\ HeadFlow /\ [Next]_vars => HeadFlow'
<1> SUFFICES ASSUME TypeInv, FileOK(file), HeadFlow, [Next]_vars, Orderly(file')
             PROVE  (\E c : FlowAt(c) /\ HeadsAt(c))'
  BY DEF HeadFlow
<1>1. file' = file
  BY FileStays
<1>2. Orderly(file)
  BY <1>1
<1>3. PICK c : FlowAt(c) /\ HeadsAt(c)
  BY <1>2 DEF HeadFlow
<1>4. CASE Steady
  <2>1. FlowAt(c)' /\ HeadsAt(c)'
    BY <1>2, <1>3, <1>4, FlowSteady, HeadsSteady
  <2>2. QED BY <2>1
<1>5. CASE TakePage
  <2>1. PICK d \in Nat : c <= d /\ (\A m \in c .. d - 1 : ~Alive(file, m)) /\ FlowAt(d)'
    BY <1>3, <1>5, TakePageFlow DEF Onward
  <2>2. HeadsAt(d)'
    BY <1>3, <1>5, <2>1, TakePageHeads
  <2>3. QED BY <2>1, <2>2
<1>6. CASE BodyStep
  <2>1. FlowAt(c + 1)' /\ HeadsAt(c + 1)'
    BY <1>3, <1>6, BodyFlow, PassedHeads, ContentPageHeads, Zenon DEF BodyStep
  <2>2. QED BY <2>1
<1>7. QED BY <1>4, <1>5, <1>6, NextSteps

\* As many packets as there are headers, one after the other, come before it.
LEMMA CountedUp ==
  ASSUME NEW n \in Nat, NEW g, \A d \in 1 .. n : g[d] \in Nat /\ g[d] >= 1,
         \A d, e \in 1 .. n : d < e => g[d] < g[e]
  PROVE  \A d \in 1 .. n : g[d] >= d
<1> DEFINE T == {d \in 1 .. n : ~(g[d] >= d)}
<1>1. SUFFICES ASSUME T # {} PROVE FALSE
  OBVIOUS
<1>2. PICK d \in T : \A m \in T : d <= m
  <2>1. T \in SUBSET Nat
    OBVIOUS
  <2>2. QED BY <1>1, <2>1, LeastNatural
<1>3. d \in 1 .. n /\ ~(g[d] >= d) /\ g[d] \in Nat /\ g[d] >= 1
  BY <1>2
<1>4. d # 1 /\ d - 1 \in 1 .. n /\ d - 1 < d
  BY <1>3
<1>5. g[d - 1] >= d - 1
  <2>1. ~(d <= d - 1)
    BY <1>3
  <2>2. d - 1 \notin T
    BY <1>2, <2>1
  <2>3. QED BY <1>4, <2>2
<1>6. g[d - 1] < g[d] /\ g[d - 1] \in Nat
  BY <1>3, <1>4
<1>7. QED BY <1>3, <1>5, <1>6

\* The page a bitstream begins with is the last to claim its serial.
LEMMA BeginsCurrent ==
  ASSUME TypeInv, FileOK(file), Orderly(file), NEW k \in DOMAIN file, NEW src, file[k].page.src = src,
         Begun(src), src \notin Fishead
  PROVE  /\ Current(file, Begins(src), file[k].page.serial, k)
         /\ Count(file, Begins(src)) = Need[src]
         /\ \A m \in DOMAIN file : Begins(src) <= m /\ m <= k /\ file[m].page.serial = file[k].page.serial =>
              file[m].page.src = src
<1> DEFINE b == Begins(src)
           x == file[k].page.serial
<1>1. \E m \in PagesOf(src) : file[m].page.bos
  <2>1. PICK m \in DOMAIN file : file[m].page.bos /\ file[m].page.src = file[k].page.src
    BY DEF Orderly
  <2>2. m \in PagesOf(src)
    BY <2>1 DEF PagesOf
  <2>3. QED BY <2>1, <2>2
<1>2. b \in DOMAIN file /\ file[b].page.src = src /\ file[b].page.bos /\ Alive(file, b)
  <2>1. b \in PagesOf(src) /\ file[b].page.bos
    BY <1>1 DEF Begins
  <2>2. QED BY <2>1 DEF PagesOf, Begun, Survives
<1> HIDE DEF b
<1>3. file[b].page.serial = x /\ b <= k /\ b \in Nat /\ k \in Nat
  <2>1. file[b].page.serial = file[k].page.serial /\ b <= k
    BY <1>2 DEF Orderly
  <2>2. QED BY <1>2, <2>1, FileOKFacts
<1>4. file[b].page.segs[1].src = src
  <2>1. 1 \in DOMAIN file[b].page.segs
    BY <1>2, FileFacts, PageFacts DEF TypeInv
  <2>2. QED BY <1>2, <2>1 DEF Orderly
<1>5. Opens(file, b, x)
  BY <1>2, <1>3, <1>4 DEF Opens, IsFishead
<1>6. ASSUME NEW m \in DOMAIN file, b <= m, m <= k, file[m].page.serial = x PROVE file[m].page.src = src
  <2>1. m \in Nat
    BY FileOKFacts
  <2>2. m = b \/ m = k \/ (b < m /\ m < k)
    BY <1>3, <1>6, <2>1
  <2>3. CASE b < m /\ m < k
    BY <1>2, <1>3, <1>6, <2>3 DEF Orderly
  <2>4. QED BY <1>2, <2>2, <2>3
<1>7. ASSUME NEW m \in b + 1 .. k, Claims(file, m, x) PROVE FALSE
  <2>1. m \in DOMAIN file /\ b < m /\ m <= k /\ m \in Nat
    <3>1. DOMAIN file = 1 .. Len(file) /\ Len(file) \in Nat
      BY FileOKFacts
    <3>2. QED BY <1>2, <1>3, <3>1
  <2>2. file[m].page.src = src /\ file[m].page.bos
    BY <1>3, <1>6, <1>7, <2>1 DEF Claims
  <2>3. m <= b
    BY <1>2, <2>1, <2>2 DEF Orderly
  <2>4. QED BY <1>3, <2>1, <2>3
<1>8. QED BY <1>3, <1>4, <1>5, <1>6, <1>7 DEF Current, Count, b

LEMMA FlowHeads == TypeInv /\ FileOK(file) /\ Orderly(file) /\ HeadFlow => HeadersKeptBack
<1> SUFFICES ASSUME TypeInv, FileOK(file), Orderly(file), HeadFlow,
                    NEW i \in DOMAIN delivered, Truthful, Begun(Src(delivered[i].packet))
             PROVE  Pkt(delivered[i].packet) \notin 1 .. Need[Src(delivered[i].packet)]
  BY DEF HeadersKeptBack
<1> DEFINE p == delivered[i].packet
           src == Src(p)
<1>1. i \in DOMAIN Out /\ Out[i].packet = p
  <2> DEFINE D == Delivery
  <2>1. out_queue \in Seq(D) /\ delivered \in Seq(D)
    BY DEF TypeInv, QueueInv
  <2> HIDE DEF D
  <2>2. QED BY <2>1 DEF Out
<1> HIDE DEF p
<1>2. PICK k, a : Emitted(file, p, k, a) /\ Backed(file, k, a)
  BY <1>1 DEF HeadFlow, HeadsAt, OutHeads
<1>3. /\ k \in DOMAIN file /\ a \in DOMAIN file[k].page.segs
      /\ file[k].page.segs[a].src = src /\ file[k].page.segs[a].pkt = Pkt(p)
      /\ file[k].page.segs[a].part = file[k].page.segs[a].of
  <2>1. EndsAt(file, p, k, a) /\ file[k].page.segs[a].term /\ Honest(file) /\ p[1].part = 1
    BY <1>2 DEF Emitted, Started, Truthful
  <2>2. k \in DOMAIN file /\ a \in DOMAIN file[k].page.segs
    BY <2>1 DEF EndsAt
  <2>3. QED BY <2>1, <2>2, WholePacket
<1>4. src = file[k].page.src
  BY <1>3 DEF Orderly
<1>5. Begun(src)
  BY DEF p
<1> HIDE DEF src
<1>6. CASE src \in Fishead
  <2>1. Need[src] = 0
    BY <1>6, DemuxAssumption
  <2>2. 1 .. 0 = {}
    OBVIOUS
  <2>3. QED BY <2>1, <2>2 DEF p, src
<1>7. CASE src \notin Fishead
  <2> DEFINE b == Begins(src)
             n == Need[src]
             x == file[k].page.serial
  <2>1. /\ Current(file, b, x, k) /\ Count(file, b) = n
        /\ \A m \in DOMAIN file : b <= m /\ m <= k /\ file[m].page.serial = x => file[m].page.src = src
    BY <1>3, <1>4, <1>5, <1>7, BeginsCurrent
  <2> HIDE DEF b
  <2>2. n \in Nat
    <3>1. src \in Sources
      BY <1>3, <1>4, FileOKFacts, PageFacts
    <3>2. QED BY <3>1, DemuxAssumption
  <2> HIDE DEF n
  <2>3. PICK t, q : Trail(file, b, x, n, t, q) /\ \A d \in 1 .. n : Earlier(t[d], q[d], k, a)
    BY <2>1, <1>2 DEF Backed
  <2>4. ASSUME NEW d \in 1 .. n
        PROVE  /\ t[d] \in DOMAIN file /\ q[d] \in DOMAIN file[t[d]].page.segs
               /\ file[t[d]].page.segs[q[d]].src = src
               /\ file[t[d]].page.segs[q[d]].part = file[t[d]].page.segs[q[d]].of
               /\ file[t[d]].page.segs[q[d]].pkt >= 1 /\ file[t[d]].page.segs[q[d]].pkt \in Nat
    <3>1. /\ t[d] \in DOMAIN file /\ b <= t[d] /\ file[t[d]].page.serial = x
          /\ q[d] \in DOMAIN file[t[d]].page.segs /\ file[t[d]].page.segs[q[d]].term
      BY <2>3 DEF Trail
    <3>2. t[d] <= k
      <4>1. t[d] < k \/ t[d] = k
        BY <2>3 DEF Earlier
      <4>2. t[d] \in Nat /\ k \in Nat
        BY <1>3, <3>1, FileOKFacts
      <4>3. QED BY <4>1, <4>2
    <3>3. file[t[d]].page.src = src
      BY <2>1, <3>1, <3>2
    <3>4. file[t[d]].page.segs[q[d]].src = src /\ file[t[d]].page.segs[q[d]].pkt >= 1
      BY <1>7, <3>1, <3>3 DEF Orderly
    <3>5. file[t[d]].page.segs[q[d]].part = file[t[d]].page.segs[q[d]].of
      <4>1. file[t[d]].page.segs[q[d]].term <=> file[t[d]].page.segs[q[d]].part = file[t[d]].page.segs[q[d]].of
        BY <3>1 DEF Truthful, Honest
      <4>2. QED BY <3>1, <4>1
    <3>6. file[t[d]].page.segs[q[d]].pkt \in Nat
      BY <3>1, SegFacts DEF Segment
    <3>7. QED BY <3>1, <3>4, <3>5, <3>6
  <2> DEFINE g == [d \in 1 .. n |-> file[t[d]].page.segs[q[d]].pkt]
  <2>5. \A d \in 1 .. n : g[d] = file[t[d]].page.segs[q[d]].pkt
    OBVIOUS
  <2> HIDE DEF g
  <2>6. ASSUME NEW d \in 1 .. n, NEW e \in 1 .. n, d < e PROVE g[d] < g[e]
    <3>1. Earlier(t[d], q[d], t[e], q[e])
      BY <2>3, <2>6 DEF Trail
    <3>2. SamePart(file[t[d]].page.segs[q[d]], file[t[e]].page.segs[q[e]])
      BY <1>7, <2>4 DEF SamePart
    <3>3. file[t[d]].page.segs[q[d]].pkt < file[t[e]].page.segs[q[e]].pkt
      BY <2>4, <3>1, <3>2, LaidInOrder
    <3>4. QED BY <2>5, <3>3
  <2>7. \A d \in 1 .. n : g[d] >= d /\ g[d] \in Nat
    <3>1. \A d \in 1 .. n : g[d] \in Nat /\ g[d] >= 1
      BY <2>4, <2>5
    <3>2. QED BY <2>2, <2>6, <3>1, CountedUp
  <2>8. CASE n = 0
    BY <2>8 DEF n, p, src
  <2>9. CASE n # 0
    <3>1. n \in 1 .. n
      BY <2>2, <2>9
    <3>2. SamePart(file[t[n]].page.segs[q[n]], file[k].page.segs[a])
      BY <1>3, <1>7, <2>4, <3>1 DEF SamePart
    <3>3. g[n] < Pkt(p)
      BY <1>3, <2>3, <2>4, <2>5, <3>1, <3>2, LaidInOrder
    <3>4. Pkt(p) \in Nat
      BY <1>3, SegFacts DEF Segment
    <3>5. Pkt(p) \notin 1 .. n
      BY <2>2, <2>7, <3>1, <3>3, <3>4
    <3>6. QED BY <3>5 DEF n, p, src
  <2>10. QED BY <2>8, <2>9
<1>8. QED BY <1>6, <1>7

\* Of every file of such bitstreams where each keeps its serial and begins with
\* its BOS page, whatever pages are lost or damaged, next_packet delivers no
\* header of a bitstream whose first page is there: not after a restart of its
\* serial, not after build_seek_index, nor when headers are missing.
THEOREM HeadersHeld == ASSUME Faithful PROVE Spec => [](Orderly(file) => HeadersKeptBack)
<1> SUFFICES ASSUME Faithful PROVE Spec => [](Orderly(file) => HeadersKeptBack)
  OBVIOUS
<1>1. TypeInv => FileOK(file)
  <2>1. TypeInv => file \in Files /\ file \in Seq(Item)
    BY FileFacts DEF TypeInv, FileInv
  <2>2. QED BY <2>1 DEF Faithful, FileOK
<1>2. TypeInv /\ HeadFlow /\ [Next]_vars => HeadFlow'
  BY <1>1, HeadFlowKept
<1>3. TypeInv /\ HeadFlow => (Orderly(file) => HeadersKeptBack)
  BY <1>1, FlowHeads
<1>4. Init => HeadFlow
  <2> SUFFICES ASSUME Init PROVE HeadFlow
    OBVIOUS
  <2>1. FileOK(file)
    BY <1>1, TypesAtFirst
  <2>2. FlowAt(1) /\ HeadsAt(1)
    BY <2>1, FlowAtFirst, HeadsAtFirst
  <2>3. QED BY <2>2 DEF HeadFlow
<1>5. QED BY AlwaysTyped, <1>2, <1>3, <1>4, PTL DEF Spec

=============================================================================
