---------------------------- MODULE MCOggValidate ----------------------------
(* TLC instances of OggValidate: conformant files of two links, whole, with up *)
(* to two pages lost or unreadable, and with up to two pages altered.          *)
EXTENDS OggValidate, FiniteSetsExt

\* A line of a file: serial, what the page completes, granule.  The laces of a
\* page that completes nothing are all full, "both" ends a packet and opens one.
Laces == [done |-> <<FALSE>>, both |-> <<FALSE, TRUE>>, open |-> <<TRUE>>, nil |-> <<>>]

File(lines) == [k \in DOMAIN lines |->
  LET same == {j \in DOMAIN lines : lines[j][1] = lines[k][1]}
      before == {j \in same : j < k}
      prior == IF before = {} THEN <<>> ELSE Laces[lines[Max(before)][2]]
  IN [state |-> "ok", claims |-> lines[k][1],
      page |-> [serial |-> lines[k][1], seq |-> Cardinality(before), bos |-> before = {},
                eos |-> k = Max(same), cont |-> prior # <<>> /\ Last(prior),
                granule |-> lines[k][3], laces |-> Laces[lines[k][2]]]]]

\* The second link opens with a bitstream of one page.
TwoLinks == File(<<
  <<1, "done", 0>>, <<2, "done", 0>>, <<1, "both", 1>>, <<2, "done", 1>>, <<1, "open", -1>>,
  <<1, "done", 3>>, <<2, "done", 1>>, <<1, "nil", 3>>, <<4, "done", 2>>, <<3, "done", 0>>,
  <<3, "done", 4>>>>)
Short == File(<<<<1, "done", 0>>, <<2, "done", 0>>, <<1, "both", 2>>, <<2, "done", 1>>,
                <<1, "done", 2>>, <<3, "done", 0>>, <<3, "done", 1>>>>)
Bases == {TwoLinks, Short}

\* Up to two pages that are not read, a claimed serial true or not.
Faults == {"lost", "damaged", "junk", "version", "cut"}
Broken(f) == {[k \in DOMAIN f |-> IF k \in DOMAIN faults THEN [f[k] EXCEPT !.state = faults[k]] ELSE f[k]] :
              faults \in UNION {[ks -> Faults] : ks \in {{a, b} : a, b \in DOMAIN f} \cup {{}}}}
\* One page altered, whichever field, left out, repeated, or put elsewhere.
Altered(f) ==
  UNION {{[f EXCEPT ![k].page.seq = n] : n \in 0 .. 4}
         \cup {[f EXCEPT ![k].page.granule = g] : g \in -2 .. 3}
         \cup {[f EXCEPT ![k].page.laces = Laces[l]] : l \in DOMAIN Laces}
         \cup {[f EXCEPT ![k].page.serial = s] : s \in 1 .. 3}
         \cup {[f EXCEPT ![k].page.bos = ~@], [f EXCEPT ![k].page.eos = ~@],
               [f EXCEPT ![k].page.cont = ~@], RemoveAt(f, k), InsertAt(f, k, f[k])}
         \cup {InsertAt(RemoveAt(f, k), j, f[k]) : j \in DOMAIN f}
         : k \in DOMAIN f}
\* A damaged page whose serial is spoilt too, and a page lost.
Misclaimed(f) ==
  UNION {{[f EXCEPT ![k].state = "damaged", ![k].claims = s, ![j].state = "lost"] :
          s \in 1 .. 5, j \in DOMAIN f \ {k}} : k \in DOMAIN f}
ValidateInit ==
  /\ \/ \E f \in Bases : file \in Broken(f) \cup Altered(f)
     \/ \E f \in Altered(Short) : file \in Altered(f)
     \/ file \in Misclaimed(TwoLinks) \cup {<<>>}
  /\ Init
ValidateSpec == ValidateInit /\ [][Next]_vars
BrokenInit == file \in Broken(TwoLinks) /\ Init
BrokenSpec == BrokenInit /\ [][Next]_vars
=============================================================================
