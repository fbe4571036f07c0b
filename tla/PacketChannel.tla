---------------------------- MODULE PacketChannel ----------------------------
(***************************************************************************)
(* What framing promises, pages forgotten: packets go in, and whole packets*)
(* come out unchanged, in order, each at most once.  Packets may be skipped*)
(* (a reader that joins late or lost pages), never damaged.                *)
(***************************************************************************)
EXTENDS Integers, Sequences

CONSTANTS Payload, Granule

VARIABLES sent, got

vars == <<sent, got>>

\* Number of the last packet delivered, 0 before any.
LastTaken == IF got = <<>> THEN 0 ELSE got[Len(got)].pkt

Init == sent = <<>> /\ got = <<>>

Send(data, granule) ==
  /\ sent' = Append(sent, [data |-> data, granule |-> granule])
  /\ UNCHANGED got

Deliver(n) ==
  /\ n > LastTaken
  /\ got' = Append(got, [pkt |-> n, data |-> sent[n].data])
  /\ UNCHANGED sent

Next ==
  \/ \E data \in Payload, granule \in Granule : Send(data, granule)
  \/ \E n \in 1 .. Len(sent) : Deliver(n)

Spec == Init /\ [][Next]_vars
=============================================================================
