------------------------------- MODULE MCOggMux -------------------------------
(* TLC instances of OggMux: pages of two laces, an audio stream and a video  *)
(* (Theora) stream side by side, and a third stream as the next chain link.  *)
EXTENDS OggMux

CONSTANTS audio, video, chained

MCLinks == <<<<audio, video>>, <<chained>>>>
OneLink == <<<<audio, video>>>>
MCStreams == {audio, video, chained}

MCIndex == [s \in MCStreams |-> IF s = audio THEN 0 ELSE 3]
MCNeed  == [s \in MCStreams |-> IF s = video THEN 3 ELSE 2]
\* Speex: the comment packet is not in the extradata.
SpeexHeaders == [s \in MCStreams |-> IF s = audio THEN 1 ELSE MCNeed[s]]
MCScale == [s \in MCStreams |-> IF s = video THEN 2 ELSE 1]

Derived == -1   \* the Skeleton serial is not chosen by the caller

P(laces, pts, keyframe, boundary) ==
  [laces |-> laces, pts |-> pts, keyframe |-> keyframe, boundary |-> boundary]

\* Long and short packets, timestamps that go back, frames without one.
ChainPackets == [s \in MCStreams |->
  IF s = video THEN {P(1, -1, FALSE, TRUE), P(1, 2, TRUE, FALSE)}
  ELSE IF s = audio THEN {P(1, 1, FALSE, FALSE), P(3, 4, FALSE, TRUE), P(1, 0, FALSE, TRUE),
                          P(1, -1, FALSE, FALSE)}
  ELSE {P(1, 0, FALSE, FALSE), P(4, 3, FALSE, FALSE)}]

\* Every packet on a page of its own, keyframes or not.
IndexPackets == [s \in MCStreams |->
  IF s = video THEN {P(1, -1, FALSE, TRUE), P(1, 1, TRUE, TRUE)}
  ELSE {P(1, 0, TRUE, TRUE), P(1, 1, FALSE, FALSE), P(1, 3, TRUE, FALSE)}]
=============================================================================
