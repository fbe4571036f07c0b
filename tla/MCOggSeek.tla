------------------------------- MODULE MCOggSeek -------------------------------
(* TLC instances of OggSeek: files of MCOggDemux, and one with a Skeleton that *)
(* has a bone for the audio stream and indexes for both.                       *)
EXTENDS OggSeek, MCOggDemux

MCPreSkip == [src \in Sources |-> IF src \in Opus THEN 1 ELSE 0]
MCTick == [src \in Sources |-> IF src = video THEN 6 ELSE 2]

Indexed == <<
  <<skel, Only(1)>>, <<video, Only(1)>>, <<audio, Only(1)>>, <<skel, Only(2)>>,
  <<video, <<<<2, 1, 1>>, <<3, 1, 1>>>>>>, <<audio, Only(2)>>,
  <<skel, <<<<3, 1, 1>>, <<4, 1, 1>>>>>>, <<skel, <<<<0, 1, 1>>>>>>,
  <<video, Only(4)>>, <<audio, Only(3)>>, <<audio, <<<<4, 1, 2>>>>>>, <<video, <<<<5, 1, 1>>, <<6, 1, 1>>>>>>,
  <<audio, <<<<4, 2, 2>>, <<5, 1, 1>>>>>>, <<audio, Only(6)>>, <<video, Only(7)>>>>

\* Offsets in units of 3 a page; the second audio keypoint is one page early.
MCIndexes == {
  [src |-> skel, pkt |-> 3, serial |-> 2,
   keypoints |-> <<[time |-> 0, off |-> 24], [time |-> 12, off |-> 33]>>],
  [src |-> skel, pkt |-> 4, serial |-> 1,
   keypoints |-> <<[time |-> 0, off |-> 27], [time |-> 6, off |-> 28], [time |-> 13, off |-> 36]>>]}
MCBones == {[src |-> skel, pkt |-> 2, serial |-> 1, preroll |-> 2, headers |-> 2,
            basegranule |-> 1]}

\* Packets of both streams begin on one page and end on another.
Pair == <<
  <<video, Only(1)>>, <<audio, Only(1)>>, <<video, <<<<2, 1, 1>>, <<3, 1, 1>>>>>>, <<audio, Only(2)>>,
  <<video, <<<<4, 1, 1>>, <<5, 1, 2>>>>>>, <<audio, <<<<3, 1, 2>>>>>>,
  <<video, <<<<5, 2, 2>>, <<6, 1, 1>>>>>>, <<audio, <<<<3, 2, 2>>, <<4, 1, 1>>>>>>, <<video, Only(7)>>>>

\* The video ends half-way: the bisection meets windows without a page of it.
Early == <<
  <<video, Only(1)>>, <<audio, Only(1)>>, <<video, <<<<2, 1, 1>>, <<3, 1, 1>>>>>>, <<audio, Only(2)>>,
  <<audio, Only(3)>>, <<video, Only(4)>>, <<audio, Only(4)>>, <<audio, Only(5)>>, <<audio, Only(6)>>>>

\* A bone that asks for a preroll, and no keyframe index.
Boned == <<
  <<skel, Only(1)>>, <<audio, Only(1)>>, <<skel, Only(2)>>, <<audio, Only(2)>>, <<skel, <<<<0, 1, 1>>>>>>,
  <<audio, Only(3)>>, <<audio, <<<<4, 1, 2>>>>>>, <<audio, <<<<4, 2, 2>>>>>>, <<audio, Only(5)>>,
  <<audio, Only(6)>>>>

SeekFiles ==
  {Intacts(Pages(l, MCSerial)) : l \in {Pair, Chain, Indexed, Early, Boned}}
  \cup {[Intacts(Pages(Pair, MCSerial)) EXCEPT ![7].state = "lost"]}
OneFile(layout) == {Intacts(Pages(layout, MCSerial))}
PairFile == OneFile(Pair)
ChainFile     == OneFile(Chain)
=============================================================================
