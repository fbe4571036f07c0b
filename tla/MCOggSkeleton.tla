---------------------------- MODULE MCOggSkeleton ----------------------------
(* A TLC instance of OggSkeleton: two or three calls, the header lines of the *)
(* message-header page in other spellings, three files of other programs.     *)
EXTENDS OggSkeleton

Lowered == [Audio |-> "audio", VIDEO |-> "video", MAIN |-> "main", EN |-> "en", ROLE |-> "role",
            Role |-> "role", Language |-> "language", LANGUAGE |-> "language", Altitude |-> "altitude",
            Title |-> "title", Name |-> "name", Mask |-> "mask", Ogg |-> "ogg"]
           @@ ("Content-Type" :> "content-type") @@ ("Display-hint" :> "display-hint")
Numbers == ("0" :> 0) @@ ("7" :> 7) @@ ("-2" :> -2) @@ ("40" :> 40) @@ ("140" :> 140)

CodecLists == {<<"vorbis", "other">>, <<"theora">>}

Plain(kind) == [kind |-> kind, parameters |-> <<>>]
Mime(kind, subtype) == [kind |-> kind, subtype |-> subtype, parameters |-> <<>>]
At(tag, arguments, at) == [tag |-> tag, arguments |-> arguments, at |-> at]
Px(n) == [unit |-> "px", n |-> n]
Percent(n) == [unit |-> "%", n |-> n]

Typed == [
  Role     |-> {Plain(<<"audio", "/", "main">>),
                [kind |-> <<"text", "/", "lyrics">>, parameters |-> <<<<<<"lang">>, <<"EN">>>>, <<<<"x">>, <<>>>>>>]},
  Language |-> {<<>>, <<<<" ">>, <<"EN">>, <<"fr">>>>, <<<<" ">>>>},
  Altitude |-> {-2, 7},
  Title    |-> {<<"a", " ", "tune">>},
  Name     |-> {<<"voice">>}]
  @@ ("Display-hint" :> {At(<<"pip">>, <<>>, <<Px(0), Percent(40)>>),
                         At(<<"mask">>, <<<<"img">>>>, <<Px(0), Px(7), Percent(40), Px(7)>>),
                         At(<<"transparent">>, <<>>, <<Percent(40)>>),
                         At(<<"spin">>, <<<<"7">>, <<"x">>>>, <<>>)})
  @@ ("Content-Type" :> {[Mime(<<"audio">>, <<"ogg">>) EXCEPT !.parameters = <<<<<<"codecs">>, <<"opus">>>>>>]})

Line(name, field, text, value) == [name |-> <<name>>, field |-> field, text |-> text, value |-> value]
Lines == {
  Line("ROLE", "Role", <<" ", "VIDEO", "/", "MAIN", " ", ";", ";", "a", "=", " ", "b">>,
       Some([kind |-> <<"video", "/", "main">>, parameters |-> <<<<<<"a">>, <<"b">>>>>>])),
  Line("Role", "Role", <<"other">>, Some(Plain(<<"other">>))),
  Line("language", "Language", <<"en", ",", " ", ",", "de", " ">>, Some(<<<<"en">>, <<"de">>>>)),
  Line("Altitude", "Altitude", <<"high">>, None),
  Line("altitude", "Altitude", <<" ", "7", " ">>, Some(7)),
  Line("content-type", "Content-Type", <<"Audio", "/", "Ogg">>, Some(Mime(<<"audio">>, <<"Ogg">>))),
  Line("Content-Type", "Content-Type", <<"Audio", "/", " ">>, None),
  Line("Display-hint", "Display-hint", <<"Mask", "(", "img", ",", "7", ")">>, None),
  Line("display-hint", "Display-hint", <<"transparent", " ", "(", "140", "%", ")">>, None),
  Line("display-hint", "Display-hint", <<"pip", "(", "7", ",", " ", "40", " ", "%", ")">>,
       Some(At(<<"pip">>, <<>>, <<Px(7), Percent(40)>>))),
  Line("Name", "Name", <<" ", "voice">>, Some(<<"voice">>))}

\* Files of other programs: a header said twice, other spacing, lines that are
\* none, an offset past its text or beyond it, an index cut short, a short head.
Bone(n) == [serial |-> n, headers |-> <<>>]
Packet(magic, body) == [magic |-> magic, body |-> body]
BonePacket(n, offset, text) == Packet("fisbone", [bone |-> Bone(n), offset |-> offset, text |-> text])
Twice == <<"Role", ":", "Audio", "/", "MAIN", "CR", "LF", " ", "ROLE", " ", ":", " ", "other", "LF",
           "tune", "LF", ":", "7", "LF", "language", ":", "EN", "CR", "LF", "LF", "Name", ":", "voice">>
Past  == <<"x", "x", "Title", ":", "tune", "CR", "LF">>
Times == [serial |-> 0, denominator |-> 3, first |-> 1, last |-> 5]
Cut   == Packet("index", [index |-> [keypoints |-> <<>>] @@ Times, n |-> 2,
                          bytes |-> <<[chunk |-> 1, last |-> FALSE], [chunk |-> 1, last |-> TRUE],
                                      [chunk |-> 2, last |-> TRUE], [chunk |-> 0, last |-> FALSE]>>])
Whole == Packet("index", [Cut.body EXCEPT !.n = 1])
MeantTwice == [Role |-> Some(Plain(<<"audio", "/", "main">>)), Language |-> Some(<<<<"EN">>>>),
               Name |-> Some(<<"voice">>)]
MeantIndex == [keypoints |-> <<[offset |-> 5, timestamp |-> 2]>>] @@ Times
FisHead(version, long) == Packet("fishead", [version |-> version, long |-> long])
Files == {
  [packets |-> <<FisHead(4, TRUE), BonePacket(0, 44, Twice), Cut, BonePacket(1, 46, Past), Whole>>,
   meant |-> [version |-> Some(4), bones |-> <<MeantTwice, [Title |-> Some(<<"tune">>)]>>,
              indexes |-> <<MeantIndex>>]],
  [packets |-> <<FisHead(3, FALSE), BonePacket(0, 43, Twice), BonePacket(1, 99, Past),
                 BonePacket(2, 44, <<>>)>>,
   meant |-> [version |-> Some(3), bones |-> <<<<>>>>, indexes |-> <<>>]],
  [packets |-> <<FisHead(4, FALSE)>>, meant |-> Nothing]}

KP(offset, timestamp) == [offset |-> offset, timestamp |-> timestamp]
Tables == {
  [keypoints |-> <<KP(4, -3), KP(4, 2), KP(30, 6)>>] @@ Times,
  [serial |-> 1, denominator |-> 2, first |-> -3, last |-> 4, keypoints |-> <<KP(9, 2)>>],
  [serial |-> 2, denominator |-> 0, first |-> 0, last |-> 7, keypoints |-> <<>>]}
Points == {KP(9, 1), KP(31, 15)}
Seeks == {<<-100, 1>>, <<-3, 2>>, <<-1, 1>>, <<1, 2>>, <<2, 3>>, <<1, 1>>, <<7, 3>>, <<3, 1>>, <<100, 1>>}
=============================================================================
