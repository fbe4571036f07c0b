------------------------------ MODULE OggSkeleton ------------------------------
(***************************************************************************)
(* The Skeleton of src/src/skeleton.rs: a writer fills it call by call and *)
(* turns it into packets, a reader builds one from the packets of a file   *)
(* and asks it for tracks, stack order and seek offsets.                   *)
(*                                                                         *)
(* What a bone makes of a granule is in TheoraGranule; the UTC text of     *)
(* a fishead is left out; a file is the list of its packets.               *)
(***************************************************************************)
EXTENDS Integers, Sequences, FiniteSets, SequencesExt, TLC, FisBone, SkelIndex

CONSTANTS
  Streams,                 \* the codecs of the streams it is made for, a sequence
  Versions,                \* Skeleton major versions, 3 and 4
  Values,                  \* per field, the typed values callers set
  Sayings,                 \* header lines callers set: [name, text, field, value]
  Foreign,                 \* files of other programs: [packets, meant]
  Indexes,                 \* the indexes callers push
  KeyPoints,               \* the keypoints callers push
  Targets,                 \* the times callers seek
  MaxCalls                 \* bound: calls that change the writer's Skeleton

VARIABLES
  skel,        \* [version, bones, indexes], the fields of Skeleton
  file,        \* the packets written, or found
  calls,
  meant,       \* history: what the writer meant, [version, bones, indexes]
  posted       \* history: what the file is meant to say

vars == <<skel, file, calls, meant, posted>>

Nothing == [version |-> None, bones |-> <<>>, indexes |-> <<>>]

Init ==
  /\ skel = Nothing /\ meant = Nothing /\ calls = 0
  /\ \E f \in {[packets |-> <<>>, meant |-> Nothing]} \cup Foreign :
       file = f.packets /\ posted = f.meant

-----------------------------------------------------------------------------
(* The writer.  What a call means is said in typed values: per bone a      *)
(* partial function of the fields, per index its keypoints as pushed.      *)

Call == calls < MaxCalls /\ calls' = calls + 1 /\ UNCHANGED <<file, posted>>

\* default_content_type_for
DefaultType(codec) ==
  LET type(kind) == Some([kind |-> <<kind>>, subtype |-> <<codec>>, parameters |-> <<>>])
  IN IF codec = "vorbis" THEN type("audio") ELSE IF codec = "theora" THEN type("video") ELSE None

\* from_streams; the codecs of the streams give their Content-Type.
FromStreams ==
  /\ skel = Nothing
  /\ \E codecs \in Streams, version \in Versions :
       LET type(i) == DefaultType(codecs[i])
           bone(i) == [serial |-> i, headers |-> <<>>]
       IN /\ skel' = [version |-> Some(version), indexes |-> <<>>, bones |-> [i \in DOMAIN codecs |->
                         IF type(i) = None THEN bone(i)
                         ELSE SetHeader(bone(i), <<"Content-Type">>, ContentTypeWire(type(i)[1]))]]
          /\ meant' = [version |-> Some(version), indexes |-> <<>>, bones |-> [i \in DOMAIN codecs |->
                          IF type(i) = None THEN <<>> ELSE "Content-Type" :> type(i)]]
  /\ UNCHANGED <<file, calls, posted>>

Means(b, field, result) == meant' = [meant EXCEPT !.bones[b] = (field :> result) @@ @]
Unsays(b, field) ==
  meant' = [meant EXCEPT !.bones[b] = [f \in DOMAIN @ \ {field} |-> @[f]]]

\* set_role, set_content_type, set_display_hint, set_languages, set_altitude, ...
SetTyped ==
  /\ Call
  /\ \E b \in DOMAIN skel.bones, field \in Fields : \E value \in Values[field] :
       /\ skel' = [skel EXCEPT !.bones[b] = SetField(@, field, value)]
       /\ IF field # "Language" THEN Means(b, field, Some(value))
          ELSE LET tags == SelectSeq(value, LAMBDA tag : tag # <<" ">>)
               IN IF tags = <<>> THEN Unsays(b, field) ELSE Means(b, field, Some(tags))

\* set_header with a name and a value of the caller's spelling.
SetLine ==
  /\ Call
  /\ \E b \in DOMAIN skel.bones, saying \in Sayings :
       /\ skel' = [skel EXCEPT !.bones[b] = SetHeader(@, saying.name, saying.text)]
       /\ Means(b, saying.field, saying.value)

RemoveLine ==
  /\ Call
  /\ \E b \in DOMAIN skel.bones, saying \in Sayings :
       /\ skel' = [skel EXCEPT !.bones[b] = RemoveHeader(@, saying.name)]
       /\ Unsays(b, saying.field)

\* push_index of an index the caller made.
PushIndex ==
  /\ Call
  /\ \E index \in Indexes :
       /\ skel' = [skel EXCEPT !.indexes = Append(@, index)]
       /\ meant' = [meant EXCEPT !.indexes = Append(@, index)]

\* SkelIndex::push appends, whatever the order.
Push ==
  /\ Call
  /\ \E i \in DOMAIN skel.indexes, point \in KeyPoints :
       /\ skel' = [skel EXCEPT !.indexes[i].keypoints = Append(@, point)]
       /\ meant' = [meant EXCEPT !.indexes[i].keypoints = Append(@, point)]

-----------------------------------------------------------------------------
(* The file.                                                               *)

\* FisHead::to_bytes and parse: 4.0 packets have two fields more.
HeadOf(packet) == IF packet.version >= 4 /\ ~packet.long THEN None ELSE Some(packet.version)
HeadBytes(version) == [version |-> version, long |-> version >= 4]

Packets(magic, seq, Bytes(_)) == [i \in DOMAIN seq |-> [magic |-> magic, body |-> Bytes(seq[i])]]
Send ==
  /\ skel # Nothing
  /\ file' = Packets("fishead", skel.version, HeadBytes) \o Packets("fisbone", skel.bones, BoneBytes)
             \o Packets("index", skel.indexes, IndexBytes)
  /\ posted' = meant
  /\ UNCHANGED <<skel, calls, meant>>

\* What the reader keeps of the packets of one kind: those that parse.
Read(magic, Of(_)) ==
  FlattenSeq([i \in DOMAIN file |-> IF file[i].magic = magic THEN Of(file[i].body) ELSE None])

\* The first packet is the fishead; without one the file does not open.
Receive ==
  /\ file # <<>> /\ file[1].magic = "fishead" /\ HeadOf(file[1].body) # None
  /\ skel' = [version |-> HeadOf(file[1].body), bones |-> Read("fisbone", BoneOf),
              indexes |-> Read("index", IndexOf)]
  /\ meant' = posted
  /\ UNCHANGED <<file, calls, posted>>

Next ==
  \/ FromStreams \/ SetTyped \/ SetLine \/ RemoveLine \/ PushIndex \/ Push
  \/ Send \/ Receive

Spec == Init /\ [][Next]_vars

-----------------------------------------------------------------------------
(* What a caller asks.                                                     *)

\* A typed accessor whose Ok value is asked for.
Get(b, field, Of(_)) ==
  LET header == Header(skel.bones[b], <<field>>) IN IF header = None THEN None ELSE Of(header[1])
Role(b)      == Get(b, "Role", LAMBDA text : Some(RoleOf(text)))
Languages(b) == Get(b, "Language", LAMBDA text : Some(LanguagesOf(text)))
Type(b)      == Get(b, "Content-Type", ContentTypeOf)
Name(b)      == Get(b, "Name", LAMBDA text : Some(Trimmed(text)))
Altitude(b)  == Get(b, "Altitude", ToInt)

\* bones_with_role, _language, _dominant_language, _content_kind, _content_type
\* and bones_for_name, the indices of the bones they list.
BonesWhere(Value(_), Is(_)) ==
  {b \in DOMAIN skel.bones : LET value == Value(b) IN value # None /\ Is(value[1])}
BonesWithRole(tag)     == BonesWhere(Role, LAMBDA role : Fold(role.kind) = Fold(Trimmed(tag)))
BonesWithLanguage(tag) ==
  BonesWhere(Languages, LAMBDA tags : \E i \in DOMAIN tags : Fold(tags[i]) = Fold(Trimmed(tag)))
BonesWithDominant(tag) ==
  BonesWhere(Languages, LAMBDA tags : tags # <<>> /\ Fold(tags[1]) = Fold(Trimmed(tag)))
BonesWithType(mime) ==
  LET head == Trimmed(Split(mime, ";")[1])
  IN IF ~Has(head, "/") \/ Trimmed(From(head, "/")) = <<>> THEN {}
     ELSE BonesWhere(Type, LAMBDA type : /\ Fold(type.kind) = Fold(Trimmed(Upto(head, "/")))
                                         /\ Fold(type.subtype) = Fold(Trimmed(From(head, "/"))))
BonesForName(name) == BonesWhere(Name, LAMBDA said : said = Trimmed(name))
\* bone_for_name: a name two bones have names neither.
BoneForName(name) ==
  LET named == BonesForName(name)
  IN IF Cardinality(named) = 1 THEN Some(CHOOSE b \in named : TRUE) ELSE None

Mains == {<<"audio", "/", "main">>, <<"video", "/", "main">>}
\* bones_by_stack_order: a stable sort, a main track without an altitude below all.
UnparsedAsAbsent(b) ==   \* mutant: an altitude that does not parse makes a main track a plain one
  IF Header(skel.bones[b], <<"Altitude">>) # None
  THEN <<1, IF Altitude(b) = None THEN 0 ELSE Altitude(b)[1]>>
  ELSE IF Role(b) # None /\ Fold(Role(b)[1].kind) \in Mains THEN <<0, 0>> ELSE <<1, 0>>
StackKey(b) ==
  IF Altitude(b) # None THEN <<1, Altitude(b)[1]>>
  ELSE IF Role(b) # None /\ Fold(Role(b)[1].kind) \in Mains THEN <<0, 0>> ELSE <<1, 0>>
StackOrder ==
  LET key == [b \in DOMAIN skel.bones |-> StackKey(b)]
      below(a, b) == \/ key[a][1] < key[b][1]
                     \/ key[a][1] = key[b][1] /\ key[a][2] < key[b][2]
                     \/ key[a] = key[b] /\ a < b
  IN SortSeq([b \in DOMAIN skel.bones |-> b], below)

-----------------------------------------------------------------------------
(* Properties.                                                             *)

Said(b, field) == IF field \in DOMAIN meant.bones[b] THEN meant.bones[b][field] ELSE None
FoundAs(field, Same(_, _), Listed(_)) ==
  \A b \in DOMAIN meant.bones : Said(b, field) # None =>
    Listed(Said(b, field)[1]) =
      {c \in DOMAIN meant.bones : Said(c, field) # None /\ Same(Said(b, field)[1], Said(c, field)[1])}

\* Whatever was said of a track last, in a typed setter, in a header line of any
\* spelling, or in a file of another program, is what its typed accessor answers,
\* malformed values included, before and after a trip through a file; a header
\* taken away stays away.  A track is listed under what was said of it and no
\* other, a name said of two tracks finds neither.
AnswersTrue ==
  /\ skel.version = meant.version /\ Len(skel.bones) = Len(meant.bones)
  /\ \A b \in DOMAIN meant.bones : Answers(skel.bones[b]) = meant.bones[b]
  /\ FoundAs("Role", LAMBDA x, y : Fold(x.kind) = Fold(y.kind), LAMBDA x : BonesWithRole(x.kind))
  /\ FoundAs("Content-Type", LAMBDA x, y : Fold(x.kind \o x.subtype) = Fold(y.kind \o y.subtype),
             LAMBDA x : BonesWithType(x.kind \o <<"/">> \o x.subtype))
  /\ FoundAs("Language", LAMBDA x, y : x # <<>> /\ y # <<>> /\ Fold(x[1]) = Fold(y[1]),
             LAMBDA x : IF x = <<>> THEN {} ELSE BonesWithDominant(x[1]) \cap BonesWithLanguage(x[1]))
  /\ \A b \in DOMAIN meant.bones : Said(b, "Name") # None =>
       BoneForName(Said(b, "Name")[1]) =
         IF \E c \in DOMAIN meant.bones \ {b} : Said(c, "Name") = Said(b, "Name") THEN None ELSE Some(b)

\* Tracks are stacked by the altitudes said of them, an altitude that does not
\* parse counts for none, a main track without one is at the very bottom, and
\* tracks of one level keep their order.
Bottom(b) == /\ Said(b, "Altitude") = None /\ Said(b, "Role") # None
             /\ Fold(Said(b, "Role")[1].kind) \in Mains
Level(b)  == IF Said(b, "Altitude") = None THEN 0 ELSE Said(b, "Altitude")[1]
Stacked ==
  LET order == StackOrder
  IN /\ {order[i] : i \in DOMAIN order} = DOMAIN skel.bones
     /\ \A i, j \in DOMAIN order : i < j =>
       LET back == order[i]  front == order[j]
       IN \/ Bottom(back) /\ (Bottom(front) => back < front)
          \/ /\ ~Bottom(front) /\ ~Bottom(back)
             /\ Level(back) < Level(front) \/ (Level(back) = Level(front) /\ back < front)

\* A seek by the indexes, before or after a trip through a file, starts at the
\* keypoint of one stream and not after that of any stream the time is covered
\* for; it finds nothing only where no stream has a keypoint as early.  The
\* duration is that of the earliest first and the latest last sample.
Covers(index, target) ==
  {k \in DOMAIN index.keypoints : index.keypoints[k].timestamp * target[2] <= target[1] * index.denominator}
SeeksSafe ==
  LET sorted  == \A i \in DOMAIN meant.indexes : Sorted(meant.indexes[i].keypoints)
      usable  == {i \in DOMAIN meant.indexes : meant.indexes[i].denominator # 0}
      floor(i, t) == Max({meant.indexes[i].keypoints[k].offset : k \in Covers(meant.indexes[i], t)})
      found(t) == {i \in usable : Covers(meant.indexes[i], t) # {}}
      time(i, n) == <<n, meant.indexes[i].denominator>>
      length == IndexedDuration(skel.indexes)[1]
      longer(i, j) == <<meant.indexes[j].last * meant.indexes[i].denominator
                          - meant.indexes[i].first * meant.indexes[j].denominator,
                        meant.indexes[i].denominator * meant.indexes[j].denominator>>
  IN sorted =>
       /\ \A t \in Targets :
            SeekOffsetForTime(skel.indexes, t) =
              IF found(t) = {} THEN None ELSE Some(Min({floor(i, t) : i \in found(t)}))
       /\ IF usable = {} THEN IndexedDuration(skel.indexes) = None
          ELSE /\ \A i, j \in usable : Before(longer(i, j), length)
               /\ \E i, j \in usable : Before(length, longer(i, j))
=============================================================================
