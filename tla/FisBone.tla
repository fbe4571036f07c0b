-------------------------------- MODULE FisBone --------------------------------
(***************************************************************************)
(* The fisbone packet of src/src/skeleton.rs: its message headers and the  *)
(* typed values they carry.                                                *)
(*                                                                         *)
(* A text is a sequence of tokens: a separator, a blank, or a word.  Which *)
(* words fold to which and which are numbers is given by Lower and Number. *)
(***************************************************************************)
EXTENDS Integers, Sequences, SequencesExt, FiniteSetsExt, Options

CONSTANTS
  Lower,       \* the lower-case form of the words that have capitals
  Number       \* the integer of the words that are one

-----------------------------------------------------------------------------
(* Texts.                                                                  *)

White == {" ", "CR", "LF"}

Fold(text) == [i \in DOMAIN text |-> IF text[i] \in DOMAIN Lower THEN Lower[text[i]] ELSE text[i]]

Trimmed(text) ==
  LET solid == {i \in DOMAIN text : text[i] \notin White}
  IN IF solid = {} THEN <<>> ELSE SubSeq(text, Min(solid), Max(solid))

Split(text, mark) ==
  LET ends == SelectSeq([i \in 1 .. Len(text) + 1 |-> i],
                        LAMBDA i : IF i <= Len(text) THEN text[i] = mark ELSE TRUE)
  IN [k \in DOMAIN ends |-> SubSeq(text, IF k = 1 THEN 1 ELSE ends[k - 1] + 1, ends[k] - 1)]

Joined(texts, mark) == FlattenSeq([i \in DOMAIN texts |-> IF i = 1 THEN texts[i] ELSE mark \o texts[i]])
EachTrimmed(texts)  == [i \in DOMAIN texts |-> Trimmed(texts[i])]
Filled(texts)       == SelectSeq(texts, LAMBDA text : text # <<>>)

Has(text, mark)  == \E i \in DOMAIN text : text[i] = mark
First(text, mark) == Min({i \in DOMAIN text : text[i] = mark})
Upto(text, mark) == SubSeq(text, 1, First(text, mark) - 1)
From(text, mark) == SubSeq(text, First(text, mark) + 1, Len(text))

Numeral(text) == Len(text) = 1 /\ text[1] \in DOMAIN Number
ToText(n)     == <<CHOOSE word \in DOMAIN Number : Number[word] = n>>
ToInt(text)   == IF Numeral(Trimmed(text)) THEN Some(Number[Trimmed(text)[1]]) ELSE None

-----------------------------------------------------------------------------
(* Role, and the ;key=value list it shares with Content-Type.              *)

RoleKinds ==
  {<<"text", "/", k>> : k \in {"caption", "subtitle", "textaudiodesc", "karaoke", "chapters",
                               "tickertext", "lyrics", "metadata", "annotation", "linguistic"}}
  \cup {<<"video", "/", k>> : k \in {"main", "alternate", "sign", "captioned", "subtitled"}}
  \cup {<<"audio", "/", k>> : k \in {"main", "alternate", "dub", "audiodesc", "described",
                                     "music", "speech", "sfx", "commentary"}}

Parameters(parts) ==
  LET said == Filled(EachTrimmed(parts))
      pair(p) == IF Has(p, "=") THEN <<Trimmed(Upto(p, "=")), Trimmed(From(p, "="))>> ELSE <<p, <<>>>>
  IN [i \in DOMAIN said |-> pair(said[i])]
ParametersWire(pairs) ==
  FlattenSeq([i \in DOMAIN pairs |->
    <<";">> \o pairs[i][1] \o (IF pairs[i][2] = <<>> THEN <<>> ELSE <<"=">> \o pairs[i][2])])

\* Role::parse, which never fails, and to_wire.
RoleOf(text) ==
  LET parts == Split(text, ";")
      head  == Trimmed(parts[1])
  IN [kind |-> IF Fold(head) \in RoleKinds THEN Fold(head) ELSE head,
      parameters |-> Parameters(Tail(parts))]
RoleWire(role) == role.kind \o ParametersWire(role.parameters)

-----------------------------------------------------------------------------
(* Content-Type.                                                           *)

ContentKinds == {<<"audio">>, <<"video">>, <<"text">>, <<"image">>, <<"application">>}
Kind(token) == IF Fold(token) \in ContentKinds THEN Fold(token) ELSE token

ContentTypeOf(text) ==
  LET parts == Split(Trimmed(text), ";")
      head  == Trimmed(parts[1])
  IN IF ~Has(head, "/") \/ Trimmed(Upto(head, "/")) = <<>> \/ Trimmed(From(head, "/")) = <<>>
     THEN None
     ELSE Some([kind       |-> Kind(Trimmed(Upto(head, "/"))),
                subtype    |-> Trimmed(From(head, "/")),
                parameters |-> Parameters(Tail(parts))])
ContentTypeWire(type) == type.kind \o <<"/">> \o type.subtype \o ParametersWire(type.parameters)

-----------------------------------------------------------------------------
(* Display-hint: the tag, the arguments that stay texts, and coordinates.  *)

\* DisplayCoord::parse; fractions of a percent are left out.
Coord(text) ==
  LET t == Trimmed(text)
      n == ToInt(IF Has(t, "%") /\ Last(t) = "%" THEN Front(t) ELSE t)
  IN IF n = None THEN None ELSE Some([unit |-> IF Last(t) = "%" THEN "%" ELSE "px", n |-> n[1]])
CoordWire(coord) == ToText(coord.n) \o (IF coord.unit = "%" THEN <<"%">> ELSE <<>>)

\* The hint with these arguments, unless a coordinate does not parse.
Hint(tag, arguments, coords) ==
  IF \E i \in DOMAIN coords : Coord(coords[i]) = None THEN None
  ELSE Some([tag |-> tag, arguments |-> arguments, at |-> [i \in DOMAIN coords |-> Coord(coords[i])[1]]])

DisplayHintOf(text) ==
  LET value == Trimmed(text)
      tag   == Trimmed(Upto(value, "("))
      body  == Front(From(value, "("))
      args  == IF Trimmed(body) = <<>> THEN <<>> ELSE EachTrimmed(Split(body, ","))
      bare  == IF Has(args[1], "%") /\ Last(args[1]) = "%" THEN Front(args[1]) ELSE args[1]
  IN IF ~Has(value, "(") \/ Last(value) # ")" \/ tag = <<>> THEN None
     ELSE CASE Fold(tag) = <<"pip">> ->
                 IF Len(args) \in {2, 4} THEN Hint(<<"pip">>, <<>>, args) ELSE None
            [] Fold(tag) = <<"mask">> ->
                 IF Len(args) \in {1, 3, 5} THEN Hint(<<"mask">>, <<args[1]>>, Tail(args)) ELSE None
            [] Fold(tag) = <<"transparent">> ->
                 IF Len(args) # 1 THEN None
                 ELSE IF ToInt(bare) = None THEN None
                 ELSE IF ToInt(bare)[1] \notin 0 .. 100 THEN None
                 ELSE Some([tag |-> <<"transparent">>, arguments |-> <<>>,
                            at |-> <<[unit |-> "%", n |-> ToInt(bare)[1]]>>])
            [] OTHER -> Some([tag |-> tag, arguments |-> args, at |-> <<>>])
DisplayHintWire(hint) ==
  hint.tag \o <<"(">>
  \o Joined(hint.arguments \o [i \in DOMAIN hint.at |-> CoordWire(hint.at[i])], <<",">>) \o <<")">>

-----------------------------------------------------------------------------
(* The message headers of a bone.                                          *)

Matches(bone, name) == {i \in DOMAIN bone.headers : Fold(bone.headers[i].name) = Fold(name)}

Header(bone, name) ==
  IF Matches(bone, name) = {} THEN None ELSE Some(bone.headers[Min(Matches(bone, name))].value)

SetHeader(bone, name, value) ==
  IF Matches(bone, name) # {}
  THEN [bone EXCEPT !.headers[Min(Matches(bone, name))].value = value]
  ELSE [bone EXCEPT !.headers = Append(@, [name |-> name, value |-> value])]

\* A definition marked mutant is a plausible slip in the operator below it.
RemoveFirstOnly(bone, name) ==   \* mutant: a second header of the name shows up
  IF Matches(bone, name) = {} THEN bone
  ELSE [bone EXCEPT !.headers = RemoveAt(@, Min(Matches(bone, name)))]
RemoveHeader(bone, name) ==
  [bone EXCEPT !.headers = SelectSeq(@, LAMBDA h : Fold(h.name) # Fold(name))]

Fields == {"Role", "Language", "Altitude", "Display-hint", "Content-Type", "Title", "Name"}

LanguagesOf(text) == Filled(EachTrimmed(Split(text, ",")))

\* The typed accessors, and what a typed setter writes.
Parsed(field, text) ==
  CASE field = "Role"         -> Some(RoleOf(text))
    [] field = "Language"     -> Some(LanguagesOf(text))
    [] field = "Altitude"     -> ToInt(text)
    [] field = "Display-hint" -> DisplayHintOf(text)
    [] field = "Content-Type" -> ContentTypeOf(text)
    [] OTHER                  -> Some(Trimmed(text))
ToWire(field, value) ==
  CASE field = "Role"         -> RoleWire(value)
    [] field = "Language"     -> Joined(Filled(EachTrimmed(value)), <<",", " ">>)
    [] field = "Altitude"     -> ToText(value)
    [] field = "Display-hint" -> DisplayHintWire(value)
    [] field = "Content-Type" -> ContentTypeWire(value)
    [] OTHER                  -> value

\* The accessors whose header is there; a value is a Result.
Answers(bone) ==
  [field \in {f \in Fields : Header(bone, <<f>>) # None} |-> Parsed(field, Header(bone, <<field>>)[1])]

\* set_role, set_languages, ...: a list with no tag takes the header away.
SetField(bone, field, value) ==
  IF field = "Language" /\ ToWire(field, value) = <<>>
  THEN RemoveHeader(bone, <<field>>) ELSE SetHeader(bone, <<field>>, ToWire(field, value))

-----------------------------------------------------------------------------
(* The packet: the fixed fields, an offset, and a text of lines.           *)

MsgOffset == 44

BoneBytes(bone) ==
  [bone |-> [bone EXCEPT !.headers = <<>>], offset |-> MsgOffset,
   text |-> FlattenSeq([i \in DOMAIN bone.headers |->
              bone.headers[i].name \o <<":", " ">> \o bone.headers[i].value \o <<"CR", "LF">>])]

\* parse_message_headers: a line without a colon or a name is skipped.
MessageHeaders(text) ==
  LET lines == SelectSeq(Split(text, "LF"), LAMBDA line : Has(line, ":") /\ Trimmed(Upto(line, ":")) # <<>>)
  IN [i \in DOMAIN lines |-> [name |-> Trimmed(Upto(lines[i], ":")), value |-> Trimmed(From(lines[i], ":"))]]

\* parse, None for an Err: the offset must lead into the text.
BoneOf(packet) ==
  LET skip == packet.offset - MsgOffset
  IN IF skip \notin 0 .. Len(packet.text) THEN None
     ELSE Some([packet.bone EXCEPT !.headers =
                  MessageHeaders(SubSeq(packet.text, skip + 1, Len(packet.text)))])
=============================================================================
