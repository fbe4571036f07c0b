------------------------------ MODULE MCOggRemux ------------------------------
(* A TLC instance of OggRemux: packets of 0 .. 7 bytes with full lacing 3, so  *)
(* that a size takes one to three lacing values; FLAC metadata of up to three  *)
(* blocks behind STREAMINFO, bare, behind fLaC, or behind a mapping header.    *)
EXTENDS OggRemux

Bytes(first, n) == [i \in 1 .. n |-> (first + i) % (Full + 1)]
Laced == {XiphLace(<<Bytes(1, a), Bytes(2, b), Bytes(3, c)>>) : a, b, c \in 0 .. 7}

Tails == UNION {[1 .. n -> {"comment", "padding", "seektable", "application", "picture"}] : n \in 0 .. 3}
Metadata(kinds) ==
  <<Block("streaminfo", kinds = <<>>, "info")>>
  \o [i \in DOMAIN kinds |-> Block(kinds[i], i = Len(kinds), <<"b1", "b2", "b3">>[i])]
Flac == {prefix \o Metadata(kinds) :
           prefix \in {<<>>, <<Signature>>, <<Mapping(0), Signature>>, <<Mapping(3), Signature>>}, kinds \in Tails}

Blobs(id) == CASE id = "vorbis" -> Laced [] id = "theora" -> {XiphLace(<<<<1, 2>>, <<3, 3, 0>>, <<2>>>>)}
               [] id = "opus" -> {<<1>>, <<1, 2>>}
               [] OTHER -> Flac
GranuleInfos == [shift : {0, 1, 2, 4, 5, 6, 7}, count_from_one : BOOLEAN]
=============================================================================
