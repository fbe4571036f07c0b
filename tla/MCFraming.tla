------------------------------ MODULE MCFraming ------------------------------
(* TLC instance of Framing: segments of two bytes, tables of two segments, *)
(* so that packets of 0, 2, 3 and 4 bytes meet every boundary.            *)
EXTENDS Framing

CONSTANTS a, b, c

MCPayload == {<<>>, <<a, b>>, <<b, a, c>>, <<c, c, a, b>>}
=============================================================================
