-------------------------------- MODULE Options --------------------------------
(* An Option is a sequence of at most one value, a Result too: None is the Err. *)
None    == <<>>
Some(v) == <<v>>
=============================================================================
