------------------------------ MODULE MCHauls ------------------------------
(* Three hauls, three saves and a few lists of files for Hauls.  hA has a  *)
(* plain name; h1 and h2 are named like two chunks of an old set, haul_1   *)
(* and haul_2.                                                             *)
EXTENDS Hauls

CONSTANTS hA, h1, h2, haul, rX, rY

MCJoined == [h \in Haul |-> IF h = hA THEN None ELSE haul]
MCNumber == [h \in Haul |-> IF h = h2 THEN 2 ELSE 1]

(* Later saves are shorter than the first, so that chunks of it stay.      *)
MCSize    == <<2, 1, 1>>
MCContent == <<{rX, rY}, {rY}, {rY}>>

A(h, i, remote) == [haul |-> h, chunk |-> i, remote |-> remote]
MCArguments ==
  {<<A(hA, 0, FALSE), A(h2, 0, FALSE)>>,
   <<A(hA, 1, FALSE)>>,
   <<A(hA, 2, TRUE), A(h1, 0, TRUE), A(hA, 1, TRUE), A(h2, 0, TRUE)>>}

(* Bounds: only the first save is asked for a chunk size that is refused,  *)
(* and the last one is asked for no chunks.                                *)
FewChunkSizes == \A n \in 2..saves : made[n].asked \in IF n = 2 THEN {0, 9} ELSE {0}
=============================================================================
