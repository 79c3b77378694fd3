-------------------------------- MODULE MCRCDN --------------------------------
(***************************************************************************)
(* Two bundles.  In the first, chunks p and q follow each other, there is  *)
(* a gap, and then r; the second has s, which is not wanted but lies where *)
(* a misread offset would find it.  The caller's file has q twice.         *)
(***************************************************************************)
EXTENDS RCDN, TLC
CONSTANTS p, q, r, s

MCChunk == {p, q, r, s}
MCBundle == [x \in MCChunk |-> IF x = s THEN 2 ELSE 1]
MCOffset == [x \in MCChunk |-> CASE x = p -> 0 [] x = q -> 2 [] x = r -> 4 [] x = s -> 1]
MCSize == [x \in MCChunk |-> IF x \in {p, s} THEN 2 ELSE 1]

Place(x, n) == [id |-> x, at |-> n]
SmallDst == {Place(p, 0), Place(q, 1), Place(q, 3), Place(r, 2)}
SomeCached == {{}, {q}, {r}}
=============================================================================
