------------------------------- MODULE MCRCache -------------------------------
(***************************************************************************)
(* RCache with chunks of different sizes: two or three of them share a     *)
(* part, one fills a part alone, and one is larger than the limit: parts   *)
(* fill up, overflow and are reopened, and a flush happens after more than *)
(* 2 cells.                                                                *)
(***************************************************************************)
EXTENDS RCache

CONSTANTS a, b, c, d

MCSize == [x \in Chunk |-> CASE x = a -> 1 [] x = b -> 2 [] x = c -> 5 [] x = d -> 8]
=============================================================================
