------------------------------ MODULE MCDownload ------------------------------
(***************************************************************************)
(* A file of three chunks, the first of which is also the last, over an    *)
(* old file that is absent, a part, the right one, or longer with a chunk  *)
(* moved.                                                                  *)
(***************************************************************************)
EXTENDS Download
CONSTANTS a, b, c

MCChunk == {a, b, c}
MCSize == [x \in MCChunk |-> IF x = c THEN 1 ELSE 2]
Place(x, n) == [id |-> x, at |-> n]
MCList == <<Place(a, 0), Place(b, 2), Place(c, 4), Place(a, 5)>>
MCTotal == 7
MCOldFiles ==
    {NoFile, <<>>, Data(a), Data(a) \o Data(b) \o Data(c) \o Data(a),
     Data(b) \o Data(b) \o Data(c) \o Data(c) \o Data(a) \o Data(c)}
AllFlags == [noVerify : BOOLEAN, noWrite : BOOLEAN]
=============================================================================
