------------------------------- MODULE MCRemake -------------------------------
(***************************************************************************)
(* Two manifests that share a file and chunks: a file of two chunks, an    *)
(* empty one, one of a single chunk, and the first once more.              *)
(***************************************************************************)
EXTENDS Remake
CONSTANTS a, b, f1, f2, f3

MCPiece == {a, b}
Named(id, data) == [id |-> id, data |-> data]
MCFiles == <<Named(f1, <<a, b>>), Named(f2, <<>>), Named(f3, <<b>>), Named(f1, <<a, b>>)>>
=============================================================================
