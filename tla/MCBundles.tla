------------------------------- MODULE MCBundles -------------------------------
(***************************************************************************)
(* A bundle that may be sound, half overwritten by a writer that was       *)
(* killed, or damaged by its disk, and a sound one that shares a chunk     *)
(* with it.                                                                *)
(***************************************************************************)
EXTENDS Bundles
CONSTANTS x, y, c1, c2, c3, none

MCSize == (c1 :> 1) @@ (c2 :> 2) @@ (c3 :> 1)

BundleOf(chunks) == FlattenSeq([i \in DOMAIN chunks |-> Data(chunks[i])]) \o Toc(chunks) \o <<FooterCell(chunks)>>

\* The bundle of chunks with c added to it, of which j cells, and perhaps a part of
\* one more, were written.
Cut(chunks, c, j, torn) ==
    LET old == BundleOf(chunks)
        new == Data(c) \o Toc(Append(chunks, c)) \o <<FooterCell(Append(chunks, c))>>
    IN  Overwrite(old, TocOffset(old), CutShort(new, j, torn))

Good == <<c1, c2, c3>>
Rotten(i, cell) == [BundleOf(Good) EXCEPT ![i] = cell]
MCInputs ==
    {(x :> file) @@ (y :> BundleOf(<<c3, c2>>)) : file \in
        {<<>>, BundleOf(<<>>), BundleOf(Good), BundleOf(<<c3, c1>>), BundleOf(<<c2, c2>>)}
        \cup {Cut(<<c1, c2>>, c3, j, torn) : j \in 0 .. 4, torn \in BOOLEAN}
        \cup {Cut(<<c1, c3>>, c2, j, torn) : j \in 1 .. 2, torn \in BOOLEAN}
        \cup {Rotten(1, Data(c3)[1]), Rotten(2, TornCell), Rotten(3, TornCell), Rotten(4, Data(c1)[1])}}

Command(is, ins, flags, parallel) == [is : {is}, ins : ins, flags : flags, parallel : parallel]
MCCommands ==
    Command("merge", {<<x, y>>, <<y, x>>}, {{}, {"no-extract"}, {"level-recompress", "no-extract"}}, {0})
    \cup Command("ex", {<<x, y>>, <<y, x>>}, {{}, {"force"}, {"no-hash"}, {"with-offset"}}, {0})
    \cup Command("chk", {<<x, y, x>>}, {{}, {"no-hash"}, {"no-extract"}}, {0, 2})
    \cup Command("ls", {<<x, y>>}, {{}}, {0})
=============================================================================
