-------------------------------- MODULE MCMake --------------------------------
(***************************************************************************)
(* A file of a few cells that may hold archives of every kind, with up to  *)
(* two members that lie anywhere and may hold archives themselves; an      *)
(* empty file; and one too small to be looked at.                          *)
(***************************************************************************)
EXTENDS Make
CONSTANTS x, y

Descs(n, plain) == [offset : {0, 1, 3}, size : {0, 2, n}, plain : plain]
Some(n, plain) == {<<>>} \cup [1 .. 2 -> Descs(n, plain)]

\* What miniz gives for a member of a zip lies behind the member's own header.
Behind(n, plain) == {s \in Some(n, plain) : \A i \in DOMAIN s : s[i].offset > 0}

\* A header whose table can be read, or cannot.
Toc(kind, toc, n, descs) ==
    {[kind |-> kind, cut |-> FALSE, toc |-> toc, data |-> n - toc, descs |-> d] : d \in descs}
    \cup {[kind |-> kind, cut |-> TRUE, toc |-> toc, data |-> n - toc, descs |-> <<>>]}

\* A Mach-O file with a segment that has up to two sections.
Segments(n) ==
    {<<>>} \cup {<<[offset |-> o, size |-> z, sections |-> s]>> :
        o \in {1, 2}, z \in {0, n - 2} \cap 0 .. n, s \in Some(n, {TRUE})}

AnyArchive(n) ==
    UNION {Toc(kind, toc, n, Some(n, {TRUE})) : kind \in {"fsb", "fsb5"}, toc \in {1, 2} \cap 1 .. n}
    \cup Toc("pe", 1, n, Some(n, {TRUE}))
    \cup Toc("mac_exe", 1, n, Segments(n))
    \cup UNION {Toc(kind, 1, n, Some(n, {TRUE})) : kind \in {"load", "mac_fat"}}
    \cup UNION {Toc(kind, 1, n, Some(n, BOOLEAN)) : kind \in {"wad", "wpk"}}
    \cup Toc("zip", 1, n, Behind(n, BOOLEAN))
    \cup Toc("none", 0, n, {<<>>})

MCOptions ==
    {[chunk_min |-> 1, chunk_max |-> 3, disabled |-> {"wpk", "mac_fat"}, cdc |-> "fixed", strict |-> FALSE],
     [chunk_min |-> 1, chunk_max |-> 2, disabled |-> {}, cdc |-> "bup", strict |-> TRUE]}
MCData == <<<<x, y, x, y, x>>, <<>>, <<x>>>>
MCTotals == {0, 1, 5}
=============================================================================
