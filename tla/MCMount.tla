------------------------------- MODULE MCMount -------------------------------
(***************************************************************************)
(* A file of three chunks of different sizes, the first of which comes     *)
(* again at the end, and one that shares a chunk with it; reads inside a   *)
(* chunk, across two, and over the end.  The manifests name the files in   *)
(* every order, with paths that differ in case or are part of another.     *)
(***************************************************************************)
EXTENDS Mount
CONSTANTS a, b, c, t1, t2, f, g, h, x, X, y, Y, z

MCThread == {t1, t2}
MCName == {x, X, y, Y, z}
MCLower == (x :> 2) @@ (X :> 2) @@ (y :> 1) @@ (Y :> 1) @@ (z :> 3)
MCChunk == {a, b, c}
MCSize == (a :> 2) @@ (b :> 3) @@ (c :> 1)
Place(id, n) == [id |-> id, at |-> n]
MCList == (f :> <<Place(a, 0), Place(b, 2), Place(c, 5), Place(a, 6)>>)
          @@ (g :> <<Place(c, 0), Place(b, 1)>>) @@ (h :> <<>>)
MCTotal == (f :> 8) @@ (g :> 4) @@ (h :> 0)

At(path, file) == [path |-> path, file |-> file, stripped |-> FALSE]
Bare(path, file) == [path |-> path, file |-> file, stripped |-> TRUE]
MCManifests ==
    {<<At(<<x, z>>, h), At(<<x, Slash, y>>, f), Bare(<<X, Y>>, g), At(<<X, x>>, g)>>,
     <<Bare(<<z>>, g), Bare(<<Y>>, f), At(<<y, X>>, f), At(<<x>>, g), At(<<Y, x>>, h)>>}
MCPaths == {<<>>} \cup {<<n>> : n \in {X, Y, z}} \cup {<<m, n>> : m, n \in {x, y}} \cup {<<x, Slash, z>>}
From(n, s) == [offset |-> n, size |-> s]
MCReads == {From(0, 3), From(1, 2), From(3, 9)}
MCCached == {{}}
Answered == {"whole", "long", "broken", "lost"}
AnyBody == Answered \cup {"short"}
Symmetry == Permutations(MCThread)
=============================================================================
