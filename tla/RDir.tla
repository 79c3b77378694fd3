--------------------------------- MODULE RDir ---------------------------------
(***************************************************************************)
(* The directory tree of rman-mount, and how it is built from the files of *)
(* the manifests, one after the other.  Names are compared without regard  *)
(* to case; the children of a directory are kept in order, and are looked  *)
(* up by binary search.  Of files with the same path the first counts, and *)
(* files with the same data share one list of chunks.                      *)
(*                                                                         *)
(* The type RDirEntry is recursive; here a tree is a function from keys,   *)
(* the sequences of lowered names that lead to an entry, to entries.       *)
(***************************************************************************)
EXTENDS Integers, Sequences, FiniteSets, SequencesExt

CONSTANTS
    Name,       \* the names of files and directories
    Slash,      \* what is between two slashes
    Lower,      \* the place of each name in the order without regard to case
    NoFile      \* no file: the entry is a directory

ASSUME NameAssumption == IsFiniteSet(Name) /\ Slash \notin Name /\ Lower \in [Name -> Nat]

NewEntry(name) == [name |-> name, file |-> NoFile, children |-> <<>>]

EmptyTree == [key \in {<<>>} |-> NewEntry(Slash)]

\* The directory the components of a path lead to, without regard to case.
KeyOf(path) ==
    LET key[i \in 0 .. Len(path)] ==
            IF i = 0 THEN <<>>
            ELSE IF path[i] = Slash THEN key[i - 1] ELSE Append(key[i - 1], Lower[path[i]])
    IN  key[Len(path)]

\* std::lower_bound, in children that are in order.
LowerBound(children, n) == 1 + Cardinality({i \in DOMAIN children : children[i] < n})

\* str_eq_ci of the name and the child that was found.
IsChild(children, n) ==
    LowerBound(children, n) <= Len(children) /\ children[LowerBound(children, n)] = n

\* One iteration of the loop of builder: the child is found, or inserted.
Enter(at, name) ==
    LET children == at.tree[at.key].children
        n == Lower[name]
        key == Append(at.key, n)
    IN  IF IsChild(children, n) THEN [at EXCEPT !.key = key]
        ELSE [key |-> key,
              tree |-> [k \in DOMAIN at.tree \cup {key} |->
                          IF k = key THEN NewEntry(name)
                          ELSE IF k = at.key
                          THEN [at.tree[k] EXCEPT
                                  !.children = InsertAt(@, LowerBound(@, n), n)]
                          ELSE at.tree[k]]]

\* The loop: where the builder is after all of the path, and the tree by then.
Entered(tree, path) ==
    LET at[i \in 0 .. Len(path)] ==
            IF i = 0 THEN [tree |-> tree, key |-> <<>>]
            ELSE IF path[i] = Slash THEN at[i - 1] ELSE Enter(at[i - 1], path[i])
    IN  at[Len(path)]

LastWins(tree, path, file) ==  \* mutant: cur->chunks_ is not looked at
    LET at == Entered(tree, path)
    IN  [at.tree EXCEPT ![at.key].file = file]

\* builder: the file is put in the tree, unless another has its place.
Built(tree, path, file) ==
    LET at == Entered(tree, path)
    IN  IF at.tree[at.key].file = NoFile THEN [at.tree EXCEPT ![at.key].file = file] ELSE at.tree

\* find: the key of the entry, if there is one.
Find(tree, path) ==
    LET found[i \in 0 .. Len(path)] ==
            IF i = 0 THEN {<<>>}
            ELSE IF path[i] = Slash THEN found[i - 1]
            ELSE {Append(key, Lower[path[i]]) :
                    key \in {k \in found[i - 1] : IsChild(tree[k].children, Lower[path[i]])}}
    IN  found[Len(path)]

IsDir(tree, key) == tree[key].file = NoFile

-----------------------------------------------------------------------------
\* After the files of a sequence, each with its path, were put in the tree: a
\* path leads to the first file that has it, to a directory if files are below
\* it, to nothing otherwise; and a directory names each of its children once,
\* in order.  Case and doubled slashes make no difference.
BuiltFrom(tree, files, paths) ==
    LET keys == [i \in DOMAIN files |-> KeyOf(files[i].path)]
        With(key) == {i \in DOMAIN files : keys[i] = key}
        Below(key) == {i \in DOMAIN files : IsPrefix(key, keys[i])}
    IN  /\ \A path \in paths :
              LET key == KeyOf(path)
                  found == Find(tree, path)
              IN  /\ found = IF Below(key) = {} /\ key # <<>> THEN {} ELSE {key}
                  /\ found # {} =>
                        tree[key].file = IF With(key) = {} THEN NoFile
                                         ELSE files[Min(With(key))].file
        /\ \A key \in DOMAIN tree :
              /\ \A i, j \in DOMAIN tree[key].children :
                    i < j => tree[key].children[i] < tree[key].children[j]
              /\ ToSet(tree[key].children) =
                    {keys[i][Len(key) + 1] : i \in {k \in Below(key) : keys[k] # key}}
=============================================================================
