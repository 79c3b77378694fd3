------------------------------ MODULE RManifest ------------------------------
(***************************************************************************)
(* The binary manifest of lib/rlib/rmanifest: tables of languages,         *)
(* directories, parameters, bundles with their chunks, and files, which    *)
(* refer to each other by id, by index or by a bit.  RMAN::read resolves   *)
(* the references: a file gets its path from the names of its directories, *)
(* and each of its chunks a place in a bundle and a place in the file.     *)
(*                                                                         *)
(* A manifest is a record of sequences of rows.  A row is a record without *)
(* the fields it does not have; ids are numbers, of which 0 is no id; a    *)
(* name is a model value, a path a sequence of them (the slash that ends   *)
(* the name of a directory is there or is added).                          *)
(***************************************************************************)
EXTENDS Integers, Sequences, SequencesExt

CONSTANTS
    Word,       \* the names
    NoWord,     \* the empty name; in place of a language, "none"
    DotWords,   \* "." and ".."
    BadLangs,   \* names that are no name of a language
    LastHash,   \* HashType::BLAKE3
    MaxPath     \* the length a path must have less than to be walked further

ASSUME LastHashAssumption == LastHash \in Nat

Refused == [files |-> <<>>, bundles |-> <<>>, ok |-> FALSE]

\* A table gives 0, "" or nothing for a field that it does not have.
Absent ==
    [id |-> 0, parent |-> 0, name |-> NoWord, hash |-> 0, chunks |-> <<>>,
     size |-> 0, compressed |-> 0, dir |-> 0, flags |-> {}, ids |-> <<>>, params |-> 0]
Get(row, field) == IF field \in DOMAIN row THEN row[field] ELSE Absent[field]

\* The last row with an id replaces those before it.
ById(rows) ==
    [id \in {Get(rows[i], "id") : i \in DOMAIN rows} |->
        rows[SelectLastInSeq(rows, LAMBDA row : Get(row, "id") = id)]]

-----------------------------------------------------------------------------
LangsOk(raw) == \A i \in DOMAIN raw.langs : Get(raw.langs[i], "name") \notin BadLangs

DirsOk(raw) == \A i \in DOMAIN raw.dirs : Get(raw.dirs[i], "name") \notin DotWords

ParamsOk(raw) == \A i \in DOMAIN raw.params : Get(raw.params[i], "hash") \in 1 .. LastHash

\* Every chunk has an id.  The bounds on its two sizes are left out: more manifests
\* are read here than by the program.
BundlesOk(raw) ==
    \A i \in DOMAIN raw.bundles :
        /\ Get(raw.bundles[i], "id") # 0
        /\ LET rows == Get(raw.bundles[i], "chunks")
           IN  \A k \in DOMAIN rows : Get(rows[k], "id") # 0

\* The chunks of one bundle with their places in it.
Placed(bundle) ==
    LET rows == Get(bundle, "chunks")
        compressed_offset[k \in 0 .. Len(rows)] ==
            IF k = 0 THEN 0 ELSE compressed_offset[k - 1] + Get(rows[k], "compressed")
    IN  [k \in DOMAIN rows |->
            [id |-> Get(rows[k], "id"), size |-> Get(rows[k], "size"),
             bundle |-> Get(bundle, "id"), at |-> compressed_offset[k - 1]]]

SourcesOfOne(raw) ==  \* mutant: compressed_offset goes on from bundle to bundle
    LET rows == FlattenSeq([i \in DOMAIN raw.bundles |-> Get(raw.bundles[i], "chunks")])
        of == FlattenSeq([i \in DOMAIN raw.bundles |-> Placed(raw.bundles[i])])
        all == Placed([chunks |-> rows])
    IN  ById([k \in DOMAIN of |-> [of[k] EXCEPT !.at = all[k].at]])

\* lookup_chunk.
Sources(raw) == ById(FlattenSeq([i \in DOMAIN raw.bundles |-> Placed(raw.bundles[i])]))

-----------------------------------------------------------------------------
\* From the name of a file up through its directories: the directory it is at, and
\* the path so far.  It stays at one that there is not, and where the path is too
\* long, which it gets in a circle.
Climb(raw, file) ==
    LET dirs == ById(raw.dirs)
        name(dir) == Get(dirs[dir], "name")
        walk[k \in 0 .. Len(raw.dirs)] ==
            IF k = 0 THEN [dir |-> Get(file, "dir"), path |-> <<Get(file, "name")>>]
            ELSE LET at == walk[k - 1]
                 IN  IF at.dir = 0 \/ Len(at.path) >= MaxPath \/ at.dir \notin DOMAIN dirs THEN at
                     ELSE [dir |-> Get(dirs[at.dir], "parent"),
                           path |-> IF name(at.dir) = NoWord THEN at.path ELSE <<name(at.dir)>> \o at.path]
    IN  walk[Len(raw.dirs)]

HasPath(raw, file) == Climb(raw, file).dir = 0
Path(raw, file) == Climb(raw, file).path

\* The bit i stands for the language i + 1.
LangIds(file) == {i + 1 : i \in Get(file, "flags")}

\* The names of the languages of a file, or "none".
Langs(raw, file) ==
    IF LangIds(file) = {} THEN {NoWord}
    ELSE {Get(ById(raw.langs)[id], "name") : id \in LangIds(file)}

\* The chunks of a file with their places in it.
Chunks(raw, file) ==
    LET sources == Sources(raw)
        ids == Get(file, "ids")
        uncompressed_offset[k \in 0 .. Len(ids)] ==
            IF k = 0 THEN 0 ELSE uncompressed_offset[k - 1] + sources[ids[k]].size
    IN  [k \in DOMAIN ids |->
            [id |-> ids[k], size |-> sources[ids[k]].size, bundle |-> sources[ids[k]].bundle,
             at |-> sources[ids[k]].at, to |-> uncompressed_offset[k - 1]]]

EndOf(chunks) == IF chunks = <<>> THEN 0 ELSE Last(chunks).to + Last(chunks).size

FileOk(raw, file) ==
    /\ Get(file, "id") # 0
    /\ Get(file, "name") # NoWord
    /\ Get(file, "params") < Len(raw.params)
    /\ HasPath(raw, file)
    /\ LangIds(file) \subseteq DOMAIN ById(raw.langs)
    /\ ToSet(Get(file, "ids")) \subseteq DOMAIN Sources(raw)
    /\ EndOf(Chunks(raw, file)) <= Get(file, "size")

\* What is pushed to files.
FileOf(raw, file) ==
    [path |-> Path(raw, file),
     langs |-> Langs(raw, file),
     hash |-> Get(raw.params[Get(file, "params") + 1], "hash"),
     size |-> Get(file, "size"),
     chunks |-> Chunks(raw, file)]

\* RMAN::read: all of the manifest, or an exception.
Parse(raw) ==
    IF /\ LangsOk(raw) /\ DirsOk(raw) /\ ParamsOk(raw) /\ BundlesOk(raw)
       /\ \A i \in DOMAIN raw.files : FileOk(raw, raw.files[i])
    THEN [files |-> [i \in DOMAIN raw.files |-> FileOf(raw, raw.files[i])],
          bundles |-> [i \in DOMAIN raw.bundles |-> raw.bundles[i].id],
          ok |-> TRUE]
    ELSE Refused
=============================================================================
