--------------------------------- MODULE Rads ---------------------------------
(***************************************************************************)
(* The release manifests of lib/rlib/rads_rls and rads_sln, which rman-rads *)
(* looks up the files of a release by.  A project (RLS::read) lists files  *)
(* and folders; a folder has a range of the folders and one of the files,  *)
(* and a file is named after the folders above it.  A solution (SLN::read) *)
(* lists projects, and for each language the projects that are part of it. *)
(*                                                                         *)
(* Both are records of sequences of rows, and of "whole", whether all the  *)
(* bytes are there that their numbers announce.  A range is a pair of its  *)
(* start and its length.                                                   *)
(***************************************************************************)
EXTENDS RManifest, Functions

CONSTANTS
    Projects, Solutions, Releases, FilesDir,    \* directories of a release
    RlsName, SlnName,   \* the names of the two kinds of release manifests
    NoName              \* in place of a name: an index past the strings

ASSUME ManifestNamesAssumption == RlsName # SlnName

NoRelease == [ok |-> FALSE, name |-> NoName, files |-> <<>>]
NoSolution == [ok |-> FALSE, projects |-> <<>>]
NoContent == [is |-> "none"]    \* a file that cannot be read

-----------------------------------------------------------------------------
(***************************************************************************)
(* Projects                                                                *)
(***************************************************************************)

InRange(range, n) == range[1] <= n /\ range[2] <= n - range[1]
Members(range) == range[1] .. range[1] + range[2] - 1

\* folder_parents, file_parents: the last folder that has it, or the first of all.
Parent(folders, field, c) ==
    LET n == SelectLastInSeq(folders, LAMBDA d : c \in Members(d[field]))
    IN  IF n = 0 THEN 0 ELSE n - 1

\* The folders above a file, from the innermost, and then 0; in a circle, one of
\* them comes again.
Above(raw, file) ==
    LET up[k \in 0 .. Len(raw.folders)] ==
            IF k = 0 THEN Parent(raw.folders, "files", file)
            ELSE IF up[k - 1] = 0 THEN 0 ELSE Parent(raw.folders, "folders", up[k - 1])
    IN  up

Circular(raw, file) == Above(raw, file)[Len(raw.folders)] # 0

RlsOk(raw) ==
    /\ raw.whole /\ raw.name # NoName
    /\ \A i \in DOMAIN raw.folders :
        /\ raw.folders[i].name # NoName
        /\ InRange(raw.folders[i].folders, Len(raw.folders))
        /\ InRange(raw.folders[i].files, Len(raw.files))
    /\ \A i \in DOMAIN raw.files : raw.files[i].name # NoName /\ ~Circular(raw, i - 1)

\* The name of a file, without that of the folder 0.
FileName(raw, file) ==
    LET above == Above(raw, file)
        depth == Min({k \in 0 .. Len(raw.folders) : above[k] = 0})
    IN  Append(Reverse([k \in 1 .. depth |-> raw.folders[above[k - 1] + 1].name]), raw.files[file + 1].name)

\* RLS::read.
ReadRls(raw) ==
    IF raw.is = "rls" /\ RlsOk(raw)
    THEN [ok |-> TRUE, name |-> raw.name,
          files |-> [i \in DOMAIN raw.files |->
                        [name |-> FileName(raw, i - 1), version |-> raw.files[i].version]]]
    ELSE NoRelease

-----------------------------------------------------------------------------
(***************************************************************************)
(* Solutions                                                               *)
(***************************************************************************)

SlnOk(raw) == raw.whole /\ \A l \in DOMAIN raw.locales : IsInjective(raw.locales[l].projects)

\* The languages of a project: none where it is part of all of them, or of none.
LangsOf(raw, name) ==
    LET in == {l \in DOMAIN raw.locales : name \in ToSet(raw.locales[l].projects)}
    IN  IF in = {} \/ in = DOMAIN raw.locales THEN {NoWord} ELSE {raw.locales[l].name : l \in in}

\* SLN::read.
ReadSln(raw) ==
    IF raw.is = "sln" /\ SlnOk(raw)
    THEN [ok |-> TRUE,
          projects |-> [i \in DOMAIN raw.projects |->
                            [name |-> raw.projects[i].name, version |-> raw.projects[i].version,
                             langs |-> LangsOf(raw, raw.projects[i].name)]]]
    ELSE NoSolution

-----------------------------------------------------------------------------
(***************************************************************************)
(* Paths                                                                   *)
(***************************************************************************)

Has(path, directory) == \E i \in 1 .. Len(path) - 1 : path[i] = directory

\* str_split: the path before the first such directory, or all of it.
Before(path, directory) ==
    IF Has(path, directory)
    THEN SubSeq(path, 1, SelectInSeq(path, LAMBDA w : w = directory) - 1)
    ELSE path

\* The directory of a release that is named by the path of its manifest.
RealmOf(path) ==
    IF Has(path, Projects) THEN Before(path, Projects)
    ELSE IF Has(path, Solutions) THEN Before(path, Solutions) ELSE <<>>

RlsPath(realm, name, version) == realm \o <<Projects, name, Releases, version, RlsName>>
FilePath(realm, name, file) == realm \o <<Projects, name, Releases, file.version, FilesDir>> \o file.name
=============================================================================
