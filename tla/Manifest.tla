------------------------------- MODULE Manifest -------------------------------
(***************************************************************************)
(* Manifest files, the programs that make one from others, and those that  *)
(* list or download the files of one.  A manifest is written line by line, *)
(* without a buffer, without a lock against signals and without a look at  *)
(* the result: a program that is killed may leave half a line, and one     *)
(* that appends goes on behind it; where a write fails the program goes on *)
(* over what was written of it.  It is read as a sequence of entries, from *)
(* one of three forms: "rman", binary and written by others; "jrman", the  *)
(* lines; "zrman", the lines compressed by the user.                       *)
(*                                                                         *)
(* An entry is a file: its path, its languages, its data (a sequence of    *)
(* chunk ids, of which the fileId is the hash), the places of its chunks   *)
(* in bundles, whether its chunks are stripped, the hash type of its       *)
(* chunks, and whether their sizes add up to its size.                     *)
(***************************************************************************)
EXTENDS Rads

CONSTANTS
    Name,           \* manifest files
    NoFile,         \* in a command: no bundle, or no output
    First,          \* what may be at first: records [disk, runs]
    Commands,       \* the programs: records [is, out, append, path, langs, cache,
                    \* prefix, release, bundle, ins], where is is "merge", "diff",
                    \* "ls", "bl", "dl", "rads" or, for rman-rads with a directory,
                    \* "split", or "cut" for those that cut files; path and langs
                    \* are the names that pass the filters, cache whether there is
                    \* one (for rman-merge with --strip-chunks), ins the input
                    \* manifests, bundle the chunks of that of rman-rads
    Lower,          \* a name -> the name in lower case
    Contents,       \* the data of a release manifest -> what it says
    New,            \* entries a program that cuts files may append
    JsonHash,       \* the hash types TypeHandlerEnum lets pass
    MaxRuns, MaxFaults,     \* bounds on the programs that are run, and on those
                            \* that are killed and the writes that fail
    MaxLines                \* bound on the lines of a manifest that is cut

VARIABLES
    disk,       \* Name -> the file, or Missing: a form, lines (or, binary, raw), and whether
                \* the last of them ends with a newline (or it is not damaged)
    dir,        \* the output directory of rman-dl: path -> data
    lists,      \* the lists of chunks in the cache of rman-merge, or the bundle
    prog,       \* the program that runs, or did last
    pc,         \* where it is
    todo,       \* the inputs it did not read yet
    entries,    \* what the callback of read_file is still to be called with
    readable,   \* the input gives no error behind them
    from,       \* rman-diff, --update: the matching entries of the first input;
                \* rman-rads: those of the directory of the release
    chosen,     \* rman-dl: the files to download; rman-rads: those to write
    printed,    \* what the program wrote to the standard output
    runs, faults,
    rest,       \* part of a line is behind what the last program takes for the
                \* end of its output
    missed,     \* a write of that program failed
    log,        \* Name -> the entries that were written to it since it was begun,
                \* or that it has at first
    sound       \* Name -> it has a header, and no half line in it

disks == <<disk, rest, missed, log, sound, faults>>
reading == <<todo, entries, readable>>
vars == <<disks, dir, lists, prog, pc, reading, from, chosen, printed, runs>>

Header == [is |-> "header"]
Torn == [is |-> "torn"]
Dumped(e) == [e EXCEPT !.places = <<>>]
Line(e) == [is |-> "entry", file |-> Dumped(e)]
Missing == [form |-> "none"]
Empty == [form |-> "jrman", lines |-> <<>>, whole |-> TRUE]

Fields == {"path", "langs", "data", "places", "stripped", "hash", "fits"}

\* Lines of text, the last of them perhaps without its end.
IsEntry(e) == DOMAIN e = Fields /\ e.path \in Seq(ToSet(e.path))
IsText(m) ==
    /\ m = [form |-> m.form, lines |-> m.lines, whole |-> m.whole]
    /\ m.lines \in Seq(ToSet(m.lines)) /\ m.whole \in BOOLEAN /\ (m.whole \/ m.lines # <<>>)
    /\ \A line \in ToSet(m.lines) : line.is = "entry" => IsEntry(line.file)

\* Lines as they are written: a header and other lines, and half a line is torn.
AsWritten(m) ==
    /\ m.lines # <<>> /\ m.lines[1] = Header /\ Header \notin ToSet(Tail(m.lines))
    /\ m.whole \/ Last(m.lines) = Torn

HasTables(raw) ==
    /\ \A table \in {raw.langs, raw.dirs, raw.params, raw.bundles, raw.files} : table \in Seq(ToSet(table))
    /\ \A file \in ToSet(raw.files) :
          Get(file, "ids") \in Seq(ToSet(Get(file, "ids"))) /\ Get(file, "params") \in Nat
    /\ \A bundle \in ToSet(raw.bundles) : Get(bundle, "chunks") \in Seq(ToSet(Get(bundle, "chunks")))

ASSUME FirstAssumption ==
    \A f \in First :
        /\ DOMAIN f.disk = Name
        /\ \A m \in ToSet(f.disk) :
            /\ m.form \in {"none", "rman", "jrman", "zrman"}
            /\ m.form = "none" => m = Missing
            /\ m.form = "rman" => HasTables(m.raw)
            /\ m.form \in {"jrman", "zrman"} => IsText(m)
            /\ m.form = "jrman" => AsWritten(m)
ASSUME CommandsAssumption ==
    /\ Commands # {}
    /\ \A c \in Commands :
        /\ c.ins \in Seq(Name)
        /\ c.is \in {"merge", "diff", "cut", "split", "rads"} => c.out \in Name
        /\ c.is = "diff" => Len(c.ins) = 2
        /\ c.is = "dl" => Len(c.ins) \in {1, 2}
        /\ c.is \in {"rads", "split"} => Len(c.ins) = 1 /\ c.release \in Seq(ToSet(c.release))
        /\ c.append => c.is \in {"cut", "split", "rads"}
ASSUME NewAssumption == \A e \in New : IsEntry(e)
ASSUME ContentsAssumption ==
    \A data \in DOMAIN Contents :
        LET raw == Contents[data]
        IN  /\ raw.is = "rls" => raw.files \in Seq(ToSet(raw.files)) /\ raw.folders \in Seq(ToSet(raw.folders))
            /\ raw.is = "sln" => raw.projects \in Seq(ToSet(raw.projects))

-----------------------------------------------------------------------------
(***************************************************************************)
(* Reading                                                                 *)
(***************************************************************************)

\* RFile::undump accepts the line of the entry.
Undumps(e) == e.stripped \/ e.data = <<>> \/ (e.fits /\ e.hash \in JsonHash)

EntriesSkipping(lines) ==  \* mutant: a line that is no entry is passed over
    LET good == SelectSeq(lines, LAMBDA l : l.is = "entry" /\ Undumps(l.file))
    IN  [entries |-> [i \in DOMAIN good |-> good[i].file], ok |-> TRUE]

\* The lines up to the first that is not an entry.
Entries(lines) ==
    LET Good(l) == l.is = "entry" /\ Undumps(l.file)
        n == SelectInSeq(lines, LAMBDA l : ~Good(l))
        good == IF n = 0 THEN lines ELSE SubSeq(lines, 1, n - 1)
    IN  [entries |-> [i \in DOMAIN good |-> good[i].file], ok |-> n = 0]

Nothing == [entries |-> <<>>, ok |-> FALSE]

\* The elements of a sequence that are in a set.
Only(s, S) ==
    LET kept[i \in 0 .. Len(s)] ==
            IF i = 0 THEN <<>>
            ELSE IF s[i] \in S THEN Append(kept[i - 1], s[i]) ELSE kept[i - 1]
    IN  kept[Len(s)]

\* The lines but the header, wherever it is.
WithoutHeaders(lines) == Only(lines, ToSet(lines) \ {Header})

ReadJrmanAll(m) == Entries(m.lines)  \* mutant: the header is not skipped

\* read_jrman: the first line is skipped; what follows the last newline is a
\* line too.
ReadJrman(m) == Entries(WithoutHeaders(Tail(m.lines)))

\* read_zrman: what follows the last newline is never looked at.
ReadZrman(m) == Entries(WithoutHeaders(IF m.whole THEN m.lines ELSE Front(m.lines)))

Entry(f) ==
    [path |-> f.path, langs |-> f.langs,
     data |-> [k \in DOMAIN f.chunks |-> f.chunks[k].id],
     places |-> [k \in DOMAIN f.chunks |-> [bundle |-> f.chunks[k].bundle, at |-> f.chunks[k].at]],
     stripped |-> FALSE, hash |-> f.hash, fits |-> EndOf(f.chunks) = f.size]

\* RMAN::read has parsed all of it, or fails, before the first callback.
ReadRman(m) ==
    IF ~m.whole THEN Nothing
    ELSE LET rman == Parse(m.raw)
         IN  [entries |-> [i \in DOMAIN rman.files |-> Entry(rman.files[i])], ok |-> rman.ok]

ReadBundlesOnce(m) ==  \* mutant: a bundle with a chunk that was seen is left out
    IF m = Missing \/ m.form # "rman" \/ ~m.whole THEN Nothing
    ELSE LET Of(i) == {row.id : row \in ToSet(Get(m.raw.bundles[i], "chunks"))}
             new == SelectSeq(Parse(m.raw).bundles, LAMBDA id :
                        \E i \in DOMAIN m.raw.bundles : m.raw.bundles[i].id = id
                            /\ \A k \in 1 .. i - 1 : Of(i) \cap Of(k) = {})
         IN  [entries |-> new, ok |-> Parse(m.raw).ok]

\* RMAN::read_file, for the ids of the bundles.
ReadBundles(m) ==
    IF m = Missing \/ m.form # "rman" \/ ~m.whole THEN Nothing
    ELSE [entries |-> Parse(m.raw).bundles, ok |-> Parse(m.raw).ok]

HasKnownBundle(m) == m # Missing /\ m.form = "rman"

\* RFile::read_file.
ReadFile(m) ==
    IF m = Missing THEN Nothing
    ELSE CASE m.form = "rman" -> ReadRman(m)
           [] m.form = "zrman" -> ReadZrman(m)
           [] m.form = "jrman" ->
                IF m.lines # <<>> /\ m.lines[1] = Header THEN ReadJrman(m) ELSE Nothing

-----------------------------------------------------------------------------
(***************************************************************************)
(* Writing                                                                 *)
(***************************************************************************)

\* The line is written behind what is there: half a line stays half a line.
After(m, line) ==
    IF m.whole THEN [m EXCEPT !.lines = Append(@, line)]
    ELSE [form |-> m.form, lines |-> Append(Front(m.lines), Torn), whole |-> TRUE]

\* Part of a line was written, without its end.
HalfAfter(m) ==
    [form |-> m.form, lines |-> Append(IF m.whole THEN m.lines ELSE Front(m.lines), Torn), whole |-> FALSE]

Cli == prog.command
Out == Cli.out
OnDisk(n) == IF rest /\ n = Out THEN HalfAfter(disk[n]) ELSE disk[n]

IsRman(m) == m # Missing /\ m.form = "rman"

Init ==
    /\ \E f \in First : disk = f.disk /\ runs = f.runs
    /\ log = [n \in Name |-> ReadFile(disk[n]).entries]
    /\ sound = [n \in Name |-> ~IsRman(disk[n]) /\ ReadFile(disk[n]).ok]
    /\ dir = <<>>
    /\ lists = {}
    /\ prog = [command |-> CHOOSE c \in Commands : TRUE, lists |-> {}, dir |-> <<>>,
               url |-> FALSE, ended |-> "no"]
    /\ pc = "none"
    /\ todo = <<>> /\ entries = <<>> /\ readable = TRUE
    /\ from = <<>> /\ chosen = <<>> /\ printed = <<>>
    /\ faults = 0 /\ rest = FALSE /\ missed = FALSE

Writes(command) == command.is \in {"merge", "diff", "cut", "split"}

\* collect_files ends rman-merge and rman-bl where an input does not exist.
Collects(command) ==
    command.is \in {"merge", "bl"} => \A i \in DOMAIN command.ins : disk[command.ins[i]] # Missing

Start(command) ==
    /\ pc = "none" /\ runs < MaxRuns
    /\ (command.append /\ disk[command.out] # Missing) => disk[command.out].form = "jrman"
    /\ Collects(command)
    /\ prog' = [command |-> command, lists |-> lists, dir |-> dir, ended |-> "no",
                url |-> command.is = "dl" /\ HasKnownBundle(disk[Last(command.ins)])]
    /\ pc' = IF Writes(command) THEN "open" ELSE "read"
    /\ todo' = command.ins /\ entries' = <<>> /\ readable' = TRUE
    /\ from' = <<>> /\ chosen' = <<>> /\ printed' = <<>>
    /\ runs' = runs + 1
    /\ disk' = [n \in Name |-> OnDisk(n)] /\ rest' = FALSE /\ missed' = FALSE
    /\ sound' = [n \in Name |-> sound[n] /\ ~(rest /\ n = Out)]
    /\ UNCHANGED <<log, dir, lists, faults>>

\* RFile::writer: the file is opened or made; a new one is cut to nothing.
Open ==
    /\ pc = "open"
    /\ LET new == disk[Out] = Missing
       IN IF Cli.append
          THEN /\ disk' = [disk EXCEPT ![Out] = IF new THEN Empty ELSE @]
               /\ log' = [log EXCEPT ![Out] = IF new THEN <<>> ELSE @]
               /\ sound' = [sound EXCEPT ![Out] = @ /\ ~new]
               /\ pc' = "read"
          ELSE /\ disk' = [disk EXCEPT ![Out] = Empty]
               /\ log' = [log EXCEPT ![Out] = <<>>]
               /\ sound' = [sound EXCEPT ![Out] = FALSE]
               /\ pc' = "header"
    /\ UNCHANGED <<rest, missed, faults, dir, lists, prog, reading, from, chosen, printed, runs>>

\* A write that fails changes nothing, or a part of what is behind the end; its
\* result is not looked at.
Fails ==
    /\ faults < MaxFaults /\ faults' = faults + 1
    /\ missed' = TRUE /\ rest' \in {rest, TRUE}
    /\ UNCHANGED <<disk, log, sound>>

\* A write that succeeds, perhaps over a part of what is behind the end.
Succeeds(line) ==
    /\ disk' = [disk EXCEPT ![Out] = After(@, line)]
    /\ rest' \in {rest, FALSE}
    /\ UNCHANGED <<missed, faults>>

WriteHeader ==
    /\ pc = "header"
    /\ \/ Succeeds(Header) /\ sound' = [sound EXCEPT ![Out] = TRUE] /\ UNCHANGED log
       \/ Fails
    /\ pc' = "read"
    /\ UNCHANGED <<dir, lists, prog, reading, from, chosen, printed, runs>>

\* The writer is called with an entry.
Written(e) ==
    \/ Succeeds(Line(e)) /\ log' = [log EXCEPT ![Out] = Append(@, Dumped(e))] /\ UNCHANGED sound
    \/ Fails

-----------------------------------------------------------------------------
(***************************************************************************)
(* The programs                                                            *)
(***************************************************************************)

\* The next input is read; its entries come one by one.
InputOf(name) == IF Cli.is = "bl" THEN ReadBundles(OnDisk(name)) ELSE ReadFile(OnDisk(name))

Read ==
    /\ pc = "read" /\ todo # <<>>
    /\ entries' = InputOf(Head(todo)).entries
    /\ readable' = InputOf(Head(todo)).ok
    /\ todo' = Tail(todo)
    /\ pc' = "entries"
    /\ UNCHANGED <<disks, dir, lists, prog, from, chosen, printed, runs>>

\* RFile::Match: a name in the path, and one of the languages.
Matching(e) == ToSet(e.path) \cap Cli.path # {} /\ e.langs \cap Cli.langs # {}

\* The next entry, and what no entry changes.
Next1(is) ==
    /\ pc = "entries" /\ entries # <<>> /\ Cli.is = is
    /\ entries' = Tail(entries)
    /\ UNCHANGED <<dir, prog, pc, todo, readable, runs>>

\* --with-prefix: the name of the manifest the entry is read from.
Prefixed(e) ==
    IF Cli.prefix THEN [e EXCEPT !.path = <<Cli.ins[Len(Cli.ins) - Len(todo)]>> \o @] ELSE e

\* process_file of rman-merge, where it is given a cache.
StrippedAll(e) == IF Cli.cache THEN [e EXCEPT !.stripped = TRUE] ELSE e  \* mutant
Stripped(e) == IF Cli.cache /\ Len(e.data) > 1 THEN [e EXCEPT !.stripped = TRUE] ELSE e

Listed(e) == IF Cli.cache /\ ~e.stripped THEN lists \cup {e.data} ELSE lists

\* fileids and filechunks, skipids: the last entry with a path counts.
Known(e) == SelectInSeq(Reverse(from), LAMBDA f : f.path = e.path)
ExtractChunks(e) == IF e.stripped THEN <<>> ELSE e.data
UnchangedPath(e) == Known(e) # 0  \* mutant: only the path is looked at
Unchanged(e) ==
    /\ Known(e) # 0
    /\ LET f == Reverse(from)[Known(e)]
       IN f.data = e.data \/ ExtractChunks(f) = ExtractChunks(e)

\* The entry belongs to the first of two inputs.
Older == Len(Cli.ins) = 2 /\ Len(todo) = 1

\* The entry is in a directory.
IsIn(directory, e) == IsStrictPrefix(directory, e.path)

\* The program calls its writer with the entry.
Passes(e) ==
    \/ Cli.is = "merge" /\ Matching(Prefixed(e))
    \/ Cli.is = "diff" /\ ~Older /\ Matching(e) /\ ~Unchanged(e)
    \/ Cli.is = "split" /\ IsIn(Cli.release, e)

MergeEntry ==
    /\ Next1("merge")
    /\ LET e == Prefixed(Head(entries))
       IN IF Passes(Head(entries)) THEN Written(Stripped(e)) /\ lists' = Listed(e)
          ELSE UNCHANGED <<disks, lists>>
    /\ UNCHANGED <<from, chosen, printed>>

DiffEntry ==
    /\ Next1("diff")
    /\ LET e == Head(entries)
       IN /\ from' = IF Older /\ Matching(e) THEN Append(from, e) ELSE from
          /\ IF Passes(e) THEN Written(e) ELSE UNCHANGED disks
    /\ UNCHANGED <<lists, chosen, printed>>

\* run_without_bundle: the files of a directory, as seen from it.
Below(directory, e) == [e EXCEPT !.path = SubSeq(@, Len(directory) + 1, Len(@))]

SplitEntry ==
    /\ Next1("split")
    /\ LET e == Head(entries)
       IN IF Passes(e) THEN Written(Below(Cli.release, e)) ELSE UNCHANGED disks
    /\ UNCHANGED <<lists, from, chosen, printed>>

\* run_with_bundle: lookup.
RadsEntry ==
    /\ Next1("rads")
    /\ LET e == Head(entries)
       IN from' = IF IsIn(RealmOf(Cli.release), e) THEN Append(from, e) ELSE from
    /\ UNCHANGED <<disks, lists, chosen, printed>>

\* rman-ls prints an entry, rman-bl a bundle.
PrintEntry ==
    /\ \/ Next1("ls") /\ printed' = IF Matching(Head(entries)) THEN Append(printed, Head(entries)) ELSE printed
       \/ Next1("bl") /\ printed' = Append(printed, Head(entries))
    /\ UNCHANGED <<disks, lists, from, chosen>>

\* rman-dl: the files that are chosen; with --update those the older manifest has
\* under another fileId or not at all.
SkippedPath(e) == Known(e) # 0  \* mutant
Skipped(e) == Known(e) # 0 /\ Reverse(from)[Known(e)].data = e.data

ChooseEntry ==
    /\ Next1("dl")
    /\ LET e == Head(entries)
       IN IF Older
          THEN from' = (IF Matching(e) THEN Append(from, e) ELSE from) /\ UNCHANGED chosen
          ELSE chosen' = (IF ~Skipped(e) /\ Matching(e) THEN Append(chosen, e) ELSE chosen)
               /\ UNCHANGED from
    /\ UNCHANGED <<disks, lists, printed>>

\* The entry of a file that was cut; its list is in the bundle.
CutEntry ==
    /\ pc = "read" /\ Cli.is = "cut"
    /\ Len(disk[Out].lines) < MaxLines
    /\ \E e \in New : Written(e) /\ lists' = lists \cup {e.data}
    /\ UNCHANGED <<dir, prog, pc, reading, from, chosen, printed, runs>>

\* The input is read; where it gives an error the program ends.
EndOfInput ==
    /\ pc = "entries" /\ entries = <<>>
    /\ IF readable THEN pc' = (IF Cli.is = "rads" THEN "release" ELSE "read") /\ UNCHANGED prog
       ELSE pc' = "none" /\ prog' = [prog EXCEPT !.ended = "thrown"]
    /\ UNCHANGED <<disks, dir, lists, reading, from, chosen, printed, runs>>

\* The program has read its inputs, and downloaded what it chose.
End ==
    /\ pc = "read" /\ todo = <<>> /\ chosen = <<>>
    /\ pc' = "none" /\ prog' = [prog EXCEPT !.ended = IF @ = "no" THEN "ok" ELSE @]
    /\ UNCHANGED <<disks, dir, lists, reading, from, chosen, printed, runs>>

-----------------------------------------------------------------------------
(***************************************************************************)
(* download_file, by what Download shows of one file                       *)
(***************************************************************************)

\* What a file is that has some of its chunks, and some of another.
Part == <<0>>
With(d, path, data) == [p \in {path} \cup DOMAIN d |-> IF p = path THEN data ELSE d[p]]
Holds(d, e) == e.path \in DOMAIN d /\ d[e.path] = e.data

Downloads == pc = "read" /\ todo = <<>> /\ chosen # <<>> /\ Cli.is = "dl"

DownloadFile(verdict) ==
    /\ Downloads
    /\ LET e == Head(chosen)
       IN /\ e.stripped => Cli.cache /\ e.data \in lists
          /\ \/ verdict = "ok" /\ dir' = With(dir, e.path, e.data)
             \/ verdict = "failed" /\ e.data # <<>> /\ dir' = (IF Holds(dir, e) THEN dir ELSE With(dir, e.path, Part))
    /\ prog' = [prog EXCEPT !.ended = IF verdict = "failed" THEN "failed" ELSE @]
    /\ chosen' = Tail(chosen)
    /\ UNCHANGED <<disks, lists, pc, reading, from, printed, runs>>

\* An exception ends the program: the cache does not have the list of a stripped
\* file, or the file cannot be written.
DownloadThrows ==
    /\ Downloads
    /\ pc' = "none" /\ prog' = [prog EXCEPT !.ended = "thrown"]
    /\ LET e == Head(chosen)
       IN  dir' \in {dir, IF Holds(dir, e) THEN dir ELSE With(dir, e.path, Part)}
    /\ UNCHANGED <<disks, lists, reading, from, chosen, printed, runs>>

-----------------------------------------------------------------------------
(***************************************************************************)
(* The release of rman-rads                                                *)
(***************************************************************************)

Lowered(path) == [i \in DOMAIN path |-> Lower[path[i]]]

FindExactly(path) == SelectLastInSeq(from, LAMBDA e : e.path = path)  \* mutant

\* find_file: the place of the last entry with the path, in any case; or 0.
FindFile(path) == SelectLastInSeq(from, LAMBDA e : Lowered(e.path) = Lowered(path))

\* read_file, where the list of the chunks and the chunks are in the bundle.
ReadContent(path) ==
    LET n == FindFile(path)
    IN  IF /\ n # 0 /\ (from[n].stripped => from[n].data \in lists)
           /\ ToSet(from[n].data) \subseteq Cli.bundle /\ from[n].data \in DOMAIN Contents
        THEN Contents[from[n].data] ELSE NoContent

\* process_rls: what is not found, or cannot be read, is passed over.
ProcessRls(path) ==
    LET rls == ReadRls(ReadContent(path))
        Place(file) == FindFile(FilePath(Before(path, Projects), rls.name, file))
        found[i \in 0 .. Len(rls.files)] ==
            IF i = 0 THEN <<>>
            ELSE IF Place(rls.files[i]) = 0 THEN found[i - 1]
            ELSE Append(found[i - 1], [from[Place(rls.files[i])] EXCEPT !.path = rls.files[i].name])
    IN  found[Len(rls.files)]

\* process_sln.
ProcessSln(path) ==
    LET projects == ReadSln(ReadContent(path)).projects
        FilesOf(project) ==
            LET files == ProcessRls(RlsPath(Before(path, Solutions), project.name, project.version))
            IN  [i \in DOMAIN files |-> [files[i] EXCEPT !.langs = project.langs]]
    IN  FlattenSeq([i \in DOMAIN projects |-> FilesOf(projects[i])])

\* The bundle is opened, and the output after it.  Then the release is gone
\* through; nothing but the writer changes what it reads.
Release ==
    /\ pc = "release"
    /\ IF Cli.bundle = NoFile
       THEN /\ pc' = "none" /\ prog' = [prog EXCEPT !.ended = "thrown"] /\ UNCHANGED chosen
       ELSE /\ pc' = "open" /\ UNCHANGED prog
            /\ chosen' = CASE Last(Cli.release) = RlsName -> ProcessRls(Cli.release)
                           [] Last(Cli.release) = SlnName -> ProcessSln(Cli.release)
                           [] OTHER -> <<>>
    /\ UNCHANGED <<disks, dir, lists, reading, from, printed, runs>>

WritesRelease == pc = "read" /\ Cli.is = "rads" /\ chosen # <<>>

WriteFile ==
    /\ WritesRelease
    /\ Written(Head(chosen))
    /\ chosen' = Tail(chosen)
    /\ UNCHANGED <<dir, lists, prog, pc, reading, from, printed, runs>>

-----------------------------------------------------------------------------
\* The writer is called, or called next.
Writing ==
    \/ pc = "header"
    \/ pc = "read" /\ Cli.is = "cut" /\ Len(disk[Out].lines) < MaxLines
    \/ pc = "entries" /\ entries # <<>> /\ Passes(Head(entries))
    \/ WritesRelease

\* The program is killed, perhaps inside the write of a line or of a file; what
\* its cache had buffered is lost.
Kill ==
    /\ pc # "none" /\ faults < MaxFaults
    /\ \/ UNCHANGED <<rest, dir>>
       \/ Writing /\ rest' = TRUE /\ UNCHANGED dir
       \/ /\ Downloads /\ ~Holds(dir, Head(chosen))
          /\ dir' = With(dir, Head(chosen).path, Part)
          /\ UNCHANGED rest
    /\ pc' = "none" /\ prog' = [prog EXCEPT !.ended = "killed"]
    /\ faults' = faults + 1
    /\ lists' \in {prog.lists, lists}
    /\ UNCHANGED <<disk, log, sound, missed, reading, from, chosen, printed, runs>>

\* The user compresses a manifest.
Compress(n) ==
    /\ pc = "none" /\ disk[n] # Missing /\ disk[n].form = "jrman" /\ OnDisk(n).lines # <<>>
    /\ disk' = [disk EXCEPT ![n] = [OnDisk(n) EXCEPT !.form = "zrman"]]
    /\ rest' = (rest /\ n # Out)
    /\ sound' = [sound EXCEPT ![n] = @ /\ ~(rest /\ n = Out)]
    /\ UNCHANGED <<missed, log, faults, dir, lists, prog, pc, reading, from, chosen, printed, runs>>

Next ==
    \/ \E command \in Commands : Start(command)
    \/ Open \/ WriteHeader
    \/ Read \/ MergeEntry \/ DiffEntry \/ SplitEntry \/ RadsEntry
    \/ PrintEntry \/ ChooseEntry \/ CutEntry
    \/ EndOfInput \/ End
    \/ \E verdict \in {"ok", "failed"} : DownloadFile(verdict)
    \/ DownloadThrows
    \/ Release \/ WriteFile
    \/ Kill
    \/ \E n \in Name : Compress(n)

Spec == Init /\ [][Next]_vars

-----------------------------------------------------------------------------
\* What was written to a manifest is read from it again, all of it, in its order
\* and without an error: in every form, while a program still writes, after
\* others were added to it, and where a write failed that later ones were written
\* over.  Only a manifest with half a line and one without its header, as after
\* --append, are excepted.
WrittenIsRead ==
    \A n \in Name : sound[n] /\ ~(rest /\ n = Out) => ReadFile(disk[n]) = [entries |-> log[n], ok |-> TRUE]

\* However often programs were killed inside a write, or a write failed, and others
\* went on behind the half line or over it: what is read was written, in this
\* order from the first on.
NothingInvented ==
    \A n \in Name : ~IsRman(disk[n]) => IsPrefix(ReadFile(OnDisk(n)).entries, log[n])

Ended(is) == pc = "none" /\ prog.ended # "no" /\ Cli.is = is /\ Out \notin ToSet(Cli.ins)

\* What is in a manifest is what was written to it: WrittenIsRead.
EntriesOf(i) == log[Cli.ins[i]]
Input(i) == Only(EntriesOf(i), {e \in ToSet(EntriesOf(i)) : Matching(e)})

\* The entries of the inputs of rman-merge that match under the name they get, and
\* what it makes of them.
InputNamed(i) ==
    [k \in DOMAIN EntriesOf(i) |->
        LET e == EntriesOf(i)[k]
        IN  IF Cli.prefix THEN [e EXCEPT !.path = <<Cli.ins[i]>> \o @] ELSE e]
AllNamed == FlattenSeq([i \in DOMAIN Cli.ins |-> InputNamed(i)])
ToMerge == Only(AllNamed, {e \in ToSet(AllNamed) : Matching(e)})
Merged(e) == [e EXCEPT !.places = <<>>, !.stripped = IF Cli.cache /\ Len(e.data) > 1 THEN TRUE ELSE @]

\* rman-merge gives the files of its inputs that match under the name they get,
\* in their order; where it ended with an exception, the first of them.  A file it
\* took the chunks from has its list in the cache.  (A write that failed is not
\* noticed, and its file is not in the output.)
MergeFaithful ==
    Ended("merge") /\ prog.ended # "killed" /\ ~missed =>
        LET expected == [k \in DOMAIN ToMerge |-> Merged(ToMerge[k])]
        IN /\ IF prog.ended = "ok" THEN log[Out] = expected ELSE IsPrefix(log[Out], expected)
           /\ \A k \in DOMAIN log[Out] :
                log[Out][k].stripped /\ ~ToMerge[k].stripped => log[Out][k].data \in lists

\* rman-diff writes the files of the second input that the first does not have
\* with the same data under the same path, and no other.
LatestIn(s, e) ==
    LET places == {k \in DOMAIN s : s[k].path = e.path}
    IN  {s[k] : k \in {k \in places : \A l \in places : l <= k}}
Differs(e) == Matching(e) /\ ~ \E f \in LatestIn(Input(1), e) : f.data = e.data
DiffOf ==
    LET s == Only(EntriesOf(2), {e \in ToSet(EntriesOf(2)) : Differs(e)})
    IN  [k \in DOMAIN s |-> Dumped(s[k])]
DiffComplete ==
    Ended("diff") /\ prog.ended = "ok" /\ ~missed => log[Out] = DiffOf

\* So it does for manifests with chunks.
Stripless(s) == \A k \in DOMAIN s : ~s[k].stripped
DiffOfChunks ==
    Ended("diff") =>
        ((\A i \in DOMAIN Cli.ins : Stripless(Input(i))) => DiffComplete)

\* The last row of a table with an id.
RowOf(rows, id) == {i \in DOMAIN rows : Get(rows[i], "id") = id /\ \A k \in i + 1 .. Len(rows) : Get(rows[k], "id") # id}

\* The directories of a chain of rows, from the innermost, give the file its path.
IsChain(raw, file, chain) ==
    LET Up(k) == IF k = 0 THEN Get(file, "dir") ELSE Get(raw.dirs[chain[k]], "parent")
    IN  /\ \A k \in DOMAIN chain : Up(k - 1) # 0 /\ chain[k] \in RowOf(raw.dirs, Up(k - 1))
        /\ Up(Len(chain)) = 0
PathBy(raw, file, chain) ==
    LET names == [k \in DOMAIN chain |-> Get(raw.dirs[chain[k]], "name")]
    IN  Append(Only(Reverse(names), ToSet(names) \ {NoWord}), Get(file, "name"))

Bytes(rows, field, k) ==
    LET sum[i \in 0 .. Len(rows)] == IF i = 0 THEN 0 ELSE sum[i - 1] + Get(rows[i], field)
    IN  sum[k - 1]

\* The chunk id is at a place of one of the bundles.
IsAt(raw, id, place) ==
    \E i \in DOMAIN raw.bundles : \E k \in DOMAIN Get(raw.bundles[i], "chunks") :
        LET rows == Get(raw.bundles[i], "chunks")
        IN  rows[k].id = id /\ place = [bundle |-> raw.bundles[i].id, at |-> Bytes(rows, "compressed", k)]

\* What a row of the files means: its path, its languages and the rest.
LangsBy(raw, file) ==
    LET Name1(id) == {Get(raw.langs[k], "name") : k \in RowOf(raw.langs, id)}
    IN  IF Get(file, "flags") = {} THEN {NoWord} ELSE UNION {Name1(bit + 1) : bit \in file.flags}
IsMeant(raw, file, e) ==
    /\ \E chain \in BoundedSeq(DOMAIN raw.dirs, Len(raw.dirs)) :
            IsChain(raw, file, chain) /\ e.path = PathBy(raw, file, chain)
    /\ e.langs = LangsBy(raw, file)
    /\ e.hash = raw.params[Get(file, "params") + 1].hash
    /\ e.data = Get(file, "ids")
    /\ \A k \in DOMAIN e.data : IsAt(raw, e.data[k], e.places[k])

\* A manifest that is read is one whose every reference has a meaning, and each
\* file has the path, the languages, the hash type and the chunks that they mean:
\* the chunk is found where its bundle has it, whatever is listed before it, more
\* than once, or under an id that comes again.
ParsedRight ==
    [][ Read /\ IsRman(disk[Head(todo)]) /\ Cli.is # "bl" /\ readable' =>
        LET raw == disk[Head(todo)].raw
        IN  Len(entries') = Len(raw.files) /\ \A i \in DOMAIN raw.files : IsMeant(raw, raw.files[i], entries'[i])
      ]_vars

\* rman-dl keeps the url only where every chunk of every file it asks for has a
\* bundle to ask for, and rman-bl prints every such bundle of its inputs.
BundlesKnown ==
    /\ prog.url => \A i \in DOMAIN chosen : Len(chosen[i].places) = Len(chosen[i].data)
    /\ Ended("bl") /\ prog.ended = "ok" =>
        \A i \in DOMAIN Cli.ins : \A k \in DOMAIN EntriesOf(i) :
            \A place \in ToSet(EntriesOf(i)[k].places) : place.bundle \in ToSet(printed)

\* An update that ends well leaves each file that its manifest lists once in the
\* directory, where the directory had those of the older manifest under its path;
\* without an older manifest, whatever the directory had.
UpdateComplete ==
    Ended("dl") /\ prog.ended = "ok" =>
        LET Same(i, e) == {f \in ToSet(EntriesOf(i)) : f.path = e.path}
            Had(e) == \A f \in Same(1, e) : Matching(f) => Holds(prog.dir, f)
        IN  \A e \in ToSet(EntriesOf(Len(Cli.ins))) :
                Matching(e) /\ Same(Len(Cli.ins), e) = {e} /\ (Len(Cli.ins) = 2 => Had(e)) => Holds(dir, e)

-----------------------------------------------------------------------------
\* The folder d has the folder or file c, and none behind it has.
HasLast(folders, field, c, d) ==
    /\ d = 1 \/ c \in Members(folders[d][field])
    /\ \A later \in d + 1 .. Len(folders) : c \notin Members(folders[later][field])

\* The folders of a chain, from that of the file up to the first, which is not in it.
IsFolderChain(raw, file, chain) ==
    LET Up(k) == IF k > Len(chain) THEN 1 ELSE chain[k]
    IN  raw.folders # <<>> =>
            /\ HasLast(raw.folders, "files", file - 1, Up(1))
            /\ \A k \in DOMAIN chain : chain[k] # 1 /\ HasLast(raw.folders, "folders", chain[k] - 1, Up(k + 1))

ChainsOf(raw, file) ==
    {chain \in BoundedSeq(DOMAIN raw.folders, Len(raw.folders)) : IsFolderChain(raw, file, chain)}

\* The names and versions of the files of a project, if every one has a chain.
Meant(raw) ==
    LET InFolders(file, chain) ==
            Append(Reverse([k \in DOMAIN chain |-> raw.folders[chain[k]].name]), raw.files[file].name)
    IN  IF \E i \in DOMAIN raw.files : ChainsOf(raw, i) = {} THEN {}
        ELSE {[name |-> InFolders(i, CHOOSE chain \in ChainsOf(raw, i) : TRUE),
               version |-> raw.files[i].version] : i \in DOMAIN raw.files}

\* The directory of the release, in which its files are looked for.
Realm == RealmOf(Cli.release)

\* The last entry of the input in this directory that has the path, in any case.
EntryAt(path) ==
    LET input == EntriesOf(1)
        places == {i \in DOMAIN input : IsIn(Realm, input[i]) /\ Lowered(input[i].path) = Lowered(path)}
    IN  {input[i] : i \in {j \in places : \A k \in places : k <= j}}

\* What the entries say that are release manifests and can be read.
Said(is, path) ==
    {raw \in {Contents[e.data] : e \in {e \in EntryAt(path) :
                e.data \in DOMAIN Contents /\ ToSet(e.data) \subseteq Cli.bundle /\ (e.stripped => e.data \in lists)}} :
        raw.is = is /\ IF is = "rls" THEN RlsOk(raw) ELSE SlnOk(raw)}

\* The files of a project, as rman-rads should write them.
FilesAt(path) ==
    UNION {UNION {{[Dumped(e) EXCEPT !.path = file.name] : e \in EntryAt(FilePath(Realm, raw.name, file))} :
                    file \in Meant(raw)} : raw \in Said("rls", path)}

\* The languages of which all manifests of projects are said to be, or "none".
IsFor(raw, name) == {l \in DOMAIN raw.locales : name \in ToSet(raw.locales[l].projects)}
InSolution(raw, e, name) ==
    [e EXCEPT !.langs = IF IsFor(raw, name) \in {{}, DOMAIN raw.locales} THEN {NoWord}
                        ELSE {raw.locales[l].name : l \in IsFor(raw, name)}]

FilesOfSolution(path) ==
    UNION {UNION {{InSolution(raw, e, project.name) : e \in FilesAt(RlsPath(Realm, project.name, project.version))} :
                    project \in ToSet(raw.projects)} : raw \in Said("sln", path)}

\* The release manifest is in the directory of its kind, as those of a release are.
IsOf(release) ==
    CASE Last(release) = RlsName -> Has(release, Projects)
      [] Last(release) = SlnName -> Has(release, Solutions) /\ ~Has(release, Projects)
      [] OTHER -> TRUE

\* rman-rads writes the files of a release: those the release manifests list, under
\* the names of their folders, where the input has them under the path of their
\* project and version in any case; with the languages the solution has their
\* project for.  A release manifest that is damaged, goes in a circle or is not
\* in the bundle adds nothing, and takes nothing of the others.  Without a bundle,
\* the files in a directory.
ReleaseRight ==
    /\ Ended("rads") /\ prog.ended = "ok" /\ ~missed /\ ~Cli.append /\ IsOf(Cli.release) =>
        ToSet(log[Out]) =
            CASE Last(Cli.release) = RlsName -> FilesAt(Cli.release)
              [] Last(Cli.release) = SlnName -> FilesOfSolution(Cli.release)
              [] OTHER -> {}
    /\ Ended("split") /\ prog.ended = "ok" /\ ~missed /\ ~Cli.append =>
        {Cli.release \o e.path : e \in ToSet(log[Out])} =
            {e.path : e \in {e \in ToSet(EntriesOf(1)) : IsIn(Cli.release, e)}}
=============================================================================
