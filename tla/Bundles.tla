------------------------------- MODULE Bundles -------------------------------
(***************************************************************************)
(* The programs on bundle files: rbun-merge adds the chunks of its inputs  *)
(* to a chunk cache, rbun-ex writes each to a file of its own, rbun-chk    *)
(* checks them, with as many threads as it is told, and rbun-ls lists      *)
(* them.  All but rbun-ls read the table of contents without its checksum  *)
(* and keep their own sum of the compressed sizes, so that a table which a *)
(* killed writer half overwrote is gone through entry by entry until one   *)
(* fails.  An exception ends the bundle it is thrown for; the next bundle  *)
(* is gone on with.                                                        *)
(*                                                                         *)
(* The chunks have one uncompressed size, as those of a constant size cut  *)
(* have: a program that does not hash cannot tell one from another, and    *)
(* one that writes over a file leaves nothing of it.  The output of        *)
(* rbun-merge is what ContentStore says a cache is, while its writes work. *)
(* One that fails leaves its table in the buffer of RCache, and rbun-merge *)
(* goes on: what is added behind that table is later looked for where the  *)
(* sizes of the chunks alone say, and is not there.                        *)
(***************************************************************************)
EXTENDS RBundle, SequencesExt

CONSTANTS
    Path,           \* the inputs
    Inputs,         \* what may be in them: functions from Path to files
    Commands,       \* records [is, ins, flags, parallel], where is is "merge", "ex",
                    \* "chk" or "ls"; flags are named as on the command line
    Junk,           \* the id in an entry that was overwritten
    MaxJunk,        \* bound on the size in an entry that was overwritten
    MaxThreads,
    MaxRuns, MaxKills, MaxFails     \* bounds on the programs that are run, on those
                                    \* that are killed, and on the writes that fail

VARIABLES
    disk,       \* Path -> the file
    output,     \* the cache: id -> the chunk whose data a later process finds under
                \* it, when all is written
    kept,       \* what it finds if the process is killed
    damaged,    \* it refuses the cache if the process is killed
    gap,        \* whether a failed write left a table in the part that is written,
                \* "here", in none but parts "before" it, or in no part, "none"
    dir,        \* the directory of rbun-ex: name -> the chunk whose data it holds
    unsure,     \* names of files that were opened and not written with a checked hash
    blind,      \* rbun-merge --no-extract was run
    seen,       \* the names rbun-ex does not write again
    prog,       \* the command that runs, or did last, how it ended, and the fails
                \* before it
    thread,     \* its threads: where each is, in which bundle and in which entry
    told,       \* number of the input -> the verdicts on it
    runs, kills, fails

cache == <<output, kept, damaged, gap, blind>>
files == <<dir, unsure, seen>>
bounds == <<runs, kills, fails>>
vars == <<disk, cache, files, prog, thread, told, bounds>>

Thread == 1 .. MaxThreads
Void == "nothing"       \* the content of an empty file, or of no bytes
Part == "part"          \* of one whose write failed
Bad == "bad"            \* of data that is no chunk's
Shifted == "shifted"    \* of what lies where a chunk behind a left table is looked for

\* A cache, or a directory, with this under the key, in the place of what was there.
Put(contents, key, value) == [k \in DOMAIN contents \cup {key} |-> IF k = key THEN value ELSE contents[k]]

\* The options that a program has; only rbun-chk has --parallel.
FlagsOf(is) ==
    IF is = "merge" THEN {"no-extract", "level-recompress"}
    ELSE IF is = "ex" THEN {"force", "no-hash", "with-offset"}
    ELSE IF is = "chk" THEN {"no-extract", "no-hash"}
    ELSE {}

ASSUME InputsAssumption == Inputs \subseteq [Path -> Seq(Cell)]
ASSUME CommandsAssumption ==
    /\ Commands # {}
    /\ \A command \in Commands :
          /\ command.is \in {"merge", "ex", "chk", "ls"}
          /\ command.ins \in Seq(Path)
          /\ command.flags \subseteq FlagsOf(command.is)
          /\ command.parallel \in 0 .. MaxThreads
          /\ command.is # "chk" => command.parallel = 0
ASSUME JunkAssumption == Junk \notin Chunk /\ (Chunk \cup {Junk}) \cap {Void, Part, Bad, Shifted} = {}
ASSUME BoundsAssumption ==
    MaxThreads \in Nat \ {0} /\ MaxJunk \in Nat /\ MaxRuns \in Nat /\ MaxKills \in Nat /\ MaxFails \in Nat

Cli == prog.command
Flag(f) == f \in Cli.flags

\* rbun-chk takes each of the two flags for the other.
NoHash == IF Cli.is = "chk" THEN Flag("no-extract") ELSE Flag("no-hash")
NoExtract == IF Cli.is = "chk" THEN Flag("no-hash")
             ELSE Flag("no-extract") /\ ~Flag("level-recompress")

-----------------------------------------------------------------------------
(***************************************************************************)
(* Reading                                                                 *)
(***************************************************************************)

\* What an entry of the table may be read as.
RowsAt(cell) ==
    IF cell.kind = "entry" THEN {[id |-> cell.id, size |-> Size[cell.id]]}
    ELSE [id : {Junk}, size : 0 .. MaxJunk]

\* RBUN::read with no_lookup: the tables it may return.  The sizes are compared
\* with the offset of the table one by one, never their sum.
Readable(file) == file # <<>> /\ Last(file).kind = "footer" /\ TocOffset(file) >= 0
Oversized(file) ==
    /\ Readable(file)
    /\ \E i \in 1 .. EntryCount(file) : \E row \in RowsAt(file[TocOffset(file) + i]) : row.size > TocOffset(file)
Tables(file) ==
    IF ~Readable(file) THEN {}
    ELSE LET n == EntryCount(file)
             rows == UNION {RowsAt(file[TocOffset(file) + i]) : i \in 1 .. n}
         IN  {toc \in [1 .. n -> rows] : \A i \in 1 .. n :
                 toc[i] \in RowsAt(file[TocOffset(file) + i]) /\ toc[i].size <= TocOffset(file)}

\* IO::copy gives the cells of the row.
Whole(file, offset, row) == offset + row.size <= Len(file)

\* The chunks whose data zstd_decompress may return for the row, or Bad where it
\* throws; an overwritten entry may say that no bytes give no bytes.
Plain(file, offset, row) ==
    IF row.id = Junk THEN IF row.size = 0 THEN {Void, Bad} ELSE {Bad}
    ELSE LET found == {c \in Chunk : SubSeq(file, offset + 1, offset + row.size) = Data(c)}
         IN  IF found = {} THEN {Bad} ELSE found

\* Whether the header of the frame has the size of the row.
Framed(file, offset, row) ==
    IF row.size = 0 THEN BOOLEAN
    ELSE IF offset >= Len(file) THEN {FALSE}
    ELSE LET cell == file[offset + 1]
         IN  IF cell.kind = "torn" THEN BOOLEAN
             ELSE {row.id # Junk /\ cell.kind = "data" /\ cell = Data(cell.id)[1]}

FoundUnhashed(file, offset, row) ==  \* mutant: the hash is never checked
    IF Whole(file, offset, row) THEN Plain(file, offset, row) ELSE {Bad}

\* What the checks of a program let through for a row: the chunk whose data is
\* there, or Bad where one of them throws.
Found(file, offset, row) ==
    IF NoExtract
    THEN IF Cli.is = "merge" /\ ~Whole(file, offset, row) THEN {Bad}
         ELSE {IF framed THEN row.id ELSE Bad : framed \in Framed(file, offset, row)}
    ELSE IF ~Whole(file, offset, row) THEN {Bad}
    ELSE {IF NoHash \/ c = row.id THEN c ELSE Bad : c \in Plain(file, offset, row)}

-----------------------------------------------------------------------------
Idle == [pc |-> "none", i |-> 0, toc |-> <<>>, k |-> 0, offset |-> 0, found |-> Void]

Init ==
    /\ disk \in Inputs
    /\ output = <<>> /\ kept = <<>> /\ damaged = FALSE /\ gap = "none" /\ blind = FALSE
    /\ dir = <<>> /\ unsure = {} /\ seen = {}
    /\ prog = [command |-> CHOOSE c \in Commands : TRUE, ended |-> "never", fails |-> 0]
    /\ thread = [t \in Thread |-> Idle]
    /\ told = <<>>
    /\ runs = 0 /\ kills = 0 /\ fails = 0

Running == prog.ended = "no"

\* The threads take the inputs in turn; without --parallel there is one.
StrideOfOne == 1  \* mutant
Stride == IF Cli.parallel = 0 THEN 1 ELSE Cli.parallel

\* The part that is written, or the next, which has no table left in it.
NextPart == IF gap = "here" THEN "before" ELSE gap
APart == {gap, NextPart}

SeenAlways(command) == IF command.is = "ex" THEN DOMAIN dir ELSE {}  \* mutant
SeenBefore(command) == IF command.is = "ex" /\ "force" \notin command.flags THEN DOMAIN dir ELSE {}

Start(command) ==
    /\ ~Running /\ runs < MaxRuns
    /\ command.is = "merge" => ~damaged
    /\ prog' = [command |-> command, ended |-> "no", fails |-> fails]
    /\ LET threads == IF command.parallel = 0 THEN 1 ELSE command.parallel
       IN  thread' = [t \in Thread |-> IF t <= threads THEN [Idle EXCEPT !.pc = "next", !.i = t] ELSE Idle]
    /\ told' = [i \in DOMAIN command.ins |-> <<>>]
    /\ blind' = (blind \/ (command.is = "merge" /\ "no-extract" \in command.flags))
    /\ gap' \in IF command.is = "merge" THEN APart ELSE {gap}
    /\ seen' = SeenBefore(command)
    /\ runs' = runs + 1
    /\ UNCHANGED <<disk, output, kept, damaged, dir, unsure, kills, fails>>

File(t) == disk[Cli.ins[thread[t].i]]

\* The verdict on the bundle of the thread, which takes its next.
Tell(t, verdict) ==
    /\ told' = [told EXCEPT ![thread[t].i] = Append(@, verdict)]
    /\ thread' = [thread EXCEPT ![t] = [Idle EXCEPT !.pc = "next", !.i = thread[t].i + Stride]]

\* The file of the chunk the thread is at.
Name(t) ==
    LET id == thread[t].toc[thread[t].k].id
    IN  IF Flag("with-offset") THEN <<thread[t].offset, id>> ELSE <<id>>

Throw(t) == Tell(t, "FAIL") /\ UNCHANGED <<disk, cache, files, prog, bounds>>

AtBundle(t) == Running /\ thread[t].pc = "next" /\ thread[t].i <= Len(Cli.ins)

Open(t) ==
    /\ AtBundle(t) /\ Cli.is # "ls"
    /\ \E toc \in Tables(File(t)) :
           thread' = [thread EXCEPT ![t] = [@ EXCEPT !.pc = "rows", !.toc = toc, !.k = 1]]
    /\ UNCHANGED <<disk, cache, files, prog, told, bounds>>

OpenThrows(t) ==
    /\ AtBundle(t) /\ Cli.is # "ls"
    /\ ~Readable(File(t)) \/ Oversized(File(t))
    /\ Throw(t)

\* rbun-ls, which compares the checksum.
List(t) ==
    /\ AtBundle(t) /\ Cli.is = "ls"
    /\ Tell(t, IF Accepts(File(t)) THEN "OK" ELSE "FAIL")
    /\ UNCHANGED <<disk, cache, files, prog, bounds>>

Row(t) == thread[t].toc[thread[t].k]
AtRow(t, is) ==
    Running /\ Cli.is = is /\ thread[t].pc = "rows" /\ thread[t].k <= Len(thread[t].toc)
FoundBy(t) == Found(File(t), thread[t].offset, Row(t))

\* The offset goes on, for a chunk that is skipped too.
PastRead(t, skipped) ==  \* mutant
    [thread[t] EXCEPT !.pc = "rows", !.k = @ + 1, !.offset = @ + IF skipped THEN 0 ELSE Row(t).size]
Past(t, skipped) == [thread[t] EXCEPT !.pc = "rows", !.k = @ + 1, !.offset = @ + Row(t).size]

RowThrows(t) ==
    /\ \/ AtRow(t, "merge") /\ Row(t).id \notin DOMAIN output
       \/ AtRow(t, "ex") /\ Name(t) \notin seen
       \/ AtRow(t, "chk")
    /\ Bad \in FoundBy(t)
    /\ Throw(t)

\* The row of rbun-chk.
Check(t) ==
    /\ AtRow(t, "chk")
    /\ FoundBy(t) # {Bad}
    /\ thread' = [thread EXCEPT ![t] = Past(t, FALSE)]
    /\ UNCHANGED <<disk, cache, files, prog, told, bounds>>

-----------------------------------------------------------------------------
(***************************************************************************)
(* rbun-merge                                                              *)
(***************************************************************************)

\* On the disk is all of what the cache had, or something that is refused.
Flushed(contents) == kept' = contents /\ damaged' = FALSE
Broken == kept' = <<>> /\ damaged' = TRUE

\* What is put under the id; without --extract what lies there is copied.
Copied(t) ==
    UNION {IF NoExtract THEN Plain(File(t), thread[t].offset, Row(t)) ELSE {c} : c \in FoundBy(t) \ {Bad}}

\* The cache with the chunk in a part.
With(t, d, part) == Put(output, Row(t).id, IF part = "here" THEN Shifted ELSE d)

\* RCache::add, which may flush what was added before, for a new part, and what is
\* added.
Add(t) ==
    /\ AtRow(t, "merge") /\ Row(t).id \notin DOMAIN output
    /\ \E d \in Copied(t), part \in APart :
        /\ output' = With(t, d, part)
        /\ gap' = part
        /\ \/ part = gap /\ UNCHANGED <<kept, damaged>>
           \/ Flushed(output) \/ Flushed(output')
    /\ thread' = [thread EXCEPT ![t] = Past(t, FALSE)]
    /\ UNCHANGED <<disk, blind, files, prog, told, bounds>>

\* It throws, which ends the bundle and not the program: the file of the next part
\* cannot be opened, or a write fails, before the chunk is in the cache or after.
AddThrows(t) ==
    /\ AtRow(t, "merge") /\ Row(t).id \notin DOMAIN output
    /\ fails < MaxFails /\ fails' = fails + 1
    /\ \/ Copied(t) # {} /\ UNCHANGED <<output, gap>> /\ Flushed(output)
       \/ \E d \in Copied(t), part \in APart :
            /\ output' \in {output, With(t, d, part)}
            /\ gap' = "here"
            /\ \/ part = gap /\ UNCHANGED <<kept, damaged>>
               \/ Flushed(output) \/ Broken
    /\ Tell(t, "FAIL")
    /\ UNCHANGED <<disk, blind, files, prog, runs, kills>>

Contained(t) ==
    /\ AtRow(t, "merge") /\ Row(t).id \in DOMAIN output
    /\ thread' = [thread EXCEPT ![t] = Past(t, TRUE)]
    /\ UNCHANGED <<disk, cache, files, prog, told, bounds>>

-----------------------------------------------------------------------------
(***************************************************************************)
(* rbun-ex                                                                 *)
(***************************************************************************)

\* The file of the chunk is opened, and made where it is not there.
OpenChunk(t) ==
    /\ AtRow(t, "ex") /\ Name(t) \notin seen
    /\ \E c \in FoundBy(t) \ {Bad} :
           thread' = [thread EXCEPT ![t].pc = "write", ![t].found = c]
    /\ dir' = IF Name(t) \in DOMAIN dir THEN dir ELSE Put(dir, Name(t), Void)
    /\ unsure' = unsure \cup {Name(t)}
    /\ UNCHANGED <<disk, cache, seen, prog, told, bounds>>

\* The result of the write is not looked at.
WriteChunk(t, works) ==
    /\ Running /\ thread[t].pc = "write"
    /\ LET c == thread[t].found
       IN  IF works
           THEN /\ dir' = IF c = Void THEN dir ELSE Put(dir, Name(t), c)
                /\ unsure' = IF NoHash THEN unsure ELSE unsure \ {Name(t)}
                /\ UNCHANGED fails
           ELSE /\ fails < MaxFails /\ c # Void
                /\ dir' \in {dir, Put(dir, Name(t), Part)}
                /\ fails' = fails + 1
                /\ UNCHANGED unsure
    /\ seen' = seen \cup {Name(t)}
    /\ thread' = [thread EXCEPT ![t] = Past(t, FALSE)]
    /\ UNCHANGED <<disk, cache, prog, told, runs, kills>>

Seen(t) ==
    /\ AtRow(t, "ex") /\ Name(t) \in seen
    /\ thread' = [thread EXCEPT ![t] = Past(t, TRUE)]
    /\ UNCHANGED <<disk, cache, files, prog, told, bounds>>

-----------------------------------------------------------------------------
Finish(t) ==
    /\ Running /\ thread[t].pc = "rows" /\ thread[t].k > Len(thread[t].toc)
    /\ Tell(t, "OK")
    /\ UNCHANGED <<disk, cache, files, prog, bounds>>

\* The threads are joined, and the cache is closed, which writes what it has.
End ==
    /\ Running
    /\ \A t \in Thread : thread[t].pc = "none" \/ (thread[t].pc = "next" /\ thread[t].i > Len(Cli.ins))
    /\ prog' = [prog EXCEPT !.ended = "ok"]
    /\ IF Cli.is = "merge" THEN Flushed(output) ELSE UNCHANGED <<kept, damaged>>
    /\ thread' = [t \in Thread |-> Idle]
    /\ UNCHANGED <<disk, output, gap, blind, files, told, bounds>>

\* The process is killed, perhaps inside a write of the cache, or dies of one that
\* fails where nothing catches it: when the cache is opened, and in ~RCache.  The
\* file of a chunk is written without an interruption.
Kill ==
    /\ Running /\ kills < MaxKills
    /\ prog' = [prog EXCEPT !.ended = "killed"]
    /\ IF Cli.is = "merge"
       THEN (UNCHANGED <<kept, damaged>> \/ Flushed(output) \/ Broken) /\ output' = kept'
       ELSE UNCHANGED <<output, kept, damaged>>
    /\ thread' = [t \in Thread |-> Idle] /\ told' = <<>>
    /\ kills' = kills + 1
    /\ UNCHANGED <<disk, gap, blind, files, runs, fails>>

Next ==
    \/ \E command \in Commands : Start(command)
    \/ \E t \in Thread :
        \/ Open(t) \/ OpenThrows(t) \/ List(t)
        \/ RowThrows(t) \/ Check(t) \/ Add(t) \/ AddThrows(t) \/ Contained(t)
        \/ OpenChunk(t) \/ Seen(t) \/ Finish(t)
        \/ \E works \in BOOLEAN : WriteChunk(t, works)
    \/ End \/ Kill

Spec == Init /\ [][Next]_vars

-----------------------------------------------------------------------------
Ended(is) == prog.ended = "ok" /\ Cli.is = is

\* Every entry of the table is one, and its chunk is where the sizes before it say,
\* before the table.
Sound(file) ==
    /\ Readable(file)
    /\ \A i \in 1 .. EntryCount(file) : file[TocOffset(file) + i].kind = "entry"
    /\ Offsets(Chunks(file))[EntryCount(file)] <= TocOffset(file)
    /\ LET table == Chunks(file)
           Span(i) == SubSeq(file, Offsets(table)[i - 1] + 1, Offsets(table)[i])
       IN  \A i \in DOMAIN table : Span(i) = Data(table[i])

\* Unless it is told not to extract, rbun-merge makes a cache of nothing but
\* chunks whose data is theirs, from whatever inputs, in however many runs, of
\* which some were killed; except that behind the table which a failed write left
\* in a part the later chunks are not found.
MergeRight ==
    ~blind => \A id \in DOMAIN output : output[id] = id \/ (output[id] = Shifted /\ gap # "none")

\* A merge that was not killed leaves a cache that is not refused, and has, and says
\* so, an entry for all chunks of every sound input, wherever the other inputs
\* failed; unless a write failed for that input, when it says so.
MergeComplete ==
    Ended("merge") =>
        /\ ~damaged
        /\ \A i \in DOMAIN Cli.ins : Sound(disk[Cli.ins[i]]) =>
            \/ /\ told[i] = <<"OK">>
               /\ Ids(disk[Cli.ins[i]]) \subseteq DOMAIN kept
            \/ /\ told[i] = <<"FAIL">>
               /\ fails > prog.fails

NameOf(table, i) ==
    IF Flag("with-offset") THEN <<Offsets(table)[i - 1], table[i]>> ELSE <<table[i]>>

\* When rbun-ex has ended, every chunk of a sound bundle has its file, under its
\* offset where that is asked for, and with its data unless an earlier run or a
\* failed write left the file; with --force whatever an earlier run left.
ExtractedRight ==
    Ended("ex") => \A i \in DOMAIN Cli.ins :
        LET file == disk[Cli.ins[i]]
            table == Chunks(file)
        IN  Sound(file) =>
            /\ told[i] = <<"OK">>
            /\ \A k \in DOMAIN table :
                /\ NameOf(table, k) \in DOMAIN dir
                /\ NameOf(table, k) \notin unsure => dir[NameOf(table, k)] = table[k]
                /\ (fails = prog.fails /\ Flag("force") /\ ~NoHash) => NameOf(table, k) \notin unsure

\* However many threads there are, rbun-chk gives each input one verdict; it finds
\* no fault with a sound bundle and, without flags, one with every other.  rbun-ls
\* lists no bundle whose table was overwritten.
CheckRight ==
    /\ Ended("chk") => \A i \in DOMAIN Cli.ins :
        /\ Len(told[i]) = 1
        /\ Sound(disk[Cli.ins[i]]) => told[i] = <<"OK">>
        /\ Cli.flags = {} /\ told[i] = <<"OK">> => Sound(disk[Cli.ins[i]])
    /\ Ended("ls") => \A i \in DOMAIN Cli.ins :
        told[i] = <<"OK">> => LET file == disk[Cli.ins[i]]
                              IN \A k \in 1 .. EntryCount(file) : file[TocOffset(file) + k].kind = "entry"
=============================================================================
