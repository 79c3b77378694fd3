-------------------------------- MODULE Remake --------------------------------
(***************************************************************************)
(* rman-remake: every file of the input manifests is cut into chunks that  *)
(* go to the output bundle, and its new entry to the output manifest.  A   *)
(* resume file remembers the entries of the files that were processed, so  *)
(* that a later run skips them.  The bundle and the resume file have each  *)
(* a buffer of their own, written when it is full or when the program ends *)
(* in order; the manifest is written at once, and again by every run.      *)
(*                                                                         *)
(* The output bundle is used through its promise, ContentStore.  A write   *)
(* of it that fails is an exception, with what was to be written still in  *)
(* the buffer of RCache, which ~RCache writes again; when that fails the   *)
(* process dies.                                                           *)
(***************************************************************************)
EXTENDS Integers, Sequences, FiniteSets

CONSTANTS
    Piece,      \* the ids of the chunks of file data, each of one cell
    Files,      \* the input manifests: a sequence of records [id, data]
    Strip,      \* --strip-chunks
    Appending,  \* --append: what a run may be given
    FlushAt,    \* --resume-buffer, in entries
    MaxKills,   \* bound on the runs that are killed
    MaxRuns,    \* bound on the runs
    MaxFails,   \* bound on the writes of the resume file that fail
    NIL, ZERO

File == {Files[i] : i \in DOMAIN Files}
Lists == {f.data : f \in File}
Item == Piece \cup Lists

ASSUME FilesAssumption ==
    /\ Files \in Seq(File)
    /\ \A f \in File : f.data \in Seq(Piece)
    /\ \A f, g \in File : f.id = g.id => f.data = g.data
ASSUME FlagsAssumption == Strip \in BOOLEAN /\ Appending \subseteq BOOLEAN
ASSUME NoChunkAssumption ==
    /\ NIL # ZERO /\ NIL \notin Piece /\ ZERO \notin Piece
    /\ NIL \notin Seq([id : Piece, size : Nat])
ASSUME BoundsAssumption == FlushAt \in Nat \ {0} /\ MaxKills \in Nat /\ MaxRuns \in Nat /\ MaxFails \in Nat

VARIABLES
    stored, durable, damaged,   \* the output bundle, see ContentStore
    resume,     \* the resume file: a sequence of entries
    torn,       \* the resume file ends inside an entry
    mixed,      \* a write ended inside an entry that a failed write had left
    size,       \* file_->size(), which a write that fails does not change
    entries,    \* ResumeFile::entries_
    buffer,     \* ResumeFile::buffer_
    manifest,   \* the output manifest
    pc,         \* where the program is
    todo,       \* the files of the input manifests that were not read yet
    chunks,     \* rfile.chunks of the file that is being processed
    runs, kills, fails,
    mode        \* how the last run ended, which files it restored, and where in
                \* the manifest its own entries begin

store == <<stored, durable, damaged>>
disk == <<resume, torn, mixed, size, fails>>
journal == <<disk, entries, buffer>>
vars == <<store, journal, manifest, pc, todo, chunks, runs, kills, mode>>

Store == INSTANCE ContentStore WITH Chunk <- Item

-----------------------------------------------------------------------------
\* One chunk as an entry of the manifest refers to it.
Ref(c, n) == [id |-> c, size |-> n]

\* What rman-remake makes of a file.
Stripped(refs) == IF Strip /\ Len(refs) > 1 THEN NIL ELSE refs
Output(f) ==
    [file |-> f.id, list |-> f.data,
     chunks |-> Stripped([i \in DOMAIN f.data |-> Ref(f.data[i], 1)])]

\* An entry of the resume file, and the file made from it again.
SavedEmpty(f) ==  \* mutant: a stripped file is saved like one without chunks
    IF f.chunks = NIL \/ f.chunks = <<>> THEN ZERO ELSE f.chunks[1].id
Saved(f) ==
    IF f.chunks = NIL THEN NIL ELSE IF f.chunks = <<>> THEN ZERO ELSE f.chunks[1].id
Entry(f) == [file |-> f.file, list |-> f.list, chunk |-> Saved(f)]
Restored(e, n) ==
    [file |-> e.file, list |-> e.list,
     chunks |-> IF e.chunk = NIL THEN NIL
                ELSE IF e.chunk = ZERO THEN <<>>
                ELSE <<Ref(e.chunk, n)>>]

\* A file of the manifest can be read from the bundle: the list of a stripped
\* one is found, and every chunk is there with the size the list says.
Refs(f) == IF f.chunks = NIL THEN [i \in DOMAIN f.list |-> Ref(f.list[i], 1)] ELSE f.chunks
Readable(f, items) ==
    /\ f.chunks = NIL => f.list \in items
    /\ \A i \in DOMAIN Refs(f) : Refs(f)[i].size = 1 /\ Refs(f)[i].id \in items

Id == {f.id : f \in File}
SavedFile == [file : Id, list : Lists, chunk : Piece \cup {NIL, ZERO}]
ChunkList == {NIL} \cup Seq([id : Piece, size : Nat])

TypeOK ==
    /\ durable \subseteq stored /\ stored \subseteq Item /\ damaged \in BOOLEAN
    /\ resume \in Seq(SavedFile) /\ torn \in BOOLEAN /\ mixed \in BOOLEAN
    /\ size \in Nat /\ (pc # "off" => size <= Len(resume))
    /\ entries \subseteq SavedFile
    /\ buffer \in Seq(SavedFile) /\ (pc # "off" => Len(buffer) < FlushAt)
    /\ manifest \in Seq([file : Id, list : Lists, chunks : ChunkList])
    /\ pc \in {"off", "files", "chunks", "save", "write", "unwind", "close"}
    /\ todo \in Seq(File) /\ chunks \in ChunkList
    /\ runs \in 0 .. MaxRuns /\ kills \in 0 .. MaxKills /\ fails \in 0 .. MaxFails
    /\ mode \in [ended : {"clean", "thrown", "killed"}, base : 0 .. Len(manifest),
                 restored : SUBSET Id]

Init ==
    /\ Store!Init
    /\ resume = <<>> /\ torn = FALSE /\ mixed = FALSE /\ size = 0
    /\ entries = {} /\ buffer = <<>>
    /\ manifest = <<>>
    /\ pc = "off" /\ todo = <<>> /\ chunks = <<>>
    /\ runs = 0 /\ kills = 0 /\ fails = 0
    /\ mode = [ended |-> "clean", base |-> 0, restored |-> {}]

-----------------------------------------------------------------------------
\* Both files are opened; the constructor of either throws when it cannot be
\* read, and nothing happens then.
Run ==
    /\ pc = "off" /\ runs < MaxRuns
    /\ ~damaged /\ ~torn
    /\ entries' = {resume[i] : i \in DOMAIN resume}
    /\ buffer' = <<>> /\ size' = Len(resume)
    /\ \E append \in Appending : manifest' = IF append THEN manifest ELSE <<>>
    /\ todo' = Files /\ chunks' = <<>>
    /\ pc' = "files" /\ runs' = runs + 1
    /\ mode' = [ended |-> "clean", base |-> Len(manifest'), restored |-> {}]
    /\ UNCHANGED <<store, resume, torn, mixed, fails, kills>>

Known(f) == {e \in entries : e.file = f.id}

\* add_file, for a file the resume file knows.
Restore ==
    /\ pc = "files" /\ todo # <<>>
    /\ \E e \in Known(Head(todo)) :
          manifest' = Append(manifest, Restored(e, Len(Head(todo).data)))
    /\ todo' = Tail(todo)
    /\ mode' = [mode EXCEPT !.restored = @ \cup {Head(todo).id}]
    /\ UNCHANGED <<store, journal, pc, chunks, runs, kills>>

\* add_file, for another: its data is read from the input bundle and cut.
Read ==
    /\ pc = "files" /\ todo # <<>>
    /\ Known(Head(todo)) = {}
    /\ chunks' = <<>> /\ pc' = "chunks"
    /\ UNCHANGED <<store, journal, manifest, todo, runs, kills, mode>>

\* add_uncompressed; the buffer of the bundle may be written before the item is
\* put there (for a new part) and after (when it is full).
Added(c) ==
    IF c \in stored THEN UNCHANGED store
    ELSE /\ stored' = stored \cup {c}
         /\ durable' \in {durable, stored, stored'}
         /\ UNCHANGED damaged

\* One chunk of the file.
AddChunk ==
    /\ pc = "chunks" /\ Len(chunks) < Len(Head(todo).data)
    /\ LET c == Head(todo).data[Len(chunks) + 1]
       IN Added(c) /\ chunks' = Append(chunks, Ref(c, 1))
    /\ UNCHANGED <<journal, manifest, pc, todo, runs, kills, mode>>

AddNoList ==  \* mutant: the list is not added to the bundle
    /\ pc = "chunks" /\ Len(chunks) = Len(Head(todo).data)
    /\ chunks' = Stripped(chunks)
    /\ pc' = "save"
    /\ UNCHANGED <<store, journal, manifest, todo, runs, kills, mode>>

\* add_chunks.
AddList ==
    /\ pc = "chunks" /\ Len(chunks) = Len(Head(todo).data)
    /\ Added(Head(todo).data)
    /\ chunks' = Stripped(chunks)
    /\ pc' = "save"
    /\ UNCHANGED <<journal, manifest, todo, runs, kills, mode>>

\* The bundle's flush_internal throws, for a new part, when the item is not yet in
\* the bundle, or for a full buffer, when it is; what went before may be written.
NextItem ==
    IF Len(chunks) < Len(Head(todo).data) THEN Head(todo).data[Len(chunks) + 1] ELSE Head(todo).data
AddFails ==
    /\ pc = "chunks"
    /\ NextItem \notin stored
    /\ stored' \in {stored, stored \cup {NextItem}}
    /\ durable' \in {durable, stored}
    /\ mode' = [mode EXCEPT !.ended = "thrown"]
    /\ pc' = "unwind"
    /\ UNCHANGED <<damaged, journal, manifest, todo, chunks, runs, kills>>

\* The file that add_file returns.
NFile == [file |-> Head(todo).id, list |-> Head(todo).data, chunks |-> chunks]

\* A write of entries to the resume file, behind what size says, of which n get
\* there, and perhaps a part of the next.  Where failed writes left entries there,
\* that part makes one of two.
Reaches(new, n, part) ==
    LET rest == SubSeq(resume, size + n + 1, Len(resume))
        Mix(d, e) == [e EXCEPT !.file = d.file]
        over == part /\ rest # <<>>
    IN  /\ resume' = SubSeq(resume, 1, size) \o SubSeq(new, 1, n)
                       \o (IF over THEN <<Mix(new[n + 1], Head(rest))>> \o Tail(rest) ELSE rest)
        /\ torn' = ((part /\ ~over) \/ (torn /\ size + n <= Len(resume)))
        /\ mixed' = (mixed \/ over)

\* The write of flush, whose result is not looked at.
Written(new) ==
    \/ Reaches(new, Len(new), FALSE) /\ size' = size + Len(new) /\ UNCHANGED fails
    \/ /\ fails < MaxFails /\ fails' = fails + 1 /\ UNCHANGED size
       /\ \E n \in 0 .. Len(new) - 1 : \E part \in BOOLEAN : Reaches(new, n, part)

\* ResumeFile::save, and its flush.
Save ==
    /\ pc = "save"
    /\ entries' = entries \cup {Entry(NFile)}
    /\ LET saved == Append(buffer, Entry(NFile))
       IN IF Len(saved) >= FlushAt
          THEN Written(saved) /\ buffer' = <<>>
          ELSE buffer' = saved /\ UNCHANGED disk
    /\ pc' = "write"
    /\ UNCHANGED <<store, manifest, todo, chunks, runs, kills, mode>>

\* writer.
Write ==
    /\ pc = "write"
    /\ manifest' = Append(manifest, NFile)
    /\ todo' = Tail(todo)
    /\ pc' = "files"
    /\ UNCHANGED <<store, journal, chunks, runs, kills, mode>>

\* An exception: a file of a manifest cannot be parsed, a chunk is missing in
\* the input bundle or has the wrong size.
Throw ==
    /\ pc \in {"files", "chunks"}
    /\ mode' = [mode EXCEPT !.ended = "thrown"]
    /\ pc' = "unwind"
    /\ UNCHANGED <<store, journal, manifest, todo, chunks, runs, kills>>

\* The end of the run, or of the unwinding: ~ResumeFile comes first.
Finishing == pc = "unwind" \/ (pc = "files" /\ todo = <<>>)
CloseUnforced ==  \* mutant: flush() where flush(true) is needed
    /\ Finishing
    /\ buffer' = <<>>
    /\ pc' = "close"
    /\ UNCHANGED <<store, disk, entries, manifest, todo, chunks, runs, kills, mode>>

CloseResume ==
    /\ Finishing
    /\ IF buffer = <<>> THEN UNCHANGED disk ELSE Written(buffer)
    /\ buffer' = <<>>
    /\ pc' = "close"
    /\ UNCHANGED <<store, entries, manifest, todo, chunks, runs, kills, mode>>

\* ~RCache.
Close ==
    /\ pc = "close"
    /\ Store!End /\ durable' = stored
    /\ pc' = "off"
    /\ UNCHANGED <<journal, manifest, todo, chunks, runs, kills, mode>>

\* What is written to the resume file next, if anything is.
Unwritten ==
    IF pc = "save" /\ Len(buffer) + 1 >= FlushAt THEN Append(buffer, Entry(NFile))
    ELSE IF Finishing THEN buffer ELSE <<>>

\* The program is killed: both buffers are lost.  It may be inside a write of
\* either file.  Or it dies of a write of ~RCache that fails.
Kill ==
    /\ pc # "off" /\ kills < MaxKills
    /\ \/ /\ Store!End /\ durable' = durable
          /\ \/ UNCHANGED <<resume, torn, mixed>>
             \/ \E n \in 0 .. Len(Unwritten), part \in BOOLEAN :
                    (part => n < Len(Unwritten)) /\ Unwritten # <<>> /\ Reaches(Unwritten, n, part)
       \/ /\ pc \in {"chunks", "close"} /\ Store!Damage
          /\ UNCHANGED <<resume, torn, mixed>>
    /\ entries' = {} /\ buffer' = <<>>
    /\ pc' = "off" /\ kills' = kills + 1
    /\ mode' = [mode EXCEPT !.ended = "killed"]
    /\ UNCHANGED <<manifest, todo, chunks, runs, size, fails>>

Next ==
    \/ Run
    \/ Restore
    \/ Read
    \/ AddChunk
    \/ AddList
    \/ AddFails
    \/ Save
    \/ Write
    \/ Throw
    \/ CloseResume
    \/ Close
    \/ Kill

Spec == Init /\ [][Next]_vars

-----------------------------------------------------------------------------
\* What a run writes to the manifest are the files read so far, in their order
\* and each once, as processing them gives them: a file that was restored from
\* the resume file is the file it was when it was saved, whichever runs were
\* killed in between, whichever write of the resume file failed, and whether the
\* run appends or not.  Only a write that is cut inside an entry which another
\* left behind the end that the program knows is excepted.
RestoreFaithful ==
    ~mixed =>
    LET n == IF runs = 0 THEN 0 ELSE Len(Files) - Len(todo)
    IN  SubSeq(manifest, mode.base + 1, Len(manifest)) = [i \in 1 .. n |-> Output(Files[i])]

Ended == pc = "off" /\ runs > 0 /\ mode.ended # "killed"

\* What the runs wrote to the manifest can be read from the bundle after each of
\* them, also when it ended with an exception, be it a write of the bundle that
\* failed, and when part of it comes from the resume file of an earlier run, while
\* no run was killed; and whatever was killed
\* before, if the last run processed it itself: a kill never leaves the bundle
\* such that a chunk counts as stored and is not.
ManifestReadable ==
    Ended /\ ~mixed => \A i \in DOMAIN manifest :
        kills = 0 \/ (i > mode.base /\ manifest[i].file \notin mode.restored)
            => Readable(manifest[i], durable)

\* After a run that was not killed, and while no write of the resume file failed,
\* that file knows every file the run wrote to the manifest, so that the next run
\* processes none of them again.
NothingTwice ==
    Ended /\ fails = 0 => \A i \in mode.base + 1 .. Len(manifest) :
        \E j \in DOMAIN resume : resume[j].file = manifest[i].file
=============================================================================
