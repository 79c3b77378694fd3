--------------------------------- MODULE Make ---------------------------------
(***************************************************************************)
(* rman-make: one file after the other is cut (Ar), each chunk that is cut *)
(* goes to the output bundle at once, then the list of the file's chunks,  *)
(* then its entry to the output manifest, which is written without a       *)
(* buffer.  An exception ends the program in order: the bundle is closed,  *)
(* with all that was added to it.                                          *)
(*                                                                         *)
(* The output bundle is used through its promise, ContentStore.  A write   *)
(* of it that fails is an exception too, with what was to be written still *)
(* in the buffer of RCache: ~RCache writes it again, and when that fails   *)
(* the process dies, as a destructor throws nothing.  The bundle is empty  *)
(* when it is opened: what was in it before only adds to it.               *)
(***************************************************************************)
EXTENDS Ar, FiniteSets

CONSTANTS
    Data,       \* the input files: a sequence of sequences of cells
    Strip       \* --strip-chunks

ASSUME DataAssumption ==
    /\ Data \in Seq(ToSet(Data)) /\ Data # <<>>
    /\ \A data \in ToSet(Data) : data \in Seq(ToSet(data))
    /\ Totals = {Len(Data[i]) : i \in DOMAIN Data}
    /\ Strip \in BOOLEAN

VARIABLES
    stored, durable, damaged,   \* the output bundle, see ContentStore
    file,       \* the file that is being added
    manifest,   \* the output manifest: records [list, stripped]
    step        \* where add_file is

store == <<stored, durable, damaged>>
makevars == <<arvars, store, file, manifest, step>>

Store == INSTANCE ContentStore WITH Chunk <- {}

MakeInit ==
    /\ ArInit /\ total = Len(Data[1])
    /\ Store!Init
    /\ file = 1 /\ manifest = <<>>
    /\ step = "cut"

\* The id of a chunk is its data; chunk ids and lists of them share the bundle.
Id(f, e) == <<"chunk", SubSeq(Data[f], e.offset + 1, e.offset + e.size)>>
IdOfList(list) == <<"list", list>>

\* rfile.chunks of the file.
Chunks == [i \in DOMAIN out |-> Id(file, out[i])]

\* add_uncompressed; the buffer of the bundle may be written before the item is
\* put there (for a new part) and after (when it is full).
Added(c) ==
    IF c \in stored THEN UNCHANGED store
    ELSE /\ stored' = stored \cup {c}
         /\ durable' \in {durable, stored, stored'}
         /\ UNCHANGED damaged

-----------------------------------------------------------------------------
\* The file is cut; an exception ends add_file.
CutFile ==
    /\ step = "cut"
    /\ Look \/ Split \/ NotAnArchive \/ BadArchive \/ AssertFails
    /\ step' = IF state' = "thrown" THEN "close" ELSE "cut"
    /\ UNCHANGED <<store, file, manifest>>

\* The callback: the chunk goes to the bundle.
AddChunk(n) ==
    /\ step = "cut"
    /\ Emit(n)
    /\ Added(Id(file, [offset |-> TopEntry.offset, size |-> n]))
    /\ UNCHANGED <<file, manifest, step>>

\* flush_internal throws.  It was called for a new part, and c is not in the
\* bundle, or for a full buffer, and c is; what went before c may be written.
AddFails(c) ==
    /\ step = "cut"
    /\ c \notin stored
    /\ stored' \in {stored, stored \cup {c}}
    /\ durable' \in {durable, stored}
    /\ step' = "rewrite"
    /\ UNCHANGED <<arvars, damaged, file, manifest>>

\* ... in the callback, whose exception ends add_file.
AddChunkFails(n) ==
    /\ state = "run" /\ work # <<>> /\ ~IsSmart
    /\ n \in Sizes(TopEntry.size)
    /\ AddFails(Id(file, [offset |-> TopEntry.offset, size |-> n]))

\* add_chunks, of whatever was cut.
AddList ==
    /\ step = "cut"
    /\ Finish
    /\ Added(IdOfList(Chunks))
    /\ step' = "write"
    /\ UNCHANGED <<file, manifest>>

AddListFails ==
    /\ state = "run" /\ work = <<>>
    /\ AddFails(IdOfList(Chunks))

\* The next of the paths, or the end of run.
NextFile ==
    IF file = Len(Data)
    THEN step' = "close" /\ UNCHANGED <<arvars, file>>
    ELSE /\ step' = "cut"
         /\ file' = file + 1
         /\ total' = Len(Data[file']) /\ work' = Whole(total') /\ out' = <<>>
         /\ found' = Unread /\ errors' = FALSE /\ state' = "run"
         /\ UNCHANGED ar

\* writer: the entry, without its chunks when it is stripped.
Write ==
    /\ step = "write"
    /\ manifest' = Append(manifest, [list |-> Chunks, stripped |-> Strip /\ Len(Chunks) > 1])
    /\ NextFile
    /\ UNCHANGED store

\* Another exception: the file cannot be opened or read.
Throws ==
    /\ step = "cut"
    /\ step' = "close"
    /\ UNCHANGED <<arvars, store, file, manifest>>

CloseLost ==  \* mutant: what the bundle has buffered is lost
    /\ step \in {"close", "rewrite"}
    /\ Store!End
    /\ step' = "over"
    /\ UNCHANGED <<arvars, file, manifest>>

\* ~RCache.  After a failed write its buffer has the data and the table that was to
\* be written: both are written, and the table of all chunks again behind them.
Close ==
    /\ step \in {"close", "rewrite"}
    /\ Store!End /\ durable' = stored
    /\ step' = "over"
    /\ UNCHANGED <<arvars, file, manifest>>

\* It writes when something is not written yet, or nothing but a header ever was.
\* When that fails, the process dies (std::terminate), over a table that may be
\* partly overwritten.
CloseFails ==
    /\ \/ step = "rewrite"
       \/ step = "close" /\ (durable # stored \/ stored = {})
    /\ Store!End \/ Store!Damage
    /\ step' = "died"
    /\ UNCHANGED <<arvars, file, manifest>>

MakeNext ==
    \/ CutFile
    \/ \E n \in 1 .. ar.chunk_max : AddChunk(n)
    \/ \E n \in 1 .. ar.chunk_max : AddChunkFails(n)
    \/ AddList
    \/ AddListFails
    \/ Write
    \/ Throws
    \/ Close
    \/ CloseFails

\* The program goes on.
MakeSpec == MakeInit /\ [][MakeNext]_makevars /\ WF_makevars(MakeNext)

-----------------------------------------------------------------------------
\* The data of a list of chunks.
Joined(list) ==
    LET data[i \in 0 .. Len(list)] == IF i = 0 THEN <<>> ELSE data[i - 1] \o list[i][2]
    IN  data[Len(list)]

\* The chunks of an entry of the manifest, one after the other, are the file:
\* cutting it into archives, members, gaps and pieces, or failing to, loses
\* nothing, repeats nothing and keeps the order.
MadeRight ==
    \A i \in DOMAIN manifest : Joined(manifest[i].list) = Data[i]

\* verify_file of rman-chk: what the entry needs is in the bundle.
VerifyFile(f, items) ==
    \/ f.list = <<>>
    \/ /\ f.stripped => IdOfList(f.list) \in items
       /\ \A k \in DOMAIN f.list : f.list[k] \in items

\* rman-chk accepts every entry when it is written, and again, with what is
\* durable, when the program has ended, also by an exception in a later file, be it
\* a failed write of the bundle that ~RCache made good.  Where it could not, the
\* process died, and nothing is said.
MadeWhole ==
    step # "died" =>
        \A i \in DOMAIN manifest :
            VerifyFile(manifest[i], IF step = "over" THEN durable ELSE stored)

\* An archive that names itself as one of its members.
Circles ==
    \E e \in found.entries :
        /\ step = "cut" /\ e.nest
        /\ e.offset = TopEntry.offset /\ e.size = TopEntry.size

\* The program ends, whatever is in the files, but for one kind of archive: only in
\* a fat Mach-O file may a member lie over the header, and one that is the archive
\* itself is looked at again, one call deeper each time, until the stack is full.
MakeEnds ==
    \/ <>(step \in {"over", "died"})
    \/ "mac_fat" \notin ar.disabled /\ []<>Circles
=============================================================================
