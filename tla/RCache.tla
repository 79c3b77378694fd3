-------------------------------- MODULE RCache --------------------------------
(***************************************************************************)
(* The chunk cache of lib/rlib/rcache: a bundle split into numbered parts, *)
(* of which the last can be added to.  add() appends the data of a chunk   *)
(* to a buffer; flush_internal() writes buffer, table of contents and      *)
(* footer over the old table of contents; a part over its limit is sealed  *)
(* and a new part created.  The mutex of the cache makes a call of add one *)
(* step for its callers, but not for the disk: the process may die between *)
(* two system calls of it, and inside a write, so a call that writes is a  *)
(* sequence of steps here, one per system call, and pc says which is next. *)
(***************************************************************************)
EXTENDS RBundle

CONSTANTS
    None,           \* ChunkID::None, the id of no chunk
    MinFlush,       \* the 1 MiB lower bound of the flush size
    FlushOption,    \* Options.flush_size, as given
    MaxOption,      \* Options.max_size, as given
    TornWrites,     \* whether the process may die inside a write
    MaxFails,       \* bound: writes that fail and leave the process running
    MaxParts        \* bound: parts of the bundle

ASSUME NoneAssumption == None \notin Chunk
ASSUME OptionsAssumption ==
    /\ MinFlush \in Nat \ {0}
    /\ FlushOption \in Nat
    /\ MaxOption \in Nat
    /\ TornWrites \in BOOLEAN
    /\ MaxFails \in Nat
    /\ MaxParts \in Nat

VARIABLES
    disk,       \* the parts in the file system, each a sequence of cells
    mode,       \* what the process holds: no cache, one it reads, one it writes
    pc,         \* the next step of the call in progress
    pending,    \* the chunk that call adds
    tocOffset,  \* writer_.toc_offset
    endOffset,  \* writer_.end_offset
    chunks,     \* writer_.chunks
    buffer,     \* writer_.buffer
    fileSize,   \* files_.back()->size(): not updated by a write that failed
    lookup,     \* lookup_
    fails       \* writes that failed so far

writer == <<tocOffset, endOffset, chunks, buffer, fileSize>>
vars == <<disk, mode, pc, pending, writer, lookup, fails>>

\* The constructor clamps the options of a cache opened for writing.
FlushSize == IF FlushOption > MinFlush THEN FlushOption ELSE MinFlush
MaxSize ==
    (IF MaxOption > 2 * FlushSize THEN MaxOption ELSE 2 * FlushSize) - FlushSize

\* sizeof(RChunk) + data.size(), the room one more chunk takes.
ExtraData(c) == 1 + Size[c]

Last == Len(disk)

\* load_file_internal_read_only, the merge: the first part that has a chunk wins.
AllIds(parts) == UNION {Ids(parts[p]) : p \in DOMAIN parts}
PartOf(parts, c) ==
    CHOOSE p \in DOMAIN parts :
        /\ c \in Ids(parts[p])
        /\ \A q \in DOMAIN parts : c \in Ids(parts[q]) => p <= q
Lookup(parts) ==
    [c \in AllIds(parts) |->
        [part |-> PartOf(parts, c), offset |-> OffsetOf(parts[PartOf(parts, c)], c)]]

NoLookup == [c \in {} |-> 0]

Entry == [part : Nat \ {0}, offset : Nat]

TypeOK ==
    /\ disk \in Seq(Seq(Cell))
    /\ mode \in {"closed", "refused", "readonly", "readwrite"}
    /\ pc \in {"idle", "opened", "rollover", "create", "header", "append",
               "appended", "closing"}
    /\ pending \in Chunk \cup {None}
    /\ tocOffset \in Nat
    /\ endOffset \in Nat
    /\ chunks \in Seq(Chunk)
    /\ buffer \in Seq(Cell)
    /\ fileSize \in Nat
    /\ \E C \in SUBSET Chunk : lookup \in [C -> Entry]
    /\ fails \in 0 .. MaxFails

Init ==
    /\ disk = <<>>
    /\ mode = "closed"
    /\ pc = "idle"
    /\ pending = None
    /\ tocOffset = 0 /\ endOffset = 0 /\ chunks = <<>> /\ buffer = <<>>
    /\ fileSize = 0
    /\ lookup = NoLookup
    /\ fails = 0

-----------------------------------------------------------------------------
(***************************************************************************)
(* Opening and the end of the process                                      *)
(***************************************************************************)

\* Nothing of the process is left; m says how it ended.
Ended(m) ==
    /\ mode' = m
    /\ pc' = "idle"
    /\ pending' = None
    /\ tocOffset' = 0 /\ endOffset' = 0 /\ chunks' = <<>> /\ buffer' = <<>>
    /\ fileSize' = 0
    /\ lookup' = NoLookup

\* Every part of a cache opened for reading must be a bundle.
ReadableParts(parts) == parts # <<>> /\ \A p \in DOMAIN parts : Accepts(parts[p])

OpenReadOnly ==
    /\ mode = "closed"
    /\ ReadableParts(disk)
    /\ mode' = "readonly"
    /\ lookup' = Lookup(disk)
    /\ UNCHANGED <<disk, pc, pending, writer, fails>>

\* The condition under which the last part is opened for writing again.
Reuses(newonly) ==
    /\ Last > 0
    /\ ~newonly
    /\ Len(disk[Last]) < MaxSize

\* The parts a cache opened for writing reads without writing to them.
MappedParts(newonly) == IF Reuses(newonly) THEN Last - 1 ELSE Last

WritablePartsUnread(newonly) == \A p \in 1 .. Last - 1 : Accepts(disk[p])  \* mutant
WritableParts(newonly) ==
    /\ \A p \in 1 .. MappedParts(newonly) : Accepts(disk[p])
    /\ Reuses(newonly) => disk[Last] = <<>> \/ Accepts(disk[Last])

\* The writer starts where the part ends; of a new part, at its beginning.
LoadWriter(file) ==
    /\ tocOffset' = TocOffset(file)
    /\ endOffset' = Len(file)
    /\ chunks' = Chunks(file)
    /\ buffer' = <<>>
    /\ fileSize' = Len(file)

OpenReadWrite(newonly) ==
    /\ mode = "closed"
    /\ WritableParts(newonly)
    /\ ~Reuses(newonly) => Last < MaxParts
    /\ disk' = IF Reuses(newonly) THEN disk ELSE Append(disk, <<>>)
    /\ LoadWriter(IF Reuses(newonly) THEN disk[Last] ELSE <<>>)
    /\ lookup' = Lookup(disk)
    /\ mode' = "readwrite"
    /\ pc' = "opened"
    /\ UNCHANGED <<pending, fails>>

\* RBUN::read, or the open of a part that does not exist, throws.
OpenRefused ==
    /\ mode = "closed"
    /\ ~ReadableParts(disk) \/ \E newonly \in BOOLEAN : ~WritableParts(newonly)
    /\ mode' = "refused"
    /\ UNCHANGED <<disk, pc, pending, writer, lookup, fails>>

\* The destructor: it flushes what a cache opened for writing has buffered.
Close ==
    /\ pc = "idle"
    /\ \/ /\ mode = "readwrite"
          /\ pc' = "closing"
          /\ UNCHANGED <<disk, mode, pending, writer, lookup, fails>>
       \/ /\ mode \in {"readonly", "refused"}
          /\ Ended("closed")
          /\ UNCHANGED <<disk, fails>>

\* The process is killed, or exits from the handler of SIGINT, between two
\* system calls: what it has buffered is lost.
Kill ==
    /\ mode \in {"readonly", "readwrite"}
    /\ Ended("closed")
    /\ UNCHANGED <<disk, fails>>

-----------------------------------------------------------------------------
(***************************************************************************)
(* flush_internal                                                          *)
(***************************************************************************)

FlushPoints == {"opened", "rollover", "header", "appended", "closing"}

\* "Dont reflush when there is nothing to flush."
NothingToFlush == buffer = <<>> /\ tocOffset # 0

\* The buffer with the table of contents and the footer appended.
Flushed == buffer \o Toc(chunks) \o <<FooterCell(chunks)>>

\* What the call that flushed does next.
Continue ==
    \/ /\ pc = "opened"
       /\ pc' = "idle"
       /\ UNCHANGED <<mode, pending, endOffset, chunks, lookup>>
    \/ /\ pc = "rollover"
       /\ pc' = "create"
       /\ UNCHANGED <<mode, pending, endOffset, chunks, lookup>>
    \/ /\ pc = "header"
       /\ pc' = "append"
       /\ UNCHANGED <<mode, pending, endOffset, chunks, lookup>>
    \/ /\ pc = "appended"
       /\ pc' = "idle"
       /\ pending' = None
       /\ endOffset' = endOffset + ExtraData(pending)
       /\ UNCHANGED <<mode, chunks, lookup>>

FlushNothing ==
    /\ pc \in FlushPoints
    /\ NothingToFlush
    /\ \/ Continue /\ UNCHANGED <<disk, tocOffset, buffer, fileSize, fails>>
       \/ pc = "closing" /\ Ended("closed") /\ UNCHANGED <<disk, fails>>

WriteToFirst(cells) ==  \* mutant
    disk' = [disk EXCEPT ![1] = Overwrite(@, tocOffset, cells)]

\* files_.back()->write at writer_.toc_offset.
Write(cells) == disk' = [disk EXCEPT ![Last] = Overwrite(@, tocOffset, cells)]

FlushWrites ==
    /\ pc \in FlushPoints
    /\ ~NothingToFlush
    /\ Write(Flushed)
    /\ \/ /\ Continue
          /\ tocOffset' = tocOffset + Len(buffer)
          /\ buffer' = <<>>
          /\ fileSize' = IF tocOffset + Len(Flushed) > fileSize
                         THEN tocOffset + Len(Flushed) ELSE fileSize
       \/ pc = "closing" /\ Ended("closed")
    /\ UNCHANGED fails

\* Some cells of the write reach the disk, the rest does not.
PartialWrite ==
    \E j \in 0 .. Len(Flushed) - 1, torn \in BOOLEAN :
        Write(CutShort(Flushed, j, torn))

\* The process dies inside the write.
TornWrite ==
    /\ TornWrites
    /\ pc \in FlushPoints
    /\ ~NothingToFlush
    /\ PartialWrite
    /\ Ended("closed")
    /\ UNCHANGED fails

\* Mutant: the buffer is dropped.
AddThrowsEmpty ==
    /\ pc \in {"rollover", "header", "appended"}
    /\ buffer' = <<>>
    /\ pc' = "idle"
    /\ pending' = None
    /\ UNCHANGED <<mode, tocOffset, endOffset, chunks, fileSize, lookup>>

\* Mutant: the last chunk is taken back from the table, and not from the buffer.
AddThrowsUntold ==
    /\ pc \in {"rollover", "header", "appended"}
    /\ chunks' = SubSeq(chunks, 1, Len(chunks) - 1)
    /\ buffer' = buffer
    /\ pc' = "idle"
    /\ pending' = None
    /\ UNCHANGED <<mode, tocOffset, endOffset, fileSize, lookup>>

\* An exception of add reaches its caller, which may go on using the cache.
\* The table of contents and the footer stay in the buffer.
AddThrows ==
    /\ pc \in {"rollover", "header", "appended"}
    /\ buffer' = Flushed
    /\ pc' = "idle"
    /\ pending' = None
    /\ UNCHANGED <<mode, tocOffset, endOffset, chunks, fileSize, lookup>>

\* File::write returns false and flush_internal throws.  An exception of the
\* constructor leaves no cache; one of the destructor ends the process.
FlushFails ==
    /\ fails < MaxFails
    /\ pc \in FlushPoints
    /\ ~NothingToFlush
    /\ PartialWrite
    /\ fails' = fails + 1
    /\ \/ AddThrows
       \/ pc = "opened" /\ Ended("refused")
       \/ pc = "closing" /\ Ended("closed")

-----------------------------------------------------------------------------
(***************************************************************************)
(* add and add_uncompressed                                                *)
(***************************************************************************)

NeedsNewPartLate(c) == chunks # <<>> /\ endOffset > MaxSize  \* mutant
NeedsNewPart(c) == chunks # <<>> /\ endOffset + ExtraData(c) > MaxSize

\* A part that is full is flushed before the next one is created.
FirstStepUnflushed(c) == IF NeedsNewPart(c) THEN "create" ELSE "append"  \* mutant
FirstStep(c) == IF NeedsNewPart(c) THEN "rollover" ELSE "append"

\* Mutant: chunks already stored are added again.
AddAgain(c) ==
    /\ mode = "readwrite"
    /\ pc = "idle"
    /\ NeedsNewPart(c) => Last < MaxParts
    /\ pending' = c
    /\ pc' = FirstStep(c)
    /\ UNCHANGED <<disk, mode, writer, lookup, fails>>

Add(c) ==
    /\ mode = "readwrite"
    /\ pc = "idle"
    /\ c \notin DOMAIN lookup
    /\ NeedsNewPart(c) => Last < MaxParts
    /\ pending' = c
    /\ pc' = FirstStep(c)
    /\ UNCHANGED <<disk, mode, writer, lookup, fails>>

\* The next part is created empty; its footer is written by the next step.
CreatePart ==
    /\ pc = "create"
    /\ disk' = Append(disk, <<>>)
    /\ tocOffset' = 0
    /\ endOffset' = 1       \* sizeof(RBUN::Footer)
    /\ chunks' = <<>>
    /\ buffer' = <<>>
    /\ fileSize' = 0
    /\ pc' = "header"
    /\ UNCHANGED <<mode, pending, lookup, fails>>

\* The buffer outgrew the table of contents it will overwrite by more than the
\* flush size.
BufferFull(size) == size > fileSize - tocOffset + FlushSize

\* Where the chunk to append will be.
PlaceInBuffer == [part |-> Last, offset |-> Len(buffer)]  \* mutant
Place == [part |-> Last, offset |-> tocOffset + Len(buffer)]

AppendChunk ==
    /\ pc = "append"
    /\ chunks' = Append(chunks, pending)
    /\ lookup' = [c \in DOMAIN lookup \cup {pending} |->
                    IF c = pending THEN Place ELSE lookup[c]]
    /\ buffer' = buffer \o Data(pending)
    /\ IF BufferFull(Len(buffer'))
       THEN pc' = "appended" /\ UNCHANGED <<pending, endOffset>>
       ELSE /\ pc' = "idle"
            /\ pending' = None
            /\ endOffset' = endOffset + ExtraData(pending)
    /\ UNCHANGED <<disk, mode, tocOffset, fileSize, fails>>

-----------------------------------------------------------------------------
Next ==
    \/ OpenReadOnly
    \/ \E newonly \in BOOLEAN : OpenReadWrite(newonly)
    \/ OpenRefused
    \/ Close
    \/ Kill
    \/ FlushNothing
    \/ FlushWrites
    \/ TornWrite
    \/ FlushFails
    \/ \E c \in Chunk : Add(c)
    \/ CreatePart
    \/ AppendChunk

Spec == Init /\ [][Next]_vars

-----------------------------------------------------------------------------
(***************************************************************************)
(* Properties                                                              *)
(***************************************************************************)

\* A read of chunk c's cells at an offset stays inside and returns its data.
HoldsAt(cells, offset, c) ==
    /\ offset + Size[c] <= Len(cells)
    /\ ReadAt(cells, offset, Size[c]) = Data(c)

\* get_internal: the end of the last part is read from the buffer.
ReadsBack(c) ==
    LET e == lookup[c] IN
    IF mode = "readwrite" /\ e.part = Last /\ e.offset >= tocOffset
    THEN HoldsAt(buffer, e.offset - tocOffset, c)
    ELSE HoldsAt(disk[e.part], e.offset, c)

\* Whenever the mutex is free, get, get_into and get_chunks read for every
\* chunk of the lookup the bytes that were added under its id, wherever the
\* flushes and the new parts since then, or the next process to open the cache,
\* find them.  As the next two, it holds until a write fails and leaves the table
\* of contents in the buffer.
ReadBack ==
    fails = 0 /\ pc = "idle" => \A c \in DOMAIN lookup : lookup[c].part <= Last /\ ReadsBack(c)

\* A chunk just added reads right, and one that reads right goes on doing so
\* until the process ends: through every flush and new part, and through writes
\* that fail and leave the table of contents in the buffer.
ReadStable ==
    [][mode = "readwrite" /\ mode' = "readwrite" =>
        \A c \in DOMAIN lookup' :
            (c \in DOMAIN lookup => ReadsBack(c)) => ReadsBack(c)']_vars

\* A part that RBUN::read accepts has every chunk of its table where the
\* cumulative offsets of the table say: a reader of the bundle is refused or
\* right, whatever write was cut short, and never given wrong bytes.
RefusedOrRight ==
    fails = 0 => \A p \in 1 .. Last : Accepts(disk[p]) =>
        \A c \in Ids(disk[p]) : HoldsAt(disk[p], OffsetOf(disk[p], c), c)

\* The data at the beginning of a part, up to the first cell that is something else.
LeadData(file) ==
    CHOOSE n \in 0 .. Len(file) :
        /\ \A k \in 1 .. n : file[k].kind = "data"
        /\ n < Len(file) => file[n + 1].kind # "data"

\* What a failed write costs the next process: a part that RBUN::read accepts has
\* its chunks where the offsets of its table say, whatever failed and was added
\* after that, up to the first table of contents that a failed write left among the
\* data.  Only what lies behind that may read wrong.
FirstRight ==
    \A p \in 1 .. Last : Accepts(disk[p]) =>
        LET table == Chunks(disk[p])
        IN  \A i \in DOMAIN table :
                Offsets(table)[i] <= LeadData(disk[p]) => HoldsAt(disk[p], Offsets(table)[i - 1], table[i])

\* The cache can be opened for writing again.
Reopens(parts) ==
    /\ \A p \in 1 .. Len(parts) - 1 : Accepts(parts[p])
    /\ parts # <<>> => parts[Len(parts)] = <<>> \/ Accepts(parts[Len(parts)])

\* Only a write that is cut short (NO_INTERUPT defers SIGINT to the end of a
\* write) leaves parts that cannot be opened again: no order of adds, rollovers,
\* closes and kills between system calls does, and every moment of a rollover is
\* one at which the process may be killed.
AlwaysReopens ==
    [][Reopens(disk) => Reopens(disk)' \/ TornWrite \/ FlushFails]_vars

\* The chunks that the next process to open the cache finds in it.
Durable == IF Reopens(disk) THEN AllIds(disk) ELSE {}

\* Only the last part is ever written to; the parts before it never change.
SealedParts ==
    [][Last <= Last' /\ \A p \in 1 .. Last - 1 : disk'[p] = disk[p]]_vars

\* No chunk is stored twice, in one part or in two, over any number of runs
\* of the program on the same cache.
StoredOnce ==
    \A p, q \in {r \in 1 .. Last : Accepts(disk[r])} :
        \A i \in DOMAIN Chunks(disk[p]), j \in DOMAIN Chunks(disk[q]) :
            Chunks(disk[p])[i] = Chunks(disk[q])[j] => p = q /\ i = j

\* "Size for cache bundle limit" (README, --cache-limit): a part that can be read
\* is within the limit that was asked for, or within twice the buffer when the
\* limit is smaller, unless it holds one chunk alone.  The size that is compared
\* with the limit is kept apart from the size of the file, starts differently in
\* a new file, in a new part and in a reopened one, and grows after the comparison
\* (not when a write fails).
PartLimit ==
    fails = 0 => \A p \in 1 .. Last :
        Accepts(disk[p]) =>
            Len(disk[p]) <= MaxSize + FlushSize \/ Len(Chunks(disk[p])) = 1

\* What the cache promises, in terms of the chunks alone: among other things that
\* a chunk that reached the disk stays.  No flush, new part, kill or reopening
\* leaves a cache that opens without it; what can be lost is the cache that does
\* not open, never a part of what was stored.  After a failed write nothing is
\* promised.
Kept == IF fails = 0 THEN Durable ELSE {}
Store == INSTANCE ContentStore
         WITH stored <- IF fails = 0 /\ mode \in {"readonly", "readwrite"}
                        THEN DOMAIN lookup ELSE Kept,
              durable <- Kept,
              damaged <- fails > 0 \/ ~Reopens(disk)

\* The cache implements the promise of ContentStore.
Promise == Store!Spec
=============================================================================
