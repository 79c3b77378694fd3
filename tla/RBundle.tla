------------------------------- MODULE RBundle -------------------------------
(***************************************************************************)
(* The bundle file format of lib/rlib/rbundle: the compressed bytes of the *)
(* chunks one after the other, then the table of contents (one RChunk per  *)
(* chunk, in the same order), then the footer, whose checksum is a hash of *)
(* the table of contents.  A bundle is found from its END: a write that    *)
(* adds chunks overwrites the old table of contents and footer in place.   *)
(*                                                                         *)
(* A file is a sequence of cells.  A chunk of Size[c] cells, one entry of  *)
(* the table and the footer stand for the bytes of each; the footer cell   *)
(* carries the sequence of chunks it was computed from, which stands for   *)
(* its checksum (assumed free of collisions) and its entry count.          *)
(***************************************************************************)
EXTENDS Integers, Sequences

CONSTANTS
    Chunk,      \* the chunk ids
    Size        \* compressed_size of each chunk, in cells

ASSUME SizeAssumption == Size \in [Chunk -> Nat \ {0}]

\* The cells of the compressed data of chunk c.
Data(c) == [k \in 1 .. Size[c] |-> [kind |-> "data", id |-> c, at |-> k]]

\* The cells of a table of contents.
Toc(chunks) == [i \in DOMAIN chunks |-> [kind |-> "entry", id |-> chunks[i]]]

FooterCell(chunks) == [kind |-> "footer", toc |-> chunks]

\* A cell only partly overwritten when a write was cut short.
TornCell == [kind |-> "torn"]

Cell ==
         [kind : {"data"}, id : Chunk, at : Nat]
    \cup [kind : {"entry"}, id : Chunk]
    \cup [kind : {"footer"}, toc : Seq(Chunk)]
    \cup {TornCell}

\* The cumulative compressed_offset of the loop of RBUN::read: entry i of the
\* result is where the data of the first i chunks ends and that of the chunk
\* after them starts.
Offsets(chunks) ==
    LET compressed_offset[i \in 0 .. Len(chunks)] ==
            IF i = 0 THEN 0 ELSE compressed_offset[i - 1] + Size[chunks[i]]
    IN  compressed_offset

\* entry_count of the footer, and RBUN.toc_offset and RBUN.chunks of a file that
\* was read; of an empty file, those of a default constructed RBUN.
EntryCount(file) == IF file = <<>> THEN 0 ELSE Len(file[Len(file)].toc)
TocOffsetUnguarded(file) == Len(file) - 1 - EntryCount(file)  \* mutant
TocOffset(file) == IF file = <<>> THEN 0 ELSE Len(file) - 1 - EntryCount(file)
Chunks(file) == [i \in 1 .. EntryCount(file) |-> file[TocOffset(file) + i].id]

\* Mutant: the checksum is not compared.
AcceptsUnchecked(file) ==
    /\ file # <<>>
    /\ file[Len(file)].kind = "footer"
    /\ TocOffset(file) >= 0
    /\ \A i \in 1 .. EntryCount(file) :
          file[TocOffset(file) + i].kind \in {"entry", "data"}
    /\ Offsets(Chunks(file))[EntryCount(file)] <= TocOffset(file)

\* RBUN::read returns: every one of its assertions holds (the magic, the size,
\* the checksum, and every chunk in range, which is the last one's end in range).
Accepts(file) ==
    /\ file # <<>>
    /\ file[Len(file)].kind = "footer"
    /\ TocOffset(file) >= 0
    /\ \A i \in 1 .. EntryCount(file) :
          file[TocOffset(file) + i] = Toc(file[Len(file)].toc)[i]
    /\ Offsets(Chunks(file))[EntryCount(file)] <= TocOffset(file)

\* The ids of a bundle's lookup.
Ids(file) == LET table == Chunks(file) IN {table[i] : i \in DOMAIN table}

\* The compressed_offset the lookup of a bundle records for chunk c: of two
\* entries of the table with the same id the last one wins.
OffsetOf(file, c) ==
    LET table == Chunks(file)
        i == CHOOSE n \in DOMAIN table :
                table[n] = c /\ \A m \in DOMAIN table : table[m] = c => m <= n
    IN  Offsets(table)[i - 1]

\* What a read of n cells at an offset returns.
ReadAt(cells, offset, n) == [k \in 1 .. n |-> cells[offset + k]]

\* pwrite of cells at an offset within the file: the file grows if it has to
\* and is never cut.
Overwrite(file, offset, cells) ==
    [i \in 1 .. IF Len(file) > offset + Len(cells)
                THEN Len(file) ELSE offset + Len(cells) |->
        IF i > offset /\ i <= offset + Len(cells)
        THEN cells[i - offset] ELSE file[i]]

\* What is on the disk after j whole cells, and perhaps a part of one more.
CutShort(cells, j, torn) ==
    [i \in 1 .. IF torn THEN j + 1 ELSE j |-> IF i <= j THEN cells[i] ELSE TornCell]
=============================================================================
