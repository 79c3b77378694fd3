------------------------------- MODULE Download -------------------------------
(***************************************************************************)
(* rman-dl: one file of a manifest brought up to date in place.  A run     *)
(* hashes what is on the disk against the manifest, opens and resizes the  *)
(* file, fetches the chunks that are bad and writes each where it belongs. *)
(* Nothing but the file itself is kept between two runs, and a run may be  *)
(* killed anywhere, also inside a write.                                   *)
(*                                                                         *)
(* RCDN::get is used through its promise, Delivery.                        *)
(***************************************************************************)
EXTENDS Integers, Sequences

CONSTANTS
    Chunk,      \* chunk ids
    Size,       \* uncompressed_size of each chunk, in cells
    List,       \* the chunks of the file: a sequence of records [id, at]
    Total,      \* rfile.size
    OldFiles,   \* what may be on the disk before the first run
    NoFile,     \* no file on the disk
    Zero,       \* a cell of a part of the file that was never written
    Flags       \* the options of a run: records [noVerify, noWrite]

ASSUME SizeAssumption == Size \in [Chunk -> Nat \ {0}]
ASSUME ListAssumption ==
    /\ List \in Seq([id : Chunk, at : Nat])
    /\ Total \in Nat
    /\ \A i \in DOMAIN List :
          /\ List[i].at + Size[List[i].id] <= Total
          /\ \A j \in DOMAIN List :
                i < j => List[i].at + Size[List[i].id] <= List[j].at
ASSUME FlagsAssumption == Flags \subseteq [noVerify : BOOLEAN, noWrite : BOOLEAN]


\* A cell of a file: one of a chunk, or one that was never written.
Cell == [id : Chunk, at : Nat] \cup {Zero}

ASSUME FilesAssumption ==
    NoFile \notin Seq(Cell) /\ OldFiles \subseteq {NoFile} \cup Seq(Cell)

Dst == {List[i] : i \in DOMAIN List}

VARIABLES
    file,       \* the file on the disk
    pc,         \* where download_file is
    flags,      \* the options of this run
    wanted,     \* bad_chunks, and what get did not deliver of it yet
    written,    \* what get delivered
    returned,   \* get returned
    verdict     \* what the last run that ended printed

vars == <<file, pc, flags, wanted, written, returned, verdict>>

\* RCDN::get.
Get == INSTANCE Delivery

\* The cells of a chunk.
Data(c) == [k \in 1 .. Size[c] |-> [id |-> c, at |-> k]]

\* The chunk is in the file, where it belongs.
In(f, d) ==
    /\ f # NoFile
    /\ d.at + Size[d.id] <= Len(f)
    /\ \A k \in 1 .. Size[d.id] : f[d.at + k] = Data(d.id)[k]

TypeOK ==
    /\ file \in {NoFile} \cup Seq(Cell)
    /\ pc \in {"idle", "verify", "open", "get"}
    /\ flags \in Flags
    /\ wanted \subseteq Dst /\ written \subseteq Dst
    /\ returned \in BOOLEAN
    /\ verdict \in {"none", "FAIL!", "OK!"}
    /\ pc = "get" /\ ~flags.noWrite => file # NoFile /\ Len(file) = Total

Init ==
    /\ file \in OldFiles
    /\ pc = "idle"
    /\ flags \in Flags
    /\ wanted = {} /\ written = {} /\ returned = FALSE
    /\ verdict = "none"

-----------------------------------------------------------------------------
\* download_file is called with the chunks of the manifest (or, for a stripped
\* file, those the cache has under its fileId).
Run ==
    /\ pc = "idle"
    /\ flags' \in Flags
    /\ pc' = "verify"
    /\ wanted' = Dst /\ written' = {} /\ returned' = FALSE
    /\ verdict' = "none"
    /\ UNCHANGED file

\* The chunks of the list up to the first that is not inside the file.
Readable ==
    {List[i] : i \in {n \in DOMAIN List :
        \A m \in 1 .. n : List[m].at + Size[List[m].id] <= Len(file)}}

\* RChunk::Dst::verify: what it removes from bad_chunks.
Good == IF file = NoFile THEN {} ELSE {d \in Readable : In(file, d)}

Verify ==
    /\ pc = "verify"
    /\ wanted' = IF flags.noVerify THEN wanted ELSE wanted \ Good
    /\ pc' = "open"
    /\ UNCHANGED <<file, flags, written, returned, verdict>>

ResizedEmpty(f) == [i \in 1 .. Total |-> Zero]  \* mutant: truncated to nothing first
\* ftruncate.
Resized(f) == [i \in 1 .. Total |-> IF f # NoFile /\ i \in DOMAIN f THEN f[i] ELSE Zero]

Open ==
    /\ pc = "open"
    /\ file' = IF flags.noWrite THEN file ELSE Resized(file)
    /\ pc' = "get"
    /\ UNCHANGED <<flags, wanted, written, returned, verdict>>

\* The file with the first n cells of a chunk written to its place.
WriteNextTo(d, n) ==  \* mutant: every chunk is written to the beginning
    [i \in DOMAIN file |-> IF i \in 1 .. n THEN Data(d.id)[i] ELSE file[i]]
WriteTo(d, n) ==
    [i \in DOMAIN file |->
        IF i \in d.at + 1 .. d.at + n THEN Data(d.id)[i - d.at] ELSE file[i]]

\* on_data.
Deliver(d) ==
    /\ pc = "get"
    /\ Get!Deliver /\ wanted' = wanted \ {d} /\ d \in wanted
    /\ file' = IF flags.noWrite THEN file ELSE WriteTo(d, Size[d.id])
    /\ UNCHANGED <<pc, flags, verdict>>

\* A write that fails half way: on_data throws, and the chunk stays wanted.
DeliverFails(d, n) ==
    /\ pc = "get" /\ ~returned
    /\ ~flags.noWrite
    /\ d \in wanted /\ n \in 0 .. Size[d.id] - 1
    /\ file' = WriteTo(d, n)
    /\ UNCHANGED <<pc, flags, wanted, written, returned, verdict>>

GetReturns ==
    /\ pc = "get"
    /\ Get!Return
    /\ UNCHANGED <<file, pc, flags, verdict>>

ReportAlways ==  \* mutant: what get returned is not looked at
    /\ pc = "get" /\ returned
    /\ verdict' = "OK!"
    /\ pc' = "idle"
    /\ UNCHANGED <<file, flags, wanted, written, returned>>

Report ==
    /\ pc = "get" /\ returned
    /\ verdict' = IF wanted # {} THEN "FAIL!" ELSE "OK!"
    /\ pc' = "idle"
    /\ UNCHANGED <<file, flags, wanted, written, returned>>

\* The process is killed, or ends with an exception (the file cannot be opened
\* or resized), perhaps inside a write.
Kill ==
    /\ pc # "idle"
    /\ pc' = "idle"
    /\ \/ UNCHANGED file
       \/ /\ pc = "get" /\ ~returned /\ ~flags.noWrite
          /\ \E d \in wanted : \E n \in 1 .. Size[d.id] - 1 : file' = WriteTo(d, n)
    /\ UNCHANGED <<flags, wanted, written, returned, verdict>>

Next ==
    \/ Run
    \/ Verify
    \/ Open
    \/ \E d \in Dst : Deliver(d)
    \/ \E d \in Dst : \E n \in 0 .. Size[d.id] : DeliverFails(d, n)
    \/ GetReturns
    \/ Report
    \/ Kill

Spec == Init /\ [][Next]_vars

Writing(A) == A /\ ~flags'.noWrite

\* A run goes on, or is killed.  The user runs the program again and again, not
\* every time with --no-write, not every run that writes is killed before it
\* fetches, and a chunk that such runs ask for again and again is delivered some
\* time.
FairSpec ==
    /\ Spec
    /\ WF_vars(Next)
    /\ SF_vars(Writing(Run)) /\ SF_vars(Writing(Verify)) /\ SF_vars(Writing(Open))
    /\ \A d \in Dst : SF_vars(Writing(Deliver(d)))

-----------------------------------------------------------------------------
\* "OK!" means that the file on the disk is the file of the manifest, whatever
\* was there before, whichever runs were killed or failed half way, and
\* although only the chunks that were bad at the start were written.
OkMeansRight ==
    verdict = "OK!" /\ ~flags.noWrite =>
        file # NoFile /\ Len(file) = Total /\ \A d \in Dst : In(file, d)

\* A chunk that is in its place stays there: no resize, no write of another
\* chunk, no write cut short, no later run destroys it.  What is fetched is
\* never fetched in vain.
RightStays == [][\A d \in Dst : In(file, d) => In(file, d)']_vars

\* Repeated runs end with the right file, also when every run is killed or
\* fails before all is fetched.
Converges == <>[](\A d \in Dst : In(file, d))
=============================================================================
