---------------------------------- MODULE Ar ----------------------------------
(***************************************************************************)
(* How a file is cut into chunks.  A processor recognises an archive by    *)
(* its header and gives its members; the file is cut at their borders, a   *)
(* member that may be an archive itself is looked at in the same way, and  *)
(* what remains is cut by size alone.  Members come in any order, and may  *)
(* overlap or be empty.                                                    *)
(*                                                                         *)
(* What is in the file is chosen when a processor reads it.  A part of the *)
(* file is looked at once, but for members that lie over the header of     *)
(* their archive: there another header may be found the second time, which *)
(* is more than a file can do.  Offsets in a header count from the start   *)
(* of the archive.                                                         *)
(*                                                                         *)
(* Make, which is called back with each chunk, composes these actions.     *)
(***************************************************************************)
EXTENDS Integers, Sequences, SequencesExt

CONSTANTS
    Options,        \* the options: records [chunk_min, chunk_max, disabled, cdc,
                    \* strict], where disabled are the processors switched off
    Totals,         \* the sizes a file may have
    Align,          \* FSB aligns to 32
    Headers(_)      \* the archives that may be at a place of a size

ASSUME SizesAssumption == Totals \subseteq Nat /\ Align \in Nat \ {0}
ASSUME OptionsAssumption ==
    \A o \in Options :
        /\ o.chunk_min \in Nat \ {0} /\ o.chunk_max \in Nat \ {0}
        /\ o.cdc \in {"fixed", "bup"} /\ o.strict \in BOOLEAN
\* Offsets and sizes in a header are unsigned.
Within(d) == d.offset \in Nat /\ d.size \in Nat
ASSUME HeadersAssumption ==
    \A t \in Totals : \A n \in 1 .. t : \A h \in Headers(n) :
        /\ h.toc \in Nat /\ h.data \in Nat
        /\ h.descs \in Seq(ToSet(h.descs))
        /\ \A d \in ToSet(h.descs) :
            /\ Within(d)
            /\ h.kind = "mac_exe" => \A s \in ToSet(d.sections) : Within(s)
            /\ h.kind \in {"wad", "wpk", "zip"} => d.plain \in BOOLEAN

VARIABLES
    ar,         \* the options of this run
    total,      \* the size of the file
    work,       \* the entries that are still to be processed, in order
    out,        \* what the callback was called with
    found,      \* what the processors make of the first of them
    errors,     \* whether errors is not empty
    state

arvars == <<ar, total, work, out, found, errors, state>>

Entry(offset, size, high, nest) ==
    [offset |-> offset, size |-> size, high_entropy |-> high, nest |-> nest]

EntryType == [offset : Nat, size : Nat, high_entropy : BOOLEAN, nest : BOOLEAN]

ArTypeOK ==
    /\ ar \in Options /\ total \in Totals
    /\ work \in Seq(EntryType) /\ out \in Seq(EntryType)
    /\ found.is \in {"unread", "no", "error", "throw", "entries"}
    /\ found.entries \subseteq EntryType
    /\ errors \in BOOLEAN
    /\ state \in {"run", "done", "thrown"}

Unread == [is |-> "unread", entries |-> {}]

\* What is to be cut of a file of n cells.
Whole(n) == IF n = 0 THEN <<>> ELSE <<Entry(0, n, FALSE, TRUE)>>

ArInit ==
    /\ ar \in Options
    /\ total \in Totals
    /\ work = Whole(total)
    /\ out = <<>>
    /\ found = Unread
    /\ errors = FALSE
    /\ state = "run"

-----------------------------------------------------------------------------
(* What a processor makes of a header: it is not its archive; it is, but   *)
(* something about it is wrong, which is an error or an exception; or its  *)
(* members.                                                                *)
No == [is |-> "no", entries |-> {}]
Error == [is |-> "error", entries |-> {}]
Throw == [is |-> "throw", entries |-> {}]
Members(set) == [is |-> "entries", entries |-> set]

\* IO::Reader::contains
Inside(top, offset, size) == offset <= top.size /\ size <= top.size - offset

AllIn(top, h) == \A i \in DOMAIN h.descs : Inside(top, h.descs[i].offset, h.descs[i].size)

\* The members of a header, one for each description.
Given(top, h, High(_), Nest(_)) ==
    Members({Entry(top.offset + d.offset, d.size, High(d), Nest(d)) : d \in ToSet(h.descs)})

Yes(d) == TRUE
Never(d) == FALSE
Plain(d) == d.plain
Packed(d) == ~d.plain

AlignUp(n) == ((n + Align - 1) \div Align) * Align

\* The offset behind the first samples of a bank, each aligned.
EndsOf(h) ==
    LET end[i \in 0 .. Len(h.descs)] ==
            IF i = 0 THEN h.toc ELSE end[i - 1] + AlignUp(h.descs[i].size)
    IN  end

TryFsb(top, h) ==
    IF \/ h.cut
       \/ h.toc % Align # 0 \/ h.toc + h.data # top.size
       \/ \E i \in DOMAIN h.descs : ~Inside(top, EndsOf(h)[i - 1], AlignUp(h.descs[i].size))
       \/ EndsOf(h)[Len(h.descs)] # top.size
    THEN Error
    ELSE Members({Entry(top.offset + EndsOf(h)[i - 1], AlignUp(h.descs[i].size), TRUE, FALSE) :
                    i \in DOMAIN h.descs})

Following(places, from) ==
    CHOOSE to \in places : to > from /\ \A place \in places : place > from => to <= place

\* Here their offsets are given, and each ends where the next begins.
TryFsb5(top, h) ==
    LET offsets == {d.offset : d \in ToSet(h.descs)}
        SizeAt(from) == Following(offsets \cup {h.data}, from) - from
    IN IF \/ h.cut
          \/ h.toc % Align # 0 \/ h.toc + h.data # top.size
          \/ \E from \in offsets : from > h.data
          \/ offsets \notin {{}, {h.data}} /\ 0 \notin offsets
       THEN Error
       ELSE Members({Entry(top.offset + h.toc + from, SizeAt(from), TRUE, FALSE) :
                        from \in offsets \ {h.data}})

LoadOver(top, h) ==  \* mutant: a member may lie over the header
    IF h.cut THEN Throw
    ELSE IF ~AllIn(top, h) THEN Error
    ELSE Given(top, h, Never, Yes)
TryLoad(top, h) ==
    IF h.cut THEN Throw
    ELSE IF ~AllIn(top, h) \/ \E i \in DOMAIN h.descs : h.descs[i].offset = 0 THEN Error
    ELSE Given(top, h, Never, Yes)

TryMacFat(top, h) ==
    IF h.cut \/ ~AllIn(top, h) THEN Throw
    ELSE Given(top, h, Never, Yes)

\* A segment that is small or has no sections is one member, another is cut into
\* its sections.
Segment(s) ==
    IF s.size = 0 THEN {}
    ELSE IF s.size <= ar.chunk_min \/ s.sections = <<>> THEN {s}
    ELSE {d \in ToSet(s.sections) : d.offset # 0}
TryMacExe(top, h) ==
    LET sections == UNION {Segment(s) : s \in ToSet(h.descs)}
    IN IF \/ h.cut
          \/ \E s \in ToSet(h.descs) :
                \/ s.size # 0 /\ ~Inside(top, s.offset, s.size)
                \/ \E d \in Segment(s) : d.offset \notin s.offset .. s.offset + s.size
          \/ \E d \in sections : ~Inside(top, d.offset, d.size)
       THEN Error
       ELSE Members({Entry(top.offset + d.offset, d.size, FALSE, FALSE) : d \in sections})

TryPe(top, h) ==
    LET sections == {d \in ToSet(h.descs) : d.size # 0}
    IN IF h.cut THEN Throw
       ELSE IF \E d \in sections : ~Inside(top, d.offset, d.size) THEN Error
       ELSE Members({Entry(top.offset + d.offset, d.size, FALSE, FALSE) : d \in sections})

WholeFile(top) == top.offset = 0 /\ top.size = total

TryWad(top, h) ==
    IF ~WholeFile(top) THEN No
    ELSE IF h.cut \/ ~AllIn(top, h) \/ \E i \in DOMAIN h.descs : h.descs[i].offset < h.toc THEN Error
    ELSE Given(top, h, Packed, Plain)

TryWpk(top, h) ==
    LET used == {d \in ToSet(h.descs) : d.plain}
    IN IF \/ h.cut
          \/ \E d \in used : d.offset < h.toc \/ ~Inside(top, d.offset, d.size)
       THEN Error
       ELSE Members({Entry(top.offset + d.offset, d.size, TRUE, FALSE) : d \in used})

TryZip(top, h) ==
    IF ~WholeFile(top) THEN No
    ELSE IF h.cut \/ ~AllIn(top, h) THEN Error
    ELSE Given(top, h, Packed, Plain)

\* The processors, tried in turn; the magic of a header lets one of them pass.
Try(top, h) ==
    IF h.kind \in ar.disabled THEN No
    ELSE CASE h.kind = "fsb" -> TryFsb(top, h)
           [] h.kind = "fsb5" -> TryFsb5(top, h)
           [] h.kind = "load" -> TryLoad(top, h)
           [] h.kind = "mac_exe" -> TryMacExe(top, h)
           [] h.kind = "mac_fat" -> TryMacFat(top, h)
           [] h.kind = "pe" -> TryPe(top, h)
           [] h.kind = "wad" -> TryWad(top, h)
           [] h.kind = "wpk" -> TryWpk(top, h)
           [] h.kind = "zip" -> TryZip(top, h)
           [] OTHER -> No

-----------------------------------------------------------------------------
\* process_iter: the members in the order of their offsets, without the empty
\* ones and those that begin before the one before them ends, and what lies
\* between and behind them.
Earlier(d, e) == d.offset < e.offset \/ (d.offset = e.offset /\ d.size < e.size)

\* The members that are not skipped, once the file is cut up to a place; and the
\* first of them.
Left(entries, cur) == {e \in entries : e.offset >= cur /\ e.size # 0}
NextOf(entries, cur) ==
    CHOOSE e \in Left(entries, cur) : \A d \in Left(entries, cur) : ~Earlier(d, e)

Gap(top, from, to) ==
    IF from = to THEN <<>> ELSE <<Entry(from, to - from, top.high_entropy, FALSE)>>

CutNoTail(top, entries) ==  \* mutant: what lies behind the last member is lost
    LET end == top.offset + top.size
        cut[cur \in top.offset .. end] ==
            IF Left(entries, cur) = {} THEN <<>>
            ELSE LET e == NextOf(entries, cur)
                 IN  Gap(top, cur, e.offset) \o <<e>> \o cut[e.offset + e.size]
    IN  cut[top.offset]
Cut(top, entries) ==
    LET end == top.offset + top.size
        cut[cur \in top.offset .. end] ==
            IF Left(entries, cur) = {} THEN Gap(top, cur, end)
            ELSE LET e == NextOf(entries, cur)
                 IN  Gap(top, cur, e.offset) \o <<e>> \o cut[e.offset + e.size]
    IN  cut[top.offset]

TopEntry == Head(work)
IsSmart == TopEntry.nest /\ TopEntry.size > ar.chunk_min

\* The processors look at an entry.
Look ==
    /\ state = "run" /\ work # <<>> /\ IsSmart /\ found = Unread
    /\ found' \in {Try(TopEntry, h) : h \in Headers(TopEntry.size)}
    /\ UNCHANGED <<ar, total, work, out, errors, state>>

\* One gave members, which are processed in turn.
Split ==
    /\ state = "run" /\ found.is = "entries"
    /\ work' = Cut(TopEntry, found.entries) \o Tail(work)
    /\ found' = Unread
    /\ UNCHANGED <<ar, total, out, errors, state>>

\* None did: the entry is cut by size.
Dumb(e) == [e EXCEPT !.nest = FALSE]

NotAnArchive ==
    /\ state = "run" /\ found.is = "no"
    /\ work' = <<Dumb(TopEntry)>> \o Tail(work)
    /\ found' = Unread
    /\ UNCHANGED <<ar, total, out, errors, state>>

\* push_error throws, or remembers the error for the end.
BadArchive ==
    /\ state = "run" /\ found.is = "error"
    /\ IF ar.strict THEN state' = "thrown" /\ UNCHANGED <<work, errors>>
       ELSE /\ work' = <<Dumb(TopEntry)>> \o Tail(work)
            /\ errors' = TRUE
            /\ UNCHANGED state
    /\ found' = Unread
    /\ UNCHANGED <<ar, total, out>>

\* An assertion of another kind throws always.
AssertFails ==
    /\ state = "run" /\ found.is = "throw"
    /\ state' = "thrown"
    /\ found' = Unread
    /\ UNCHANGED <<ar, total, work, out, errors>>

AtMost(n) == IF n < ar.chunk_max THEN n ELSE ar.chunk_max

\* The size of the next chunk: as large as may be, or where the rolling checksum
\* of the data has its low bits set, but not before chunk_min.
Sizes(n) ==
    IF ar.cdc = "fixed" \/ AtMost(n) <= ar.chunk_min THEN {AtMost(n)}
    ELSE ar.chunk_min + 1 .. AtMost(n)

\* The callback is called with one chunk.
Emit(size) ==
    /\ state = "run" /\ work # <<>> /\ ~IsSmart
    /\ size \in Sizes(TopEntry.size)
    /\ out' = Append(out, [TopEntry EXCEPT !.size = size])
    /\ work' = IF size = TopEntry.size THEN Tail(work)
               ELSE <<[TopEntry EXCEPT !.offset = @ + size, !.size = @ - size]>> \o Tail(work)
    /\ UNCHANGED <<ar, total, found, errors, state>>

Finish ==
    /\ state = "run" /\ work = <<>>
    /\ state' = "done"
    /\ UNCHANGED <<ar, total, work, out, found, errors>>

=============================================================================
