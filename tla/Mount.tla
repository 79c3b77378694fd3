-------------------------------- MODULE Mount --------------------------------
(***************************************************************************)
(* rman-mount: the tree is built from the files of the manifests (RDir);   *)
(* then several threads open files by their paths, and read.  A read is    *)
(* put together from the chunks that overlap it, each from the cache or,   *)
(* with a request of its own, from the content server.  A chunk that is    *)
(* read in part is kept decompressed by the thread, for its next read, of  *)
(* whichever file.                                                         *)
(***************************************************************************)
EXTENDS RDir

CONSTANTS
    Thread,
    Chunk,      \* chunk ids
    Size,       \* uncompressed_size of each chunk, in cells
    File,       \* fileIds
    List,       \* the chunks of each file: a sequence of records [id, at]
    Total,      \* the size of each file
    Manifests,  \* the files of the manifests, in order: a set of sequences of
                \* records [path, file, stripped]
    Paths,      \* what is opened
    Reads,      \* what is asked for: records [offset, size]
    Cached,     \* what the cache may hold at the start: sets of chunks
    Lists,      \* the files whose lists of chunks are in the cache
    CanWrite,   \* RCache::can_write
    Bodies,     \* what the server may answer, see GetInto
    Garbage,    \* a cell nothing was written to: any value
    None        \* ChunkID::None; no entry

ASSUME ListAssumption ==
    /\ Size \in [Chunk -> Nat] /\ None \notin Chunk /\ NoFile \notin File
    /\ List \in [File -> Seq([id : Chunk, at : Nat])]
    /\ Total \in [File -> Nat]
    /\ \A f \in File :
          /\ \A i \in DOMAIN List[f] :
                List[f][i].at = IF i = 1 THEN 0 ELSE List[f][i - 1].at + Size[List[f][i - 1].id]
          /\ Len(List[f]) > 0 =>
                Total[f] = List[f][Len(List[f])].at + Size[List[f][Len(List[f])].id]
ASSUME ManifestsAssumption ==
    Manifests \subseteq Seq([path : Seq(Name \cup {Slash}), file : File, stripped : BOOLEAN])
ASSUME InputsAssumption ==
    /\ Paths \subseteq Seq(Name \cup {Slash}) /\ Reads \subseteq [offset : Nat, size : Nat]
    /\ Cached \subseteq SUBSET Chunk
ASSUME BodiesAssumption == Bodies \subseteq {"whole", "long", "short", "broken", "lost"}

VARIABLES
    files,      \* what the manifests hold
    parsed,     \* how many of them are in the tree
    tree,       \* root
    eager,      \* the shared lists: for each file, whether the manifest had it
    cache,      \* the chunks in the cache
    last,       \* thread_local last: the id and what is in its buffer
    handle,     \* what a thread has open: the key of an entry
    listed,     \* the names the kernel was given of an open directory
    dirOffset,  \* the offset that came with the last of them
    call,       \* the read a thread serves: [offset, size], size cut to the file
    todo,       \* the chunks the loop has still to visit
    buf,        \* what was put in the caller's buffer
    reply       \* what the last read of the thread returned

mounted == <<files, parsed, tree, eager>>
opened == <<handle, listed, dirOffset>>
reading == <<call, todo, buf, reply>>
vars == <<mounted, cache, last, opened, reading>>

Data(c) == [k \in 1 .. Size[c] |-> <<c, k>>]
Unset(c) == [k \in 1 .. Size[c] |-> Garbage]

\* The cells of a file.
Cell(f, n) ==
    LET i == CHOOSE i \in DOMAIN List[f] :
                n \in List[f][i].at + 1 .. List[f][i].at + Size[List[f][i].id]
    IN Data(List[f][i].id)[n - List[f][i].at]
Wanted(f, r) == [k \in 1 .. r.size |-> Cell(f, r.offset + k)]

Idle == [offset |-> 0, size |-> 0]
Answer(kind, key, r, data) == [kind |-> kind, key |-> key, call |-> r, data |-> data]
NoAnswer == Answer("none", <<>>, Idle, <<>>)

Opened(t) == tree[handle[t]].file

TypeOK ==
    /\ parsed \in 0 .. Len(files)
    /\ \A key \in DOMAIN tree : tree[key].file \in DOMAIN eager \cup {NoFile}
    /\ cache \subseteq Chunk
    /\ \A t \in Thread :
          /\ last[t].id \in Chunk \cup {None}
          /\ handle[t] \in DOMAIN tree \cup {None}
          /\ listed[t] # <<>> => handle[t] # None /\ IsDir(tree, handle[t])
          /\ call[t].size > 0 => Opened(t) \in File /\ call[t].offset + call[t].size <= Total[Opened(t)]
          /\ Len(buf[t]) <= call[t].size
          /\ reply[t].kind \in {"none", "data", "EAGAIN", "EINTR"}

Init ==
    /\ files \in Manifests /\ parsed = 0
    /\ tree = EmptyTree /\ eager = <<>>
    /\ cache \in Cached
    /\ last = [t \in Thread |-> [id |-> None, data |-> <<>>]]
    /\ handle = [t \in Thread |-> None]
    /\ listed = [t \in Thread |-> <<>>] /\ dirOffset = [t \in Thread |-> 0]
    /\ call = [t \in Thread |-> Idle]
    /\ todo = [t \in Thread |-> <<>>]
    /\ buf = [t \in Thread |-> <<>>]
    /\ reply = [t \in Thread |-> NoAnswer]

-----------------------------------------------------------------------------
\* run: the next file of the manifests; the entry that takes it shares the list
\* of the first file with its id.
Parse ==
    /\ parsed < Len(files)
    /\ LET rfile == files[parsed + 1]
       IN /\ tree' = Built(tree, rfile.path, rfile.file)
          /\ eager' = IF tree' # tree /\ rfile.file \notin DOMAIN eager
                      THEN [f \in DOMAIN eager \cup {rfile.file} |->
                                IF f = rfile.file THEN ~rfile.stripped ELSE eager[f]]
                      ELSE eager
    /\ parsed' = parsed + 1
    /\ UNCHANGED <<files, cache, last, opened, reading>>

Mounted == parsed = Len(files)
Busy(t) == call[t].size > 0

\* get_entry of a path, which may lead nowhere.
EntryAt(path) == Find(tree, path)

\* The handle of the entry; a path that leads nowhere, or to the other kind of
\* entry, is refused.
Opens(t, path, dir) ==
    /\ Mounted /\ handle[t] = None
    /\ \E key \in EntryAt(path) :
          IsDir(tree, key) = dir /\ handle' = [handle EXCEPT ![t] = key]
    /\ UNCHANGED <<mounted, cache, last, listed, dirOffset, reading>>

\* impl_open
OpenFile(t, path) == Opens(t, path, FALSE)

\* impl_opendir
OpenDir(t, path) == Opens(t, path, TRUE)

FillSame(t, n) == dirOffset[t] + n - 1  \* mutant: each name comes with its own offset
FillNext(t, n) == dirOffset[t] + n

\* impl_readdir: the next names, with their offsets, until the buffer of the
\* kernel, which takes n of them, is full.
ReadDir(t, n) ==
    /\ handle[t] # None /\ IsDir(tree, handle[t])
    /\ LET children == tree[handle[t]].children
       IN /\ dirOffset[t] + n <= Len(children)
          /\ listed' = [listed EXCEPT ![t] = @ \o SubSeq(children, dirOffset[t] + 1, dirOffset[t] + n)]
    /\ dirOffset' = [dirOffset EXCEPT ![t] = FillNext(t, n)]
    /\ UNCHANGED <<mounted, cache, last, handle, reading>>

\* impl_release, impl_releasedir; what the thread keeps of the last chunk stays.
Release(t) ==
    /\ handle[t] # None /\ ~Busy(t)
    /\ handle' = [handle EXCEPT ![t] = None]
    /\ listed' = [listed EXCEPT ![t] = <<>>] /\ dirOffset' = [dirOffset EXCEPT ![t] = 0]
    /\ reply' = [reply EXCEPT ![t] = NoAnswer]
    /\ UNCHANGED <<mounted, cache, last, call, todo, buf>>

\* RCache::get_chunks: the list of chunks stored under the id of the file, or none.
GetChunks(f) == IF f \in Lists THEN List[f] ELSE <<>>

\* RDirEntry::chunks: the list of the manifest, or that in the cache.
ListOf(f) == IF eager[f] THEN List[f] ELSE GetChunks(f)

-----------------------------------------------------------------------------
\* find_chunks_in_range: from the first chunk that ends behind offset to the
\* last that begins before the end of the read.
InRange(list, offset, size) ==
    LET End(d) == d.at + Size[d.id]
        first == 1 + Cardinality({i \in DOMAIN list : End(list[i]) <= offset})
        count == Cardinality({i \in first .. Len(list) : list[i].at < offset + size})
    IN SubSeq(list, first, first + count - 1)

\* offset + size > real_size
Cut(f, r) == IF r.offset + r.size > Total[f] THEN Total[f] - r.offset ELSE r.size

\* A read that begins behind the end returns nothing at once; one of a file whose
\* list is not found fails.
Read(t, r) ==
    /\ handle[t] # None /\ ~IsDir(tree, handle[t]) /\ ~Busy(t)
    /\ r.offset < Total[Opened(t)] /\ r.size > 0
    /\ LET list == ListOf(Opened(t))
           size == Cut(Opened(t), r)
       IN IF list = <<>>
          THEN /\ reply' = [reply EXCEPT ![t] = Answer("EAGAIN", handle[t], r, <<>>)]
               /\ UNCHANGED <<call, todo>>
          ELSE /\ call' = [call EXCEPT ![t] = [offset |-> r.offset, size |-> size]]
               /\ todo' = [todo EXCEPT ![t] = InRange(list, r.offset, size)]
               /\ reply' = [reply EXCEPT ![t] = NoAnswer]
    /\ UNCHANGED <<mounted, cache, last, opened, buf>>

Ends(t, kind) ==
    /\ reply' = [reply EXCEPT ![t] = Answer(kind, handle[t], call[t], buf[t])]
    /\ call' = [call EXCEPT ![t] = Idle]
    /\ todo' = [todo EXCEPT ![t] = <<>>]
    /\ buf' = [buf EXCEPT ![t] = <<>>]

\* RCDN::get_into, by what the server answers: a body that is whole; one that
\* goes on behind the chunk, so that the transfer fails after the chunk was
\* decompressed; one that ends early although the transfer is in order; one
\* that does not decompress; none, or a transfer that fails.
GetInto(c) ==
    IF c \in cache THEN {[ok |-> TRUE, data |-> Data(c), stored |-> TRUE]}
    ELSE {[ok |-> b \in {"whole", "short"},
           data |-> IF b \in {"whole", "long"} THEN Data(c) ELSE Unset(c),
           stored |-> CanWrite /\ b \in {"whole", "long"}] : b \in Bodies}

Store(c, got) == cache' = IF got.stored THEN cache \cup {c} ELSE cache

Position(t) == call[t].offset + Len(buf[t])
Remaining(t) == call[t].size - Len(buf[t])

\* The read goes on after the chunk, with what it gives.
Continues(t, data) ==
    /\ buf' = [buf EXCEPT ![t] = @ \o data]
    /\ todo' = [todo EXCEPT ![t] = Tail(@)]
    /\ UNCHANGED <<call, reply>>

\* The chunk is wanted as a whole, and is put where the caller wants it.
FitsWhole(t, d) == d.at = Position(t) /\ Remaining(t) >= Size[d.id]

ReadWhole(t) ==
    /\ todo[t] # <<>>
    /\ LET d == Head(todo[t])
       IN /\ FitsWhole(t, d)
          /\ \E got \in GetInto(d.id) :
                /\ Store(d.id, got)
                /\ IF got.ok THEN Continues(t, got.data)
                   ELSE Ends(t, "EAGAIN")
    /\ UNCHANGED <<mounted, last, opened>>

\* The part of a chunk that is wanted.
Part(t, d, data) ==
    LET skip == IF Position(t) > d.at THEN Position(t) - d.at ELSE 0
        rest == Len(data) - skip
    IN SubSeq(data, skip + 1, skip + (IF Remaining(t) < rest THEN Remaining(t) ELSE rest))

\* The chunk is in the thread's own buffer.
ReadLast(t) ==
    /\ todo[t] # <<>>
    /\ LET d == Head(todo[t])
       IN /\ ~FitsWhole(t, d) /\ last[t].id = d.id
          /\ Continues(t, Part(t, d, last[t].data))
    /\ UNCHANGED <<mounted, cache, last, opened>>

ReadPartKeeps(t) ==  \* mutant: last.id is not reset before the buffer is reused
    /\ todo[t] # <<>>
    /\ LET d == Head(todo[t])
       IN /\ ~FitsWhole(t, d) /\ last[t].id # d.id
          /\ \E got \in GetInto(d.id) :
                /\ Store(d.id, got)
                /\ last' = [last EXCEPT ![t] =
                        [id |-> IF got.ok THEN d.id ELSE last[t].id, data |-> got.data]]
                /\ IF got.ok THEN Continues(t, Part(t, d, got.data))
                   ELSE Ends(t, "EAGAIN")
    /\ UNCHANGED <<mounted, opened>>

\* It is not, and is fetched into it.
ReadPart(t) ==
    /\ todo[t] # <<>>
    /\ LET d == Head(todo[t])
       IN /\ ~FitsWhole(t, d) /\ last[t].id # d.id
          /\ \E got \in GetInto(d.id) :
                /\ Store(d.id, got)
                /\ last' = [last EXCEPT ![t] =
                        [id |-> IF got.ok THEN d.id ELSE None, data |-> got.data]]
                /\ IF got.ok THEN Continues(t, Part(t, d, got.data))
                   ELSE Ends(t, "EAGAIN")
    /\ UNCHANGED <<mounted, opened>>

\* fuse_interrupted.
Interrupt(t) ==
    /\ todo[t] # <<>>
    /\ Ends(t, "EINTR")
    /\ UNCHANGED <<mounted, cache, last, opened>>

\* done is returned, if it is size.
Return(t) ==
    /\ Busy(t) /\ todo[t] = <<>>
    /\ Ends(t, IF Len(buf[t]) = call[t].size THEN "data" ELSE "EAGAIN")
    /\ UNCHANGED <<mounted, cache, last, opened>>

Next ==
    \/ Parse
    \/ \E t \in Thread :
        \/ \E path \in Paths : OpenFile(t, path) \/ OpenDir(t, path)
        \/ \E n \in 1 .. Cardinality(Name) : ReadDir(t, n)
        \/ Release(t)
        \/ \E r \in Reads : Read(t, r)
        \/ ReadWhole(t)
        \/ ReadLast(t)
        \/ ReadPart(t)
        \/ Interrupt(t)
        \/ Return(t)

Spec == Init /\ [][Next]_vars

-----------------------------------------------------------------------------
\* The file the manifests have under a key: the first of them.
FirstWith(key) == files[Min({i \in DOMAIN files : KeyOf(files[i].path) = key})].file

\* A read that returns data returns the bytes of the file at its offset, which is
\* the first of the manifests that has the path: however the tree was built,
\* whatever the thread read before, of whichever file, whichever of those reads
\* failed, and whatever other threads put in the cache meanwhile.
ReadRight ==
    \A t \in Thread : reply[t].kind = "data" =>
        reply[t].data = Wanted(FirstWith(reply[t].key), reply[t].call)

\* The tree has every file that was parsed, and finds it: also one whose path
\* differs from another's in case alone, or is part of the path of another.
TreeRight == BuiltFrom(tree, SubSeq(files, 1, parsed), Paths)

\* Reading a directory in pieces of any size gives what is in it, each name once:
\* after as many names as it has, all of them were given.
ListedRight ==
    \A t \in Thread : handle[t] # None =>
        /\ IsInjective(listed[t])
        /\ Len(listed[t]) = Len(tree[handle[t]].children) =>
              ToSet(listed[t]) =
                {KeyOf(files[i].path)[Len(handle[t]) + 1] :
                    i \in {k \in DOMAIN files : IsStrictPrefix(handle[t], KeyOf(files[k].path))}}
=============================================================================
