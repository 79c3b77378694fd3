--------------------------------- MODULE RCDN ---------------------------------
(***************************************************************************)
(* RCDN::get of lib/rlib/rcdn: the chunks a caller wants are taken from    *)
(* the cache; the rest is sorted, cut into ranges of a bundle, and fetched *)
(* by a few workers over curl's multi interface.  curl hands the body of a *)
(* transfer to the callback of its worker in fragments of any size, and    *)
(* the bodies of different workers interleaved; the callback cuts them     *)
(* into chunks again, stores each in the cache and delivers it to every    *)
(* place of the caller's file that wants it.  What a transfer did not      *)
(* deliver is tried again in the next round.                               *)
(*                                                                         *)
(* One thread runs all of this: between two steps of a callback nothing    *)
(* else happens, which "callback" expresses.                               *)
(***************************************************************************)
EXTENDS Integers, Sequences, FiniteSets, Functions

CONSTANTS
    Worker,     \* the workers: clamp(options.workers, 1, 64) of them
    Chunk,      \* chunk ids
    Bundle,     \* bundleId of each chunk
    Offset,     \* compressed_offset of each chunk in its bundle
    Size,       \* compressed_size of each chunk, in cells
    Dst,        \* what the caller wants: records [id, at], a chunk and its
                \* uncompressed_offset in the caller's file
    Cached,     \* sets of chunks the cache may hold when get is called
    CanWrite,   \* the cache can be written to
    HasUrl,     \* options.url is not empty
    Retry,      \* options.retry
    NoFrame,    \* a cell of a body that is no part of any chunk
    NoWorker,   \* no callback runs
    MaxThrows   \* bound: exceptions of the cache or of the caller's callback

ASSUME ChunkAssumption ==
    /\ Bundle \in [Chunk -> Nat]
    /\ Offset \in [Chunk -> Nat]
    /\ Size \in [Chunk -> Nat \ {0}]
\* The chunks of a bundle lie one after the other: a manifest has their sizes,
\* and parse_bundles of rmanifest adds them up.
ASSUME BundleAssumption ==
    \A c, e \in Chunk : c # e /\ Bundle[c] = Bundle[e] =>
        \/ Offset[c] + Size[c] <= Offset[e]
        \/ Offset[e] + Size[e] <= Offset[c]
ASSUME DstAssumption == IsFiniteSet(Dst) /\ Dst \subseteq [id : Chunk, at : Nat]
ASSUME OptionsAssumption ==
    /\ Worker # {} /\ NoWorker \notin Worker
    /\ Cached \subseteq SUBSET Chunk
    /\ CanWrite \in BOOLEAN /\ HasUrl \in BOOLEAN
    /\ Retry \in Nat
    /\ MaxThrows \in Nat
ASSUME NoFrameAssumption == NoFrame \notin [id : Chunk, at : Nat]

VARIABLES
    phase,      \* where get is: called, between two rounds, in one, returned
    chunks,     \* the chunks still wanted at the start of the round
    retry,      \* rounds left
    queue,      \* chunks_queue
    failed,     \* chunks_failed
    worker,     \* each worker: its chunks_, buffer_, the body still to come, ...
    callback,   \* the worker whose callback runs
    recv,       \* what that callback was given and has not used yet
    cache,      \* chunk id -> the chunk whose data the cache holds under it
    delivered,  \* what on_data was given for each Dst, in order
    throws      \* exceptions so far

vars == <<phase, chunks, retry, queue, failed, worker, callback, recv, cache,
          delivered, throws>>

Free == [busy |-> FALSE, chunks |-> <<>>, buffer |-> <<>>, body |-> <<>>,
         stopped |-> FALSE, whole |-> FALSE]

Cell == [id : Chunk, at : Nat] \cup {NoFrame}

\* The compressed bytes of a chunk, a frame of zstd.
Frame(c) == [k \in 1 .. Size[c] |-> [id |-> c, at |-> k]]

TypeOK ==
    /\ phase \in {"called", "between", "round", "returned"}
    /\ chunks \in Seq(Dst) /\ queue \in Seq(Dst) /\ failed \in Seq(Dst)
    /\ retry \in 0 .. Retry
    /\ worker \in [Worker -> [busy : BOOLEAN, chunks : Seq(Dst), buffer : Seq(Cell),
                              body : Seq(Cell), stopped : BOOLEAN, whole : BOOLEAN]]
    /\ callback \in Worker \cup {NoWorker}
    /\ recv \in Seq(Cell)
    /\ cache \in UNION {[C -> Chunk] : C \in SUBSET Chunk}
    /\ delivered \in [Dst -> Seq(Chunk)]
    /\ throws \in 0 .. MaxThrows

\* The lists of the elements of S, each once.
Lists(S) == Bijection(1 .. Cardinality(S), S)

Init ==
    /\ phase = "called"
    /\ chunks \in Lists(Dst)
    /\ retry = Retry
    /\ queue = <<>> /\ failed = <<>>
    /\ worker = [w \in Worker |-> Free]
    /\ callback = NoWorker /\ recv = <<>>
    /\ \E C \in Cached : cache = [c \in C |-> c]
    /\ delivered = [d \in Dst |-> <<>>]
    /\ throws = 0

-----------------------------------------------------------------------------
(***************************************************************************)
(* get: the cache, and the rounds                                          *)
(***************************************************************************)

\* RCache::get: what the cache has is swapped to the end of the list and
\* delivered, the rest stays wanted.
FromCache ==
    /\ phase = "called"
    /\ chunks' \in Lists({d \in Range(chunks) : d.id \notin DOMAIN cache})
    /\ delivered' = [d \in Dst |-> IF d.id \in DOMAIN cache THEN <<cache[d.id]>> ELSE <<>>]
    /\ phase' = "between"
    /\ UNCHANGED <<retry, queue, failed, worker, callback, recv, cache, throws>>

\* The order of sort_by: bundleId, compressed_offset, uncompressed_offset.
Before(d, e) ==
    \/ Bundle[d.id] < Bundle[e.id]
    \/ /\ Bundle[d.id] = Bundle[e.id]
       /\ \/ Offset[d.id] < Offset[e.id]
          \/ Offset[d.id] = Offset[e.id] /\ d.at < e.at

\* The orders the sort may leave a list in.
Sorted(s) == \A i, j \in DOMAIN s : i < j => ~Before(s[j], s[i])
Orders(s) == {q \in {[i \in DOMAIN s |-> s[f[i]]] : f \in Bijection(DOMAIN s, DOMAIN s)} :
                 Sorted(q)}

BeginRound ==
    /\ phase = "between"
    /\ HasUrl /\ chunks # <<>> /\ retry > 0
    /\ phase' = "round"
    /\ chunks' \in Orders(chunks)
    /\ queue' = chunks'
    /\ failed' = <<>>
    /\ UNCHANGED <<retry, worker, callback, recv, cache, delivered, throws>>

Busy == {w \in Worker : worker[w].busy}

EndRound ==
    /\ phase = "round"
    /\ Busy = {} /\ queue = <<>>
    /\ phase' = "between"
    /\ chunks' = failed /\ failed' = <<>>
    /\ retry' = retry - 1
    /\ UNCHANGED <<queue, worker, callback, recv, cache, delivered, throws>>

Return ==
    /\ phase = "between"
    /\ ~HasUrl \/ chunks = <<>> \/ retry = 0
    /\ phase' = "returned"
    /\ UNCHANGED <<chunks, retry, queue, failed, worker, callback, recv, cache,
                   delivered, throws>>

-----------------------------------------------------------------------------
(***************************************************************************)
(* A transfer                                                              *)
(***************************************************************************)

\* A range that has chunk i of a list can have the next: it is of the same bundle,
\* and the same chunk again or the one that comes next in the bundle.
GoesOn(q, i) ==
    /\ Bundle[q[i + 1].id] = Bundle[q[1].id]
    /\ \/ q[i + 1].id = q[i].id
       \/ Offset[q[i + 1].id] = Offset[q[i].id] + Size[q[i].id]

\* find_chunks: the first n of the queue are as many as one range can have.
FindChunks(q, n) ==
    /\ \A i \in 1 .. n - 1 : GoesOn(q, i)
    /\ n < Len(q) => ~GoesOn(q, n)

\* The cell of a bundle at an offset.
BundleCell(b, offset) ==
    LET Here(x) == Bundle[x] = b /\ Offset[x] <= offset /\ offset < Offset[x] + Size[x]
    IN  IF \E x \in Chunk : Here(x)
        THEN LET found == CHOOSE x \in Chunk : Here(x)
             IN  [id |-> found, at |-> offset - Offset[found] + 1]
        ELSE NoFrame

\* The cells of the range from the first to the last of the chunks.
RangeCells(ds) ==
    LET first == ds[1].id
        last == ds[Len(ds)].id
    IN  [k \in 1 .. Offset[last] + Size[last] - Offset[first] |->
            BundleCell(Bundle[first], Offset[first] + k - 1)]

\* What may arrive: the range or, when the connection is lost, a part of it; the
\* text of an error, of any length, since the status is not looked at; and a
\* body longer than was asked for.
Bodies(ds) ==
    LET range == RangeCells(ds)
    IN       {SubSeq(range, 1, k) : k \in 0 .. Len(range)}
        \cup {[i \in 1 .. k |-> NoFrame] : k \in {1, Len(range) + 1}}
        \cup {Append(range, NoFrame)}

Startable == queue # <<>> /\ Busy # Worker

Start(w) ==
    /\ phase = "round" /\ callback = NoWorker
    /\ queue # <<>> /\ ~worker[w].busy
    /\ \E n \in 1 .. Len(queue) :
        /\ FindChunks(queue, n)
        /\ LET ds == SubSeq(queue, 1, n)
               range == RangeCells(ds)
           IN \E body \in Bodies(ds) :
                worker' = [worker EXCEPT ![w] =
                  [Free EXCEPT !.busy = TRUE, !.chunks = ds, !.body = body,
                               !.whole = Len(body) >= Len(range)
                                         /\ SubSeq(body, 1, Len(range)) = range]]
        /\ queue' = SubSeq(queue, n + 1, Len(queue))
    /\ UNCHANGED <<phase, chunks, retry, failed, callback, recv, cache, delivered, throws>>

\* curl_multi_perform calls recv_data with the next cells of a body.
RecvData(w, n) ==
    /\ phase = "round" /\ callback = NoWorker
    /\ ~Startable
    /\ worker[w].busy /\ ~worker[w].stopped
    /\ n \in 1 .. Len(worker[w].body)
    /\ callback' = w
    /\ recv' = SubSeq(worker[w].body, 1, n)
    /\ worker' = [worker EXCEPT ![w].body = SubSeq(@, n + 1, Len(@))]
    /\ UNCHANGED <<phase, chunks, retry, queue, failed, cache, delivered, throws>>

DoneComplete(w) ==  \* mutant: a body that ended early is waited for
    /\ phase = "round" /\ callback = NoWorker
    /\ worker[w].busy
    /\ worker[w].stopped \/ worker[w].chunks = <<>>
    /\ failed' = failed \o worker[w].chunks
    /\ worker' = [worker EXCEPT ![w] = Free]
    /\ UNCHANGED <<phase, chunks, retry, queue, callback, recv, cache, delivered, throws>>

\* CURLMSG_DONE, and finish: what was not delivered has failed.
Done(w) ==
    /\ phase = "round" /\ callback = NoWorker
    /\ worker[w].busy
    /\ worker[w].stopped \/ worker[w].body = <<>>
    /\ failed' = failed \o worker[w].chunks
    /\ worker' = [worker EXCEPT ![w] = Free]
    /\ UNCHANGED <<phase, chunks, retry, queue, callback, recv, cache, delivered, throws>>

-----------------------------------------------------------------------------
(***************************************************************************)
(* The callback: one iteration of the loop of recieve each                 *)
(***************************************************************************)

Me == worker[callback]
Input == Me.buffer \o recv
Front == Me.chunks[1].id

\* The callback returns to curl.
Returns(me) ==
    /\ worker' = [worker EXCEPT ![callback] = me]
    /\ callback' = NoWorker /\ recv' = <<>>

\* The callback reports an error to curl, which ends the transfer.
Stops(me) == Returns([me EXCEPT !.stopped = TRUE])

\* Not enough for the chunk at the front: it is kept.
Keep ==
    /\ callback # NoWorker /\ Me.chunks # <<>>
    /\ Len(Input) < Size[Front]
    /\ Returns([Me EXCEPT !.buffer = Input])
    /\ UNCHANGED <<phase, chunks, retry, queue, failed, cache, delivered, throws>>

\* More than the chunks that were asked for.
TooMuch ==
    /\ callback # NoWorker /\ Me.chunks = <<>>
    /\ Stops(Me)
    /\ UNCHANGED <<phase, chunks, retry, queue, failed, cache, delivered, throws>>

FrontCells == SubSeq(Input, 1, Size[Front])

\* The frames decompress accepts: ZSTD finds one of the size it should have.
Decodes(c) == Size[c] = Size[Front] /\ FrontCells = Frame(c)

SameAll(n) == n <= Len(Me.chunks)   \* mutant: the ids are not compared

\* The first n entries of chunks_ are the chunk at the front.
Same(n) == n <= Len(Me.chunks) /\ \A i \in 1 .. n : Me.chunks[i].id = Front

\* on_data of the first n of them, with the data of chunk c.
Deliver(c, n) ==
    delivered' = [d \in Dst |-> IF \E i \in 1 .. n : Me.chunks[i] = d
                                THEN Append(delivered[d], c) ELSE delivered[d]]

StoreInCache(c) ==
    cache' = IF CanWrite /\ Front \notin DOMAIN cache
             THEN [x \in DOMAIN cache \cup {Front} |-> IF x = Front THEN c ELSE cache[x]]
             ELSE cache

BufferKept == Me.buffer   \* mutant: buffer_.clear() forgotten
BufferAfterChunk == <<>>

\* The front chunk is complete: store it, deliver it, go on with the rest.
TakeChunk ==
    /\ callback # NoWorker /\ Me.chunks # <<>>
    /\ Len(Input) >= Size[Front]
    /\ \E c \in Chunk, n \in 1 .. Len(Me.chunks) :
        /\ Decodes(c)
        /\ Same(n) /\ ~Same(n + 1)
        /\ StoreInCache(c)
        /\ Deliver(c, n)
        /\ LET rest == SubSeq(Input, Size[Front] + 1, Len(Input))
               me == [Me EXCEPT !.chunks = SubSeq(@, n + 1, Len(@)),
                                !.buffer = BufferAfterChunk]
           IN IF rest = <<>>
              THEN Returns(me)
              ELSE /\ worker' = [worker EXCEPT ![callback] = me]
                   /\ recv' = rest
                   /\ UNCHANGED callback
    /\ UNCHANGED <<phase, chunks, retry, queue, failed, throws>>

\* An assertion on the frame fails: nothing was delivered.
BadFrame ==
    /\ callback # NoWorker /\ Me.chunks # <<>>
    /\ Len(Input) >= Size[Front]
    /\ ~ \E c \in Chunk : Decodes(c)
    /\ Stops(Me)
    /\ UNCHANGED <<phase, chunks, retry, queue, failed, cache, delivered, throws>>

TakeThrowsAll(n) ==  \* mutant: chunks_ is advanced before on_data is called
    /\ callback # NoWorker /\ Me.chunks # <<>>
    /\ Len(Input) >= Size[Front]
    /\ throws < MaxThrows /\ throws' = throws + 1
    /\ Same(n + 1)
    /\ \E c \in Chunk : Decodes(c) /\ StoreInCache(c) /\ Deliver(c, n)
    /\ Stops([Me EXCEPT !.chunks = SubSeq(@, n + 2, Len(@))])
    /\ UNCHANGED <<phase, chunks, retry, queue, failed>>

\* add throws, after the chunk is in the lookup, or on_data does for the
\* (n+1)th place of the chunk.
TakeThrows(n) ==
    /\ callback # NoWorker /\ Me.chunks # <<>>
    /\ Len(Input) >= Size[Front]
    /\ throws < MaxThrows /\ throws' = throws + 1
    /\ Same(n + 1)
    /\ \E c \in Chunk : Decodes(c) /\ StoreInCache(c) /\ Deliver(c, n)
    /\ Stops([Me EXCEPT !.chunks = SubSeq(@, n + 1, Len(@))])
    /\ UNCHANGED <<phase, chunks, retry, queue, failed>>

-----------------------------------------------------------------------------
Callback ==
    \/ Keep
    \/ TooMuch
    \/ TakeChunk
    \/ BadFrame
    \/ \E n \in 0 .. Cardinality(Dst) : TakeThrows(n)

Transfer(w) ==
    \/ Start(w)
    \/ \E n \in 1 .. Len(worker[w].body) : RecvData(w, n)
    \/ Done(w)

Next ==
    \/ FromCache
    \/ BeginRound
    \/ \E w \in Worker : Transfer(w)
    \/ Callback
    \/ EndRound
    \/ Return

Spec == Init /\ [][Next]_vars

\* The loop of get always goes on, and every transfer ends: curl's low speed
\* limit, or the server, sees to that.
FairSpec == Spec /\ WF_vars(Next)

-----------------------------------------------------------------------------
(***************************************************************************)
(* Properties                                                              *)
(***************************************************************************)

\* The chunks still to be delivered, wherever the call keeps them.
Held == LET inWorkers == {<<w, i>> : w \in Worker, i \in 1 .. Cardinality(Dst)}
        IN  [d \in Dst |->
               IF phase \in {"called", "between", "returned"}
               THEN Cardinality({i \in DOMAIN chunks : chunks[i] = d})
               ELSE Cardinality({i \in DOMAIN queue : queue[i] = d})
                    + Cardinality({i \in DOMAIN failed : failed[i] = d})
                    + Cardinality({p \in inWorkers :
                          /\ p[2] \in DOMAIN worker[p[1]].chunks
                          /\ worker[p[1]].chunks[p[2]] = d})]

\* Every place of the caller's file is, at every moment, held by exactly one of
\* the queue, a worker and the failed ones, or was delivered exactly once: no
\* order of fragments, failures, exceptions and rounds loses a place, fetches
\* it twice at a time or delivers it twice.  What get returns is what it did
\* not deliver.  And what is delivered, and what is stored in the cache, is the
\* chunk that was asked for, however curl cuts the bodies into fragments.
DeliveredOnce ==
    /\ \A d \in Dst : Held[d] + Len(delivered[d]) = 1
    /\ \A d \in Dst : \A i \in DOMAIN delivered[d] : delivered[d][i] = d.id
    /\ \A c \in DOMAIN cache : cache[c] = c

\* A body that held the whole range delivered all of it, unless the cache or
\* the caller threw.
WholeBodyDelivers ==
    throws = 0 => \A w \in Busy :
        worker[w].whole /\ worker[w].body = <<>> /\ callback # w => worker[w].chunks = <<>>

\* get returns.
Returned == <>(phase = "returned")

\* get as its callers see it.
Fetch == INSTANCE Delivery
         WITH wanted <- {d \in Dst : delivered[d] = <<>>},
              written <- {[id |-> delivered[d][Len(delivered[d])], at |-> d.at] :
                             d \in {e \in Dst : delivered[e] # <<>>}},
              returned <- phase = "returned"

\* get implements Delivery.
FetchSpec == Fetch!Spec
=============================================================================
