------------------------------ MODULE RCDNProofs ------------------------------
(***************************************************************************)
(* RCDN::get, for every set of workers, chunks, places and bundles, every  *)
(* cache and every number of rounds and exceptions: each place is          *)
(* delivered once and right or still held once, and a body that held its   *)
(* whole range delivered all of it.                                        *)
(***************************************************************************)
EXTENDS RCDN, FiniteSetTheorems, SequenceTheorems, TLAPS

-----------------------------------------------------------------------------
(***************************************************************************)
(* The inductive invariant: who holds a place                              *)
(***************************************************************************)

Wanted == {d \in Dst : delivered[d] = <<>>}

\* Outside a round nothing but the list is in use.
Idle == phase # "round" => /\ queue = <<>> /\ failed = <<>>
                           /\ callback = NoWorker /\ recv = <<>>
                           /\ \A w \in Worker : worker[w] = Free

\* Rounds are counted down to zero.
RoundLeft == phase = "round" => retry > 0

FreeHoldsNothing == \A w \in Worker : ~worker[w].busy => worker[w] = Free

\* A callback is one of a transfer that goes on; between two, nothing is received.
CallbackOfBusy ==
    /\ callback # NoWorker => worker[callback].busy /\ ~worker[callback].stopped
    /\ callback = NoWorker => recv = <<>>

\* Between two rounds the list has what is wanted, once.
ListOfWanted == phase # "round" => IsInjective(chunks) /\ Range(chunks) = Wanted

HeldBy(w) == Range(worker[w].chunks)

\* In a round the queue, the workers and the failed ones share it out.
RoundOfWanted == phase = "round" =>
    /\ IsInjective(queue) /\ IsInjective(failed)
    /\ Range(queue) \cap Range(failed) = {}
    /\ \A w \in Worker : /\ IsInjective(worker[w].chunks)
                         /\ HeldBy(w) \cap (Range(queue) \cup Range(failed)) = {}
    /\ \A v, w \in Worker : v # w => HeldBy(v) \cap HeldBy(w) = {}
    /\ Wanted = Range(queue) \cup Range(failed) \cup UNION {HeldBy(w) : w \in Worker}

Shared == Idle /\ FreeHoldsNothing /\ CallbackOfBusy /\ ListOfWanted /\ RoundOfWanted

-----------------------------------------------------------------------------
(***************************************************************************)
(* The inductive invariant: what a worker receives                         *)
(***************************************************************************)

NothingBefore == phase = "called" => \A d \in Dst : delivered[d] = <<>>
DeliveredRight == \A d \in Dst : delivered[d] \in {<<>>, <<d.id>>}
CacheRight == \A c \in DOMAIN cache : cache[c] = c

\* The chunks of one range, in the order they have in the bundle.
Run(ds) ==
    /\ \A i, j \in DOMAIN ds : /\ Bundle[ds[i].id] = Bundle[ds[j].id]
                               /\ i < j => Offset[ds[i].id] <= Offset[ds[j].id]
    /\ \A i \in 1 .. Len(ds) - 1 : \/ ds[i + 1].id = ds[i].id
                                   \/ Offset[ds[i + 1].id] = Offset[ds[i].id] + Size[ds[i].id]

\* What a worker has of its transfer and did not use, and what is to come.
Stream(w) == (worker[w].buffer \o (IF callback = w THEN recv ELSE <<>>)) \o worker[w].body

\* It starts where the first chunk starts, whatever was used before.
RightCells(c, s) == \A k \in DOMAIN s : s[k] \in {NoFrame, BundleCell(Bundle[c], Offset[c] + k - 1)}

StreamRight(w) ==
    worker[w].busy /\ ~worker[w].stopped /\ worker[w].chunks # <<>> =>
        RightCells(worker[w].chunks[1].id, Stream(w))

\* Every chunk of the list is in the stream, as far from the first as it should be.
HasCells(ds, s) ==
    \A i \in DOMAIN ds : \A k \in 1 .. Size[ds[i].id] :
        LET at == Offset[ds[i].id] - Offset[ds[1].id] + k
        IN  at \in DOMAIN s /\ s[at] = [id |-> ds[i].id, at |-> k]

WholeStream(w) ==
    throws = 0 /\ worker[w].whole /\ worker[w].chunks # <<>> =>
        ~worker[w].stopped /\ HasCells(worker[w].chunks, Stream(w))

\* A worker does not wait with a chunk that it has.
BufferShort(w) ==
    worker[w].chunks # <<>> /\ ~worker[w].stopped /\ callback # w =>
        Len(worker[w].buffer) < Size[worker[w].chunks[1].id]

InStep(w) == Run(worker[w].chunks) /\ StreamRight(w) /\ WholeStream(w) /\ BufferShort(w)

Data == /\ NothingBefore /\ DeliveredRight /\ CacheRight
        /\ Sorted(queue) /\ \A w \in Worker : InStep(w)

IInv == TypeOK /\ RoundLeft /\ Shared /\ Data

-----------------------------------------------------------------------------
(***************************************************************************)
(* Sequences                                                               *)
(***************************************************************************)

LEMMA Cut ==
    ASSUME NEW S, NEW s \in Seq(S), NEW m \in 1 .. Len(s) + 1, NEW n \in m - 1 .. Len(s)
    PROVE  /\ SubSeq(s, m, n) \in Seq(S)
           /\ Len(SubSeq(s, m, n)) = n - m + 1
           /\ \A i \in 1 .. n - m + 1 : SubSeq(s, m, n)[i] = s[m + i - 1]
  OBVIOUS

LEMMA Joined ==
    ASSUME NEW S, NEW s \in Seq(S), NEW t \in Seq(S)
    PROVE  /\ s \o t \in Seq(S)
           /\ Len(s \o t) = Len(s) + Len(t)
           /\ \A i \in 1 .. Len(s) : (s \o t)[i] = s[i]
           /\ \A i \in Len(s) + 1 .. Len(s) + Len(t) : (s \o t)[i] = t[i - Len(s)]
  OBVIOUS

\* The next piece of a body moves from what is to come to what was received.
LEMMA BodyCut ==
    ASSUME NEW S, NEW a \in Seq(S), NEW b \in Seq(S), NEW n \in 1 .. Len(b)
    PROVE  (a \o SubSeq(b, 1, n)) \o SubSeq(b, n + 1, Len(b)) = (a \o <<>>) \o b
<1> DEFINE c == SubSeq(b, 1, n)
           d == SubSeq(b, n + 1, Len(b))
<1>1. c \in Seq(S) /\ d \in Seq(S)
  OBVIOUS
<1>2. a \o <<>> = a /\ c \o d = b
  OBVIOUS
<1> HIDE DEF c, d
<1>3. (a \o c) \o d = a \o (c \o d)
  BY <1>1, ConcatAssociative
<1>4. (a \o c) \o d = (a \o <<>>) \o b
  BY ONLY <1>2, <1>3, Zenon
<1> QED BY <1>4 DEF c, d

\* A list without repetitions, cut in two.
LEMMA CutInTwo ==
    ASSUME NEW S, NEW s \in Seq(S), IsInjective(s), NEW n \in 0 .. Len(s)
    PROVE  /\ IsInjective(SubSeq(s, 1, n)) /\ IsInjective(SubSeq(s, n + 1, Len(s)))
           /\ Range(SubSeq(s, 1, n)) = {s[i] : i \in 1 .. n}
           /\ Range(SubSeq(s, 1, n)) \cap Range(SubSeq(s, n + 1, Len(s))) = {}
           /\ Range(s) = Range(SubSeq(s, 1, n)) \cup Range(SubSeq(s, n + 1, Len(s)))
<1> DEFINE a == SubSeq(s, 1, n)
           b == SubSeq(s, n + 1, Len(s))
<1>1. a \in Seq(S) /\ DOMAIN a = 1 .. n /\ \A i \in 1 .. n : a[i] = s[i]
  OBVIOUS
<1>2. b \in Seq(S) /\ DOMAIN b = 1 .. Len(s) - n /\ \A i \in 1 .. Len(s) - n : b[i] = s[n + i]
  OBVIOUS
<1>3. DOMAIN s = 1 .. Len(s) /\ n \in Nat /\ n <= Len(s) /\ Len(s) \in Nat
  OBVIOUS
<1>4. \A i \in n + 1 .. Len(s) : i - n \in DOMAIN b /\ b[i - n] = s[i]
  BY <1>2, <1>3
<1> HIDE DEF a, b
<1>5. IsInjective(a) /\ IsInjective(b)
  <2>1. \A i \in DOMAIN a : i \in DOMAIN s /\ a[i] = s[i]
    BY <1>1, <1>3
  <2>2. \A i \in DOMAIN b : n + i \in DOMAIN s /\ b[i] = s[n + i] /\ i \in Nat
    BY <1>2, <1>3
  <2>3. \A i, j \in DOMAIN b : n + i = n + j => i = j
    BY <1>3, <2>2
  <2> QED BY <2>1, <2>2, <2>3 DEF IsInjective
<1>6. Range(a) = {s[i] : i \in 1 .. n}
  BY <1>1 DEF Range
<1>7. Range(b) = {s[i] : i \in n + 1 .. Len(s)}
  <2>1. \A i \in DOMAIN b : n + i \in n + 1 .. Len(s) /\ b[i] = s[n + i]
    BY <1>2, <1>3
  <2> QED BY <2>1, <1>4 DEF Range
<1>8. Range(a) \cap Range(b) = {}
  BY <1>3, <1>6, <1>7 DEF IsInjective
<1>9. Range(s) = Range(a) \cup Range(b)
  <2>1. Range(s) = {s[i] : i \in 1 .. Len(s)}
    BY <1>3 DEF Range
  <2> QED BY <2>1, <1>3, <1>6, <1>7
<1> QED BY <1>5, <1>6, <1>8, <1>9 DEF a, b

\* Two lists without repetitions that have nothing in common, joined.
LEMMA JoinTwo ==
    ASSUME NEW S, NEW s \in Seq(S), NEW t \in Seq(S), IsInjective(s), IsInjective(t),
           Range(s) \cap Range(t) = {}
    PROVE  IsInjective(s \o t) /\ Range(s \o t) = Range(s) \cup Range(t)
<1> DEFINE u == s \o t
           n == Len(s)
           m == Len(t)
<1>1. /\ n \in Nat /\ m \in Nat
      /\ DOMAIN s = 1 .. n /\ DOMAIN t = 1 .. m /\ DOMAIN u = 1 .. n + m
      /\ \A i \in 1 .. n : u[i] = s[i]
      /\ \A i \in n + 1 .. n + m : u[i] = t[i - n]
  BY Joined
<1>2. \A i \in DOMAIN t : n + i \in DOMAIN u /\ u[n + i] = t[i]
  BY <1>1
<1> HIDE DEF u, n, m
<1>3. /\ \A i \in DOMAIN u : i \in DOMAIN s \/ (i - n \in DOMAIN t /\ u[i] = t[i - n])
      /\ \A i \in DOMAIN s : u[i] = s[i] /\ i \in DOMAIN u
  BY <1>1
<1>4. Range(u) = Range(s) \cup Range(t)
  <2>1. \A x \in Range(u) : x \in Range(s) \/ x \in Range(t)
    BY <1>3 DEF Range
  <2>2. \A x \in Range(s) : x \in Range(u)
    BY <1>1 DEF Range
  <2>3. \A x \in Range(t) : x \in Range(u)
    BY <1>1, <1>2 DEF Range
  <2> QED BY <2>1, <2>2, <2>3
<1>5. ASSUME NEW i \in DOMAIN u, NEW j \in DOMAIN u, u[i] = u[j] PROVE i = j
  <2>1. i \in Nat /\ j \in Nat
    BY <1>1
  <2>2. CASE i \in DOMAIN s /\ j \in DOMAIN s
    BY <2>2, <1>1, <1>5 DEF IsInjective
  <2>3. CASE i \notin DOMAIN s /\ j \notin DOMAIN s
    <3>1. i - n = j - n
      BY <2>3, <1>3, <1>5 DEF IsInjective
    <3> QED BY <3>1, <2>1, <1>1
  <2>4. CASE i \in DOMAIN s /\ j \notin DOMAIN s
    BY <2>4, <1>1, <1>3, <1>5 DEF Range
  <2>5. CASE j \in DOMAIN s /\ i \notin DOMAIN s
    BY <2>5, <1>1, <1>3, <1>5 DEF Range
  <2> QED BY <2>2, <2>3, <2>4, <2>5
<1> QED BY <1>4, <1>5 DEF u, IsInjective

-----------------------------------------------------------------------------
(***************************************************************************)
(* Bundles and bodies                                                      *)
(***************************************************************************)

LEMMA PlaceType ==
    ASSUME NEW d \in Dst
    PROVE  /\ d.id \in Chunk /\ d.at \in Nat
           /\ Bundle[d.id] \in Nat /\ Offset[d.id] \in Nat /\ Size[d.id] \in Nat \ {0}
<1>1. d \in [id : Chunk, at : Nat]
  BY DstAssumption
<1> QED BY <1>1, ChunkAssumption

LEMMA BundleCellType ==
    ASSUME NEW b, NEW o \in Int
    PROVE  BundleCell(b, o) \in Cell
<1> DEFINE Here(x) == Bundle[x] = b /\ Offset[x] <= o /\ o < Offset[x] + Size[x]
           found == CHOOSE x \in Chunk : Here(x)
<1>1. CASE \E x \in Chunk : Here(x)
  <2>1. found \in Chunk /\ Here(found)
    BY <1>1
  <2> HIDE DEF found
  <2>2. Offset[found] \in Nat
    BY <2>1, ChunkAssumption
  <2>3. o - Offset[found] + 1 \in Nat
    BY <2>1, <2>2
  <2>4. BundleCell(b, o) = [id |-> found, at |-> o - Offset[found] + 1]
    BY <1>1 DEF BundleCell, found
  <2> QED BY <2>1, <2>3, <2>4 DEF Cell
<1>2. CASE ~ \E x \in Chunk : Here(x)
  BY <1>2 DEF BundleCell, Cell
<1> QED BY <1>1, <1>2

\* A chunk is found where the manifest says it is, whole.
LEMMA BundleCellOfChunk ==
    ASSUME NEW c \in Chunk, NEW k \in 1 .. Size[c]
    PROVE  BundleCell(Bundle[c], Offset[c] + k - 1) = [id |-> c, at |-> k]
<1> DEFINE o == Offset[c] + k - 1
           Here(x) == Bundle[x] = Bundle[c] /\ Offset[x] <= o /\ o < Offset[x] + Size[x]
           found == CHOOSE x \in Chunk : Here(x)
<1>1. \A x \in Chunk : Offset[x] \in Nat /\ Size[x] \in Nat /\ k \in Nat
  BY ChunkAssumption
<1>2. Here(c)
  BY <1>1
<1>3. \A x \in Chunk : Here(x) => x = c
  BY <1>1, <1>2, BundleAssumption
<1>4. found = c
  BY <1>2, <1>3
<1>5. BundleCell(Bundle[c], o) = [id |-> found, at |-> o - Offset[found] + 1]
  BY <1>2 DEF BundleCell
<1> HIDE DEF found
<1>6. o - Offset[c] + 1 = k
  BY <1>1
<1> QED BY <1>4, <1>5, <1>6

LEMMA RangeType ==
    ASSUME NEW ds \in Seq(Dst), ds # <<>>
    PROVE  RangeCells(ds) \in Seq(Cell)
<1> DEFINE b == Bundle[ds[1].id]
           o == Offset[ds[1].id]
           n == Offset[ds[Len(ds)].id] + Size[ds[Len(ds)].id] - o
<1>1. ds[1] \in Dst /\ ds[Len(ds)] \in Dst
  OBVIOUS
<1>2. o \in Nat /\ n \in Int
  BY <1>1, PlaceType
<1>3. RangeCells(ds) = [k \in 1 .. n |-> BundleCell(b, o + k - 1)]
  BY DEF RangeCells
<1> HIDE DEF b, o, n
<1>4. RangeCells(ds) \in [1 .. n -> Cell]
  BY <1>2, <1>3, BundleCellType
<1>5. PICK m \in Nat : 1 .. n = 1 .. m
  <2>1. n \in Nat \/ 1 .. n = 1 .. 0
    BY <1>2
  <2> QED BY <2>1
<1>6. RangeCells(ds) \in [1 .. m -> Cell]
  BY <1>4, <1>5
<1> QED BY <1>6

\* A body has the cells of the range at their places, or cells of no chunk.
LEMMA BodyCells ==
    ASSUME NEW ds \in Seq(Dst), ds # <<>>, NEW body \in Bodies(ds)
    PROVE  body \in Seq(Cell) /\ RightCells(ds[1].id, body)
<1> DEFINE range == RangeCells(ds)
           Right(k) == BundleCell(Bundle[ds[1].id], Offset[ds[1].id] + k - 1)
<1>1. range \in Seq(Cell) /\ \A k \in DOMAIN range : range[k] = Right(k)
  BY RangeType DEF RangeCells
<1>2. NoFrame \in Cell
  BY DEF Cell
<1> HIDE DEF range, Right
<1>3. body \in Seq(Cell) /\ \A k \in DOMAIN body : body[k] \in {NoFrame, Right(k)}
  <2>1. CASE body \in {SubSeq(range, 1, k) : k \in 0 .. Len(range)}
    <3>1. PICK k \in 0 .. Len(range) : body = SubSeq(range, 1, k)
      BY <2>1
    <3>2. body \in Seq(Cell) /\ Len(body) = k /\ \A i \in 1 .. k : body[i] = range[i] /\ i \in DOMAIN range
      BY <3>1, <1>1
    <3> QED BY <3>2, <1>1
  <2>2. CASE body \in {[i \in 1 .. k |-> NoFrame] : k \in {1, Len(range) + 1}}
    <3>1. PICK k \in {1, Len(range) + 1} : body = [i \in 1 .. k |-> NoFrame]
      BY <2>2
    <3>2. k \in Nat
      BY <1>1
    <3>3. body \in [1 .. k -> Cell] /\ \A i \in DOMAIN body : body[i] = NoFrame
      BY <3>1, <1>2
    <3>4. body \in Seq(Cell)
      BY <3>2, <3>3
    <3> QED BY <3>3, <3>4
  <2>3. CASE body = Append(range, NoFrame)
    <3>1. body \in Seq(Cell) /\ Len(body) = Len(range) + 1 /\ body[Len(range) + 1] = NoFrame
          /\ \A i \in 1 .. Len(range) : body[i] = range[i] /\ i \in DOMAIN range
      BY <2>3, <1>1, <1>2
    <3>2. \A i \in DOMAIN body : i \in 1 .. Len(range) \/ i = Len(range) + 1
      BY <3>1, <1>1
    <3> QED BY <3>1, <3>2, <1>1
  <2> QED BY <2>1, <2>2, <2>3 DEF Bodies, range
<1> QED BY <1>3 DEF RightCells, Right

LEMMA WithinRange ==
    ASSUME NEW first \in Nat, NEW here \in Nat, NEW size \in Nat, NEW end \in Nat,
           first <= here, here + size <= end, NEW k \in 1 .. size
    PROVE  /\ here - first + k \in 1 .. end - first
           /\ first + (here - first + k) - 1 = here + k - 1
  OBVIOUS

\* A whole body has every chunk of the range.
LEMMA WholeHasCells ==
    ASSUME NEW ds \in Seq(Dst), ds # <<>>, Run(ds), NEW body \in Seq(Cell),
           Len(body) >= Len(RangeCells(ds)),
           SubSeq(body, 1, Len(RangeCells(ds))) = RangeCells(ds)
    PROVE  HasCells(ds, body)
<1> DEFINE range == RangeCells(ds)
           first == ds[1].id
           last == ds[Len(ds)].id
           n == Offset[last] + Size[last] - Offset[first]
<1>1. 1 \in DOMAIN ds /\ Len(ds) \in DOMAIN ds
  OBVIOUS
<1>2. \A i \in DOMAIN ds : /\ Bundle[ds[i].id] = Bundle[first] /\ ds[i].id \in Chunk
                          /\ Offset[first] <= Offset[ds[i].id]
                          /\ Offset[ds[i].id] + Size[ds[i].id] <= Offset[last] + Size[last]
                          /\ Offset[ds[i].id] \in Nat /\ Size[ds[i].id] \in Nat
  <2> TAKE i \in DOMAIN ds
  <2>1. /\ ds[i] \in Dst /\ ds[1] \in Dst /\ ds[Len(ds)] \in Dst
        /\ i \in Nat /\ i >= 1 /\ i <= Len(ds) /\ Len(ds) \in Nat
    BY <1>1
  <2>2. /\ Bundle[ds[i].id] = Bundle[first] /\ Bundle[ds[i].id] = Bundle[last]
        /\ Offset[first] <= Offset[ds[i].id] /\ Offset[ds[i].id] <= Offset[last]
    <3>1. i = 1 \/ 1 < i
      BY <2>1
    <3>2. i = Len(ds) \/ i < Len(ds)
      BY <2>1
    <3> QED BY <3>1, <3>2, <2>1, <1>1, PlaceType DEF Run
  <2>3. Offset[ds[i].id] + Size[ds[i].id] <= Offset[last] + Size[last]
    <3> DEFINE c == ds[i].id
    <3>1. /\ c \in Chunk /\ last \in Chunk /\ Bundle[c] = Bundle[last]
          /\ Offset[c] \in Nat /\ Offset[last] \in Nat /\ Offset[c] <= Offset[last]
          /\ Size[c] \in Nat \ {0} /\ Size[last] \in Nat \ {0}
      BY <2>1, <2>2, PlaceType
    <3> HIDE DEF c, last
    <3>2. c = last \/ Offset[c] + Size[c] <= Offset[last]
      BY <3>1, BundleAssumption
    <3>3. Offset[c] + Size[c] <= Offset[last] + Size[last]
      BY <3>1, <3>2
    <3> QED BY <3>3 DEF c
  <2> QED BY <2>1, <2>2, <2>3, PlaceType
<1>3. /\ Offset[first] \in Nat /\ n \in Nat
      /\ range = [k \in 1 .. n |-> BundleCell(Bundle[first], Offset[first] + k - 1)]
  <2>1. Offset[first] \in Nat /\ Offset[last] \in Nat /\ Size[last] \in Nat /\ Offset[first] <= Offset[last]
    BY <1>1, <1>2
  <2> QED BY <2>1 DEF RangeCells
<1>4. Len(range) = n
  BY <1>3
<1>5. \A k \in 1 .. n : k \in DOMAIN body /\ body[k] = range[k]
  <2>1. SubSeq(body, 1, n) = range /\ Len(body) >= n /\ Len(body) \in Nat
    BY <1>4
  <2> HIDE DEF range, n
  <2> QED BY <2>1, <1>3
<1> SUFFICES ASSUME NEW i \in DOMAIN ds, NEW k \in 1 .. Size[ds[i].id]
             PROVE  LET at == Offset[ds[i].id] - Offset[first] + k
                    IN  at \in DOMAIN body /\ body[at] = [id |-> ds[i].id, at |-> k]
  BY DEF HasCells
<1> DEFINE c == ds[i].id
           p == Offset[c] - Offset[first] + k
<1>6. p \in 1 .. n /\ Offset[first] + p - 1 = Offset[c] + k - 1
  <2>1. /\ Offset[first] \in Nat /\ Offset[c] \in Nat /\ Size[c] \in Nat
        /\ Offset[first] <= Offset[c] /\ Offset[c] + Size[c] <= Offset[last] + Size[last]
        /\ Offset[last] \in Nat /\ Size[last] \in Nat
    <3>1. Len(ds) \in DOMAIN ds /\ i \in DOMAIN ds
      BY <1>1
    <3> QED BY <3>1, <1>2, <1>3
  <2> HIDE DEF c, first, last
  <2>2. k \in 1 .. Size[c]
    BY DEF c
  <2>3. PICK end \in Nat : end = Offset[last] + Size[last]
    BY <2>1
  <2> DEFINE here == Offset[c]
             start == Offset[first]
             size == Size[c]
  <2>4. /\ start \in Nat /\ here \in Nat /\ size \in Nat
        /\ start <= here /\ here + size <= end /\ k \in 1 .. size
    BY <2>1, <2>2, <2>3
  <2>5. n = end - start /\ p = here - start + k
    BY <2>1, <2>3
  <2> HIDE DEF here, start, size, n, p
  <2>6. p \in 1 .. n /\ start + p - 1 = here + k - 1
    BY ONLY <2>4, <2>5, end \in Nat, WithinRange
  <2> QED BY <2>6 DEF here, start
<1>7. body[p] = BundleCell(Bundle[c], Offset[c] + k - 1)
  <2> HIDE DEF c, p, n
  <2>1. body[p] = BundleCell(Bundle[first], Offset[first] + p - 1)
    BY <1>3, <1>5, <1>6
  <2> QED BY <2>1, <1>2, <1>6 DEF c
<1>8. body[p] = [id |-> c, at |-> k]
  BY <1>2, <1>7, BundleCellOfChunk
<1> QED BY <1>5, <1>6, <1>8

LEMMA OrdersOf ==
    ASSUME NEW s \in Seq(Dst), NEW q \in Orders(s)
    PROVE  /\ q \in Seq(Dst) /\ Range(q) = Range(s) /\ Sorted(q)
           /\ IsInjective(s) => IsInjective(q)
<1>1. PICK f \in Bijection(DOMAIN s, DOMAIN s) : q = [i \in DOMAIN s |-> s[f[i]]]
  BY DEF Orders
<1>2. /\ \A i \in DOMAIN s : f[i] \in DOMAIN s
      /\ \A i, j \in DOMAIN s : f[i] = f[j] => i = j
      /\ \A j \in DOMAIN s : \E i \in DOMAIN s : f[i] = j
  BY DEF Bijection, Injection, Surjection, IsInjective
<1>3. q \in Seq(Dst) /\ DOMAIN q = DOMAIN s /\ \A i \in DOMAIN s : q[i] = s[f[i]]
  <2>1. DOMAIN s = 1 .. Len(s) /\ Len(s) \in Nat /\ \A i \in DOMAIN s : s[i] \in Dst
    OBVIOUS
  <2>2. \A i \in DOMAIN s : s[f[i]] \in Dst
    BY <2>1, <1>2
  <2>3. q \in [DOMAIN s -> Dst]
    BY <1>1, <2>2
  <2> QED BY <1>1, <2>1, <2>3
<1>4. Range(q) = Range(s)
  <2>1. ASSUME NEW i \in DOMAIN q PROVE q[i] \in Range(s)
    <3>1. f[i] \in DOMAIN s /\ q[i] = s[f[i]]
      BY <1>2, <1>3
    <3> QED BY <3>1 DEF Range
  <2>2. ASSUME NEW j \in DOMAIN s PROVE s[j] \in Range(q)
    <3>1. PICK i \in DOMAIN s : f[i] = j
      BY <1>2, <2>2
    <3> QED BY ONLY <1>3, <3>1 DEF Range
  <2> QED BY ONLY <2>1, <2>2 DEF Range
<1>5. Sorted(q)
  BY DEF Orders
<1>6. IsInjective(s) => IsInjective(q)
  <2> SUFFICES ASSUME IsInjective(s), NEW i \in DOMAIN q, NEW j \in DOMAIN q, q[i] = q[j]
               PROVE  i = j
    BY DEF IsInjective
  <2>1. f[i] \in DOMAIN s /\ f[j] \in DOMAIN s /\ s[f[i]] = s[f[j]]
    BY <1>2, <1>3
  <2>2. f[i] = f[j]
    BY <2>1 DEF IsInjective
  <2> QED BY <1>2, <1>3, <2>2
<1> QED BY <1>3, <1>4, <1>5, <1>6

-----------------------------------------------------------------------------
(***************************************************************************)
(* Types                                                                   *)
(***************************************************************************)

\* What a worker has.
Job == [busy : BOOLEAN, chunks : Seq(Dst), buffer : Seq(Cell), body : Seq(Cell),
        stopped : BOOLEAN, whole : BOOLEAN]

LEMMA FreeType == Free \in Job
<1>1. <<>> \in Seq(Dst) /\ <<>> \in Seq(Cell)
  OBVIOUS
<1> QED BY <1>1 DEF Free, Job

\* The worker whose callback runs, and what it looks at.
LEMMA MeType ==
    ASSUME TypeOK, callback # NoWorker
    PROVE  /\ callback \in Worker /\ Me \in Job /\ Me = worker[callback]
           /\ Me.chunks \in Seq(Dst)
           /\ Input \in Seq(Cell) /\ Len(Input) = Len(Me.buffer) + Len(recv)
           /\ Me.chunks # <<>> =>
                /\ Me.chunks[1] \in Dst /\ Front \in Chunk
                /\ Size[Front] \in Nat \ {0} /\ Offset[Front] \in Nat
<1>1. callback \in Worker /\ Me \in Job /\ Me = worker[callback] /\ recv \in Seq(Cell)
  BY DEF TypeOK, Me, Job
<1>2. Me.chunks \in Seq(Dst) /\ Me.buffer \in Seq(Cell)
  BY <1>1 DEF Job
<1>3. Input \in Seq(Cell) /\ Len(Input) = Len(Me.buffer) + Len(recv)
  BY <1>1, <1>2 DEF Input
<1>4. Me.chunks # <<>> => Me.chunks[1] \in Dst
  BY <1>2
<1> QED BY <1>1, <1>2, <1>3, <1>4, PlaceType DEF Front

\* The job of the callback's worker changes, and no other.
LEMMA JobChanges ==
    ASSUME TypeOK, callback # NoWorker, NEW me \in Job,
           worker' = [worker EXCEPT ![callback] = me]
    PROVE  /\ worker' \in [Worker -> Job]
           /\ worker'[callback] = me
           /\ \A w \in Worker : w # callback => worker'[w] = worker[w]
  BY DEF TypeOK, Job

\* What Deliver and StoreInCache leave.
LEMMA DeliverType ==
    ASSUME TypeOK, callback # NoWorker, NEW c \in Chunk, NEW n \in Nat, Deliver(c, n)
    PROVE  delivered' \in [Dst -> Seq(Chunk)]
  BY DEF TypeOK, Deliver

LEMMA StoreType ==
    ASSUME TypeOK, callback # NoWorker, Me.chunks # <<>>, NEW c \in Chunk, StoreInCache(c)
    PROVE  cache' \in UNION {[C -> Chunk] : C \in SUBSET Chunk}
<1>1. Front \in Chunk
  BY MeType
<1>2. PICK C \in SUBSET Chunk : cache \in [C -> Chunk]
  BY DEF TypeOK
<1>3. CASE cache' = cache
  BY <1>3, <1>2
<1>4. CASE cache' # cache
  <2>1. cache' = [x \in C \cup {Front} |-> IF x = Front THEN c ELSE cache[x]]
    BY <1>2, <1>4 DEF StoreInCache
  <2>2. C \cup {Front} \in SUBSET Chunk /\ cache' \in [C \cup {Front} -> Chunk]
    BY <2>1, <1>1, <1>2
  <2> QED BY <2>2
<1> QED BY <1>3, <1>4

\* The job of a worker that has taken n of its chunks.
Taken(me, n) == [me EXCEPT !.chunks = SubSeq(@, n + 1, Len(@)), !.buffer = <<>>]

LEMMA TakenType ==
    ASSUME NEW me \in Job, NEW n \in 0 .. Len(me.chunks)
    PROVE  /\ Taken(me, n) \in Job
           /\ Taken(me, n).chunks = SubSeq(me.chunks, n + 1, Len(me.chunks))
           /\ Taken(me, n).buffer = <<>>
           /\ Taken(me, n).body = me.body /\ Taken(me, n).busy = me.busy
           /\ Taken(me, n).stopped = me.stopped /\ Taken(me, n).whole = me.whole
<1>1. SubSeq(me.chunks, n + 1, Len(me.chunks)) \in Seq(Dst)
  BY Cut DEF Job
<1>2. <<>> \in Seq(Cell)
  OBVIOUS
<1> QED BY <1>1, <1>2 DEF Taken, Job

\* Every element once.
LEMMA ListsOf ==
    ASSUME NEW S, IsFiniteSet(S), NEW s \in Lists(S)
    PROVE  s \in Seq(S) /\ IsInjective(s) /\ Range(s) = S
<1> DEFINE n == Cardinality(S)
<1>1. n \in Nat
  BY FS_CardinalityType
<1>2. s \in [1 .. n -> S] /\ IsInjective(s) /\ \A x \in S : \E i \in 1 .. n : s[i] = x
  BY DEF Lists, Bijection, Injection, Surjection, IsInjective
<1>3. s \in Seq(S)
  BY <1>1, <1>2
<1>4. Range(s) = S
  BY <1>2 DEF Range
<1> QED BY <1>2, <1>3, <1>4

LEMMA TypeInit == Init => TypeOK /\ RoundLeft
<1> SUFFICES ASSUME Init PROVE TypeOK
  BY DEF Init, RoundLeft
<1>1. chunks \in Seq(Dst)
  BY ListsOf, DstAssumption DEF Init
<1>2. worker \in [Worker -> Job]
  BY FreeType DEF Init
<1>3. PICK C \in Cached : cache = [c \in C |-> c]
  BY DEF Init
<1>4. C \in SUBSET Chunk /\ cache \in [C -> Chunk]
  BY <1>3, OptionsAssumption
<1>5. delivered \in [Dst -> Seq(Chunk)]
  BY DEF Init
<1>6. retry \in 0 .. Retry /\ throws \in 0 .. MaxThrows
  BY OptionsAssumption DEF Init
<1>7. <<>> \in Seq(Dst) /\ <<>> \in Seq(Cell)
  OBVIOUS
<1> QED BY <1>1, <1>2, <1>4, <1>5, <1>6, <1>7 DEF Init, TypeOK, Job

LEMMA TypeCallback ==
    ASSUME TypeOK, Callback
    PROVE  TypeOK'
<1>1. callback # NoWorker
  BY DEF Callback, Keep, TooMuch, TakeChunk, BadFrame, TakeThrows
<1>2. /\ callback \in Worker /\ Me \in Job /\ Me.chunks \in Seq(Dst) /\ Input \in Seq(Cell)
      /\ <<>> \in Seq(Cell)
  BY <1>1, MeType
<1>3. ASSUME NEW me \in Job, Returns(me)
      PROVE  worker' \in [Worker -> Job] /\ callback' = NoWorker /\ recv' \in Seq(Cell)
  BY <1>1, <1>2, <1>3, JobChanges DEF Returns
<1>4. ASSUME NEW me \in Job, Stops(me)
      PROVE  worker' \in [Worker -> Job] /\ callback' = NoWorker /\ recv' \in Seq(Cell)
  <2>1. [me EXCEPT !.stopped = TRUE] \in Job
    BY DEF Job
  <2> QED BY <2>1, <1>3, <1>4 DEF Stops
<1>5. CASE Keep
  <2>1. [Me EXCEPT !.buffer = Input] \in Job
    BY <1>2 DEF Job
  <2>2. worker' \in [Worker -> Job] /\ callback' = NoWorker /\ recv' \in Seq(Cell)
    BY <2>1, <1>3, <1>5 DEF Keep
  <2> QED BY <2>2, <1>5 DEF Keep, TypeOK, Job
<1>6. CASE TooMuch
  <2>1. worker' \in [Worker -> Job] /\ callback' = NoWorker /\ recv' \in Seq(Cell)
    BY <1>2, <1>4, <1>6 DEF TooMuch
  <2> QED BY <2>1, <1>6 DEF TooMuch, TypeOK, Job
<1>7. CASE BadFrame
  <2>1. worker' \in [Worker -> Job] /\ callback' = NoWorker /\ recv' \in Seq(Cell)
    BY <1>2, <1>4, <1>7 DEF BadFrame
  <2> QED BY <2>1, <1>7 DEF BadFrame, TypeOK, Job
<1>8. CASE TakeChunk
  <2>1. PICK c \in Chunk, n \in 1 .. Len(Me.chunks) :
          /\ StoreInCache(c) /\ Deliver(c, n)
          /\ LET rest == SubSeq(Input, Size[Front] + 1, Len(Input))
             IN IF rest = <<>>
                THEN Returns(Taken(Me, n))
                ELSE /\ worker' = [worker EXCEPT ![callback] = Taken(Me, n)]
                     /\ recv' = rest
                     /\ UNCHANGED callback
    BY <1>8 DEF TakeChunk, Taken, BufferAfterChunk
  <2> DEFINE rest == SubSeq(Input, Size[Front] + 1, Len(Input))
  <2>2. Taken(Me, n) \in Job /\ n \in Nat
    BY <1>2, TakenType
  <2>3. rest \in Seq(Cell)
    BY <1>1, <1>2, <1>8, MeType, Cut DEF TakeChunk
  <2>4. worker' \in [Worker -> Job] /\ callback' \in Worker \cup {NoWorker} /\ recv' \in Seq(Cell)
    <3>1. CASE rest = <<>>
      BY <3>1, <2>1, <2>2, <1>3
    <3>2. CASE rest # <<>>
      BY <3>2, <2>1, <2>2, <2>3, <1>1, <1>2, JobChanges
    <3> QED BY <3>1, <3>2
  <2>5. delivered' \in [Dst -> Seq(Chunk)] /\ cache' \in UNION {[C -> Chunk] : C \in SUBSET Chunk}
    BY <1>1, <1>8, <2>1, <2>2, DeliverType, StoreType DEF TakeChunk
  <2> QED BY <2>4, <2>5, <1>8 DEF TakeChunk, TypeOK, Job
<1>9. CASE \E n \in 0 .. Cardinality(Dst) : TakeThrows(n)
  <2>1. PICK n \in 0 .. Cardinality(Dst) : TakeThrows(n)
    BY <1>9
  <2>2. n \in 0 .. Len(Me.chunks) /\ n \in Nat
    <3>1. Cardinality(Dst) \in Nat
      BY DstAssumption, FS_CardinalityType
    <3>2. n \in Nat /\ n + 1 <= Len(Me.chunks)
      BY <3>1, <2>1 DEF TakeThrows, Same
    <3> QED BY <3>2, <1>2
  <2>3. [Me EXCEPT !.chunks = SubSeq(@, n + 1, Len(@))] \in Job
    <3>1. SubSeq(Me.chunks, n + 1, Len(Me.chunks)) \in Seq(Dst)
      BY <1>2, <2>2, Cut
    <3> QED BY <3>1, <1>2 DEF Job
  <2>4. worker' \in [Worker -> Job] /\ callback' = NoWorker /\ recv' \in Seq(Cell)
    BY <2>1, <2>3, <1>4 DEF TakeThrows
  <2>5. PICK c \in Chunk : StoreInCache(c) /\ Deliver(c, n)
    BY <2>1 DEF TakeThrows
  <2>6. delivered' \in [Dst -> Seq(Chunk)] /\ cache' \in UNION {[C -> Chunk] : C \in SUBSET Chunk}
    BY <1>1, <2>1, <2>2, <2>5, DeliverType, StoreType DEF TakeThrows
  <2>7. throws' \in 0 .. MaxThrows
    BY <2>1, OptionsAssumption DEF TakeThrows, TypeOK
  <2> QED BY <2>1, <2>4, <2>6, <2>7 DEF TakeThrows, TypeOK, Job
<1> QED BY <1>5, <1>6, <1>7, <1>8, <1>9 DEF Callback

\* The job of a worker that starts a transfer.
Begun(ds, body) ==
    [Free EXCEPT !.busy = TRUE, !.chunks = ds, !.body = body,
                 !.whole = Len(body) >= Len(RangeCells(ds))
                           /\ SubSeq(body, 1, Len(RangeCells(ds))) = RangeCells(ds)]

LEMMA BegunType ==
    ASSUME NEW ds \in Seq(Dst), ds # <<>>, NEW body \in Bodies(ds)
    PROVE  /\ Begun(ds, body) \in Job
           /\ Begun(ds, body).busy = TRUE /\ Begun(ds, body).stopped = FALSE
           /\ Begun(ds, body).chunks = ds /\ Begun(ds, body).body = body
           /\ Begun(ds, body).buffer = <<>>
           /\ Begun(ds, body).whole = (Len(body) >= Len(RangeCells(ds))
                           /\ SubSeq(body, 1, Len(RangeCells(ds))) = RangeCells(ds))
<1>1. body \in Seq(Cell) /\ <<>> \in Seq(Cell)
  BY BodyCells
<1> QED BY <1>1 DEF Begun, Free, Job

LEMMA StartStep ==
    ASSUME TypeOK, NEW w \in Worker, Start(w)
    PROVE  \E n \in 1 .. Len(queue) : \E body \in Bodies(SubSeq(queue, 1, n)) :
              /\ FindChunks(queue, n)
              /\ SubSeq(queue, 1, n) \in Seq(Dst) /\ SubSeq(queue, 1, n) # <<>>
              /\ worker' = [worker EXCEPT ![w] = Begun(SubSeq(queue, 1, n), body)]
              /\ queue' = SubSeq(queue, n + 1, Len(queue))
<1>1. PICK n \in 1 .. Len(queue) :
        /\ FindChunks(queue, n)
        /\ \E body \in Bodies(SubSeq(queue, 1, n)) :
              worker' = [worker EXCEPT ![w] = Begun(SubSeq(queue, 1, n), body)]
        /\ queue' = SubSeq(queue, n + 1, Len(queue))
  BY DEF Start, Begun
<1>2. SubSeq(queue, 1, n) \in Seq(Dst) /\ Len(SubSeq(queue, 1, n)) = n
  BY Cut DEF TypeOK
<1>3. SubSeq(queue, 1, n) # <<>>
  BY <1>2
<1> QED BY <1>1, <1>2, <1>3

LEMMA TypeStep == TypeOK /\ RoundLeft /\ [Next]_vars => TypeOK' /\ RoundLeft'
<1> SUFFICES ASSUME TypeOK, RoundLeft, [Next]_vars PROVE TypeOK' /\ RoundLeft'
  OBVIOUS
<1>1. CASE FromCache
  <2>1. chunks' \in Seq(Dst)
    <3> DEFINE S == {d \in Range(chunks) : d.id \notin DOMAIN cache}
    <3>1. S \subseteq Dst
      BY DEF TypeOK, Range
    <3>2. IsFiniteSet(S)
      BY <3>1, DstAssumption, FS_Subset
    <3>3. chunks' \in Lists(S)
      BY <1>1 DEF FromCache
    <3> HIDE DEF S
    <3>4. chunks' \in Seq(S)
      BY <3>2, <3>3, ListsOf
    <3> QED BY <3>1, <3>4
  <2>2. delivered' \in [Dst -> Seq(Chunk)]
    <3>1. PICK C \in SUBSET Chunk : cache \in [C -> Chunk]
      BY DEF TypeOK
    <3>2. <<>> \in Seq(Chunk) /\ \A x \in DOMAIN cache : <<cache[x]>> \in Seq(Chunk)
      BY <3>1
    <3> QED BY <3>2, <1>1 DEF FromCache
  <2> QED BY <2>1, <2>2, <1>1 DEF FromCache, TypeOK, RoundLeft
<1>2. CASE BeginRound
  <2>1. chunks' \in Seq(Dst) /\ <<>> \in Seq(Dst)
    BY <1>2, OrdersOf DEF BeginRound, TypeOK
  <2> QED BY <2>1, <1>2 DEF BeginRound, TypeOK, RoundLeft
<1>3. CASE \E w \in Worker : Transfer(w)
  <2>1. PICK w \in Worker : Transfer(w)
    BY <1>3
  <2>2. worker \in [Worker -> Job]
    BY DEF TypeOK, Job
  <2>3. CASE Start(w)
    <3>1. PICK n \in 1 .. Len(queue) : \E body \in Bodies(SubSeq(queue, 1, n)) :
              /\ SubSeq(queue, 1, n) \in Seq(Dst) /\ SubSeq(queue, 1, n) # <<>>
              /\ worker' = [worker EXCEPT ![w] = Begun(SubSeq(queue, 1, n), body)]
              /\ queue' = SubSeq(queue, n + 1, Len(queue))
      BY <2>3, StartStep
    <3>2. queue' \in Seq(Dst)
      BY <3>1, Cut DEF TypeOK
    <3>3. worker' \in [Worker -> Job]
      BY <3>1, <2>2, BegunType
    <3> QED BY <3>2, <3>3, <2>3 DEF Start, TypeOK, Job, RoundLeft
  <2>4. CASE \E n \in 1 .. Len(worker[w].body) : RecvData(w, n)
    <3>1. PICK n \in 1 .. Len(worker[w].body) : RecvData(w, n)
      BY <2>4
    <3>2. worker[w] \in Job /\ worker[w].body \in Seq(Cell)
      BY <2>2 DEF Job
    <3>3. recv' \in Seq(Cell) /\ SubSeq(worker[w].body, n + 1, Len(worker[w].body)) \in Seq(Cell)
      BY <3>1, <3>2, Cut DEF RecvData
    <3>4. worker' \in [Worker -> Job]
      BY <3>1, <3>2, <3>3, <2>2 DEF RecvData, Job
    <3> QED BY <3>1, <3>3, <3>4 DEF RecvData, TypeOK, Job, RoundLeft
  <2>5. CASE Done(w)
    <3>1. worker[w].chunks \in Seq(Dst)
      BY <2>2 DEF Job
    <3>2. failed' \in Seq(Dst)
      BY <2>5, <3>1, Joined DEF Done, TypeOK
    <3>3. worker' \in [Worker -> Job]
      BY <2>5, <2>2, FreeType DEF Done
    <3> QED BY <3>2, <3>3, <2>5 DEF Done, TypeOK, Job, RoundLeft
  <2> QED BY <2>1, <2>3, <2>4, <2>5 DEF Transfer
<1>4. CASE Callback
  <2>1. phase' = phase /\ retry' = retry
    BY <1>4 DEF Callback, Keep, TooMuch, TakeChunk, BadFrame, TakeThrows
  <2> QED BY <2>1, <1>4, TypeCallback DEF RoundLeft
<1>5. CASE EndRound
  <2>1. retry' \in 0 .. Retry
    BY <1>5, OptionsAssumption DEF EndRound, TypeOK, RoundLeft
  <2> QED BY <2>1, <1>5 DEF EndRound, TypeOK, RoundLeft
<1>6. CASE Return
  BY <1>6 DEF Return, TypeOK, RoundLeft
<1>7. CASE UNCHANGED vars
  BY <1>7 DEF vars, TypeOK, RoundLeft
<1> QED BY <1>1, <1>2, <1>3, <1>4, <1>5, <1>6, <1>7 DEF Next

-----------------------------------------------------------------------------
(***************************************************************************)
(* Who holds a place                                                       *)
(***************************************************************************)

\* The callback takes the first n of its places and delivers them; n may be 0.
LEMMA TakenPlaces ==
    ASSUME TypeOK, Shared, DeliveredRight, callback # NoWorker,
           NEW n \in 0 .. Len(Me.chunks), NEW c \in Chunk, Deliver(c, n),
           NEW me \in Job, worker' = [worker EXCEPT ![callback] = me],
           me.chunks = SubSeq(Me.chunks, n + 1, Len(Me.chunks)),
           UNCHANGED <<phase, queue, failed>>
    PROVE  /\ RoundOfWanted' /\ phase = "round"
           /\ \A d \in Dst : \/ delivered'[d] = delivered[d]
                             \/ /\ delivered'[d] = <<c>>
                                /\ \E i \in 1 .. n : Me.chunks[i] = d
           /\ \A d \in Dst : (\E i \in 1 .. n : Me.chunks[i] = d) => delivered[d] = <<>>
<1> DEFINE first == {Me.chunks[i] : i \in 1 .. n}
<1>1. /\ callback \in Worker /\ Me = worker[callback] /\ Me.chunks \in Seq(Dst)
      /\ worker'[callback] = me /\ \A w \in Worker : w # callback => worker'[w] = worker[w]
  BY MeType, JobChanges
<1>2. phase = "round" /\ RoundOfWanted
  BY DEF Shared, Idle
<1>3. IsInjective(Me.chunks) /\ Range(Me.chunks) = HeldBy(callback)
  BY <1>1, <1>2 DEF RoundOfWanted, HeldBy
<1>4. /\ IsInjective(me.chunks)
      /\ first \cap Range(me.chunks) = {}
      /\ HeldBy(callback) = first \cup Range(me.chunks)
  <2>1. n \in 0 .. Len(Me.chunks) /\ Me.chunks \in Seq(Dst) /\ IsInjective(Me.chunks)
    BY <1>1, <1>3
  <2> DEFINE a == SubSeq(Me.chunks, 1, n)
             b == SubSeq(Me.chunks, n + 1, Len(Me.chunks))
  <2>2. /\ IsInjective(b) /\ Range(a) = first /\ Range(a) \cap Range(b) = {}
        /\ Range(Me.chunks) = Range(a) \cup Range(b)
    <3> HIDE DEF first
    <3> QED BY ONLY <2>1, CutInTwo DEF first
  <2> HIDE DEF a, first
  <2> QED BY <2>2, <1>3
<1> HIDE DEF first
<1>5. first \subseteq Wanted /\ \A d \in Dst : d \in first <=> \E i \in 1 .. n : Me.chunks[i] = d
  <2>1. HeldBy(callback) \subseteq Wanted
    BY <1>1, <1>2 DEF RoundOfWanted
  <2> QED BY <2>1, <1>4 DEF first
<1>6. \A d \in Dst : IF d \in first THEN delivered[d] = <<>> /\ delivered'[d] = <<c>>
                                   ELSE delivered'[d] = delivered[d]
  <2> TAKE d \in Dst
  <2>1. delivered'[d] = IF d \in first THEN Append(delivered[d], c) ELSE delivered[d]
    BY <1>5 DEF Deliver
  <2>2. CASE d \in first
    <3>1. delivered[d] = <<>>
      BY <2>2, <1>5 DEF Wanted
    <3>2. Append(<<>>, c) = <<c>>
      OBVIOUS
    <3> QED BY <2>1, <2>2, <3>1, <3>2
  <2> QED BY <2>1, <2>2
<1>7. Wanted' = Wanted \ first
  <2>1. \A d \in Dst : d \in Wanted' <=> d \in Wanted /\ d \notin first
    <3>1. <<c>> # <<>>
      OBVIOUS
    <3> QED BY <1>6, <3>1 DEF Wanted
  <2>2. Wanted \subseteq Dst /\ Wanted' \subseteq Dst
    BY DEF Wanted
  <2> QED BY <2>1, <2>2
<1>8. \A w \in Worker : HeldBy(w)' = IF w = callback THEN HeldBy(w) \ first ELSE HeldBy(w)
  <2> TAKE w \in Worker
  <2>1. CASE w = callback
    <3>1. HeldBy(w)' = Range(me.chunks)
      BY <1>1, <2>1 DEF HeldBy
    <3> QED BY <2>1, <3>1, <1>4
  <2>2. CASE w # callback
    BY <2>2, <1>1 DEF HeldBy
  <2> QED BY <2>1, <2>2
<1>9. RoundOfWanted'
  <2>1. \A w \in Worker : HeldBy(w)' \subseteq HeldBy(w)
    BY <1>8
  <2>2. /\ IsInjective(queue') /\ IsInjective(failed')
        /\ Range(queue') \cap Range(failed') = {}
        /\ \A w \in Worker : /\ IsInjective(worker'[w].chunks)
                             /\ HeldBy(w)' \cap (Range(queue') \cup Range(failed')) = {}
        /\ \A v, w \in Worker : v # w => HeldBy(v)' \cap HeldBy(w)' = {}
    <3>1. \A w \in Worker : IsInjective(worker'[w].chunks)
      <4> TAKE w \in Worker
      <4>1. IsInjective(worker[w].chunks)
        BY <1>2 DEF RoundOfWanted
      <4> QED BY <4>1, <1>1, <1>4
    <3>2. queue' = queue /\ failed' = failed
      OBVIOUS
    <3> QED BY <1>2, <2>1, <3>1, <3>2 DEF RoundOfWanted
  <2>3. Wanted' = Range(queue') \cup Range(failed') \cup UNION {HeldBy(w)' : w \in Worker}
    <3>1. \A v \in Worker : v # callback => HeldBy(v) \cap first = {}
      <4>1. \A v \in Worker : v # callback => HeldBy(v) \cap HeldBy(callback) = {}
        BY <1>1, <1>2 DEF RoundOfWanted
      <4> QED BY <4>1, <1>4
    <3>2. (Range(queue) \cup Range(failed)) \cap first = {}
      BY <1>1, <1>2, <1>4 DEF RoundOfWanted
    <3>3. \A w \in Worker : HeldBy(w)' = HeldBy(w) \ first
      BY <1>8, <3>1
    <3>4. Wanted = Range(queue) \cup Range(failed) \cup UNION {HeldBy(w) : w \in Worker}
      BY <1>2 DEF RoundOfWanted
    <3>5. UNION {HeldBy(w)' : w \in Worker} = (UNION {HeldBy(w) : w \in Worker}) \ first
      BY ONLY <3>3
    <3> QED BY <1>7, <3>2, <3>4, <3>5
  <2> QED BY <2>2, <2>3 DEF RoundOfWanted
<1> QED BY <1>2, <1>5, <1>6, <1>9

\* The front of the stream of the callback's worker is what decompress gets; a
\* frame there is the chunk that was asked for.
LEMMA StreamOfMe ==
    ASSUME TypeOK, callback # NoWorker
    PROVE  /\ Me.body \in Seq(Cell) /\ Stream(callback) = Input \o Me.body
           /\ \A k \in 1 .. Len(Input) : k \in DOMAIN Stream(callback) /\ Stream(callback)[k] = Input[k]
<1>1. callback \in Worker /\ Me \in Job /\ Me = worker[callback] /\ Input \in Seq(Cell)
  BY MeType
<1>2. Me.body \in Seq(Cell)
  BY <1>1 DEF Job
<1>3. Stream(callback) = Input \o Me.body
  BY <1>1 DEF Stream, Input
<1>4. /\ Len(Input \o Me.body) = Len(Input) + Len(Me.body) /\ Input \o Me.body \in Seq(Cell)
      /\ \A i \in 1 .. Len(Input) : (Input \o Me.body)[i] = Input[i]
  BY <1>1, <1>2, Joined
<1>5. Len(Input) \in Nat /\ Len(Me.body) \in Nat /\ DOMAIN Stream(callback) = 1 .. Len(Input) + Len(Me.body)
  BY <1>1, <1>2, <1>3, <1>4
<1> QED BY <1>2, <1>3, <1>4, <1>5

LEMMA DecodesFront ==
    ASSUME TypeOK, Shared, Data, callback # NoWorker, Me.chunks # <<>>,
           Len(Input) >= Size[Front], NEW c \in Chunk, Decodes(c)
    PROVE  c = Front
<1>1. /\ callback \in Worker /\ Me = worker[callback] /\ Me.busy /\ ~Me.stopped
      /\ Front \in Chunk /\ Size[Front] \in Nat \ {0} /\ Offset[Front] \in Nat /\ Input \in Seq(Cell)
  BY MeType DEF Shared, CallbackOfBusy
<1>2. 1 \in 1 .. Len(Input) /\ 1 \in 1 .. Size[Front] /\ 1 \in 1 .. Size[c]
  BY <1>1 DEF Decodes
<1>3. FrontCells[1] = Input[1] /\ FrontCells[1] = [id |-> c, at |-> 1]
  <2>1. FrontCells[1] = Input[1]
    BY <1>1, <1>2 DEF FrontCells
  <2>2. Frame(c)[1] = [id |-> c, at |-> 1]
    BY <1>2 DEF Frame
  <2> QED BY <2>1, <2>2 DEF Decodes
<1>4. Input[1] \in {NoFrame, BundleCell(Bundle[Front], Offset[Front] + 1 - 1)}
  <2>1. RightCells(Front, Stream(callback))
    BY <1>1 DEF Data, InStep, StreamRight, Front
  <2>2. 1 \in DOMAIN Stream(callback) /\ Stream(callback)[1] = Input[1]
    BY <1>2, StreamOfMe
  <2> QED BY <2>1, <2>2 DEF RightCells
<1>5. BundleCell(Bundle[Front], Offset[Front] + 1 - 1) = [id |-> Front, at |-> 1]
  BY <1>1, <1>2, BundleCellOfChunk
<1>6. [id |-> c, at |-> 1] \in [id : Chunk, at : Nat]
  OBVIOUS
<1>7. [id |-> c, at |-> 1] = [id |-> Front, at |-> 1]
  BY <1>3, <1>4, <1>5, <1>6, NoFrameAssumption
<1> QED BY <1>7

\* A step that leaves every list as it is.
LEMMA SamePlaces ==
    ASSUME RoundOfWanted, \A w \in Worker : worker'[w].chunks = worker[w].chunks,
           UNCHANGED <<phase, queue, failed, delivered>>
    PROVE  RoundOfWanted'
<1>1. \A w \in Worker : HeldBy(w)' = HeldBy(w)
  BY DEF HeldBy
<1>2. Wanted' = Wanted
  BY DEF Wanted
<1>3. UNION {HeldBy(w)' : w \in Worker} = UNION {HeldBy(w) : w \in Worker}
  BY <1>1
<1> QED BY <1>1, <1>2, <1>3 DEF RoundOfWanted

\* What a step of a callback does to its worker.
LEMMA CallbackJob ==
    ASSUME TypeOK, Callback
    PROVE  \E me \in Job :
             /\ worker' = [worker EXCEPT ![callback] = me]
             /\ me.busy = Me.busy /\ me.body = Me.body /\ me.whole = Me.whole
             /\ (callback' = NoWorker /\ recv' = <<>>)
                \/ (callback' = callback /\ me.stopped = Me.stopped)
             /\ UNCHANGED <<phase, chunks, retry, queue, failed>>
             /\ \/ /\ me.chunks = Me.chunks
                   /\ UNCHANGED <<delivered, cache, throws>>
                \/ /\ Me.chunks # <<>> /\ Len(Input) >= Size[Front]
                   /\ \E c \in Chunk, n \in 0 .. Len(Me.chunks) :
                        /\ me.chunks = SubSeq(Me.chunks, n + 1, Len(Me.chunks))
                        /\ Decodes(c) /\ StoreInCache(c) /\ Deliver(c, n)
                        /\ \A i \in 1 .. n : Me.chunks[i].id = Front
<1>1. callback # NoWorker
  BY DEF Callback, Keep, TooMuch, TakeChunk, BadFrame, TakeThrows
<1>2. callback \in Worker /\ Me \in Job /\ Me.chunks \in Seq(Dst) /\ Input \in Seq(Cell)
  BY <1>1, MeType
<1> DEFINE Leaves(me) ==
             /\ worker' = [worker EXCEPT ![callback] = me]
             /\ me.busy = Me.busy /\ me.body = Me.body /\ me.whole = Me.whole
             /\ (callback' = NoWorker /\ recv' = <<>>)
                \/ (callback' = callback /\ me.stopped = Me.stopped)
             /\ UNCHANGED <<phase, chunks, retry, queue, failed>>
           Takes(me) ==
             /\ Me.chunks # <<>> /\ Len(Input) >= Size[Front]
             /\ \E c \in Chunk, n \in 0 .. Len(Me.chunks) :
                    /\ me.chunks = SubSeq(Me.chunks, n + 1, Len(Me.chunks))
                    /\ Decodes(c) /\ StoreInCache(c) /\ Deliver(c, n)
                    /\ \A i \in 1 .. n : Me.chunks[i].id = Front
<1>3. CASE Keep
  <2> DEFINE me == [Me EXCEPT !.buffer = Input]
  <2>1. me \in Job /\ me.chunks = Me.chunks
    BY <1>2 DEF Job
  <2>2. Leaves(me)
    BY <1>2, <1>3 DEF Keep, Returns, Job
  <2> QED BY <2>1, <2>2, <1>3 DEF Keep
<1>4. CASE TooMuch \/ BadFrame
  <2> DEFINE me == [Me EXCEPT !.stopped = TRUE]
  <2>1. me \in Job /\ me.chunks = Me.chunks
    BY <1>2 DEF Job
  <2>2. Leaves(me)
    BY <1>2, <1>4 DEF TooMuch, BadFrame, Stops, Returns, Job
  <2> QED BY <2>1, <2>2, <1>4 DEF TooMuch, BadFrame
<1>5. CASE TakeChunk
  <2>1. PICK c \in Chunk, n \in 1 .. Len(Me.chunks) :
          /\ Decodes(c) /\ Same(n)
          /\ StoreInCache(c) /\ Deliver(c, n)
          /\ LET rest == SubSeq(Input, Size[Front] + 1, Len(Input))
             IN IF rest = <<>>
                THEN Returns(Taken(Me, n))
                ELSE /\ worker' = [worker EXCEPT ![callback] = Taken(Me, n)]
                     /\ recv' = rest
                     /\ UNCHANGED callback
    BY <1>5 DEF TakeChunk, Taken, BufferAfterChunk
  <2> DEFINE me == Taken(Me, n)
  <2>2. n \in 0 .. Len(Me.chunks)
    BY <1>2
  <2>3. /\ me \in Job /\ me.chunks = SubSeq(Me.chunks, n + 1, Len(Me.chunks))
        /\ me.busy = Me.busy /\ me.body = Me.body /\ me.whole = Me.whole /\ me.stopped = Me.stopped
    BY <1>2, <2>2, TakenType
  <2> HIDE DEF me
  <2>4. Leaves(me)
    BY <2>1, <2>3, <1>5 DEF Returns, TakeChunk, me
  <2>5. Takes(me)
    BY <2>1, <2>2, <2>3, <1>5 DEF TakeChunk, Same
  <2> QED BY <2>3, <2>4, <2>5
<1>6. CASE \E n \in 0 .. Cardinality(Dst) : TakeThrows(n)
  <2>1. PICK n \in 0 .. Cardinality(Dst) : TakeThrows(n)
    BY <1>6
  <2>2. n \in 0 .. Len(Me.chunks) /\ n \in Nat /\ \A i \in 1 .. n : Me.chunks[i].id = Front
    <3>1. Cardinality(Dst) \in Nat
      BY DstAssumption, FS_CardinalityType
    <3>2. n \in Nat /\ n + 1 <= Len(Me.chunks) /\ \A i \in 1 .. n + 1 : Me.chunks[i].id = Front
      BY <3>1, <2>1 DEF TakeThrows, Same
    <3> QED BY <3>2, <1>2
  <2> DEFINE ds == SubSeq(Me.chunks, n + 1, Len(Me.chunks))
             me == [[Me EXCEPT !.chunks = SubSeq(@, n + 1, Len(@))] EXCEPT !.stopped = TRUE]
  <2>3. ds \in Seq(Dst)
    BY <1>2, <2>2, Cut
  <2>4. me \in Job /\ me.chunks = ds /\ me.busy = Me.busy /\ me.body = Me.body /\ me.whole = Me.whole
    BY <1>2, <2>3 DEF Job
  <2>5. worker' = [worker EXCEPT ![callback] = me] /\ callback' = NoWorker /\ recv' = <<>>
        /\ UNCHANGED <<phase, chunks, retry, queue, failed>>
    BY <2>1 DEF TakeThrows, Stops, Returns
  <2> HIDE DEF me
  <2>6. Takes(me)
    BY <2>1, <2>2, <2>4 DEF TakeThrows
  <2> QED BY <2>4, <2>5, <2>6
<1> QED BY <1>3, <1>4, <1>5, <1>6 DEF Callback

LEMMA SharedCallback ==
    ASSUME TypeOK, Shared, Data, Callback
    PROVE  Shared' /\ NothingBefore' /\ DeliveredRight'
<1>1. callback # NoWorker
  BY DEF Callback, Keep, TooMuch, TakeChunk, BadFrame, TakeThrows
<1>2. callback \in Worker /\ Me \in Job /\ Me.chunks \in Seq(Dst) /\ Me = worker[callback]
  BY <1>1, MeType
<1>3. phase = "round" /\ Me.busy /\ ~Me.stopped
  BY <1>1, <1>2 DEF Shared, Idle, CallbackOfBusy
<1>4. PICK me \in Job :
             /\ worker' = [worker EXCEPT ![callback] = me]
             /\ me.busy = Me.busy
             /\ (callback' = NoWorker /\ recv' = <<>>) \/ (callback' = callback /\ me.stopped = Me.stopped)
             /\ UNCHANGED <<phase, chunks, retry, queue, failed>>
             /\ \/ me.chunks = Me.chunks /\ UNCHANGED <<delivered, cache>>
                \/ \E c \in Chunk, n \in 0 .. Len(Me.chunks) :
                        /\ me.chunks = SubSeq(Me.chunks, n + 1, Len(Me.chunks))
                        /\ Decodes(c) /\ Deliver(c, n) /\ Me.chunks # <<>>
                        /\ \A i \in 1 .. n : Me.chunks[i].id = Front
                        /\ Len(Input) >= Size[Front]
  BY CallbackJob
<1>5. /\ worker'[callback] = me
      /\ \A w \in Worker : w # callback => worker'[w] = worker[w]
  BY <1>1, <1>4, JobChanges
<1>6. Idle' /\ FreeHoldsNothing' /\ ListOfWanted' /\ NothingBefore'
  BY <1>2, <1>3, <1>4, <1>5 DEF Shared, Idle, FreeHoldsNothing, ListOfWanted, NothingBefore
<1>7. CallbackOfBusy'
  BY <1>1, <1>2, <1>3, <1>4, <1>5 DEF CallbackOfBusy
<1>8. RoundOfWanted' /\ DeliveredRight'
  <2>1. CASE me.chunks = Me.chunks /\ UNCHANGED <<delivered, cache>>
    <3>1. \A w \in Worker : worker'[w].chunks = worker[w].chunks
      BY <1>2, <1>5, <2>1
    <3> QED BY <3>1, <2>1, <1>4, SamePlaces DEF Shared, Data, DeliveredRight
  <2>2. CASE \E c \in Chunk, n \in 0 .. Len(Me.chunks) :
                        /\ me.chunks = SubSeq(Me.chunks, n + 1, Len(Me.chunks))
                        /\ Decodes(c) /\ Deliver(c, n) /\ Me.chunks # <<>>
                        /\ \A i \in 1 .. n : Me.chunks[i].id = Front
                        /\ Len(Input) >= Size[Front]
    <3>1. PICK c \in Chunk, n \in 0 .. Len(Me.chunks) :
                        /\ me.chunks = SubSeq(Me.chunks, n + 1, Len(Me.chunks))
                        /\ Decodes(c) /\ Deliver(c, n) /\ Me.chunks # <<>>
                        /\ \A i \in 1 .. n : Me.chunks[i].id = Front
                        /\ Len(Input) >= Size[Front]
      BY <2>2
    <3>2. /\ RoundOfWanted'
          /\ \A d \in Dst : \/ delivered'[d] = delivered[d]
                            \/ /\ delivered'[d] = <<c>>
                               /\ \E i \in 1 .. n : Me.chunks[i] = d
      BY <1>1, <1>4, <3>1, TakenPlaces DEF Data
    <3>3. c = Front
      BY <1>1, <3>1, DecodesFront
    <3>4. DeliveredRight'
      BY <3>1, <3>2, <3>3 DEF Data, DeliveredRight
    <3> QED BY <3>2, <3>4
  <2> QED BY <1>4, <2>1, <2>2
<1> QED BY <1>6, <1>7, <1>8 DEF Shared

LEMMA SharedInit == Init => Shared /\ NothingBefore /\ DeliveredRight /\ CacheRight
<1> SUFFICES ASSUME Init PROVE Shared /\ NothingBefore /\ DeliveredRight /\ CacheRight
  OBVIOUS
<1>1. IsInjective(chunks) /\ Range(chunks) = Dst
  BY ListsOf, DstAssumption DEF Init
<1>2. Wanted = Dst
  BY DEF Wanted, Init
<1>3. Idle /\ FreeHoldsNothing /\ CallbackOfBusy
  BY DEF Init, Idle, FreeHoldsNothing, CallbackOfBusy
<1>4. ListOfWanted /\ RoundOfWanted
  BY <1>1, <1>2 DEF Init, ListOfWanted, RoundOfWanted
<1>5. NothingBefore /\ DeliveredRight
  BY DEF Init, NothingBefore, DeliveredRight
<1>6. CacheRight
  BY DEF Init, CacheRight
<1> QED BY <1>3, <1>4, <1>5, <1>6 DEF Shared

LEMMA NoPlace == Range(Free.chunks) = {} /\ IsInjective(Free.chunks) /\ Range(<<>>) = {} /\ IsInjective(<<>>)
<1>1. Free.chunks = <<>> /\ DOMAIN <<>> = {}
  BY DEF Free
<1> QED BY <1>1 DEF Range, IsInjective

LEMMA SharedFromCache ==
    ASSUME TypeOK, Shared, NothingBefore, CacheRight, FromCache
    PROVE  Shared' /\ NothingBefore' /\ DeliveredRight'
<1> DEFINE S == {d \in Range(chunks) : d.id \notin DOMAIN cache}
<1>1. Wanted = Dst /\ Range(chunks) = Wanted
  BY DEF NothingBefore, Wanted, FromCache, Shared, ListOfWanted
<1>2. IsFiniteSet(S)
  BY <1>1, DstAssumption, FS_Subset
<1>3. IsInjective(chunks') /\ Range(chunks') = S
  <2>1. chunks' \in Lists(S)
    BY DEF FromCache
  <2> HIDE DEF S
  <2> QED BY <1>2, <2>1, ListsOf
<1>4. \A d \in Dst : delivered'[d] = IF d.id \in DOMAIN cache THEN <<d.id>> ELSE <<>>
  BY DEF FromCache, CacheRight
<1>5. Wanted' = S
  <2>1. \A d \in Dst : delivered'[d] = <<>> <=> d.id \notin DOMAIN cache
    <3>1. \A d \in Dst : <<d.id>> # <<>>
      OBVIOUS
    <3> QED BY <1>4, <3>1
  <2> QED BY <2>1, <1>1 DEF Wanted
<1>6. Idle' /\ FreeHoldsNothing' /\ CallbackOfBusy' /\ NothingBefore'
  BY DEF FromCache, Shared, Idle, FreeHoldsNothing, CallbackOfBusy, NothingBefore
<1>7. ListOfWanted' /\ RoundOfWanted'
  BY <1>3, <1>5 DEF ListOfWanted, RoundOfWanted, FromCache
<1>8. DeliveredRight'
  BY <1>4 DEF DeliveredRight
<1> QED BY <1>6, <1>7, <1>8 DEF Shared

LEMMA SharedBeginRound ==
    ASSUME TypeOK, Shared, BeginRound
    PROVE  Shared'
<1>1. IsInjective(chunks) /\ Range(chunks) = Wanted /\ chunks \in Seq(Dst)
  BY DEF Shared, ListOfWanted, BeginRound, TypeOK
<1>2. IsInjective(chunks') /\ Range(chunks') = Wanted /\ queue' = chunks'
  BY <1>1, OrdersOf DEF BeginRound
<1>3. Wanted' = Wanted
  BY DEF Wanted, BeginRound
<1>4. \A w \in Worker : worker'[w] = Free /\ HeldBy(w)' = {} /\ IsInjective(worker'[w].chunks)
  BY NoPlace DEF BeginRound, Shared, Idle, HeldBy
<1>5. Idle' /\ FreeHoldsNothing' /\ CallbackOfBusy' /\ ListOfWanted'
  BY DEF BeginRound, Shared, Idle, FreeHoldsNothing, CallbackOfBusy, ListOfWanted
<1>6. RoundOfWanted'
  <2>1. failed' = <<>>
    BY DEF BeginRound
  <2>2. UNION {HeldBy(w)' : w \in Worker} = {}
    BY <1>4
  <2> QED BY <1>2, <1>3, <1>4, <2>1, <2>2, NoPlace DEF RoundOfWanted
<1> QED BY <1>5, <1>6 DEF Shared

LEMMA SharedEndRound ==
    ASSUME TypeOK, Shared, EndRound
    PROVE  Shared'
<1>1. \A w \in Worker : worker[w] = Free /\ HeldBy(w) = {}
  BY NoPlace DEF EndRound, Busy, Shared, FreeHoldsNothing, HeldBy
<1>2. callback = NoWorker /\ recv = <<>>
  BY <1>1 DEF EndRound, Busy, Shared, CallbackOfBusy, TypeOK
<1>3. IsInjective(failed) /\ Wanted = Range(failed)
  <2>1. UNION {HeldBy(w) : w \in Worker} = {}
    BY <1>1
  <2> QED BY <2>1, NoPlace DEF EndRound, Shared, RoundOfWanted
<1>4. Wanted' = Wanted
  BY DEF Wanted, EndRound
<1>5. Idle' /\ FreeHoldsNothing' /\ CallbackOfBusy'
  BY <1>1, <1>2 DEF EndRound, Idle, FreeHoldsNothing, CallbackOfBusy
<1>6. ListOfWanted' /\ RoundOfWanted'
  BY <1>3, <1>4 DEF EndRound, ListOfWanted, RoundOfWanted
<1> QED BY <1>5, <1>6 DEF Shared

LEMMA SharedStart ==
    ASSUME TypeOK, Shared, NEW w \in Worker, Start(w)
    PROVE  Shared'
<1>0. PICK n \in 1 .. Len(queue) : \E body \in Bodies(SubSeq(queue, 1, n)) :
        /\ SubSeq(queue, 1, n) \in Seq(Dst) /\ SubSeq(queue, 1, n) # <<>>
        /\ worker' = [worker EXCEPT ![w] = Begun(SubSeq(queue, 1, n), body)]
        /\ queue' = SubSeq(queue, n + 1, Len(queue))
  BY StartStep
<1> DEFINE ds == SubSeq(queue, 1, n)
<1>1. PICK body \in Bodies(ds) :
        /\ ds \in Seq(Dst) /\ ds # <<>>
        /\ worker' = [worker EXCEPT ![w] = Begun(ds, body)]
        /\ queue' = SubSeq(queue, n + 1, Len(queue))
  BY <1>0
<1>2. RoundOfWanted /\ phase = "round" /\ queue \in Seq(Dst) /\ callback = NoWorker /\ ~worker[w].busy
  BY DEF Shared, Start, TypeOK
<1>3. /\ IsInjective(ds) /\ IsInjective(queue') /\ Range(ds) \cap Range(queue') = {}
      /\ Range(queue) = Range(ds) \cup Range(queue')
  <2>1. n \in 0 .. Len(queue) /\ IsInjective(queue) /\ queue \in Seq(Dst)
    BY <1>2 DEF RoundOfWanted
  <2>2. queue' = SubSeq(queue, n + 1, Len(queue))
    BY <1>1
  <2> QED BY ONLY <2>1, <2>2, CutInTwo
<1>4. /\ worker'[w].chunks = ds /\ worker'[w].busy
      /\ \A v \in Worker : v # w => worker'[v] = worker[v]
  <2>1. Begun(ds, body).chunks = ds /\ Begun(ds, body).busy = TRUE
    BY <1>1, BegunType
  <2> QED BY <1>1, <2>1 DEF TypeOK
<1> HIDE DEF ds
<1>5. /\ HeldBy(w) = {} /\ HeldBy(w)' = Range(ds)
      /\ \A v \in Worker : v # w => HeldBy(v)' = HeldBy(v)
  <2>1. worker[w] = Free
    BY <1>2 DEF Shared, FreeHoldsNothing
  <2> QED BY <2>1, <1>4, NoPlace DEF HeldBy
<1>6. UNCHANGED <<phase, chunks, failed, callback, recv, delivered>>
  BY DEF Start
<1>7. Wanted' = Wanted
  BY <1>6 DEF Wanted
<1>8. Idle' /\ FreeHoldsNothing' /\ CallbackOfBusy' /\ ListOfWanted'
  BY <1>2, <1>4, <1>6 DEF Shared, Idle, FreeHoldsNothing, CallbackOfBusy, ListOfWanted
<1>9. RoundOfWanted'
  <2>1. \A v \in Worker : IsInjective(worker'[v].chunks)
    BY <1>2, <1>3, <1>4 DEF RoundOfWanted
  <2>2. \A v \in Worker : HeldBy(v)' \cap (Range(queue') \cup Range(failed')) = {}
    <3> TAKE v \in Worker
    <3>1. CASE v = w
      BY <3>1, <1>2, <1>3, <1>5, <1>6 DEF RoundOfWanted
    <3>2. CASE v # w
      BY <3>2, <1>2, <1>3, <1>5, <1>6 DEF RoundOfWanted
    <3> QED BY <3>1, <3>2
  <2>3. \A u, v \in Worker : u # v => HeldBy(u)' \cap HeldBy(v)' = {}
    <3> SUFFICES ASSUME NEW u \in Worker, NEW v \in Worker, u # v
                 PROVE  HeldBy(u)' \cap HeldBy(v)' = {}
      OBVIOUS
    <3>1. HeldBy(u) \cap Range(queue) = {} /\ HeldBy(v) \cap Range(queue) = {} /\ HeldBy(u) \cap HeldBy(v) = {}
      BY <1>2 DEF RoundOfWanted
    <3> QED BY <3>1, <1>3, <1>5
  <2>4. UNION {HeldBy(v)' : v \in Worker} = (UNION {HeldBy(v) : v \in Worker}) \cup Range(ds)
    <3>1. \A v \in Worker : HeldBy(v)' = IF v = w THEN Range(ds) ELSE HeldBy(v)
      BY <1>5
    <3>2. HeldBy(w) = {}
      BY <1>5
    <3> QED BY ONLY <3>1, <3>2, w \in Worker
  <2>5. Wanted' = Range(queue') \cup Range(failed') \cup UNION {HeldBy(v)' : v \in Worker}
    BY <2>4, <1>2, <1>3, <1>6, <1>7 DEF RoundOfWanted
  <2>6. IsInjective(failed') /\ Range(queue') \cap Range(failed') = {}
    BY <1>2, <1>3, <1>6 DEF RoundOfWanted
  <2> QED BY <1>3, <2>1, <2>2, <2>3, <2>5, <2>6 DEF RoundOfWanted
<1> QED BY <1>8, <1>9 DEF Shared

LEMMA SharedDone ==
    ASSUME TypeOK, Shared, NEW w \in Worker, Done(w)
    PROVE  Shared'
<1>1. /\ RoundOfWanted /\ phase = "round" /\ failed \in Seq(Dst) /\ worker[w].chunks \in Seq(Dst)
      /\ callback = NoWorker /\ failed' = failed \o worker[w].chunks
      /\ worker'[w] = Free /\ \A v \in Worker : v # w => worker'[v] = worker[v]
      /\ UNCHANGED <<phase, chunks, queue, callback, recv, delivered>>
  BY DEF Shared, Done, TypeOK
<1>2. IsInjective(failed') /\ Range(failed') = Range(failed) \cup HeldBy(w)
  <2>1. /\ IsInjective(failed) /\ IsInjective(worker[w].chunks)
        /\ Range(failed) \cap Range(worker[w].chunks) = {}
    BY <1>1 DEF RoundOfWanted, HeldBy
  <2> QED BY <1>1, <2>1, JoinTwo DEF HeldBy
<1>3. \A v \in Worker : HeldBy(v)' = IF v = w THEN {} ELSE HeldBy(v)
  BY <1>1, NoPlace DEF HeldBy
<1>4. Wanted' = Wanted
  BY <1>1 DEF Wanted
<1>5. Idle' /\ FreeHoldsNothing' /\ CallbackOfBusy' /\ ListOfWanted'
  BY <1>1 DEF Shared, Idle, FreeHoldsNothing, CallbackOfBusy, ListOfWanted
<1>6. RoundOfWanted'
  <2>1. \A v \in Worker : IsInjective(worker'[v].chunks)
    BY <1>1, NoPlace DEF RoundOfWanted
  <2>2. \A v \in Worker : HeldBy(v)' \cap (Range(queue') \cup Range(failed')) = {}
    BY <1>1, <1>2, <1>3 DEF RoundOfWanted
  <2>3. \A u, v \in Worker : u # v => HeldBy(u)' \cap HeldBy(v)' = {}
    BY <1>1, <1>3 DEF RoundOfWanted
  <2>4. UNION {HeldBy(v) : v \in Worker} = (UNION {HeldBy(v)' : v \in Worker}) \cup HeldBy(w)
    BY ONLY <1>3, w \in Worker
  <2>5. Wanted' = Range(queue') \cup Range(failed') \cup UNION {HeldBy(v)' : v \in Worker}
    BY <2>4, <1>1, <1>2, <1>4 DEF RoundOfWanted
  <2>6. IsInjective(queue') /\ Range(queue') \cap Range(failed') = {}
    BY <1>1, <1>2 DEF RoundOfWanted
  <2> QED BY <1>2, <2>1, <2>2, <2>3, <2>5, <2>6 DEF RoundOfWanted
<1> QED BY <1>5, <1>6 DEF Shared

LEMMA SharedRecvData ==
    ASSUME TypeOK, Shared, NEW w \in Worker, NEW n \in Nat, RecvData(w, n)
    PROVE  Shared'
<1>1. /\ phase = "round" /\ worker[w].busy /\ ~worker[w].stopped /\ callback' = w
      /\ UNCHANGED <<phase, chunks, queue, failed, delivered>>
  BY DEF RecvData
<1>2. /\ worker'[w].chunks = worker[w].chunks /\ worker'[w].busy /\ ~worker'[w].stopped
      /\ \A v \in Worker : v # w => worker'[v] = worker[v]
  BY <1>1 DEF RecvData, TypeOK
<1>3. RoundOfWanted'
  BY <1>1, <1>2, SamePlaces DEF Shared
<1>4. Idle' /\ FreeHoldsNothing' /\ CallbackOfBusy' /\ ListOfWanted'
  BY <1>1, <1>2, OptionsAssumption DEF Shared, Idle, FreeHoldsNothing, CallbackOfBusy, ListOfWanted
<1> QED BY <1>3, <1>4 DEF Shared

LEMMA SharedStep ==
    ASSUME TypeOK, Shared, Data, [Next]_vars
    PROVE  Shared' /\ NothingBefore' /\ DeliveredRight'
<1>1. CASE FromCache
  BY <1>1, SharedFromCache DEF Data
<1>2. CASE BeginRound
  BY <1>2, SharedBeginRound DEF Data, BeginRound, NothingBefore, DeliveredRight
<1>3. CASE \E w \in Worker : Transfer(w)
  <2>1. PICK w \in Worker : Transfer(w)
    BY <1>3
  <2>2. CASE Start(w)
    BY <2>2, SharedStart DEF Data, Start, NothingBefore, DeliveredRight
  <2>3. CASE \E n \in 1 .. Len(worker[w].body) : RecvData(w, n)
    <3>1. PICK n \in 1 .. Len(worker[w].body) : RecvData(w, n)
      BY <2>3
    <3>2. n \in Nat
      OBVIOUS
    <3> QED BY <3>1, <3>2, SharedRecvData DEF Data, RecvData, NothingBefore, DeliveredRight
  <2>4. CASE Done(w)
    BY <2>4, SharedDone DEF Data, Done, NothingBefore, DeliveredRight
  <2> QED BY <2>1, <2>2, <2>3, <2>4 DEF Transfer
<1>4. CASE Callback
  BY <1>4, SharedCallback
<1>5. CASE EndRound
  BY <1>5, SharedEndRound DEF Data, EndRound, NothingBefore, DeliveredRight
<1>6. CASE Return
  BY <1>6 DEF Return, Data, NothingBefore, DeliveredRight, Shared, Idle, FreeHoldsNothing,
              CallbackOfBusy, ListOfWanted, RoundOfWanted, HeldBy, Wanted
<1>7. CASE UNCHANGED vars
  BY <1>7 DEF vars, Data, NothingBefore, DeliveredRight, Shared, Idle, FreeHoldsNothing,
              CallbackOfBusy, ListOfWanted, RoundOfWanted, HeldBy, Wanted
<1> QED BY <1>1, <1>2, <1>3, <1>4, <1>5, <1>6, <1>7 DEF Next

-----------------------------------------------------------------------------
(***************************************************************************)
(* What a worker receives                                                  *)
(***************************************************************************)

LEMMA RunCut ==
    ASSUME NEW ds \in Seq(Dst), Run(ds), NEW n \in 0 .. Len(ds)
    PROVE  Run(SubSeq(ds, n + 1, Len(ds)))
<1> DEFINE b == SubSeq(ds, n + 1, Len(ds))
<1>1. Len(b) = Len(ds) - n /\ \A i \in 1 .. Len(ds) - n : b[i] = ds[n + i] /\ n + i \in 1 .. Len(ds)
  OBVIOUS
<1>2. DOMAIN b = 1 .. Len(ds) - n /\ DOMAIN ds = 1 .. Len(ds) /\ Len(ds) \in Nat /\ n \in Nat
  OBVIOUS
<1> HIDE DEF b
<1>3. \A i, j \in DOMAIN b : /\ Bundle[b[i].id] = Bundle[b[j].id]
                             /\ i < j => Offset[b[i].id] <= Offset[b[j].id]
  <2> SUFFICES ASSUME NEW i \in DOMAIN b, NEW j \in DOMAIN b
               PROVE  /\ Bundle[b[i].id] = Bundle[b[j].id]
                      /\ i < j => Offset[b[i].id] <= Offset[b[j].id]
    OBVIOUS
  <2> DEFINE k == n + i
             l == n + j
  <2>1. /\ i < j => k < l
        /\ k \in DOMAIN ds /\ l \in DOMAIN ds /\ b[i] = ds[k] /\ b[j] = ds[l]
    BY <1>1, <1>2
  <2> HIDE DEF k, l
  <2>2. /\ Bundle[ds[k].id] = Bundle[ds[l].id]
        /\ k < l => Offset[ds[k].id] <= Offset[ds[l].id]
    BY <2>1 DEF Run
  <2> QED BY <2>1, <2>2
<1>4. \A i \in 1 .. Len(b) - 1 : \/ b[i + 1].id = b[i].id
                                 \/ Offset[b[i + 1].id] = Offset[b[i].id] + Size[b[i].id]
  <2> TAKE i \in 1 .. Len(b) - 1
  <2>1. n + i \in 1 .. Len(ds) - 1 /\ i \in 1 .. Len(ds) - n /\ i + 1 \in 1 .. Len(ds) - n /\ n + (i + 1) = (n + i) + 1
    BY <1>1, <1>2
  <2>2. b[i] = ds[n + i] /\ b[i + 1] = ds[(n + i) + 1]
    BY <2>1, <1>1
  <2>3. \A j \in 1 .. Len(ds) - 1 : \/ ds[j + 1].id = ds[j].id
                                    \/ Offset[ds[j + 1].id] = Offset[ds[j].id] + Size[ds[j].id]
    BY DEF Run
  <2> DEFINE j == n + i
  <2>4. j \in 1 .. Len(ds) - 1 /\ b[i] = ds[j] /\ b[i + 1] = ds[j + 1]
    BY <2>1, <2>2
  <2> HIDE DEF j
  <2> QED BY ONLY <2>3, <2>4
<1> QED BY <1>3, <1>4 DEF Run, b

LEMMA FreeInStep ==
    ASSUME NEW w \in Worker
    PROVE  /\ worker[w] = Free => InStep(w)
           /\ worker'[w] = Free => InStep(w)'
<1>1. Free.chunks = <<>> /\ Free.busy = FALSE
  BY DEF Free
<1>2. DOMAIN <<>> = {} /\ 1 .. Len(<<>>) - 1 = {}
  OBVIOUS
<1> QED BY <1>1, <1>2 DEF InStep, Run, StreamRight, WholeStream, BufferShort

\* A worker that the step is not about.
LEMMA Bystander ==
    ASSUME NEW v \in Worker, InStep(v), worker'[v] = worker[v],
           callback # v, callback' # v, throws' = 0 => throws = 0
    PROVE  InStep(v)'
<1>1. Stream(v)' = Stream(v)
  BY DEF Stream
<1> QED BY <1>1 DEF InStep, StreamRight, WholeStream, BufferShort

\* The longest run of a sorted queue.
LEMMA RunOfQueue ==
    ASSUME NEW q \in Seq(Dst), Sorted(q), NEW n \in 1 .. Len(q), FindChunks(q, n)
    PROVE  Run(SubSeq(q, 1, n)) /\ Sorted(SubSeq(q, n + 1, Len(q)))
<1> DEFINE a == SubSeq(q, 1, n)
           b == SubSeq(q, n + 1, Len(q))
<1>1. Len(a) = n /\ DOMAIN a = 1 .. n /\ \A i \in 1 .. n : a[i] = q[i] /\ i \in DOMAIN q
  OBVIOUS
<1>2. DOMAIN b = 1 .. Len(q) - n /\ \A i \in DOMAIN b : b[i] = q[n + i] /\ n + i \in DOMAIN q
  OBVIOUS
<1>3. n \in Nat /\ \A i \in DOMAIN q : q[i] \in Dst
  OBVIOUS
<1> HIDE DEF a, b
<1>4. \A i \in 1 .. n : Bundle[q[i].id] = Bundle[q[1].id]
  <2> TAKE i \in 1 .. n
  <2>1. CASE i = 1
    BY <2>1
  <2>2. CASE i # 1
    <3>1. i - 1 \in 1 .. n - 1 /\ (i - 1) + 1 = i
      BY <2>2, <1>3
    <3>2. Bundle[q[(i - 1) + 1].id] = Bundle[q[1].id]
      BY <3>1 DEF FindChunks, GoesOn
    <3> QED BY <3>1, <3>2
  <2> QED BY <2>1, <2>2
<1>5. \A i, j \in DOMAIN q : i < j /\ Bundle[q[i].id] = Bundle[q[j].id] => Offset[q[i].id] <= Offset[q[j].id]
  <2> SUFFICES ASSUME NEW i \in DOMAIN q, NEW j \in DOMAIN q, i < j, Bundle[q[i].id] = Bundle[q[j].id]
               PROVE  Offset[q[i].id] <= Offset[q[j].id]
    OBVIOUS
  <2>1. ~Before(q[j], q[i])
    BY DEF Sorted
  <2>2. Offset[q[i].id] \in Nat /\ Offset[q[j].id] \in Nat
    BY <1>3, PlaceType
  <2> QED BY <2>1, <2>2 DEF Before
<1>6. Run(a)
  <2>1. \A i, j \in DOMAIN a : /\ Bundle[a[i].id] = Bundle[a[j].id]
                               /\ i < j => Offset[a[i].id] <= Offset[a[j].id]
    BY <1>1, <1>4, <1>5
  <2>2. \A i \in 1 .. Len(a) - 1 : \/ a[i + 1].id = a[i].id
                                   \/ Offset[a[i + 1].id] = Offset[a[i].id] + Size[a[i].id]
    <3> TAKE i \in 1 .. Len(a) - 1
    <3>1. i \in 1 .. n - 1 /\ i \in 1 .. n /\ i + 1 \in 1 .. n
      BY <1>1, <1>3
    <3>2. a[i] = q[i] /\ a[i + 1] = q[i + 1] /\ GoesOn(q, i)
      BY <1>1, <3>1 DEF FindChunks
    <3> QED BY <3>2 DEF GoesOn
  <2> QED BY <2>1, <2>2 DEF Run
<1>7. Sorted(b)
  <2> SUFFICES ASSUME NEW i \in DOMAIN b, NEW j \in DOMAIN b, i < j
               PROVE  ~Before(b[j], b[i])
    BY DEF Sorted
  <2>1. n + i < n + j /\ n + i \in DOMAIN q /\ n + j \in DOMAIN q /\ b[i] = q[n + i] /\ b[j] = q[n + j]
    BY <1>2, <1>3
  <2> QED BY <2>1 DEF Sorted
<1> QED BY <1>6, <1>7 DEF a, b

LEMMA InStepStart ==
    ASSUME TypeOK, Shared, Data, NEW w \in Worker, Start(w)
    PROVE  Sorted(queue') /\ \A v \in Worker : InStep(v)'
<1>0. PICK n \in 1 .. Len(queue) : \E body \in Bodies(SubSeq(queue, 1, n)) :
        /\ FindChunks(queue, n)
        /\ SubSeq(queue, 1, n) \in Seq(Dst) /\ SubSeq(queue, 1, n) # <<>>
        /\ worker' = [worker EXCEPT ![w] = Begun(SubSeq(queue, 1, n), body)]
        /\ queue' = SubSeq(queue, n + 1, Len(queue))
  BY StartStep
<1> DEFINE ds == SubSeq(queue, 1, n)
<1>1. PICK body \in Bodies(ds) :
        /\ FindChunks(queue, n)
        /\ ds \in Seq(Dst) /\ ds # <<>>
        /\ worker' = [worker EXCEPT ![w] = Begun(ds, body)]
        /\ queue' = SubSeq(queue, n + 1, Len(queue))
  BY <1>0
<1>2. Run(ds) /\ Sorted(queue')
  BY <1>1, RunOfQueue DEF Data, TypeOK
<1> HIDE DEF ds
<1>3. UNCHANGED <<callback, throws>> /\ callback = NoWorker
  BY DEF Start
<1>4. /\ worker'[w] = Begun(ds, body)
      /\ \A v \in Worker : v # w => worker'[v] = worker[v]
  BY <1>1 DEF TypeOK
<1>5. ASSUME NEW v \in Worker, v # w PROVE InStep(v)'
  <2>1. worker'[v] = worker[v] /\ callback # v /\ callback' # v /\ InStep(v)
    BY <1>3, <1>4, <1>5, OptionsAssumption DEF Data
  <2> QED BY <1>3, <2>1, Bystander
<1>6. InStep(w)'
  <2>0. /\ Begun(ds, body).stopped = FALSE
        /\ Begun(ds, body).chunks = ds /\ Begun(ds, body).body = body
        /\ Begun(ds, body).buffer = <<>>
        /\ Begun(ds, body).whole = (Len(body) >= Len(RangeCells(ds))
                           /\ SubSeq(body, 1, Len(RangeCells(ds))) = RangeCells(ds))
    BY <1>1, BegunType
  <2>1. /\ worker'[w].chunks = ds /\ worker'[w].body = body /\ worker'[w].buffer = <<>>
        /\ worker'[w].stopped = FALSE
    BY <1>4, <2>0
  <2>8. ASSUME worker'[w].whole
        PROVE  /\ Len(body) >= Len(RangeCells(ds))
               /\ SubSeq(body, 1, Len(RangeCells(ds))) = RangeCells(ds)
    BY <1>4, <2>0, <2>8
  <2>2. body \in Seq(Cell) /\ RightCells(ds[1].id, body)
    BY <1>1, BodyCells
  <2>3. Stream(w)' = body
    <3>1. Stream(w)' = (<<>> \o <<>>) \o body
      BY <1>3, <2>1, OptionsAssumption DEF Stream
    <3> QED BY <3>1, <2>2
  <2>4. ds[1] \in Dst
    BY <1>1
  <2>5. StreamRight(w)'
    BY <2>1, <2>2, <2>3 DEF StreamRight
  <2>6. WholeStream(w)'
    BY <1>1, <1>2, <2>1, <2>2, <2>3, <2>8, WholeHasCells DEF WholeStream
  <2>7. BufferShort(w)'
    <3>1. Len(<<>>) = 0 /\ Size[ds[1].id] > 0
      BY <2>4, PlaceType
    <3> QED BY <3>1, <2>1 DEF BufferShort
  <2> QED BY <1>2, <2>1, <2>5, <2>6, <2>7 DEF InStep
<1> QED BY <1>2, <1>5, <1>6

LEMMA InStepRecvData ==
    ASSUME TypeOK, Shared, Data, NEW w \in Worker, NEW n \in 1 .. Len(worker[w].body), RecvData(w, n)
    PROVE  \A v \in Worker : InStep(v)'
<1>1. /\ callback = NoWorker /\ recv = <<>> /\ callback' = w /\ throws' = throws
      /\ recv' = SubSeq(worker[w].body, 1, n)
      /\ worker' = [worker EXCEPT ![w].body = SubSeq(@, n + 1, Len(@))]
  BY DEF RecvData, Shared, CallbackOfBusy
<1>2. worker[w] \in Job /\ worker[w].buffer \in Seq(Cell) /\ worker[w].body \in Seq(Cell)
  BY DEF TypeOK, Job
<1>3. /\ worker'[w].body = SubSeq(worker[w].body, n + 1, Len(worker[w].body))
      /\ worker'[w].buffer = worker[w].buffer /\ worker'[w].chunks = worker[w].chunks
      /\ worker'[w].busy = worker[w].busy /\ worker'[w].stopped = worker[w].stopped
      /\ worker'[w].whole = worker[w].whole
      /\ \A v \in Worker : v # w => worker'[v] = worker[v]
  BY <1>1, <1>2 DEF TypeOK, Job
<1>4. Stream(w)' = Stream(w)
  <2> DEFINE a == worker[w].buffer
             b == worker[w].body
             b1 == SubSeq(b, 1, n)
             b2 == SubSeq(b, n + 1, Len(b))
  <2>1. a \in Seq(Cell) /\ b \in Seq(Cell) /\ n \in 1 .. Len(b)
    BY <1>2
  <2>2. Stream(w) = (a \o <<>>) \o b
    BY <1>1, OptionsAssumption DEF Stream
  <2>3. Stream(w)' = (a \o b1) \o b2
    BY <1>1, <1>3 DEF Stream
  <2> HIDE DEF a, b
  <2>4. (a \o b1) \o b2 = (a \o <<>>) \o b
    BY <2>1, BodyCut
  <2> QED BY <2>2, <2>3, <2>4
<1>5. ASSUME NEW v \in Worker, v # w PROVE InStep(v)'
  <2>1. worker'[v] = worker[v] /\ callback # v /\ callback' # v /\ InStep(v)
    BY <1>1, <1>3, <1>5, OptionsAssumption DEF Data
  <2> QED BY <1>1, <2>1, Bystander
<1>6. InStep(w)'
  BY <1>1, <1>3, <1>4 DEF Data, InStep, StreamRight, WholeStream, BufferShort
<1> QED BY <1>5, <1>6

LEMMA InStepDone ==
    ASSUME TypeOK, Shared, Data, NEW w \in Worker, Done(w)
    PROVE  \A v \in Worker : InStep(v)'
<1>1. /\ callback = NoWorker /\ UNCHANGED <<callback, throws>> /\ worker'[w] = Free
      /\ \A v \in Worker : v # w => worker'[v] = worker[v]
  BY DEF Done, TypeOK
<1>2. ASSUME NEW v \in Worker, v # w PROVE InStep(v)'
  <2>1. worker'[v] = worker[v] /\ callback # v /\ callback' # v /\ InStep(v)
    BY <1>1, <1>2, OptionsAssumption DEF Data
  <2> QED BY <1>1, <2>1, Bystander
<1>3. InStep(w)'
  BY <1>1, FreeInStep
<1> QED BY <1>2, <1>3

\* When the first n places, all of one chunk, are taken, the stream goes on with
\* the next chunk.
LEMMA StreamGoesOn ==
    ASSUME NEW ds \in Seq(Dst), Run(ds), NEW n \in 1 .. Len(ds) - 1,
           \A i \in 1 .. n : ds[i].id = ds[1].id, ds[n + 1].id # ds[1].id,
           NEW s \in Seq(Cell), NEW t \in Seq(Cell), Len(s) >= Size[ds[1].id],
           Len(t) = Len(s) - Size[ds[1].id],
           \A k \in 1 .. Len(t) : t[k] = s[Size[ds[1].id] + k]
    PROVE  LET e == SubSeq(ds, n + 1, Len(ds))
           IN  /\ RightCells(ds[1].id, s) => RightCells(e[1].id, t)
               /\ HasCells(ds, s) => HasCells(e, t)
<1> DEFINE e == SubSeq(ds, n + 1, Len(ds))
           c == ds[1].id
           d == ds[n + 1].id
           z == Size[c]
<1>1. /\ n \in Nat /\ n >= 1 /\ n + 1 <= Len(ds) /\ Len(ds) \in Nat
      /\ DOMAIN e = 1 .. Len(ds) - n /\ \A i \in 1 .. Len(ds) - n : e[i] = ds[n + i] /\ n + i \in DOMAIN ds
      /\ e[1] = ds[n + 1] /\ n \in DOMAIN ds /\ n + 1 \in DOMAIN ds /\ 1 \in DOMAIN ds
      /\ \A i \in DOMAIN ds : ds[i] \in Dst /\ i \in 1 .. Len(ds)
  OBVIOUS
<1>2. /\ c \in Chunk /\ d \in Chunk /\ z \in Nat \ {0}
      /\ Offset[c] \in Nat /\ Offset[d] \in Nat
  BY <1>1, PlaceType
<1>3. Bundle[d] = Bundle[c] /\ Offset[d] = Offset[c] + z
  <2>1. Bundle[d] = Bundle[c]
    BY <1>1 DEF Run
  <2>2. ds[n].id = c /\ n \in 1 .. Len(ds) - 1
    BY <1>1
  <2>3. ds[n + 1].id = ds[n].id \/ Offset[ds[n + 1].id] = Offset[ds[n].id] + Size[ds[n].id]
    BY <2>2 DEF Run
  <2> QED BY <2>1, <2>2, <2>3
<1>4. DOMAIN s = 1 .. Len(s) /\ DOMAIN t = 1 .. Len(t) /\ Len(s) \in Nat /\ Len(t) \in Nat /\ Len(t) = Len(s) - z
  OBVIOUS
<1>5. \A k \in DOMAIN t : t[k] = s[z + k] /\ z + k \in DOMAIN s /\ k \in Nat
  <2>1. \A k \in 1 .. Len(t) : t[k] = s[z + k]
    OBVIOUS
  <2>2. z \in Nat /\ DOMAIN s = 1 .. Len(s) /\ DOMAIN t = 1 .. Len(t) /\ Len(s) \in Nat /\ Len(t) = Len(s) - z
    BY <1>2, <1>4
  <2> HIDE DEF z
  <2> QED BY ONLY <2>1, <2>2
<1> HIDE DEF c, d, z, e
<1>6. ASSUME RightCells(c, s) PROVE RightCells(d, t)
  <2> SUFFICES ASSUME NEW k \in DOMAIN t
               PROVE  t[k] \in {NoFrame, BundleCell(Bundle[d], Offset[d] + k - 1)}
    BY DEF RightCells
  <2>1. s[z + k] \in {NoFrame, BundleCell(Bundle[c], Offset[c] + (z + k) - 1)}
    BY <1>5, <1>6 DEF RightCells
  <2>2. Offset[c] + (z + k) - 1 = Offset[d] + k - 1
    BY <1>2, <1>3, <1>5
  <2> QED BY <2>1, <2>2, <1>3, <1>5
<1>7. ASSUME HasCells(ds, s) PROVE HasCells(e, t)
  <2> SUFFICES ASSUME NEW i \in DOMAIN e, NEW k \in 1 .. Size[e[i].id]
               PROVE  LET at == Offset[e[i].id] - Offset[e[1].id] + k
                      IN  at \in DOMAIN t /\ t[at] = [id |-> e[i].id, at |-> k]
    BY DEF HasCells
  <2> DEFINE j == n + i
             x == e[i].id
             p == Offset[x] - Offset[c] + k
             q == Offset[x] - Offset[d] + k
  <2>1. j \in DOMAIN ds /\ e[i] = ds[j] /\ i \in Nat /\ i >= 1
    BY <1>1
  <2>2. x \in Chunk /\ Offset[x] \in Nat /\ k \in Nat /\ k >= 1
    <3>1. ds[j] \in Dst
      BY <1>1, <2>1
    <3>2. x \in Chunk /\ Offset[x] \in Nat /\ Size[x] \in Nat
      BY <2>1, <3>1, PlaceType
    <3> QED BY <3>2
  <2>3. Offset[d] <= Offset[x]
    <3>1. n + 1 = j \/ n + 1 < j
      BY <1>1, <2>1
    <3>2. n + 1 < j => Offset[ds[n + 1].id] <= Offset[ds[j].id]
      BY <1>1, <2>1 DEF Run
    <3>3. n + 1 = j => ds[j].id = d
      BY DEF d
    <3>4. x = ds[j].id
      BY <2>1
    <3> HIDE DEF j, x
    <3> QED BY <3>1, <3>2, <3>3, <3>4, <1>2 DEF d
  <2>4. p \in DOMAIN s /\ s[p] = [id |-> x, at |-> k]
    <3> HIDE DEF j
    <3>1. k \in 1 .. Size[ds[j].id] /\ x = ds[j].id
      BY <2>1
    <3> QED BY <3>1, <2>1, <1>7 DEF HasCells, c
  <2>5. p = z + q /\ q \in DOMAIN t
    <3> DEFINE ox == Offset[x]
               oc == Offset[c]
               od == Offset[d]
    <3>1. ox \in Nat /\ oc \in Nat /\ od \in Nat /\ od = oc + z /\ od <= ox /\ z \in Nat
      BY <1>2, <1>3, <2>2, <2>3
    <3>2. p = ox - oc + k /\ q = ox - od + k /\ k \in Nat /\ k >= 1 /\ p \in 1 .. Len(s)
      BY <2>2, <2>4, <1>4
    <3> HIDE DEF ox, oc, od, p, q
    <3>3. p = z + q /\ q \in 1 .. Len(s) - z
      BY ONLY <3>1, <3>2, <1>4
    <3> QED BY <3>3, <1>4
  <2>6. t[q] = s[p]
    <3> HIDE DEF p, q
    <3> QED BY <2>5, <1>5
  <2>7. e[1].id = d
    BY <1>1 DEF d
  <2> QED BY <2>4, <2>5, <2>6, <2>7
<1>8. e[1].id = d
  BY <1>1 DEF d
<1> QED BY <1>6, <1>7, <1>8 DEF c, e

LEMMA JoinedRest ==
    ASSUME NEW S, NEW a \in Seq(S), NEW b \in Seq(S), NEW z \in 0 .. Len(a)
    PROVE  LET t == SubSeq(a, z + 1, Len(a)) \o b
               s == a \o b
           IN  /\ s \in Seq(S) /\ t \in Seq(S) /\ Len(s) >= z /\ Len(t) = Len(s) - z
               /\ \A k \in 1 .. Len(t) : t[k] = s[z + k]
<1> DEFINE c == SubSeq(a, z + 1, Len(a))
           t == c \o b
           s == a \o b
<1>1. /\ c \in Seq(S) /\ Len(c) = Len(a) - z
      /\ \A k \in 1 .. Len(a) - z : c[k] = a[z + k]
      /\ Len(a) \in Nat /\ z \in Nat /\ z <= Len(a) /\ Len(b) \in Nat
  OBVIOUS
<1> HIDE DEF c
<1>2. /\ t \in Seq(S) /\ s \in Seq(S) /\ Len(t) = Len(c) + Len(b) /\ Len(s) = Len(a) + Len(b)
      /\ \A i \in 1 .. Len(c) : t[i] = c[i]
      /\ \A i \in Len(c) + 1 .. Len(c) + Len(b) : t[i] = b[i - Len(c)]
      /\ \A i \in 1 .. Len(a) : s[i] = a[i]
      /\ \A i \in Len(a) + 1 .. Len(a) + Len(b) : s[i] = b[i - Len(a)]
  BY <1>1, Joined
<1> HIDE DEF t, s
<1>3. Len(s) >= z /\ Len(t) = Len(s) - z
  BY <1>1, <1>2
<1>4. ASSUME NEW k \in 1 .. Len(t) PROVE t[k] = s[z + k]
  <2>1. CASE k <= Len(c)
    <3>1. k \in 1 .. Len(c) /\ k \in 1 .. Len(a) - z /\ z + k \in 1 .. Len(a)
      BY <1>1, <1>2, <2>1
    <3> QED BY <3>1, <1>1, <1>2
  <2>2. CASE k > Len(c)
    <3>1. /\ k \in Len(c) + 1 .. Len(c) + Len(b) /\ z + k \in Len(a) + 1 .. Len(a) + Len(b)
          /\ k - Len(c) = (z + k) - Len(a)
      BY <1>1, <1>2, <2>2
    <3> QED BY <3>1, <1>2
  <2>3. k \in Nat /\ Len(c) \in Nat
    BY <1>1, <1>2
  <2> QED BY <2>1, <2>2, <2>3
<1> QED BY <1>2, <1>3, <1>4 DEF t, s, c

\* A chunk is taken, and the rest of what was received is looked at next.
LEMMA InStepTakeChunk ==
    ASSUME TypeOK, Shared, Data, TakeChunk, NEW w \in Worker, w = callback
    PROVE  InStep(w)' /\ callback' \in {NoWorker, callback} /\ throws' = throws
<1>1. /\ Me \in Job /\ Me = worker[w] /\ Me.chunks \in Seq(Dst) /\ Me.chunks # <<>>
      /\ Input \in Seq(Cell) /\ Front \in Chunk /\ Size[Front] \in Nat \ {0}
      /\ Me.busy /\ ~Me.stopped /\ Len(Input) >= Size[Front] /\ callback # NoWorker
  BY MeType DEF TakeChunk, Shared, CallbackOfBusy
<1> DEFINE rest == SubSeq(Input, Size[Front] + 1, Len(Input))
<1>2. PICK n \in 1 .. Len(Me.chunks) :
          /\ Same(n) /\ ~Same(n + 1)
          /\ IF rest = <<>>
                THEN Returns(Taken(Me, n))
                ELSE /\ worker' = [worker EXCEPT ![callback] = Taken(Me, n)]
                     /\ recv' = rest
                     /\ UNCHANGED callback
  BY DEF TakeChunk, Taken, BufferAfterChunk
<1> DEFINE ds == Me.chunks
           e == SubSeq(ds, n + 1, Len(ds))
           s == Input \o Me.body
           t == rest \o Me.body
<1>3. /\ worker'[w] = Taken(Me, n) /\ throws' = throws /\ callback' \in {NoWorker, callback}
      /\ callback' # w => rest = <<>>
      /\ callback' = w => recv' = rest
  <2>1. worker' = [worker EXCEPT ![w] = Taken(Me, n)]
    BY <1>2 DEF Returns
  <2>2. worker'[w] = Taken(Me, n)
    BY <2>1 DEF TypeOK
  <2> HIDE DEF rest
  <2> QED BY <1>1, <1>2, <2>2, OptionsAssumption DEF Returns, TakeChunk
<1>4. /\ worker'[w].chunks = e /\ worker'[w].buffer = <<>> /\ worker'[w].body = Me.body
      /\ worker'[w].whole = Me.whole /\ worker'[w].stopped = Me.stopped
  <2>1. n \in 0 .. Len(Me.chunks)
    BY <1>1
  <2> QED BY <1>1, <1>3, <2>1, TakenType
<1>5. Me.body \in Seq(Cell) /\ Stream(w) = s
  BY <1>1, StreamOfMe
<1>6. /\ s \in Seq(Cell) /\ t \in Seq(Cell) /\ Len(s) >= Size[Front] /\ Len(t) = Len(s) - Size[Front]
      /\ \A k \in 1 .. Len(t) : t[k] = s[Size[Front] + k]
  <2> DEFINE a == Input
             b == Me.body
             z == Size[Front]
  <2>1. a \in Seq(Cell) /\ b \in Seq(Cell) /\ z \in 0 .. Len(a)
    BY <1>1, <1>5
  <2> HIDE DEF a, b, z
  <2>2. LET tt == SubSeq(a, z + 1, Len(a)) \o b
            ss == a \o b
        IN  /\ ss \in Seq(Cell) /\ tt \in Seq(Cell) /\ Len(ss) >= z /\ Len(tt) = Len(ss) - z
            /\ \A k \in 1 .. Len(tt) : tt[k] = ss[z + k]
    BY ONLY <2>1, JoinedRest
  <2> QED BY ONLY <2>2 DEF a, b, z, s, t, rest
<1>7. Stream(w)' = t
  <2>1. rest \in Seq(Cell)
    BY <1>1, Cut
  <2> HIDE DEF rest
  <2>2. Stream(w)' = (<<>> \o rest) \o Me.body
    BY <1>3, <1>4 DEF Stream
  <2> QED BY <2>1, <2>2
<1>8. Run(e)
  <2>1. n \in 0 .. Len(ds) /\ Run(ds)
    BY <1>1 DEF Data, InStep
  <2> QED BY <1>1, <2>1, RunCut
<1>9. CASE e = <<>>
  BY <1>3, <1>4, <1>8, <1>9 DEF InStep, StreamRight, WholeStream, BufferShort
<1>10. CASE e # <<>>
  <2>1. n \in 1 .. Len(ds) - 1 /\ Front = ds[1].id
    <3>1. n # Len(ds)
      BY <1>1, <1>10
    <3> QED BY <3>1, <1>1 DEF Front
  <2>2. \A i \in 1 .. n : ds[i].id = ds[1].id
    BY <1>2 DEF Same, Front
  <2>3. ds[n + 1].id # ds[1].id
    <3>1. n + 1 <= Len(ds) /\ \A i \in 1 .. n + 1 : i \in 1 .. n \/ i = n + 1
      BY <1>1, <2>1
    <3> QED BY <3>1, <1>2, <2>2 DEF Same, Front
  <2>4. Run(ds) /\ InStep(w)
    BY <1>1 DEF Data, InStep
  <2>5. /\ RightCells(ds[1].id, s) => RightCells(e[1].id, t)
        /\ HasCells(ds, s) => HasCells(e, t)
    <3> HIDE DEF s, t
    <3>1. /\ ds \in Seq(Dst) /\ s \in Seq(Cell) /\ t \in Seq(Cell)
          /\ Len(s) >= Size[ds[1].id] /\ Len(t) = Len(s) - Size[ds[1].id]
          /\ \A k \in 1 .. Len(t) : t[k] = s[Size[ds[1].id] + k]
      BY <1>1, <1>6, <2>1
    <3> HIDE DEF ds
    <3> QED BY ONLY <2>1, <2>2, <2>3, <2>4, <3>1, StreamGoesOn
  <2> HIDE DEF e, s, t, rest
  <2>6. StreamRight(w)'
    BY <1>1, <1>4, <1>5, <1>7, <2>4, <2>5 DEF InStep, StreamRight
  <2>7. WholeStream(w)'
    BY <1>1, <1>3, <1>4, <1>5, <1>7, <2>4, <2>5 DEF InStep, WholeStream
  <2>8. BufferShort(w)'
    <3>1. Size[e[1].id] > 0
      <4>1. e[1] = ds[n + 1] /\ ds[n + 1] \in Dst
        BY <1>1, <2>1 DEF e
      <4> QED BY <4>1, PlaceType
    <3>2. Len(<<>>) = 0
      OBVIOUS
    <3> QED BY <1>4, <3>1, <3>2 DEF BufferShort
  <2> QED BY <1>3, <1>4, <1>8, <2>6, <2>7, <2>8 DEF InStep
<1> QED BY <1>9, <1>10

\* A transfer whose stream is whole has the chunk at the front.
LEMMA WholeDecodes ==
    ASSUME TypeOK, callback # NoWorker, Me.chunks # <<>>, Len(Input) >= Size[Front],
           HasCells(Me.chunks, Stream(callback))
    PROVE  Decodes(Front)
<1>1. /\ Me \in Job /\ Me.chunks \in Seq(Dst) /\ Input \in Seq(Cell)
      /\ Front \in Chunk /\ Size[Front] \in Nat \ {0} /\ Offset[Front] \in Nat
  BY MeType
<1>2. 1 \in DOMAIN Me.chunks /\ Me.chunks[1].id = Front
  BY <1>1 DEF Front
<1>3. FrontCells \in Seq(Cell) /\ Len(FrontCells) = Size[Front]
      /\ \A k \in 1 .. Size[Front] : FrontCells[k] = Input[k] /\ k \in 1 .. Len(Input)
  <2> DEFINE z == Size[Front]
             a == Input
  <2>1. a \in Seq(Cell) /\ z \in Nat /\ z <= Len(a)
    BY <1>1
  <2> HIDE DEF z, a
  <2>2. /\ SubSeq(a, 1, z) \in Seq(Cell) /\ Len(SubSeq(a, 1, z)) = z
        /\ \A k \in 1 .. z : SubSeq(a, 1, z)[k] = a[k] /\ k \in 1 .. Len(a)
    BY ONLY <2>1
  <2> QED BY ONLY <2>2 DEF z, a, FrontCells
<1>4. \A k \in 1 .. Size[Front] : FrontCells[k] = [id |-> Front, at |-> k]
  <2> TAKE k \in 1 .. Size[Front]
  <2>1. Offset[Front] - Offset[Front] + k = k
    BY <1>1
  <2>2. Stream(callback)[k] = [id |-> Front, at |-> k]
    BY <1>2, <2>1 DEF HasCells
  <2>3. Stream(callback)[k] = Input[k]
    BY <1>3, StreamOfMe
  <2> QED BY <1>3, <2>2, <2>3
<1>5. FrontCells = Frame(Front)
  <2>1. FrontCells = [k \in 1 .. Size[Front] |-> FrontCells[k]]
    <3> DEFINE a == FrontCells
               z == Size[Front]
    <3>1. a \in Seq(Cell) /\ Len(a) = z
      BY <1>3
    <3> HIDE DEF a, z
    <3>2. a = [k \in 1 .. z |-> a[k]]
      BY ONLY <3>1
    <3> QED BY <3>2 DEF a, z
  <2> QED BY <2>1, <1>4 DEF Frame
<1> QED BY <1>5 DEF Decodes

LEMMA InStepCallback ==
    ASSUME TypeOK, Shared, Data, Callback
    PROVE  \A v \in Worker : InStep(v)'
<1>1. callback # NoWorker
  BY DEF Callback, Keep, TooMuch, TakeChunk, BadFrame, TakeThrows
<1>2. PICK w \in Worker : w = callback
  BY <1>1, MeType
<1>3. /\ Me \in Job /\ Me = worker[w] /\ Me.chunks \in Seq(Dst) /\ Me.busy /\ ~Me.stopped
      /\ Input \in Seq(Cell) /\ Me.body \in Seq(Cell) /\ Stream(w) = Input \o Me.body /\ InStep(w)
  BY <1>1, <1>2, MeType, StreamOfMe DEF Data, Shared, CallbackOfBusy
<1>4. PICK me \in Job :
             /\ worker' = [worker EXCEPT ![callback] = me]
             /\ callback' \in {NoWorker, callback}
  BY CallbackJob
<1>5. worker'[callback] = me /\ \A v \in Worker : v # callback => worker'[v] = worker[v]
  BY <1>1, <1>4, JobChanges
<1>6. throws' = 0 => throws = 0
  <2>1. throws \in Nat
    BY OptionsAssumption DEF TypeOK
  <2>2. throws' = throws \/ throws' = throws + 1
    BY DEF Callback, Keep, TooMuch, TakeChunk, BadFrame, TakeThrows
  <2> QED BY <2>1, <2>2
<1>7. ASSUME NEW v \in Worker, v # w PROVE InStep(v)'
  <2>1. worker'[v] = worker[v] /\ callback # v /\ callback' # v /\ InStep(v)
    BY <1>2, <1>4, <1>5, <1>7, OptionsAssumption DEF Data
  <2> QED BY <1>6, <2>1, Bystander
<1>8. InStep(w)'
  <2>1. CASE Keep
    <3> DEFINE new == [Me EXCEPT !.buffer = Input]
    <3>1. /\ worker' = [worker EXCEPT ![w] = new] /\ callback' = NoWorker /\ throws' = throws
          /\ Me.chunks # <<>> /\ Len(Input) < Size[Front]
      BY <1>2, <2>1 DEF Keep, Returns
    <3>2. worker'[w] = new
      BY <3>1 DEF TypeOK
    <3>3. /\ worker'[w].chunks = Me.chunks /\ worker'[w].buffer = Input /\ worker'[w].body = Me.body
          /\ worker'[w].busy = Me.busy /\ worker'[w].stopped = Me.stopped /\ worker'[w].whole = Me.whole
      BY <1>3, <3>2 DEF Job
    <3>4. Stream(w)' = Stream(w)
      <4>1. callback' # w
        BY <3>1, OptionsAssumption
      <4>2. Stream(w)' = (Input \o <<>>) \o Me.body
        BY <3>3, <4>1 DEF Stream
      <4>3. Input \o <<>> = Input
        BY <1>3
      <4> QED BY <4>2, <4>3, <1>3
    <3>5. Run(worker[w].chunks)' /\ StreamRight(w)'
      BY <1>3, <3>3, <3>4 DEF InStep, StreamRight
    <3>6. WholeStream(w)'
      BY <1>3, <3>1, <3>3, <3>4 DEF InStep, WholeStream
    <3>7. BufferShort(w)'
      BY <3>1, <3>3 DEF BufferShort, Front
    <3> QED BY <3>5, <3>6, <3>7 DEF InStep
  <2>2. CASE TooMuch \/ BadFrame
    <3> DEFINE new == [Me EXCEPT !.stopped = TRUE]
    <3>1. worker' = [worker EXCEPT ![w] = new] /\ throws' = throws
      BY <1>2, <2>2 DEF TooMuch, BadFrame, Stops, Returns
    <3>2. worker'[w] = new
      BY <3>1 DEF TypeOK
    <3>3. worker'[w].chunks = Me.chunks /\ worker'[w].stopped /\ worker'[w].whole = Me.whole
      BY <1>3, <3>2 DEF Job
    <3>4. Me.chunks = <<>> \/ ~(throws = 0 /\ Me.whole)
      <4> SUFFICES ASSUME Me.chunks # <<>>, throws = 0, Me.whole
                   PROVE  FALSE
        OBVIOUS
      <4>1. BadFrame
        BY <2>2 DEF TooMuch
      <4>2. HasCells(Me.chunks, Stream(callback))
        BY <1>2, <1>3 DEF InStep, WholeStream
      <4>3. Decodes(Front) /\ Front \in Chunk
        BY <1>1, <4>1, <4>2, WholeDecodes, MeType DEF BadFrame
      <4> QED BY <4>1, <4>3 DEF BadFrame
    <3> QED BY <1>3, <3>1, <3>3, <3>4 DEF InStep, StreamRight, WholeStream, BufferShort
  <2>3. CASE TakeChunk
    BY <1>2, <2>3, InStepTakeChunk
  <2>4. CASE \E n \in 0 .. Cardinality(Dst) : TakeThrows(n)
    <3>1. PICK n \in 0 .. Cardinality(Dst) : TakeThrows(n)
      BY <2>4
    <3>2. n \in 0 .. Len(Me.chunks)
      <4>1. Cardinality(Dst) \in Nat
        BY DstAssumption, FS_CardinalityType
      <4>2. n \in Nat /\ n + 1 <= Len(Me.chunks)
        BY <4>1, <3>1 DEF TakeThrows, Same
      <4> QED BY <4>2, <1>3
    <3> DEFINE ds == SubSeq(Me.chunks, n + 1, Len(Me.chunks))
               new == [[Me EXCEPT !.chunks = SubSeq(@, n + 1, Len(@))] EXCEPT !.stopped = TRUE]
    <3>3. worker' = [worker EXCEPT ![w] = new] /\ throws' = throws + 1 /\ throws \in Nat
      BY <1>2, <3>1, OptionsAssumption DEF TakeThrows, Stops, Returns, TypeOK
    <3>4. worker'[w] = new
      BY <3>3 DEF TypeOK
    <3>5. worker'[w].chunks = ds /\ worker'[w].stopped
      BY <1>3, <3>4 DEF Job
    <3>6. Run(ds)
      BY <1>3, <3>2, RunCut DEF InStep
    <3>7. throws' # 0
      BY <3>3
    <3> QED BY <3>5, <3>6, <3>7 DEF InStep, StreamRight, WholeStream, BufferShort
  <2> QED BY <2>1, <2>2, <2>3, <2>4 DEF Callback
<1> QED BY <1>7, <1>8

\* What is stored is the chunk that was asked for.
LEMMA CacheCallback ==
    ASSUME TypeOK, Shared, Data, Callback
    PROVE  CacheRight'
<1>1. callback # NoWorker
  BY DEF Callback, Keep, TooMuch, TakeChunk, BadFrame, TakeThrows
<1>2. \/ UNCHANGED cache
      \/ /\ Me.chunks # <<>> /\ Len(Input) >= Size[Front]
         /\ \E c \in Chunk : Decodes(c) /\ StoreInCache(c)
  BY CallbackJob
<1>3. CASE UNCHANGED cache
  BY <1>3 DEF Data, CacheRight
<1>4. CASE /\ Me.chunks # <<>> /\ Len(Input) >= Size[Front]
           /\ \E c \in Chunk : Decodes(c) /\ StoreInCache(c)
  <2>1. PICK c \in Chunk : Decodes(c) /\ StoreInCache(c)
    BY <1>4
  <2>2. c = Front
    BY <1>1, <1>4, <2>1, DecodesFront
  <2> QED BY <2>1, <2>2 DEF StoreInCache, Data, CacheRight
<1> QED BY <1>2, <1>3, <1>4

LEMMA DataInit == Init => Data
<1> SUFFICES ASSUME Init PROVE Data
  OBVIOUS
<1>1. NothingBefore /\ DeliveredRight /\ CacheRight
  BY SharedInit
<1>2. DOMAIN queue = {}
  BY DEF Init
<1>3. \A w \in Worker : InStep(w)
  BY FreeInStep DEF Init
<1> QED BY <1>1, <1>2, <1>3 DEF Data, Sorted

LEMMA DataStep ==
    ASSUME TypeOK, Shared, Data, [Next]_vars
    PROVE  Data'
<1>1. NothingBefore' /\ DeliveredRight'
  BY SharedStep
<1> SUFFICES CacheRight' /\ Sorted(queue') /\ \A w \in Worker : InStep(w)'
  BY <1>1 DEF Data
<1>2. ASSUME UNCHANGED <<worker, callback, recv, throws>>
      PROVE  \A w \in Worker : InStep(w)'
  <2> TAKE w \in Worker
  <2>1. Stream(w)' = Stream(w)
    BY <1>2 DEF Stream
  <2> QED BY <1>2, <2>1 DEF Data, InStep, StreamRight, WholeStream, BufferShort
<1>3. UNCHANGED cache => CacheRight'
  BY DEF Data, CacheRight
<1>4. CASE FromCache \/ EndRound \/ Return \/ UNCHANGED vars
  <2>1. UNCHANGED <<worker, callback, recv, throws, cache, queue>>
    BY <1>4 DEF FromCache, EndRound, Return, vars
  <2>2. \A w \in Worker : InStep(w)'
    BY <2>1, <1>2
  <2> QED BY <1>3, <2>1, <2>2 DEF Data
<1>5. CASE BeginRound
  <2>1. UNCHANGED <<worker, callback, recv, throws, cache>>
    BY <1>5 DEF BeginRound
  <2>2. \A w \in Worker : InStep(w)'
    BY <2>1, <1>2
  <2>3. Sorted(queue')
    BY <1>5, OrdersOf DEF BeginRound, TypeOK
  <2> QED BY <1>3, <2>1, <2>2, <2>3
<1>6. CASE \E w \in Worker : Transfer(w)
  <2>1. PICK w \in Worker : Transfer(w)
    BY <1>6
  <2>2. CASE Start(w)
    <3>1. UNCHANGED cache
      BY <2>2 DEF Start
    <3> QED BY <1>3, <2>2, <3>1, InStepStart
  <2>3. CASE \E n \in 1 .. Len(worker[w].body) : RecvData(w, n)
    <3>1. UNCHANGED <<cache, queue>>
      BY <2>3 DEF RecvData
    <3> QED BY <1>3, <2>3, <3>1, InStepRecvData DEF Data
  <2>4. CASE Done(w)
    <3>1. UNCHANGED <<cache, queue>>
      BY <2>4 DEF Done
    <3> QED BY <1>3, <2>4, <3>1, InStepDone DEF Data
  <2> QED BY <2>1, <2>2, <2>3, <2>4 DEF Transfer
<1>7. CASE Callback
  <2>1. UNCHANGED queue
    BY <1>7, CallbackJob
  <2> QED BY <1>7, <2>1, CacheCallback, InStepCallback DEF Data
<1> QED BY <1>4, <1>5, <1>6, <1>7 DEF Next

-----------------------------------------------------------------------------
(***************************************************************************)
(* The theorems                                                            *)
(***************************************************************************)

\* What IInv says is true of every state of get.
LEMMA Inductive == Spec => []IInv
<1>1. Init => IInv
  BY TypeInit, SharedInit, DataInit DEF IInv
<1>2. IInv /\ [Next]_vars => IInv'
  BY TypeStep, SharedStep, DataStep DEF IInv
<1> QED BY <1>1, <1>2, PTL DEF Spec

\* TypeOK: every variable of get holds what its comment says, and retry, the
\* rounds left, never passes below zero.
THEOREM FetchTyped == Spec => []TypeOK
<1>1. IInv => TypeOK
  BY DEF IInv
<1> QED BY <1>1, Inductive, PTL

-----------------------------------------------------------------------------
(***************************************************************************)
(* Counting the holders of a place                                         *)
(***************************************************************************)

LEMMA CountInList ==
    ASSUME NEW S, NEW s \in Seq(S), IsInjective(s), NEW d
    PROVE  Cardinality({i \in DOMAIN s : s[i] = d}) = IF d \in Range(s) THEN 1 ELSE 0
<1> DEFINE I == {i \in DOMAIN s : s[i] = d}
<1>1. CASE d \in Range(s)
  <2>1. PICK i \in DOMAIN s : s[i] = d
    BY <1>1 DEF Range
  <2>2. I = {i}
    BY <2>1 DEF IsInjective
  <2>3. Cardinality(I) = 1
    BY <2>2, FS_Singleton
  <2> QED BY <2>3, <1>1
<1>2. CASE d \notin Range(s)
  <2>1. I = {}
    BY <1>2 DEF Range
  <2>2. Cardinality(I) = 0
    BY <2>1, FS_EmptySet
  <2> QED BY <2>2, <1>2
<1> QED BY <1>1, <1>2

\* A list without repetitions is no longer than there are places.
LEMMA ShortList ==
    ASSUME NEW s \in Seq(Dst), IsInjective(s)
    PROVE  Len(s) <= Cardinality(Dst)
<1>1. s \in Injection(1 .. Len(s), Dst)
  <2>1. s \in [1 .. Len(s) -> Dst] /\ DOMAIN s = 1 .. Len(s)
    OBVIOUS
  <2> QED BY <2>1 DEF Injection, IsInjective
<1>2. Len(s) \in Nat /\ Cardinality(1 .. Len(s)) = Len(s)
  <2>1. Len(s) \in Nat
    OBVIOUS
  <2>2. Cardinality(1 .. Len(s)) = IF 1 > Len(s) THEN 0 ELSE Len(s) - 1 + 1
    BY <2>1, FS_Interval
  <2> QED BY <2>1, <2>2
<1>3. Cardinality(1 .. Len(s)) <= Cardinality(Dst)
  BY <1>1, DstAssumption, FS_Injection
<1> QED BY <1>2, <1>3

LEMMA CountInWorkers ==
    ASSUME TypeOK, RoundOfWanted, phase = "round", NEW d \in Dst
    PROVE  LET inWorkers == {<<w, i>> : w \in Worker, i \in 1 .. Cardinality(Dst)}
           IN  Cardinality({p \in inWorkers : /\ p[2] \in DOMAIN worker[p[1]].chunks
                                              /\ worker[p[1]].chunks[p[2]] = d})
               = IF d \in UNION {HeldBy(w) : w \in Worker} THEN 1 ELSE 0
<1> DEFINE N == Cardinality(Dst)
           inWorkers == {<<w, i>> : w \in Worker, i \in 1 .. N}
           P == {p \in inWorkers : /\ p[2] \in DOMAIN worker[p[1]].chunks
                                   /\ worker[p[1]].chunks[p[2]] = d}
<1>1. \A w \in Worker : /\ worker[w].chunks \in Seq(Dst) /\ IsInjective(worker[w].chunks)
                        /\ DOMAIN worker[w].chunks \subseteq 1 .. N
  <2> TAKE w \in Worker
  <2>1. worker[w].chunks \in Seq(Dst) /\ IsInjective(worker[w].chunks)
    BY DEF TypeOK, RoundOfWanted
  <2>2. Len(worker[w].chunks) <= N /\ N \in Nat
    BY <2>1, ShortList, DstAssumption, FS_CardinalityType
  <2> HIDE DEF N
  <2> QED BY <2>1, <2>2
<1> HIDE DEF N
<1>2. \A p \in P : \E w \in Worker, i \in 1 .. N : /\ p = <<w, i>> /\ i \in DOMAIN worker[w].chunks
                                                   /\ worker[w].chunks[i] = d
  OBVIOUS
<1>3. CASE d \in UNION {HeldBy(w) : w \in Worker}
  <2>1. PICK w \in Worker : d \in HeldBy(w)
    BY <1>3
  <2>2. PICK i \in DOMAIN worker[w].chunks : worker[w].chunks[i] = d
    BY <2>1 DEF HeldBy, Range
  <2>3. <<w, i>> \in P
    BY <1>1, <2>2
  <2>4. \A v \in Worker, j \in 1 .. N : j \in DOMAIN worker[v].chunks /\ worker[v].chunks[j] = d
            => v = w /\ j = i
    <3> TAKE v \in Worker, j \in 1 .. N
    <3> SUFFICES ASSUME j \in DOMAIN worker[v].chunks, worker[v].chunks[j] = d
                 PROVE  v = w /\ j = i
      OBVIOUS
    <3>1. d \in HeldBy(v)
      BY DEF HeldBy, Range
    <3>2. v = w
      BY <2>1, <3>1 DEF RoundOfWanted
    <3> QED BY <3>2, <1>1, <2>2 DEF IsInjective
  <2>5. P = {<<w, i>>}
    <3> HIDE DEF P
    <3> QED BY <1>2, <2>3, <2>4
  <2>6. Cardinality(P) = 1
    <3> HIDE DEF P
    <3> QED BY <2>5, FS_Singleton
  <2> QED BY <2>6, <1>3 DEF N
<1>4. CASE d \notin UNION {HeldBy(w) : w \in Worker}
  <2>1. P = {}
    <3>1. \A w \in Worker : \A i \in DOMAIN worker[w].chunks : worker[w].chunks[i] # d
      BY <1>4 DEF HeldBy, Range
    <3> HIDE DEF P
    <3> QED BY <1>2, <3>1
  <2>2. Cardinality(P) = 0
    <3> HIDE DEF P
    <3> QED BY <2>1, FS_EmptySet
  <2> QED BY <2>2, <1>4 DEF N
<1> QED BY <1>3, <1>4

\* A place is held once while it is wanted, and then no more.
LEMMA HeldWanted ==
    ASSUME IInv, NEW d \in Dst
    PROVE  Held[d] = IF d \in Wanted THEN 1 ELSE 0
<1>1. /\ chunks \in Seq(Dst) /\ queue \in Seq(Dst) /\ failed \in Seq(Dst)
      /\ phase \in {"called", "between", "round", "returned"}
  BY DEF IInv, TypeOK
<1>2. CASE phase # "round"
  <2>1. Held[d] = Cardinality({i \in DOMAIN chunks : chunks[i] = d})
    BY <1>1, <1>2 DEF Held
  <2>2. IsInjective(chunks) /\ Range(chunks) = Wanted
    BY <1>2 DEF IInv, Shared, ListOfWanted
  <2>3. Cardinality({i \in DOMAIN chunks : chunks[i] = d}) = IF d \in Range(chunks) THEN 1 ELSE 0
    BY <1>1, <2>2, CountInList
  <2> QED BY <2>1, <2>2, <2>3
<1>3. CASE phase = "round"
  <2> DEFINE inWorkers == {<<w, i>> : w \in Worker, i \in 1 .. Cardinality(Dst)}
             q == Cardinality({i \in DOMAIN queue : queue[i] = d})
             f == Cardinality({i \in DOMAIN failed : failed[i] = d})
             k == Cardinality({p \in inWorkers : /\ p[2] \in DOMAIN worker[p[1]].chunks
                                                 /\ worker[p[1]].chunks[p[2]] = d})
             U == UNION {HeldBy(w) : w \in Worker}
  <2>1. Held[d] = q + f + k
    BY <1>3 DEF Held
  <2>2. RoundOfWanted /\ TypeOK
    BY DEF IInv, Shared
  <2>3. q = IF d \in Range(queue) THEN 1 ELSE 0
    BY <1>1, <1>3, <2>2, CountInList DEF RoundOfWanted
  <2>4. f = IF d \in Range(failed) THEN 1 ELSE 0
    BY <1>1, <1>3, <2>2, CountInList DEF RoundOfWanted
  <2>5. k = IF d \in U THEN 1 ELSE 0
    BY <1>3, <2>2, CountInWorkers
  <2>6. Wanted = Range(queue) \cup Range(failed) \cup U
    BY <1>3, <2>2 DEF RoundOfWanted
  <2>7. Range(queue) \cap Range(failed) = {} /\ U \cap (Range(queue) \cup Range(failed)) = {}
    BY <1>3, <2>2 DEF RoundOfWanted
  <2> HIDE DEF q, f, k, U
  <2> QED BY <2>1, <2>3, <2>4, <2>5, <2>6, <2>7
<1> QED BY <1>2, <1>3

\* DeliveredOnce: no order of fragments, lost connections, exceptions and rounds
\* loses a place of the caller's file, has it fetched twice at a time or delivers
\* it twice, and what is delivered or stored is the chunk that was asked for.
THEOREM PlacesDeliveredOnce == Spec => []DeliveredOnce
<1>1. IInv => DeliveredOnce
  <2> SUFFICES ASSUME IInv PROVE DeliveredOnce
    OBVIOUS
  <2>1. ASSUME NEW d \in Dst
        PROVE  /\ Held[d] + Len(delivered[d]) = 1
               /\ \A i \in DOMAIN delivered[d] : delivered[d][i] = d.id
    <3>1. Held[d] = IF delivered[d] = <<>> THEN 1 ELSE 0
      BY HeldWanted DEF Wanted
    <3>2. delivered[d] \in {<<>>, <<d.id>>}
      BY DEF IInv, Data, DeliveredRight
    <3>3. CASE delivered[d] = <<>>
      <4>1. Len(delivered[d]) = 0 /\ DOMAIN delivered[d] = {}
        BY <3>3
      <4> QED BY <3>1, <3>3, <4>1
    <3>4. CASE delivered[d] = <<d.id>>
      <4>1. /\ Len(delivered[d]) = 1 /\ DOMAIN delivered[d] = 1 .. 1 /\ delivered[d][1] = d.id
            /\ delivered[d] # <<>>
        BY <3>4
      <4>2. 1 .. 1 = {1}
        OBVIOUS
      <4> QED BY <3>1, <4>1, <4>2
    <3> QED BY <3>2, <3>3, <3>4
  <2> QED BY <2>1 DEF DeliveredOnce, IInv, Data, CacheRight
<1> QED BY <1>1, Inductive, PTL

\* WholeBodyDelivers: a body that held the whole range delivered all of it, unless
\* the cache or the caller's callback threw: what the callback of recv_data keeps
\* in its buffer is never a chunk, however curl cuts the body.
THEOREM WholeBodiesDeliver == Spec => []WholeBodyDelivers
<1>1. IInv => WholeBodyDelivers
  <2> SUFFICES ASSUME IInv, throws = 0, NEW w \in Busy, worker[w].whole,
                      worker[w].body = <<>>, callback # w, worker[w].chunks # <<>>
               PROVE  FALSE
    BY DEF WholeBodyDelivers
  <2> DEFINE ds == worker[w].chunks
             s == worker[w].buffer
  <2>1. w \in Worker /\ ds \in Seq(Dst) /\ s \in Seq(Cell)
    BY DEF IInv, TypeOK, Busy
  <2>2. Stream(w) = s
    <3>1. Stream(w) = (s \o <<>>) \o <<>>
      BY DEF Stream
    <3> QED BY <3>1, <2>1
  <2>3. ~worker[w].stopped /\ HasCells(ds, s)
    BY <2>1, <2>2 DEF IInv, Data, InStep, WholeStream
  <2>4. Len(s) < Size[ds[1].id]
    BY <2>1, <2>3 DEF IInv, Data, InStep, BufferShort
  <2>5. 1 \in DOMAIN ds /\ Size[ds[1].id] \in Nat \ {0} /\ Offset[ds[1].id] \in Nat
    <3>1. 1 \in DOMAIN ds /\ ds[1] \in Dst
      BY <2>1
    <3> QED BY <3>1, PlaceType
  <2>6. Size[ds[1].id] \in DOMAIN s
    <3> HIDE DEF ds, s
    <3> DEFINE z == Size[ds[1].id]
               o == Offset[ds[1].id]
    <3>1. z \in 1 .. z /\ o - o + z = z
      BY <2>5
    <3>2. o - o + z \in DOMAIN s
      BY <2>3, <2>5, <3>1 DEF HasCells
    <3> QED BY <3>1, <3>2
  <2> QED BY <2>1, <2>4, <2>5, <2>6
<1> QED BY <1>1, Inductive, PTL

-----------------------------------------------------------------------------
(***************************************************************************)
(* get implements Delivery                                                 *)
(***************************************************************************)

\* What Delivery has as written is what is no longer wanted.
LEMMA WrittenType ==
    ASSUME NEW f \in [Dst -> Seq(Chunk)], \A d \in Dst : f[d] \in {<<>>, <<d.id>>}
    PROVE  {[id |-> f[d][Len(f[d])], at |-> d.at] : d \in {e \in Dst : f[e] # <<>>}}
           = {d \in Dst : f[d] # <<>>}
<1>1. ASSUME NEW d \in Dst, f[d] # <<>>
      PROVE  [id |-> f[d][Len(f[d])], at |-> d.at] = d
  <2>1. f[d] = <<d.id>> /\ Len(f[d]) = 1
    BY <1>1
  <2>2. f[d][Len(f[d])] = d.id
    BY <2>1
  <2> QED BY <2>2, DstAssumption
<1> QED BY <1>1

\* Nothing that was delivered is wanted again, and nothing happens after the return.
LEMMA WantedStep ==
    ASSUME IInv, [Next]_vars
    PROVE  /\ Wanted' \subseteq Wanted
           /\ (phase = "returned") # (phase' = "returned") =>
                /\ phase # "returned" /\ Wanted' = Wanted
           /\ phase = "returned" => Wanted' = Wanted
<1>1. TypeOK /\ Shared /\ Data
  BY DEF IInv
<1>2. CASE FromCache
  BY <1>1, <1>2 DEF FromCache, Wanted, Data, NothingBefore
<1>3. CASE BeginRound \/ EndRound \/ Return \/ UNCHANGED vars
  BY <1>3 DEF BeginRound, EndRound, Return, vars, Wanted
<1>4. CASE \E w \in Worker : Transfer(w)
  BY <1>4 DEF Transfer, Start, RecvData, Done, Wanted
<1>5. CASE Callback
  <2>1. callback # NoWorker /\ UNCHANGED phase
    BY <1>1, <1>5, CallbackJob DEF Callback, Keep, TooMuch, TakeChunk, BadFrame, TakeThrows
  <2>2. phase = "round"
    BY <1>1, <2>1 DEF Shared, Idle
  <2>3. UNCHANGED delivered \/ \E c \in Chunk, n \in 0 .. Len(Me.chunks) : Deliver(c, n)
    BY <1>1, <1>5, CallbackJob
  <2>4. \A d \in Dst : delivered[d] # <<>> => delivered'[d] # <<>>
    <3>1. CASE UNCHANGED delivered
      BY <3>1
    <3>2. ASSUME NEW c \in Chunk, NEW n \in 0 .. Len(Me.chunks), Deliver(c, n)
          PROVE  \A d \in Dst : delivered[d] # <<>> => delivered'[d] # <<>>
      <4> SUFFICES ASSUME NEW d \in Dst, delivered[d] # <<>>
                   PROVE  delivered'[d] # <<>>
        OBVIOUS
      <4>1. delivered'[d] \in {delivered[d], Append(delivered[d], c)}
        BY <3>2 DEF Deliver
      <4>2. delivered[d] \in Seq(Chunk)
        BY <1>1 DEF TypeOK
      <4>3. Append(delivered[d], c) # <<>>
        BY <4>2
      <4> QED BY <4>1, <4>3
    <3> QED BY <2>3, <3>1, <3>2
  <2> QED BY <2>1, <2>2, <2>4 DEF Wanted
<1> QED BY <1>2, <1>3, <1>4, <1>5 DEF Next

\* The safety part of FetchSpec: what a caller of get sees is a behaviour of
\* Delivery: chunks are written, right and to their places, each time some that
\* are still wanted, until get returns, and nothing is written after that.
THEOREM DeliversAsPromised == Spec => Fetch!Init /\ [][Fetch!Next]_(Fetch!vars)
<1>1. Init => Fetch!Init
  <2> SUFFICES ASSUME Init PROVE Fetch!Init
    OBVIOUS
  <2>1. \A d \in Dst : delivered[d] = <<>>
    BY DEF Init
  <2>2. phase # "returned"
    BY DEF Init
  <2> QED BY <2>1, <2>2 DEF Fetch!Init
<1>2. IInv /\ IInv' /\ [Next]_vars => [Fetch!Next]_(Fetch!vars)
  <2> SUFFICES ASSUME IInv, IInv', [Next]_vars PROVE [Fetch!Next]_(Fetch!vars)
    OBVIOUS
  <2> DEFINE wanted == {d \in Dst : delivered[d] = <<>>}
             written == {[id |-> delivered[d][Len(delivered[d])], at |-> d.at] :
                             d \in {e \in Dst : delivered[e] # <<>>}}
  <2>1. written = {d \in Dst : delivered[d] # <<>>}
    BY WrittenType DEF IInv, TypeOK, Data, DeliveredRight
  <2>2. written' = {d \in Dst : delivered'[d] # <<>>}
    BY WrittenType DEF IInv, TypeOK, Data, DeliveredRight
  <2>3. /\ wanted' \subseteq wanted
        /\ (phase = "returned") # (phase' = "returned") =>
                /\ phase # "returned" /\ wanted' = wanted
        /\ phase = "returned" => wanted' = wanted
    BY WantedStep DEF Wanted
  <2>4. wanted' = {d \in Dst : delivered'[d] = <<>>}
    OBVIOUS
  <2>5. written = Dst \ wanted /\ written' = Dst \ wanted' /\ wanted \subseteq Dst
    BY <2>1, <2>2, <2>4
  <2> HIDE DEF wanted, written
  <2>6. CASE (phase = "returned") # (phase' = "returned")
    <3>1. /\ ~(phase = "returned") /\ (phase' = "returned") = TRUE
          /\ wanted' = wanted /\ written' = written
      BY <2>3, <2>5, <2>6
    <3> QED BY <3>1 DEF Fetch!Next, Fetch!Return, Fetch!vars, wanted, written
  <2>7. CASE (phase = "returned") = (phase' = "returned") /\ wanted' = wanted
    <3>1. written' = written
      BY <2>5, <2>7
    <3> QED BY <3>1, <2>7 DEF Fetch!vars, wanted, written
  <2>8. CASE (phase = "returned") = (phase' = "returned") /\ wanted' # wanted
    <3> DEFINE some == wanted \ wanted'
    <3>1. some \in (SUBSET wanted) \ {{}} /\ wanted' = wanted \ some /\ written' = written \cup some
      BY <2>3, <2>5, <2>8
    <3>2. ~(phase = "returned") /\ (phase' = "returned") = (phase = "returned")
      BY <2>3, <2>8
    <3>3. \E x \in (SUBSET wanted) \ {{}} : wanted' = wanted \ x /\ written' = written \cup x
      BY <3>1
    <3> QED BY <3>2, <3>3 DEF Fetch!Next, Fetch!Deliver, wanted, written
  <2> QED BY <2>6, <2>7, <2>8
<1> QED BY <1>1, <1>2, Inductive, PTL DEF Spec
=============================================================================
