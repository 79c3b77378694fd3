----------------------------- MODULE RemakeProofs -----------------------------
(***************************************************************************)
(* rman-remake --strip-chunks, for every list of input files, every size   *)
(* of the resume buffer, and any number of runs, kills and failed writes:  *)
(* the manifest is right, restored files included, can be read from the    *)
(* bundle, and nothing is processed twice.                                 *)
(***************************************************************************)
EXTENDS Remake, TLAPS

Elements(s) == {s[i] : i \in DOMAIN s}

-----------------------------------------------------------------------------
(***************************************************************************)
(* The inductive invariant                                                 *)
(***************************************************************************)

Done == Len(Files) - Len(todo)

\* The files are read in their order.
TodoLeft ==
    /\ Len(todo) <= Len(Files)
    /\ todo = SubSeq(Files, Done + 1, Len(Files))

\* Between the runs nothing is processed; in one, a file is.
AtFile ==
    /\ runs = 0 => pc = "off" /\ manifest = <<>> /\ mode.base = 0
    /\ pc = "chunks" =>
         /\ todo # <<>> /\ chunks # NIL
         /\ Len(chunks) <= Len(Head(todo).data)
         /\ \A i \in DOMAIN chunks : chunks[i] = Ref(Head(todo).data[i], 1)
    /\ pc \in {"save", "write"} => todo # <<>> /\ NFile = Output(Head(todo))

\* What is saved of a file, and what is read again, is of an output.
SavedRight ==
    ~mixed => \A e \in entries \cup Elements(resume) \cup Elements(buffer) :
        \E f \in File : e = Entry(Output(f))

\* The part of the manifest that this run wrote.  An entry of the resume file has at
\* most one chunk of its file, which is all of it only with --strip-chunks.
OwnRight ==
    runs > 0 =>
        /\ Len(manifest) = mode.base + Done
        /\ Strip /\ ~mixed => \A i \in 1 .. Done : manifest[mode.base + i] = Output(Files[i])

MadeInv == TodoLeft /\ AtFile /\ SavedRight /\ OwnRight

\* While no write failed, the resume file and its buffer have all entries that the
\* program has, and those of all files that it wrote.
Journaled ==
    fails = 0 /\ pc # "off" =>
        /\ size = Len(resume)
        /\ entries \subseteq Elements(resume) \cup Elements(buffer)
        /\ \A i \in mode.base + 1 .. Len(manifest) : \E e \in entries : e.file = manifest[i].file
        /\ pc = "write" => \E e \in entries : e.file = NFile.file
        /\ pc = "close" => buffer = <<>>

JournalInv == Journaled /\ NothingTwice

\* The list and the chunks of a file are in the bundle.
InBundle(f) == f.data \in stored /\ \A k \in DOMAIN f.data : f.data[k] \in stored

\* What is processed is put in the bundle first.
Bundled ==
    /\ pc = "chunks" => \A i \in DOMAIN chunks : chunks[i].id \in stored
    /\ pc \in {"save", "write"} => InBundle(Head(todo))

\* As long as no run was killed, what the resume file knows is there.
SavedBundled ==
    kills = 0 /\ ~mixed => \A f \in File :
        Entry(Output(f)) \in entries \cup Elements(resume) \cup Elements(buffer) => InBundle(f)

\* A run that was killed is the last, or its bundle was opened again.
Survived ==
    /\ kills = 0 \/ pc # "off" => mode.ended # "killed"
    /\ pc = "off" /\ mode.ended # "killed" => durable = stored

ReadableNow ==
    Strip /\ ~mixed /\ mode.ended # "killed" => \A i \in DOMAIN manifest :
        kills = 0 \/ (i > mode.base /\ manifest[i].file \notin mode.restored)
            => Readable(manifest[i], stored)

BundleInv == Bundled /\ SavedBundled /\ Survived /\ ReadableNow

IInv == TypeOK /\ MadeInv /\ JournalInv /\ BundleInv

-----------------------------------------------------------------------------
(***************************************************************************)
(* Files and what is made of them                                          *)
(***************************************************************************)

LEMMA SeqOfFunction ==
    ASSUME NEW S, NEW n \in Nat, NEW s \in [1 .. n -> S]
    PROVE  s \in Seq(S) /\ Len(s) = n
  OBVIOUS

LEMMA HeadAndTail ==
    ASSUME NEW S, NEW s \in Seq(S), s # <<>>
    PROVE  /\ s[1] \in S /\ Head(s) = s[1] /\ 1 \in DOMAIN s
           /\ Tail(s) \in Seq(S) /\ Len(Tail(s)) = Len(s) - 1
           /\ \A i \in 1 .. Len(s) - 1 : Tail(s)[i] = s[i + 1]
  OBVIOUS

LEMMA CutOff ==
    ASSUME NEW S, NEW s \in Seq(S), NEW n \in Nat
    PROVE  LET t == SubSeq(s, n + 1, Len(s))
           IN  /\ t \in Seq(S)
               /\ Len(t) = IF n <= Len(s) THEN Len(s) - n ELSE 0
               /\ \A i \in 1 .. Len(t) : n + i \in 1 .. Len(s) /\ t[i] = s[n + i]
  OBVIOUS

LEMMA Joined ==
    ASSUME NEW S, NEW s \in Seq(S), NEW t \in Seq(S)
    PROVE  /\ s \o t \in Seq(S)
           /\ Len(s \o t) = Len(s) + Len(t)
           /\ \A i \in 1 .. Len(s) : (s \o t)[i] = s[i]
           /\ \A i \in Len(s) + 1 .. Len(s) + Len(t) : (s \o t)[i] = t[i - Len(s)]
  OBVIOUS

\* The first chunk that an entry refers to.
LEMMA FirstType ==
    ASSUME NEW s \in Seq([id : Piece, size : Nat]), s # <<>>
    PROVE  s[1].id \in Piece
<1> DEFINE R == [id : Piece, size : Nat]
<1> HIDE DEF R
<1>1. s \in Seq(R)
  BY DEF R
<1>2. s[1] \in R
  BY <1>1, HeadAndTail
<1> QED BY <1>2 DEF R

LEMMA FileType ==
    ASSUME NEW f \in File
    PROVE  /\ f.id \in Id /\ f.data \in Lists /\ f.data \in Seq(Piece) /\ f.data \in Item
           /\ Output(f) \in [file : Id, list : Lists, chunks : ChunkList]
           /\ Entry(Output(f)) \in SavedFile
           /\ Entry(Output(f)).file = f.id /\ Entry(Output(f)).list = f.data
           /\ Output(f).file = f.id /\ Output(f).list = f.data
<1> DEFINE refs == [i \in DOMAIN f.data |-> Ref(f.data[i], 1)]
<1>1. f.data \in Seq(Piece)
  BY FilesAssumption
<1>2. f.id \in Id /\ f.data \in Lists /\ f.data \in Item
  BY DEF Id, Lists, Item
<1>3. refs \in Seq([id : Piece, size : Nat]) /\ Len(refs) = Len(f.data)
  <2>1. \A i \in DOMAIN f.data : f.data[i] \in Piece
    BY <1>1
  <2>2. DOMAIN f.data = 1 .. Len(f.data) /\ Len(f.data) \in Nat
    BY <1>1
  <2>3. refs \in [1 .. Len(f.data) -> [id : Piece, size : Nat]]
    BY <2>1, <2>2 DEF Ref
  <2> HIDE DEF refs
  <2> QED BY <2>2, <2>3, SeqOfFunction
<1>4. Output(f).chunks = Stripped(refs) /\ Output(f).file = f.id /\ Output(f).list = f.data
  BY DEF Output
<1> HIDE DEF refs
<1>5. Stripped(refs) \in ChunkList
  BY <1>3 DEF Stripped, ChunkList
<1>6. Output(f) \in [file : Id, list : Lists, chunks : ChunkList]
  BY <1>2, <1>4, <1>5 DEF Output
<1>7. Saved(Output(f)) \in Piece \cup {NIL, ZERO}
  <2>1. CASE Output(f).chunks = NIL
    BY <2>1 DEF Saved
  <2>2. CASE Output(f).chunks = <<>>
    BY <2>2 DEF Saved
  <2>3. CASE Output(f).chunks # NIL /\ Output(f).chunks # <<>>
    <3>1. Output(f).chunks \in Seq([id : Piece, size : Nat])
      BY <1>4, <1>5, <2>3 DEF ChunkList
    <3>2. Output(f).chunks[1].id \in Piece
      BY <3>1, <2>3, FirstType
    <3> QED BY <2>3, <3>2 DEF Saved
  <2> QED BY <2>1, <2>2, <2>3
<1>8. /\ Entry(Output(f)) \in SavedFile
      /\ Entry(Output(f)).file = f.id /\ Entry(Output(f)).list = f.data
  BY <1>2, <1>4, <1>7 DEF Entry, SavedFile
<1> QED BY <1>1, <1>2, <1>4, <1>6, <1>8

\* With --strip-chunks the resume file keeps all that is in the entry of a file.
LEMMA RestoredIsOutput ==
    ASSUME Strip, NEW f \in File, NEW g \in File, f.id = g.id
    PROVE  Restored(Entry(Output(f)), Len(g.data)) = Output(g)
<1>1. f.data = g.data
  BY FilesAssumption
<1>2. Output(f) = Output(g)
  BY <1>1 DEF Output
<1> DEFINE refs == [i \in DOMAIN g.data |-> Ref(g.data[i], 1)]
<1>3. g.data \in Seq(Piece) /\ Output(g).chunks = Stripped(refs)
      /\ Output(g) = [file |-> g.id, list |-> g.data, chunks |-> Stripped(refs)]
  BY FileType DEF Output
<1>4. refs \in Seq([id : Piece, size : Nat]) /\ Len(refs) = Len(g.data)
      /\ \A i \in 1 .. Len(g.data) : refs[i] = Ref(g.data[i], 1) /\ g.data[i] \in Piece
  <2>1. /\ \A i \in 1 .. Len(g.data) : g.data[i] \in Piece
        /\ DOMAIN g.data = 1 .. Len(g.data) /\ Len(g.data) \in Nat
    BY <1>3
  <2>2. refs \in [1 .. Len(g.data) -> [id : Piece, size : Nat]]
    BY <2>1 DEF Ref
  <2>3. \A i \in 1 .. Len(g.data) : refs[i] = Ref(g.data[i], 1)
    BY <2>1
  <2> HIDE DEF refs
  <2> QED BY <2>1, <2>2, <2>3, SeqOfFunction
<1>5. /\ Entry(Output(g)).file = g.id /\ Entry(Output(g)).list = g.data
      /\ Entry(Output(g)).chunk = Saved(Output(g))
  BY <1>3 DEF Entry
<1> HIDE DEF refs
<1>6. CASE Len(g.data) > 1
  <2>1. Output(g).chunks = NIL
    BY <1>3, <1>4, <1>6 DEF Stripped
  <2>2. Saved(Output(g)) = NIL
    BY <2>1 DEF Saved
  <2> QED BY <1>2, <1>3, <1>5, <2>1, <2>2 DEF Restored
<1>7. CASE Len(g.data) = 0
  <2>1. Stripped(refs) = <<>>
    BY <1>3, <1>4, <1>7 DEF Stripped
  <2>2. <<>> # NIL
    <3>1. <<>> \in Seq([id : Piece, size : Nat])
      OBVIOUS
    <3> QED BY <3>1, NoChunkAssumption
  <2>3. Saved(Output(g)) = ZERO
    BY <1>3, <2>1, <2>2 DEF Saved
  <2> QED BY <1>2, <1>3, <1>5, <2>1, <2>3, NoChunkAssumption DEF Restored
<1>8. CASE Len(g.data) = 1
  <2>1. refs[1] = Ref(g.data[1], 1) /\ g.data[1] \in Piece
    BY <1>4, <1>8
  <2>2. refs = <<Ref(g.data[1], 1)>>
    BY <1>4, <1>8, <2>1
  <2>3. Stripped(refs) = refs /\ refs # <<>> /\ refs # NIL
    BY <1>4, <1>8, NoChunkAssumption DEF Stripped
  <2>4. Saved(Output(g)) = g.data[1]
    BY <1>3, <2>1, <2>3 DEF Saved, Ref
  <2> QED BY <1>2, <1>3, <1>5, <1>8, <2>1, <2>2, <2>3, <2>4, NoChunkAssumption DEF Restored
<1> DEFINE n == Len(g.data)
<1>9. n \in Nat
  BY <1>3
<1> HIDE DEF n
<1>10. n > 1 \/ n = 0 \/ n = 1
  BY <1>9
<1> QED BY <1>6, <1>7, <1>8, <1>10 DEF n

\* A file whose list and chunks are in the bundle can be read from it.
LEMMA BundledIsReadable ==
    ASSUME NEW f \in File, InBundle(f)
    PROVE  Readable(Output(f), stored)
<1> DEFINE refs == [i \in DOMAIN f.data |-> Ref(f.data[i], 1)]
<1>1. Output(f).chunks = Stripped(refs) /\ Output(f).list = f.data
  BY DEF Output
<1>2. Refs(Output(f)) = refs
  BY <1>1, NoChunkAssumption DEF Refs, Stripped
<1>3. \A i \in DOMAIN refs : refs[i].size = 1 /\ refs[i].id = f.data[i] /\ i \in DOMAIN f.data
  BY DEF Ref
<1> HIDE DEF refs
<1> QED BY <1>1, <1>2, <1>3 DEF Readable, InBundle

-----------------------------------------------------------------------------
(***************************************************************************)
(* A write of the resume file                                              *)
(***************************************************************************)

LEMMA ThreeJoined ==
    ASSUME NEW S, NEW a \in Seq(S), NEW b \in Seq(S), NEW c \in Seq(S)
    PROVE  /\ (a \o b) \o c \in Seq(S)
           /\ Len((a \o b) \o c) = Len(a) + Len(b) + Len(c)
           /\ \A i \in 1 .. Len(a) : ((a \o b) \o c)[i] = a[i]
           /\ \A i \in Len(a) + 1 .. Len(a) + Len(b) : ((a \o b) \o c)[i] = b[i - Len(a)]
           /\ \A i \in Len(a) + Len(b) + 1 .. Len(a) + Len(b) + Len(c) :
                 ((a \o b) \o c)[i] = c[i - (Len(a) + Len(b))]
<1> DEFINE d == a \o b
           s == d \o c
<1>1. /\ d \in Seq(S) /\ Len(d) = Len(a) + Len(b)
      /\ \A i \in 1 .. Len(a) : d[i] = a[i]
      /\ \A i \in Len(a) + 1 .. Len(a) + Len(b) : d[i] = b[i - Len(a)]
  BY Joined
<1> HIDE DEF d
<1>2. /\ s \in Seq(S) /\ Len(s) = Len(d) + Len(c)
      /\ \A i \in 1 .. Len(d) : s[i] = d[i]
      /\ \A i \in Len(d) + 1 .. Len(d) + Len(c) : s[i] = c[i - Len(d)]
  <2>1. d \in Seq(S) /\ c \in Seq(S)
    BY <1>1
  <2> QED BY ONLY <2>1, Joined
<1> HIDE DEF s
<1>3. Len(a) \in Nat /\ Len(b) \in Nat /\ Len(c) \in Nat
  OBVIOUS
<1>4. /\ Len(s) = Len(a) + Len(b) + Len(c)
      /\ \A i \in 1 .. Len(a) : s[i] = a[i]
      /\ \A i \in Len(a) + 1 .. Len(a) + Len(b) : s[i] = b[i - Len(a)]
      /\ \A i \in Len(a) + Len(b) + 1 .. Len(a) + Len(b) + Len(c) :
            s[i] = c[i - (Len(a) + Len(b))]
  BY <1>1, <1>2, <1>3
<1> QED BY <1>2, <1>4 DEF s, d

LEMMA ReachesFacts ==
    ASSUME resume \in Seq(SavedFile), size \in 0 .. Len(resume), torn \in BOOLEAN, mixed \in BOOLEAN,
           NEW new \in Seq(SavedFile), NEW n \in 0 .. Len(new), NEW part \in BOOLEAN,
           part => n < Len(new), Reaches(new, n, part)
    PROVE  /\ resume' \in Seq(SavedFile) /\ torn' \in BOOLEAN /\ mixed' \in BOOLEAN
           /\ (mixed => mixed')
           /\ size + n <= Len(resume')
           /\ ~mixed' => Elements(resume') \subseteq Elements(resume) \cup Elements(new)
           /\ size = Len(resume) /\ n = Len(new) /\ ~part =>
                /\ Len(resume') = size + Len(new)
                /\ Elements(resume) \cup Elements(new) \subseteq Elements(resume')
<1> DEFINE L == Len(resume)
           kept == SubSeq(resume, 1, size)
           got == SubSeq(new, 1, n)
           rest == SubSeq(resume, size + n + 1, L)
           over == part /\ rest # <<>>
           mix == [Head(rest) EXCEPT !.file = new[n + 1].file]
           end == IF over THEN <<mix>> \o Tail(rest) ELSE rest
<1>1. /\ kept \in Seq(SavedFile) /\ Len(kept) = size /\ \A i \in 1 .. size : kept[i] = resume[i]
      /\ got \in Seq(SavedFile) /\ Len(got) = n /\ \A i \in 1 .. n : got[i] = new[i]
      /\ L \in Nat /\ size \in Nat /\ n \in Nat /\ size <= L /\ n <= Len(new)
  OBVIOUS
<1>2. /\ rest \in Seq(SavedFile)
      /\ \A i \in DOMAIN rest : i \in Nat /\ size + n + i \in 1 .. L /\ rest[i] = resume[size + n + i]
      /\ size = L => rest = <<>>
  <2> DEFINE m == size + n
  <2>1. m \in Nat /\ m >= size /\ L = Len(resume) /\ rest = SubSeq(resume, m + 1, Len(resume))
    BY <1>1
  <2> HIDE DEF m, rest, L
  <2>2. /\ rest \in Seq(SavedFile)
        /\ Len(rest) = IF m <= Len(resume) THEN Len(resume) - m ELSE 0
        /\ \A i \in 1 .. Len(rest) : m + i \in 1 .. Len(resume) /\ rest[i] = resume[m + i]
    BY <2>1, CutOff
  <2>3. size = L => Len(rest) = 0
    BY <1>1, <2>1, <2>2
  <2> QED BY <2>1, <2>2, <2>3 DEF m
<1>3. end \in Seq(SavedFile)
  <2>1. CASE ~over
    BY <2>1, <1>2
  <2>2. CASE over
    <3>1. new[n + 1] \in SavedFile
      BY <1>1, <2>2
    <3>2. Head(rest) \in SavedFile /\ Tail(rest) \in Seq(SavedFile)
      BY <1>2, <2>2
    <3> HIDE DEF rest
    <3>3. mix \in SavedFile
      BY <3>1, <3>2 DEF SavedFile
    <3> HIDE DEF mix
    <3> QED BY <3>2, <3>3, <2>2
  <2> QED BY <2>1, <2>2
<1>4. /\ resume' = (kept \o got) \o end
      /\ mixed' = (mixed \/ over) /\ torn' \in BOOLEAN
  BY DEF Reaches
<1> HIDE DEF kept, got, end, L
<1>5. /\ resume' \in Seq(SavedFile) /\ Len(resume') = size + n + Len(end)
      /\ \A i \in 1 .. size : resume'[i] = kept[i]
      /\ \A i \in size + 1 .. size + n : resume'[i] = got[i - size]
      /\ \A i \in size + n + 1 .. size + n + Len(end) : resume'[i] = end[i - (size + n)]
  <2>1. /\ (kept \o got) \o end \in Seq(SavedFile)
        /\ Len((kept \o got) \o end) = Len(kept) + Len(got) + Len(end)
        /\ \A i \in 1 .. Len(kept) : ((kept \o got) \o end)[i] = kept[i]
        /\ \A i \in Len(kept) + 1 .. Len(kept) + Len(got) :
              ((kept \o got) \o end)[i] = got[i - Len(kept)]
        /\ \A i \in Len(kept) + Len(got) + 1 .. Len(kept) + Len(got) + Len(end) :
              ((kept \o got) \o end)[i] = end[i - (Len(kept) + Len(got))]
    <3>1. kept \in Seq(SavedFile) /\ got \in Seq(SavedFile) /\ end \in Seq(SavedFile)
      BY <1>1, <1>3
    <3> QED BY ONLY <3>1, ThreeJoined
  <2> DEFINE t == (kept \o got) \o end
  <2>2. resume' = t
    BY <1>4
  <2>3. /\ t \in Seq(SavedFile) /\ Len(t) = Len(kept) + Len(got) + Len(end)
        /\ \A i \in 1 .. Len(kept) : t[i] = kept[i]
        /\ \A i \in Len(kept) + 1 .. Len(kept) + Len(got) : t[i] = got[i - Len(kept)]
        /\ \A i \in Len(kept) + Len(got) + 1 .. Len(kept) + Len(got) + Len(end) :
              t[i] = end[i - (Len(kept) + Len(got))]
    BY <2>1
  <2> HIDE DEF t
  <2> QED BY <1>1, <2>2, <2>3
<1>6. Len(end) \in Nat /\ DOMAIN resume' = 1 .. size + n + Len(end)
  BY <1>3, <1>5
<1>7. ASSUME ~mixed' PROVE Elements(resume') \subseteq Elements(resume) \cup Elements(new)
  <2>1. end = rest
    BY <1>4, <1>7 DEF end
  <2>2. ASSUME NEW i \in DOMAIN resume' PROVE resume'[i] \in Elements(resume) \cup Elements(new)
    <3>1. CASE i \in 1 .. size
      <4>1. i \in DOMAIN resume /\ resume'[i] = resume[i]
        BY <3>1, <1>1, <1>5 DEF L
      <4> QED BY <4>1 DEF Elements
    <3>2. CASE i \in size + 1 .. size + n
      <4>1. i - size \in 1 .. n /\ i - size \in DOMAIN new
        BY <3>2, <1>1
      <4>2. resume'[i] = new[i - size]
        BY <3>2, <4>1, <1>1, <1>5
      <4> QED BY <4>1, <4>2 DEF Elements
    <3>3. CASE i \in size + n + 1 .. size + n + Len(end)
      <4> DEFINE j == i - (size + n)
      <4>1. j \in DOMAIN rest /\ resume'[i] = rest[j]
        BY <3>3, <1>1, <1>2, <1>3, <1>5, <2>1
      <4> HIDE DEF j
      <4>2. size + n + j \in DOMAIN resume /\ rest[j] = resume[size + n + j]
        BY <4>1, <1>2 DEF L
      <4> QED BY <4>1, <4>2 DEF Elements
    <3> QED BY <3>1, <3>2, <3>3, <1>1, <1>6
  <2> QED BY <2>2 DEF Elements
<1>8. ASSUME size = L, n = Len(new), ~part
      PROVE  /\ Len(resume') = size + Len(new)
             /\ Elements(resume) \cup Elements(new) \subseteq Elements(resume')
  <2>1. end = <<>> /\ Len(end) = 0
    BY <1>2, <1>8 DEF end
  <2>2. \A i \in DOMAIN resume : i \in DOMAIN resume' /\ resume'[i] = resume[i]
    BY <1>1, <1>5, <1>6, <1>8, <2>1 DEF L
  <2>3. \A i \in DOMAIN new : size + i \in DOMAIN resume' /\ resume'[size + i] = new[i]
    <3> TAKE i \in DOMAIN new
    <3>1. i \in 1 .. n /\ size + i \in size + 1 .. size + n /\ (size + i) - size = i
      BY <1>1, <1>8
    <3> QED BY <3>1, <1>1, <1>5, <1>6
  <2> QED BY <1>5, <1>8, <2>1, <2>2, <2>3 DEF Elements
<1> QED BY <1>1, <1>4, <1>5, <1>6, <1>7, <1>8 DEF L

LEMMA WrittenFacts ==
    ASSUME TypeOK, pc # "off", NEW new \in Seq(SavedFile), Written(new)
    PROVE  /\ resume' \in Seq(SavedFile) /\ torn' \in BOOLEAN /\ mixed' \in BOOLEAN
           /\ size' \in Nat /\ size' <= Len(resume')
           /\ fails' \in 0 .. MaxFails
           /\ (mixed => mixed')
           /\ ~mixed' => Elements(resume') \subseteq Elements(resume) \cup Elements(new)
           /\ fails' = 0 => fails = 0
           /\ fails' = 0 /\ size = Len(resume) =>
                /\ size' = Len(resume')
                /\ Elements(resume) \cup Elements(new) \subseteq Elements(resume')
<1>1. /\ resume \in Seq(SavedFile) /\ size \in 0 .. Len(resume) /\ torn \in BOOLEAN /\ mixed \in BOOLEAN
      /\ fails \in Nat /\ fails <= MaxFails /\ MaxFails \in Nat /\ Len(new) \in Nat
  BY BoundsAssumption DEF TypeOK
<1>2. CASE Reaches(new, Len(new), FALSE) /\ size' = size + Len(new) /\ UNCHANGED fails
  <2>1. Len(new) \in 0 .. Len(new) /\ FALSE \in BOOLEAN
    BY <1>1
  <2>2. /\ resume' \in Seq(SavedFile) /\ torn' \in BOOLEAN /\ mixed' \in BOOLEAN
        /\ (mixed => mixed')
        /\ size + Len(new) <= Len(resume')
        /\ ~mixed' => Elements(resume') \subseteq Elements(resume) \cup Elements(new)
        /\ size = Len(resume) =>
             /\ Len(resume') = size + Len(new)
             /\ Elements(resume) \cup Elements(new) \subseteq Elements(resume')
    BY <1>1, <1>2, <2>1, ReachesFacts
  <2> QED BY <1>1, <1>2, <2>2
<1>3. CASE /\ fails < MaxFails /\ fails' = fails + 1 /\ UNCHANGED size
           /\ \E n \in 0 .. Len(new) - 1 : \E part \in BOOLEAN : Reaches(new, n, part)
  <2>1. PICK n \in 0 .. Len(new) - 1 : \E part \in BOOLEAN : Reaches(new, n, part)
    BY <1>3
  <2>2. PICK part \in BOOLEAN : Reaches(new, n, part)
    BY <2>1
  <2>3. n \in 0 .. Len(new) /\ (part => n < Len(new))
    BY <1>1
  <2>4. /\ resume' \in Seq(SavedFile) /\ torn' \in BOOLEAN /\ mixed' \in BOOLEAN
        /\ (mixed => mixed')
        /\ size + n <= Len(resume')
        /\ ~mixed' => Elements(resume') \subseteq Elements(resume) \cup Elements(new)
    BY <1>1, <2>2, <2>3, ReachesFacts
  <2>5. size <= Len(resume')
    <3>1. Len(resume') \in Nat /\ n \in Nat /\ size \in Nat
      BY <1>1, <2>4
    <3> QED BY <2>4, <3>1
  <2>6. fails' \in 0 .. MaxFails /\ fails' # 0
    BY <1>1, <1>3
  <2> QED BY <1>1, <1>3, <2>4, <2>5, <2>6
<1> QED BY <1>2, <1>3 DEF Written

-----------------------------------------------------------------------------
(***************************************************************************)
(* Types                                                                   *)
(***************************************************************************)

LEMMA TypeInit == Init => TypeOK
<1> SUFFICES ASSUME Init PROVE TypeOK
  OBVIOUS
<1>1. resume \in Seq(SavedFile) /\ buffer \in Seq(SavedFile) /\ todo \in Seq(File)
  BY DEF Init
<1>2. chunks \in ChunkList
  BY DEF Init, ChunkList
<1>3. manifest \in Seq([file : Id, list : Lists, chunks : ChunkList]) /\ Len(manifest) = 0
  BY DEF Init
<1>4. mode \in [ended : {"clean", "thrown", "killed"}, base : 0 .. Len(manifest), restored : SUBSET Id]
  BY <1>3 DEF Init
<1>5. runs \in 0 .. MaxRuns /\ kills \in 0 .. MaxKills /\ fails \in 0 .. MaxFails
  BY BoundsAssumption DEF Init
<1>6. /\ durable \subseteq stored /\ stored \subseteq Item /\ damaged \in BOOLEAN
      /\ torn \in BOOLEAN /\ mixed \in BOOLEAN /\ size \in Nat /\ entries \subseteq SavedFile /\ pc = "off"
  BY DEF Init, Store!Init
<1> QED BY <1>1, <1>2, <1>3, <1>4, <1>5, <1>6 DEF TypeOK

\* The file that is processed.
LEMMA HeadType ==
    ASSUME TypeOK, todo # <<>>
    PROVE  /\ Head(todo) \in File /\ Tail(todo) \in Seq(File) /\ Len(Tail(todo)) = Len(todo) - 1
           /\ Len(todo) \in Nat /\ Len(todo) > 0
<1>1. todo \in Seq(File)
  BY DEF TypeOK
<1> QED BY <1>1, HeadAndTail

LEMMA StoreStep ==
    ASSUME TypeOK, NEW c \in Item, Added(c)
    PROVE  /\ durable' \subseteq stored' /\ stored' \subseteq Item /\ damaged' \in BOOLEAN
           /\ stored' = stored \cup {c}
  BY DEF TypeOK, Added, store

\* A write of the bundle that fails takes nothing out of it.
LEMMA FailStep ==
    ASSUME TypeOK, MadeInv, AddFails
    PROVE  /\ durable' \subseteq stored' /\ stored' \subseteq Item /\ stored \subseteq stored'
           /\ pc = "chunks" /\ pc' = "unwind"
<1>1. pc = "chunks" /\ todo # <<>> /\ chunks \in Seq([id : Piece, size : Nat])
  BY DEF AddFails, MadeInv, AtFile, TypeOK, ChunkList
<1>2. Head(todo).data \in Seq(Piece) /\ Head(todo).data \in Item
  <2>1. Head(todo) \in File
    BY <1>1, HeadType
  <2> QED BY <2>1, FileType
<1>3. NextItem \in Item
  <2>1. CASE Len(chunks) < Len(Head(todo).data)
    <3>1. Len(chunks) + 1 \in 1 .. Len(Head(todo).data)
      BY <1>1, <1>2, <2>1
    <3> QED BY <1>2, <2>1, <3>1 DEF NextItem, Item
  <2>2. CASE ~(Len(chunks) < Len(Head(todo).data))
    BY <1>2, <2>2 DEF NextItem
  <2> QED BY <2>1, <2>2
<1> QED BY <1>3 DEF AddFails, TypeOK

LEMMA NFileType ==
    ASSUME TypeOK, MadeInv, pc \in {"save", "write"}
    PROVE  /\ NFile = Output(Head(todo)) /\ Head(todo) \in File
           /\ NFile \in [file : Id, list : Lists, chunks : ChunkList]
           /\ Entry(NFile) \in SavedFile /\ Entry(NFile).file = Head(todo).id
           /\ Append(buffer, Entry(NFile)) \in Seq(SavedFile)
           /\ Elements(Append(buffer, Entry(NFile))) = Elements(buffer) \cup {Entry(NFile)}
<1>1. todo # <<>> /\ NFile = Output(Head(todo))
  BY DEF MadeInv, AtFile
<1>2. Head(todo) \in File
  BY <1>1, HeadType
<1>3. /\ NFile \in [file : Id, list : Lists, chunks : ChunkList]
      /\ Entry(NFile) \in SavedFile /\ Entry(NFile).file = Head(todo).id
  BY <1>1, <1>2, FileType
<1> DEFINE e == Entry(NFile)
<1>4. buffer \in Seq(SavedFile) /\ e \in SavedFile
  BY <1>3 DEF TypeOK
<1> HIDE DEF e
<1>5. /\ Append(buffer, e) \in Seq(SavedFile) /\ DOMAIN buffer = 1 .. Len(buffer) /\ Len(buffer) \in Nat
      /\ DOMAIN Append(buffer, e) = 1 .. Len(buffer) + 1
      /\ \A i \in 1 .. Len(buffer) : Append(buffer, e)[i] = buffer[i]
      /\ Append(buffer, e)[Len(buffer) + 1] = e
  BY <1>4
<1>6. Elements(Append(buffer, e)) = Elements(buffer) \cup {e}
  <2> DEFINE a == Append(buffer, e)
             m == Len(buffer)
  <2>1. /\ DOMAIN a = 1 .. m + 1 /\ DOMAIN buffer = 1 .. m /\ m \in Nat
        /\ \A i \in 1 .. m : a[i] = buffer[i]
        /\ a[m + 1] = e
    BY <1>5
  <2> HIDE DEF a, m
  <2>2. 1 .. m + 1 = 1 .. m \cup {m + 1}
    BY <2>1
  <2>3. Elements(a) = Elements(buffer) \cup {e}
    BY <2>1, <2>2 DEF Elements
  <2> QED BY <2>3 DEF a
<1> QED BY <1>1, <1>2, <1>3, <1>5, <1>6 DEF e

LEMMA TypeStep ==
    ASSUME TypeOK, MadeInv, [Next]_vars
    PROVE  TypeOK'
<1>0. /\ <<>> \in Seq(SavedFile) /\ <<>> \in Seq([id : Piece, size : Nat]) /\ Len(<<>>) = 0
      /\ FlushAt \in Nat \ {0}
  BY BoundsAssumption
<1>1. CASE Run
  <2>1. manifest' \in Seq([file : Id, list : Lists, chunks : ChunkList]) /\ Len(manifest') \in Nat
    BY <1>1 DEF Run, TypeOK
  <2>2. entries' \subseteq SavedFile
    <3>1. \A i \in DOMAIN resume : resume[i] \in SavedFile
      BY DEF TypeOK
    <3> QED BY <1>1, <3>1 DEF Run
  <2>3. runs' \in 0 .. MaxRuns
    BY <1>1, BoundsAssumption DEF Run, TypeOK
  <2>4. /\ mode' \in [ended : {"clean", "thrown", "killed"}, base : 0 .. Len(manifest'), restored : SUBSET Id]
    BY <1>1, <2>1 DEF Run
  <2>5. size' = Len(resume') /\ size' \in Nat
    BY <1>1 DEF Run, TypeOK
  <2> QED BY <1>0, <1>1, <2>1, <2>2, <2>3, <2>4, <2>5, FilesAssumption DEF Run, TypeOK, store, ChunkList
<1>2. CASE Restore
  <2>1. todo # <<>> /\ Head(todo) \in File /\ Head(todo).id \in Id /\ Tail(todo) \in Seq(File)
    BY <1>2, HeadType, FileType DEF Restore
  <2>2. PICK e \in Known(Head(todo)) : manifest' = Append(manifest, Restored(e, Len(Head(todo).data)))
    BY <1>2 DEF Restore
  <2> DEFINE r == Restored(e, Len(Head(todo).data))
  <2>3. e \in SavedFile
    BY <2>2 DEF Known, TypeOK
  <2>4. r \in [file : Id, list : Lists, chunks : ChunkList]
    <3>1. Len(Head(todo).data) \in Nat
      BY <2>1, FileType
    <3>2. e.chunk \in Piece => <<Ref(e.chunk, Len(Head(todo).data))>> \in Seq([id : Piece, size : Nat])
      BY <3>1 DEF Ref
    <3> QED BY <1>0, <2>3, <3>2 DEF Restored, SavedFile, ChunkList
  <2> HIDE DEF r
  <2>5. /\ manifest' \in Seq([file : Id, list : Lists, chunks : ChunkList])
        /\ Len(manifest') = Len(manifest) + 1 /\ Len(manifest) \in Nat
    <3> DEFINE F == [file : Id, list : Lists, chunks : ChunkList]
    <3>1. manifest \in Seq(F) /\ r \in F
      BY <2>4 DEF TypeOK
    <3> HIDE DEF F
    <3>2. Append(manifest, r) \in Seq(F) /\ Len(Append(manifest, r)) = Len(manifest) + 1 /\ Len(manifest) \in Nat
      BY <3>1
    <3> QED BY <3>2, <2>2 DEF F, r
  <2>6. mode' \in [ended : {"clean", "thrown", "killed"}, base : 0 .. Len(manifest'), restored : SUBSET Id]
    <3>1. mode' = [mode EXCEPT !.restored = @ \cup {Head(todo).id}]
      BY <1>2 DEF Restore
    <3>2. mode \in [ended : {"clean", "thrown", "killed"}, base : 0 .. Len(manifest), restored : SUBSET Id]
      BY DEF TypeOK
    <3>3. mode.base \in 0 .. Len(manifest')
      BY <2>5, <3>2
    <3> QED BY <2>1, <3>1, <3>2, <3>3
  <2> QED BY <1>2, <2>1, <2>5, <2>6 DEF Restore, TypeOK, store, journal, disk
<1>3. CASE Read
  BY <1>0, <1>3 DEF Read, TypeOK, store, journal, disk, ChunkList
<1>4. CASE AddChunk
  <2>1. todo # <<>> /\ chunks # NIL /\ Head(todo) \in File
    BY <1>4, HeadType DEF AddChunk, MadeInv, AtFile
  <2>2. chunks \in Seq([id : Piece, size : Nat]) /\ Len(chunks) \in Nat
    BY <2>1 DEF TypeOK, ChunkList
  <2> DEFINE c == Head(todo).data[Len(chunks) + 1]
  <2>3. c \in Piece /\ c \in Item
    <3>1. Head(todo).data \in Seq(Piece)
      BY <2>1, FileType
    <3>2. Len(chunks) + 1 \in 1 .. Len(Head(todo).data)
      BY <1>4, <2>2, <3>1 DEF AddChunk
    <3> QED BY <3>1, <3>2 DEF Item
  <2>4. Added(c) /\ chunks' = Append(chunks, Ref(c, 1))
    BY <1>4 DEF AddChunk
  <2> HIDE DEF c
  <2>5. Ref(c, 1) \in [id : Piece, size : Nat]
    BY <2>3 DEF Ref
  <2>6. chunks' \in Seq([id : Piece, size : Nat])
    <3> DEFINE R == [id : Piece, size : Nat]
               x == Ref(c, 1)
    <3>1. chunks \in Seq(R) /\ x \in R
      BY <2>2, <2>5
    <3> HIDE DEF R, x
    <3>2. Append(chunks, x) \in Seq(R)
      BY <3>1
    <3> QED BY <3>2, <2>4 DEF R, x
  <2>7. durable' \subseteq stored' /\ stored' \subseteq Item /\ damaged' \in BOOLEAN
    BY <2>3, <2>4, StoreStep
  <2> QED BY <1>4, <2>6, <2>7 DEF AddChunk, TypeOK, journal, disk, ChunkList
<1>5. CASE AddList
  <2>1. todo # <<>> /\ Head(todo) \in File /\ Head(todo).data \in Item
    BY <1>5, HeadType, FileType DEF AddList, MadeInv, AtFile
  <2>2. durable' \subseteq stored' /\ stored' \subseteq Item /\ damaged' \in BOOLEAN
    BY <1>5, <2>1, StoreStep DEF AddList
  <2>3. chunks' \in ChunkList
    BY <1>5 DEF AddList, Stripped, TypeOK, ChunkList
  <2> QED BY <1>5, <2>2, <2>3 DEF AddList, TypeOK, journal, disk
<1>6. CASE Save
  <2> DEFINE saved == Append(buffer, Entry(NFile))
  <2>1. Entry(NFile) \in SavedFile /\ saved \in Seq(SavedFile) /\ Len(saved) \in Nat
    BY <1>6, NFileType DEF Save
  <2> HIDE DEF saved
  <2>2. entries' \subseteq SavedFile /\ pc' = "write"
    BY <1>6, <2>1 DEF Save, TypeOK
  <2>3. CASE Len(saved) >= FlushAt
    <3>1. Written(saved) /\ buffer' = <<>> /\ pc # "off"
      BY <1>6, <2>3 DEF Save, saved
    <3>2. /\ resume' \in Seq(SavedFile) /\ torn' \in BOOLEAN /\ mixed' \in BOOLEAN
          /\ size' \in Nat /\ size' <= Len(resume')
          /\ fails' \in 0 .. MaxFails
      BY <2>1, <3>1, WrittenFacts
    <3> QED BY <1>0, <1>6, <2>2, <3>1, <3>2 DEF Save, TypeOK, store
  <2>4. CASE ~(Len(saved) >= FlushAt)
    <3>1. buffer' = saved /\ UNCHANGED disk /\ pc # "off"
      BY <1>6, <2>4 DEF Save, saved
    <3>2. Len(buffer') < FlushAt
      BY <1>0, <2>1, <2>4, <3>1
    <3> QED BY <1>6, <2>1, <2>2, <3>1, <3>2 DEF Save, TypeOK, store, disk
  <2> QED BY <2>3, <2>4
<1>7. CASE Write
  <2>1. NFile \in [file : Id, list : Lists, chunks : ChunkList] /\ todo # <<>>
    BY <1>7, NFileType DEF Write, MadeInv, AtFile
  <2>2. /\ manifest' \in Seq([file : Id, list : Lists, chunks : ChunkList])
        /\ Len(manifest') = Len(manifest) + 1 /\ Len(manifest) \in Nat
    <3> DEFINE F == [file : Id, list : Lists, chunks : ChunkList]
               r == NFile
    <3>1. manifest \in Seq(F) /\ r \in F
      BY <2>1 DEF TypeOK
    <3> HIDE DEF F, r
    <3>2. Append(manifest, r) \in Seq(F) /\ Len(Append(manifest, r)) = Len(manifest) + 1 /\ Len(manifest) \in Nat
      BY <3>1
    <3> QED BY <3>2, <1>7 DEF F, r, Write
  <2>3. mode' \in [ended : {"clean", "thrown", "killed"}, base : 0 .. Len(manifest'), restored : SUBSET Id]
    <3>1. mode' = mode
      BY <1>7 DEF Write
    <3>2. mode \in [ended : {"clean", "thrown", "killed"}, base : 0 .. Len(manifest), restored : SUBSET Id]
      BY DEF TypeOK
    <3>3. mode.base \in 0 .. Len(manifest')
      BY <2>2, <3>2
    <3> QED BY <3>1, <3>2, <3>3
  <2>4. todo' \in Seq(File)
    BY <1>7, <2>1, HeadType DEF Write
  <2> QED BY <1>7, <2>2, <2>3, <2>4 DEF Write, TypeOK, store, journal, disk
<1>8. CASE Throw
  BY <1>8 DEF Throw, TypeOK, store, journal, disk
<1>13. CASE AddFails
  <2>1. durable' \subseteq stored' /\ stored' \subseteq Item
    BY <1>13, FailStep
  <2> QED BY <1>13, <2>1 DEF AddFails, TypeOK, journal, disk
<1>9. CASE CloseResume
  <2>1. pc # "off" /\ buffer \in Seq(SavedFile)
    BY <1>9 DEF CloseResume, Finishing, TypeOK
  <2>2. CASE buffer = <<>>
    BY <1>0, <1>9, <2>1, <2>2 DEF CloseResume, TypeOK, store, disk
  <2>3. CASE buffer # <<>>
    <3>1. Written(buffer)
      BY <1>9, <2>3 DEF CloseResume
    <3>2. /\ resume' \in Seq(SavedFile) /\ torn' \in BOOLEAN /\ mixed' \in BOOLEAN
          /\ size' \in Nat /\ size' <= Len(resume')
          /\ fails' \in 0 .. MaxFails
      BY <2>1, <3>1, WrittenFacts
    <3> QED BY <1>0, <1>9, <3>2 DEF CloseResume, TypeOK, store
  <2> QED BY <2>2, <2>3
<1>10. CASE Close
  BY <1>10 DEF Close, TypeOK, Store!End, journal, disk
<1>11. CASE Kill
  <2>1. durable' \subseteq stored' /\ stored' \subseteq Item /\ damaged' \in BOOLEAN
    BY <1>11 DEF Kill, TypeOK, Store!End, Store!Damage
  <2>2. resume' \in Seq(SavedFile) /\ torn' \in BOOLEAN /\ mixed' \in BOOLEAN
    <3>1. CASE UNCHANGED <<resume, torn, mixed>>
      BY <3>1 DEF TypeOK
    <3>2. ASSUME NEW n \in 0 .. Len(Unwritten), NEW part \in BOOLEAN,
                 part => n < Len(Unwritten), Reaches(Unwritten, n, part)
          PROVE  resume' \in Seq(SavedFile) /\ torn' \in BOOLEAN /\ mixed' \in BOOLEAN
      <4>1. Unwritten \in Seq(SavedFile)
        <5>1. pc = "save" => Append(buffer, Entry(NFile)) \in Seq(SavedFile)
          BY NFileType
        <5> QED BY <1>0, <5>1 DEF Unwritten, TypeOK
      <4>2. /\ resume \in Seq(SavedFile) /\ size \in 0 .. Len(resume) /\ torn \in BOOLEAN
            /\ mixed \in BOOLEAN
        BY <1>11 DEF Kill, TypeOK
      <4> QED BY <3>2, <4>1, <4>2, ReachesFacts
    <3> QED BY <1>11, <3>1, <3>2 DEF Kill
  <2>3. kills' \in 0 .. MaxKills
    BY <1>11, BoundsAssumption DEF Kill, TypeOK
  <2>4. mode' \in [ended : {"clean", "thrown", "killed"}, base : 0 .. Len(manifest'), restored : SUBSET Id]
    BY <1>11 DEF Kill, TypeOK
  <2> QED BY <1>0, <1>11, <2>1, <2>2, <2>3, <2>4 DEF Kill, TypeOK
<1>12. CASE UNCHANGED vars
  BY <1>12 DEF vars, TypeOK, store, journal, disk
<1> QED BY <1>1, <1>2, <1>3, <1>4, <1>5, <1>6, <1>7, <1>8, <1>9, <1>10, <1>11, <1>12, <1>13 DEF Next


-----------------------------------------------------------------------------
(***************************************************************************)
(* What is made of the files                                               *)
(***************************************************************************)

LEMMA SameSeq ==
    ASSUME NEW S, NEW s \in Seq(S), NEW t \in Seq(S), Len(s) = Len(t),
           \A i \in 1 .. Len(s) : s[i] = t[i]
    PROVE  s = t
  OBVIOUS

LEMMA MadeInit == Init => MadeInv
<1> SUFFICES ASSUME Init PROVE MadeInv
  OBVIOUS
<1>1. TodoLeft
  <2>1. /\ Files \in Seq(File) /\ todo = <<>> /\ Len(todo) = 0 /\ Len(Files) \in Nat
    BY FilesAssumption DEF Init
  <2>2. Done = Len(Files)
    BY <2>1 DEF Done
  <2>3. SubSeq(Files, Len(Files) + 1, Len(Files)) = <<>>
    BY <2>1
  <2> QED BY <2>1, <2>2, <2>3 DEF TodoLeft
<1>2. AtFile
  BY DEF Init, AtFile
<1>3. SavedRight
  BY DEF Init, SavedRight, Elements
<1>4. OwnRight
  BY DEF Init, OwnRight
<1> QED BY <1>1, <1>2, <1>3, <1>4 DEF MadeInv

\* The next file.
LEMMA NextFile ==
    ASSUME TypeOK, TodoLeft, todo # <<>>
    PROVE  /\ Done \in Nat /\ Done + 1 \in 1 .. Len(Files)
           /\ Head(todo) = Files[Done + 1]
           /\ Len(Tail(todo)) < Len(Files)
           /\ Len(Files) - Len(Tail(todo)) = Done + 1
           /\ Tail(todo) = SubSeq(Files, Done + 2, Len(Files))
<1>1. /\ Files \in Seq(File) /\ todo \in Seq(File) /\ Len(Files) \in Nat /\ Len(todo) \in Nat
      /\ Len(todo) > 0 /\ Len(todo) <= Len(Files)
  <2>1. Len(todo) \in Nat /\ Len(todo) > 0
    BY HeadType
  <2>2. todo \in Seq(File)
    BY DEF TypeOK
  <2>3. Len(todo) <= Len(Files)
    BY DEF TodoLeft
  <2> QED BY <2>1, <2>2, <2>3, FilesAssumption
<1>2. Done \in Nat /\ Done + 1 \in 1 .. Len(Files) /\ Len(todo) = Len(Files) - Done
  BY <1>1 DEF Done
<1> DEFINE d == Done
           L == Len(Files)
           t == Tail(todo)
           u == SubSeq(Files, (d + 1) + 1, L)
<1>3. todo = SubSeq(Files, d + 1, Len(Files))
  BY DEF TodoLeft
<1>4. \A i \in 1 .. Len(todo) : todo[i] = Files[d + i]
  <2>1. d \in Nat
    BY <1>2
  <2> HIDE DEF d
  <2> QED BY <1>1, <1>3, <2>1, CutOff
<1>5. Head(todo) = todo[1] /\ t \in Seq(File) /\ Len(t) = Len(todo) - 1
      /\ \A i \in 1 .. Len(todo) - 1 : t[i] = todo[i + 1]
  BY <1>1, HeadAndTail
<1>6. u \in Seq(File) /\ Len(u) = L - (d + 1)
      /\ \A i \in 1 .. Len(u) : u[i] = Files[(d + 1) + i]
  <2> DEFINE m == d + 1
  <2>1. m \in Nat /\ m <= Len(Files) /\ u = SubSeq(Files, m + 1, Len(Files)) /\ L = Len(Files)
    BY <1>2
  <2> HIDE DEF m, u, L
  <2>2. /\ u \in Seq(File)
        /\ Len(u) = IF m <= Len(Files) THEN Len(Files) - m ELSE 0
        /\ \A i \in 1 .. Len(u) : m + i \in 1 .. Len(Files) /\ u[i] = Files[m + i]
    BY <1>1, <2>1, CutOff
  <2>3. Len(u) = L - m /\ \A i \in 1 .. Len(u) : u[i] = Files[m + i]
    BY <2>1, <2>2
  <2> QED BY <2>2, <2>3 DEF m
<1>7. t = u
  <2>1. Len(t) = Len(u) /\ Len(t) \in Nat
    <3>1. d = Done /\ L = Len(Files)
      OBVIOUS
    <3> HIDE DEF t, u, d, L
    <3> QED BY <1>1, <1>2, <1>5, <1>6, <3>1
  <2>2. \A i \in 1 .. Len(t) : t[i] = u[i]
    <3> TAKE i \in 1 .. Len(t)
    <3>1. i \in 1 .. Len(todo) - 1 /\ i + 1 \in 1 .. Len(todo) /\ d + (i + 1) = (d + 1) + i /\ i \in 1 .. Len(u)
      BY <1>1, <1>2, <1>5, <2>1
    <3> HIDE DEF t, u, d
    <3> QED BY <3>1, <1>4, <1>5, <1>6
  <2> HIDE DEF t, u
  <2> QED BY <1>5, <1>6, <2>1, <2>2, SameSeq
<1>8. Head(todo) = Files[d + 1] /\ (d + 1) + 1 = d + 2
  BY <1>1, <1>2, <1>4, <1>5
<1> HIDE DEF t, u, d
<1>9. Len(t) < Len(Files) /\ Len(Files) - Len(t) = d + 1
  BY <1>1, <1>2, <1>5 DEF d
<1> QED BY <1>2, <1>7, <1>8, <1>9 DEF t, u, d

\* A step that leaves the input files and the manifest alone.
LEMMA OwnKept ==
    ASSUME TodoLeft, OwnRight, UNCHANGED <<todo, manifest, runs>>, mode'.base = mode.base,
           mixed => mixed', mixed \in BOOLEAN, mixed' \in BOOLEAN
    PROVE  TodoLeft' /\ OwnRight'
  BY DEF TodoLeft, OwnRight, Done

\* A step that gives the next file to the manifest.
LEMMA OwnGrows ==
    ASSUME TypeOK, TodoLeft, OwnRight, runs > 0, todo # <<>>,
           NEW r \in [file : Id, list : Lists, chunks : ChunkList],
           manifest' = Append(manifest, r), todo' = Tail(todo),
           mode'.base = mode.base, UNCHANGED <<runs, mixed>>,
           Strip /\ ~mixed => r = Output(Head(todo))
    PROVE  TodoLeft' /\ OwnRight'
<1> DEFINE F == [file : Id, list : Lists, chunks : ChunkList]
           b == mode.base
           d == Done
           e == Done'
<1>1. /\ d \in Nat /\ d + 1 \in 1 .. Len(Files) /\ Head(todo) = Files[d + 1]
      /\ Len(Tail(todo)) < Len(Files) /\ Len(Files) - Len(Tail(todo)) = d + 1
      /\ Tail(todo) = SubSeq(Files, d + 2, Len(Files))
  BY NextFile
<1>2. e = d + 1
  BY <1>1 DEF Done
<1>3. TodoLeft'
  <2>1. e + 1 = d + 2
    BY <1>1, <1>2
  <2> HIDE DEF e, d
  <2>2. /\ Len(todo') <= Len(Files)
        /\ todo' = SubSeq(Files, e + 1, Len(Files))
    <3>1. Len(Tail(todo)) \in Nat /\ Len(Files) \in Nat
      BY HeadType, FilesAssumption
    <3>2. Len(todo') <= Len(Files)
      BY <1>1, <3>1
    <3>3. todo' = SubSeq(Files, e + 1, Len(Files))
      BY <1>1, <2>1, Zenon
    <3> QED BY <3>2, <3>3
  <2> QED BY <2>2 DEF TodoLeft, e
<1>4. manifest \in Seq(F) /\ Len(manifest) = b + d /\ b \in Nat /\ r \in F
  BY DEF TypeOK, OwnRight
<1> HIDE DEF F
<1>5. /\ Len(Append(manifest, r)) = Len(manifest) + 1
      /\ \A i \in 1 .. Len(manifest) : Append(manifest, r)[i] = manifest[i]
      /\ Append(manifest, r)[Len(manifest) + 1] = r
  BY <1>4
<1>6. Len(manifest') = mode'.base + e
  <2>1. mode'.base = b /\ Len(manifest') = Len(manifest) + 1
    BY <1>5
  <2> HIDE DEF b, d, e
  <2>2. Len(manifest) + 1 = b + e
    BY <1>1, <1>2, <1>4
  <2> QED BY <2>1, <2>2
<1>7. ASSUME Strip, ~mixed, NEW i \in 1 .. e
      PROVE  manifest'[b + i] = Output(Files[i])
  <2> HIDE DEF d, b, e
  <2>1. CASE i \in 1 .. d
    <3>1. b + i \in 1 .. Len(manifest)
      BY <1>1, <1>4, <2>1
    <3>2. manifest[b + i] = Output(Files[i])
      BY <1>7, <2>1 DEF OwnRight, d, b
    <3> QED BY <1>5, <3>1, <3>2
  <2>2. CASE i = d + 1
    <3>1. b + i = Len(manifest) + 1
      BY <1>1, <1>4, <2>2
    <3> QED BY <1>1, <1>5, <1>7, <2>2, <3>1
  <2>3. i \in 1 .. d \/ i = d + 1
    BY <1>1, <1>2
  <2> QED BY <2>1, <2>2, <2>3
<1>8. OwnRight'
  <2>1. \A i \in 1 .. Done' : Strip /\ ~mixed' => manifest'[mode'.base + i] = Output(Files[i])
    BY <1>7
  <2>2. Len(manifest') = mode'.base + Done'
    BY <1>6
  <2> QED BY ONLY <2>1, <2>2, Zenon DEF OwnRight
<1> QED BY <1>3, <1>8


\* A step that saves nothing but entries of outputs.
LEMMA SavedKept ==
    ASSUME SavedRight, mixed \in BOOLEAN, mixed' \in BOOLEAN, mixed => mixed',
           NEW X, \A e \in X : \E f \in File : e = Entry(Output(f)),
           ~mixed' => entries' \cup Elements(resume') \cup Elements(buffer')
                        \subseteq entries \cup Elements(resume) \cup Elements(buffer) \cup X
    PROVE  SavedRight'
<1> SUFFICES ASSUME ~mixed', NEW e \in entries' \cup Elements(resume') \cup Elements(buffer')
             PROVE  \E f \in File : e = Entry(Output(f))
  BY Zenon DEF SavedRight
<1>1. e \in (entries \cup Elements(resume) \cup Elements(buffer)) \/ e \in X
  OBVIOUS
<1>2. ~mixed
  OBVIOUS
<1> QED BY <1>1, <1>2 DEF SavedRight

\* What may get to the resume file when the program is killed.
LEMMA KillFacts ==
    ASSUME TypeOK, MadeInv, Kill
    PROVE  /\ mixed \in BOOLEAN /\ mixed' \in BOOLEAN /\ (mixed => mixed')
           /\ pc' = "off" /\ entries' = {} /\ buffer' = <<>> /\ kills' = kills + 1
           /\ UNCHANGED <<manifest, todo, chunks, runs, size, fails>>
           /\ mode'.base = mode.base /\ mode'.ended = "killed" /\ mode'.restored = mode.restored
           /\ ~mixed' => Elements(resume')
                           \subseteq Elements(resume) \cup Elements(buffer)
                              \cup (IF pc = "save" THEN {Entry(NFile)} ELSE {})
<1>1. mode \in [ended : {"clean", "thrown", "killed"}, base : 0 .. Len(manifest), restored : SUBSET Id]
      /\ mixed \in BOOLEAN
  BY DEF TypeOK
<1>2. /\ pc' = "off" /\ entries' = {} /\ buffer' = <<>> /\ kills' = kills + 1
      /\ UNCHANGED <<manifest, todo, chunks, runs, size, fails>>
      /\ mode' = [mode EXCEPT !.ended = "killed"]
  BY DEF Kill
<1>3. mode'.base = mode.base /\ mode'.ended = "killed" /\ mode'.restored = mode.restored
  BY <1>1, <1>2
<1> DEFINE X == IF pc = "save" THEN {Entry(NFile)} ELSE {}
<1>4. /\ mixed' \in BOOLEAN /\ (mixed => mixed')
      /\ ~mixed' => Elements(resume') \subseteq Elements(resume) \cup Elements(buffer) \cup X
  <2>1. CASE UNCHANGED <<resume, torn, mixed>>
    BY <1>1, <2>1
  <2>2. ASSUME NEW n \in 0 .. Len(Unwritten), NEW part \in BOOLEAN,
               part => n < Len(Unwritten), Reaches(Unwritten, n, part)
        PROVE  /\ mixed' \in BOOLEAN /\ (mixed => mixed')
               /\ ~mixed' => Elements(resume') \subseteq Elements(resume) \cup Elements(buffer) \cup X
    <3>1. Unwritten \in Seq(SavedFile) /\ Elements(Unwritten) \subseteq Elements(buffer) \cup X
      <4>1. CASE pc = "save"
        <5>1. Append(buffer, Entry(NFile)) \in Seq(SavedFile)
              /\ Elements(Append(buffer, Entry(NFile))) = Elements(buffer) \cup {Entry(NFile)}
          BY <4>1, NFileType
        <5>2. ~Finishing
          BY <4>1 DEF Finishing
        <5>3. <<>> \in Seq(SavedFile) /\ Elements(<<>>) = {}
          BY DEF Elements
        <5> QED BY <4>1, <5>1, <5>2, <5>3 DEF Unwritten
      <4>2. CASE pc # "save"
        <5>1. Unwritten = buffer \/ Unwritten = <<>>
          BY <4>2 DEF Unwritten
        <5>2. <<>> \in Seq(SavedFile) /\ Elements(<<>>) = {}
          BY DEF Elements
        <5> QED BY <5>1, <5>2 DEF TypeOK
      <4> QED BY <4>1, <4>2
    <3>2. /\ resume \in Seq(SavedFile) /\ size \in 0 .. Len(resume) /\ torn \in BOOLEAN
          /\ mixed \in BOOLEAN
      BY DEF Kill, TypeOK
    <3>3. /\ mixed' \in BOOLEAN /\ (mixed => mixed')
          /\ ~mixed' => Elements(resume') \subseteq Elements(resume) \cup Elements(Unwritten)
      BY <2>2, <3>1, <3>2, ReachesFacts
    <3> HIDE DEF X
    <3> QED BY <3>1, <3>3
  <2> HIDE DEF X
  <2> QED BY <2>1, <2>2 DEF Kill
<1> QED BY <1>1, <1>2, <1>3, <1>4

\* What is saved, and what gets to the resume file.
LEMMA SaveFacts ==
    ASSUME TypeOK, MadeInv, Save
    PROVE  /\ mixed \in BOOLEAN /\ mixed' \in BOOLEAN /\ (mixed => mixed')
           /\ entries' = entries \cup {Entry(NFile)}
           /\ ~mixed' => Elements(resume') \cup Elements(buffer')
                           \subseteq Elements(resume) \cup Elements(buffer) \cup {Entry(NFile)}
           /\ fails' = 0 => fails = 0
           /\ fails' = 0 /\ size = Len(resume) =>
                /\ size' = Len(resume')
                /\ Elements(resume) \cup Elements(buffer) \cup {Entry(NFile)}
                     \subseteq Elements(resume') \cup Elements(buffer')
<1> DEFINE saved == Append(buffer, Entry(NFile))
<1>1. /\ saved \in Seq(SavedFile) /\ Elements(saved) = Elements(buffer) \cup {Entry(NFile)}
      /\ pc = "save"
  BY NFileType DEF Save
<1>2. /\ entries' = entries \cup {Entry(NFile)}
      /\ IF Len(saved) >= FlushAt
         THEN Written(saved) /\ buffer' = <<>>
         ELSE buffer' = saved /\ UNCHANGED disk
  BY DEF Save
<1>3. mixed \in BOOLEAN /\ pc # "off" /\ Elements(<<>>) = {}
  BY <1>1 DEF TypeOK, Elements
<1> HIDE DEF saved
<1>4. CASE Written(saved) /\ buffer' = <<>>
  <2>1. /\ mixed' \in BOOLEAN /\ (mixed => mixed')
        /\ ~mixed' => Elements(resume') \subseteq Elements(resume) \cup Elements(saved)
        /\ fails' = 0 => fails = 0
        /\ fails' = 0 /\ size = Len(resume) =>
             /\ size' = Len(resume')
             /\ Elements(resume) \cup Elements(saved) \subseteq Elements(resume')
    BY <1>1, <1>3, <1>4, WrittenFacts
  <2>2. Elements(buffer') = {}
    BY <1>3, <1>4
  <2> QED BY <1>1, <1>2, <1>3, <2>1, <2>2
<1>5. CASE buffer' = saved /\ UNCHANGED disk
  BY <1>1, <1>2, <1>3, <1>5 DEF disk
<1> QED BY <1>2, <1>4, <1>5

\* What is left is written when the resume file is closed.
LEMMA CloseFacts ==
    ASSUME TypeOK, CloseResume
    PROVE  /\ mixed \in BOOLEAN /\ mixed' \in BOOLEAN /\ (mixed => mixed')
           /\ entries' = entries /\ buffer' = <<>> /\ Elements(buffer') = {}
           /\ ~mixed' => Elements(resume') \subseteq Elements(resume) \cup Elements(buffer)
           /\ fails' = 0 => fails = 0
           /\ fails' = 0 /\ size = Len(resume) =>
                /\ size' = Len(resume')
                /\ Elements(resume) \cup Elements(buffer) \subseteq Elements(resume')
<1>1. buffer \in Seq(SavedFile) /\ mixed \in BOOLEAN /\ pc # "off"
  BY DEF TypeOK, CloseResume, Finishing
<1>2. entries' = entries /\ buffer' = <<>> /\ Elements(<<>>) = {}
  BY DEF CloseResume, Elements
<1>3. CASE buffer = <<>> /\ UNCHANGED disk
  BY <1>1, <1>2, <1>3 DEF disk
<1>4. CASE Written(buffer)
  <2>1. /\ mixed' \in BOOLEAN /\ (mixed => mixed')
        /\ ~mixed' => Elements(resume') \subseteq Elements(resume) \cup Elements(buffer)
        /\ fails' = 0 => fails = 0
        /\ fails' = 0 /\ size = Len(resume) =>
             /\ size' = Len(resume')
             /\ Elements(resume) \cup Elements(buffer) \subseteq Elements(resume')
    BY <1>1, <1>4, WrittenFacts
  <2> QED BY <1>1, <1>2, <2>1
<1> QED BY <1>3, <1>4 DEF CloseResume


\* A step that processes no file and gives nothing to the manifest.
LEMMA MadeKept ==
    ASSUME TypeOK, MadeInv, UNCHANGED <<todo, manifest, runs>>, mode'.base = mode.base,
           mixed' \in BOOLEAN, mixed => mixed', SavedRight',
           pc' \in {"files", "unwind", "close", "off"}, runs = 0 => pc' = "off"
    PROVE  MadeInv'
<1>1. TodoLeft' /\ OwnRight'
  BY OwnKept DEF MadeInv, TypeOK
<1>2. AtFile'
  <2>1. runs' = 0 => pc' = "off" /\ manifest' = <<>> /\ mode'.base = 0
    BY DEF MadeInv, AtFile
  <2>2. pc' # "chunks" /\ pc' \notin {"save", "write"}
    OBVIOUS
  <2> QED BY <2>1, <2>2, Zenon DEF AtFile
<1> QED BY <1>1, <1>2 DEF MadeInv

LEMMA MadeStep ==
    ASSUME TypeOK, MadeInv, [Next]_vars
    PROVE  MadeInv'
<1>0. /\ TodoLeft /\ AtFile /\ SavedRight /\ OwnRight
      /\ mixed \in BOOLEAN /\ runs \in Nat /\ manifest \in Seq([file : Id, list : Lists, chunks : ChunkList])
      /\ mode \in [ended : {"clean", "thrown", "killed"}, base : 0 .. Len(manifest), restored : SUBSET Id]
  BY DEF MadeInv, TypeOK
<1>00. ASSUME pc # "off" PROVE runs > 0
  BY <1>0, <1>00 DEF AtFile
<1>1. CASE Run
  <2>1. todo' = Files /\ Len(Files) \in Nat /\ SubSeq(Files, 1, Len(Files)) = Files
    BY <1>1, FilesAssumption DEF Run
  <2>2. Done' = 0 /\ (Done + 1)' = 1
    BY <2>1 DEF Done
  <2>3. TodoLeft'
    BY <2>1, <2>2 DEF TodoLeft
  <2>4. AtFile'
    BY <1>0, <1>1 DEF Run, AtFile
  <2>5. SavedRight'
    <3>1. entries' = Elements(resume') /\ buffer' = <<>> /\ mixed' = mixed /\ resume' = resume
      BY <1>1 DEF Run, Elements
    <3>2. Elements(<<>>) = {}
      BY DEF Elements
    <3> DEFINE X == {}
    <3>3. SavedRight /\ mixed \in BOOLEAN /\ mixed' \in BOOLEAN /\ (mixed => mixed')
          /\ (\A e \in X : \E f \in File : e = Entry(Output(f)))
          /\ (~mixed' => entries' \cup Elements(resume') \cup Elements(buffer')
                        \subseteq entries \cup Elements(resume) \cup Elements(buffer) \cup X)
      BY <1>0, <3>1, <3>2
    <3> HIDE DEF X
    <3> QED BY ONLY <3>3, SavedKept
  <2>6. OwnRight'
    <3>1. mode'.base = Len(manifest') /\ Len(manifest') \in Nat
      BY <1>0, <1>1 DEF Run
    <3>2. Len(manifest') = mode'.base + Done' /\ 1 .. Done' = {}
      BY <2>2, <3>1
    <3> QED BY <3>2 DEF OwnRight
  <2> QED BY <2>3, <2>4, <2>5, <2>6 DEF MadeInv
<1>2. CASE Restore
  <2>1. todo # <<>> /\ pc = "files" /\ todo' = Tail(todo) /\ UNCHANGED <<store, journal, pc, chunks, runs, kills>>
        /\ mode'.base = mode.base
    BY <1>0, <1>2 DEF Restore
  <2>2. PICK e \in Known(Head(todo)) : manifest' = Append(manifest, Restored(e, Len(Head(todo).data)))
    BY <1>2 DEF Restore
  <2> DEFINE r == Restored(e, Len(Head(todo).data))
  <2>3. Head(todo) \in File /\ e \in entries /\ e \in SavedFile /\ e.file = Head(todo).id
    BY <2>1, <2>2, HeadType DEF Known, TypeOK
  <2>4. Strip /\ ~mixed => r = Output(Head(todo))
    <3> SUFFICES ASSUME Strip, ~mixed PROVE r = Output(Head(todo))
      OBVIOUS
    <3>1. PICK f \in File : e = Entry(Output(f))
      BY <1>0, <2>3 DEF SavedRight
    <3>2. f.id = Head(todo).id
      BY <2>3, <3>1, FileType
    <3> QED BY <2>3, <3>1, <3>2, RestoredIsOutput
  <2>5. r \in [file : Id, list : Lists, chunks : ChunkList]
    <3>1. Len(Head(todo).data) \in Nat
      BY <2>3, FileType
    <3>2. e.chunk \in Piece => <<Ref(e.chunk, Len(Head(todo).data))>> \in Seq([id : Piece, size : Nat])
      BY <3>1 DEF Ref
    <3>3. <<>> \in Seq([id : Piece, size : Nat])
      OBVIOUS
    <3> QED BY <2>3, <3>2, <3>3 DEF Restored, SavedFile, ChunkList
  <2>6. manifest' = Append(manifest, r)
    BY <2>2
  <2>7. UNCHANGED <<runs, mixed>> /\ runs > 0
    BY <2>1, <1>00 DEF journal, disk
  <2> HIDE DEF r
  <2>8. TodoLeft' /\ OwnRight'
    BY <1>0, <2>1, <2>4, <2>5, <2>6, <2>7, OwnGrows
  <2>9. AtFile'
    BY <2>1, <2>7 DEF AtFile
  <2>10. SavedRight'
    BY <1>0, <2>1, Zenon DEF SavedRight, journal, disk
  <2> QED BY <2>8, <2>9, <2>10 DEF MadeInv
<1>3. CASE Read
  <2>1. /\ UNCHANGED <<todo, manifest, runs>> /\ mode'.base = mode.base /\ UNCHANGED journal
        /\ todo # <<>> /\ chunks' = <<>> /\ pc' = "chunks" /\ pc = "files"
    BY <1>3 DEF Read
  <2>2. TodoLeft' /\ OwnRight'
    BY <1>0, <2>1, OwnKept DEF journal, disk
  <2>3. SavedRight'
    BY <1>0, <2>1, Zenon DEF SavedRight, journal, disk
  <2>4. AtFile'
    <3>1. <<>> # NIL /\ DOMAIN <<>> = {} /\ Len(<<>>) = 0
      <4>1. <<>> \in Seq([id : Piece, size : Nat])
        OBVIOUS
      <4>2. <<>> # NIL
        BY <4>1, NoChunkAssumption
      <4> QED BY <4>2
    <3>2. Len(Head(todo').data) >= 0
      <4>1. Head(todo) \in File
        BY <2>1, HeadType
      <4>2. Len(Head(todo).data) \in Nat
        BY <4>1, FileType
      <4> QED BY <2>1, <4>2
    <3>3. runs' # 0
      BY <1>00, <2>1
    <3> QED BY <2>1, <3>1, <3>2, <3>3 DEF AtFile
  <2> QED BY <2>2, <2>3, <2>4 DEF MadeInv
<1>4. CASE AddChunk
  <2> DEFINE c == Head(todo).data[Len(chunks) + 1]
  <2>1. /\ UNCHANGED <<todo, manifest, runs, pc>> /\ mode'.base = mode.base /\ UNCHANGED journal
        /\ chunks' = Append(chunks, Ref(c, 1)) /\ pc = "chunks"
        /\ Len(chunks) < Len(Head(todo).data)
    BY <1>4 DEF AddChunk
  <2>2. TodoLeft' /\ OwnRight'
    BY <1>0, <2>1, OwnKept DEF journal, disk
  <2>3. SavedRight'
    BY <1>0, <2>1, Zenon DEF SavedRight, journal, disk
  <2>4. /\ todo # <<>> /\ chunks # NIL /\ chunks \in Seq([id : Piece, size : Nat])
        /\ \A i \in DOMAIN chunks : chunks[i] = Ref(Head(todo).data[i], 1)
    BY <1>0, <2>1 DEF AtFile, TypeOK, ChunkList
  <2>5. Head(todo).data \in Seq(Piece) /\ Len(Head(todo).data) \in Nat
    <3>1. Head(todo) \in File
      BY <2>4, HeadType
    <3> QED BY <3>1, FileType
  <2>6. c \in Piece
    <3>1. Len(chunks) + 1 \in 1 .. Len(Head(todo).data)
      BY <2>1, <2>4, <2>5
    <3> QED BY <2>5, <3>1
  <2> DEFINE R == [id : Piece, size : Nat]
             x == Ref(c, 1)
  <2>7. x \in R /\ chunks \in Seq(R)
    BY <2>4, <2>6 DEF Ref
  <2> HIDE DEF R, x
  <2>8. /\ Append(chunks, x) \in Seq(R) /\ Len(chunks) \in Nat
        /\ Len(Append(chunks, x)) = Len(chunks) + 1
        /\ DOMAIN Append(chunks, x) = 1 .. Len(chunks) + 1 /\ DOMAIN chunks = 1 .. Len(chunks)
        /\ \A i \in 1 .. Len(chunks) : Append(chunks, x)[i] = chunks[i]
        /\ Append(chunks, x)[Len(chunks) + 1] = x
    BY <2>7
  <2>9. \A i \in DOMAIN chunks' : chunks'[i] = Ref(Head(todo).data[i], 1)
    <3> TAKE i \in DOMAIN chunks'
    <3>1. chunks' = Append(chunks, x)
      BY <2>1 DEF x
    <3>2. i \in 1 .. Len(chunks) \/ i = Len(chunks) + 1
      BY <2>8, <3>1
    <3>3. CASE i \in 1 .. Len(chunks)
      BY <2>4, <2>8, <3>1, <3>3
    <3>4. CASE i = Len(chunks) + 1
      BY <2>8, <3>1, <3>4 DEF x
    <3> QED BY <3>2, <3>3, <3>4
  <2>10. chunks' # NIL /\ Len(chunks') <= Len(Head(todo').data)
    <3>1. chunks' \in Seq(R) /\ Len(chunks') = Len(chunks) + 1
      BY <2>1, <2>8 DEF x
    <3>2. chunks' # NIL
      BY <3>1, NoChunkAssumption DEF R
    <3> QED BY <2>1, <2>5, <2>8, <3>1, <3>2
  <2>11. AtFile'
    <3>1. runs' # 0
      BY <1>00, <2>1
    <3> QED BY <2>1, <2>4, <2>9, <2>10, <3>1 DEF AtFile
  <2> QED BY <2>2, <2>3, <2>11 DEF MadeInv
<1>5. CASE AddList
  <2>1. /\ UNCHANGED <<todo, manifest, runs>> /\ mode'.base = mode.base /\ UNCHANGED journal
        /\ chunks' = Stripped(chunks) /\ pc = "chunks" /\ pc' = "save"
        /\ Len(chunks) = Len(Head(todo).data)
    BY <1>5 DEF AddList
  <2>2. TodoLeft' /\ OwnRight'
    BY <1>0, <2>1, OwnKept DEF journal, disk
  <2>3. SavedRight'
    BY <1>0, <2>1, Zenon DEF SavedRight, journal, disk
  <2>4. /\ todo # <<>> /\ chunks # NIL /\ chunks \in Seq([id : Piece, size : Nat])
        /\ \A i \in DOMAIN chunks : chunks[i] = Ref(Head(todo).data[i], 1)
    BY <1>0, <2>1 DEF AtFile, TypeOK, ChunkList
  <2>5. Head(todo).data \in Seq(Piece) /\ Len(Head(todo).data) \in Nat
    <3>1. Head(todo) \in File
      BY <2>4, HeadType
    <3> QED BY <3>1, FileType
  <2>6. chunks = [i \in DOMAIN Head(todo).data |-> Ref(Head(todo).data[i], 1)]
    <3>1. DOMAIN chunks = DOMAIN Head(todo).data
      BY <2>1, <2>4, <2>5
    <3>2. chunks = [i \in DOMAIN chunks |-> chunks[i]]
      BY <2>4
    <3> QED BY <2>4, <3>1, <3>2
  <2>7. NFile' = Output(Head(todo'))
    BY <2>1, <2>6 DEF NFile, Output
  <2>8. AtFile'
    <3>1. runs' # 0
      BY <1>00, <2>1
    <3> QED BY <2>1, <2>4, <2>7, <3>1 DEF AtFile
  <2> QED BY <2>2, <2>3, <2>8 DEF MadeInv
<1>6. CASE Save
  <2>1. /\ UNCHANGED <<todo, manifest, runs, chunks>> /\ mode'.base = mode.base
        /\ pc = "save" /\ pc' = "write"
    BY <1>6 DEF Save
  <2>2. /\ mixed' \in BOOLEAN /\ (mixed => mixed')
        /\ entries' = entries \cup {Entry(NFile)}
        /\ ~mixed' => Elements(resume') \cup Elements(buffer')
                           \subseteq Elements(resume) \cup Elements(buffer) \cup {Entry(NFile)}
    BY <1>6, SaveFacts
  <2>3. TodoLeft' /\ OwnRight'
    <3>1. /\ TodoLeft /\ OwnRight /\ UNCHANGED <<todo, manifest, runs>> /\ mode'.base = mode.base
          /\ (mixed => mixed') /\ mixed \in BOOLEAN /\ mixed' \in BOOLEAN
      BY <1>0, <2>1, <2>2
    <3> QED BY ONLY <3>1, OwnKept
  <2>4. NFile = Output(Head(todo)) /\ Head(todo) \in File /\ todo # <<>>
    BY <2>1, <1>0, NFileType DEF AtFile
  <2>5. SavedRight'
    <3> DEFINE X == {Entry(NFile)}
    <3>1. \A e \in X : \E f \in File : e = Entry(Output(f))
      BY <2>4
    <3>2. SavedRight /\ mixed \in BOOLEAN /\ mixed' \in BOOLEAN /\ (mixed => mixed')
          /\ (\A e \in X : \E f \in File : e = Entry(Output(f)))
          /\ (~mixed' => entries' \cup Elements(resume') \cup Elements(buffer')
                        \subseteq entries \cup Elements(resume) \cup Elements(buffer) \cup X)
      BY <1>0, <2>2, <3>1
    <3> HIDE DEF X
    <3> QED BY ONLY <3>2, SavedKept
  <2>6. AtFile'
    <3>1. NFile' = NFile
      BY <2>1 DEF NFile
    <3>2. runs' # 0
      BY <1>00, <2>1
    <3> QED BY <2>1, <2>4, <3>1, <3>2 DEF AtFile
  <2> QED BY <2>3, <2>5, <2>6 DEF MadeInv
<1>7. CASE Write
  <2>1. todo # <<>> /\ pc = "write" /\ pc' = "files" /\ todo' = Tail(todo) /\ manifest' = Append(manifest, NFile)
        /\ UNCHANGED <<journal, runs>> /\ mode'.base = mode.base
    BY <1>0, <1>7 DEF Write, AtFile
  <2>2. NFile = Output(Head(todo)) /\ NFile \in [file : Id, list : Lists, chunks : ChunkList]
    BY <2>1, NFileType
  <2>3. UNCHANGED <<runs, mixed>> /\ runs > 0
    BY <2>1, <1>00 DEF journal, disk
  <2> DEFINE r == NFile
  <2>4. /\ r \in [file : Id, list : Lists, chunks : ChunkList]
        /\ manifest' = Append(manifest, r) /\ (Strip /\ ~mixed => r = Output(Head(todo)))
    BY <2>1, <2>2
  <2> HIDE DEF r
  <2>5. TodoLeft' /\ OwnRight'
    BY <1>0, <2>1, <2>3, <2>4, OwnGrows
  <2>6. AtFile'
    BY <2>1, <2>3 DEF AtFile
  <2>7. SavedRight'
    BY <1>0, <2>1, Zenon DEF SavedRight, journal, disk
  <2> QED BY <2>5, <2>6, <2>7 DEF MadeInv
<1>8. CASE Throw \/ AddFails
  <2>1. /\ UNCHANGED <<todo, manifest, runs>> /\ mode'.base = mode.base /\ UNCHANGED journal
        /\ pc' = "unwind" /\ pc # "off"
    BY <1>0, <1>8 DEF Throw, AddFails
  <2>2. SavedRight' /\ mixed' = mixed
    BY <1>0, <2>1, Zenon DEF SavedRight, journal, disk
  <2> QED BY <1>0, <1>00, <2>1, <2>2, MadeKept
<1>9. CASE CloseResume
  <2>1. /\ UNCHANGED <<todo, manifest, runs>> /\ mode'.base = mode.base
        /\ pc' = "close" /\ pc # "off"
    BY <1>9 DEF CloseResume, Finishing
  <2>2. /\ mixed' \in BOOLEAN /\ (mixed => mixed')
        /\ entries' = entries /\ Elements(buffer') = {}
        /\ ~mixed' => Elements(resume') \subseteq Elements(resume) \cup Elements(buffer)
    BY <1>9, CloseFacts
  <2>3. SavedRight'
    <3> DEFINE X == {}
    <3>1. SavedRight /\ mixed \in BOOLEAN /\ mixed' \in BOOLEAN /\ (mixed => mixed')
          /\ (\A e \in X : \E f \in File : e = Entry(Output(f)))
          /\ (~mixed' => entries' \cup Elements(resume') \cup Elements(buffer')
                        \subseteq entries \cup Elements(resume) \cup Elements(buffer) \cup X)
      BY <1>0, <2>2
    <3> HIDE DEF X
    <3> QED BY ONLY <3>1, SavedKept
  <2> QED BY <1>0, <1>00, <2>1, <2>2, <2>3, MadeKept
<1>10. CASE Close
  <2>1. /\ UNCHANGED <<todo, manifest, runs>> /\ mode'.base = mode.base /\ UNCHANGED journal
        /\ pc' = "off" /\ pc # "off"
    BY <1>10 DEF Close
  <2>2. SavedRight' /\ mixed' = mixed
    BY <1>0, <2>1, Zenon DEF SavedRight, journal, disk
  <2> QED BY <1>0, <1>00, <2>1, <2>2, MadeKept
<1>11. CASE Kill
  <2> DEFINE X == IF pc = "save" THEN {Entry(NFile)} ELSE {}
  <2>1. /\ mixed' \in BOOLEAN /\ (mixed => mixed')
        /\ pc' = "off" /\ entries' = {} /\ buffer' = <<>>
        /\ UNCHANGED <<manifest, todo, runs>> /\ mode'.base = mode.base
        /\ ~mixed' => Elements(resume') \subseteq Elements(resume) \cup Elements(buffer) \cup X
    BY <1>11, KillFacts
  <2>2. \A e \in X : \E f \in File : e = Entry(Output(f))
    BY NFileType
  <2> HIDE DEF X
  <2>3. ~mixed' => entries' \cup Elements(resume') \cup Elements(buffer')
                        \subseteq entries \cup Elements(resume) \cup Elements(buffer) \cup X
    <3>1. Elements(<<>>) = {}
      BY DEF Elements
    <3> QED BY <2>1, <3>1
  <2>4. SavedRight'
    <3>1. SavedRight /\ mixed \in BOOLEAN /\ mixed' \in BOOLEAN /\ (mixed => mixed')
          /\ (\A e \in X : \E f \in File : e = Entry(Output(f)))
          /\ (~mixed' => entries' \cup Elements(resume') \cup Elements(buffer')
                        \subseteq entries \cup Elements(resume) \cup Elements(buffer) \cup X)
      BY <1>0, <2>1, <2>2, <2>3
    <3> QED BY ONLY <3>1, SavedKept
  <2> QED BY <1>0, <2>1, <2>4, MadeKept
<1>12. CASE UNCHANGED vars
  <2>1. UNCHANGED <<store, journal, manifest, pc, todo, chunks, runs, kills, mode>>
    BY <1>12 DEF vars
  <2>2. SavedRight' /\ mixed' = mixed
    BY <1>0, <2>1, Zenon DEF SavedRight, journal, disk
  <2>3. TodoLeft' /\ OwnRight'
    BY <1>0, <2>1, <2>2, OwnKept
  <2>4. AtFile'
    <3>1. NFile' = NFile
      BY <2>1 DEF NFile
    <3> QED BY <1>0, <2>1, <3>1 DEF AtFile
  <2> QED BY <2>2, <2>3, <2>4 DEF MadeInv
<1> QED BY <1>1, <1>2, <1>3, <1>4, <1>5, <1>6, <1>7, <1>8, <1>9, <1>10, <1>11, <1>12 DEF Next


-----------------------------------------------------------------------------
(***************************************************************************)
(* What the resume file knows                                              *)
(***************************************************************************)

\* The entries of the manifest from its base on are known.
Listed == \A i \in mode.base + 1 .. Len(manifest) : \E e \in entries : e.file = manifest[i].file

LEMMA ListedGrows ==
    ASSUME TypeOK, Listed, NEW r \in [file : Id, list : Lists, chunks : ChunkList],
           manifest' = Append(manifest, r), mode'.base = mode.base, entries' = entries,
           \E e \in entries : e.file = r.file
    PROVE  Listed'
<1> DEFINE F == [file : Id, list : Lists, chunks : ChunkList]
           b == mode.base
<1>1. manifest \in Seq(F) /\ b \in Nat /\ r \in F
  BY DEF TypeOK
<1> HIDE DEF F
<1>2. /\ Len(manifest) \in Nat /\ Len(Append(manifest, r)) = Len(manifest) + 1
      /\ \A i \in 1 .. Len(manifest) : Append(manifest, r)[i] = manifest[i]
      /\ Append(manifest, r)[Len(manifest) + 1] = r
  BY <1>1
<1>3. ASSUME NEW i \in b + 1 .. Len(manifest')
      PROVE  \E e \in entries : e.file = manifest'[i].file
  <2> HIDE DEF b
  <2>1. CASE i \in b + 1 .. Len(manifest)
    <3>1. i \in 1 .. Len(manifest)
      BY <1>1, <1>2, <2>1
    <3> QED BY <1>2, <2>1, <3>1 DEF Listed, b
  <2>2. CASE i = Len(manifest) + 1
    BY <1>2, <2>2
  <2> QED BY <1>1, <1>2, <2>1, <2>2
<1> QED BY <1>3, Zenon DEF Listed

LEMMA JournalInit == Init => JournalInv
  BY DEF Init, JournalInv, Journaled, NothingTwice, Ended

LEMMA JournalStep ==
    ASSUME TypeOK, MadeInv, JournalInv, [Next]_vars
    PROVE  JournalInv'
<1>0. /\ Journaled /\ NothingTwice
      /\ manifest \in Seq([file : Id, list : Lists, chunks : ChunkList])
      /\ mode \in [ended : {"clean", "thrown", "killed"}, base : 0 .. Len(manifest), restored : SUBSET Id]
  BY DEF JournalInv, TypeOK
<1>1. CASE Run
  <2>1. size' = Len(resume') /\ entries' = Elements(resume') /\ pc' = "files"
    BY <1>1 DEF Run, Elements
  <2>2. mode'.base = Len(manifest') /\ Len(manifest') \in Nat
    BY <1>0, <1>1 DEF Run
  <2>3. mode'.base + 1 .. Len(manifest') = {}
    BY <2>2
  <2>4. Journaled'
    BY <2>1, <2>3 DEF Journaled
  <2>5. NothingTwice'
    BY <2>1 DEF NothingTwice, Ended
  <2> QED BY <2>4, <2>5 DEF JournalInv
<1>2. CASE Restore
  <2>1. pc = "files" /\ todo # <<>> /\ UNCHANGED <<journal, pc>> /\ mode'.base = mode.base
    BY <1>0, <1>2 DEF Restore
  <2>2. PICK e \in Known(Head(todo)) : manifest' = Append(manifest, Restored(e, Len(Head(todo).data)))
    BY <1>2 DEF Restore
  <2> DEFINE r == Restored(e, Len(Head(todo).data))
  <2>3. e \in entries /\ e \in SavedFile /\ r.file = e.file
    BY <2>2 DEF Known, TypeOK, Restored
  <2>4. r \in [file : Id, list : Lists, chunks : ChunkList]
    <3>1. Len(Head(todo).data) \in Nat
      <4>1. Head(todo) \in File
        BY <2>1, HeadType
      <4> QED BY <4>1, FileType
    <3>2. e.chunk \in Piece => <<Ref(e.chunk, Len(Head(todo).data))>> \in Seq([id : Piece, size : Nat])
      BY <3>1 DEF Ref
    <3>3. <<>> \in Seq([id : Piece, size : Nat])
      OBVIOUS
    <3> QED BY <2>3, <3>2, <3>3 DEF Restored, SavedFile, ChunkList
  <2>5. manifest' = Append(manifest, r) /\ entries' = entries
    BY <2>1, <2>2 DEF journal
  <2> HIDE DEF r
  <2>6. Listed => Listed'
    BY <2>1, <2>3, <2>4, <2>5, ListedGrows
  <2>7. Journaled'
    BY <1>0, <2>1, <2>6 DEF Journaled, Listed, journal, disk
  <2>8. NothingTwice'
    BY <2>1 DEF NothingTwice, Ended
  <2> QED BY <2>7, <2>8 DEF JournalInv
<1>3. CASE Read \/ AddChunk \/ AddList \/ AddFails \/ Throw
  <2>1. /\ UNCHANGED <<journal, manifest>> /\ mode'.base = mode.base
        /\ pc # "off" /\ pc' \in {"chunks", "save", "unwind"}
    BY <1>0, <1>3 DEF Read, AddChunk, AddList, AddFails, Throw
  <2>2. Journaled'
    BY <1>0, <2>1 DEF Journaled, journal, disk
  <2>3. NothingTwice'
    BY <2>1 DEF NothingTwice, Ended
  <2> QED BY <2>2, <2>3 DEF JournalInv
<1>4. CASE Save
  <2>1. /\ UNCHANGED <<manifest, todo, chunks>> /\ mode' = mode /\ pc = "save" /\ pc' = "write"
    BY <1>4 DEF Save
  <2>2. NFile' = NFile /\ Entry(NFile).file = NFile.file
    BY <2>1 DEF NFile, Entry
  <2>3. /\ entries' = entries \cup {Entry(NFile)}
        /\ fails' = 0 => fails = 0
        /\ fails' = 0 /\ size = Len(resume) =>
             /\ size' = Len(resume')
             /\ Elements(resume) \cup Elements(buffer) \cup {Entry(NFile)}
                  \subseteq Elements(resume') \cup Elements(buffer')
    BY <1>4, SaveFacts
  <2>4. Journaled'
    <3> SUFFICES ASSUME fails' = 0
                 PROVE  /\ size' = Len(resume')
                        /\ entries' \subseteq Elements(resume') \cup Elements(buffer')
                        /\ \A i \in mode'.base + 1 .. Len(manifest') : \E e \in entries' : e.file = manifest'[i].file
                        /\ \E e \in entries' : e.file = NFile'.file
      BY <2>1 DEF Journaled
    <3>1. /\ size = Len(resume)
          /\ entries \subseteq Elements(resume) \cup Elements(buffer)
          /\ \A i \in mode.base + 1 .. Len(manifest) : \E e \in entries : e.file = manifest[i].file
      BY <1>0, <2>1, <2>3 DEF Journaled
    <3>2. \A i \in mode'.base + 1 .. Len(manifest') : \E e \in entries' : e.file = manifest'[i].file
      BY <2>1, <2>3, <3>1
    <3>3. \E e \in entries' : e.file = NFile'.file
      BY <2>2, <2>3
    <3> QED BY <2>3, <3>1, <3>2, <3>3
  <2>5. NothingTwice'
    BY <2>1 DEF NothingTwice, Ended
  <2> QED BY <2>4, <2>5 DEF JournalInv
<1>5. CASE Write
  <2>1. /\ pc = "write" /\ pc' = "files" /\ manifest' = Append(manifest, NFile)
        /\ UNCHANGED journal /\ mode'.base = mode.base
    BY <1>5 DEF Write
  <2> DEFINE r == NFile
  <2>2. r \in [file : Id, list : Lists, chunks : ChunkList]
    BY <2>1, NFileType
  <2>3. manifest' = Append(manifest, r) /\ entries' = entries
    BY <2>1 DEF journal
  <2> HIDE DEF r
  <2>4. Listed /\ (\E e \in entries : e.file = r.file) => Listed'
    BY <2>1, <2>2, <2>3, ListedGrows
  <2>5. fails = 0 => Listed /\ (\E e \in entries : e.file = r.file)
    BY <1>0, <2>1 DEF Journaled, Listed, r
  <2>6. Journaled'
    BY <1>0, <2>1, <2>4, <2>5 DEF Journaled, Listed, journal, disk
  <2>7. NothingTwice'
    BY <2>1 DEF NothingTwice, Ended
  <2> QED BY <2>6, <2>7 DEF JournalInv
<1>6. CASE CloseResume
  <2>1. /\ UNCHANGED <<manifest, mode>> /\ pc' = "close" /\ pc # "off"
    BY <1>6 DEF CloseResume, Finishing
  <2>2. /\ entries' = entries /\ buffer' = <<>>
        /\ fails' = 0 => fails = 0
        /\ fails' = 0 /\ size = Len(resume) =>
             /\ size' = Len(resume')
             /\ Elements(resume) \cup Elements(buffer) \subseteq Elements(resume')
    BY <1>6, CloseFacts
  <2>3. Journaled'
    BY <1>0, <2>1, <2>2 DEF Journaled
  <2>4. NothingTwice'
    BY <2>1 DEF NothingTwice, Ended
  <2> QED BY <2>3, <2>4 DEF JournalInv
<1>7. CASE Close
  <2>1. /\ UNCHANGED <<journal, manifest, mode>> /\ pc = "close" /\ pc' = "off"
    BY <1>7 DEF Close
  <2>2. Journaled'
    BY <2>1 DEF Journaled
  <2>3. NothingTwice'
    <3> SUFFICES ASSUME fails = 0, NEW i \in mode.base + 1 .. Len(manifest)
                 PROVE  \E j \in DOMAIN resume : resume[j].file = manifest[i].file
      BY <2>1, Zenon DEF NothingTwice, journal, disk
    <3>1. PICK e \in entries : e.file = manifest[i].file
      BY <1>0, <2>1 DEF Journaled
    <3>2. e \in Elements(resume) \cup Elements(buffer) /\ buffer = <<>>
      BY <1>0, <2>1 DEF Journaled
    <3>3. PICK j \in DOMAIN resume : resume[j] = e
      BY <3>2 DEF Elements
    <3> QED BY <3>1, <3>3
  <2> QED BY <2>2, <2>3 DEF JournalInv
<1>8. CASE Kill
  <2>1. pc' = "off" /\ mode'.ended = "killed"
    BY <1>8, KillFacts
  <2> QED BY <2>1 DEF JournalInv, Journaled, NothingTwice, Ended
<1>9. CASE UNCHANGED vars
  <2>1. UNCHANGED <<journal, manifest, pc, todo, chunks, mode, runs>>
    BY <1>9 DEF vars
  <2>2. Journaled'
    BY <1>0, <2>1 DEF Journaled, journal, disk, NFile
  <2>3. NothingTwice'
    BY <1>0, <2>1 DEF NothingTwice, Ended, journal, disk
  <2> QED BY <2>2, <2>3 DEF JournalInv
<1> QED BY <1>1, <1>2, <1>3, <1>4, <1>5, <1>6, <1>7, <1>8, <1>9 DEF Next


-----------------------------------------------------------------------------
(***************************************************************************)
(* What the bundle has                                                     *)
(***************************************************************************)

LEMMA ReadableGrows ==
    ASSUME NEW f, NEW A, NEW B, A \subseteq B, Readable(f, A)
    PROVE  Readable(f, B)
  BY DEF Readable

\* Nothing is taken out of the bundle, and what is saved is in it.
LEMMA SavedBundledKept ==
    ASSUME SavedBundled, stored \subseteq stored', kills' = kills,
           mixed \in BOOLEAN, mixed' \in BOOLEAN, mixed => mixed',
           NEW X, \A f \in File : Entry(Output(f)) \in X => InBundle(f),
           ~mixed' => entries' \cup Elements(resume') \cup Elements(buffer')
                        \subseteq entries \cup Elements(resume) \cup Elements(buffer) \cup X
    PROVE  SavedBundled'
<1> SUFFICES ASSUME kills' = 0, ~mixed', NEW f \in File,
                    Entry(Output(f)) \in entries' \cup Elements(resume') \cup Elements(buffer')
             PROVE  InBundle(f)'
  BY Zenon DEF SavedBundled
<1> DEFINE e == Entry(Output(f))
<1> HIDE DEF e
<1>1. e \in entries \cup Elements(resume) \cup Elements(buffer) \/ e \in X
  BY DEF e
<1>2. kills = 0 /\ ~mixed
  OBVIOUS
<1>3. InBundle(f)
  BY <1>1, <1>2 DEF SavedBundled, e
<1> QED BY <1>3 DEF InBundle

\* An entry is added to the manifest whose file is in the bundle, or was restored
\* after a run was killed.
LEMMA ReadableAppended ==
    ASSUME TypeOK, ReadableNow, UNCHANGED <<stored, kills, mixed>>,
           NEW r \in [file : Id, list : Lists, chunks : ChunkList],
           manifest' = Append(manifest, r),
           mode'.base = mode.base, mode'.ended = mode.ended, mode.restored \subseteq mode'.restored,
           Strip /\ ~mixed => (kills = 0 \/ r.file \notin mode'.restored => Readable(r, stored))
    PROVE  ReadableNow'
<1> DEFINE F == [file : Id, list : Lists, chunks : ChunkList]
<1>1. manifest \in Seq(F) /\ r \in F
  BY DEF TypeOK
<1> HIDE DEF F
<1>2. /\ Len(manifest) \in Nat /\ DOMAIN manifest = 1 .. Len(manifest)
      /\ DOMAIN Append(manifest, r) = 1 .. Len(manifest) + 1
      /\ \A i \in 1 .. Len(manifest) : Append(manifest, r)[i] = manifest[i]
      /\ Append(manifest, r)[Len(manifest) + 1] = r
  BY <1>1
<1>3. ASSUME Strip, ~mixed, mode.ended # "killed", NEW i \in DOMAIN manifest',
             kills = 0 \/ (i > mode.base /\ manifest'[i].file \notin mode'.restored)
      PROVE  Readable(manifest'[i], stored)
  <2>1. CASE i \in 1 .. Len(manifest)
    <3>1. manifest'[i] = manifest[i] /\ i \in DOMAIN manifest
      BY <1>2, <2>1
    <3>2. kills = 0 \/ (i > mode.base /\ manifest[i].file \notin mode.restored)
      BY <1>3, <3>1
    <3> QED BY <1>3, <3>1, <3>2 DEF ReadableNow
  <2>2. CASE i = Len(manifest) + 1
    <3>1. manifest'[i] = r
      BY <1>2, <2>2
    <3> QED BY <1>3, <3>1
  <2> QED BY <1>2, <2>1, <2>2
<1>4. /\ stored' = stored /\ kills' = kills /\ mixed' = mixed /\ mode'.base = mode.base
      /\ mode'.ended = mode.ended
  OBVIOUS
<1> SUFFICES ASSUME Strip, ~mixed', mode'.ended # "killed", NEW i \in DOMAIN manifest',
                    kills' = 0 \/ (i > mode'.base /\ manifest'[i].file \notin mode'.restored)
             PROVE  Readable(manifest'[i], stored')
  BY Zenon DEF ReadableNow
<1> QED BY <1>3, <1>4

\* A step that leaves the manifest alone.
LEMMA ReadableKept ==
    ASSUME ReadableNow, stored \subseteq stored', UNCHANGED <<manifest, kills>>,
           mixed \in BOOLEAN, mixed' \in BOOLEAN, mixed => mixed',
           mode.ended # "killed" \/ mode' = mode,
           mode'.base = mode.base, mode'.restored = mode.restored
    PROVE  ReadableNow'
<1>1. ASSUME Strip, ~mixed', mode'.ended # "killed", NEW i \in DOMAIN manifest,
             kills = 0 \/ (i > mode.base /\ manifest[i].file \notin mode.restored)
      PROVE  Readable(manifest[i], stored')
  <2>1. ~mixed /\ mode.ended # "killed"
    BY <1>1
  <2>2. Readable(manifest[i], stored)
    BY <1>1, <2>1 DEF ReadableNow
  <2> QED BY <2>2, ReadableGrows
<1>2. /\ manifest' = manifest /\ kills' = kills /\ mode'.base = mode.base
      /\ mode'.restored = mode.restored
  OBVIOUS
<1> QED BY <1>1, <1>2, Zenon DEF ReadableNow

LEMMA BundleInit == Init => BundleInv
  BY DEF Init, BundleInv, Bundled, SavedBundled, Survived, ReadableNow, Store!Init, Elements


\* What is restored, as long as no run was killed.
LEMMA RestoredReadable ==
    ASSUME TypeOK, MadeInv, BundleInv, Strip, ~mixed, kills = 0, todo # <<>>,
           NEW e \in Known(Head(todo))
    PROVE  Readable(Restored(e, Len(Head(todo).data)), stored)
<1>1. e \in entries /\ e.file = Head(todo).id /\ Head(todo) \in File
  BY HeadType DEF Known
<1>2. PICK f \in File : e = Entry(Output(f))
  BY <1>1 DEF MadeInv, SavedRight
<1>3. f.id = Head(todo).id
  BY <1>1, <1>2, FileType
<1>4. f.data = Head(todo).data
  BY <1>1, <1>3, FilesAssumption
<1>5. InBundle(f)
  BY <1>1, <1>2 DEF BundleInv, SavedBundled
<1>6. InBundle(Head(todo))
  BY <1>4, <1>5 DEF InBundle
<1>7. Readable(Output(Head(todo)), stored)
  BY <1>1, <1>6, BundledIsReadable
<1>8. Restored(e, Len(Head(todo).data)) = Output(Head(todo))
  BY <1>1, <1>2, <1>3, RestoredIsOutput
<1> QED BY <1>7, <1>8

LEMMA BundleStep ==
    ASSUME TypeOK, MadeInv, BundleInv, [Next]_vars
    PROVE  BundleInv'
<1>0. /\ Bundled /\ SavedBundled /\ Survived /\ ReadableNow
      /\ mixed \in BOOLEAN /\ kills \in Nat
      /\ manifest \in Seq([file : Id, list : Lists, chunks : ChunkList])
      /\ mode \in [ended : {"clean", "thrown", "killed"}, base : 0 .. Len(manifest), restored : SUBSET Id]
  BY DEF BundleInv, TypeOK
<1>00. ASSUME pc # "off" PROVE mode.ended # "killed"
  BY <1>0, <1>00 DEF Survived
<1>1. CASE Run
  <2>1. /\ entries' = Elements(resume') /\ pc' = "files" /\ buffer' = <<>>
        /\ UNCHANGED <<store, resume, mixed, kills>>
    BY <1>1 DEF Run, Elements
  <2>2. /\ mode'.base = Len(manifest') /\ Len(manifest') \in Nat /\ mode'.ended = "clean"
        /\ mode'.restored = {} /\ (manifest' = manifest \/ manifest' = <<>>)
        /\ DOMAIN manifest' = 1 .. Len(manifest')
    BY <1>0, <1>1 DEF Run
  <2>3. Bundled' /\ Survived'
    BY <2>1, <2>2 DEF Bundled, Survived
  <2>4. SavedBundled'
    <3> DEFINE X == {}
    <3>1. /\ SavedBundled /\ stored \subseteq stored' /\ kills' = kills
          /\ mixed \in BOOLEAN /\ mixed' \in BOOLEAN /\ (mixed => mixed')
          /\ (\A f \in File : Entry(Output(f)) \in X => InBundle(f))
          /\ (~mixed' => entries' \cup Elements(resume') \cup Elements(buffer')
                        \subseteq entries \cup Elements(resume) \cup Elements(buffer) \cup X)
      <4>1. Elements(<<>>) = {}
        BY DEF Elements
      <4> QED BY <1>0, <2>1, <4>1 DEF store
    <3> HIDE DEF X
    <3> QED BY ONLY <3>1, SavedBundledKept
  <2>5. ReadableNow'
    <3> SUFFICES ASSUME Strip, ~mixed', NEW i \in DOMAIN manifest',
                        kills' = 0 \/ i > mode'.base
                 PROVE  Readable(manifest'[i], stored')
      BY Zenon DEF ReadableNow
    <3>1. ~(i > mode'.base)
      BY <2>2
    <3>2. kills = 0 /\ ~mixed /\ stored' = stored
      BY <2>1, <3>1 DEF store
    <3>3. manifest' = manifest /\ i \in DOMAIN manifest
      BY <2>2
    <3>4. mode.ended # "killed"
      BY <1>0, <3>2 DEF Survived
    <3>5. Readable(manifest[i], stored)
      BY <1>0, <3>2, <3>3, <3>4 DEF ReadableNow
    <3> QED BY <3>2, <3>3, <3>5
  <2> QED BY <2>3, <2>4, <2>5 DEF BundleInv
<1>2. CASE Restore
  <2>1. /\ pc = "files" /\ todo # <<>> /\ UNCHANGED <<store, journal, pc, kills>>
        /\ mode'.base = mode.base /\ mode'.ended = mode.ended
        /\ mode'.restored = mode.restored \cup {Head(todo).id}
    BY <1>0, <1>2 DEF Restore
  <2>2. PICK e \in Known(Head(todo)) : manifest' = Append(manifest, Restored(e, Len(Head(todo).data)))
    BY <1>2 DEF Restore
  <2> DEFINE r == Restored(e, Len(Head(todo).data))
  <2>3. e \in entries /\ e \in SavedFile /\ r.file = Head(todo).id
    BY <2>2 DEF Known, TypeOK, Restored
  <2>4. r \in [file : Id, list : Lists, chunks : ChunkList]
    <3>1. Len(Head(todo).data) \in Nat
      <4>1. Head(todo) \in File
        BY <2>1, HeadType
      <4> QED BY <4>1, FileType
    <3>2. e.chunk \in Piece => <<Ref(e.chunk, Len(Head(todo).data))>> \in Seq([id : Piece, size : Nat])
      BY <3>1 DEF Ref
    <3>3. <<>> \in Seq([id : Piece, size : Nat])
      OBVIOUS
    <3> QED BY <2>3, <3>2, <3>3 DEF Restored, SavedFile, ChunkList
  <2>5. Strip /\ ~mixed => (kills = 0 \/ r.file \notin mode'.restored => Readable(r, stored))
    BY <2>1, <2>2, <2>3, RestoredReadable
  <2>6. ReadableNow'
    <3>1. /\ TypeOK /\ ReadableNow /\ UNCHANGED <<stored, kills, mixed>>
          /\ r \in [file : Id, list : Lists, chunks : ChunkList]
          /\ manifest' = Append(manifest, r)
          /\ mode'.base = mode.base /\ mode'.ended = mode.ended /\ mode.restored \subseteq mode'.restored
          /\ (Strip /\ ~mixed => (kills = 0 \/ r.file \notin mode'.restored => Readable(r, stored)))
      BY <1>0, <2>1, <2>2, <2>4, <2>5 DEF store, journal, disk
    <3> HIDE DEF r
    <3> QED BY ONLY <3>1, ReadableAppended
  <2>7. Bundled' /\ Survived'
    BY <1>0, <2>1 DEF Bundled, Survived
  <2>8. SavedBundled'
    BY <1>0, <2>1, Zenon DEF SavedBundled, InBundle, store, journal, disk
  <2> QED BY <2>6, <2>7, <2>8 DEF BundleInv
<1>3. CASE Read \/ Throw
  <2>1. /\ UNCHANGED <<store, journal, manifest, kills>>
        /\ mode'.base = mode.base /\ mode'.restored = mode.restored
        /\ pc # "off" /\ (mode'.ended = mode.ended \/ mode'.ended = "thrown")
        /\ (pc' = "unwind" \/ (pc' = "chunks" /\ chunks' = <<>>))
    BY <1>0, <1>3 DEF Read, Throw
  <2>2. Bundled' /\ Survived'
    BY <1>0, <1>00, <2>1 DEF Bundled, Survived
  <2>3. SavedBundled'
    BY <1>0, <2>1, Zenon DEF SavedBundled, InBundle, store, journal, disk
  <2>4. ReadableNow'
    BY <1>0, <1>00, <2>1, ReadableKept DEF store, journal, disk
  <2> QED BY <2>2, <2>3, <2>4 DEF BundleInv
<1>12. CASE AddFails
  <2>1. /\ UNCHANGED <<journal, manifest, kills>>
        /\ mode'.base = mode.base /\ mode'.restored = mode.restored /\ mode'.ended = "thrown"
        /\ pc = "chunks" /\ pc' = "unwind"
    BY <1>12 DEF AddFails, TypeOK
  <2>2. stored \subseteq stored'
    BY <1>12, FailStep
  <2>3. Bundled' /\ Survived'
    BY <1>0, <2>1 DEF Bundled, Survived
  <2>4. SavedBundled'
    BY <1>0, <2>1, <2>2 DEF SavedBundled, InBundle, journal, disk
  <2>5. ReadableNow'
    BY <1>0, <1>00, <2>1, <2>2, ReadableKept DEF journal, disk
  <2> QED BY <2>3, <2>4, <2>5 DEF BundleInv
<1>4. CASE AddChunk
  <2> DEFINE c == Head(todo).data[Len(chunks) + 1]
  <2>1. /\ UNCHANGED <<journal, manifest, todo, kills, mode, pc>> /\ pc = "chunks"
        /\ Added(c) /\ chunks' = Append(chunks, Ref(c, 1))
        /\ Len(chunks) < Len(Head(todo).data)
    BY <1>4 DEF AddChunk
  <2>2. /\ todo # <<>> /\ chunks # NIL /\ chunks \in Seq([id : Piece, size : Nat])
    BY <2>1 DEF MadeInv, AtFile, TypeOK, ChunkList
  <2>3. c \in Piece /\ c \in Item
    <3>1. Head(todo) \in File
      BY <2>2, HeadType
    <3>2. Head(todo).data \in Seq(Piece) /\ Len(Head(todo).data) \in Nat
      BY <3>1, FileType
    <3>3. Len(chunks) + 1 \in 1 .. Len(Head(todo).data)
      BY <2>1, <2>2, <3>2
    <3> QED BY <3>2, <3>3 DEF Item
  <2> HIDE DEF c
  <2>4. stored' = stored \cup {c}
    BY <2>1, <2>3, StoreStep
  <2>5. \A i \in DOMAIN chunks' : chunks'[i].id \in stored'
    <3> DEFINE R == [id : Piece, size : Nat]
               x == Ref(c, 1)
    <3>1. x \in R /\ chunks \in Seq(R) /\ x.id = c
      BY <2>2, <2>3 DEF Ref
    <3> HIDE DEF R, x
    <3>2. /\ DOMAIN Append(chunks, x) = 1 .. Len(chunks) + 1 /\ DOMAIN chunks = 1 .. Len(chunks)
          /\ \A i \in 1 .. Len(chunks) : Append(chunks, x)[i] = chunks[i]
          /\ Append(chunks, x)[Len(chunks) + 1] = x /\ Len(chunks) \in Nat
      BY <3>1
    <3>3. chunks' = Append(chunks, x)
      BY <2>1 DEF x
    <3> TAKE i \in DOMAIN chunks'
    <3>4. i \in 1 .. Len(chunks) \/ i = Len(chunks) + 1
      BY <3>2, <3>3
    <3>5. CASE i \in 1 .. Len(chunks)
      BY <1>0, <2>1, <2>4, <3>2, <3>3, <3>5 DEF Bundled
    <3>6. CASE i = Len(chunks) + 1
      BY <2>4, <3>1, <3>2, <3>3, <3>6
    <3> QED BY <3>4, <3>5, <3>6
  <2>6. Bundled' /\ Survived'
    BY <1>0, <2>1, <2>5 DEF Bundled, Survived
  <2>7. SavedBundled'
    BY <1>0, <2>1, <2>4 DEF SavedBundled, InBundle, journal, disk
  <2>8. ReadableNow'
    BY <1>0, <1>00, <2>1, <2>4, ReadableKept DEF journal, disk
  <2> QED BY <2>6, <2>7, <2>8 DEF BundleInv
<1>5. CASE AddList
  <2>1. /\ UNCHANGED <<journal, manifest, todo, kills, mode>> /\ pc = "chunks" /\ pc' = "save"
        /\ Added(Head(todo).data)
        /\ Len(chunks) = Len(Head(todo).data)
    BY <1>5 DEF AddList
  <2>2. /\ todo # <<>> /\ chunks # NIL /\ chunks \in Seq([id : Piece, size : Nat])
        /\ \A i \in DOMAIN chunks : chunks[i] = Ref(Head(todo).data[i], 1)
    BY <2>1 DEF MadeInv, AtFile, TypeOK, ChunkList
  <2>3. Head(todo) \in File /\ Head(todo).data \in Seq(Piece) /\ Head(todo).data \in Item
    <3>1. Head(todo) \in File
      BY <2>2, HeadType
    <3> QED BY <3>1, FileType
  <2>4. stored' = stored \cup {Head(todo).data}
    BY <2>1, <2>3, StoreStep
  <2>5. \A i \in DOMAIN Head(todo).data : Head(todo).data[i] \in stored
    <3> TAKE i \in DOMAIN Head(todo).data
    <3>1. i \in DOMAIN chunks
      BY <2>1, <2>2, <2>3
    <3> QED BY <1>0, <2>1, <2>2, <3>1 DEF Bundled, Ref
  <2>6. InBundle(Head(todo))'
    BY <2>1, <2>4, <2>5 DEF InBundle
  <2>7. Bundled' /\ Survived'
    BY <1>0, <2>1, <2>6 DEF Bundled, Survived
  <2>8. SavedBundled'
    BY <1>0, <2>1, <2>4 DEF SavedBundled, InBundle, journal, disk
  <2>9. ReadableNow'
    BY <1>0, <1>00, <2>1, <2>4, ReadableKept DEF journal, disk
  <2> QED BY <2>7, <2>8, <2>9 DEF BundleInv
<1>6. CASE Save
  <2>1. /\ UNCHANGED <<store, manifest, todo, kills, mode>> /\ pc = "save" /\ pc' = "write"
    BY <1>6 DEF Save
  <2>2. /\ mixed' \in BOOLEAN /\ (mixed => mixed')
        /\ entries' = entries \cup {Entry(NFile)}
        /\ ~mixed' => Elements(resume') \cup Elements(buffer')
                           \subseteq Elements(resume) \cup Elements(buffer) \cup {Entry(NFile)}
    BY <1>6, SaveFacts
  <2>3. NFile = Output(Head(todo)) /\ Head(todo) \in File /\ InBundle(Head(todo))
    BY <1>0, <2>1, NFileType DEF Bundled
  <2>4. SavedBundled'
    <3> DEFINE X == {Entry(NFile)}
    <3>1. ASSUME NEW f \in File, Entry(Output(f)) \in X
          PROVE  InBundle(f)
      <4>1. Entry(Output(f)) = Entry(Output(Head(todo)))
        BY <2>3, <3>1
      <4>2. f.data = Head(todo).data
        BY <2>3, <4>1, FileType
      <4> QED BY <2>3, <4>2 DEF InBundle
    <3>2. /\ SavedBundled /\ stored \subseteq stored' /\ kills' = kills
          /\ mixed \in BOOLEAN /\ mixed' \in BOOLEAN /\ (mixed => mixed')
          /\ (\A f \in File : Entry(Output(f)) \in X => InBundle(f))
          /\ (~mixed' => entries' \cup Elements(resume') \cup Elements(buffer')
                        \subseteq entries \cup Elements(resume) \cup Elements(buffer) \cup X)
      BY <1>0, <2>1, <2>2, <3>1 DEF store
    <3> HIDE DEF X
    <3> QED BY ONLY <3>2, SavedBundledKept
  <2>5. Bundled' /\ Survived'
    <3>1. InBundle(Head(todo))'
      BY <2>1, <2>3 DEF InBundle, store
    <3> QED BY <1>0, <2>1, <3>1 DEF Bundled, Survived
  <2>6. ReadableNow'
    BY <1>0, <1>00, <2>1, <2>2, ReadableKept DEF store
  <2> QED BY <2>4, <2>5, <2>6 DEF BundleInv
<1>7. CASE Write
  <2>1. /\ pc = "write" /\ pc' = "files" /\ manifest' = Append(manifest, NFile)
        /\ UNCHANGED <<store, journal, kills, mode>>
    BY <1>7 DEF Write
  <2> DEFINE r == NFile
  <2>2. /\ r = Output(Head(todo)) /\ Head(todo) \in File /\ InBundle(Head(todo))
        /\ r \in [file : Id, list : Lists, chunks : ChunkList]
    BY <1>0, <2>1, NFileType DEF Bundled
  <2>3. Readable(r, stored)
    BY <2>2, BundledIsReadable
  <2>4. ReadableNow'
    <3>1. /\ TypeOK /\ ReadableNow /\ UNCHANGED <<stored, kills, mixed>>
          /\ r \in [file : Id, list : Lists, chunks : ChunkList]
          /\ manifest' = Append(manifest, r)
          /\ mode'.base = mode.base /\ mode'.ended = mode.ended /\ mode.restored \subseteq mode'.restored
          /\ (Strip /\ ~mixed => (kills = 0 \/ r.file \notin mode'.restored => Readable(r, stored)))
      BY <1>0, <2>1, <2>2, <2>3 DEF store, journal, disk
    <3> HIDE DEF r
    <3> QED BY ONLY <3>1, ReadableAppended
  <2>5. Bundled' /\ Survived'
    BY <1>0, <2>1 DEF Bundled, Survived
  <2>6. SavedBundled'
    BY <1>0, <2>1, Zenon DEF SavedBundled, InBundle, store, journal, disk
  <2> QED BY <2>4, <2>5, <2>6 DEF BundleInv
<1>8. CASE CloseResume
  <2>1. /\ UNCHANGED <<store, manifest, kills, mode>> /\ pc' = "close" /\ pc # "off"
    BY <1>8 DEF CloseResume, Finishing
  <2>2. /\ mixed' \in BOOLEAN /\ (mixed => mixed')
        /\ entries' = entries /\ Elements(buffer') = {}
        /\ ~mixed' => Elements(resume') \subseteq Elements(resume) \cup Elements(buffer)
    BY <1>8, CloseFacts
  <2>3. SavedBundled'
    <3> DEFINE X == {}
    <3>1. /\ SavedBundled /\ stored \subseteq stored' /\ kills' = kills
          /\ mixed \in BOOLEAN /\ mixed' \in BOOLEAN /\ (mixed => mixed')
          /\ (\A f \in File : Entry(Output(f)) \in X => InBundle(f))
          /\ (~mixed' => entries' \cup Elements(resume') \cup Elements(buffer')
                        \subseteq entries \cup Elements(resume) \cup Elements(buffer) \cup X)
      BY <1>0, <2>1, <2>2 DEF store
    <3> HIDE DEF X
    <3> QED BY ONLY <3>1, SavedBundledKept
  <2>4. Bundled' /\ Survived'
    BY <1>0, <2>1 DEF Bundled, Survived
  <2>5. ReadableNow'
    BY <1>0, <1>00, <2>1, <2>2, ReadableKept DEF store
  <2> QED BY <2>3, <2>4, <2>5 DEF BundleInv
<1>9. CASE Close
  <2>1. /\ UNCHANGED <<journal, manifest, kills, mode>> /\ pc = "close" /\ pc' = "off"
        /\ stored' = stored /\ durable' = stored'
    BY <1>9 DEF Close, Store!End
  <2>2. Bundled' /\ Survived'
    BY <1>0, <2>1 DEF Bundled, Survived
  <2>3. SavedBundled'
    BY <1>0, <2>1, Zenon DEF SavedBundled, InBundle, journal, disk
  <2>4. ReadableNow'
    BY <1>0, <1>00, <2>1, ReadableKept DEF journal, disk
  <2> QED BY <2>2, <2>3, <2>4 DEF BundleInv
<1>10. CASE Kill
  <2>1. pc' = "off" /\ mode'.ended = "killed" /\ kills' # 0
    BY <1>0, <1>10, KillFacts
  <2> QED BY <2>1 DEF BundleInv, Bundled, SavedBundled, Survived, ReadableNow
<1>11. CASE UNCHANGED vars
  <2>1. UNCHANGED <<store, journal, manifest, pc, todo, chunks, mode, kills>>
    BY <1>11 DEF vars
  <2>2. Bundled' /\ Survived'
    BY <1>0, <2>1 DEF Bundled, Survived, InBundle, store
  <2>3. SavedBundled'
    BY <1>0, <2>1, Zenon DEF SavedBundled, InBundle, store, journal, disk
  <2>4. ReadableNow'
    BY <1>0, <2>1, ReadableKept DEF store, journal, disk
  <2> QED BY <2>2, <2>3, <2>4 DEF BundleInv
<1> QED BY <1>1, <1>2, <1>3, <1>4, <1>5, <1>6, <1>7, <1>8, <1>9, <1>10, <1>11, <1>12 DEF Next


-----------------------------------------------------------------------------
(***************************************************************************)
(* The theorems                                                            *)
(***************************************************************************)

LEMMA Invariant == Spec => []IInv
<1>1. Init => IInv
  BY TypeInit, MadeInit, JournalInit, BundleInit DEF IInv
<1>2. IInv /\ [Next]_vars => IInv'
  BY TypeStep, MadeStep, JournalStep, BundleStep, Zenon DEF IInv
<1> QED BY <1>1, <1>2, PTL DEF Spec

\* The variables have their types: in particular, what rman-remake holds back for the
\* resume file never reaches --resume-buffer entries.
THEOREM RemakeTyped == Spec => []TypeOK
<1>1. IInv => TypeOK
  BY DEF IInv
<1> QED BY <1>1, Invariant, PTL

\* With --strip-chunks, what a run gives to the manifest are the files it has read, in
\* their order, each as processing it gives it, the ones restored from the resume file
\* included: whatever was killed, written partly or appended to before.
THEOREM RestoresFaithfully ==
    ASSUME Strip
    PROVE  Spec => []RestoreFaithful
<1>1. ASSUME IInv, ~mixed
      PROVE  LET n == IF runs = 0 THEN 0 ELSE Len(Files) - Len(todo)
             IN  SubSeq(manifest, mode.base + 1, Len(manifest)) = [i \in 1 .. n |-> Output(Files[i])]
  <2> DEFINE n == IF runs = 0 THEN 0 ELSE Done
             F == [file : Id, list : Lists, chunks : ChunkList]
             b == mode.base
             s == SubSeq(manifest, b + 1, Len(manifest))
             t == [i \in 1 .. n |-> Output(Files[i])]
  <2>1. manifest \in Seq(F) /\ b \in Nat /\ runs \in Nat /\ Len(manifest) \in Nat /\ b <= Len(manifest)
    BY <1>1 DEF IInv, TypeOK
  <2>2. n \in Nat /\ Len(manifest) = b + n /\ \A i \in 1 .. n : manifest[b + i] = Output(Files[i])
    <3>1. CASE runs = 0
      <4>1. Len(manifest) = 0 /\ b = 0
        BY <1>1, <3>1 DEF IInv, MadeInv, AtFile
      <4> QED BY <3>1, <4>1
    <3>2. CASE runs # 0
      <4>1. runs > 0
        BY <2>1, <3>2
      <4>2. Len(manifest) = b + Done /\ \A i \in 1 .. Done : manifest[b + i] = Output(Files[i])
        BY <1>1, <4>1 DEF IInv, MadeInv, OwnRight
      <4>3. Done \in Nat
        <5>1. Len(todo) \in Nat /\ Len(Files) \in Nat /\ Len(todo) <= Len(Files)
          BY <1>1, FilesAssumption DEF IInv, TypeOK, MadeInv, TodoLeft
        <5> QED BY <5>1 DEF Done
      <4> QED BY <3>2, <4>2, <4>3
    <3> QED BY <3>1, <3>2
  <2> HIDE DEF F, b, n
  <2>3. s \in Seq(F) /\ Len(s) = n /\ \A i \in 1 .. Len(s) : b + i \in 1 .. Len(manifest) /\ s[i] = manifest[b + i]
    <3> HIDE DEF s
    <3>1. s = SubSeq(manifest, b + 1, Len(manifest))
      BY DEF s
    <3>2. /\ s \in Seq(F) /\ Len(s) = (IF b <= Len(manifest) THEN Len(manifest) - b ELSE 0)
          /\ \A i \in 1 .. Len(s) : b + i \in 1 .. Len(manifest) /\ s[i] = manifest[b + i]
      BY <2>1, <3>1, CutOff
    <3> QED BY <2>1, <2>2, <3>2
  <2>4. DOMAIN s = 1 .. n /\ s = [i \in 1 .. n |-> s[i]]
    <3> HIDE DEF s
    <3> QED BY <2>2, <2>3
  <2>5. \A i \in 1 .. n : s[i] = Output(Files[i])
    BY <2>2, <2>3
  <2>6. s = t
    <3> HIDE DEF s
    <3> QED BY <2>4, <2>5
  <2> QED BY <2>6 DEF n, b, Done
<1>2. IInv => RestoreFaithful
  BY <1>1, Zenon DEF RestoreFaithful
<1> QED BY <1>2, Invariant, PTL

\* What the runs wrote to the manifest can be read from the bundle after each of them,
\* with --strip-chunks: in all of it while no run was killed, and in what the last run
\* processed itself whatever was killed before.
THEOREM ManifestStaysReadable ==
    ASSUME Strip
    PROVE  Spec => []ManifestReadable
<1>1. IInv => ManifestReadable
  BY DEF IInv, BundleInv, Survived, ReadableNow, ManifestReadable, Ended
<1> QED BY <1>1, Invariant, PTL

\* With or without --strip-chunks, after a run that ended in order or with an exception,
\* and while no write failed, the resume file knows every file of the run: the next one
\* processes none of them again.
THEOREM NoFileTwice == Spec => []NothingTwice
<1>1. IInv => NothingTwice
  BY DEF IInv, JournalInv
<1> QED BY <1>1, Invariant, PTL
=============================================================================
