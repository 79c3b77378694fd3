----------------------------- MODULE RCacheProofs -----------------------------
(***************************************************************************)
(* RCache, for every set of chunks, all sizes and options.  First what     *)
(* holds whatever fails and whenever the process is killed: the state is   *)
(* well typed, parts but the last are sealed, and a process that has the   *)
(* cache open for writing reads right, also after writes that failed.      *)
(*                                                                         *)
(* Then what is left on the disk: no chunk is stored twice, and a cache    *)
(* no write was cut short of opens again.  And, as long as no write failed *)
(* and left the process running, whatever else happens to it: every read   *)
(* is right, of this process and of the next, every part is within its     *)
(* limit, and the cache implements ContentStore.                           *)
(***************************************************************************)
EXTENDS RCache, FiniteSetTheorems, TLAPS

\* A non-empty set of naturals has a least element.  It stands for induction:
\* the least counterexample of a claim about naturals is looked at.
LEMMA LeastNatural ==
    ASSUME NEW T, T \subseteq Nat, T # {}
    PROVE  \E m \in T : \A k \in T : m <= k
<1>1. PICK n \in T : TRUE
  OBVIOUS
<1>2. n \in Nat
  BY <1>1
<1> DEFINE W == {k \in T : k <= n}
           I == {1 .. k : k \in W}
           S == 1 .. n
<1>3. I \subseteq FiniteSubsetsOf(S)
  <2> SUFFICES ASSUME NEW k \in W PROVE 1 .. k \in FiniteSubsetsOf(S)
    OBVIOUS
  <2>1. k \in Nat /\ 1 .. k \subseteq S
    BY <1>2
  <2>2. IsFiniteSet(1 .. k)
    BY <2>1, FS_Interval
  <2> QED BY <2>1, <2>2 DEF FiniteSubsetsOf
<1>4. IsWellFoundedOn(StrictSubsetOrdering(S), FiniteSubsetsOf(S))
  BY FS_StrictSubsetOrderingWellFounded
<1>5. I # {}
  BY <1>2
<1> HIDE DEF I, S, W
<1>6. PICK x \in I : \A y \in I : ~(<<y, x>> \in StrictSubsetOrdering(S))
  BY <1>3, <1>4, <1>5, WFMin
<1>7. PICK m \in W : x = 1 .. m
  BY DEF I
<1>8. ASSUME NEW k \in T, k < m PROVE FALSE
  <2>1. k \in W /\ m \in Nat /\ k \in Nat
    BY <1>2, <1>8 DEF W
  <2>2. 1 .. k \in I
    BY <2>1 DEF I
  <2>3. m \in 1 .. m /\ m \notin 1 .. k
    BY <2>1, <1>8
  <2>4. 1 .. k \subseteq 1 .. m /\ 1 .. k # 1 .. m
    BY <2>1, <2>3, <1>8
  <2> QED BY <1>3, <1>6, <1>7, <2>2, <2>4 DEF StrictSubsetOrdering, FiniteSubsetsOf
<1> QED BY <1>7, <1>8 DEF W

-----------------------------------------------------------------------------
(***************************************************************************)
(* Offsets                                                                 *)
(***************************************************************************)

\* e gives the ends of the first n chunks of a table.
Ends(e, table, n) ==
    /\ e \in [0 .. n -> Nat]
    /\ e[0] = 0
    /\ \A i \in 1 .. n : e[i] = e[i - 1] + Size[table[i]]

\* The loop of RBUN::read has a result for every table.
LEMMA EndsExist ==
    ASSUME NEW table \in Seq(Chunk)
    PROVE  \E e : Ends(e, table, Len(table))
<1> DEFINE Bad == {n \in 0 .. Len(table) : ~ \E e : Ends(e, table, n)}
<1>1. SUFFICES ASSUME Bad # {} PROVE FALSE
  <2>1. Len(table) \in 0 .. Len(table)
    OBVIOUS
  <2> QED BY <2>1
<1>2. PICK m \in Bad : \A k \in Bad : m <= k
  <2>1. Bad \subseteq Nat
    OBVIOUS
  <2> QED BY <1>1, <2>1, LeastNatural
<1>3. m \in 0 .. Len(table) /\ ~ \E e : Ends(e, table, m)
  BY <1>2
<1>4. m # 0
  <2>1. Ends([i \in 0 .. 0 |-> 0], table, 0)
    BY DEF Ends
  <2> QED BY <2>1, <1>3
<1>5. PICK e : Ends(e, table, m - 1)
  <2>1. m - 1 \in 0 .. Len(table) /\ m - 1 \notin Bad
    BY <1>2, <1>3, <1>4
  <2> QED BY <2>1
<1> DEFINE f == [i \in 0 .. m |-> IF i = m THEN e[m - 1] + Size[table[m]] ELSE e[i]]
<1>6. Size[table[m]] \in Nat
  BY <1>3, <1>4, SizeAssumption
<1>7. f \in [0 .. m -> Nat]
  BY <1>3, <1>4, <1>5, <1>6 DEF Ends
<1>8. f[0] = 0
  BY <1>3, <1>4, <1>5 DEF Ends
<1>9. \A i \in 1 .. m : f[i] = f[i - 1] + Size[table[i]]
  BY <1>3, <1>4, <1>5 DEF Ends
<1> QED BY <1>3, <1>7, <1>8, <1>9 DEF Ends

\* The ends are determined by the table: two results agree as far as both go.
LEMMA EndsAgree ==
    ASSUME NEW table \in Seq(Chunk), NEW n \in Nat, n <= Len(table),
           NEW e, Ends(e, table, n),
           NEW f, DOMAIN f = 0 .. n, f[0] = 0,
           \A i \in 1 .. n : f[i] = f[i - 1] + Size[table[i]]
    PROVE  \A i \in 0 .. n : f[i] = e[i]
<1> DEFINE Bad == {i \in 0 .. n : f[i] # e[i]}
<1>1. SUFFICES ASSUME Bad # {} PROVE FALSE
  OBVIOUS
<1>2. PICK m \in Bad : \A k \in Bad : m <= k
  <2>1. Bad \subseteq Nat
    OBVIOUS
  <2> QED BY <1>1, <2>1, LeastNatural
<1>3. m \in 1 .. n
  BY <1>2 DEF Ends
<1>4. m - 1 \in 0 .. n /\ f[m - 1] = e[m - 1]
  BY <1>2, <1>3
<1> QED BY <1>2, <1>3, <1>4 DEF Ends

\* The recursive definition of Offsets is one of ends.
LEMMA OffsetsAreEnds ==
    ASSUME NEW table \in Seq(Chunk)
    PROVE  Ends(Offsets(table), table, Len(table))
<1> DEFINE n == Len(table)
           F(g) == [i \in 0 .. n |-> IF i = 0 THEN 0 ELSE g[i - 1] + Size[table[i]]]
<1>1. PICK e : Ends(e, table, n)
  BY EndsExist
<1>2. e = F(e)
  BY <1>1 DEF Ends
<1>3. Offsets(table) = CHOOSE g : g = F(g)
  BY DEF Offsets
<1>4. Offsets(table) = F(Offsets(table))
  <2> HIDE DEF F
  <2> QED BY <1>2, <1>3
<1> DEFINE f == Offsets(table)
<1> HIDE DEF f
<1>5. f = F(f)
  BY <1>4 DEF f
<1>6. DOMAIN f = 0 .. n /\ f[0] = 0
  BY <1>5
<1>7. \A i \in 1 .. n : f[i] = f[i - 1] + Size[table[i]]
  BY <1>5
<1>8. \A i \in 0 .. n : f[i] = e[i]
  BY <1>1, <1>6, <1>7, EndsAgree
<1>9. f = e
  BY <1>1, <1>5, <1>6, <1>8 DEF Ends
<1> QED BY <1>1, <1>9 DEF f

\* A chunk starts where the chunks before it end, at or before every later end.
LEMMA OffsetsGrow ==
    ASSUME NEW table \in Seq(Chunk),
           NEW i \in 0 .. Len(table), NEW j \in i .. Len(table)
    PROVE  Offsets(table)[i] <= Offsets(table)[j]
<1> DEFINE e == Offsets(table)
           Bad == {k \in i .. Len(table) : ~(e[i] <= e[k])}
<1>0. Len(table) \in Nat
  OBVIOUS
<1>1. Ends(e, table, Len(table))
  BY OffsetsAreEnds
<1> HIDE DEF e
<1>2. SUFFICES ASSUME Bad # {} PROVE FALSE
  BY DEF e
<1>3. PICK m \in Bad : \A k \in Bad : m <= k
  <2>1. Bad \subseteq Nat
    BY <1>0
  <2> HIDE DEF Bad
  <2> QED BY <1>2, <2>1, LeastNatural
<1>4. m \in i .. Len(table) /\ ~(e[i] <= e[m])
  BY <1>3
<1>5. m # i
  BY <1>0, <1>1, <1>4 DEF Ends
<1>6. m - 1 \in i .. Len(table) /\ m - 1 \notin Bad
  <2>1. m \in Int /\ m - 1 \in Int /\ ~(m <= m - 1)
    BY <1>4
  <2>2. m - 1 \in i .. Len(table)
    BY <1>0, <1>4, <1>5
  <2> HIDE DEF Bad
  <2> QED BY <1>3, <2>1, <2>2
<1>7. e[i] <= e[m - 1]
  BY <1>6
<1>8. e[m] = e[m - 1] + Size[table[m]]
  BY <1>0, <1>1, <1>4, <1>5 DEF Ends
<1>9. Size[table[m]] \in Nat
  BY <1>0, <1>4, <1>5, SizeAssumption
<1>10. m \in 0 .. Len(table) /\ m - 1 \in 0 .. Len(table) /\ i \in 0 .. Len(table)
  BY <1>0, <1>4, <1>6
<1>11. e[m] \in Nat /\ e[m - 1] \in Nat /\ e[i] \in Nat
  BY <1>1, <1>10 DEF Ends
<1> QED BY <1>4, <1>7, <1>8, <1>9, <1>11

-----------------------------------------------------------------------------
(***************************************************************************)
(* Files                                                                   *)
(***************************************************************************)

\* The cells a flush writes.
LEMMA DataType ==
    ASSUME NEW c \in Chunk
    PROVE  Data(c) \in Seq(Cell) /\ Len(Data(c)) = Size[c]
<1>1. Size[c] \in Nat
  BY SizeAssumption
<1>2. \A k \in 1 .. Size[c] : [kind |-> "data", id |-> c, at |-> k] \in Cell
  BY DEF Cell
<1> QED BY <1>1, <1>2 DEF Data

LEMMA TocType ==
    ASSUME NEW table \in Seq(Chunk)
    PROVE  Toc(table) \in Seq(Cell) /\ Len(Toc(table)) = Len(table)
<1>1. \A i \in 1 .. Len(table) : [kind |-> "entry", id |-> table[i]] \in Cell
  BY DEF Cell
<1>2. DOMAIN table = 1 .. Len(table) /\ Len(table) \in Nat
  OBVIOUS
<1> QED BY <1>1, <1>2 DEF Toc

LEMMA FooterType ==
    ASSUME NEW table \in Seq(Chunk)
    PROVE  <<FooterCell(table)>> \in Seq(Cell)
BY DEF Cell, FooterCell

\* A write at an offset inside the file never shortens it and leaves no hole.
LEMMA OverwriteType ==
    ASSUME NEW file \in Seq(Cell), NEW cells \in Seq(Cell),
           NEW offset \in Nat, offset <= Len(file)
    PROVE  /\ Overwrite(file, offset, cells) \in Seq(Cell)
           /\ Len(Overwrite(file, offset, cells)) >= Len(file)
           /\ Len(Overwrite(file, offset, cells)) >= offset + Len(cells)
<1> DEFINE n == IF Len(file) > offset + Len(cells)
                THEN Len(file) ELSE offset + Len(cells)
<1>1. n \in Nat /\ n >= Len(file) /\ n >= offset + Len(cells)
  OBVIOUS
<1>2. \A i \in 1 .. n :
        (IF i > offset /\ i <= offset + Len(cells)
         THEN cells[i - offset] ELSE file[i]) \in Cell
  OBVIOUS
<1> HIDE DEF n
<1>3. Overwrite(file, offset, cells) \in Seq(Cell)
  BY <1>1, <1>2 DEF Overwrite, n
<1>4. Len(Overwrite(file, offset, cells)) = n
  BY <1>1 DEF Overwrite, n
<1> QED BY <1>1, <1>3, <1>4

\* A write leaves the cells before it alone and is read back.
LEMMA OverwriteCells ==
    ASSUME NEW file \in Seq(Cell), NEW cells \in Seq(Cell),
           NEW offset \in Nat, offset <= Len(file)
    PROVE  /\ \A i \in 1 .. offset : Overwrite(file, offset, cells)[i] = file[i]
           /\ \A i \in 1 .. Len(cells) :
                 Overwrite(file, offset, cells)[offset + i] = cells[i]
BY DEF Overwrite

LEMMA CutShortType ==
    ASSUME NEW cells \in Seq(Cell), NEW j \in 0 .. Len(cells) - 1,
           NEW torn \in BOOLEAN
    PROVE  CutShort(cells, j, torn) \in Seq(Cell)
<1> DEFINE n == IF torn THEN j + 1 ELSE j
<1>1. n \in Nat /\ n <= Len(cells) /\ j \in Nat
  OBVIOUS
<1>2. TornCell \in Cell
  BY DEF Cell
<1>3. \A i \in 1 .. n : (IF i <= j THEN cells[i] ELSE TornCell) \in Cell
  BY <1>1, <1>2
<1> HIDE DEF n
<1> QED BY <1>1, <1>3 DEF CutShort, n

\* A file that RBUN::read accepts has the table of contents its footer was
\* computed from, right before it.
LEMMA AcceptsLayout ==
    ASSUME NEW file \in Seq(Cell), Accepts(file)
    PROVE  /\ file # <<>> /\ Len(file) \in Nat \ {0}
           /\ file[Len(file)] = FooterCell(Chunks(file))
           /\ Chunks(file) \in Seq(Chunk)
           /\ EntryCount(file) = Len(Chunks(file))
           /\ TocOffset(file) \in Nat
           /\ Len(file) = TocOffset(file) + Len(Chunks(file)) + 1
           /\ \A i \in 1 .. Len(Chunks(file)) :
                 file[TocOffset(file) + i] = [kind |-> "entry", id |-> Chunks(file)[i]]
<1> DEFINE last == file[Len(file)]
<1>1. file # <<>> /\ Len(file) \in Nat \ {0} /\ last \in Cell /\ last.kind = "footer"
  BY DEF Accepts
<1>2. PICK t \in Seq(Chunk) : last = FooterCell(t)
  BY <1>1 DEF Cell, FooterCell, TornCell
<1>3. last.toc = t /\ Len(t) \in Nat /\ DOMAIN t = 1 .. Len(t)
  BY <1>2 DEF FooterCell
<1>4. EntryCount(file) = Len(t)
  BY <1>1, <1>3 DEF EntryCount
<1>5. TocOffset(file) = Len(file) - 1 - Len(t) /\ TocOffset(file) >= 0
  BY <1>1, <1>4 DEF TocOffset, Accepts
<1>6. \A i \in 1 .. Len(t) : file[TocOffset(file) + i] = [kind |-> "entry", id |-> t[i]]
  <2>1. \A i \in 1 .. Len(t) : file[TocOffset(file) + i] = Toc(t)[i]
    BY <1>3, <1>4 DEF Accepts
  <2> QED BY <1>3, <2>1 DEF Toc
<1>7. Chunks(file) = t
  <2>1. ASSUME NEW i \in 1 .. Len(t) PROVE file[TocOffset(file) + i].id = t[i]
    <3>1. file[TocOffset(file) + i] = [kind |-> "entry", id |-> t[i]]
      BY <1>6
    <3> QED BY ONLY <3>1
  <2>2. Chunks(file) = [i \in 1 .. Len(t) |-> file[TocOffset(file) + i].id]
    BY <1>4 DEF Chunks
  <2>3. t = [i \in 1 .. Len(t) |-> t[i]]
    BY <1>3
  <2> QED BY <2>1, <2>2, <2>3
<1> QED BY <1>1, <1>2, <1>4, <1>5, <1>6, <1>7

\* A file that was just created reads as a bundle without chunks.
LEMMA EmptyLayout ==
    /\ EntryCount(<<>>) = 0
    /\ TocOffset(<<>>) = 0
    /\ Chunks(<<>>) = <<>>
    /\ Ids(<<>>) = {}
BY DEF EntryCount, TocOffset, Chunks, Ids

\* The offset the lookup records for a chunk of an accepted file is the end of
\* the chunks before one of its entries.
LEMMA OffsetOfEntry ==
    ASSUME NEW file \in Seq(Cell), Accepts(file), NEW c \in Ids(file)
    PROVE  \E n \in 1 .. Len(Chunks(file)) :
              /\ Chunks(file)[n] = c
              /\ OffsetOf(file, c) = Offsets(Chunks(file))[n - 1]
              /\ OffsetOf(file, c) \in Nat
<1> DEFINE table == Chunks(file)
           IsLast(n) == table[n] = c /\ \A m \in DOMAIN table : table[m] = c => m <= n
<1>1. table \in Seq(Chunk) /\ Len(table) \in Nat
  BY AcceptsLayout
<1> HIDE DEF table
<1>2. PICK k \in 1 .. Len(table) : table[k] = c
  BY <1>1 DEF Ids, table
<1> DEFINE Gaps == {Len(table) - n : n \in {m \in 1 .. Len(table) : table[m] = c}}
<1>3. Gaps \subseteq Nat /\ Gaps # {}
  BY <1>1, <1>2
<1>4. \A m \in 1 .. Len(table) : table[m] = c => Len(table) - m \in Gaps
  OBVIOUS
<1>5. \A g \in Gaps : \E n \in 1 .. Len(table) : table[n] = c /\ g = Len(table) - n
  OBVIOUS
<1> HIDE DEF Gaps
<1>6. PICK g \in Gaps : \A h \in Gaps : g <= h
  BY <1>3, LeastNatural
<1>7. \E n \in DOMAIN table : IsLast(n)
  <2>1. PICK n \in 1 .. Len(table) : table[n] = c /\ g = Len(table) - n
    BY <1>5
  <2>2. ASSUME NEW m \in 1 .. Len(table), table[m] = c PROVE m <= n
    <3>1. g <= Len(table) - m
      BY <1>4, <1>6, <2>2
    <3> QED BY <1>1, <2>1, <3>1
  <2>3. DOMAIN table = 1 .. Len(table)
    BY <1>1
  <2> QED BY <2>1, <2>2, <2>3
<1> DEFINE i == CHOOSE n \in DOMAIN table : IsLast(n)
<1>8. i \in DOMAIN table /\ IsLast(i)
  BY <1>7
<1>9. OffsetOf(file, c) = Offsets(table)[i - 1]
  BY DEF OffsetOf, table
<1> HIDE DEF i
<1>10. i \in 1 .. Len(table) /\ i - 1 \in 0 .. Len(table)
  BY <1>1, <1>8
<1>11. Offsets(table)[i - 1] \in Nat
  BY <1>1, <1>10, OffsetsAreEnds DEF Ends
<1> QED BY <1>8, <1>9, <1>10, <1>11 DEF table

-----------------------------------------------------------------------------
(***************************************************************************)
(* What holds whatever fails                                               *)
(***************************************************************************)

\* The part that is written exists, and the writer's offset lies inside it: a
\* write leaves no hole.  A call in progress that adds has a chunk to add.
WriterInPart ==
    /\ mode = "readwrite" => Last > 0 /\ tocOffset <= Len(disk[Last])
    /\ mode # "readwrite" => pc = "idle"
    /\ pending \in Chunk <=>
         pc \in {"rollover", "create", "header", "append", "appended"}

TypeInv == TypeOK /\ WriterInPart

-----------------------------------------------------------------------------
\* What opening a cache for reading puts in the lookup, when every part of it
\* was accepted (or, for the last one, is empty).
LEMMA LookupType ==
    ASSUME NEW parts \in Seq(Seq(Cell)),
           \A p \in 1 .. Len(parts) : parts[p] = <<>> \/ Accepts(parts[p])
    PROVE  /\ AllIds(parts) \subseteq Chunk
           /\ Lookup(parts) \in [AllIds(parts) -> Entry]
<1>0. DOMAIN parts = 1 .. Len(parts)
  OBVIOUS
<1>1. \A p \in 1 .. Len(parts) : Ids(parts[p]) \subseteq Chunk
  <2> SUFFICES ASSUME NEW p \in 1 .. Len(parts) PROVE Ids(parts[p]) \subseteq Chunk
    OBVIOUS
  <2>1. CASE parts[p] = <<>>
    BY <2>1, EmptyLayout
  <2>2. CASE Accepts(parts[p])
    <3>1. Chunks(parts[p]) \in Seq(Chunk)
      BY <2>2, AcceptsLayout
    <3> QED BY <3>1 DEF Ids
  <2> QED BY <2>1, <2>2
<1>2. AllIds(parts) \subseteq Chunk
  BY <1>0, <1>1 DEF AllIds
<1>3. ASSUME NEW c \in AllIds(parts)
      PROVE  [part |-> PartOf(parts, c),
              offset |-> OffsetOf(parts[PartOf(parts, c)], c)] \in Entry
  <2> DEFINE Has == {p \in 1 .. Len(parts) : c \in Ids(parts[p])}
  <2>1. Has # {} /\ Has \subseteq Nat
    BY <1>0 DEF AllIds
  <2>2. PICK p \in Has : \A q \in Has : p <= q
    <3> HIDE DEF Has
    <3> QED BY <2>1, LeastNatural
  <2>3. \E q \in DOMAIN parts :
           /\ c \in Ids(parts[q])
           /\ \A r \in DOMAIN parts : c \in Ids(parts[r]) => q <= r
    BY <1>0, <2>2
  <2> DEFINE q == PartOf(parts, c)
  <2>4. q \in DOMAIN parts /\ c \in Ids(parts[q])
    BY <2>3 DEF PartOf
  <2> HIDE DEF q
  <2>5. q \in 1 .. Len(parts) /\ Accepts(parts[q]) /\ parts[q] \in Seq(Cell)
    BY <2>4, EmptyLayout
  <2>6. OffsetOf(parts[q], c) \in Nat
    BY <2>4, <2>5, OffsetOfEntry
  <2> QED BY <2>5, <2>6 DEF Entry, q
<1> QED BY <1>2, <1>3 DEF Lookup

\* The cells of a flush.
LEMMA FlushedType ==
    ASSUME TypeOK
    PROVE  /\ Flushed \in Seq(Cell)
           /\ Len(Flushed) = Len(buffer) + Len(chunks) + 1
<1>1. buffer \in Seq(Cell) /\ chunks \in Seq(Chunk)
  BY DEF TypeOK
<1>2. Toc(chunks) \in Seq(Cell) /\ Len(Toc(chunks)) = Len(chunks)
  BY <1>1, TocType
<1>3. <<FooterCell(chunks)>> \in Seq(Cell) /\ Len(<<FooterCell(chunks)>>) = 1
  BY <1>1, FooterType
<1>4. buffer \o Toc(chunks) \in Seq(Cell)
      /\ Len(buffer \o Toc(chunks)) = Len(buffer) + Len(chunks)
  BY <1>1, <1>2
<1> QED BY <1>1, <1>2, <1>3, <1>4 DEF Flushed

\* A write to the last part.
LEMMA WriteType ==
    ASSUME TypeInv, mode = "readwrite", NEW cells \in Seq(Cell), Write(cells)
    PROVE  /\ disk' \in Seq(Seq(Cell))
           /\ Len(disk') = Last
           /\ Len(disk'[Last]) >= Len(disk[Last])
           /\ Len(disk'[Last]) >= tocOffset + Len(cells)
           /\ \A p \in 1 .. Last - 1 : disk'[p] = disk[p]
<1>1. disk \in Seq(Seq(Cell)) /\ Last \in Nat /\ Last > 0
      /\ tocOffset \in Nat /\ tocOffset <= Len(disk[Last])
  BY DEF TypeInv, TypeOK, WriterInPart, Last
<1>2. disk[Last] \in Seq(Cell)
  BY <1>1 DEF Last
<1> DEFINE f == Overwrite(disk[Last], tocOffset, cells)
<1>3. f \in Seq(Cell) /\ Len(f) >= Len(disk[Last]) /\ Len(f) >= tocOffset + Len(cells)
  BY <1>1, <1>2, OverwriteType
<1> HIDE DEF f
<1>4. disk' = [disk EXCEPT ![Last] = f]
  BY DEF Write, f
<1>5. disk' \in Seq(Seq(Cell)) /\ Len(disk') = Last
  BY <1>1, <1>3, <1>4 DEF Last
<1>6. disk'[Last] = f /\ \A p \in 1 .. Last - 1 : disk'[p] = disk[p]
  BY <1>1, <1>4 DEF Last
<1> QED BY <1>3, <1>5, <1>6

LEMMA PartialWriteType ==
    ASSUME TypeInv, mode = "readwrite", PartialWrite
    PROVE  /\ disk' \in Seq(Seq(Cell))
           /\ Len(disk') = Last
           /\ Len(disk'[Last]) >= Len(disk[Last])
           /\ \A p \in 1 .. Last - 1 : disk'[p] = disk[p]
<1>1. PICK j \in 0 .. Len(Flushed) - 1, torn \in BOOLEAN :
          Write(CutShort(Flushed, j, torn))
  BY DEF PartialWrite
<1>2. Flushed \in Seq(Cell)
  BY FlushedType DEF TypeInv
<1>3. CutShort(Flushed, j, torn) \in Seq(Cell)
  BY <1>2, CutShortType
<1> QED BY <1>1, <1>3, WriteType

-----------------------------------------------------------------------------
LEMMA InitType == Init => TypeInv
BY NoneAssumption, OptionsAssumption
   DEF Init, TypeInv, TypeOK, WriterInPart, NoLookup, Last

\* The process ended, however the disk was left.
LEMMA EndedType ==
    ASSUME TypeInv, disk' \in Seq(Seq(Cell)), fails' \in 0 .. MaxFails,
           NEW m \in {"closed", "refused"}, Ended(m)
    PROVE  TypeInv'
<1>1. \E C \in SUBSET Chunk : lookup' \in [C -> Entry]
  <2>1. lookup' \in [{} -> Entry] /\ {} \in SUBSET Chunk
    BY DEF Ended, NoLookup
  <2> QED BY <2>1
<1>2. mode' = m /\ pc' = "idle" /\ pending' = None /\ chunks' = <<>> /\ buffer' = <<>>
      /\ tocOffset' = 0 /\ endOffset' = 0 /\ fileSize' = 0
  BY DEF Ended
<1>3. TypeOK'
  <2>1. <<>> \in Seq(Chunk) /\ <<>> \in Seq(Cell) /\ 0 \in Nat
    OBVIOUS
  <2> QED BY <1>1, <1>2, <2>1 DEF TypeOK
<1>4. WriterInPart'
  BY <1>2, NoneAssumption DEF WriterInPart
<1> QED BY <1>3, <1>4 DEF TypeInv

LEMMA OpenType ==
    ASSUME TypeInv, NEW newonly \in BOOLEAN, OpenReadWrite(newonly)
    PROVE  TypeInv'
<1> DEFINE file == IF Reuses(newonly) THEN disk[Last] ELSE <<>>
<1>1. disk \in Seq(Seq(Cell)) /\ Last \in Nat
  BY DEF TypeInv, TypeOK, Last
<1>2. \A p \in 1 .. Len(disk) : disk[p] = <<>> \/ Accepts(disk[p])
  <2>1. WritableParts(newonly)
    BY DEF OpenReadWrite
  <2>2. CASE Reuses(newonly)
    <3>1. \A p \in 1 .. Last - 1 : Accepts(disk[p])
      BY <2>1, <2>2 DEF WritableParts, MappedParts
    <3>2. disk[Last] = <<>> \/ Accepts(disk[Last])
      BY <2>1, <2>2 DEF WritableParts
    <3> QED BY <1>1, <3>1, <3>2 DEF Last
  <2>3. CASE ~Reuses(newonly)
    BY <2>1, <2>3 DEF WritableParts, MappedParts, Last
  <2> QED BY <2>2, <2>3
<1>3. lookup' \in [AllIds(disk) -> Entry] /\ AllIds(disk) \subseteq Chunk
  BY <1>1, <1>2, LookupType DEF OpenReadWrite
<1>4. file \in Seq(Cell) /\ (file = <<>> \/ Accepts(file))
  BY <1>1, <1>2 DEF Reuses, Last
<1>5. /\ disk' \in Seq(Seq(Cell)) /\ Len(disk') > 0
      /\ disk'[Len(disk')] = file
  BY <1>1 DEF OpenReadWrite, Reuses, Last
<1> HIDE DEF file
<1>6. /\ TocOffset(file) \in Nat /\ Len(file) \in Nat /\ TocOffset(file) <= Len(file)
      /\ Chunks(file) \in Seq(Chunk)
  <2>1. CASE file = <<>>
    <3>1. TocOffset(file) = 0 /\ Chunks(file) = <<>>
      BY <2>1, EmptyLayout
    <3>2. Len(file) = 0 /\ <<>> \in Seq(Chunk)
      BY <2>1
    <3> QED BY <3>1, <3>2
  <2>2. CASE Accepts(file)
    <3>1. /\ Chunks(file) \in Seq(Chunk) /\ TocOffset(file) \in Nat
          /\ Len(file) = TocOffset(file) + Len(Chunks(file)) + 1
      BY <1>4, <2>2, AcceptsLayout
    <3>2. Len(Chunks(file)) \in Nat
      BY <3>1
    <3> QED BY <3>1, <3>2
  <2> QED BY <1>4, <2>1, <2>2
<1>7. LoadWriter(file) /\ mode' = "readwrite" /\ pc' = "opened"
      /\ pending' = pending /\ fails' = fails /\ mode = "closed"
  BY DEF OpenReadWrite, file
<1>8. pending = None
  BY <1>7, NoneAssumption DEF TypeInv, TypeOK, WriterInPart
<1>9. TypeOK'
  BY <1>3, <1>5, <1>6, <1>7, <1>8 DEF TypeInv, TypeOK, LoadWriter
<1>10. WriterInPart'
  BY <1>5, <1>6, <1>7, <1>8, NoneAssumption DEF WriterInPart, LoadWriter, Last
<1> QED BY <1>9, <1>10 DEF TypeInv

LEMMA FlushType ==
    ASSUME TypeInv, pc \in FlushPoints, ~NothingToFlush, FlushWrites
    PROVE  TypeInv'
<1>1. mode = "readwrite"
  BY DEF TypeInv, WriterInPart, FlushPoints
<1>2. Write(Flushed) /\ fails' = fails
  BY DEF FlushWrites
<1>3. Flushed \in Seq(Cell) /\ Len(Flushed) = Len(buffer) + Len(chunks) + 1
  BY FlushedType DEF TypeInv
<1>4. /\ disk' \in Seq(Seq(Cell)) /\ Len(disk') = Last
      /\ Len(disk'[Last]) >= tocOffset + Len(Flushed)
  BY <1>1, <1>2, <1>3, WriteType
<1>5. /\ tocOffset \in Nat /\ Len(buffer) \in Nat /\ Len(chunks) \in Nat
      /\ fileSize \in Nat /\ fails \in 0 .. MaxFails /\ Last > 0 /\ endOffset \in Nat
  BY <1>1 DEF TypeInv, TypeOK, WriterInPart
<1>6. CASE /\ Continue
           /\ tocOffset' = tocOffset + Len(buffer)
           /\ buffer' = <<>>
           /\ fileSize' = IF tocOffset + Len(Flushed) > fileSize
                          THEN tocOffset + Len(Flushed) ELSE fileSize
  <2>1. /\ mode' = "readwrite" /\ chunks' = chunks /\ lookup' = lookup
        /\ pc \in {"opened", "rollover", "header", "appended"}
        /\ pc' \in {"idle", "create", "append"}
    BY <1>1, <1>6 DEF Continue
  <2>2. endOffset' \in Nat
    <3>1. CASE pc = "appended"
      <4>1. pending \in Chunk
        BY <3>1 DEF TypeInv, WriterInPart
      <4>2. ExtraData(pending) \in Nat
        BY <4>1, SizeAssumption DEF ExtraData
      <4> QED BY <1>5, <1>6, <3>1, <4>2 DEF Continue
    <3>2. CASE pc # "appended"
      BY <1>5, <1>6, <3>2 DEF Continue
    <3> QED BY <3>1, <3>2
  <2>3. /\ pending' \in Chunk \cup {None}
        /\ pending' \in Chunk <=> pc' \in {"create", "append"}
    BY <1>6, NoneAssumption DEF Continue, TypeInv, TypeOK, WriterInPart
  <2>4. fileSize' \in Nat /\ tocOffset' \in Nat
        /\ tocOffset' <= Len(disk'[Last])
    BY <1>3, <1>4, <1>5, <1>6
  <2>5. TypeOK'
    BY <1>2, <1>4, <1>5, <1>6, <2>1, <2>2, <2>3, <2>4 DEF TypeInv, TypeOK
  <2>6. WriterInPart'
    BY <1>4, <1>5, <2>1, <2>3, <2>4 DEF WriterInPart, Last
  <2> QED BY <2>5, <2>6 DEF TypeInv
<1>7. CASE Ended("closed")
  BY <1>2, <1>4, <1>5, <1>7, EndedType
<1> QED BY <1>6, <1>7 DEF FlushWrites

LEMMA FlushNothingType ==
    ASSUME TypeInv, FlushNothing
    PROVE  TypeInv'
<1>1. disk' = disk /\ fails' = fails
  BY DEF FlushNothing
<1>2. disk' \in Seq(Seq(Cell)) /\ fails' \in 0 .. MaxFails
  BY <1>1 DEF TypeInv, TypeOK
<1>3. CASE Ended("closed")
  BY <1>2, <1>3, EndedType
<1>4. CASE Continue /\ UNCHANGED <<disk, tocOffset, buffer, fileSize, fails>>
  <2>1. mode' = mode /\ chunks' = chunks /\ lookup' = lookup
        /\ pc \in {"opened", "rollover", "header", "appended"}
        /\ pc' \in {"idle", "create", "append"}
    BY <1>4 DEF Continue
  <2>2. endOffset' \in Nat
    <3>1. endOffset \in Nat
      BY DEF TypeInv, TypeOK
    <3>2. CASE pc = "appended"
      <4>1. pending \in Chunk
        BY <3>2 DEF TypeInv, WriterInPart
      <4>2. ExtraData(pending) \in Nat
        BY <4>1, SizeAssumption DEF ExtraData
      <4> QED BY <1>4, <3>1, <3>2, <4>2 DEF Continue
    <3>3. CASE pc # "appended"
      BY <1>4, <3>1, <3>3 DEF Continue
    <3> QED BY <3>2, <3>3
  <2>3. /\ pending' \in Chunk \cup {None}
        /\ pending' \in Chunk <=> pc' \in {"create", "append"}
    BY <1>4, NoneAssumption DEF Continue, TypeInv, TypeOK, WriterInPart
  <2>4. TypeOK'
    BY <1>2, <1>4, <2>1, <2>2, <2>3 DEF TypeInv, TypeOK
  <2>5. WriterInPart'
    BY <1>4, <2>1, <2>3 DEF TypeInv, WriterInPart, Last
  <2> QED BY <2>4, <2>5 DEF TypeInv
<1> QED BY <1>3, <1>4 DEF FlushNothing

LEMMA FlushFailsType ==
    ASSUME TypeInv, FlushFails
    PROVE  TypeInv'
<1>1. mode = "readwrite" /\ PartialWrite /\ fails' \in 0 .. MaxFails
  BY OptionsAssumption DEF FlushFails, TypeInv, TypeOK, WriterInPart, FlushPoints
<1>2. /\ disk' \in Seq(Seq(Cell)) /\ Len(disk') = Last
      /\ Len(disk'[Last]) >= Len(disk[Last])
  BY <1>1, PartialWriteType
<1>3. CASE AddThrows
  <2>1. Flushed \in Seq(Cell)
    BY FlushedType DEF TypeInv
  <2>2. TypeOK'
    BY <1>1, <1>2, <1>3, <2>1 DEF AddThrows, TypeInv, TypeOK
  <2>3. Len(disk[Last]) \in Nat /\ Len(disk'[Last]) \in Nat /\ Last > 0
        /\ tocOffset <= Len(disk[Last]) /\ tocOffset \in Nat
    BY <1>1, <1>2 DEF TypeInv, TypeOK, WriterInPart, Last
  <2>4. WriterInPart'
    BY <1>1, <1>2, <1>3, <2>3, NoneAssumption DEF AddThrows, WriterInPart, Last
  <2> QED BY <2>2, <2>4 DEF TypeInv
<1>4. CASE Ended("refused") \/ Ended("closed")
  BY <1>1, <1>2, <1>4, EndedType
<1> QED BY <1>3, <1>4 DEF FlushFails

LEMMA AppendType ==
    ASSUME TypeInv, AppendChunk
    PROVE  TypeInv'
<1>1. pc = "append" /\ mode = "readwrite" /\ pending \in Chunk /\ Last > 0
      /\ Last \in Nat
  BY DEF AppendChunk, TypeInv, TypeOK, WriterInPart, Last
<1>2. /\ tocOffset \in Nat /\ endOffset \in Nat /\ fileSize \in Nat
      /\ buffer \in Seq(Cell) /\ chunks \in Seq(Chunk)
  BY DEF TypeInv, TypeOK
<1>3. buffer' \in Seq(Cell) /\ chunks' \in Seq(Chunk)
  <2>1. Data(pending) \in Seq(Cell)
    BY <1>1, DataType
  <2> QED BY <1>1, <1>2, <2>1 DEF AppendChunk
<1>4. \E C \in SUBSET Chunk : lookup' \in [C -> Entry]
  <2>1. PICK C \in SUBSET Chunk : lookup \in [C -> Entry]
    BY DEF TypeInv, TypeOK
  <2>2. Place \in Entry
    BY <1>1, <1>2 DEF Place, Entry
  <2>3. lookup' \in [C \cup {pending} -> Entry]
    BY <2>1, <2>2 DEF AppendChunk
  <2> QED BY <1>1, <2>1, <2>3
<1>5. ExtraData(pending) \in Nat
  BY <1>1, SizeAssumption DEF ExtraData
<1>6. /\ pc' \in {"appended", "idle"}
      /\ pc' = "appended" => pending' = pending /\ endOffset' = endOffset
      /\ pc' = "idle" => pending' = None /\ endOffset' = endOffset + ExtraData(pending)
  BY DEF AppendChunk
<1>7. disk' = disk /\ mode' = mode /\ tocOffset' = tocOffset /\ fileSize' = fileSize
      /\ fails' = fails
  BY DEF AppendChunk
<1>8. TypeOK'
  <2>1. endOffset' \in Nat
    BY <1>2, <1>5, <1>6
  <2>2. pending' \in Chunk \cup {None}
    BY <1>1, <1>6
  <2> QED BY <1>3, <1>4, <1>6, <1>7, <2>1, <2>2 DEF TypeInv, TypeOK
<1>9. WriterInPart'
  BY <1>1, <1>6, <1>7, NoneAssumption DEF TypeInv, WriterInPart, Last
<1> QED BY <1>8, <1>9 DEF TypeInv

LEMMA NextType == TypeInv /\ [Next]_vars => TypeInv'
<1> SUFFICES ASSUME TypeInv, [Next]_vars PROVE TypeInv'
  OBVIOUS
<1>1. disk \in Seq(Seq(Cell)) /\ fails \in 0 .. MaxFails
  BY DEF TypeInv, TypeOK
<1>2. CASE OpenReadOnly
  <2>1. \A p \in 1 .. Len(disk) : Accepts(disk[p])
    BY <1>1, <1>2 DEF OpenReadOnly, ReadableParts
  <2>2. lookup' \in [AllIds(disk) -> Entry] /\ AllIds(disk) \subseteq Chunk
    BY <1>1, <1>2, <2>1, LookupType DEF OpenReadOnly
  <2>3. mode = "closed" /\ mode' = "readonly"
        /\ UNCHANGED <<disk, pc, pending, tocOffset, endOffset, chunks, buffer,
                       fileSize, fails>>
    BY <1>2 DEF OpenReadOnly, writer
  <2>4. TypeOK'
    BY <2>2, <2>3 DEF TypeInv, TypeOK
  <2>5. WriterInPart'
    BY <2>3 DEF TypeInv, WriterInPart, Last
  <2> QED BY <2>4, <2>5 DEF TypeInv
<1>3. ASSUME NEW newonly \in BOOLEAN, OpenReadWrite(newonly) PROVE TypeInv'
  BY <1>3, OpenType
<1>4. CASE OpenRefused
  BY <1>4 DEF OpenRefused, writer, TypeInv, TypeOK, WriterInPart, Last
<1>5. CASE Close
  <2>1. CASE Ended("closed") /\ UNCHANGED <<disk, fails>>
    BY <1>1, <2>1, EndedType
  <2>2. CASE /\ pc = "idle" /\ mode = "readwrite" /\ pc' = "closing"
             /\ UNCHANGED <<disk, mode, pending, writer, lookup, fails>>
    BY <2>2 DEF writer, TypeInv, TypeOK, WriterInPart, Last
  <2> QED BY <1>5, <2>1, <2>2 DEF Close
<1>6. CASE Kill
  BY <1>1, <1>6, EndedType DEF Kill
<1>7. CASE FlushNothing
  BY <1>7, FlushNothingType
<1>8. CASE FlushWrites
  BY <1>8, FlushType DEF FlushWrites
<1>9. CASE TornWrite
  <2>1. mode = "readwrite" /\ PartialWrite
    BY <1>9 DEF TornWrite, TypeInv, WriterInPart, FlushPoints
  <2>2. disk' \in Seq(Seq(Cell))
    BY <2>1, PartialWriteType
  <2> QED BY <1>1, <1>9, <2>2, EndedType DEF TornWrite
<1>10. CASE FlushFails
  BY <1>10, FlushFailsType
<1>11. ASSUME NEW c \in Chunk, Add(c) PROVE TypeInv'
  <2>1. /\ mode = "readwrite" /\ pc = "idle" /\ pending' = c
        /\ pc' \in {"rollover", "append"}
        /\ UNCHANGED <<disk, mode, tocOffset, endOffset, chunks, buffer, fileSize,
                       lookup, fails>>
    BY <1>11 DEF Add, FirstStep, writer
  <2>2. TypeOK'
    BY <2>1 DEF TypeInv, TypeOK
  <2>3. WriterInPart'
    BY <2>1 DEF TypeInv, WriterInPart, Last
  <2> QED BY <2>2, <2>3 DEF TypeInv
<1>12. CASE CreatePart
  <2>1. mode = "readwrite" /\ pending \in Chunk
    BY <1>12 DEF CreatePart, TypeInv, WriterInPart
  <2>2. disk' \in Seq(Seq(Cell)) /\ Len(disk') = Last + 1 /\ disk'[Last + 1] = <<>>
        /\ Last \in Nat
    BY <1>1, <1>12 DEF CreatePart, Last
  <2>3. tocOffset' = 0 /\ endOffset' = 1 /\ chunks' = <<>> /\ buffer' = <<>>
        /\ fileSize' = 0 /\ pc' = "header"
        /\ UNCHANGED <<mode, pending, lookup, fails>>
    BY <1>12 DEF CreatePart
  <2>4. TypeOK'
    BY <2>2, <2>3 DEF TypeInv, TypeOK
  <2>5. WriterInPart'
    BY <2>1, <2>2, <2>3 DEF WriterInPart, Last
  <2> QED BY <2>4, <2>5 DEF TypeInv
<1>13. CASE AppendChunk
  BY <1>13, AppendType
<1>14. CASE UNCHANGED vars
  BY <1>14 DEF vars, writer, TypeInv, TypeOK, WriterInPart, Last
<1> QED
  BY <1>2, <1>3, <1>4, <1>5, <1>6, <1>7, <1>8, <1>9, <1>10, <1>11, <1>12, <1>13,
     <1>14 DEF Next

\* Every variable keeps its type, whatever fails: in particular every write
\* starts inside the part it goes to.
THEOREM TypeCorrect == Spec => []TypeOK
<1>1. Spec => []TypeInv
  BY InitType, NextType, PTL DEF Spec
<1>2. TypeInv => TypeOK
  BY DEF TypeInv
<1> QED BY <1>1, <1>2, PTL

-----------------------------------------------------------------------------
\* Whatever a step writes, it writes to the last part, or to a new one.
LEMMA StepSealsParts ==
    ASSUME TypeInv, Next
    PROVE  Last <= Last' /\ \A p \in 1 .. Last - 1 : disk'[p] = disk[p]
<1>1. disk \in Seq(Seq(Cell)) /\ Last \in Nat
  BY DEF TypeInv, TypeOK, Last
<1>2. CASE disk' = disk
  BY <1>1, <1>2 DEF Last
<1>3. CASE disk' = Append(disk, <<>>)
  BY <1>1, <1>3 DEF Last
<1>4. ASSUME pc \in FlushPoints,
             Write(Flushed) \/ PartialWrite
      PROVE  Last <= Last' /\ \A p \in 1 .. Last - 1 : disk'[p] = disk[p]
  <2>1. mode = "readwrite"
    BY <1>4 DEF FlushPoints, TypeInv, WriterInPart
  <2>2. Flushed \in Seq(Cell)
    BY FlushedType DEF TypeInv
  <2>3. Len(disk') = Last /\ \A p \in 1 .. Last - 1 : disk'[p] = disk[p]
    BY <1>4, <2>1, <2>2, WriteType, PartialWriteType
  <2> QED BY <1>1, <2>3 DEF Last
<1>5. CASE FlushWrites \/ TornWrite \/ FlushFails
  BY <1>4, <1>5 DEF FlushWrites, TornWrite, FlushFails
<1>6. CASE \E newonly \in BOOLEAN : OpenReadWrite(newonly)
  BY <1>2, <1>3, <1>6 DEF OpenReadWrite
<1>7. CASE CreatePart
  BY <1>3, <1>7 DEF CreatePart
<1>8. CASE \/ OpenReadOnly \/ OpenRefused \/ Close \/ Kill \/ FlushNothing
           \/ AppendChunk \/ \E c \in Chunk : Add(c)
  BY <1>2, <1>8 DEF OpenReadOnly, OpenRefused, Close, Kill, FlushNothing,
                    AppendChunk, Add
<1> QED BY <1>5, <1>6, <1>7, <1>8 DEF Next

\* A part is never written to again once a later one exists, in any process.
THEOREM PartsAreSealed == Spec => SealedParts
<1>1. TypeInv /\ [Next]_vars =>
        [Last <= Last' /\ \A p \in 1 .. Last - 1 : disk'[p] = disk[p]]_vars
  BY StepSealsParts
<1>2. Spec => []TypeInv
  BY InitType, NextType, PTL DEF Spec
<1> QED BY <1>1, <1>2, PTL DEF Spec, SealedParts

-----------------------------------------------------------------------------
(***************************************************************************)
(* A process that has the cache open for writing reads right, also after   *)
(* writes that failed.                                                     *)
(***************************************************************************)

\* Every chunk of the part that is written lies in the file, before the offset at
\* which reads switch from the file to the buffer, or in the buffer: none lies
\* across it.  The buffer is empty when the next part takes over.
NoStraddle ==
    mode = "readwrite" =>
        \A c \in DOMAIN lookup :
            /\ lookup[c].part <= Last
            /\ lookup[c].part = Last =>
                 IF lookup[c].offset < tocOffset
                 THEN lookup[c].offset + Size[c] <= tocOffset
                 ELSE lookup[c].offset + Size[c] <= tocOffset + Len(buffer)

FlushedBeforeNext == pc = "create" => buffer = <<>>

ReadInv == TypeInv /\ NoStraddle /\ FlushedBeforeNext

-----------------------------------------------------------------------------
\* The cells of a chunk read elsewhere.
LEMMA HoldsMoved ==
    ASSUME NEW c \in Chunk, NEW f, NEW o \in Int, HoldsAt(f, o, c),
           NEW g, NEW p \in Int, p + Size[c] <= Len(g),
           \A k \in 1 .. Size[c] : g[p + k] = f[o + k]
    PROVE  HoldsAt(g, p, c)
<1>1. ReadAt(g, p, Size[c]) = ReadAt(f, o, Size[c])
  BY DEF ReadAt
<1> QED BY <1>1 DEF HoldsAt

LEMMA HoldsStill ==
    ASSUME NEW c \in Chunk, NEW f, NEW o \in Int, HoldsAt(f, o, c),
           NEW g, o + Size[c] <= Len(g),
           \A k \in 1 .. Size[c] : g[o + k] = f[o + k]
    PROVE  HoldsAt(g, o, c)
BY HoldsMoved

\* The cells of two sequences one after the other.
LEMMA Concatenated ==
    ASSUME NEW s \in Seq(Cell), NEW t \in Seq(Cell)
    PROVE  /\ Len(s \o t) = Len(s) + Len(t)
           /\ \A k \in 1 .. Len(s) : (s \o t)[k] = s[k]
           /\ \A k \in 1 .. Len(t) : (s \o t)[Len(s) + k] = t[k]
OBVIOUS

\* Every entry of the lookup of an accepted part lies before its table.
LEMMA EntryInPart ==
    ASSUME NEW file \in Seq(Cell), Accepts(file), NEW c \in Ids(file)
    PROVE  OffsetOf(file, c) + Size[c] <= TocOffset(file)
<1> DEFINE table == Chunks(file)
<1>1. table \in Seq(Chunk) /\ EntryCount(file) = Len(table) /\ Len(table) \in Nat
      /\ TocOffset(file) \in Nat
  BY AcceptsLayout
<1>2. PICK n \in 1 .. Len(table) :
          table[n] = c /\ OffsetOf(file, c) = Offsets(table)[n - 1]
  BY OffsetOfEntry
<1> HIDE DEF table
<1>3. Ends(Offsets(table), table, Len(table))
  BY <1>1, OffsetsAreEnds
<1>4. Offsets(table)[n] = OffsetOf(file, c) + Size[c]
  BY <1>1, <1>2, <1>3 DEF Ends
<1>5. Offsets(table)[n] <= Offsets(table)[Len(table)]
  BY <1>1, OffsetsGrow
<1>6. Offsets(table)[Len(table)] <= TocOffset(file)
  BY <1>1 DEF Accepts, table
<1>7. Offsets(table)[n] \in Nat /\ Offsets(table)[Len(table)] \in Nat
  BY <1>1, <1>3 DEF Ends
<1> QED BY <1>1, <1>4, <1>5, <1>6, <1>7

\* What the lookup of a set of parts says of a chunk.
LEMMA LookupEntry ==
    ASSUME NEW parts \in Seq(Seq(Cell)),
           \A p \in 1 .. Len(parts) : parts[p] = <<>> \/ Accepts(parts[p]),
           NEW c \in AllIds(parts)
    PROVE  LET e == Lookup(parts)[c] IN
           /\ e.part \in 1 .. Len(parts)
           /\ c \in Ids(parts[e.part])
           /\ e.offset = OffsetOf(parts[e.part], c)
           /\ Accepts(parts[e.part])
<1>0. DOMAIN parts = 1 .. Len(parts)
  OBVIOUS
<1> DEFINE Has == {p \in 1 .. Len(parts) : c \in Ids(parts[p])}
<1>1. Has # {} /\ Has \subseteq Nat
  BY <1>0 DEF AllIds
<1>2. PICK p \in Has : \A q \in Has : p <= q
  <2> HIDE DEF Has
  <2> QED BY <1>1, LeastNatural
<1>3. \E q \in DOMAIN parts :
         /\ c \in Ids(parts[q])
         /\ \A r \in DOMAIN parts : c \in Ids(parts[r]) => q <= r
  BY <1>0, <1>2
<1> DEFINE q == PartOf(parts, c)
<1>4. q \in DOMAIN parts /\ c \in Ids(parts[q])
  BY <1>3 DEF PartOf
<1> HIDE DEF q
<1>5. Lookup(parts)[c] = [part |-> q, offset |-> OffsetOf(parts[q], c)]
  BY DEF Lookup, q
<1>6. Accepts(parts[q])
  BY <1>0, <1>4, EmptyLayout
<1> QED BY <1>0, <1>4, <1>5, <1>6

-----------------------------------------------------------------------------
(***************************************************************************)
(* The steps of a process that has the cache open for writing              *)
(***************************************************************************)

ReadsOn ==
    \A c \in DOMAIN lookup' : (c \in DOMAIN lookup => ReadsBack(c)) => ReadsBack(c)'

\* What the invariant says of the variables, and of one chunk of the lookup.
LEMMA WriterFacts ==
    ASSUME ReadInv, mode = "readwrite"
    PROVE  /\ disk \in Seq(Seq(Cell)) /\ Last \in Nat \ {0} /\ DOMAIN disk = 1 .. Last
           /\ tocOffset \in Nat /\ tocOffset <= Len(disk[Last])
           /\ disk[Last] \in Seq(Cell) /\ Len(disk[Last]) \in Nat
           /\ buffer \in Seq(Cell) /\ Len(buffer) \in Nat
<1>1. disk \in Seq(Seq(Cell)) /\ Last \in Nat /\ Last > 0 /\ DOMAIN disk = 1 .. Last
      /\ tocOffset \in Nat /\ tocOffset <= Len(disk[Last]) /\ buffer \in Seq(Cell)
  BY DEF ReadInv, TypeInv, TypeOK, WriterInPart, Last
<1>2. disk[Last] \in Seq(Cell)
  BY <1>1
<1> QED BY <1>1, <1>2

LEMMA EntryFacts ==
    ASSUME ReadInv, mode = "readwrite", NEW c \in DOMAIN lookup
    PROVE  /\ c \in Chunk /\ Size[c] \in Nat \ {0}
           /\ lookup[c].part \in 1 .. Last
           /\ lookup[c].offset \in Nat
           /\ lookup[c].part = Last =>
                IF lookup[c].offset < tocOffset
                THEN lookup[c].offset + Size[c] <= tocOffset
                ELSE lookup[c].offset + Size[c] <= tocOffset + Len(buffer)
<1>1. PICK C \in SUBSET Chunk : lookup \in [C -> Entry]
  BY DEF ReadInv, TypeInv, TypeOK
<1>2. c \in Chunk /\ lookup[c] \in Entry
  BY <1>1
<1>3. lookup[c].part \in Nat \ {0} /\ lookup[c].offset \in Nat
  BY <1>2 DEF Entry
<1>4. Size[c] \in Nat \ {0}
  BY <1>2, SizeAssumption
<1> QED BY <1>2, <1>3, <1>4, WriterFacts DEF ReadInv, NoStraddle

\* A step that changes nothing a read looks at.
LEMMA SameReads ==
    ASSUME ReadInv, mode = "readwrite",
           UNCHANGED <<disk, mode, tocOffset, buffer, lookup>>
    PROVE  NoStraddle' /\ ReadsOn
BY DEF ReadInv, NoStraddle, ReadsOn, ReadsBack, Last

\* What a flush leaves before the old table of contents, and behind it.
LEMMA FlushCells ==
    ASSUME ReadInv, mode = "readwrite", Write(Flushed)
    PROVE  /\ Len(disk') = Last /\ Last' = Last
           /\ Len(disk'[Last]) \in Nat /\ Len(disk'[Last]) >= Len(disk[Last])
           /\ Len(disk'[Last]) >= tocOffset + Len(buffer)
           /\ \A p \in 1 .. Last - 1 : disk'[p] = disk[p]
           /\ \A k \in 1 .. tocOffset : disk'[Last][k] = disk[Last][k]
           /\ \A k \in 1 .. Len(buffer) : disk'[Last][tocOffset + k] = buffer[k]
<1>1. /\ disk \in Seq(Seq(Cell)) /\ Last \in Nat \ {0} /\ DOMAIN disk = 1 .. Last
      /\ tocOffset \in Nat /\ tocOffset <= Len(disk[Last])
      /\ disk[Last] \in Seq(Cell) /\ buffer \in Seq(Cell)
      /\ Len(buffer) \in Nat /\ Len(disk[Last]) \in Nat
  BY WriterFacts
<1>2. Flushed \in Seq(Cell) /\ Len(Flushed) = Len(buffer) + Len(chunks) + 1
      /\ Len(chunks) \in Nat
  BY FlushedType DEF ReadInv, TypeInv, TypeOK
<1>3. \A k \in 1 .. Len(buffer) : Flushed[k] = buffer[k]
  <2>1. Toc(chunks) \in Seq(Cell) /\ <<FooterCell(chunks)>> \in Seq(Cell)
    BY TocType, FooterType DEF ReadInv, TypeInv, TypeOK
  <2> QED BY <1>1, <2>1 DEF Flushed
<1>4. /\ Len(disk') = Last /\ Len(disk'[Last]) >= Len(disk[Last])
      /\ Len(disk'[Last]) >= tocOffset + Len(Flushed)
      /\ \A p \in 1 .. Last - 1 : disk'[p] = disk[p]
  BY <1>2, WriteType DEF ReadInv
<1>5. disk'[Last] = Overwrite(disk[Last], tocOffset, Flushed)
  BY <1>1 DEF Write
<1>6. /\ \A i \in 1 .. tocOffset : disk'[Last][i] = disk[Last][i]
      /\ \A i \in 1 .. Len(Flushed) : disk'[Last][tocOffset + i] = Flushed[i]
  <2> DEFINE file == disk[Last]
             cells == Flushed
  <2>1. /\ file \in Seq(Cell) /\ cells \in Seq(Cell)
        /\ tocOffset \in Nat /\ tocOffset <= Len(file)
    BY <1>1, <1>2
  <2> HIDE DEF file, cells
  <2>2. /\ \A i \in 1 .. tocOffset : Overwrite(file, tocOffset, cells)[i] = file[i]
        /\ \A i \in 1 .. Len(cells) :
              Overwrite(file, tocOffset, cells)[tocOffset + i] = cells[i]
    BY <2>1, OverwriteCells
  <2> QED BY <1>5, <2>2 DEF file, cells
<1>7. Len(disk'[Last]) \in Nat
  BY <1>1, <1>2, <1>5, OverwriteType
<1>8. \A k \in 1 .. Len(buffer) : disk'[Last][tocOffset + k] = buffer[k]
  BY <1>1, <1>2, <1>3, <1>6
<1>9. Last' = Last
  BY <1>4 DEF Last
<1>10. Len(disk'[Last]) >= tocOffset + Len(buffer)
  BY <1>1, <1>2, <1>4, <1>7
<1> QED BY <1>4, <1>6, <1>7, <1>8, <1>9, <1>10

\* The flush moves the buffer to the file, at the offset its chunks were given.
LEMMA FlushHolds ==
    ASSUME ReadInv, mode = "readwrite", Write(Flushed),
           NEW c \in DOMAIN lookup, ReadsBack(c)
    PROVE  HoldsAt(disk'[lookup[c].part], lookup[c].offset, c)
<1>1. /\ Last \in Nat \ {0} /\ tocOffset \in Nat /\ tocOffset <= Len(disk[Last])
      /\ Len(buffer) \in Nat /\ Len(disk[Last]) \in Nat
  BY WriterFacts
<1>2. /\ Len(disk'[Last]) \in Nat /\ Len(disk'[Last]) >= Len(disk[Last])
      /\ Len(disk'[Last]) >= tocOffset + Len(buffer)
      /\ \A p \in 1 .. Last - 1 : disk'[p] = disk[p]
      /\ \A k \in 1 .. tocOffset : disk'[Last][k] = disk[Last][k]
      /\ \A k \in 1 .. Len(buffer) : disk'[Last][tocOffset + k] = buffer[k]
  BY FlushCells
<1> HIDE DEF Last
<1> DEFINE p == lookup[c].part
           o == lookup[c].offset
<1>3. /\ c \in Chunk /\ Size[c] \in Nat \ {0} /\ p \in 1 .. Last /\ o \in Nat
      /\ p = Last => IF o < tocOffset THEN o + Size[c] <= tocOffset
                     ELSE o + Size[c] <= tocOffset + Len(buffer)
  BY EntryFacts
<1>4. IF p = Last /\ o >= tocOffset THEN HoldsAt(buffer, o - tocOffset, c)
      ELSE HoldsAt(disk[p], o, c)
  BY DEF ReadsBack
<1>5. SUFFICES HoldsAt(disk'[p], o, c)
  OBVIOUS
<1> HIDE DEF p, o
<1>6. CASE p # Last
  <2>1. p \in 1 .. Last - 1 /\ HoldsAt(disk[p], o, c)
    BY <1>1, <1>3, <1>4, <1>6
  <2> QED BY <1>2, <2>1
<1>7. CASE p = Last /\ o < tocOffset
  <2>1. o + Size[c] <= Len(disk'[Last])
    BY <1>1, <1>2, <1>3, <1>7
  <2>2. \A k \in 1 .. Size[c] : disk'[Last][o + k] = disk[Last][o + k]
    BY <1>1, <1>2, <1>3, <1>7
  <2>3. HoldsAt(disk[Last], o, c)
    BY <1>1, <1>3, <1>4, <1>7
  <2>4. c \in Chunk /\ o \in Int
    BY <1>3
  <2>5. HoldsAt(disk'[Last], o, c)
    BY <2>1, <2>2, <2>3, <2>4, HoldsStill
  <2> QED BY <1>7, <2>5
<1>8. CASE p = Last /\ o >= tocOffset
  <2>1. o + Size[c] <= Len(disk'[Last])
    BY <1>1, <1>2, <1>3, <1>8
  <2>2. ASSUME NEW k \in 1 .. Size[c]
        PROVE  disk'[Last][o + k] = buffer[(o - tocOffset) + k]
    <3>1. (o - tocOffset) + k \in 1 .. Len(buffer)
      BY <1>1, <1>3, <1>8
    <3>2. tocOffset + ((o - tocOffset) + k) = o + k
      BY <1>1, <1>3
    <3> QED BY <1>2, <3>1, <3>2
  <2> DEFINE d == o - tocOffset
  <2>3. HoldsAt(buffer, d, c) /\ d \in Int /\ o \in Int /\ c \in Chunk
    BY <1>1, <1>3, <1>4, <1>8
  <2>4. \A k \in 1 .. Size[c] : disk'[Last][o + k] = buffer[d + k]
    BY <2>2
  <2> HIDE DEF d
  <2>5. HoldsAt(disk'[Last], o, c)
    BY <2>1, <2>3, <2>4, HoldsMoved
  <2> QED BY <1>8, <2>5
<1> QED BY <1>1, <1>3, <1>6, <1>7, <1>8

LEMMA FlushReads ==
    ASSUME ReadInv, mode = "readwrite", Write(Flushed),
           tocOffset' = tocOffset + Len(buffer), buffer' = <<>>,
           UNCHANGED <<mode, lookup>>
    PROVE  NoStraddle' /\ ReadsOn
<1>1. /\ Last \in Nat \ {0} /\ tocOffset \in Nat /\ Len(buffer) \in Nat
  BY WriterFacts
<1>2. Last' = Last
  BY FlushCells
<1> HIDE DEF Flushed, Last
<1>3. ASSUME NEW c \in DOMAIN lookup
       PROVE  /\ lookup[c].part <= Last
              /\ lookup[c].part = Last => lookup[c].offset + Size[c] <= tocOffset'
  BY <1>1, <1>3, EntryFacts
<1>4. NoStraddle'
  <2> SUFFICES ASSUME NEW c \in DOMAIN lookup
               PROVE  /\ lookup[c].part <= Last
                      /\ lookup[c].part = Last =>
                            /\ lookup[c].offset < tocOffset'
                            /\ lookup[c].offset + Size[c] <= tocOffset'
    BY <1>2 DEF NoStraddle
  <2> QED BY <1>1, <1>3, EntryFacts
<1>5. ASSUME NEW c \in DOMAIN lookup, ReadsBack(c)
       PROVE  HoldsAt(disk'[lookup[c].part], lookup[c].offset, c)
  BY <1>5, FlushHolds
<1>6. ReadsOn
  <2>1. \A c \in DOMAIN lookup : ~(lookup[c].part = Last /\ lookup[c].offset >= tocOffset')
    <3> SUFFICES ASSUME NEW c \in DOMAIN lookup, lookup[c].part = Last
                 PROVE  ~(lookup[c].offset >= tocOffset')
      OBVIOUS
    <3> DEFINE o == lookup[c].offset
    <3>1. o \in Nat /\ Size[c] \in Nat \ {0} /\ o + Size[c] <= tocOffset'
      BY <1>3, EntryFacts
    <3> HIDE DEF o
    <3>2. ~(o >= tocOffset')
      BY <1>1, <3>1
    <3> QED BY <3>2 DEF o
  <2> QED BY <1>2, <1>5, <2>1 DEF ReadsOn, ReadsBack
<1> QED BY <1>4, <1>6

\* Chunks in a buffer that only grows, and in a file that is written to only
\* from tocOffset on.
LEMMA BufferGrows ==
    ASSUME ReadInv, mode = "readwrite", NEW c \in DOMAIN lookup, ReadsBack(c),
           tocOffset' = tocOffset, mode' = mode, Last' = Last,
           lookup'[c] = lookup[c],
           Len(buffer') \in Nat, Len(buffer') >= Len(buffer),
           \A k \in 1 .. Len(buffer) : buffer'[k] = buffer[k],
           Len(disk'[Last]) \in Nat, Len(disk'[Last]) >= Len(disk[Last]),
           \A k \in 1 .. tocOffset : disk'[Last][k] = disk[Last][k],
           \A p \in 1 .. Last - 1 : disk'[p] = disk[p]
    PROVE  ReadsBack(c)'
<1> DEFINE p == lookup[c].part
           o == lookup[c].offset
<1>1. /\ Last \in Nat \ {0} /\ tocOffset \in Nat /\ tocOffset <= Len(disk[Last])
      /\ Len(buffer) \in Nat /\ Len(disk[Last]) \in Nat
  BY WriterFacts
<1>2. /\ c \in Chunk /\ Size[c] \in Nat \ {0} /\ p \in 1 .. Last /\ o \in Nat
      /\ p = Last => IF o < tocOffset THEN o + Size[c] <= tocOffset
                     ELSE o + Size[c] <= tocOffset + Len(buffer)
  BY EntryFacts
<1>3. IF p = Last /\ o >= tocOffset THEN HoldsAt(buffer, o - tocOffset, c)
      ELSE HoldsAt(disk[p], o, c)
  BY DEF ReadsBack
<1>4. SUFFICES IF p = Last /\ o >= tocOffset THEN HoldsAt(buffer', o - tocOffset, c)
               ELSE HoldsAt(disk'[p], o, c)
  BY DEF ReadsBack
<1> HIDE DEF p, o
<1>5. CASE p # Last
  <2>1. p \in 1 .. Last - 1 /\ HoldsAt(disk[p], o, c)
    BY <1>1, <1>2, <1>3, <1>5
  <2> QED BY <1>5, <2>1
<1>6. CASE p = Last /\ o < tocOffset
  <2>1. o + Size[c] <= Len(disk'[Last])
    BY <1>1, <1>2, <1>6
  <2>2. \A k \in 1 .. Size[c] : disk'[Last][o + k] = disk[Last][o + k]
    BY <1>1, <1>2, <1>6
  <2>3. HoldsAt(disk[Last], o, c)
    BY <1>1, <1>2, <1>3, <1>6
  <2>4. HoldsAt(disk'[Last], o, c)
    <3>1. c \in Chunk /\ o \in Int
      BY <1>2
    <3> QED BY <2>1, <2>2, <2>3, <3>1, HoldsStill
  <2>5. ~(o >= tocOffset)
    BY <1>1, <1>2, <1>6
  <2> QED BY <1>6, <2>4, <2>5
<1>7. CASE p = Last /\ o >= tocOffset
  <2> DEFINE d == o - tocOffset
  <2>1. d \in Nat /\ d + Size[c] <= Len(buffer) /\ d + Size[c] <= Len(buffer')
    BY <1>1, <1>2, <1>7
  <2>2. HoldsAt(buffer, d, c)
    BY <1>3, <1>7
  <2>3. SUFFICES HoldsAt(buffer', d, c)
    BY <1>7
  <2> HIDE DEF d
  <2>4. \A k \in 1 .. Size[c] : buffer'[d + k] = buffer[d + k]
    BY <1>1, <1>2, <2>1
  <2>5. c \in Chunk /\ d \in Int
    BY <1>2, <2>1
  <2> QED BY <2>1, <2>2, <2>4, <2>5, HoldsStill
<1>8. o < tocOffset \/ o >= tocOffset
  BY <1>1, <1>2
<1> QED BY <1>5, <1>6, <1>7, <1>8

\* A write that failed leaves everything before the table of contents as it was,
\* and the cells it was to write in the buffer.
LEMMA FailReads ==
    ASSUME ReadInv, mode = "readwrite", PartialWrite, AddThrows
    PROVE  NoStraddle' /\ ReadsOn
<1>1. /\ disk \in Seq(Seq(Cell)) /\ Last \in Nat \ {0} /\ DOMAIN disk = 1 .. Last
      /\ tocOffset \in Nat /\ tocOffset <= Len(disk[Last])
      /\ disk[Last] \in Seq(Cell) /\ buffer \in Seq(Cell)
      /\ Len(buffer) \in Nat /\ Len(disk[Last]) \in Nat
  BY WriterFacts
<1>2. Flushed \in Seq(Cell) /\ Len(Flushed) = Len(buffer) + Len(chunks) + 1
      /\ Len(chunks) \in Nat
  BY FlushedType DEF ReadInv, TypeInv, TypeOK
<1>3. \A k \in 1 .. Len(buffer) : Flushed[k] = buffer[k]
  <2>1. Toc(chunks) \in Seq(Cell) /\ <<FooterCell(chunks)>> \in Seq(Cell)
    BY TocType, FooterType DEF ReadInv, TypeInv, TypeOK
  <2> QED BY <1>1, <2>1 DEF Flushed
<1>4. /\ Len(disk') = Last /\ Len(disk'[Last]) >= Len(disk[Last])
      /\ \A p \in 1 .. Last - 1 : disk'[p] = disk[p]
  BY PartialWriteType DEF ReadInv
<1>5. /\ Len(disk'[Last]) \in Nat
      /\ \A k \in 1 .. tocOffset : disk'[Last][k] = disk[Last][k]
  <2>1. PICK j \in 0 .. Len(Flushed) - 1, torn \in BOOLEAN :
            Write(CutShort(Flushed, j, torn))
    BY DEF PartialWrite
  <2> DEFINE cells == CutShort(Flushed, j, torn)
  <2>2. cells \in Seq(Cell)
    BY <1>2, CutShortType
  <2>3. disk'[Last] = Overwrite(disk[Last], tocOffset, cells)
    BY <1>1, <2>1 DEF Write
  <2> HIDE DEF cells
  <2>4. Overwrite(disk[Last], tocOffset, cells) \in Seq(Cell)
    BY <1>1, <2>2, OverwriteType
  <2>5. \A k \in 1 .. tocOffset :
           Overwrite(disk[Last], tocOffset, cells)[k] = disk[Last][k]
    BY <1>1, <2>2, OverwriteCells
  <2> QED BY <2>3, <2>4, <2>5
<1>6. /\ buffer' = Flushed
      /\ mode' = mode /\ tocOffset' = tocOffset /\ lookup' = lookup /\ Last' = Last
  BY <1>4 DEF AddThrows, Last
<1> HIDE DEF Flushed, Last
<1>7. ReadsOn
  BY <1>1, <1>2, <1>3, <1>4, <1>5, <1>6, BufferGrows DEF ReadsOn
<1>8. NoStraddle'
  <2>1. ASSUME NEW c \in DOMAIN lookup
        PROVE  lookup[c].offset < tocOffset \/
               lookup[c].offset + Size[c] <= tocOffset + Len(buffer) =>
                  lookup[c].offset + Size[c] <= tocOffset + Len(Flushed)
               \/ lookup[c].offset < tocOffset
    <3> DEFINE o == lookup[c].offset
    <3>1. o \in Nat /\ Size[c] \in Nat
      BY EntryFacts
    <3> HIDE DEF o
    <3>2. \/ o < tocOffset
          \/ o + Size[c] <= tocOffset + Len(buffer) =>
                o + Size[c] <= tocOffset + Len(Flushed)
      BY <1>1, <1>2, <3>1
    <3> QED BY <3>2 DEF o
  <2> QED BY <1>6, <2>1 DEF ReadInv, NoStraddle
<1> QED BY <1>7, <1>8

\* Every chunk of a part was flushed before the next part takes over.
LEMMA CreateReads ==
    ASSUME ReadInv, mode = "readwrite", CreatePart
    PROVE  NoStraddle' /\ ReadsOn
<1>1. /\ disk \in Seq(Seq(Cell)) /\ Last \in Nat \ {0} /\ tocOffset \in Nat
  BY WriterFacts
<1>2. buffer = <<>>
  BY DEF ReadInv, FlushedBeforeNext, CreatePart
<1>3. /\ disk' = Append(disk, <<>>) /\ Last' = Last + 1
      /\ \A p \in 1 .. Last : disk'[p] = disk[p]
  BY <1>1 DEF CreatePart, Last
<1>4. lookup' = lookup /\ mode' = mode
  BY DEF CreatePart
<1> HIDE DEF Last
<1>5. ASSUME NEW c \in DOMAIN lookup
      PROVE  /\ lookup[c].part \in 1 .. Last
             /\ ~(lookup[c].part = Last /\ lookup[c].offset >= tocOffset)
  <2> DEFINE o == lookup[c].offset
             p == lookup[c].part
  <2>1. /\ Size[c] \in Nat \ {0} /\ p \in 1 .. Last /\ o \in Nat
        /\ p = Last => IF o < tocOffset THEN o + Size[c] <= tocOffset
                       ELSE o + Size[c] <= tocOffset + 0
    BY <1>2, EntryFacts
  <2> HIDE DEF o, p
  <2>2. p \in 1 .. Last /\ ~(p = Last /\ o >= tocOffset)
    BY <1>1, <2>1
  <2> QED BY <2>2 DEF o, p
<1>6. NoStraddle'
  BY <1>1, <1>3, <1>4, <1>5 DEF NoStraddle
<1>7. ReadsOn
  <2> SUFFICES ASSUME NEW c \in DOMAIN lookup, ReadsBack(c) PROVE ReadsBack(c)'
    BY <1>4 DEF ReadsOn
  <2> DEFINE o == lookup[c].offset
             p == lookup[c].part
  <2>1. p \in 1 .. Last /\ HoldsAt(disk[p], o, c)
    BY <1>5 DEF ReadsBack
  <2> HIDE DEF o, p
  <2>2. disk'[p] = disk[p]
    BY <1>3, <2>1
  <2>3. p # Last'
    <3>1. Last' = Last + 1
      BY <1>3
    <3>2. p \in 1 .. Last /\ Last \in Nat
      BY <1>1, <2>1
    <3> QED BY <3>1, <3>2
  <2>4. HoldsAt(disk'[p], o, c)
    BY <2>1, <2>2
  <2> QED BY <1>4, <2>2, <2>3, <2>4 DEF ReadsBack, o, p
<1> QED BY <1>6, <1>7

\* The chunk appended lies at the end of the buffer.
LEMMA AppendReads ==
    ASSUME ReadInv, mode = "readwrite", AppendChunk
    PROVE  NoStraddle' /\ ReadsOn
<1>1. /\ disk \in Seq(Seq(Cell)) /\ Last \in Nat \ {0} /\ tocOffset \in Nat
      /\ tocOffset <= Len(disk[Last]) /\ Len(disk[Last]) \in Nat
      /\ buffer \in Seq(Cell) /\ Len(buffer) \in Nat
  BY WriterFacts
<1>2. pending \in Chunk /\ Size[pending] \in Nat \ {0}
  BY SizeAssumption DEF ReadInv, TypeInv, WriterInPart, AppendChunk
<1>3. Data(pending) \in Seq(Cell) /\ Len(Data(pending)) = Size[pending]
  BY <1>2, DataType
<1>4. /\ disk' = disk /\ Last' = Last /\ mode' = mode /\ tocOffset' = tocOffset
      /\ buffer' = buffer \o Data(pending)
  BY DEF AppendChunk, Last
<1>5. /\ DOMAIN lookup' = DOMAIN lookup \cup {pending}
      /\ lookup'[pending] = [part |-> Last, offset |-> tocOffset + Len(buffer)]
      /\ \A c \in DOMAIN lookup : c # pending => lookup'[c] = lookup[c]
  BY DEF AppendChunk, Place
<1> HIDE DEF Last
<1>6. /\ Len(buffer') = Len(buffer) + Size[pending]
      /\ \A k \in 1 .. Len(buffer) : buffer'[k] = buffer[k]
      /\ \A k \in 1 .. Size[pending] : buffer'[Len(buffer) + k] = Data(pending)[k]
  <2> DEFINE data == Data(pending)
  <2>1. data \in Seq(Cell) /\ Len(data) = Size[pending] /\ buffer' = buffer \o data
    BY <1>3, <1>4
  <2> HIDE DEF data
  <2>2. /\ Len(buffer') = Len(buffer) + Len(data)
        /\ \A k \in 1 .. Len(buffer) : buffer'[k] = buffer[k]
        /\ \A k \in 1 .. Len(data) : buffer'[Len(buffer) + k] = data[k]
    BY <1>1, <2>1, Concatenated
  <2> QED BY <2>1, <2>2 DEF data
<1>7. ASSUME NEW c, c = pending PROVE ReadsBack(c)'
  <2>1. HoldsAt(buffer', Len(buffer), pending)
    <3>1. HoldsAt(Data(pending), 0, pending)
      BY <1>2, <1>3 DEF HoldsAt, ReadAt, Data
    <3>2. \A k \in 1 .. Size[pending] :
             buffer'[Len(buffer) + k] = Data(pending)[0 + k]
      BY <1>2, <1>6
    <3>3. Len(buffer) + Size[pending] <= Len(buffer')
      BY <1>1, <1>2, <1>6
    <3> QED BY <1>1, <1>2, <3>1, <3>2, <3>3, HoldsMoved
  <2>2. (tocOffset + Len(buffer)) - tocOffset = Len(buffer)
        /\ tocOffset + Len(buffer) >= tocOffset
    BY <1>1
  <2>3. lookup'[c].part = Last' /\ lookup'[c].offset = tocOffset' + Len(buffer)
    BY <1>4, <1>5, <1>7
  <2>4. HoldsAt(buffer', lookup'[c].offset - tocOffset', c)
    BY <1>4, <1>7, <2>1, <2>2, <2>3
  <2> QED BY <1>4, <2>2, <2>3, <2>4 DEF ReadsBack
<1>8. ASSUME NEW c \in DOMAIN lookup, c # pending, ReadsBack(c)
      PROVE  ReadsBack(c)'
  <2>1. lookup'[c] = lookup[c]
    BY <1>5, <1>8
  <2>2. Len(buffer') \in Nat /\ Len(buffer') >= Len(buffer)
    BY <1>1, <1>2, <1>6
  <2> QED BY <1>1, <1>4, <1>6, <1>8, <2>1, <2>2, BufferGrows
<1>9. ReadsOn
  <2> SUFFICES ASSUME NEW c \in DOMAIN lookup', c \in DOMAIN lookup => ReadsBack(c)
               PROVE  ReadsBack(c)'
    BY DEF ReadsOn
  <2>1. CASE c = pending
    BY <1>7, <2>1
  <2>2. CASE c # pending
    BY <1>5, <1>8, <2>2
  <2> QED BY <2>1, <2>2
<1>10. NoStraddle'
  <2> SUFFICES ASSUME NEW c \in DOMAIN lookup'
               PROVE  /\ lookup'[c].part <= Last
                      /\ lookup'[c].part = Last =>
                           IF lookup'[c].offset < tocOffset
                           THEN lookup'[c].offset + Size[c] <= tocOffset
                           ELSE lookup'[c].offset + Size[c] <= tocOffset + Len(buffer')
    BY <1>4 DEF NoStraddle
  <2>1. CASE c = pending
    BY <1>1, <1>2, <1>5, <1>6, <2>1
  <2>2. CASE c # pending
    <3>1. c \in DOMAIN lookup /\ lookup'[c] = lookup[c]
      BY <1>5, <2>2
    <3> DEFINE o == lookup[c].offset
               p == lookup[c].part
    <3>2. /\ Size[c] \in Nat \ {0} /\ p \in 1 .. Last /\ o \in Nat
          /\ p = Last => IF o < tocOffset THEN o + Size[c] <= tocOffset
                         ELSE o + Size[c] <= tocOffset + Len(buffer)
      BY <3>1, EntryFacts
    <3> HIDE DEF o, p
    <3>3. /\ p <= Last
          /\ p = Last => IF o < tocOffset THEN o + Size[c] <= tocOffset
                         ELSE o + Size[c] <= tocOffset + Len(buffer')
      <4> DEFINE n == Len(buffer)
                 m == Len(buffer')
      <4>1. n \in Nat /\ m \in Nat /\ n <= m /\ tocOffset \in Nat /\ Last \in Nat
        BY <1>1, <1>2, <1>6
      <4>2. p = Last => IF o < tocOffset THEN o + Size[c] <= tocOffset
                        ELSE o + Size[c] <= tocOffset + n
        BY <3>2
      <4> HIDE DEF n, m
      <4>3. p = Last => IF o < tocOffset THEN o + Size[c] <= tocOffset
                        ELSE o + Size[c] <= tocOffset + m
        BY <3>2, <4>1, <4>2
      <4>4. p <= Last
        BY <3>2, <4>1
      <4> QED BY <4>3, <4>4 DEF m
    <3> QED BY <3>1, <3>3 DEF o, p
  <2> QED BY <2>1, <2>2
<1> QED BY <1>9, <1>10

\* Opening: what the last part holds lies before its table of contents.
LEMMA OpenReads ==
    ASSUME ReadInv, NEW newonly \in BOOLEAN, OpenReadWrite(newonly)
    PROVE  NoStraddle'
<1>1. disk \in Seq(Seq(Cell)) /\ Last \in Nat /\ DOMAIN disk = 1 .. Last
  BY DEF ReadInv, TypeInv, TypeOK, Last
<1>2. \A p \in 1 .. Len(disk) : disk[p] = <<>> \/ Accepts(disk[p])
  <2>1. WritableParts(newonly)
    BY DEF OpenReadWrite
  <2>2. CASE Reuses(newonly)
    <3>1. \A p \in 1 .. Last - 1 : Accepts(disk[p])
      BY <2>1, <2>2 DEF WritableParts, MappedParts
    <3>2. disk[Last] = <<>> \/ Accepts(disk[Last])
      BY <2>1, <2>2 DEF WritableParts
    <3> HIDE DEF Last
    <3>3. \A p \in 1 .. Last : p \in 1 .. Last - 1 \/ p = Last
      BY <1>1
    <3> QED BY <3>1, <3>2, <3>3 DEF Last
  <2>3. CASE ~Reuses(newonly)
    BY <2>1, <2>3 DEF WritableParts, MappedParts, Last
  <2> QED BY <2>2, <2>3
<1>3. lookup' = Lookup(disk) /\ DOMAIN lookup' = AllIds(disk)
  BY DEF OpenReadWrite, Lookup
<1> SUFFICES ASSUME NEW c \in AllIds(disk)
             PROVE  /\ lookup'[c].part <= Last'
                    /\ lookup'[c].part = Last' =>
                         /\ lookup'[c].offset < tocOffset'
                         /\ lookup'[c].offset + Size[c] <= tocOffset'
  BY <1>3 DEF NoStraddle
<1> DEFINE p == lookup'[c].part
           o == lookup'[c].offset
<1>4. /\ p \in 1 .. Last /\ c \in Ids(disk[p]) /\ o = OffsetOf(disk[p], c)
      /\ Accepts(disk[p])
  BY <1>1, <1>2, <1>3, LookupEntry DEF Last
<1>5. c \in Chunk /\ Size[c] \in Nat \ {0}
  BY <1>1, <1>2, LookupType, SizeAssumption
<1>6. o \in Nat /\ o + Size[c] <= TocOffset(disk[p]) /\ TocOffset(disk[p]) \in Nat
  BY <1>1, <1>4, EntryInPart, OffsetOfEntry, AcceptsLayout
<1>7. CASE Reuses(newonly)
  <2>1. Last' = Last /\ tocOffset' = TocOffset(disk[Last])
    BY <1>7 DEF OpenReadWrite, LoadWriter, Last
  <2> HIDE DEF p, o, Last
  <2>2. p <= Last' /\ (p = Last' => o < tocOffset' /\ o + Size[c] <= tocOffset')
    BY <1>1, <1>4, <1>5, <1>6, <2>1
  <2> QED BY <2>2 DEF p, o
<1>8. CASE ~Reuses(newonly)
  <2>1. Last' = Last + 1
    BY <1>1, <1>8 DEF OpenReadWrite, Last
  <2> HIDE DEF p, Last
  <2>2. p <= Last' /\ p # Last'
    BY <1>1, <1>4, <2>1
  <2> QED BY <2>2 DEF p
<1> QED BY <1>7, <1>8

-----------------------------------------------------------------------------
LEMMA InitReadInv == Init => ReadInv
BY InitType DEF Init, ReadInv, NoStraddle, FlushedBeforeNext

LEMMA NextReadInv ==
    ASSUME ReadInv, [Next]_vars
    PROVE  ReadInv' /\ (mode = "readwrite" /\ mode' = "readwrite" => ReadsOn)
<1>1. TypeInv'
  BY NextType DEF ReadInv
<1>2. mode # "readwrite" => pc = "idle"
  BY DEF ReadInv, TypeInv, WriterInPart
<1>3. SUFFICES /\ NoStraddle'
               /\ FlushedBeforeNext'
               /\ mode = "readwrite" /\ mode' = "readwrite" => ReadsOn
  BY <1>1 DEF ReadInv
<1>4. ASSUME Ended("closed") \/ Ended("refused")
      PROVE  NoStraddle' /\ FlushedBeforeNext' /\ mode' # "readwrite"
  BY <1>4 DEF Ended, NoStraddle, FlushedBeforeNext
<1>5. CASE OpenReadOnly \/ OpenRefused
  BY <1>2, <1>5 DEF OpenReadOnly, OpenRefused, NoStraddle, FlushedBeforeNext
<1>6. ASSUME NEW newonly \in BOOLEAN, OpenReadWrite(newonly)
      PROVE  NoStraddle' /\ FlushedBeforeNext' /\ mode # "readwrite"
  BY <1>6, OpenReads DEF OpenReadWrite, FlushedBeforeNext
<1>7. CASE Close
  <2>1. CASE pc = "idle" /\ mode = "readwrite" /\ pc' = "closing"
             /\ UNCHANGED <<disk, mode, pending, writer, lookup, fails>>
    BY <2>1, SameReads DEF writer, FlushedBeforeNext
  <2> QED BY <1>4, <1>7, <2>1 DEF Close
<1>8. CASE Kill
  BY <1>4, <1>8 DEF Kill
<1>9. CASE FlushNothing
  <2>1. mode = "readwrite"
    BY <1>2, <1>9 DEF FlushNothing, FlushPoints
  <2>2. CASE Continue /\ UNCHANGED <<disk, tocOffset, buffer, fileSize, fails>>
    <3>1. buffer' = <<>> \/ pc' # "create"
      BY <1>9, <2>2 DEF FlushNothing, NothingToFlush
    <3>2. mode' = mode /\ lookup' = lookup
      BY <2>2 DEF Continue
    <3> QED BY <2>1, <2>2, <3>1, <3>2, SameReads DEF FlushedBeforeNext
  <2> QED BY <1>4, <1>9, <2>2 DEF FlushNothing
<1>10. CASE FlushWrites
  <2>1. mode = "readwrite" /\ Write(Flushed)
    BY <1>2, <1>10 DEF FlushWrites, FlushPoints
  <2>2. CASE Continue /\ tocOffset' = tocOffset + Len(buffer) /\ buffer' = <<>>
    <3>1. mode' = mode /\ lookup' = lookup
      BY <2>2 DEF Continue
    <3> QED BY <2>1, <2>2, <3>1, FlushReads DEF FlushedBeforeNext
  <2> QED BY <1>4, <1>10, <2>2 DEF FlushWrites
<1>11. CASE TornWrite
  BY <1>4, <1>11 DEF TornWrite
<1>12. CASE FlushFails
  <2>1. mode = "readwrite" /\ PartialWrite
    BY <1>2, <1>12 DEF FlushFails, FlushPoints
  <2>2. CASE AddThrows
    BY <2>1, <2>2, FailReads DEF AddThrows, FlushedBeforeNext
  <2> QED BY <1>4, <1>12, <2>2 DEF FlushFails
<1>13. ASSUME NEW c \in Chunk, Add(c)
       PROVE  NoStraddle' /\ FlushedBeforeNext' /\ ReadsOn
  <2>1. mode = "readwrite" /\ pc' # "create"
    BY <1>13 DEF Add, FirstStep
  <2>2. UNCHANGED <<disk, mode, tocOffset, buffer, lookup>>
    BY <1>13 DEF Add, writer
  <2> QED BY <2>1, <2>2, SameReads DEF FlushedBeforeNext
<1>14. CASE CreatePart
  <2>1. mode = "readwrite" /\ pc' # "create"
    BY <1>2, <1>14 DEF CreatePart
  <2> QED BY <1>14, <2>1, CreateReads DEF FlushedBeforeNext
<1>15. CASE AppendChunk
  <2>1. mode = "readwrite" /\ pc' # "create"
    BY <1>2, <1>15 DEF AppendChunk
  <2> QED BY <1>15, <2>1, AppendReads DEF FlushedBeforeNext
<1>16. CASE UNCHANGED vars
  <2>1. UNCHANGED <<disk, mode, pc, tocOffset, buffer, lookup>>
    BY <1>16 DEF vars, writer
  <2>2. FlushedBeforeNext'
    BY <2>1 DEF ReadInv, FlushedBeforeNext
  <2>3. CASE mode = "readwrite"
    BY <2>1, <2>2, <2>3, SameReads
  <2>4. CASE mode # "readwrite"
    BY <2>1, <2>2, <2>4 DEF NoStraddle
  <2> QED BY <2>3, <2>4
<1> QED
  BY <1>5, <1>6, <1>7, <1>8, <1>9, <1>10, <1>11, <1>12, <1>13, <1>14, <1>15, <1>16
     DEF Next

\* What add gave back to its caller stays readable while the process lives,
\* also after writes that failed.
THEOREM ReadsAreStable == Spec => ReadStable
<1>1. Init => ReadInv
  BY InitReadInv
<1>2. ReadInv /\ [Next]_vars => ReadInv'
  BY NextReadInv
<1>3. ReadInv /\ [Next]_vars =>
        [mode = "readwrite" /\ mode' = "readwrite" =>
          \A c \in DOMAIN lookup' :
              (c \in DOMAIN lookup => ReadsBack(c)) => ReadsBack(c)']_vars
  BY NextReadInv DEF ReadsOn
<1> QED BY <1>1, <1>2, <1>3, PTL DEF Spec, ReadStable

-----------------------------------------------------------------------------
(***************************************************************************)
(* What is left on the disk                                                *)
(***************************************************************************)

\* Where the data of the last chunk of a table ends.
Whole(table) == Offsets(table)[Len(table)]

IdsIn(table) == {table[i] : i \in DOMAIN table}

-----------------------------------------------------------------------------
(***************************************************************************)
(* Tables and offsets                                                      *)
(***************************************************************************)

LEMMA OffsetFacts ==
    ASSUME NEW table \in Seq(Chunk)
    PROVE  /\ Len(table) \in Nat /\ DOMAIN table = 1 .. Len(table)
           /\ Offsets(table)[0] = 0
           /\ Whole(table) \in Nat
           /\ \A n \in 0 .. Len(table) :
                 Offsets(table)[n] \in Nat /\ Offsets(table)[n] <= Whole(table)
           /\ \A n \in 1 .. Len(table) :
                 /\ table[n] \in Chunk /\ Size[table[n]] \in Nat \ {0}
                 /\ n - 1 \in 0 .. Len(table)
                 /\ Offsets(table)[n] = Offsets(table)[n - 1] + Size[table[n]]
<1>1. Len(table) \in Nat /\ DOMAIN table = 1 .. Len(table)
  OBVIOUS
<1>2. Ends(Offsets(table), table, Len(table))
  BY OffsetsAreEnds
<1>3. \A n \in 0 .. Len(table) : Offsets(table)[n] \in Nat
  BY <1>2 DEF Ends
<1>4. \A n \in 0 .. Len(table) : Offsets(table)[n] <= Whole(table)
  <2> SUFFICES ASSUME NEW n \in 0 .. Len(table) PROVE Offsets(table)[n] <= Whole(table)
    OBVIOUS
  <2>1. Len(table) \in n .. Len(table)
    BY <1>1
  <2> QED BY <2>1, OffsetsGrow DEF Whole
<1>5. \A n \in 1 .. Len(table) : table[n] \in Chunk /\ Size[table[n]] \in Nat \ {0}
  BY SizeAssumption
<1>6. \A n \in 1 .. Len(table) :
         n - 1 \in 0 .. Len(table) /\ Offsets(table)[n] = Offsets(table)[n - 1] + Size[table[n]]
  BY <1>1, <1>2 DEF Ends
<1>7. Offsets(table)[0] = 0
  BY <1>2 DEF Ends
<1>8. Whole(table) \in Nat
  BY <1>1, <1>3 DEF Whole
<1> QED BY <1>1, <1>3, <1>4, <1>5, <1>6, <1>7, <1>8

LEMMA WholeOfNone == Whole(<<>>) = 0
<1>1. <<>> \in Seq(Chunk) /\ Len(<<>>) = 0
  OBVIOUS
<1> QED BY <1>1, OffsetFacts DEF Whole

\* Every chunk has cells, so that a table with chunks has data before it.
LEMMA WholePositive ==
    ASSUME NEW table \in Seq(Chunk), table # <<>>
    PROVE  Whole(table) > 0
<1> DEFINE e == Offsets(table)
<1>1. Len(table) \in Nat \ {0}
  OBVIOUS
<1>2. 1 \in 1 .. Len(table) /\ 1 \in 0 .. Len(table)
  BY <1>1
<1>3. e[1] = e[1 - 1] + Size[table[1]] /\ Size[table[1]] \in Nat \ {0} /\ e[0] = 0
  BY <1>2, OffsetFacts
<1>4. e[1] <= Whole(table) /\ Whole(table) \in Nat /\ e[1] \in Nat
  BY <1>2, OffsetFacts
<1> HIDE DEF e
<1>5. e[1] > 0
  BY <1>3
<1> QED BY <1>4, <1>5

\* A chunk more starts where the others end, and moves none of them.
LEMMA OffsetsOfMore ==
    ASSUME NEW table \in Seq(Chunk), NEW c \in Chunk
    PROVE  /\ Append(table, c) \in Seq(Chunk)
           /\ Len(Append(table, c)) = Len(table) + 1
           /\ \A n \in 0 .. Len(table) : Offsets(Append(table, c))[n] = Offsets(table)[n]
           /\ Offsets(Append(table, c))[Len(table)] = Whole(table)
           /\ Whole(Append(table, c)) = Whole(table) + Size[c]
           /\ IdsIn(Append(table, c)) = IdsIn(table) \cup {c}
<1> DEFINE more == Append(table, c)
           n == Len(table)
<1>1. more \in Seq(Chunk) /\ Len(more) = n + 1 /\ n \in Nat
      /\ more[n + 1] = c /\ \A i \in 1 .. n : more[i] = table[i]
  OBVIOUS
<1>2. IdsIn(more) = IdsIn(table) \cup {c}
  <2>1. DOMAIN more = 1 .. n + 1 /\ DOMAIN table = 1 .. n
    BY <1>1
  <2> QED BY <1>1, <2>1 DEF IdsIn
<1> HIDE DEF more
<1> DEFINE e == Offsets(table)
           f == [i \in 0 .. n |-> Offsets(more)[i]]
<1>3. Ends(e, table, n)
  BY OffsetsAreEnds
<1>4. Ends(e, more, n)
  BY <1>1, <1>3 DEF Ends
<1>5. Ends(Offsets(more), more, n + 1)
  BY <1>1, OffsetsAreEnds
<1>6. DOMAIN f = 0 .. n /\ f[0] = 0 /\ \A i \in 1 .. n : f[i] = f[i - 1] + Size[more[i]]
  BY <1>1, <1>5 DEF Ends
<1> HIDE DEF f, e
<1>7. \A i \in 0 .. n : f[i] = e[i]
  <2>1. n \in Nat /\ n <= Len(more)
    BY <1>1
  <2> HIDE DEF n
  <2> QED BY <1>1, <1>4, <1>6, <2>1, EndsAgree
<1>8. \A i \in 0 .. n : Offsets(more)[i] = e[i]
  BY <1>7 DEF f
<1>9. Offsets(more)[n] = Whole(table)
  BY <1>1, <1>8 DEF Whole, e
<1>10. Offsets(more)[n + 1] = Offsets(more)[n] + Size[c]
  BY <1>1, <1>5 DEF Ends
<1> QED BY <1>1, <1>2, <1>8, <1>9, <1>10 DEF Whole, e, more

\* The ids of an accepted part, and where it ends.
LEMMA AcceptedPart ==
    ASSUME NEW file \in Seq(Cell), Accepts(file)
    PROVE  /\ Ids(file) = IdsIn(Chunks(file))
           /\ Chunks(file) \in Seq(Chunk) /\ Len(Chunks(file)) \in Nat
           /\ TocOffset(file) \in Nat
           /\ Len(file) = TocOffset(file) + Len(Chunks(file)) + 1
           /\ Whole(Chunks(file)) <= TocOffset(file)
           /\ file[Len(file)] = FooterCell(Chunks(file))
           /\ file # <<>>
<1>1. Chunks(file) \in Seq(Chunk) /\ EntryCount(file) = Len(Chunks(file))
  BY AcceptsLayout
<1>2. Ids(file) = IdsIn(Chunks(file))
  BY DEF Ids, IdsIn
<1>3. Whole(Chunks(file)) <= TocOffset(file)
  BY <1>1 DEF Accepts, Whole
<1> QED BY <1>1, <1>2, <1>3, AcceptsLayout

-----------------------------------------------------------------------------
(***************************************************************************)
(* Writes                                                                  *)
(***************************************************************************)

\* Where a write ends, the file ends, or its old end is left.
LEMMA OverwriteEnd ==
    ASSUME NEW file \in Seq(Cell), NEW cells \in Seq(Cell),
           NEW offset \in Nat, offset <= Len(file), NEW f, f = Overwrite(file, offset, cells)
    PROVE  /\ f \in Seq(Cell) /\ Len(f) \in Nat
           /\ \/ /\ Len(f) = Len(file) /\ Len(file) > offset + Len(cells)
                 /\ f[Len(f)] = file[Len(file)] /\ file # <<>>
              \/ /\ cells # <<>> /\ Len(f) = offset + Len(cells)
                 /\ f[Len(f)] = cells[Len(cells)] /\ Len(f) >= Len(file)
              \/ cells = <<>> /\ f = file
<1>1. f \in Seq(Cell)
  BY OverwriteType
<1>2. Len(file) \in Nat /\ Len(cells) \in Nat
  OBVIOUS
<1> DEFINE n == IF Len(file) > offset + Len(cells) THEN Len(file) ELSE offset + Len(cells)
<1>3. n \in Nat /\ Len(f) = n
  BY <1>2 DEF Overwrite
<1>4. \A i \in 1 .. n :
         f[i] = IF i > offset /\ i <= offset + Len(cells) THEN cells[i - offset] ELSE file[i]
  BY DEF Overwrite
<1>5. CASE Len(file) > offset + Len(cells)
  <2>1. f[n] = file[n] /\ n = Len(file) /\ file # <<>>
    BY <1>2, <1>4, <1>5
  <2> QED BY <1>1, <1>3, <1>5, <2>1
<1>6. CASE ~(Len(file) > offset + Len(cells)) /\ cells # <<>>
  <2>1. Len(cells) > 0 /\ n = offset + Len(cells) /\ n \in 1 .. n /\ n - offset = Len(cells)
        /\ n > offset /\ n <= offset + Len(cells)
    BY <1>2, <1>6
  <2> HIDE DEF n
  <2>2. f[n] = cells[n - offset]
    BY <1>4, <2>1
  <2> QED BY <1>1, <1>2, <1>3, <1>6, <2>1, <2>2
<1>7. CASE ~(Len(file) > offset + Len(cells)) /\ cells = <<>>
  <2>1. Len(cells) = 0 /\ n = Len(file)
    BY <1>2, <1>7
  <2>2. \A i \in 1 .. n : f[i] = file[i]
    BY <1>2, <1>4, <2>1
  <2>3. f = file
    BY <1>1, <1>3, <2>1, <2>2
  <2> QED BY <1>1, <1>3, <1>7, <2>3
<1> QED BY <1>5, <1>6, <1>7

\* The cells of a flush: the buffer, the table of contents, the footer.
LEMMA FlushedCells ==
    ASSUME TypeOK
    PROVE  /\ Len(buffer) \in Nat /\ Len(chunks) \in Nat
           /\ Flushed \in Seq(Cell)
           /\ Len(Flushed) = Len(buffer) + Len(chunks) + 1
           /\ \A k \in 1 .. Len(buffer) : Flushed[k] = buffer[k]
           /\ \A k \in 1 .. Len(chunks) :
                 Flushed[Len(buffer) + k] = [kind |-> "entry", id |-> chunks[k]]
           /\ Flushed[Len(buffer) + Len(chunks) + 1] = FooterCell(chunks)
<1>1. buffer \in Seq(Cell) /\ chunks \in Seq(Chunk) /\ Len(buffer) \in Nat /\ Len(chunks) \in Nat
      /\ DOMAIN chunks = 1 .. Len(chunks)
  BY DEF TypeOK
<1>2. Toc(chunks) \in Seq(Cell) /\ Len(Toc(chunks)) = Len(chunks)
  BY <1>1, TocType
<1>3. <<FooterCell(chunks)>> \in Seq(Cell) /\ Len(<<FooterCell(chunks)>>) = 1
      /\ <<FooterCell(chunks)>>[1] = FooterCell(chunks)
  BY <1>1, FooterType
<1>4. \A k \in 1 .. Len(chunks) : Toc(chunks)[k] = [kind |-> "entry", id |-> chunks[k]]
  BY <1>1 DEF Toc
<1> DEFINE s == buffer \o Toc(chunks)
<1>5. /\ s \in Seq(Cell) /\ Len(s) = Len(buffer) + Len(chunks)
      /\ \A k \in 1 .. Len(buffer) : s[k] = buffer[k]
      /\ \A k \in 1 .. Len(chunks) : s[Len(buffer) + k] = Toc(chunks)[k]
  <2> DEFINE t == Toc(chunks)
  <2>1. buffer \in Seq(Cell) /\ t \in Seq(Cell) /\ Len(t) = Len(chunks)
    BY <1>1, <1>2
  <2> HIDE DEF t
  <2>2. buffer \o t \in Seq(Cell)
    BY <2>1
  <2>3. /\ Len(buffer \o t) = Len(buffer) + Len(t)
        /\ \A k \in 1 .. Len(buffer) : (buffer \o t)[k] = buffer[k]
        /\ \A k \in 1 .. Len(t) : (buffer \o t)[Len(buffer) + k] = t[k]
    BY <2>1, Concatenated
  <2> QED BY <2>1, <2>2, <2>3 DEF t
<1> HIDE DEF s
<1>6. Flushed = s \o <<FooterCell(chunks)>>
  BY DEF Flushed, s
<1>7. /\ Len(Flushed) = Len(buffer) + Len(chunks) + 1
      /\ \A k \in 1 .. Len(buffer) + Len(chunks) : Flushed[k] = s[k]
      /\ Flushed[Len(buffer) + Len(chunks) + 1] = FooterCell(chunks)
  <2>1. /\ \A k \in 1 .. Len(s) : Flushed[k] = s[k]
        /\ \A k \in 1 .. 1 : Flushed[Len(s) + k] = <<FooterCell(chunks)>>[k]
    BY <1>3, <1>5, <1>6, Concatenated
  <2>2. Flushed[Len(s) + 1] = <<FooterCell(chunks)>>[1]
    BY <2>1
  <2> QED BY <1>1, <1>3, <1>5, <2>1, <2>2, FlushedType
<1>8. Flushed \in Seq(Cell)
  BY FlushedType
<1>9. \A k \in 1 .. Len(buffer) : k \in 1 .. Len(buffer) + Len(chunks)
  BY <1>1
<1>10. \A k \in 1 .. Len(chunks) : Len(buffer) + k \in 1 .. Len(buffer) + Len(chunks)
  BY <1>1
<1> QED BY <1>1, <1>4, <1>5, <1>7, <1>8, <1>9, <1>10

\* The table of contents that a part ends with, whether it is accepted or not.
Table(file) ==
    IF file # <<>> /\ file[Len(file)].kind = "footer" THEN file[Len(file)].toc ELSE <<>>

LEMMA TableType ==
    ASSUME NEW file \in Seq(Cell)
    PROVE  Table(file) \in Seq(Chunk)
<1>1. CASE file # <<>> /\ file[Len(file)].kind = "footer"
  <2>1. file[Len(file)] \in Cell
    BY <1>1
  <2>2. file[Len(file)] \in [kind : {"footer"}, toc : Seq(Chunk)]
    BY <1>1, <2>1 DEF Cell, TornCell
  <2>3. file[Len(file)].toc \in Seq(Chunk)
    BY <2>2
  <2> QED BY <1>1, <2>3 DEF Table
<1>2. CASE ~(file # <<>> /\ file[Len(file)].kind = "footer")
  <2>1. Table(file) = <<>>
    BY <1>2 DEF Table
  <2> QED BY <2>1
<1> QED BY <1>1, <1>2

LEMMA AcceptedTable ==
    ASSUME NEW file \in Seq(Cell), Accepts(file)
    PROVE  Table(file) = Chunks(file) /\ Ids(file) = IdsIn(Table(file))
<1>1. file # <<>> /\ file[Len(file)] = FooterCell(Chunks(file)) /\ Ids(file) = IdsIn(Chunks(file))
  BY AcceptedPart
<1>2. file[Len(file)].kind = "footer" /\ file[Len(file)].toc = Chunks(file)
  BY <1>1 DEF FooterCell
<1> QED BY <1>1, <1>2 DEF Table

\* A flush that is not cut short leaves a bundle, of all chunks of the part, if
\* the part was not longer before than it is with the buffer.
LEMMA FlushAccepted ==
    ASSUME ReadInv, mode = "readwrite", Write(Flushed),
           Whole(chunks) <= tocOffset + Len(buffer),
           Len(disk[Last]) <= tocOffset + Len(buffer) + Len(chunks) + 1,
           NEW f, f = disk'[Last]
    PROVE  /\ f \in Seq(Cell) /\ Accepts(f) /\ Chunks(f) = chunks
           /\ TocOffset(f) = tocOffset + Len(buffer)
           /\ Len(f) = tocOffset + Len(buffer) + Len(chunks) + 1
           /\ \A i \in 1 .. tocOffset : f[i] = disk[Last][i]
           /\ \A i \in 1 .. Len(buffer) : f[tocOffset + i] = buffer[i]
<1> DEFINE file == disk[Last]
           cells == Flushed
<1>1. /\ file \in Seq(Cell) /\ Len(file) \in Nat /\ Last \in Nat \ {0} /\ DOMAIN disk = 1 .. Last
      /\ tocOffset \in Nat /\ tocOffset <= Len(file) /\ Len(buffer) \in Nat
  BY WriterFacts
<1>2. /\ cells \in Seq(Cell) /\ Len(cells) = Len(buffer) + Len(chunks) + 1 /\ Len(chunks) \in Nat
      /\ \A k \in 1 .. Len(buffer) : cells[k] = buffer[k]
      /\ \A k \in 1 .. Len(chunks) : cells[Len(buffer) + k] = [kind |-> "entry", id |-> chunks[k]]
      /\ cells[Len(buffer) + Len(chunks) + 1] = FooterCell(chunks)
  BY FlushedCells DEF ReadInv, TypeInv
<1>3. f = Overwrite(file, tocOffset, cells)
  BY <1>1 DEF Write
<1> HIDE DEF cells, file
<1>4. /\ \A i \in 1 .. tocOffset : f[i] = file[i]
      /\ \A i \in 1 .. Len(cells) : f[tocOffset + i] = cells[i]
  <2>1. file \in Seq(Cell) /\ cells \in Seq(Cell) /\ tocOffset \in Nat /\ tocOffset <= Len(file)
    BY <1>1, <1>2
  <2>2. /\ \A i \in 1 .. tocOffset : Overwrite(file, tocOffset, cells)[i] = file[i]
        /\ \A i \in 1 .. Len(cells) : Overwrite(file, tocOffset, cells)[tocOffset + i] = cells[i]
    BY <2>1, OverwriteCells
  <2> QED BY <1>3, <2>2
<1>5. /\ f \in Seq(Cell) /\ Len(f) = tocOffset + Len(cells)
  <2>1. cells # <<>> /\ Len(file) <= tocOffset + Len(cells)
    BY <1>1, <1>2 DEF file
  <2> QED BY <1>1, <1>2, <1>3, <2>1, OverwriteEnd
<1>6. chunks \in Seq(Chunk) /\ DOMAIN chunks = 1 .. Len(chunks)
  BY DEF ReadInv, TypeInv, TypeOK
<1>7. /\ \A k \in 1 .. Len(buffer) : f[tocOffset + k] = buffer[k]
      /\ \A k \in 1 .. Len(chunks) :
            f[tocOffset + Len(buffer) + k] = [kind |-> "entry", id |-> chunks[k]]
      /\ f[Len(f)] = FooterCell(chunks)
  <2>1. \A k \in 1 .. Len(buffer) : k \in 1 .. Len(cells)
    BY <1>1, <1>2
  <2>2. ASSUME NEW k \in 1 .. Len(chunks)
        PROVE  f[tocOffset + Len(buffer) + k] = [kind |-> "entry", id |-> chunks[k]]
    <3>1. Len(buffer) + k \in 1 .. Len(cells)
          /\ tocOffset + (Len(buffer) + k) = tocOffset + Len(buffer) + k
      BY <1>1, <1>2
    <3> QED BY <1>2, <1>4, <3>1
  <2>3. Len(cells) \in 1 .. Len(cells) /\ Len(f) = tocOffset + Len(cells)
    BY <1>1, <1>2, <1>5
  <2> QED BY <1>2, <1>4, <2>1, <2>2, <2>3
<1>8. f # <<>> /\ f[Len(f)].kind = "footer" /\ f[Len(f)].toc = chunks
  <2>1. Len(f) > 0
    BY <1>1, <1>2, <1>5
  <2>2. f # <<>>
    BY <2>1
  <2> QED BY <1>7, <2>2 DEF FooterCell
<1>9. EntryCount(f) = Len(chunks)
  BY <1>8 DEF EntryCount
<1>10. TocOffset(f) = tocOffset + Len(buffer)
  BY <1>1, <1>2, <1>5, <1>8, <1>9 DEF TocOffset
<1>11. Chunks(f) = chunks
  <2>1. ASSUME NEW k \in 1 .. Len(chunks) PROVE f[TocOffset(f) + k].id = chunks[k]
    <3>1. f[TocOffset(f) + k] = [kind |-> "entry", id |-> chunks[k]]
      BY <1>7, <1>10
    <3> QED BY ONLY <3>1
  <2>2. Chunks(f) = [k \in 1 .. Len(chunks) |-> f[TocOffset(f) + k].id]
    BY <1>9 DEF Chunks
  <2>3. chunks = [k \in 1 .. Len(chunks) |-> chunks[k]]
    BY <1>6
  <2> QED BY <2>1, <2>2, <2>3
<1>12. Accepts(f)
  <2>1. ASSUME NEW k \in 1 .. EntryCount(f) PROVE f[TocOffset(f) + k] = Toc(f[Len(f)].toc)[k]
    <3>1. k \in 1 .. Len(chunks)
      BY <1>9
    <3>2. Toc(chunks)[k] = [kind |-> "entry", id |-> chunks[k]]
      BY <1>6, <3>1 DEF Toc
    <3>3. f[TocOffset(f) + k] = Toc(chunks)[k]
      BY <1>7, <1>10, <3>1, <3>2
    <3> QED BY <1>8, <3>3
  <2>2. Offsets(Chunks(f))[EntryCount(f)] <= TocOffset(f)
    BY <1>9, <1>10, <1>11 DEF Whole
  <2>3. TocOffset(f) >= 0
    BY <1>1, <1>10
  <2> QED BY <1>8, <2>1, <2>2, <2>3 DEF Accepts
<1> QED BY <1>1, <1>2, <1>4, <1>5, <1>7, <1>10, <1>11, <1>12 DEF file

\* A write that was cut short never writes the new footer: what the part ends
\* with is its old footer, or one that a failed write left in the buffer.
LEMMA PartialWriteEnd ==
    ASSUME ReadInv, mode = "readwrite", PartialWrite, NEW f, f = disk'[Last]
    PROVE  /\ f \in Seq(Cell)
           /\ Len(f) <= Len(disk[Last]) \/ Len(f) <= tocOffset + Len(buffer) + Len(chunks) + 1
           /\ \/ Table(f) = Table(disk[Last])
              \/ Table(f) = <<>>
              \/ \E k \in 1 .. Len(buffer) :
                    buffer[k].kind = "footer" /\ Table(f) = buffer[k].toc
<1> DEFINE file == disk[Last]
<1>1. /\ file \in Seq(Cell) /\ Len(file) \in Nat /\ Last \in Nat \ {0} /\ DOMAIN disk = 1 .. Last
      /\ tocOffset \in Nat /\ tocOffset <= Len(file) /\ Len(buffer) \in Nat
  BY WriterFacts
<1>2. /\ Flushed \in Seq(Cell) /\ Len(Flushed) = Len(buffer) + Len(chunks) + 1 /\ Len(chunks) \in Nat
      /\ \A k \in 1 .. Len(buffer) : Flushed[k] = buffer[k]
      /\ \A k \in 1 .. Len(chunks) : Flushed[Len(buffer) + k] = [kind |-> "entry", id |-> chunks[k]]
  BY FlushedCells DEF ReadInv, TypeInv
<1>3. PICK j \in 0 .. Len(Flushed) - 1, torn \in BOOLEAN : Write(CutShort(Flushed, j, torn))
  BY DEF PartialWrite
<1> DEFINE cells == CutShort(Flushed, j, torn)
<1>4. cells \in Seq(Cell)
  BY <1>2, CutShortType
<1>5. f = Overwrite(file, tocOffset, cells)
  BY <1>1, <1>3 DEF Write
<1>6. /\ Len(cells) = (IF torn THEN j + 1 ELSE j)
      /\ \A i \in 1 .. Len(cells) : cells[i] = IF i <= j THEN Flushed[i] ELSE TornCell
  <2>1. j \in Nat
    BY <1>2
  <2> QED BY <2>1 DEF CutShort
<1> HIDE DEF cells, file
<1>7. Len(cells) \in Nat /\ Len(cells) <= Len(Flushed)
  BY <1>2, <1>6
<1>8. f \in Seq(Cell)
  BY <1>1, <1>4, <1>5, OverwriteEnd
<1>9. CASE Len(f) = Len(file) /\ f[Len(f)] = file[Len(file)] /\ file # <<>>
  <2>1. Table(f) = Table(file)
    <3>1. f # <<>>
      BY <1>1, <1>8, <1>9
    <3> QED BY <1>9, <3>1 DEF Table
  <2> QED BY <1>1, <1>8, <1>9, <2>1 DEF file
<1>10. CASE cells = <<>> /\ f = file
  BY <1>1, <1>8, <1>10 DEF file
<1>11. CASE cells # <<>> /\ Len(f) = tocOffset + Len(cells) /\ f[Len(f)] = cells[Len(cells)]
  <2> DEFINE i == Len(cells)
  <2>1. i \in 1 .. Len(cells) /\ i \in Nat \ {0}
    BY <1>4, <1>11
  <2>2. Len(f) <= tocOffset + Len(buffer) + Len(chunks) + 1
    BY <1>1, <1>2, <1>7, <1>11
  <2>3. f # <<>>
    BY <1>1, <1>11, <2>1
  <2>4. cells[i] = IF i <= j THEN Flushed[i] ELSE TornCell
    BY <1>6, <2>1
  <2> HIDE DEF i
  <2>5. CASE ~(i <= j)
    <3>1. f[Len(f)].kind = "torn"
      BY <1>11, <2>4, <2>5 DEF TornCell, i
    <3>2. Table(f) = <<>>
      BY <3>1 DEF Table
    <3> QED BY <1>8, <2>2, <3>2
  <2>6. CASE i <= j
    <3>1. i \in 1 .. Len(buffer) + Len(chunks)
      BY <1>2, <2>1, <2>6
    <3>2. CASE i <= Len(buffer)
      <4>1. i \in 1 .. Len(buffer) /\ f[Len(f)] = buffer[i]
        BY <1>1, <1>2, <1>11, <2>1, <2>4, <2>6, <3>2 DEF i
      <4> QED BY <1>8, <2>2, <2>3, <4>1 DEF Table
    <3>3. CASE ~(i <= Len(buffer))
      <4> DEFINE k == i - Len(buffer)
      <4>1. k \in 1 .. Len(chunks) /\ Len(buffer) + k = i
        BY <1>1, <1>2, <3>1, <3>3
      <4> HIDE DEF k
      <4>2. f[Len(f)] = [kind |-> "entry", id |-> chunks[k]]
        BY <1>2, <1>11, <2>4, <2>6, <4>1 DEF i
      <4>3. Table(f) = <<>>
        BY <4>2 DEF Table
      <4> QED BY <1>8, <2>2, <4>3
    <3> QED BY <3>2, <3>3
  <2> QED BY <2>5, <2>6
<1> QED BY <1>1, <1>4, <1>5, <1>9, <1>10, <1>11, OverwriteEnd

-----------------------------------------------------------------------------
(***************************************************************************)
(* What the writer knows of the disk, whatever failed                      *)
(***************************************************************************)

SealedIds(parts) == UNION {Ids(parts[p]) : p \in 1 .. Len(parts) - 1}

\* The parts before the last are bundles.
SealedAccepted ==
    mode = "readwrite" => \A p \in 1 .. Last - 1 : Accepts(disk[p])

\* A flush now would write all data the table of contents speaks of, and to the
\* end of the part or behind it.
FlushCovers ==
    mode = "readwrite" =>
        /\ Whole(chunks) <= tocOffset + Len(buffer)
        /\ Len(disk[Last]) <= tocOffset + Len(buffer) + Len(chunks) + 1

\* "nothing to flush" means that all of the part was flushed.
FlushedWhole ==
    mode = "readwrite" /\ buffer = <<>> /\ tocOffset # 0 =>
        Accepts(disk[Last]) /\ Chunks(disk[Last]) = chunks

\* No part is left for the next one without a chunk in it.
LeftFull == pc \in {"rollover", "create"} => chunks # <<>>

\* The lookup has what is in the parts, and nothing else.
LookupComplete ==
    mode = "readwrite" => DOMAIN lookup = SealedIds(disk) \cup IdsIn(chunks)

WriterInv ==
    ReadInv /\ SealedAccepted /\ FlushCovers /\ FlushedWhole /\ LeftFull /\ LookupComplete

\* What is left to prove of a step that keeps the parts before the last.
LEMMA SealedSame ==
    ASSUME ReadInv, mode = "readwrite", Len(disk') = Last,
           \A p \in 1 .. Last - 1 : disk'[p] = disk[p]
    PROVE  SealedIds(disk') = SealedIds(disk)
BY DEF SealedIds, Last

LEMMA NotWriting ==
    ASSUME WriterInv, ReadInv', mode' # "readwrite"
    PROVE  WriterInv'
<1>1. pc' = "idle"
  BY DEF ReadInv, TypeInv, WriterInPart
<1> QED BY <1>1 DEF WriterInv, SealedAccepted, FlushCovers, FlushedWhole, LeftFull, LookupComplete

\* A step that changes nothing but pc.
LEMMA SameWriter ==
    ASSUME WriterInv, ReadInv', UNCHANGED <<disk, mode, tocOffset, chunks, buffer, lookup>>,
           pc' \in {"rollover", "create"} => chunks # <<>>
    PROVE  WriterInv'
BY DEF WriterInv, SealedAccepted, FlushCovers, FlushedWhole, LeftFull, LookupComplete,
       SealedIds, Last

LEMMA OpenWriter ==
    ASSUME WriterInv, ReadInv', NEW newonly \in BOOLEAN, OpenReadWrite(newonly)
    PROVE  WriterInv'
<1> DEFINE file == IF Reuses(newonly) THEN disk[Last] ELSE <<>>
<1>1. disk \in Seq(Seq(Cell)) /\ Last \in Nat /\ DOMAIN disk = 1 .. Last
  BY DEF WriterInv, ReadInv, TypeInv, TypeOK, Last
<1>2. /\ mode' = "readwrite" /\ pc' = "opened" /\ LoadWriter(file)
      /\ lookup' = Lookup(disk) /\ WritableParts(newonly)
      /\ disk' = IF Reuses(newonly) THEN disk ELSE Append(disk, <<>>)
  BY DEF OpenReadWrite
<1>3. DOMAIN lookup' = UNION {Ids(disk[p]) : p \in 1 .. Last}
  BY <1>1, <1>2 DEF Lookup, AllIds
<1>4. file \in Seq(Cell) /\ (file = <<>> \/ Accepts(file))
      /\ Last' \in Nat \ {0} /\ disk'[Last'] = file
      /\ (\A p \in 1 .. Last' - 1 : disk'[p] = disk[p] /\ Accepts(disk[p]))
      /\ DOMAIN lookup' = SealedIds(disk') \cup Ids(file)
  <2>1. CASE Reuses(newonly)
    <3>1. Last > 0 /\ Last' = Last /\ disk' = disk /\ file = disk[Last]
      BY <1>2, <2>1 DEF Reuses, Last
    <3>2. \A p \in 1 .. Last - 1 : Accepts(disk[p])
      BY <1>2, <2>1 DEF WritableParts, MappedParts
    <3>3. disk[Last] = <<>> \/ Accepts(disk[Last])
      BY <1>2, <2>1 DEF WritableParts
    <3>4. disk[Last] \in Seq(Cell)
      BY <1>1, <3>1
    <3>5. 1 .. Last = (1 .. Last - 1) \cup {Last}
      BY <1>1, <3>1
    <3>6. SealedIds(disk') = UNION {Ids(disk[p]) : p \in 1 .. Last - 1}
      BY <3>1 DEF SealedIds, Last
    <3> QED BY <1>1, <1>3, <3>1, <3>2, <3>3, <3>4, <3>5, <3>6
  <2>2. CASE ~Reuses(newonly)
    <3>1. /\ Last' = Last + 1 /\ file = <<>> /\ disk'[Last + 1] = <<>>
          /\ \A p \in 1 .. Last : disk'[p] = disk[p]
      BY <1>1, <1>2, <2>2 DEF Last
    <3>2. \A p \in 1 .. Last : Accepts(disk[p])
      BY <1>2, <2>2 DEF WritableParts, MappedParts
    <3>3. Last' - 1 = Last /\ <<>> \in Seq(Cell)
      BY <1>1, <3>1
    <3>4. SealedIds(disk') = UNION {Ids(disk[p]) : p \in 1 .. Last}
      BY <3>1, <3>3 DEF SealedIds, Last
    <3>5. Ids(file) = {}
      BY <3>1, EmptyLayout
    <3> QED BY <1>1, <1>3, <3>1, <3>2, <3>3, <3>4, <3>5
  <2> QED BY <2>1, <2>2
<1> HIDE DEF file
<1>5. tocOffset' = TocOffset(file) /\ chunks' = Chunks(file) /\ buffer' = <<>>
  BY <1>2 DEF LoadWriter
<1>6. /\ Ids(file) = IdsIn(Chunks(file)) /\ Whole(Chunks(file)) <= TocOffset(file)
      /\ TocOffset(file) \in Nat
      /\ Len(file) <= TocOffset(file) + Len(Chunks(file)) + 1
      /\ TocOffset(file) # 0 => Accepts(file)
  <2>1. CASE file = <<>>
    <3>1. TocOffset(file) = 0 /\ Chunks(file) = <<>> /\ Ids(file) = {} /\ Len(file) = 0
      BY <2>1, EmptyLayout
    <3> QED BY <3>1, WholeOfNone DEF IdsIn
  <2>2. CASE Accepts(file)
    BY <1>4, <2>2, AcceptedPart
  <2> QED BY <1>4, <2>1, <2>2
<1>7. FlushCovers'
  <2>1. Len(disk'[Last']) = Len(file)
    BY <1>4
  <2>2. Whole(chunks') = Whole(Chunks(file)) /\ Len(chunks') = Len(Chunks(file))
        /\ Len(buffer') = 0 /\ tocOffset' = TocOffset(file)
    BY <1>5
  <2>3. TocOffset(file) + 0 = TocOffset(file)
    BY <1>6
  <2> QED BY <1>6, <2>1, <2>2, <2>3 DEF FlushCovers
<1>8. FlushedWhole'
  BY <1>4, <1>5, <1>6 DEF FlushedWhole
<1>9. SealedAccepted' /\ LeftFull' /\ LookupComplete'
  BY <1>2, <1>4, <1>5, <1>6 DEF SealedAccepted, LeftFull, LookupComplete
<1> QED BY <1>7, <1>8, <1>9 DEF WriterInv

LEMMA FlushWriter ==
    ASSUME WriterInv, ReadInv', mode = "readwrite", Write(Flushed), Continue,
           tocOffset' = tocOffset + Len(buffer), buffer' = <<>>
    PROVE  WriterInv'
<1> DEFINE f == disk'[Last]
<1>1. /\ f \in Seq(Cell) /\ Accepts(f) /\ Chunks(f) = chunks
      /\ Len(f) = tocOffset + Len(buffer) + Len(chunks) + 1
  BY FlushAccepted DEF WriterInv, FlushCovers
<1>2. /\ Len(disk') = Last /\ Last' = Last
      /\ \A p \in 1 .. Last - 1 : disk'[p] = disk[p]
  BY FlushedType, WriteType DEF WriterInv, ReadInv, TypeInv, Last
<1> HIDE DEF f
<1>3. mode' = mode /\ chunks' = chunks /\ lookup' = lookup
      /\ (pc' \in {"rollover", "create"} => pc = "rollover")
  BY DEF Continue
<1>4. Whole(chunks) <= tocOffset + Len(buffer) /\ tocOffset \in Nat /\ Len(buffer) \in Nat
      /\ Len(chunks) \in Nat
  BY WriterFacts DEF WriterInv, FlushCovers, ReadInv, TypeInv, TypeOK
<1>5. FlushCovers'
  BY <1>1, <1>2, <1>3, <1>4 DEF FlushCovers, f
<1>6. FlushedWhole'
  BY <1>1, <1>2, <1>3 DEF FlushedWhole, f
<1>7. SealedAccepted'
  BY <1>2 DEF WriterInv, SealedAccepted
<1>8. LookupComplete'
  BY <1>2, <1>3, SealedSame DEF WriterInv, LookupComplete
<1>9. LeftFull'
  BY <1>3 DEF WriterInv, LeftFull
<1> QED BY <1>5, <1>6, <1>7, <1>8, <1>9 DEF WriterInv

LEMMA FailWriter ==
    ASSUME WriterInv, ReadInv', mode = "readwrite", PartialWrite, AddThrows
    PROVE  WriterInv'
<1>1. /\ Len(disk') = Last /\ Last' = Last
      /\ \A p \in 1 .. Last - 1 : disk'[p] = disk[p]
  BY PartialWriteType DEF WriterInv, ReadInv, TypeInv, Last
<1>2. Len(disk'[Last]) <= tocOffset + Len(buffer) + Len(chunks) + 1
  <2> DEFINE e == tocOffset + Len(buffer) + Len(chunks) + 1
             f == disk'[Last]
  <2>1. Len(f) <= Len(disk[Last]) \/ Len(f) <= e
    BY PartialWriteEnd DEF WriterInv
  <2>2. Len(disk[Last]) <= e
    BY DEF WriterInv, FlushCovers
  <2>3. f \in Seq(Cell)
    BY PartialWriteEnd DEF WriterInv
  <2>4. Len(f) \in Nat /\ Len(disk[Last]) \in Nat
    BY <2>3, WriterFacts DEF WriterInv
  <2>5. e \in Nat
    BY FlushedCells, WriterFacts DEF WriterInv, ReadInv, TypeInv
  <2> HIDE DEF e, f
  <2>6. Len(f) <= e
    BY <2>1, <2>2, <2>4, <2>5
  <2> QED BY <2>6 DEF e, f
<1>3. buffer' = Flushed /\ UNCHANGED <<mode, tocOffset, chunks, lookup>> /\ pc' = "idle"
  BY DEF AddThrows
<1>4. Len(Flushed) = Len(buffer) + Len(chunks) + 1 /\ Len(buffer) \in Nat /\ Len(chunks) \in Nat
      /\ tocOffset \in Nat
  BY FlushedCells, WriterFacts DEF WriterInv, ReadInv, TypeInv
<1>5. buffer' # <<>>
  BY <1>3, <1>4
<1>6. FlushCovers'
  <2>1. Whole(chunks) <= tocOffset + Len(buffer) /\ Whole(chunks) \in Nat
    BY OffsetFacts DEF WriterInv, FlushCovers, ReadInv, TypeInv, TypeOK
  <2>2. Len(disk'[Last]) \in Nat
    BY <1>1, PartialWriteType DEF WriterInv, ReadInv, TypeInv, TypeOK, WriterInPart, Last
  <2>3. Whole(chunks) <= tocOffset + Len(Flushed)
        /\ Len(disk'[Last]) <= tocOffset + Len(Flushed) + Len(chunks) + 1
    BY <1>2, <1>4, <2>1, <2>2
  <2> QED BY <1>1, <1>3, <2>3 DEF FlushCovers
<1>7. SealedAccepted' /\ LookupComplete' /\ LeftFull' /\ FlushedWhole'
  BY <1>1, <1>3, <1>5, SealedSame
     DEF WriterInv, SealedAccepted, LookupComplete, LeftFull, FlushedWhole
<1> QED BY <1>6, <1>7 DEF WriterInv

\* The part that is left is a bundle of all its chunks.
LEMMA LeftAccepted ==
    ASSUME WriterInv, CreatePart
    PROVE  mode = "readwrite" /\ Accepts(disk[Last]) /\ Chunks(disk[Last]) = chunks
<1>1. mode = "readwrite" /\ buffer = <<>> /\ chunks # <<>> /\ chunks \in Seq(Chunk)
  BY DEF CreatePart, WriterInv, LeftFull, ReadInv, TypeInv, TypeOK, WriterInPart, FlushedBeforeNext
<1>2. Whole(chunks) > 0 /\ Whole(chunks) <= tocOffset + 0
  BY <1>1, WholePositive DEF WriterInv, FlushCovers
<1>3. tocOffset \in Nat /\ Whole(chunks) \in Nat
  BY <1>1, OffsetFacts, WriterFacts DEF WriterInv
<1> QED BY <1>1, <1>2, <1>3 DEF WriterInv, FlushedWhole

LEMMA CreateWriter ==
    ASSUME WriterInv, ReadInv', CreatePart
    PROVE  WriterInv'
<1>1. mode = "readwrite" /\ Accepts(disk[Last]) /\ Chunks(disk[Last]) = chunks
  BY LeftAccepted
<1>2. disk \in Seq(Seq(Cell)) /\ Last \in Nat \ {0} /\ DOMAIN disk = 1 .. Last
  BY <1>1, WriterFacts DEF WriterInv
<1>3. /\ tocOffset' = 0 /\ chunks' = <<>> /\ buffer' = <<>> /\ pc' = "header"
      /\ lookup' = lookup /\ disk' = Append(disk, <<>>)
  BY DEF CreatePart
<1>4. /\ Last' = Last + 1 /\ disk'[Last + 1] = <<>>
      /\ \A p \in 1 .. Last : disk'[p] = disk[p]
  BY <1>2, <1>3 DEF Last
<1>5. 1 .. Last' - 1 = (1 .. Last - 1) \cup {Last}
  BY <1>2, <1>4
<1>6. Ids(disk[Last]) = IdsIn(chunks)
  BY <1>1 DEF Ids, IdsIn
<1>7. LookupComplete'
  <2>1. SealedIds(disk') = UNION {Ids(disk[p]) : p \in 1 .. Last}
    BY <1>2, <1>4 DEF SealedIds, Last
  <2>2. 1 .. Last = (1 .. Last - 1) \cup {Last}
    BY <1>2
  <2>3. SealedIds(disk') = SealedIds(disk) \cup IdsIn(chunks)
    BY <1>6, <2>1, <2>2 DEF SealedIds, Last
  <2>4. IdsIn(<<>>) = {}
    BY DEF IdsIn
  <2> QED BY <1>1, <1>3, <2>3, <2>4 DEF WriterInv, LookupComplete
<1>8. SealedAccepted'
  BY <1>1, <1>2, <1>4, <1>5 DEF WriterInv, SealedAccepted
<1>9. FlushCovers'
  <2>1. Whole(chunks') = 0 /\ Len(chunks') = 0 /\ Len(buffer') = 0
    BY <1>3, WholeOfNone
  <2>2. disk'[Last'] = <<>>
    BY <1>4
  <2>3. Len(disk'[Last']) = 0 /\ tocOffset' = 0
    BY <1>3, <2>2
  <2> QED BY <2>1, <2>3 DEF FlushCovers
<1> QED BY <1>3, <1>7, <1>8, <1>9 DEF WriterInv, FlushedWhole, LeftFull

LEMMA AppendWriter ==
    ASSUME WriterInv, ReadInv', AppendChunk
    PROVE  WriterInv'
<1>1. pc = "append" /\ mode = "readwrite" /\ pending \in Chunk /\ chunks \in Seq(Chunk)
      /\ disk \in Seq(Seq(Cell)) /\ Last > 0 /\ buffer \in Seq(Cell) /\ tocOffset \in Nat
  BY DEF AppendChunk, WriterInv, ReadInv, TypeInv, TypeOK, WriterInPart
<1>2. /\ chunks' = Append(chunks, pending) /\ buffer' = buffer \o Data(pending)
      /\ UNCHANGED <<disk, mode, tocOffset>> /\ pc' \in {"appended", "idle"}
      /\ DOMAIN lookup' = DOMAIN lookup \cup {pending}
  BY DEF AppendChunk
<1>3. /\ Len(chunks') = Len(chunks) + 1 /\ Whole(chunks') = Whole(chunks) + Size[pending]
      /\ IdsIn(chunks') = IdsIn(chunks) \cup {pending}
  BY <1>1, <1>2, OffsetsOfMore
<1>4. Len(buffer') = Len(buffer) + Size[pending] /\ Size[pending] \in Nat \ {0}
  BY <1>1, <1>2, DataType, Concatenated, SizeAssumption
<1>5. /\ Whole(chunks) \in Nat /\ Len(chunks) \in Nat /\ Len(buffer) \in Nat
      /\ Whole(chunks) <= tocOffset + Len(buffer)
      /\ Len(disk[Last]) <= tocOffset + Len(buffer) + Len(chunks) + 1
      /\ Len(disk[Last]) \in Nat
  BY <1>1, OffsetFacts, WriterFacts DEF WriterInv, FlushCovers
<1>6. FlushCovers'
  <2> DEFINE w == Whole(chunks)
             b == Len(buffer)
             n == Len(chunks)
             d == Len(disk[Last])
             s == Size[pending]
  <2>1. /\ w \in Nat /\ b \in Nat /\ n \in Nat /\ d \in Nat /\ s \in Nat /\ tocOffset \in Nat
        /\ w <= tocOffset + b /\ d <= tocOffset + b + n + 1
    BY <1>1, <1>4, <1>5
  <2>2. Whole(chunks') = w + s /\ Len(buffer') = b + s /\ Len(chunks') = n + 1
    BY <1>3, <1>4
  <2> HIDE DEF w, b, n, d, s
  <2>3. w + s <= tocOffset + (b + s) /\ d <= tocOffset + (b + s) + (n + 1) + 1
    BY <2>1
  <2>4. Whole(chunks') <= tocOffset + Len(buffer')
        /\ d <= tocOffset + Len(buffer') + Len(chunks') + 1
    BY <2>2, <2>3
  <2>5. tocOffset' = tocOffset /\ Len(disk'[Last']) = d
    BY <1>2 DEF d, Last
  <2> QED BY <2>4, <2>5 DEF FlushCovers
<1>7. buffer' # <<>>
  BY <1>4, <1>5
<1>8. SealedAccepted' /\ LookupComplete'
  BY <1>1, <1>2, <1>3 DEF WriterInv, SealedAccepted, LookupComplete, Last
<1> QED BY <1>2, <1>6, <1>7, <1>8 DEF WriterInv, FlushedWhole, LeftFull

LEMMA InitWriter == Init => WriterInv
<1>1. Init => ReadInv
  BY InitReadInv
<1> QED BY <1>1 DEF Init, WriterInv, SealedAccepted, FlushCovers, FlushedWhole, LeftFull,
                    LookupComplete

LEMMA NextWriter ==
    ASSUME WriterInv, [Next]_vars
    PROVE  WriterInv'
<1>1. ReadInv /\ ReadInv'
  BY NextReadInv DEF WriterInv
<1>2. mode # "readwrite" => pc = "idle"
  BY DEF WriterInv, ReadInv, TypeInv, WriterInPart
<1>3. ASSUME Ended("closed") \/ Ended("refused") PROVE WriterInv'
  BY <1>1, <1>3, NotWriting DEF Ended
<1>4. CASE OpenReadOnly \/ OpenRefused
  BY <1>1, <1>4, NotWriting DEF OpenReadOnly, OpenRefused
<1>5. ASSUME NEW newonly \in BOOLEAN, OpenReadWrite(newonly) PROVE WriterInv'
  BY <1>1, <1>5, OpenWriter
<1>6. CASE Close
  <2>1. CASE pc' = "closing" /\ UNCHANGED <<disk, mode, pending, writer, lookup, fails>>
    BY <1>1, <2>1, SameWriter DEF writer
  <2> QED BY <1>3, <1>6, <2>1 DEF Close
<1>7. CASE Kill
  BY <1>3, <1>7 DEF Kill
<1>8. CASE FlushNothing
  <2>1. CASE Continue /\ UNCHANGED <<disk, tocOffset, buffer, fileSize, fails>>
    <3>1. /\ UNCHANGED <<disk, mode, tocOffset, chunks, buffer, lookup>>
          /\ pc' \in {"rollover", "create"} => pc = "rollover"
      BY <2>1 DEF Continue
    <3>2. pc = "rollover" => chunks # <<>>
      BY DEF WriterInv, LeftFull
    <3> QED BY <1>1, <3>1, <3>2, SameWriter
  <2> QED BY <1>3, <1>8, <2>1 DEF FlushNothing
<1>9. CASE FlushWrites
  <2>1. mode = "readwrite" /\ Write(Flushed)
    BY <1>2, <1>9 DEF FlushWrites, FlushPoints
  <2>2. CASE Continue /\ tocOffset' = tocOffset + Len(buffer) /\ buffer' = <<>>
    BY <1>1, <2>1, <2>2, FlushWriter
  <2> QED BY <1>3, <1>9, <2>2 DEF FlushWrites
<1>10. CASE TornWrite
  BY <1>3, <1>10 DEF TornWrite
<1>11. CASE FlushFails
  <2>1. mode = "readwrite" /\ PartialWrite
    BY <1>2, <1>11 DEF FlushFails, FlushPoints
  <2> QED BY <1>1, <1>3, <1>11, <2>1, FailWriter DEF FlushFails
<1>12. ASSUME NEW c \in Chunk, Add(c) PROVE WriterInv'
  <2>1. UNCHANGED <<disk, mode, tocOffset, chunks, buffer, lookup>>
    BY <1>12 DEF Add, writer
  <2>2. pc' \in {"rollover", "create"} => chunks # <<>>
    BY <1>12 DEF Add, FirstStep, NeedsNewPart
  <2> QED BY <1>1, <2>1, <2>2, SameWriter
<1>13. CASE CreatePart
  BY <1>1, <1>13, CreateWriter
<1>14. CASE AppendChunk
  BY <1>1, <1>14, AppendWriter
<1>15. CASE UNCHANGED vars
  <2>1. UNCHANGED <<disk, mode, pc, tocOffset, chunks, buffer, lookup>>
    BY <1>15 DEF vars, writer
  <2>2. pc' \in {"rollover", "create"} => chunks # <<>>
    BY <2>1 DEF WriterInv, LeftFull
  <2> QED BY <1>1, <2>1, <2>2, SameWriter
<1> QED
  BY <1>4, <1>5, <1>6, <1>7, <1>8, <1>9, <1>10, <1>11, <1>12, <1>13, <1>14, <1>15 DEF Next
-----------------------------------------------------------------------------
(***************************************************************************)
(* A cache that opens is left so that it opens again                       *)
(***************************************************************************)

\* A part more, empty, behind parts that are all bundles.
LEMMA ReopensWithNew ==
    ASSUME NEW parts \in Seq(Seq(Cell)), \A p \in 1 .. Len(parts) : Accepts(parts[p])
    PROVE  Reopens(Append(parts, <<>>))
<1> DEFINE more == Append(parts, <<>>)
<1>1. /\ Len(more) = Len(parts) + 1 /\ more[Len(parts) + 1] = <<>> /\ Len(parts) \in Nat
      /\ \A p \in 1 .. Len(parts) : more[p] = parts[p]
  OBVIOUS
<1> HIDE DEF more
<1>2. Len(more) - 1 = Len(parts)
  BY <1>1
<1> QED BY <1>1, <1>2 DEF Reopens, more

LEMMA FlushReopens ==
    ASSUME WriterInv, FlushWrites
    PROVE  Reopens(disk')
<1>1. mode = "readwrite" /\ Write(Flushed)
  BY DEF FlushWrites, FlushPoints, WriterInv, ReadInv, TypeInv, WriterInPart
<1>2. Accepts(disk'[Last])
  BY <1>1, FlushAccepted DEF WriterInv, FlushCovers
<1>3. Len(disk') = Last /\ \A p \in 1 .. Last - 1 : disk'[p] = disk[p]
  BY <1>1, FlushedType, WriteType DEF WriterInv, ReadInv, TypeInv
<1>4. \A p \in 1 .. Last - 1 : Accepts(disk[p])
  BY <1>1 DEF WriterInv, SealedAccepted
<1> QED BY <1>2, <1>3, <1>4 DEF Reopens

LEMMA StepReopens ==
    ASSUME WriterInv, Next, Reopens(disk), ~TornWrite, ~FlushFails
    PROVE  Reopens(disk')
<1>1. disk \in Seq(Seq(Cell)) /\ Last \in Nat /\ Last = Len(disk)
  BY DEF WriterInv, ReadInv, TypeInv, TypeOK, Last
<1>2. CASE disk' = disk
  BY <1>2
<1>3. ASSUME NEW newonly \in BOOLEAN, OpenReadWrite(newonly) PROVE Reopens(disk')
  <2>1. CASE ~Reuses(newonly)
    <3>1. disk' = Append(disk, <<>>) /\ \A p \in 1 .. Len(disk) : Accepts(disk[p])
      BY <1>3, <2>1 DEF OpenReadWrite, WritableParts, MappedParts, Last
    <3> QED BY <1>1, <3>1, ReopensWithNew
  <2> QED BY <1>2, <1>3, <2>1 DEF OpenReadWrite
<1>4. CASE FlushWrites
  BY <1>4, FlushReopens
<1>5. CASE CreatePart
  <2>1. mode = "readwrite" /\ Accepts(disk[Last])
    BY <1>5, LeftAccepted
  <2>2. \A p \in 1 .. Last - 1 : Accepts(disk[p])
    BY <2>1 DEF WriterInv, SealedAccepted
  <2>3. \A p \in 1 .. Last : p \in 1 .. Last - 1 \/ p = Last
    BY <1>1
  <2>4. \A p \in 1 .. Len(disk) : Accepts(disk[p])
    BY <1>1, <2>1, <2>2, <2>3
  <2> QED BY <1>1, <1>5, <2>4, ReopensWithNew DEF CreatePart
<1>6. CASE \/ OpenReadOnly \/ OpenRefused \/ Close \/ Kill \/ FlushNothing \/ AppendChunk
           \/ \E c \in Chunk : Add(c)
  BY <1>2, <1>6 DEF OpenReadOnly, OpenRefused, Close, Kill, FlushNothing, AppendChunk, Add
<1> QED BY <1>3, <1>4, <1>5, <1>6 DEF Next

LEMMA WriterAlways == Spec => []WriterInv
BY InitWriter, NextWriter, PTL DEF Spec

\* Only a write that is cut short leaves parts that cannot be opened again.
THEOREM ReopensAlways == Spec => AlwaysReopens
<1>1. WriterInv /\ [Next]_vars =>
        [Reopens(disk) => Reopens(disk)' \/ TornWrite \/ FlushFails]_vars
  BY StepReopens
<1> QED BY <1>1, WriterAlways, PTL DEF Spec, AlwaysReopens

-----------------------------------------------------------------------------
(***************************************************************************)
(* No chunk is stored twice                                                *)
(***************************************************************************)

Once(table) == \A i, j \in 1 .. Len(table) : table[i] = table[j] => i = j

\* No table of contents on the disk has a chunk twice, and no two have the same,
\* also those of parts that are not accepted.
DiskOnce ==
    /\ \A p \in 1 .. Last : Once(Table(disk[p]))
    /\ \A p, q \in 1 .. Last :
          p # q => IdsIn(Table(disk[p])) \cap IdsIn(Table(disk[q])) = {}

\* A table of contents that the last part may end with.
OwnTable(table) == Once(table) /\ IdsIn(table) \subseteq IdsIn(chunks)

\* A failed write leaves a footer in the buffer, which a write that is cut short
\* at it brings to the end of the part.
WriterOnce ==
    mode = "readwrite" =>
        /\ Once(chunks)
        /\ \A p \in 1 .. Last - 1 : IdsIn(Table(disk[p])) \cap IdsIn(chunks) = {}
        /\ OwnTable(Table(disk[Last]))
        /\ \A k \in 1 .. Len(buffer) : buffer[k].kind = "footer" => OwnTable(buffer[k].toc)

PendingNew == pc \in {"rollover", "create", "header", "append"} => pending \notin DOMAIN lookup

OnceInv == WriterInv /\ DiskOnce /\ WriterOnce /\ PendingNew

LEMMA NoTable == Table(<<>>) = <<>> /\ Once(<<>>) /\ IdsIn(<<>>) = {}
BY DEF Table, Once, IdsIn

\* The last part is given another table of its own chunks.
LEMMA LastTable ==
    ASSUME OnceInv, mode = "readwrite", Len(disk') = Last,
           \A p \in 1 .. Last - 1 : disk'[p] = disk[p], OwnTable(Table(disk'[Last]))
    PROVE  DiskOnce'
<1>1. Last \in Nat \ {0} /\ Last' = Last
  BY WriterFacts DEF OnceInv, WriterInv, Last
<1>2. \A p \in 1 .. Last : p \in 1 .. Last - 1 \/ p = Last
  BY <1>1
<1>3. \A p \in 1 .. Last : Once(Table(disk'[p]))
  BY <1>2 DEF OnceInv, DiskOnce, OwnTable
<1>4. \A p \in 1 .. Last - 1 :
         IdsIn(Table(disk'[p])) \cap IdsIn(Table(disk'[Last])) = {}
  BY DEF OnceInv, WriterOnce, OwnTable
<1>5. \A p, q \in 1 .. Last - 1 :
         p # q => IdsIn(Table(disk'[p])) \cap IdsIn(Table(disk'[q])) = {}
  BY <1>1 DEF OnceInv, DiskOnce
<1>6. \A p, q \in 1 .. Last :
         p # q => IdsIn(Table(disk'[p])) \cap IdsIn(Table(disk'[q])) = {}
  BY <1>2, <1>4, <1>5
<1> QED BY <1>1, <1>3, <1>6 DEF DiskOnce

\* A part more has no table yet.
LEMMA NewTable ==
    ASSUME OnceInv, disk' = Append(disk, <<>>)
    PROVE  DiskOnce' /\ Last' = Last + 1 /\ Last \in Nat
           /\ disk'[Last + 1] = <<>> /\ \A p \in 1 .. Last : disk'[p] = disk[p]
<1>1. disk \in Seq(Seq(Cell)) /\ Last \in Nat
  BY DEF OnceInv, WriterInv, ReadInv, TypeInv, TypeOK, Last
<1>2. /\ Last' = Last + 1 /\ disk'[Last + 1] = <<>>
      /\ \A p \in 1 .. Last : disk'[p] = disk[p]
  BY <1>1 DEF Last
<1>3. \A p \in 1 .. Last' : p \in 1 .. Last \/ p = Last + 1
  BY <1>1, <1>2
<1>4. \A p \in 1 .. Last' : Once(Table(disk'[p]))
  BY <1>2, <1>3, NoTable DEF OnceInv, DiskOnce
<1>5. \A p, q \in 1 .. Last :
         p # q => IdsIn(Table(disk'[p])) \cap IdsIn(Table(disk'[q])) = {}
  BY <1>2 DEF OnceInv, DiskOnce
<1>6. IdsIn(Table(disk'[Last + 1])) = {}
  BY <1>2, NoTable
<1>7. \A p, q \in 1 .. Last' :
         p # q => IdsIn(Table(disk'[p])) \cap IdsIn(Table(disk'[q])) = {}
  BY <1>3, <1>5, <1>6
<1> QED BY <1>1, <1>2, <1>4, <1>7 DEF DiskOnce

\* Whatever of a write reaches the disk, the table the part ends with is its own.
LEMMA PartialOnce ==
    ASSUME OnceInv, mode = "readwrite", PartialWrite
    PROVE  /\ Len(disk') = Last /\ Last' = Last
           /\ \A p \in 1 .. Last - 1 : disk'[p] = disk[p]
           /\ OwnTable(Table(disk'[Last])) /\ DiskOnce'
<1>1. /\ Len(disk') = Last /\ Last' = Last
      /\ \A p \in 1 .. Last - 1 : disk'[p] = disk[p]
  BY PartialWriteType DEF OnceInv, WriterInv, ReadInv, TypeInv, Last
<1> DEFINE f == disk'[Last]
<1>2. \/ Table(f) = Table(disk[Last])
      \/ Table(f) = <<>>
      \/ \E k \in 1 .. Len(buffer) : buffer[k].kind = "footer" /\ Table(f) = buffer[k].toc
  BY PartialWriteEnd DEF OnceInv, WriterInv
<1> HIDE DEF f
<1>3. OwnTable(<<>>)
  BY NoTable DEF OwnTable
<1>4. OwnTable(Table(f))
  BY <1>2, <1>3 DEF OnceInv, WriterOnce
<1> QED BY <1>1, <1>4, LastTable DEF f

LEMMA FlushOnce ==
    ASSUME OnceInv, mode = "readwrite", Write(Flushed)
    PROVE  /\ Len(disk') = Last /\ Last' = Last
           /\ \A p \in 1 .. Last - 1 : disk'[p] = disk[p]
           /\ OwnTable(Table(disk'[Last])) /\ DiskOnce'
<1>1. /\ Len(disk') = Last /\ Last' = Last
      /\ \A p \in 1 .. Last - 1 : disk'[p] = disk[p]
  BY FlushedType, WriteType DEF OnceInv, WriterInv, ReadInv, TypeInv, Last
<1> DEFINE f == disk'[Last]
<1>2. f \in Seq(Cell) /\ Accepts(f) /\ Chunks(f) = chunks
  BY FlushAccepted DEF OnceInv, WriterInv, FlushCovers
<1>3. Table(f) = chunks
  BY <1>2, AcceptedTable
<1> HIDE DEF f
<1>4. OwnTable(Table(f))
  BY <1>3 DEF OnceInv, WriterOnce, OwnTable
<1> QED BY <1>1, <1>4, LastTable DEF f

\* A step that keeps the chunks of the part.
LEMMA SameChunksOnce ==
    ASSUME OnceInv, mode = "readwrite", UNCHANGED <<mode, chunks>>, Last' = Last,
           \A p \in 1 .. Last - 1 : disk'[p] = disk[p], OwnTable(Table(disk'[Last])),
           \A k \in 1 .. Len(buffer') : buffer'[k].kind = "footer" => OwnTable(buffer'[k].toc)
    PROVE  WriterOnce'
<1>1. Last \in Nat
  BY WriterFacts DEF OnceInv, WriterInv
<1> QED BY <1>1 DEF OnceInv, WriterOnce, OwnTable

LEMMA OpenOnce ==
    ASSUME OnceInv, NEW newonly \in BOOLEAN, OpenReadWrite(newonly)
    PROVE  DiskOnce' /\ WriterOnce' /\ PendingNew'
<1> DEFINE file == IF Reuses(newonly) THEN disk[Last] ELSE <<>>
<1>1. disk \in Seq(Seq(Cell)) /\ Last \in Nat
  BY DEF OnceInv, WriterInv, ReadInv, TypeInv, TypeOK, Last
<1>2. /\ mode' = "readwrite" /\ pc' = "opened" /\ LoadWriter(file) /\ WritableParts(newonly)
      /\ disk' = IF Reuses(newonly) THEN disk ELSE Append(disk, <<>>)
  BY DEF OpenReadWrite
<1>3. DiskOnce' /\ Last' \in Nat \ {0} /\ disk'[Last'] = file
  <2>1. CASE Reuses(newonly)
    <3>1. disk' = disk /\ Last' = Last /\ Last > 0
      BY <1>2, <2>1 DEF Reuses, Last
    <3>2. DiskOnce'
      BY <3>1 DEF OnceInv, DiskOnce
    <3> QED BY <1>1, <2>1, <3>1, <3>2
  <2>2. CASE ~Reuses(newonly)
    <3>1. disk' = Append(disk, <<>>) /\ file = <<>>
      BY <1>2, <2>2
    <3>2. DiskOnce' /\ Last' = Last + 1 /\ disk'[Last + 1] = <<>>
      BY <3>1, NewTable
    <3>3. Last' \in Nat \ {0}
      BY <1>1, <3>2
    <3> QED BY <3>1, <3>2, <3>3
  <2> QED BY <2>1, <2>2
<1>4. file \in Seq(Cell) /\ (file = <<>> \/ Accepts(file))
  <2>1. CASE Reuses(newonly)
    BY <1>1, <1>2, <2>1 DEF WritableParts, Reuses, Last
  <2>2. CASE ~Reuses(newonly)
    BY <2>2
  <2> QED BY <2>1, <2>2
<1> HIDE DEF file
<1>5. chunks' = Table(file) /\ buffer' = <<>>
  <2>1. chunks' = Chunks(file) /\ buffer' = <<>>
    BY <1>2 DEF LoadWriter
  <2>2. Chunks(file) = Table(file)
    BY <1>4, AcceptedTable, EmptyLayout, NoTable
  <2> QED BY <2>1, <2>2
<1>6. WriterOnce'
  <2>0. ASSUME NEW n \in Nat \ {0}
        PROVE  n \in 1 .. n /\ \A p \in 1 .. n - 1 : p \in 1 .. n /\ p # n
    OBVIOUS
  <2>1. Last' \in 1 .. Last' /\ \A p \in 1 .. Last' - 1 : p \in 1 .. Last' /\ p # Last'
    BY <1>3, <2>0
  <2>2. Once(chunks') /\ \A p \in 1 .. Last' - 1 : IdsIn(Table(disk'[p])) \cap IdsIn(chunks') = {}
    BY <1>3, <1>5, <2>1 DEF DiskOnce
  <2>3. 1 .. Len(buffer') = {}
    BY <1>5
  <2>4. OwnTable(Table(disk[Last]))'
    BY <1>3, <1>5, <2>2 DEF OwnTable
  <2> QED BY <2>2, <2>3, <2>4 DEF WriterOnce
<1>7. PendingNew'
  BY <1>2 DEF PendingNew
<1> QED BY <1>3, <1>6, <1>7

\* A failed write leaves the footer of the chunks so far in the buffer.
LEMMA FailOnce ==
    ASSUME OnceInv, mode = "readwrite", PartialWrite, AddThrows
    PROVE  DiskOnce' /\ WriterOnce' /\ PendingNew'
<1>1. buffer' = Flushed /\ UNCHANGED <<mode, chunks>> /\ pc' = "idle"
  BY DEF AddThrows
<1>2. /\ Len(buffer) \in Nat /\ Len(chunks) \in Nat
      /\ Len(Flushed) = Len(buffer) + Len(chunks) + 1
      /\ \A k \in 1 .. Len(buffer) : Flushed[k] = buffer[k]
      /\ \A k \in 1 .. Len(chunks) :
            Flushed[Len(buffer) + k] = [kind |-> "entry", id |-> chunks[k]]
      /\ Flushed[Len(buffer) + Len(chunks) + 1] = FooterCell(chunks)
  BY FlushedCells DEF OnceInv, WriterInv, ReadInv, TypeInv
<1> HIDE DEF Flushed
<1>3. ASSUME NEW k \in 1 .. Len(Flushed), Flushed[k].kind = "footer"
      PROVE  OwnTable(Flushed[k].toc)
  <2>1. CASE k \in 1 .. Len(buffer)
    BY <1>2, <1>3, <2>1 DEF OnceInv, WriterOnce
  <2>2. CASE k = Len(buffer) + Len(chunks) + 1
    <3>1. Flushed[k].toc = chunks
      BY <1>2, <2>2 DEF FooterCell
    <3> QED BY <3>1 DEF OnceInv, WriterOnce, OwnTable
  <2>3. CASE k \notin 1 .. Len(buffer) /\ k # Len(buffer) + Len(chunks) + 1
    <3> DEFINE n == k - Len(buffer)
    <3>1. n \in 1 .. Len(chunks) /\ Len(buffer) + n = k
      BY <1>2, <2>3
    <3> HIDE DEF n
    <3>2. Flushed[k] = [kind |-> "entry", id |-> chunks[n]]
      BY <1>2, <3>1
    <3>3. Flushed[k].kind = "entry"
      BY ONLY <3>2
    <3> QED BY <1>3, <3>3
  <2> QED BY <2>1, <2>2, <2>3
<1>4. WriterOnce'
  BY <1>1, <1>3, PartialOnce, SameChunksOnce
<1>5. PendingNew'
  BY <1>1 DEF PendingNew
<1> QED BY <1>4, <1>5, PartialOnce

LEMMA AppendOnce ==
    ASSUME OnceInv, AppendChunk
    PROVE  DiskOnce' /\ WriterOnce' /\ PendingNew'
<1>1. /\ mode = "readwrite" /\ pending \in Chunk /\ chunks \in Seq(Chunk)
      /\ Last \in Nat \ {0} /\ buffer \in Seq(Cell) /\ Len(buffer) \in Nat
      /\ Len(chunks) \in Nat
      /\ pending \notin SealedIds(disk) /\ pending \notin IdsIn(chunks)
  <2>1. mode = "readwrite" /\ pending \in Chunk /\ chunks \in Seq(Chunk)
    BY DEF AppendChunk, OnceInv, WriterInv, ReadInv, TypeInv, TypeOK, WriterInPart
  <2>2. Last \in Nat \ {0} /\ buffer \in Seq(Cell) /\ Len(buffer) \in Nat
    BY <2>1, WriterFacts DEF OnceInv, WriterInv
  <2>3. pending \notin DOMAIN lookup
    BY DEF OnceInv, PendingNew, AppendChunk
  <2> QED BY <2>1, <2>2, <2>3 DEF OnceInv, WriterInv, LookupComplete
<1>2. /\ chunks' = Append(chunks, pending) /\ buffer' = buffer \o Data(pending)
      /\ UNCHANGED <<disk, mode>> /\ Last' = Last /\ pc' \in {"appended", "idle"}
  BY DEF AppendChunk, Last
<1>3. DiskOnce'
  BY <1>2 DEF OnceInv, DiskOnce
<1>4. IdsIn(chunks') = IdsIn(chunks) \cup {pending}
  BY <1>1, <1>2, OffsetsOfMore
<1>5. Once(chunks')
  <2> DEFINE n == Len(chunks)
  <2>1. /\ Len(chunks') = n + 1 /\ chunks'[n + 1] = pending
        /\ \A i \in 1 .. n : chunks'[i] = chunks[i]
    BY <1>1, <1>2
  <2>2. \A i \in 1 .. n : chunks[i] # pending
    BY <1>1 DEF IdsIn
  <2>3. \A i, j \in 1 .. n : chunks[i] = chunks[j] => i = j
    BY DEF OnceInv, WriterOnce, Once, AppendChunk, WriterInv, ReadInv, TypeInv, WriterInPart
  <2>4. n \in Nat
    BY <1>1
  <2> HIDE DEF n
  <2>5. \A i \in 1 .. n + 1 : i \in 1 .. n \/ i = n + 1
    BY <2>4
  <2> QED BY <2>1, <2>2, <2>3, <2>5 DEF Once
<1>6. \A p \in 1 .. Last - 1 : IdsIn(Table(disk[p])) \cap IdsIn(chunks') = {}
  <2> SUFFICES ASSUME NEW p \in 1 .. Last - 1
               PROVE  IdsIn(Table(disk[p])) \cap IdsIn(chunks') = {}
    OBVIOUS
  <2>1. IdsIn(Table(disk[p])) \cap IdsIn(chunks) = {}
    BY <1>1 DEF OnceInv, WriterOnce
  <2>2. Accepts(disk[p]) /\ disk[p] \in Seq(Cell)
    <3>1. p \in 1 .. Len(disk) /\ disk \in Seq(Seq(Cell))
      BY <1>1 DEF OnceInv, WriterInv, ReadInv, TypeInv, TypeOK, Last
    <3> QED BY <1>1, <3>1 DEF OnceInv, WriterInv, SealedAccepted
  <2>3. IdsIn(Table(disk[p])) = Ids(disk[p])
    BY <2>2, AcceptedTable
  <2>4. pending \notin IdsIn(Table(disk[p]))
    BY <1>1, <2>3 DEF SealedIds, Last
  <2> QED BY <1>4, <2>1, <2>4
<1>7. \A k \in 1 .. Len(buffer') :
         buffer'[k].kind = "footer" =>
            k \in 1 .. Len(buffer) /\ buffer'[k] = buffer[k]
  <2> DEFINE data == Data(pending)
  <2>1. data \in Seq(Cell) /\ buffer' = buffer \o data /\ Len(data) = Size[pending]
    BY <1>1, <1>2, DataType
  <2>2. \A k \in 1 .. Len(data) : data[k].kind = "data"
    BY <2>1 DEF Data
  <2> HIDE DEF data
  <2>3. /\ Len(buffer') = Len(buffer) + Len(data)
        /\ \A k \in 1 .. Len(buffer) : buffer'[k] = buffer[k]
        /\ \A k \in 1 .. Len(data) : buffer'[Len(buffer) + k] = data[k]
    BY <1>1, <2>1, Concatenated
  <2>4. Len(data) \in Nat
    BY <2>1
  <2> SUFFICES ASSUME NEW k \in 1 .. Len(buffer'), buffer'[k].kind = "footer"
               PROVE  k \in 1 .. Len(buffer)
    BY <2>3
  <2> SUFFICES ASSUME k \notin 1 .. Len(buffer) PROVE FALSE
    OBVIOUS
  <2> DEFINE m == k - Len(buffer)
  <2>5. m \in 1 .. Len(data) /\ Len(buffer) + m = k
    BY <1>1, <2>3, <2>4
  <2> HIDE DEF m
  <2>6. buffer'[k].kind = "data"
    BY <2>2, <2>3, <2>5
  <2> QED BY <2>6
<1>8. WriterOnce'
  <2>1. IdsIn(chunks) \subseteq IdsIn(chunks')
    BY <1>4
  <2>2. OwnTable(Table(disk[Last]))
        /\ \A k \in 1 .. Len(buffer) : buffer[k].kind = "footer" => OwnTable(buffer[k].toc)
    BY <1>1 DEF OnceInv, WriterOnce
  <2>3. OwnTable(Table(disk[Last]))'
    BY <1>2, <2>1, <2>2 DEF OwnTable
  <2>4. ASSUME NEW k \in 1 .. Len(buffer'), buffer'[k].kind = "footer"
        PROVE  OwnTable(buffer[k].toc)'
    BY <1>7, <2>1, <2>2, <2>4 DEF OwnTable
  <2> QED BY <1>2, <1>5, <1>6, <2>3, <2>4 DEF WriterOnce
<1>9. PendingNew'
  BY <1>2 DEF PendingNew
<1> QED BY <1>3, <1>8, <1>9

LEMMA InitOnce == Init => OnceInv
<1>1. Init => WriterInv
  BY InitWriter
<1> QED BY <1>1 DEF Init, OnceInv, DiskOnce, WriterOnce, PendingNew, Last

\* A step that changes at most pc and pending.
LEMMA SameOnce ==
    ASSUME OnceInv, UNCHANGED <<disk, mode, chunks, buffer>>, PendingNew'
    PROVE  DiskOnce' /\ WriterOnce' /\ PendingNew'
BY DEF OnceInv, DiskOnce, WriterOnce, OwnTable, Last

LEMMA NextOnce ==
    ASSUME OnceInv, [Next]_vars
    PROVE  OnceInv'
<1>1. WriterInv /\ WriterInv'
  BY NextWriter DEF OnceInv
<1>2. SUFFICES DiskOnce' /\ WriterOnce' /\ PendingNew'
  BY <1>1 DEF OnceInv
<1>3. (mode # "readwrite" => pc = "idle") /\ (pc \in FlushPoints => mode = "readwrite")
  BY <1>1 DEF WriterInv, ReadInv, TypeInv, WriterInPart, FlushPoints
<1>4. ASSUME mode' # "readwrite", pc' = "idle", DiskOnce' PROVE WriterOnce' /\ PendingNew'
  BY <1>4 DEF WriterOnce, PendingNew
<1>5. ASSUME mode' # "readwrite", pc' = "idle", disk' = disk
      PROVE  DiskOnce' /\ WriterOnce' /\ PendingNew'
  <2>1. DiskOnce'
    BY <1>5 DEF OnceInv, DiskOnce, Last
  <2> QED BY <1>4, <1>5, <2>1
<1>6. CASE OpenReadOnly \/ OpenRefused \/ Kill
  <2>1. mode' # "readwrite" /\ disk' = disk
    BY <1>6 DEF OpenReadOnly, OpenRefused, Kill, Ended
  <2>2. pc' = "idle"
    BY <1>3, <1>6 DEF OpenReadOnly, OpenRefused, Kill, Ended
  <2> QED BY <1>5, <2>1, <2>2
<1>7. ASSUME NEW newonly \in BOOLEAN, OpenReadWrite(newonly)
      PROVE  DiskOnce' /\ WriterOnce' /\ PendingNew'
  BY <1>7, OpenOnce
<1>8. CASE Close
  <2>1. CASE pc' = "closing" /\ UNCHANGED <<disk, mode, pending, writer, lookup, fails>>
    BY <2>1, SameOnce DEF PendingNew, writer
  <2>2. CASE Ended("closed") /\ UNCHANGED <<disk, fails>>
    BY <1>5, <2>2 DEF Ended
  <2> QED BY <1>8, <2>1, <2>2 DEF Close
<1>9. CASE FlushNothing
  <2>1. CASE Continue /\ UNCHANGED <<disk, tocOffset, buffer, fileSize, fails>>
    <3>1. PendingNew'
      BY <2>1 DEF Continue, OnceInv, PendingNew
    <3> QED BY <2>1, <3>1, SameOnce DEF Continue
  <2>2. CASE Ended("closed") /\ UNCHANGED <<disk, fails>>
    BY <1>5, <2>2 DEF Ended
  <2> QED BY <1>9, <2>1, <2>2 DEF FlushNothing
<1>10. CASE FlushWrites
  <2>1. mode = "readwrite" /\ Write(Flushed)
    BY <1>3, <1>10 DEF FlushWrites
  <2>2. CASE Continue /\ buffer' = <<>>
    <3>1. mode' = mode /\ chunks' = chunks /\ Len(buffer') = 0
      BY <2>2 DEF Continue
    <3>2. PendingNew'
      BY <2>2 DEF Continue, OnceInv, PendingNew
    <3> QED BY <2>1, <3>1, <3>2, FlushOnce, SameChunksOnce
  <2>3. CASE Ended("closed")
    BY <1>4, <2>1, <2>3, FlushOnce DEF Ended
  <2> QED BY <1>10, <2>2, <2>3 DEF FlushWrites
<1>11. CASE TornWrite
  <2>1. mode = "readwrite" /\ PartialWrite
    BY <1>3, <1>11 DEF TornWrite
  <2> QED BY <1>4, <1>11, <2>1, PartialOnce DEF TornWrite, Ended
<1>12. CASE FlushFails
  <2>1. mode = "readwrite" /\ PartialWrite
    BY <1>3, <1>12 DEF FlushFails
  <2>2. CASE Ended("refused") \/ Ended("closed")
    BY <1>4, <2>1, <2>2, PartialOnce DEF Ended
  <2> QED BY <1>12, <2>1, <2>2, FailOnce DEF FlushFails
<1>13. ASSUME NEW c \in Chunk, Add(c) PROVE DiskOnce' /\ WriterOnce' /\ PendingNew'
  <2>1. PendingNew'
    BY <1>13 DEF Add, PendingNew
  <2> QED BY <1>13, <2>1, SameOnce DEF Add, writer
<1>14. CASE CreatePart
  <2>1. DiskOnce' /\ Last' = Last + 1 /\ Last \in Nat /\ disk'[Last + 1] = <<>>
    BY <1>14, NewTable DEF CreatePart
  <2>2. chunks' = <<>> /\ Len(buffer') = 0
    BY <1>14 DEF CreatePart
  <2>3. disk'[Last'] = <<>>
    BY <2>1
  <2>4. Once(chunks') /\ OwnTable(Table(disk[Last]))' /\ IdsIn(chunks') = {}
    BY <2>2, <2>3, NoTable DEF OwnTable
  <2>5. WriterOnce'
    BY <2>2, <2>4 DEF WriterOnce
  <2>6. PendingNew'
    BY <1>14 DEF CreatePart, OnceInv, PendingNew
  <2> QED BY <2>1, <2>5, <2>6
<1>15. CASE AppendChunk
  BY <1>15, AppendOnce
<1>16. CASE UNCHANGED vars
  <2>1. PendingNew'
    BY <1>16 DEF vars, OnceInv, PendingNew
  <2> QED BY <1>16, <2>1, SameOnce DEF vars, writer
<1> QED
  BY <1>6, <1>7, <1>8, <1>9, <1>10, <1>11, <1>12, <1>13, <1>14, <1>15, <1>16 DEF Next

\* No chunk is stored twice, whatever fails and however the process ends.
THEOREM EachChunkOnce == Spec => []StoredOnce
<1>1. OnceInv => StoredOnce
  <2> SUFFICES ASSUME OnceInv,
                      NEW p \in 1 .. Last, Accepts(disk[p]),
                      NEW q \in 1 .. Last, Accepts(disk[q]),
                      NEW i \in DOMAIN Chunks(disk[p]), NEW j \in DOMAIN Chunks(disk[q]),
                      Chunks(disk[p])[i] = Chunks(disk[q])[j]
               PROVE  p = q /\ i = j
    BY DEF StoredOnce
  <2>1. disk[p] \in Seq(Cell) /\ disk[q] \in Seq(Cell)
    BY DEF OnceInv, WriterInv, ReadInv, TypeInv, TypeOK, Last
  <2>2. Table(disk[p]) = Chunks(disk[p]) /\ Table(disk[q]) = Chunks(disk[q])
    BY <2>1, AcceptedTable
  <2>3. p = q
    BY <2>2 DEF OnceInv, DiskOnce, IdsIn
  <2>4. Chunks(disk[p]) \in Seq(Chunk)
    BY <2>1, AcceptsLayout
  <2>5. i \in 1 .. Len(Chunks(disk[p])) /\ j \in 1 .. Len(Chunks(disk[p]))
    BY <2>3, <2>4
  <2> QED BY <2>2, <2>3, <2>5 DEF OnceInv, DiskOnce, Once
<1> QED BY <1>1, InitOnce, NextOnce, PTL DEF Spec

-----------------------------------------------------------------------------
(***************************************************************************)
(* What a reader finds as long as no write failed and left the process     *)
(* running, whatever else happens to it.                                   *)
(***************************************************************************)

\* The data of a bundle lies where its table of contents says, and nothing more
\* comes before the table.
PartRight(file) ==
    Accepts(file) =>
        /\ Whole(Chunks(file)) = TocOffset(file)
        /\ \A c \in Ids(file) : HoldsAt(file, OffsetOf(file, c), c)

LookupRight == \A c \in DOMAIN lookup : lookup[c].part <= Last /\ ReadsBack(c)

\* The lookup has the chunks of the part that is written where its table of
\* contents will have them.
Placed ==
    mode = "readwrite" =>
        /\ Whole(chunks) = tocOffset + Len(buffer)
        /\ \A n \in 1 .. Len(chunks) :
              /\ lookup[chunks[n]].part = Last
              /\ lookup[chunks[n]].offset = Offsets(chunks)[n - 1]

\* The part that is written is empty or a bundle until the next flush, and the
\* buffer has nothing but data.
Unflushed ==
    mode = "readwrite" =>
        /\ disk[Last] = <<>> \/ Accepts(disk[Last])
        /\ tocOffset = TocOffset(disk[Last])
        /\ \A k \in 1 .. Len(buffer) : buffer[k].kind = "data"

NowRight == (\A p \in 1 .. Last : PartRight(disk[p])) /\ LookupRight /\ Placed /\ Unflushed

ReadOnlyInv == mode = "readonly" => ReadableParts(disk) /\ DOMAIN lookup = AllIds(disk)

RightInv == OnceInv /\ ReadOnlyInv /\ (fails = 0 => NowRight)

-----------------------------------------------------------------------------
(***************************************************************************)
(* Writes                                                                  *)
(***************************************************************************)

LEMMA NoPart == ~Accepts(<<>>) /\ PartRight(<<>>)
BY DEF Accepts, PartRight

\* What the invariant says of the writer's variables.
LEMMA RightFacts ==
    ASSUME RightInv, mode = "readwrite"
    PROVE  /\ OnceInv /\ WriterInv /\ ReadInv /\ TypeInv /\ TypeOK
           /\ disk \in Seq(Seq(Cell)) /\ Last \in Nat \ {0} /\ DOMAIN disk = 1 .. Last
           /\ tocOffset \in Nat /\ tocOffset <= Len(disk[Last])
           /\ disk[Last] \in Seq(Cell) /\ Len(disk[Last]) \in Nat
           /\ buffer \in Seq(Cell) /\ Len(buffer) \in Nat
           /\ chunks \in Seq(Chunk) /\ Len(chunks) \in Nat
<1>1. OnceInv /\ WriterInv /\ ReadInv /\ TypeInv /\ TypeOK
  BY DEF RightInv, OnceInv, WriterInv, ReadInv, TypeInv
<1>2. chunks \in Seq(Chunk)
  BY <1>1 DEF TypeOK
<1>3. Len(chunks) \in Nat
  BY <1>2
<1> QED BY <1>1, <1>2, <1>3, WriterFacts

LEMMA OverwriteNothing ==
    ASSUME NEW file \in Seq(Cell), NEW offset \in Nat, offset <= Len(file)
    PROVE  Overwrite(file, offset, <<>>) = file
<1> DEFINE f == Overwrite(file, offset, <<>>)
<1>1. <<>> \in Seq(Cell) /\ Len(<<>>) = 0 /\ Len(file) \in Nat
  OBVIOUS
<1>2. f \in Seq(Cell)
  BY <1>1, OverwriteType
<1>3. f = [i \in 1 .. Len(file) |-> file[i]]
  BY <1>1 DEF Overwrite
<1> HIDE DEF f
<1>4. Len(f) = Len(file) /\ \A i \in 1 .. Len(file) : f[i] = file[i]
  BY <1>1, <1>3
<1>5. f = file
  BY <1>1, <1>2, <1>4
<1> QED BY <1>5 DEF f

\* A write that was cut short leaves a bundle only if it wrote nothing.
LEMMA PartialAccepted ==
    ASSUME RightInv, Unflushed, mode = "readwrite", ~NothingToFlush, PartialWrite,
           Accepts(disk'[Last])
    PROVE  disk' = disk
<1> DEFINE file == disk[Last]
           f == disk'[Last]
<1>1. /\ ReadInv /\ TypeInv /\ TypeOK /\ disk \in Seq(Seq(Cell)) /\ Last \in Nat \ {0}
      /\ DOMAIN disk = 1 .. Last
      /\ file \in Seq(Cell) /\ Len(file) \in Nat /\ tocOffset \in Nat /\ tocOffset <= Len(file)
      /\ Len(buffer) \in Nat /\ Len(chunks) \in Nat
  BY RightFacts
<1>2. /\ Flushed \in Seq(Cell) /\ Len(Flushed) = Len(buffer) + Len(chunks) + 1
      /\ \A k \in 1 .. Len(buffer) : Flushed[k] = buffer[k]
      /\ \A k \in 1 .. Len(chunks) : Flushed[Len(buffer) + k] = [kind |-> "entry", id |-> chunks[k]]
  BY <1>1, FlushedCells
<1>3. PICK j \in 0 .. Len(Flushed) - 1, torn \in BOOLEAN : Write(CutShort(Flushed, j, torn))
  BY DEF PartialWrite
<1> DEFINE cells == CutShort(Flushed, j, torn)
<1>4. cells \in Seq(Cell)
  BY <1>2, CutShortType
<1>5. f = Overwrite(file, tocOffset, cells) /\ disk' = [disk EXCEPT ![Last] = f]
  <2>1. disk' = [disk EXCEPT ![Last] = Overwrite(file, tocOffset, cells)]
    BY <1>3 DEF Write
  <2>2. f = Overwrite(file, tocOffset, cells)
    BY <1>1, <2>1
  <2> QED BY <2>1, <2>2
<1>6. /\ Len(cells) = (IF torn THEN j + 1 ELSE j)
      /\ \A i \in 1 .. Len(cells) : cells[i] = IF i <= j THEN Flushed[i] ELSE TornCell
      /\ j \in Nat /\ j <= Len(buffer) + Len(chunks)
  <2>1. j \in Nat /\ j <= Len(buffer) + Len(chunks)
    BY <1>1, <1>2
  <2> QED BY <2>1 DEF CutShort
<1>7. f \in Seq(Cell) /\ f # <<>> /\ f[Len(f)].kind = "footer"
      /\ \A i \in 1 .. EntryCount(f) : f[TocOffset(f) + i] = Toc(f[Len(f)].toc)[i]
  <2>1. f \in Seq(Cell)
    BY <1>1, <1>4, <1>5, OverwriteType
  <2> QED BY <2>1 DEF Accepts
<1>8. \A k \in 1 .. Len(buffer) : buffer[k].kind = "data"
  BY DEF Unflushed
<1>9. \A i \in 1 .. Len(buffer) + Len(chunks) : Flushed[i].kind \in {"data", "entry"}
  <2> SUFFICES ASSUME NEW i \in 1 .. Len(buffer) + Len(chunks)
               PROVE  Flushed[i].kind \in {"data", "entry"}
    OBVIOUS
  <2>1. CASE i \in 1 .. Len(buffer)
    BY <1>2, <1>8, <2>1
  <2>2. CASE i \notin 1 .. Len(buffer)
    <3> DEFINE k == i - Len(buffer)
    <3>1. k \in 1 .. Len(chunks) /\ Len(buffer) + k = i
      BY <1>1, <2>2
    <3> HIDE DEF k
    <3>2. Flushed[i] = [kind |-> "entry", id |-> chunks[k]]
      BY <1>2, <3>1
    <3>3. Flushed[i].kind = "entry"
      BY ONLY <3>2
    <3> QED BY <3>3
  <2> QED BY <2>1, <2>2
<1> HIDE DEF cells, file, f
<1>10. \A i \in 1 .. Len(cells) : cells[i].kind \in {"data", "entry", "torn"}
  <2> SUFFICES ASSUME NEW i \in 1 .. Len(cells)
               PROVE  cells[i].kind \in {"data", "entry", "torn"}
    OBVIOUS
  <2>1. CASE i <= j
    <3>1. i \in 1 .. Len(buffer) + Len(chunks)
      BY <1>1, <1>6, <2>1
    <3> QED BY <1>6, <1>9, <2>1, <3>1
  <2>2. CASE ~(i <= j)
    BY <1>6, <2>2 DEF TornCell
  <2> QED BY <2>1, <2>2
<1>11. f = file
  <2>1. CASE cells = <<>>
    BY <1>1, <1>5, <2>1, OverwriteNothing
  <2>2. CASE cells # <<>> /\ f[Len(f)] = cells[Len(cells)]
    <3>1. Len(cells) \in 1 .. Len(cells)
      BY <1>4, <2>2
    <3> QED BY <1>7, <1>10, <2>2, <3>1
  <2>3. CASE /\ cells # <<>> /\ Len(f) = Len(file) /\ Len(file) > tocOffset + Len(cells)
             /\ f[Len(f)] = file[Len(file)] /\ file # <<>>
    <3> DEFINE table == Chunks(file)
    <3>1. Accepts(file) /\ tocOffset = TocOffset(file)
      BY <2>3 DEF Unflushed, file
    <3>2. /\ table \in Seq(Chunk) /\ Len(table) \in Nat
          /\ Len(file) = tocOffset + Len(table) + 1 /\ Whole(table) <= tocOffset
          /\ file[Len(file)].toc = table
      <4>1. file[Len(file)] = FooterCell(table)
        BY <1>1, <3>1, AcceptedPart
      <4>2. file[Len(file)].toc = table
        BY <4>1 DEF FooterCell
      <4> QED BY <1>1, <3>1, <4>2, AcceptedPart
    <3> HIDE DEF table
    <3>3. EntryCount(f) = Len(table) /\ TocOffset(f) = tocOffset
      <4>1. EntryCount(f) = Len(table)
        BY <1>7, <2>3, <3>2 DEF EntryCount
      <4> QED BY <1>1, <1>7, <2>3, <3>2, <4>1 DEF TocOffset
    <3>4. Len(cells) \in Nat /\ 1 \in 1 .. Len(cells)
      BY <1>4, <2>3
    <3>5. 1 \in 1 .. Len(table)
      BY <1>1, <2>3, <3>2, <3>4
    <3>6. f[tocOffset + 1] = [kind |-> "entry", id |-> table[1]]
      <4>1. DOMAIN table = 1 .. Len(table)
        BY <3>2
      <4>2. Toc(table)[1] = [kind |-> "entry", id |-> table[1]]
        BY <3>5, <4>1 DEF Toc
      <4>3. f[tocOffset + 1] = Toc(table)[1]
        BY <1>7, <2>3, <3>2, <3>3, <3>5
      <4> QED BY <4>2, <4>3
    <3>7. f[tocOffset + 1] = cells[1]
      BY <1>1, <1>4, <1>5, <3>4, OverwriteCells
    <3>8. cells[1].kind = "entry"
      <4>1. cells[1] = [kind |-> "entry", id |-> table[1]]
        BY <3>6, <3>7
      <4> QED BY ONLY <4>1
    <3>9. 1 <= j
      BY <1>6, <3>4, <3>8 DEF TornCell
    <3>10. cells[1] = Flushed[1]
      BY <1>6, <3>4, <3>9
    <3>11. CASE Len(buffer) > 0
      <4>1. 1 \in 1 .. Len(buffer)
        BY <1>1, <3>11
      <4> QED BY <1>2, <1>8, <3>8, <3>10, <4>1
    <3>12. CASE Len(buffer) = 0
      <4>1. buffer = <<>>
        BY <1>1, <3>12 DEF TypeOK
      <4>2. tocOffset = 0
        BY <4>1 DEF NothingToFlush
      <4>3. table # <<>>
        BY <3>2, <3>5
      <4> QED BY <3>2, <4>2, <4>3, WholePositive, OffsetFacts
    <3> QED BY <1>1, <3>11, <3>12
  <2> QED BY <1>1, <1>4, <1>5, <2>1, <2>2, <2>3, OverwriteEnd
<1>12. [disk EXCEPT ![Last] = file] = disk
  BY <1>1 DEF file
<1> QED BY <1>5, <1>11, <1>12

\* A part that a write was cut short at is right, being refused or as it was.
LEMMA PartialRight ==
    ASSUME RightInv, NowRight, mode = "readwrite", ~NothingToFlush, PartialWrite
    PROVE  /\ Last' = Last
           /\ \A p \in 1 .. Last : PartRight(disk'[p])
<1>1. /\ Len(disk') = Last /\ Last' = Last /\ \A p \in 1 .. Last - 1 : disk'[p] = disk[p]
  BY PartialOnce DEF RightInv
<1>2. Last \in Nat \ {0}
  BY RightFacts
<1>3. PartRight(disk'[Last])
  <2>1. CASE Accepts(disk'[Last])
    <3>1. disk' = disk
      BY <2>1, PartialAccepted DEF NowRight
    <3>2. Last \in 1 .. Last
      BY <1>2
    <3> QED BY <3>1, <3>2 DEF NowRight
  <2>2. CASE ~Accepts(disk'[Last])
    BY <2>2 DEF PartRight
  <2> QED BY <2>1, <2>2
<1>4. \A p \in 1 .. Last : p \in 1 .. Last - 1 \/ p = Last
  BY <1>2
<1> QED BY <1>1, <1>3, <1>4 DEF NowRight

\* A flush leaves a bundle that has every chunk where the lookup has it.
LEMMA FlushRight ==
    ASSUME RightInv, NowRight, mode = "readwrite", Write(Flushed)
    PROVE  /\ Last' = Last
           /\ \A p \in 1 .. Last - 1 : disk'[p] = disk[p]
           /\ \A p \in 1 .. Last : PartRight(disk'[p])
           /\ Accepts(disk'[Last]) /\ Chunks(disk'[Last]) = chunks
           /\ TocOffset(disk'[Last]) = tocOffset + Len(buffer)
           /\ Len(disk'[Last]) = tocOffset + Len(buffer) + Len(chunks) + 1
<1> DEFINE f == disk'[Last]
<1>1. /\ Len(disk') = Last /\ Last' = Last /\ \A p \in 1 .. Last - 1 : disk'[p] = disk[p]
  BY FlushOnce DEF RightInv
<1>2. Last \in Nat \ {0} /\ OnceInv /\ WriterInv /\ ReadInv /\ chunks \in Seq(Chunk)
  BY RightFacts
<1>3. /\ f \in Seq(Cell) /\ Accepts(f) /\ Chunks(f) = chunks
      /\ TocOffset(f) = tocOffset + Len(buffer)
      /\ Len(f) = tocOffset + Len(buffer) + Len(chunks) + 1
  BY <1>2, FlushAccepted DEF WriterInv, FlushCovers
<1>4. Whole(Chunks(f)) = TocOffset(f)
  BY <1>3 DEF NowRight, Placed
<1>5. ASSUME NEW c \in Ids(f) PROVE HoldsAt(f, OffsetOf(f, c), c)
  <2> HIDE DEF f
  <2>1. PICK n \in 1 .. Len(chunks) :
            chunks[n] = c /\ OffsetOf(f, c) = Offsets(chunks)[n - 1]
    BY <1>3, OffsetOfEntry
  <2>2. lookup[c].part = Last /\ lookup[c].offset = OffsetOf(f, c)
    BY <2>1 DEF NowRight, Placed
  <2>3. n \in DOMAIN chunks
    BY <1>2
  <2>4. c \in DOMAIN lookup
    BY <1>2, <2>1, <2>3 DEF WriterInv, LookupComplete, IdsIn
  <2>5. HoldsAt(disk'[lookup[c].part], lookup[c].offset, c)
    BY <1>2, <2>4, FlushHolds DEF NowRight, LookupRight
  <2> QED BY <2>2, <2>5 DEF f
<1>6. PartRight(f)
  BY <1>4, <1>5 DEF PartRight
<1>7. \A p \in 1 .. Last : p \in 1 .. Last - 1 \/ p = Last
  BY <1>2
<1>8. \A p \in 1 .. Last : PartRight(disk'[p])
  BY <1>1, <1>6, <1>7 DEF NowRight
<1> QED BY <1>1, <1>3, <1>8

-----------------------------------------------------------------------------
(***************************************************************************)
(* Opening                                                                 *)
(***************************************************************************)

\* What opening the cache puts in the lookup is right, if the parts are.
LEMMA LookupReads ==
    ASSUME NEW parts \in Seq(Seq(Cell)),
           \A p \in 1 .. Len(parts) : parts[p] = <<>> \/ Accepts(parts[p]),
           \A p \in 1 .. Len(parts) : PartRight(parts[p]),
           NEW c \in AllIds(parts)
    PROVE  /\ Lookup(parts)[c].part \in 1 .. Len(parts)
           /\ HoldsAt(parts[Lookup(parts)[c].part], Lookup(parts)[c].offset, c)
<1> DEFINE e == Lookup(parts)[c]
<1>1. /\ e.part \in 1 .. Len(parts) /\ c \in Ids(parts[e.part])
      /\ e.offset = OffsetOf(parts[e.part], c) /\ Accepts(parts[e.part])
  BY LookupEntry
<1> HIDE DEF e
<1>2. HoldsAt(parts[e.part], e.offset, c)
  BY <1>1 DEF PartRight
<1> QED BY <1>1, <1>2 DEF e

LEMMA OpenReadRight ==
    ASSUME RightInv, OpenReadOnly
    PROVE  ReadOnlyInv' /\ (fails = 0 => NowRight')
<1>1. /\ disk \in Seq(Seq(Cell)) /\ Last = Len(disk) /\ DOMAIN disk = 1 .. Last
      /\ \A p \in 1 .. Len(disk) : Accepts(disk[p])
  BY DEF RightInv, OnceInv, WriterInv, ReadInv, TypeInv, TypeOK, Last, OpenReadOnly, ReadableParts
<1>2. /\ disk' = disk /\ Last' = Last /\ mode' = "readonly" /\ lookup' = Lookup(disk)
      /\ DOMAIN lookup' = AllIds(disk)
  BY DEF OpenReadOnly, Last, Lookup
<1>3. ReadOnlyInv'
  BY <1>2 DEF ReadOnlyInv, OpenReadOnly
<1>4. ASSUME fails = 0 PROVE NowRight'
  <2>1. \A p \in 1 .. Last : PartRight(disk[p])
    BY <1>4 DEF RightInv, NowRight
  <2>2. LookupRight'
    <3> SUFFICES ASSUME NEW c \in AllIds(disk)
                 PROVE  lookup'[c].part <= Last /\ ReadsBack(c)'
      BY <1>2 DEF LookupRight
    <3>1. lookup'[c].part \in 1 .. Last /\ HoldsAt(disk[lookup'[c].part], lookup'[c].offset, c)
      BY <1>1, <1>2, <2>1, LookupReads
    <3>2. lookup'[c].part <= Last
      BY <1>1, <3>1
    <3> QED BY <1>2, <3>1, <3>2 DEF ReadsBack
  <2> QED BY <1>2, <2>1, <2>2 DEF NowRight, Placed, Unflushed
<1> QED BY <1>3, <1>4

LEMMA OpenWriteRight ==
    ASSUME RightInv, NowRight, ReadInv', NEW newonly \in BOOLEAN, OpenReadWrite(newonly)
    PROVE  NowRight'
<1> DEFINE file == IF Reuses(newonly) THEN disk[Last] ELSE <<>>
<1>1. disk \in Seq(Seq(Cell)) /\ Last \in Nat /\ DOMAIN disk = 1 .. Last /\ Last = Len(disk)
  BY DEF RightInv, OnceInv, WriterInv, ReadInv, TypeInv, TypeOK, Last
<1>2. /\ mode' = "readwrite" /\ LoadWriter(file) /\ WritableParts(newonly)
      /\ lookup' = Lookup(disk) /\ DOMAIN lookup' = AllIds(disk)
      /\ disk' = IF Reuses(newonly) THEN disk ELSE Append(disk, <<>>)
  BY DEF OpenReadWrite, Lookup
<1>3. /\ Last' \in Nat \ {0} /\ Last <= Last' /\ disk'[Last'] = file
      /\ \A p \in 1 .. Last : disk'[p] = disk[p]
      /\ \A p \in 1 .. Last' : p \in 1 .. Last \/ disk'[p] = <<>>
      /\ file = <<>> \/ Last' = Last
  <2>1. CASE Reuses(newonly)
    <3>1. disk' = disk /\ Last' = Last /\ Last > 0
      BY <1>2, <2>1 DEF Reuses, Last
    <3> QED BY <1>1, <2>1, <3>1
  <2>2. CASE ~Reuses(newonly)
    <3>1. disk' = Append(disk, <<>>) /\ file = <<>>
      BY <1>2, <2>2
    <3>2. /\ Last' = Last + 1 /\ disk'[Last + 1] = <<>>
          /\ \A p \in 1 .. Last : disk'[p] = disk[p]
      BY <1>1, <3>1 DEF Last
    <3>3. \A p \in 1 .. Last + 1 : p \in 1 .. Last \/ p = Last + 1
      BY <1>1
    <3>4. Last + 1 \in Nat \ {0} /\ Last <= Last + 1
      BY <1>1
    <3> QED BY <3>1, <3>2, <3>3, <3>4
  <2> QED BY <2>1, <2>2
<1>4. \A p \in 1 .. Len(disk) : disk[p] = <<>> \/ Accepts(disk[p])
  <2>1. CASE Reuses(newonly)
    <3>1. \A p \in 1 .. Last - 1 : Accepts(disk[p])
      BY <1>2, <2>1 DEF WritableParts, MappedParts
    <3>2. disk[Last] = <<>> \/ Accepts(disk[Last])
      BY <1>2, <2>1 DEF WritableParts
    <3>3. Last \in Nat
      BY <1>1
    <3>4. \A p \in 1 .. Last : p \in 1 .. Last - 1 \/ p = Last
      BY <3>3
    <3> QED BY <1>1, <3>1, <3>2, <3>4
  <2>2. CASE ~Reuses(newonly)
    BY <1>1, <1>2, <2>2 DEF WritableParts, MappedParts
  <2> QED BY <2>1, <2>2
<1>5. \A p \in 1 .. Last : PartRight(disk[p])
  BY DEF NowRight
<1>6. file \in Seq(Cell) /\ (file = <<>> \/ Accepts(file)) /\ PartRight(file)
  <2>1. CASE Reuses(newonly)
    <3>1. Last \in 1 .. Last
      BY <1>1, <2>1 DEF Reuses
    <3> QED BY <1>1, <1>4, <1>5, <2>1, <3>1
  <2>2. CASE ~Reuses(newonly)
    BY <2>2, NoPart
  <2> QED BY <2>1, <2>2
<1>7. file # <<>> => Last > 0 /\ file = disk[Last]
  BY DEF Reuses
<1> HIDE DEF file
<1>8. tocOffset' = TocOffset(file) /\ chunks' = Chunks(file) /\ buffer' = <<>>
  BY <1>2 DEF LoadWriter
<1>9. LookupRight'
  <2> SUFFICES ASSUME NEW c \in AllIds(disk)
               PROVE  lookup'[c].part <= Last' /\ ReadsBack(c)'
    BY <1>2 DEF LookupRight
  <2> DEFINE p == lookup'[c].part
             o == lookup'[c].offset
  <2>1. p \in 1 .. Last /\ HoldsAt(disk[p], o, c)
    BY <1>1, <1>2, <1>4, <1>5, LookupReads
  <2>2. p = Last' => IF o < tocOffset' THEN o + Size[c] <= tocOffset'
                     ELSE o + Size[c] <= tocOffset' + Len(buffer')
    BY <1>2 DEF ReadInv, NoStraddle
  <2>3. Size[c] \in Nat \ {0} /\ o \in Nat /\ tocOffset' \in Nat /\ Len(buffer') = 0
    <3>1. AllIds(disk) \subseteq Chunk /\ Lookup(disk) \in [AllIds(disk) -> Entry]
      BY <1>1, <1>4, LookupType
    <3>2. lookup'[c] \in Entry /\ c \in Chunk
      BY <1>2, <3>1
    <3>3. o \in Nat
      BY <3>2 DEF Entry
    <3>4. tocOffset' \in Nat
      BY DEF ReadInv, TypeInv, TypeOK
    <3> QED BY <1>8, <3>2, <3>3, <3>4, SizeAssumption
  <2> HIDE DEF p, o
  <2>4. ~(p = Last' /\ o >= tocOffset')
    BY <2>2, <2>3
  <2>5. p <= Last' /\ disk'[p] = disk[p]
    BY <1>1, <1>3, <2>1
  <2> QED BY <2>1, <2>4, <2>5 DEF ReadsBack, p, o
<1>10. Placed'
  <2>1. Whole(chunks') = tocOffset' + Len(buffer')
    <3>1. Whole(Chunks(file)) = TocOffset(file)
      <4>1. CASE file = <<>>
        BY <4>1, EmptyLayout, WholeOfNone
      <4>2. CASE Accepts(file)
        BY <1>6, <4>2 DEF PartRight
      <4> QED BY <1>6, <4>1, <4>2
    <3>2. TocOffset(file) \in Nat /\ Len(buffer') = 0
      BY <1>6, <1>8, EmptyLayout, AcceptedPart
    <3> QED BY <1>8, <3>1, <3>2
  <2>2. ASSUME NEW n \in 1 .. Len(chunks')
        PROVE  /\ lookup'[chunks'[n]].part = Last'
               /\ lookup'[chunks'[n]].offset = Offsets(chunks')[n - 1]
    <3> DEFINE c == chunks'[n]
    <3>1. file # <<>> /\ Accepts(file)
      <4>1. Len(<<>>) = 0 /\ 1 .. 0 = {}
        OBVIOUS
      <4>2. file # <<>>
        BY <1>8, <4>1, EmptyLayout
      <4> QED BY <1>6, <4>2
    <3>2. Last > 0 /\ file = disk[Last] /\ Last' = Last /\ Last \in 1 .. Last
      BY <1>1, <1>3, <1>7, <3>1
    <3>3. c \in Ids(file)
      <4>1. chunks' \in Seq(Chunk) /\ chunks' = Chunks(file)
        BY <1>6, <1>8, <3>1, AcceptedPart
      <4>2. n \in DOMAIN Chunks(file)
        BY <4>1
      <4> QED BY <4>1, <4>2 DEF Ids
    <3>4. c \in AllIds(disk)
      BY <1>1, <3>2, <3>3 DEF AllIds
    <3> DEFINE e == Lookup(disk)[c]
    <3>5. /\ e.part \in 1 .. Last /\ c \in Ids(disk[e.part])
          /\ e.offset = OffsetOf(disk[e.part], c) /\ Accepts(disk[e.part])
      BY <1>1, <1>4, <3>4, LookupEntry
    <3> HIDE DEF e, c
    <3>6. e.part = Last
      <4>1. disk[e.part] \in Seq(Cell)
        BY <1>1, <3>5
      <4>2. c \in IdsIn(Table(disk[e.part])) /\ c \in IdsIn(Table(disk[Last]))
        BY <1>6, <3>1, <3>2, <3>3, <3>5, <4>1, AcceptedTable
      <4> QED BY <3>2, <3>5, <4>2 DEF RightInv, OnceInv, DiskOnce
    <3>7. PICK m \in 1 .. Len(Chunks(file)) :
              Chunks(file)[m] = c /\ OffsetOf(file, c) = Offsets(Chunks(file))[m - 1]
      BY <1>6, <3>1, <3>3, OffsetOfEntry
    <3>8. m = n
      <4>1. Once(Chunks(file))
        BY <1>6, <3>1, <3>2, AcceptedTable DEF RightInv, OnceInv, DiskOnce
      <4>2. Chunks(file)[n] = c /\ n \in 1 .. Len(Chunks(file))
        BY <1>8 DEF c
      <4> QED BY <3>7, <4>1, <4>2 DEF Once
    <3>9. e.part = Last' /\ e.offset = Offsets(chunks')[n - 1]
      BY <1>8, <3>2, <3>5, <3>6, <3>7, <3>8
    <3> QED BY <1>2, <3>9 DEF e, c
  <2> QED BY <2>1, <2>2 DEF Placed
<1>11. Unflushed'
  <2>1. 1 .. Len(buffer') = {}
    BY <1>8
  <2> QED BY <1>3, <1>6, <1>8, <2>1 DEF Unflushed
<1>12. \A p \in 1 .. Last' : PartRight(disk'[p])
  BY <1>3, <1>5, NoPart
<1> QED BY <1>9, <1>10, <1>11, <1>12 DEF NowRight

-----------------------------------------------------------------------------
(***************************************************************************)
(* The steps of a process that has the cache open for writing              *)
(***************************************************************************)

LEMMA NotWritingRight ==
    ASSUME RightInv, mode' \notin {"readonly", "readwrite"}, lookup' = NoLookup,
           \A p \in 1 .. Last' : PartRight(disk'[p])
    PROVE  NowRight'
BY DEF NowRight, LookupRight, NoLookup, Placed, Unflushed

\* The reads of a process that goes on writing stay right.
LEMMA ReadsRight ==
    ASSUME RightInv, NowRight, [Next]_vars, mode = "readwrite", mode' = "readwrite"
    PROVE  LookupRight'
<1>1. ReadInv' /\ ReadsOn
  BY NextReadInv DEF RightInv, OnceInv, WriterInv
<1>2. \A c \in DOMAIN lookup' : lookup'[c].part <= Last'
  BY <1>1 DEF ReadInv, NoStraddle
<1> QED BY <1>1, <1>2 DEF NowRight, LookupRight, ReadsOn

\* A step that changes nothing of the writer but pc.
LEMMA SameRight ==
    ASSUME RightInv, NowRight, UNCHANGED <<disk, mode, tocOffset, chunks, buffer, lookup>>
    PROVE  NowRight'
BY DEF NowRight, LookupRight, ReadsBack, Placed, Unflushed, Last

LEMMA FlushContinues ==
    ASSUME RightInv, NowRight, [Next]_vars, mode = "readwrite", mode' = "readwrite",
           Write(Flushed), tocOffset' = tocOffset + Len(buffer), buffer' = <<>>,
           UNCHANGED <<chunks, lookup>>
    PROVE  NowRight'
<1>1. /\ Last' = Last
      /\ \A p \in 1 .. Last : PartRight(disk'[p])
      /\ Accepts(disk'[Last]) /\ TocOffset(disk'[Last]) = tocOffset + Len(buffer)
  BY FlushRight
<1>2. tocOffset + Len(buffer) \in Nat
  BY RightFacts
<1>3. Len(buffer') = 0 /\ 1 .. Len(buffer') = {}
  OBVIOUS
<1>4. LookupRight'
  BY ReadsRight
<1>5. Placed'
  <2>1. Whole(chunks) = tocOffset + Len(buffer)
        /\ \A n \in 1 .. Len(chunks) :
              /\ lookup[chunks[n]].part = Last
              /\ lookup[chunks[n]].offset = Offsets(chunks)[n - 1]
    BY DEF NowRight, Placed
  <2>2. tocOffset' + Len(buffer') = tocOffset + Len(buffer)
    BY <1>2, <1>3
  <2> QED BY <1>1, <2>1, <2>2 DEF Placed
<1>6. Unflushed'
  BY <1>1, <1>3 DEF Unflushed
<1> QED BY <1>1, <1>4, <1>5, <1>6 DEF NowRight

LEMMA CreateRight ==
    ASSUME RightInv, NowRight, [Next]_vars, CreatePart
    PROVE  NowRight'
<1>1. mode = "readwrite" /\ mode' = "readwrite"
  BY DEF CreatePart, RightInv, OnceInv, WriterInv, ReadInv, TypeInv, WriterInPart
<1>2. disk' = Append(disk, <<>>) /\ tocOffset' = 0 /\ chunks' = <<>> /\ buffer' = <<>>
  BY DEF CreatePart
<1>3. /\ Last' = Last + 1 /\ disk'[Last + 1] = <<>> /\ Last \in Nat
      /\ \A p \in 1 .. Last : disk'[p] = disk[p]
  BY <1>2, NewTable DEF RightInv
<1>4. \A p \in 1 .. Last' : p \in 1 .. Last \/ p = Last + 1
  BY <1>3
<1>5. \A p \in 1 .. Last' : PartRight(disk'[p])
  BY <1>3, <1>4, NoPart DEF NowRight
<1>6. Len(buffer') = 0 /\ 1 .. 0 = {} /\ Len(chunks') = 0
  BY <1>2
<1>7. Placed'
  BY <1>2, <1>6, WholeOfNone DEF Placed
<1>8. Unflushed'
  <2>1. disk'[Last'] = <<>>
    BY <1>3
  <2> QED BY <1>2, <1>6, <2>1, EmptyLayout DEF Unflushed
<1> QED BY <1>1, <1>5, <1>7, <1>8, ReadsRight DEF NowRight

LEMMA AppendRight ==
    ASSUME RightInv, NowRight, [Next]_vars, AppendChunk
    PROVE  NowRight'
<1>1. /\ mode = "readwrite" /\ pending \in Chunk /\ Size[pending] \in Nat \ {0}
      /\ pending \notin IdsIn(chunks)
  <2>1. mode = "readwrite" /\ pending \in Chunk
    BY DEF AppendChunk, RightInv, OnceInv, WriterInv, ReadInv, TypeInv, WriterInPart
  <2>2. pending \notin DOMAIN lookup
    BY DEF RightInv, OnceInv, PendingNew, AppendChunk
  <2> QED BY <2>1, <2>2, SizeAssumption DEF RightInv, OnceInv, WriterInv, LookupComplete
<1>2. /\ tocOffset \in Nat /\ buffer \in Seq(Cell) /\ Len(buffer) \in Nat
      /\ chunks \in Seq(Chunk) /\ Len(chunks) \in Nat /\ Last \in Nat
  BY <1>1, RightFacts
<1>3. /\ chunks' = Append(chunks, pending) /\ buffer' = buffer \o Data(pending)
      /\ UNCHANGED <<disk, mode, tocOffset>> /\ Last' = Last
      /\ DOMAIN lookup' = DOMAIN lookup \cup {pending}
      /\ lookup'[pending].part = Last /\ lookup'[pending].offset = tocOffset + Len(buffer)
      /\ \A c \in DOMAIN lookup : c # pending => lookup'[c] = lookup[c]
  BY DEF AppendChunk, Place, Last
<1>4. /\ Len(chunks') = Len(chunks) + 1
      /\ \A n \in 0 .. Len(chunks) : Offsets(chunks')[n] = Offsets(chunks)[n]
      /\ Offsets(chunks')[Len(chunks)] = Whole(chunks)
      /\ Whole(chunks') = Whole(chunks) + Size[pending]
  BY <1>1, <1>2, <1>3, OffsetsOfMore
<1>5. /\ Whole(chunks) = tocOffset + Len(buffer)
      /\ \A n \in 1 .. Len(chunks) :
            /\ lookup[chunks[n]].part = Last
            /\ lookup[chunks[n]].offset = Offsets(chunks)[n - 1]
  BY <1>1 DEF NowRight, Placed
<1>6. /\ Len(buffer') = Len(buffer) + Size[pending]
      /\ \A k \in 1 .. Len(buffer') : buffer'[k].kind = "data"
  <2> DEFINE data == Data(pending)
  <2>1. data \in Seq(Cell) /\ buffer' = buffer \o data /\ Len(data) = Size[pending]
    BY <1>1, <1>3, DataType
  <2>2. \A k \in 1 .. Len(data) : data[k].kind = "data"
    BY <2>1 DEF Data
  <2> HIDE DEF data
  <2>3. /\ Len(buffer') = Len(buffer) + Len(data)
        /\ \A k \in 1 .. Len(buffer) : buffer'[k] = buffer[k]
        /\ \A k \in 1 .. Len(data) : buffer'[Len(buffer) + k] = data[k]
    BY <1>2, <2>1, Concatenated
  <2>4. \A k \in 1 .. Len(buffer) : buffer[k].kind = "data"
    BY <1>1 DEF NowRight, Unflushed
  <2>5. ASSUME NEW k \in 1 .. Len(buffer') PROVE buffer'[k].kind = "data"
    <3>1. CASE k \in 1 .. Len(buffer)
      BY <2>3, <2>4, <3>1
    <3>2. CASE k \notin 1 .. Len(buffer)
      <4> DEFINE m == k - Len(buffer)
      <4>1. m \in 1 .. Len(data) /\ Len(buffer) + m = k
        BY <1>1, <1>2, <2>1, <2>3, <3>2
      <4> HIDE DEF m
      <4> QED BY <2>2, <2>3, <4>1
    <3> QED BY <3>1, <3>2
  <2> QED BY <2>1, <2>3, <2>5
<1>7. Placed'
  <2>1. Whole(chunks') = tocOffset' + Len(buffer')
    BY <1>1, <1>2, <1>3, <1>4, <1>5, <1>6
  <2>2. ASSUME NEW n \in 1 .. Len(chunks')
        PROVE  /\ lookup'[chunks'[n]].part = Last'
               /\ lookup'[chunks'[n]].offset = Offsets(chunks')[n - 1]
    <3>1. CASE n = Len(chunks) + 1
      <4>1. chunks'[n] = pending /\ n - 1 = Len(chunks)
        BY <1>2, <1>3, <3>1
      <4> QED BY <1>3, <1>4, <1>5, <4>1
    <3>2. CASE n # Len(chunks) + 1
      <4>1. n \in 1 .. Len(chunks) /\ n - 1 \in 0 .. Len(chunks)
        BY <1>2, <1>4, <3>2
      <4>2. chunks'[n] = chunks[n] /\ chunks[n] \in IdsIn(chunks)
        BY <1>2, <1>3, <4>1 DEF IdsIn
      <4>3. chunks[n] # pending /\ chunks[n] \in DOMAIN lookup
        BY <1>1, <4>2 DEF RightInv, OnceInv, WriterInv, LookupComplete
      <4> QED BY <1>3, <1>4, <1>5, <4>1, <4>2, <4>3
    <3> QED BY <3>1, <3>2
  <2> QED BY <2>1, <2>2 DEF Placed
<1>8. Unflushed'
  BY <1>1, <1>3, <1>6 DEF NowRight, Unflushed
<1>9. \A p \in 1 .. Last' : PartRight(disk'[p])
  BY <1>3 DEF NowRight
<1> QED BY <1>1, <1>3, <1>7, <1>8, <1>9, ReadsRight DEF NowRight

LEMMA InitRight == Init => RightInv
<1>1. Init => OnceInv
  BY InitOnce
<1> QED BY <1>1 DEF Init, RightInv, ReadOnlyInv, NowRight, LookupRight, NoLookup, Placed,
                    Unflushed, Last

LEMMA NextRight ==
    ASSUME RightInv, [Next]_vars
    PROVE  RightInv'
<1>1. OnceInv /\ OnceInv' /\ ReadInv' /\ fails \in Nat
  BY NextOnce DEF RightInv, OnceInv, WriterInv, ReadInv, TypeInv, TypeOK
<1>2. SUFFICES ReadOnlyInv' /\ (fails' = 0 => NowRight')
  BY <1>1 DEF RightInv
<1>3. (mode # "readwrite" => pc = "idle") /\ (pc \in FlushPoints => mode = "readwrite")
  BY <1>1 DEF OnceInv, WriterInv, ReadInv, TypeInv, WriterInPart, FlushPoints
<1>4. fails = 0 => \A p \in 1 .. Last : PartRight(disk[p])
  BY DEF RightInv, NowRight
<1>5. ASSUME mode' \notin {"readonly", "readwrite"}, lookup' = NoLookup,
             fails' = 0 => \A p \in 1 .. Last' : PartRight(disk'[p])
      PROVE  ReadOnlyInv' /\ (fails' = 0 => NowRight')
  BY <1>5, NotWritingRight DEF ReadOnlyInv
<1>6. ASSUME Ended("closed") \/ Ended("refused"), disk' = disk, fails' = fails
      PROVE  ReadOnlyInv' /\ (fails' = 0 => NowRight')
  BY <1>4, <1>5, <1>6 DEF Ended, Last
<1>7. ASSUME mode' = "readwrite", fails' = 0 => NowRight'
      PROVE  ReadOnlyInv' /\ (fails' = 0 => NowRight')
  BY <1>7 DEF ReadOnlyInv
<1>8. CASE OpenReadOnly
  BY <1>8, OpenReadRight DEF OpenReadOnly
<1>9. ASSUME NEW newonly \in BOOLEAN, OpenReadWrite(newonly)
      PROVE  ReadOnlyInv' /\ (fails' = 0 => NowRight')
  BY <1>1, <1>7, <1>9, OpenWriteRight DEF OpenReadWrite, RightInv
<1>10. CASE OpenRefused
  <2>1. mode' = "refused" /\ UNCHANGED <<disk, lookup, fails>>
    BY <1>10 DEF OpenRefused
  <2>2. fails = 0 => NowRight'
    <3>1. mode = "closed"
      BY <1>10 DEF OpenRefused
    <3> QED BY <2>1, <3>1
            DEF RightInv, NowRight, LookupRight, ReadsBack, Placed, Unflushed, Last
  <2> QED BY <2>1, <2>2 DEF ReadOnlyInv
<1>11. CASE Close
  <2>1. CASE /\ mode = "readwrite"
             /\ UNCHANGED <<disk, mode, pending, writer, lookup, fails>>
    BY <1>7, <2>1, SameRight DEF writer, RightInv
  <2>2. CASE Ended("closed") /\ UNCHANGED <<disk, fails>>
    BY <1>6, <2>2
  <2> QED BY <1>11, <2>1, <2>2 DEF Close
<1>12. CASE Kill
  BY <1>6, <1>12 DEF Kill
<1>13. CASE FlushNothing
  <2>1. CASE Continue /\ UNCHANGED <<disk, tocOffset, buffer, fileSize, fails>>
    BY <1>3, <1>7, <1>13, <2>1, SameRight DEF FlushNothing, Continue, RightInv
  <2>2. CASE Ended("closed") /\ UNCHANGED <<disk, fails>>
    BY <1>6, <2>2
  <2> QED BY <1>13, <2>1, <2>2 DEF FlushNothing
<1>14. CASE FlushWrites
  <2>1. mode = "readwrite" /\ Write(Flushed) /\ fails' = fails
    BY <1>3, <1>14 DEF FlushWrites
  <2>2. CASE Continue /\ tocOffset' = tocOffset + Len(buffer) /\ buffer' = <<>>
    <3>1. mode' = "readwrite" /\ UNCHANGED <<chunks, lookup>>
      BY <2>1, <2>2 DEF Continue
    <3> QED BY <1>7, <2>1, <2>2, <3>1, FlushContinues DEF RightInv
  <2>3. CASE Ended("closed")
    <3>1. fails' = 0 => \A p \in 1 .. Last' : PartRight(disk'[p])
      BY <2>1, FlushRight DEF RightInv
    <3> QED BY <1>5, <2>3, <3>1 DEF Ended
  <2> QED BY <1>14, <2>2, <2>3 DEF FlushWrites
<1>15. CASE TornWrite
  <2>1. mode = "readwrite" /\ PartialWrite /\ ~NothingToFlush /\ fails' = fails
    BY <1>3, <1>15 DEF TornWrite
  <2>2. fails' = 0 => \A p \in 1 .. Last' : PartRight(disk'[p])
    BY <2>1, PartialRight DEF RightInv
  <2> QED BY <1>5, <1>15, <2>2 DEF TornWrite, Ended
<1>16. CASE FlushFails
  <2>1. fails' # 0
    BY <1>1, <1>16 DEF FlushFails
  <2>2. mode' # "readonly"
    BY <1>3, <1>16 DEF FlushFails, AddThrows, Ended
  <2> QED BY <2>1, <2>2 DEF ReadOnlyInv
<1>17. ASSUME NEW c \in Chunk, Add(c) PROVE ReadOnlyInv' /\ (fails' = 0 => NowRight')
  BY <1>7, <1>17, SameRight DEF Add, writer, RightInv
<1>18. CASE CreatePart
  <2>1. mode' = "readwrite" /\ fails' = fails
    BY <1>3, <1>18 DEF CreatePart
  <2> QED BY <1>7, <1>18, <2>1, CreateRight DEF RightInv
<1>19. CASE AppendChunk
  <2>1. mode' = "readwrite" /\ fails' = fails
    BY <1>3, <1>19 DEF AppendChunk
  <2> QED BY <1>7, <1>19, <2>1, AppendRight DEF RightInv
<1>20. CASE UNCHANGED vars
  <2>1. UNCHANGED <<disk, mode, tocOffset, chunks, buffer, lookup, fails>>
    BY <1>20 DEF vars, writer
  <2> QED BY <2>1, SameRight DEF RightInv, ReadOnlyInv
<1> QED
  BY <1>8, <1>9, <1>10, <1>11, <1>12, <1>13, <1>14, <1>15, <1>16, <1>17, <1>18, <1>19,
     <1>20 DEF Next

LEMMA RightAlways == Spec => []RightInv
BY InitRight, NextRight, PTL DEF Spec

\* A reader of the bundle is refused or right, whatever write was cut short.
THEOREM ReaderIsRight == Spec => []RefusedOrRight
<1>1. RightInv => RefusedOrRight
  BY DEF RightInv, NowRight, PartRight, RefusedOrRight
<1> QED BY <1>1, RightAlways, PTL

\* Every chunk of the lookup is read back as it was added, by this process and by
\* the next one.
THEOREM EveryReadRight == Spec => []ReadBack
<1>1. RightInv => ReadBack
  BY DEF RightInv, NowRight, LookupRight, ReadBack
<1> QED BY <1>1, RightAlways, PTL

-----------------------------------------------------------------------------
(***************************************************************************)
(* The limit of a part                                                     *)
(***************************************************************************)

InLimit(size, table) == size <= MaxSize + 1 \/ Len(table) = 1

\* The size of the part after a flush, and the size that is compared with the
\* limit before a chunk is added.
FlushedSize == tocOffset + Len(buffer) + Len(chunks) + 1
Compared == IF pc = "appended" THEN endOffset + ExtraData(pending) ELSE endOffset

\* The size that is compared is at most the footer of an empty file behind.
WriterLimit ==
    mode = "readwrite" =>
        /\ FlushedSize <= Compared + 1
        /\ pc = "append" /\ chunks # <<>> => endOffset + ExtraData(pending) <= MaxSize
        /\ pc = "header" => chunks = <<>>
        /\ InLimit(FlushedSize, chunks)

NowLimited ==
    /\ \A p \in 1 .. Last : Accepts(disk[p]) => InLimit(Len(disk[p]), Chunks(disk[p]))
    /\ WriterLimit

LimitInv == RightInv /\ (fails = 0 => NowLimited)

LEMMA LimitFacts == FlushSize \in Nat \ {0} /\ MaxSize \in Nat
BY OptionsAssumption DEF FlushSize, MaxSize

\* A step after which no process writes, or that changes the last part only to
\* one that is refused or in its limit.
LEMMA PartsLimited ==
    ASSUME LimitInv, NowLimited, Last' = Last, \A p \in 1 .. Last - 1 : disk'[p] = disk[p],
           Accepts(disk'[Last]) => InLimit(Len(disk'[Last]), Chunks(disk'[Last]))
    PROVE  \A p \in 1 .. Last' : Accepts(disk'[p]) => InLimit(Len(disk'[p]), Chunks(disk'[p]))
<1>1. Last \in Nat
  BY DEF LimitInv, RightInv, OnceInv, WriterInv, ReadInv, TypeInv, TypeOK, Last
<1>2. \A p \in 1 .. Last : p \in 1 .. Last - 1 \/ p = Last
  BY <1>1
<1> QED BY <1>2 DEF NowLimited

LEMMA OpenLimited ==
    ASSUME LimitInv, NowLimited, NEW newonly \in BOOLEAN, OpenReadWrite(newonly)
    PROVE  NowLimited'
<1>1. disk \in Seq(Seq(Cell)) /\ Last \in Nat
  BY DEF LimitInv, RightInv, OnceInv, WriterInv, ReadInv, TypeInv, TypeOK, Last
<1>2. mode' = "readwrite" /\ pc' = "opened"
  BY DEF OpenReadWrite
<1>3. CASE Reuses(newonly)
  <2> DEFINE file == disk[Last]
  <2>1. /\ disk' = disk /\ Last' = Last /\ Last \in 1 .. Last /\ file \in Seq(Cell)
        /\ Len(file) < MaxSize /\ Len(file) \in Nat
        /\ file = <<>> \/ Accepts(file)
        /\ tocOffset' = TocOffset(file) /\ endOffset' = Len(file) /\ chunks' = Chunks(file)
        /\ buffer' = <<>>
    BY <1>1, <1>3 DEF OpenReadWrite, Reuses, LoadWriter, WritableParts, Last
  <2>2. TocOffset(file) + Len(Chunks(file)) + 1 <= Len(file) + 1
        /\ TocOffset(file) + Len(Chunks(file)) + 1 <= MaxSize + 1
    <3>1. CASE file = <<>>
      BY <3>1, EmptyLayout, LimitFacts
    <3>2. CASE Accepts(file)
      BY <2>1, <3>2, AcceptedPart, LimitFacts
    <3> QED BY <2>1, <3>1, <3>2
  <2>3. TocOffset(file) \in Nat /\ Len(buffer') = 0
    BY <2>1, EmptyLayout, AcceptedPart
  <2> HIDE DEF file
  <2>4. FlushedSize' = TocOffset(file) + Len(Chunks(file)) + 1
    BY <2>1, <2>3 DEF FlushedSize
  <2>5. Compared' = Len(file)
    BY <1>2, <2>1 DEF Compared
  <2>6. WriterLimit'
    BY <1>2, <2>2, <2>4, <2>5 DEF WriterLimit, InLimit
  <2> QED BY <2>1, <2>6 DEF NowLimited
<1>4. CASE ~Reuses(newonly)
  <2>1. /\ disk' = Append(disk, <<>>)
        /\ tocOffset' = 0 /\ endOffset' = 0 /\ chunks' = <<>> /\ buffer' = <<>>
    BY <1>4, EmptyLayout DEF OpenReadWrite, LoadWriter
  <2>2. Last' = Last + 1 /\ disk'[Last + 1] = <<>> /\ \A p \in 1 .. Last : disk'[p] = disk[p]
    BY <1>1, <2>1 DEF Last
  <2>3. \A p \in 1 .. Last' : p \in 1 .. Last \/ p = Last + 1
    BY <1>1, <2>2
  <2>4. FlushedSize' = 1 /\ Compared' = 0
    BY <1>2, <2>1 DEF FlushedSize, Compared
  <2>5. WriterLimit'
    BY <1>2, <2>4, LimitFacts DEF WriterLimit, InLimit
  <2> QED BY <2>2, <2>3, <2>5, NoPart DEF NowLimited
<1> QED BY <1>3, <1>4

\* The buffer becomes a part of the file, which is then as large as it was to be.
LEMMA FlushLimited ==
    ASSUME LimitInv, NowLimited, RightInv, NowRight, mode = "readwrite", Write(Flushed)
    PROVE  /\ Last' = Last
           /\ \A p \in 1 .. Last' : Accepts(disk'[p]) => InLimit(Len(disk'[p]), Chunks(disk'[p]))
<1>1. /\ Last' = Last /\ \A p \in 1 .. Last - 1 : disk'[p] = disk[p]
      /\ Len(disk'[Last]) = FlushedSize /\ Chunks(disk'[Last]) = chunks
  BY FlushRight DEF FlushedSize
<1>2. InLimit(Len(disk'[Last]), Chunks(disk'[Last]))
  BY <1>1 DEF NowLimited, WriterLimit
<1> QED BY <1>1, <1>2, PartsLimited

LEMMA PartialLimited ==
    ASSUME LimitInv, NowLimited, NowRight, mode = "readwrite", ~NothingToFlush, PartialWrite
    PROVE  \A p \in 1 .. Last' : Accepts(disk'[p]) => InLimit(Len(disk'[p]), Chunks(disk'[p]))
<1>1. Last' = Last /\ \A p \in 1 .. Last - 1 : disk'[p] = disk[p]
  BY PartialOnce DEF LimitInv, RightInv
<1>2. Accepts(disk'[Last]) => disk' = disk
  BY PartialAccepted DEF LimitInv, NowRight
<1>3. Last \in 1 .. Last
  BY RightFacts DEF LimitInv
<1>4. Accepts(disk'[Last]) => InLimit(Len(disk'[Last]), Chunks(disk'[Last]))
  BY <1>2, <1>3 DEF NowLimited
<1> QED BY <1>1, <1>4, PartsLimited

\* What is compared counts the flushed chunk only after the flush.
LEMMA ContinueLimited ==
    ASSUME LimitInv, WriterLimit, mode = "readwrite", Continue, FlushedSize' = FlushedSize
    PROVE  WriterLimit'
<1>1. /\ mode' = mode /\ chunks' = chunks
      /\ pc' \in {"idle", "create", "append"}
      /\ pc' = "append" => pc = "header"
      /\ Compared' = Compared
  BY DEF Continue, Compared
<1>2. InLimit(FlushedSize, chunks)'
  BY <1>1 DEF WriterLimit, InLimit
<1> QED BY <1>1, <1>2 DEF WriterLimit

LEMMA AppendLimited ==
    ASSUME LimitInv, NowLimited, AppendChunk
    PROVE  NowLimited'
<1>1. mode = "readwrite" /\ pending \in Chunk /\ pc = "append"
  BY DEF AppendChunk, LimitInv, RightInv, OnceInv, WriterInv, ReadInv, TypeInv, WriterInPart
<1>2. /\ tocOffset \in Nat /\ buffer \in Seq(Cell) /\ Len(buffer) \in Nat
      /\ chunks \in Seq(Chunk) /\ Len(chunks) \in Nat /\ endOffset \in Nat
      /\ Size[pending] \in Nat
  BY <1>1, RightFacts, SizeAssumption DEF LimitInv, TypeOK
<1>3. /\ chunks' = Append(chunks, pending) /\ buffer' = buffer \o Data(pending)
      /\ UNCHANGED <<disk, mode, tocOffset>> /\ Last' = Last
      /\ Compared' = endOffset + ExtraData(pending) /\ pc' \in {"appended", "idle"}
  BY DEF AppendChunk, Compared, Last
<1>4. Len(chunks') = Len(chunks) + 1
  BY <1>1, <1>2, <1>3, OffsetsOfMore
<1>5. Len(buffer') = Len(buffer) + Size[pending]
  BY <1>1, <1>2, <1>3, DataType, Concatenated
<1>6. FlushedSize <= endOffset + 1
  BY <1>1 DEF NowLimited, WriterLimit, Compared
<1>7. FlushedSize' <= endOffset + ExtraData(pending) + 1 /\ FlushedSize' \in Nat
  <2>1. FlushedSize' = FlushedSize + Size[pending] + 1
    <3> DEFINE s == Size[pending]
               n == Len(chunks)
               l == Len(buffer)
    <3>1. s \in Nat /\ n \in Nat /\ l \in Nat /\ tocOffset \in Nat
      BY <1>2
    <3>2. FlushedSize' = tocOffset + (l + s) + (n + 1) + 1 /\ FlushedSize = tocOffset + l + n + 1
      BY <1>3, <1>4, <1>5 DEF FlushedSize
    <3> HIDE DEF s, n, l
    <3>3. FlushedSize' = FlushedSize + s + 1
      BY <3>1, <3>2
    <3> QED BY <3>3 DEF s
  <2>2. FlushedSize \in Nat
    BY <1>2 DEF FlushedSize
  <2>3. ExtraData(pending) = 1 + Size[pending]
    BY DEF ExtraData
  <2> QED BY <1>2, <1>6, <2>1, <2>2, <2>3
<1>8. InLimit(FlushedSize, chunks)'
  <2>1. CASE chunks = <<>>
    <3>1. Len(chunks') = 1
      BY <1>4, <2>1
    <3> QED BY <3>1 DEF InLimit
  <2>2. CASE chunks # <<>>
    <3>1. endOffset + ExtraData(pending) <= MaxSize
      BY <1>1, <2>2 DEF NowLimited, WriterLimit
    <3>2. ExtraData(pending) \in Nat
      BY <1>2 DEF ExtraData
    <3>3. FlushedSize' <= MaxSize + 1
      BY <1>2, <1>7, <3>1, <3>2, LimitFacts
    <3> QED BY <3>3 DEF InLimit
  <2> QED BY <2>1, <2>2
<1>9. WriterLimit'
  BY <1>3, <1>7, <1>8 DEF WriterLimit
<1> QED BY <1>3, <1>9 DEF NowLimited

LEMMA InitLimit == Init => LimitInv
<1>1. Init => RightInv
  BY InitRight
<1> QED BY <1>1 DEF Init, LimitInv, NowLimited, WriterLimit, Last

LEMMA NextLimit ==
    ASSUME LimitInv, [Next]_vars
    PROVE  LimitInv'
<1>1. RightInv /\ RightInv' /\ fails \in Nat
  BY NextRight DEF LimitInv, RightInv, OnceInv, WriterInv, ReadInv, TypeInv, TypeOK
<1>2. fails' = 0 => fails = 0
  <2>1. ASSUME FlushFails PROVE fails' # 0
    BY <1>1, <2>1 DEF FlushFails
  <2> QED BY <2>1 DEF Next, vars, OpenReadOnly, OpenReadWrite, OpenRefused, Close, Kill,
             FlushNothing, FlushWrites, TornWrite, Add, CreatePart, AppendChunk
<1>3. SUFFICES ASSUME fails = 0, fails' = 0 PROVE NowLimited'
  BY <1>1, <1>2 DEF LimitInv
<1>4. NowLimited /\ NowRight
  BY <1>3 DEF LimitInv, RightInv
<1>5. (mode # "readwrite" => pc = "idle") /\ (pc \in FlushPoints => mode = "readwrite")
  BY <1>1 DEF RightInv, OnceInv, WriterInv, ReadInv, TypeInv, WriterInPart, FlushPoints
<1>6. ASSUME mode' # "readwrite",
             \A p \in 1 .. Last' : Accepts(disk'[p]) => InLimit(Len(disk'[p]), Chunks(disk'[p]))
      PROVE  NowLimited'
  BY <1>6 DEF NowLimited, WriterLimit
<1>7. ASSUME disk' = disk, mode' # "readwrite" PROVE NowLimited'
  BY <1>4, <1>6, <1>7 DEF NowLimited, Last
<1>8. ASSUME disk' = disk, UNCHANGED <<mode, tocOffset, endOffset, chunks, buffer>>,
             pc \in {"idle", "closing"}, pc' \in {"idle", "closing"}
      PROVE  NowLimited'
  BY <1>4, <1>8 DEF NowLimited, WriterLimit, InLimit, FlushedSize, Compared, Last
<1>9. CASE OpenReadOnly \/ OpenRefused \/ Kill
  BY <1>7, <1>9 DEF OpenReadOnly, OpenRefused, Kill, Ended
<1>10. ASSUME NEW newonly \in BOOLEAN, OpenReadWrite(newonly) PROVE NowLimited'
  BY <1>4, <1>10, OpenLimited
<1>11. CASE Close
  BY <1>7, <1>8, <1>11 DEF Close, Ended, writer
<1>12. CASE FlushNothing
  <2>1. CASE Continue /\ UNCHANGED <<disk, tocOffset, buffer, fileSize, fails>>
    <3>1. mode = "readwrite" /\ FlushedSize' = FlushedSize
      BY <1>5, <1>12, <2>1 DEF FlushNothing, FlushedSize, Continue
    <3>2. WriterLimit'
      BY <1>4, <2>1, <3>1, ContinueLimited DEF NowLimited
    <3> QED BY <1>4, <2>1, <3>2 DEF NowLimited, Last
  <2> QED BY <1>7, <1>12, <2>1 DEF FlushNothing, Ended
<1>13. CASE FlushWrites
  <2>1. mode = "readwrite" /\ Write(Flushed)
    BY <1>5, <1>13 DEF FlushWrites
  <2>2. \A p \in 1 .. Last' : Accepts(disk'[p]) => InLimit(Len(disk'[p]), Chunks(disk'[p]))
    BY <1>1, <1>4, <2>1, FlushLimited
  <2>3. CASE Continue /\ tocOffset' = tocOffset + Len(buffer) /\ buffer' = <<>>
    <3>1. FlushedSize' = FlushedSize
      <4>1. tocOffset \in Nat /\ Len(buffer) \in Nat /\ Len(buffer') = 0 /\ chunks' = chunks
        BY <1>1, <2>1, <2>3, RightFacts DEF Continue
      <4>2. tocOffset' + Len(buffer') = tocOffset + Len(buffer)
        BY <2>3, <4>1
      <4> QED BY <4>1, <4>2 DEF FlushedSize
    <3> QED BY <1>4, <2>1, <2>2, <2>3, <3>1, ContinueLimited DEF NowLimited
  <2> QED BY <1>6, <1>13, <2>2, <2>3 DEF FlushWrites, Ended
<1>14. CASE TornWrite
  <2>1. mode = "readwrite" /\ PartialWrite /\ ~NothingToFlush /\ mode' # "readwrite"
    BY <1>5, <1>14 DEF TornWrite, Ended
  <2> QED BY <1>4, <1>6, <2>1, PartialLimited
<1>15. CASE FlushFails
  BY <1>1, <1>3, <1>15 DEF FlushFails
<1>16. ASSUME NEW c \in Chunk, Add(c) PROVE NowLimited'
  <2>1. /\ disk' = disk /\ UNCHANGED <<mode, tocOffset, endOffset, chunks, buffer>>
        /\ mode = "readwrite" /\ pc = "idle" /\ pending' = c
        /\ pc' = (IF NeedsNewPart(c) THEN "rollover" ELSE "append")
    BY <1>16 DEF Add, FirstStep, writer
  <2>2. FlushedSize' = FlushedSize /\ Compared' = Compared
    BY <2>1 DEF FlushedSize, Compared
  <2>3. pc' = "append" /\ chunks # <<>> => endOffset + ExtraData(c) <= MaxSize
    <3>1. endOffset \in Nat /\ ExtraData(c) \in Nat
      BY <1>1, <2>1, RightFacts, SizeAssumption DEF TypeOK, ExtraData
    <3> QED BY <2>1, <3>1, LimitFacts DEF NeedsNewPart
  <2>4. ExtraData(pending)' = ExtraData(c)
    BY <2>1 DEF ExtraData
  <2>5. WriterLimit'
    BY <1>4, <2>1, <2>2, <2>3, <2>4 DEF NowLimited, WriterLimit, InLimit
  <2> QED BY <1>4, <2>1, <2>5 DEF NowLimited, Last
<1>17. CASE CreatePart
  <2>1. /\ tocOffset' = 0 /\ endOffset' = 1 /\ chunks' = <<>> /\ buffer' = <<>>
        /\ pc' = "header" /\ disk' = Append(disk, <<>>)
    BY <1>17 DEF CreatePart
  <2>2. Last' = Last + 1 /\ Last \in Nat /\ disk'[Last + 1] = <<>>
        /\ \A p \in 1 .. Last : disk'[p] = disk[p]
    BY <1>1, <2>1, NewTable DEF RightInv
  <2>3. \A p \in 1 .. Last' : p \in 1 .. Last \/ p = Last + 1
    BY <2>2
  <2>4. FlushedSize' = 1 /\ Compared' = 1
    BY <2>1 DEF FlushedSize, Compared
  <2>5. WriterLimit'
    BY <2>1, <2>4, LimitFacts DEF WriterLimit, InLimit
  <2> QED BY <1>4, <2>2, <2>3, <2>5, NoPart DEF NowLimited
<1>18. CASE AppendChunk
  BY <1>4, <1>18, AppendLimited
<1>19. CASE UNCHANGED vars
  BY <1>4, <1>19 DEF vars, writer, NowLimited, WriterLimit, InLimit, FlushedSize, Compared, Last
<1> QED
  BY <1>9, <1>10, <1>11, <1>12, <1>13, <1>14, <1>15, <1>16, <1>17, <1>18, <1>19 DEF Next

\* Every part that can be read is within the limit, or holds one chunk alone.
THEOREM WithinLimit == Spec => []PartLimit
<1>1. LimitInv => PartLimit
  <2> SUFFICES ASSUME LimitInv, fails = 0, NEW p \in 1 .. Last, Accepts(disk[p])
               PROVE  Len(disk[p]) <= MaxSize + FlushSize \/ Len(Chunks(disk[p])) = 1
    BY DEF PartLimit
  <2>1. Len(disk[p]) <= MaxSize + 1 \/ Len(Chunks(disk[p])) = 1
    BY DEF LimitInv, NowLimited, InLimit
  <2>2. disk[p] \in Seq(Cell)
    BY DEF LimitInv, RightInv, OnceInv, WriterInv, ReadInv, TypeInv, TypeOK, Last
  <2>3. Len(disk[p]) \in Nat
    BY <2>2
  <2> QED BY <2>1, <2>3, LimitFacts
<1> QED BY <1>1, InitLimit, NextLimit, PTL DEF Spec

-----------------------------------------------------------------------------
(***************************************************************************)
(* The refinement of ContentStore                                          *)
(***************************************************************************)

\* The variables of ContentStore, as Store substitutes them; Kept is durable.
Stored ==
    IF fails = 0 /\ mode \in {"readonly", "readwrite"} THEN DOMAIN lookup ELSE Kept
Damaged == fails > 0 \/ ~Reopens(disk)

LEMMA LastIds ==
    ASSUME NEW parts \in Seq(Seq(Cell)), parts # <<>>
    PROVE  AllIds(parts) = SealedIds(parts) \cup Ids(parts[Len(parts)])
<1>1. DOMAIN parts = 1 .. Len(parts) /\ Len(parts) \in Nat \ {0}
  OBVIOUS
<1>2. 1 .. Len(parts) = (1 .. Len(parts) - 1) \cup {Len(parts)}
  BY <1>1
<1> QED BY <1>1, <1>2 DEF AllIds, SealedIds

LEMMA NewPartIds ==
    ASSUME NEW parts \in Seq(Seq(Cell))
    PROVE  AllIds(Append(parts, <<>>)) = AllIds(parts)
<1> DEFINE more == Append(parts, <<>>)
<1>1. /\ more \in Seq(Seq(Cell)) /\ more # <<>> /\ Len(more) = Len(parts) + 1
      /\ more[Len(parts) + 1] = <<>> /\ \A p \in 1 .. Len(parts) : more[p] = parts[p]
      /\ DOMAIN parts = 1 .. Len(parts) /\ Len(parts) \in Nat
  <2>1. <<>> \in Seq(Cell)
    OBVIOUS
  <2> QED BY <2>1
<1> HIDE DEF more
<1>2. AllIds(more) = SealedIds(more) \cup Ids(<<>>)
  BY <1>1, LastIds
<1>3. Len(more) - 1 = Len(parts)
  BY <1>1
<1>4. SealedIds(more) = AllIds(parts)
  BY <1>1, <1>3 DEF SealedIds, AllIds
<1> QED BY <1>2, <1>4, EmptyLayout DEF more

\* What an open cache has stored, and what of it is durable.
LEMMA WritingStore ==
    ASSUME RightInv, fails = 0, mode = "readwrite"
    PROVE  /\ ~Damaged /\ Reopens(disk)
           /\ Stored = SealedIds(disk) \cup IdsIn(chunks)
           /\ Kept = SealedIds(disk) \cup Ids(disk[Last])
<1>1. WriterInv /\ disk \in Seq(Seq(Cell)) /\ Last \in Nat \ {0} /\ Last = Len(disk)
  BY RightFacts DEF Last
<1>2. Reopens(disk)
  BY <1>1 DEF Reopens, RightInv, NowRight, Unflushed, WriterInv, SealedAccepted
<1>3. ~Damaged
  BY <1>2 DEF Damaged
<1>4. Stored = SealedIds(disk) \cup IdsIn(chunks)
  BY <1>1 DEF Stored, WriterInv, LookupComplete
<1>5. disk # <<>>
  BY <1>1
<1>6. Kept = SealedIds(disk) \cup Ids(disk[Last])
  BY <1>1, <1>2, <1>5, LastIds DEF Kept, Durable
<1> QED BY <1>2, <1>3, <1>4, <1>6

LEMMA ReadingStore ==
    ASSUME RightInv, fails = 0, mode = "readonly"
    PROVE  ~Damaged /\ Stored = Kept /\ Kept = AllIds(disk)
<1>1. ReadableParts(disk) /\ DOMAIN lookup = AllIds(disk) /\ disk \in Seq(Seq(Cell))
  BY DEF RightInv, ReadOnlyInv, OnceInv, WriterInv, ReadInv, TypeInv, TypeOK
<1>2. Reopens(disk)
  <2>1. Len(disk) \in Nat \ {0} /\ DOMAIN disk = 1 .. Len(disk)
    BY <1>1 DEF ReadableParts
  <2>2. Len(disk) \in DOMAIN disk /\ \A p \in 1 .. Len(disk) - 1 : p \in DOMAIN disk
    BY <2>1
  <2> QED BY <1>1, <2>2 DEF Reopens, ReadableParts
<1> QED BY <1>1, <1>2 DEF Damaged, Stored, Kept, Durable

\* Opening finds what is durable, and a part more keeps it.
LEMMA OpenStore ==
    ASSUME RightInv, RightInv', fails = 0, NEW newonly \in BOOLEAN, OpenReadWrite(newonly)
    PROVE  Stored' = Stored /\ Kept' = Kept /\ Damaged' = Damaged
<1>1. disk \in Seq(Seq(Cell)) /\ Last \in Nat /\ Last = Len(disk)
  BY DEF RightInv, OnceInv, WriterInv, ReadInv, TypeInv, TypeOK, Last
<1>2. /\ mode = "closed" /\ mode' = "readwrite" /\ fails' = fails
      /\ DOMAIN lookup' = AllIds(disk)
      /\ disk' = IF Reuses(newonly) THEN disk ELSE Append(disk, <<>>)
      /\ WritableParts(newonly)
  BY DEF OpenReadWrite, Lookup
<1>3. Reopens(disk) /\ Reopens(disk') /\ AllIds(disk') = AllIds(disk)
  <2>1. CASE Reuses(newonly)
    <3>1. \A p \in 1 .. Last - 1 : Accepts(disk[p])
      BY <1>2, <2>1 DEF WritableParts, MappedParts
    <3>2. disk[Last] = <<>> \/ Accepts(disk[Last])
      BY <1>2, <2>1 DEF WritableParts
    <3> QED BY <1>1, <1>2, <2>1, <3>1, <3>2 DEF Reopens
  <2>2. CASE ~Reuses(newonly)
    <3>1. \A p \in 1 .. Len(disk) : Accepts(disk[p])
      BY <1>1, <1>2, <2>2 DEF WritableParts, MappedParts
    <3>2. Reopens(disk)
      <4>1. Len(disk) \in Nat /\ \A p \in 1 .. Len(disk) - 1 : p \in 1 .. Len(disk)
        BY <1>1
      <4>2. disk # <<>> => Len(disk) \in 1 .. Len(disk)
        BY <1>1
      <4> QED BY <3>1, <4>1, <4>2 DEF Reopens
    <3> QED BY <1>1, <1>2, <2>2, <3>1, <3>2, ReopensWithNew, NewPartIds
  <2> QED BY <2>1, <2>2
<1> QED BY <1>2, <1>3 DEF Stored, Kept, Durable, Damaged

\* A flush makes durable what is stored.
LEMMA FlushStore ==
    ASSUME RightInv, fails = 0, fails' = 0, mode = "readwrite", Write(Flushed), FlushWrites
    PROVE  Kept' = Stored /\ ~Damaged'
<1>1. WriterInv /\ disk \in Seq(Seq(Cell)) /\ Last \in Nat \ {0}
  BY RightFacts
<1>2. /\ Last' = Last /\ \A p \in 1 .. Last - 1 : disk'[p] = disk[p]
      /\ Accepts(disk'[Last]) /\ Chunks(disk'[Last]) = chunks
  BY FlushRight DEF RightInv
<1>3. disk' \in Seq(Seq(Cell)) /\ Len(disk') = Last
  BY <1>1, FlushedType, WriteType DEF WriterInv, ReadInv, TypeInv
<1>4. Reopens(disk')
  BY <1>1, FlushReopens
<1>5. Ids(disk'[Last]) = IdsIn(chunks)
  BY <1>2 DEF Ids, IdsIn
<1>6. SealedIds(disk') = SealedIds(disk)
  BY <1>1, <1>2, <1>3, SealedSame DEF WriterInv
<1>7. disk' # <<>>
  BY <1>1, <1>3
<1>8. AllIds(disk') = SealedIds(disk) \cup IdsIn(chunks)
  BY <1>3, <1>5, <1>6, <1>7, LastIds
<1>9. Stored = SealedIds(disk) \cup IdsIn(chunks)
  BY WritingStore
<1> QED BY <1>4, <1>8, <1>9 DEF Kept, Durable, Damaged

\* A write that is cut short leaves all or nothing.
LEMMA TornStore ==
    ASSUME RightInv, fails = 0, mode = "readwrite", ~NothingToFlush, PartialWrite
    PROVE  disk' = disk \/ ~Reopens(disk')
<1>1. Len(disk') = Last /\ Last' = Last
  BY PartialOnce DEF RightInv
<1>2. /\ disk \in Seq(Seq(Cell)) /\ Last \in Nat \ {0} /\ DOMAIN disk = 1 .. Last
      /\ ReadInv /\ TypeInv /\ disk[Last] \in Seq(Cell) /\ Len(disk[Last]) \in Nat
      /\ tocOffset \in Nat /\ tocOffset <= Len(disk[Last])
  BY RightFacts
<1>3. SUFFICES ASSUME Reopens(disk') PROVE disk' = disk
  OBVIOUS
<1>4. disk' # <<>>
  BY <1>1, <1>2
<1>5. disk'[Last] = <<>> \/ Accepts(disk'[Last])
  BY <1>1, <1>3, <1>4 DEF Reopens
<1>6. CASE Accepts(disk'[Last])
  BY <1>6, PartialAccepted DEF RightInv, NowRight
<1>7. CASE disk'[Last] = <<>>
  <2>1. Len(disk'[Last]) >= Len(disk[Last])
    BY <1>2, PartialWriteType
  <2>2. Len(disk[Last]) = 0
    <3>1. Len(disk'[Last]) = 0
      BY <1>7
    <3> QED BY <1>2, <2>1, <3>1
  <2>3. disk[Last] = <<>>
    BY <1>2, <2>2
  <2>4. disk' = [disk EXCEPT ![Last] = disk'[Last]]
    <3>1. PICK j \in 0 .. Len(Flushed) - 1, torn \in BOOLEAN : Write(CutShort(Flushed, j, torn))
      BY DEF PartialWrite
    <3> DEFINE f == Overwrite(disk[Last], tocOffset, CutShort(Flushed, j, torn))
    <3>2. disk' = [disk EXCEPT ![Last] = f]
      BY <3>1 DEF Write
    <3> HIDE DEF f
    <3>3. disk'[Last] = f
      BY <1>2, <3>2
    <3> QED BY <3>2, <3>3
  <2> QED BY <1>2, <1>7, <2>3, <2>4
<1> QED BY <1>5, <1>6, <1>7

\* Every step of the cache is a step of the store, or changes nothing of it.
LEMMA StepStore ==
    ASSUME RightInv, RightInv', [Next]_vars
    PROVE  [Store!Next]_(Store!vars)
<1>1. fails \in Nat /\ fails' \in Nat
  BY DEF RightInv, OnceInv, WriterInv, ReadInv, TypeInv, TypeOK
<1>2. fails' = fails \/ FlushFails
  BY DEF Next, vars, OpenReadOnly, OpenReadWrite, OpenRefused, Close, Kill, FlushNothing,
         FlushWrites, TornWrite, Add, CreatePart, AppendChunk
<1>3. ASSUME UNCHANGED <<Stored, Kept, Damaged>> PROVE [Store!Next]_(Store!vars)
  BY <1>3 DEF Stored, Damaged, Store!vars
<1>4. ASSUME ~Damaged, Damaged' = Damaged, Kept' = Kept, Stored' = Kept
      PROVE  [Store!Next]_(Store!vars)
  BY <1>4 DEF Stored, Damaged, Store!Next, Store!End
<1>5. ASSUME ~Damaged, Damaged' = Damaged, Kept' = Stored, Stored' = Stored
      PROVE  [Store!Next]_(Store!vars)
  BY <1>5 DEF Stored, Damaged, Store!Next, Store!Sync
<1>6. ASSUME Damaged', Kept' = {}, Stored' = {} PROVE [Store!Next]_(Store!vars)
  <2>1. Damaged' = TRUE
    BY <1>6 DEF Damaged
  <2> QED BY <1>6, <2>1 DEF Stored, Damaged, Store!Next, Store!Damage
<1>7. CASE fails # 0
  <2>1. fails' # 0 /\ fails > 0 /\ fails' > 0
    BY <1>1, <1>2, <1>7 DEF FlushFails
  <2>2. UNCHANGED <<Stored, Kept, Damaged>>
    BY <1>7, <2>1 DEF Stored, Kept, Damaged
  <2> QED BY <1>3, <2>2
<1>8. CASE fails' # 0
  <2>1. fails' > 0
    BY <1>1, <1>8
  <2>2. Damaged' /\ Kept' = {} /\ Stored' = {}
    BY <1>8, <2>1 DEF Stored, Kept, Damaged
  <2> QED BY <1>6, <2>2
<1> SUFFICES ASSUME fails = 0, fails' = 0 PROVE [Store!Next]_(Store!vars)
  BY <1>7, <1>8
<1>9. (mode # "readwrite" => pc = "idle") /\ (pc \in FlushPoints => mode = "readwrite")
      /\ (pc \in {"create", "append"} => mode = "readwrite")
  BY DEF RightInv, OnceInv, WriterInv, ReadInv, TypeInv, WriterInPart, FlushPoints
<1>10. ASSUME disk' = disk PROVE Kept' = Kept /\ Damaged' = Damaged
  BY <1>10 DEF Kept, Durable, Damaged
<1>11. ASSUME UNCHANGED <<disk, mode, lookup>> PROVE [Store!Next]_(Store!vars)
  BY <1>3, <1>10, <1>11 DEF Stored
\* The end of a process that wrote nothing more.
<1>12. ASSUME disk' = disk, mode' \notin {"readonly", "readwrite"}
       PROVE  [Store!Next]_(Store!vars)
  <2>1. Kept' = Kept /\ Damaged' = Damaged /\ Stored' = Kept'
    BY <1>10, <1>12 DEF Stored
  <2>2. CASE mode \notin {"readonly", "readwrite"}
    BY <1>3, <2>1, <2>2 DEF Stored
  <2>3. CASE mode \in {"readonly", "readwrite"}
    BY <1>4, <2>1, <2>3, WritingStore, ReadingStore
  <2> QED BY <2>2, <2>3
<1>13. CASE OpenReadOnly
  <2>1. mode = "closed" /\ mode' = "readonly" /\ disk' = disk
    BY <1>13 DEF OpenReadOnly
  <2>2. Stored' = Kept'
    <3>1. ReadableParts(disk) /\ DOMAIN lookup' = AllIds(disk) /\ disk \in Seq(Seq(Cell))
      BY <1>13 DEF OpenReadOnly, Lookup, RightInv, OnceInv, WriterInv, ReadInv, TypeInv, TypeOK
    <3>2. Len(disk) \in Nat \ {0} /\ DOMAIN disk = 1 .. Len(disk)
      BY <3>1 DEF ReadableParts
    <3>3. Len(disk) \in DOMAIN disk /\ \A p \in 1 .. Len(disk) - 1 : p \in DOMAIN disk
      BY <3>2
    <3>4. Reopens(disk)
      BY <3>1, <3>3 DEF Reopens, ReadableParts
    <3> QED BY <2>1, <3>1, <3>4 DEF Stored, Kept, Durable
  <2>3. Stored = Kept
    BY <2>1 DEF Stored
  <2> QED BY <1>3, <1>10, <2>1, <2>2, <2>3
<1>14. ASSUME NEW newonly \in BOOLEAN, OpenReadWrite(newonly)
       PROVE  [Store!Next]_(Store!vars)
  BY <1>3, <1>14, OpenStore
<1>15. CASE OpenRefused \/ Kill
  BY <1>12, <1>15 DEF OpenRefused, Kill, Ended
<1>16. CASE Close
  BY <1>11, <1>12, <1>16 DEF Close, Ended
<1>17. CASE FlushNothing
  BY <1>11, <1>12, <1>17 DEF FlushNothing, Continue, Ended
<1>18. CASE FlushWrites
  <2>1. mode = "readwrite" /\ Write(Flushed)
    BY <1>9, <1>18 DEF FlushWrites
  <2>2. Kept' = Stored /\ ~Damaged' /\ ~Damaged
    BY <1>18, <2>1, FlushStore, WritingStore
  <2>3. Damaged' = Damaged
    BY <2>2 DEF Damaged
  <2>4. Stored' = Stored
    <3>1. CASE Continue
      BY <2>1, <3>1 DEF Continue, Stored
    <3>2. CASE Ended("closed")
      BY <2>2, <3>2 DEF Ended, Stored
    <3> QED BY <1>18, <3>1, <3>2 DEF FlushWrites
  <2> QED BY <1>5, <2>2, <2>3, <2>4
<1>19. CASE TornWrite
  <2>1. /\ mode = "readwrite" /\ PartialWrite /\ ~NothingToFlush
        /\ mode' \notin {"readonly", "readwrite"}
    BY <1>9, <1>19 DEF TornWrite, Ended
  <2>2. CASE ~Reopens(disk')
    <3>1. Damaged' /\ Kept' = {} /\ Stored' = {}
      BY <2>1, <2>2 DEF Damaged, Kept, Durable, Stored
    <3> QED BY <1>6, <3>1
  <2> QED BY <1>12, <2>1, <2>2, TornStore
<1>20. CASE FlushFails
  BY <1>1, <1>20 DEF FlushFails
<1>21. ASSUME NEW c \in Chunk, Add(c) PROVE [Store!Next]_(Store!vars)
  BY <1>11, <1>21 DEF Add
<1>22. CASE CreatePart
  <2>1. /\ mode = "readwrite" /\ disk' = Append(disk, <<>>) /\ UNCHANGED <<mode, lookup>>
        /\ disk \in Seq(Seq(Cell))
    BY <1>9, <1>22
       DEF CreatePart, RightInv, OnceInv, WriterInv, ReadInv, TypeInv, TypeOK
  <2>2. Reopens(disk)
    BY <2>1, WritingStore
  <2>3. Reopens(disk')
    BY <1>22, <2>2, StepReopens DEF RightInv, OnceInv, Next, CreatePart, TornWrite, FlushFails, FlushPoints
  <2>4. AllIds(disk') = AllIds(disk)
    BY <2>1, NewPartIds
  <2>5. Stored' = Stored /\ Kept' = Kept /\ Damaged' = Damaged
    BY <2>1, <2>2, <2>3, <2>4 DEF Stored, Kept, Durable, Damaged
  <2> QED BY <1>3, <2>5
<1>23. CASE AppendChunk
  <2>1. /\ mode = "readwrite" /\ pending \in Chunk /\ pending \notin DOMAIN lookup
        /\ DOMAIN lookup' = DOMAIN lookup \cup {pending} /\ UNCHANGED <<disk, mode>>
    BY <1>9, <1>23
       DEF AppendChunk, RightInv, OnceInv, PendingNew, WriterInv, ReadInv, TypeInv, WriterInPart
  <2>2. ~Damaged /\ Kept' = Kept /\ Damaged' = Damaged
    BY <1>10, <2>1, WritingStore
  <2>3. pending \notin Stored /\ Stored' = Stored \cup {pending}
    BY <2>1 DEF Stored
  <2>4. Store!Add(pending)
    BY <2>2, <2>3 DEF Store!Add, Stored, Damaged
  <2> QED BY <2>1, <2>4 DEF Store!Next
<1>24. CASE UNCHANGED vars
  BY <1>11, <1>24 DEF vars
<1> QED
  BY <1>13, <1>14, <1>15, <1>16, <1>17, <1>18, <1>19, <1>20, <1>21, <1>22, <1>23, <1>24
     DEF Next

LEMMA InitStore == Init => Store!Init
<1>1. ASSUME Init PROVE Stored = {} /\ Kept = {} /\ ~Damaged
  <2>1. disk = <<>> /\ Len(disk) = 0 /\ DOMAIN disk = {} /\ 1 .. Len(disk) - 1 = {}
    BY <1>1 DEF Init
  <2>2. Reopens(disk) /\ AllIds(disk) = {}
    BY <2>1 DEF Reopens, AllIds
  <2> QED BY <1>1, <2>2 DEF Init, Stored, Kept, Durable, Damaged
<1>2. (Damaged = FALSE) <=> ~Damaged
  BY DEF Damaged
<1> QED BY <1>1, <1>2 DEF Store!Init, Stored, Damaged

\* What is durable survives, as a whole or not at all: the cache implements the
\* content store.
THEOREM Implements == Spec => Promise
<1>1. RightInv /\ RightInv' /\ [Next]_vars => [Store!Next]_(Store!vars)
  BY StepStore
<1> QED BY <1>1, InitStore, RightAlways, PTL DEF Spec, Promise, Store!Spec
=============================================================================
