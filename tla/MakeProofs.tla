------------------------------ MODULE MakeProofs ------------------------------
(***************************************************************************)
(* rman-make, for all files, options and archives: what is cut of a file   *)
(* are its cells, each once and in their order, whatever the headers in it *)
(* say; and its bundle has all that its manifest needs.  Then the lock     *)
(* under which its bundle, as that of every program, is written.           *)
(***************************************************************************)
EXTENDS Make, NoInterupt, FiniteSetTheorems, SequenceTheorems, TLAPS

\* A non-empty set of naturals has a least element.  It stands for induction:
\* the least counterexample of a claim about naturals is looked at.
LEMMA LeastNatural ==
    ASSUME NEW T, T \subseteq Nat, T # {}
    PROVE  \E m \in T : \A k \in T : m <= k
<1>1. PICK n \in T : TRUE
  OBVIOUS
<1>2. n \in Nat
  BY <1>1
<1> DEFINE W == {k \in T : k <= n}
           I == {1 .. k : k \in W}
           S == 1 .. n
<1>3. I \subseteq FiniteSubsetsOf(S)
  <2> SUFFICES ASSUME NEW k \in W PROVE 1 .. k \in FiniteSubsetsOf(S)
    OBVIOUS
  <2>1. k \in Nat /\ 1 .. k \subseteq S
    BY <1>2
  <2>2. IsFiniteSet(1 .. k)
    BY <2>1, FS_Interval
  <2> QED BY <2>1, <2>2 DEF FiniteSubsetsOf
<1>4. IsWellFoundedOn(StrictSubsetOrdering(S), FiniteSubsetsOf(S))
  BY FS_StrictSubsetOrderingWellFounded
<1>5. I # {}
  BY <1>2
<1> HIDE DEF I, S, W
<1>6. PICK x \in I : \A y \in I : ~(<<y, x>> \in StrictSubsetOrdering(S))
  BY <1>3, <1>4, <1>5, WFMin
<1>7. PICK m \in W : x = 1 .. m
  BY DEF I
<1>8. ASSUME NEW k \in T, k < m PROVE FALSE
  <2>1. k \in W /\ m \in Nat /\ k \in Nat
    BY <1>2, <1>8 DEF W
  <2>2. 1 .. k \in I
    BY <2>1 DEF I
  <2>3. m \in 1 .. m /\ m \notin 1 .. k
    BY <2>1, <1>8
  <2>4. 1 .. k \subseteq 1 .. m /\ 1 .. k # 1 .. m
    BY <2>1, <2>3, <1>8
  <2> QED BY <1>3, <1>6, <1>7, <2>2, <2>4 DEF StrictSubsetOrdering, FiniteSubsetsOf
<1> QED BY <1>7, <1>8 DEF W

-----------------------------------------------------------------------------
(***************************************************************************)
(* Tiles                                                                   *)
(***************************************************************************)

\* The entries lie one behind the other and cover the cells from one place to
\* another.
Tiles(s, from, to) ==
    /\ s \in Seq(EntryType)
    /\ from \in Nat /\ to \in Nat
    /\ \A i \in 1 .. Len(s) : s[i].size # 0
    /\ s = <<>> => from = to
    /\ s # <<>> => s[1].offset = from /\ s[Len(s)].offset + s[Len(s)].size = to
    /\ \A i \in 1 .. Len(s) - 1 : s[i + 1].offset = s[i].offset + s[i].size

LEMMA EntryIsTyped ==
    ASSUME NEW offset \in Nat, NEW size \in Nat, NEW high \in BOOLEAN, NEW nest \in BOOLEAN
    PROVE  /\ Entry(offset, size, high, nest) \in EntryType
           /\ Entry(offset, size, high, nest).offset = offset
           /\ Entry(offset, size, high, nest).size = size
BY DEF Entry, EntryType

LEMMA TilesOne ==
    ASSUME NEW e \in EntryType, e.size # 0
    PROVE  Tiles(<<e>>, e.offset, e.offset + e.size)
<1>1. e.offset \in Nat /\ e.size \in Nat
  BY DEF EntryType
<1> QED BY <1>1 DEF Tiles

LEMMA TilesNone ==
    ASSUME NEW n \in Nat
    PROVE  Tiles(<<>>, n, n)
BY DEF Tiles

LEMMA TilesJoin ==
    ASSUME NEW a, NEW b, NEW c, NEW s, NEW t, Tiles(s, a, b), Tiles(t, b, c)
    PROVE  Tiles(s \o t, a, c)
<1>1. s \in Seq(EntryType) /\ t \in Seq(EntryType) /\ a \in Nat /\ b \in Nat /\ c \in Nat
  BY DEF Tiles
<1>2. CASE s = <<>>
  <2>1. s \o t = t
    BY <1>1, <1>2
  <2> QED BY <1>2, <2>1 DEF Tiles
<1>3. CASE t = <<>>
  <2>1. s \o t = s
    BY <1>1, <1>3
  <2> QED BY <1>3, <2>1 DEF Tiles
<1>4. CASE s # <<>> /\ t # <<>>
  <2> DEFINE m == Len(s)
             n == Len(t)
             w == s \o t
  <2>1. m \in Nat \ {0} /\ n \in Nat \ {0} /\ w \in Seq(EntryType) /\ Len(w) = m + n
    BY <1>1, <1>4
  <2>2. \A i \in 1 .. m : w[i] = s[i]
    BY <1>1
  <2>3. \A i \in 1 .. n : w[m + i] = t[i]
    BY <1>1
  <2>4. \A i \in m + 1 .. m + n : w[i] = t[i - m]
    BY <1>1, <2>1
  <2>5. \A i \in 1 .. m : s[i].size # 0
    BY DEF Tiles
  <2>6. \A i \in 1 .. n : t[i].size # 0
    BY DEF Tiles
  <2>7. s[1].offset = a /\ s[m].offset + s[m].size = b /\ t[1].offset = b /\ t[n].offset + t[n].size = c
    BY <1>4 DEF Tiles
  <2>8. \A i \in 1 .. m - 1 : s[i + 1].offset = s[i].offset + s[i].size
    BY DEF Tiles
  <2>9. \A i \in 1 .. n - 1 : t[i + 1].offset = t[i].offset + t[i].size
    BY DEF Tiles
  <2> HIDE DEF m, n, w
  <2>10. \A i \in 1 .. m + n : w[i].size # 0
    <3> SUFFICES ASSUME NEW i \in 1 .. m + n PROVE w[i].size # 0
      OBVIOUS
    <3>1. CASE i <= m
      BY <2>1, <2>2, <2>5, <3>1
    <3>2. CASE i > m
      <4>1. i - m \in 1 .. n /\ i \in m + 1 .. m + n
        BY <2>1, <3>2
      <4> QED BY <2>4, <2>6, <4>1
    <3> QED BY <2>1, <3>1, <3>2
  <2>11. \A i \in 1 .. m + n - 1 : w[i + 1].offset = w[i].offset + w[i].size
    <3> SUFFICES ASSUME NEW i \in 1 .. m + n - 1 PROVE w[i + 1].offset = w[i].offset + w[i].size
      OBVIOUS
    <3>1. CASE i < m
      <4>1. i \in 1 .. m - 1 /\ i + 1 \in 1 .. m /\ i \in 1 .. m
        BY <2>1, <3>1
      <4> QED BY <2>2, <2>8, <4>1
    <3>2. CASE i = m
      <4>1. m + 1 \in m + 1 .. m + n /\ (m + 1) - m = 1 /\ m \in 1 .. m
        BY <2>1
      <4>2. w[i + 1] = t[1] /\ w[i] = s[m]
        BY <2>2, <2>4, <3>2, <4>1
      <4> QED BY <2>7, <4>2
    <3>3. CASE i > m
      <4>1. i - m \in 1 .. n - 1 /\ i \in m + 1 .. m + n /\ i + 1 \in m + 1 .. m + n
        BY <2>1, <3>3
      <4>2. (i + 1) - m = (i - m) + 1
        BY <2>1
      <4>3. w[i] = t[i - m] /\ w[i + 1] = t[(i - m) + 1]
        BY <2>4, <4>1, <4>2
      <4> QED BY <2>9, <4>1, <4>3
    <3> QED BY <2>1, <3>1, <3>2, <3>3
  <2>12. w[1].offset = a /\ w[m + n].offset + w[m + n].size = c
    <3>1. 1 \in 1 .. m /\ m + n \in m + 1 .. m + n /\ (m + n) - m = n
      BY <2>1
    <3> QED BY <2>2, <2>4, <2>7, <3>1
  <2>13. w # <<>>
    BY <2>1
  <2> QED BY <1>1, <2>1, <2>10, <2>11, <2>12, <2>13 DEF Tiles, w
<1> QED BY <1>2, <1>3, <1>4

LEMMA TilesTail ==
    ASSUME NEW a, NEW b, NEW s, Tiles(s, a, b), s # <<>>
    PROVE  /\ s[1] \in EntryType /\ s[1].offset = a /\ s[1].size \in Nat \ {0}
           /\ a + s[1].size \in Nat
           /\ Tiles(Tail(s), a + s[1].size, b)
<1>1. s \in Seq(EntryType) /\ a \in Nat /\ b \in Nat /\ Len(s) \in Nat \ {0}
  BY DEF Tiles
<1>2. s[1] \in EntryType /\ s[1].offset = a /\ s[1].size # 0
  BY <1>1 DEF Tiles
<1>3. s[1].size \in Nat \ {0}
  BY <1>2 DEF EntryType
<1>4. Tail(s) \in Seq(EntryType) /\ Len(Tail(s)) = Len(s) - 1
  BY <1>1
<1>5. \A i \in 1 .. Len(s) - 1 : Tail(s)[i] = s[i + 1]
  BY <1>1
<1>6. CASE Len(s) = 1
  <2>1. Tail(s) = <<>>
    <3> DEFINE r == Tail(s)
    <3>1. r \in Seq(EntryType) /\ Len(r) = 0
      BY <1>4, <1>6
    <3> HIDE DEF r
    <3>2. r = <<>>
      BY <3>1
    <3> QED BY <3>2 DEF r
  <2>2. a + s[1].size = b
    BY <1>2, <1>6 DEF Tiles
  <2> QED BY <1>1, <1>2, <1>3, <2>1, <2>2, TilesNone
<1>7. CASE Len(s) # 1
  <2>1. s[2].offset = s[1].offset + s[1].size
    <3>1. 1 \in 1 .. Len(s) - 1 /\ 1 + 1 = 2
      BY <1>1, <1>7
    <3> QED BY <3>1 DEF Tiles
  <2>2. Tail(s) # <<>> /\ Tail(s)[1] = s[2] /\ Tail(s)[Len(s) - 1] = s[Len(s)]
    BY <1>1, <1>4, <1>5, <1>7
  <2>3. \A i \in 1 .. Len(s) - 1 : Tail(s)[i].size # 0
    BY <1>1, <1>5 DEF Tiles
  <2>4. \A i \in 1 .. Len(s) - 2 : Tail(s)[i + 1].offset = Tail(s)[i].offset + Tail(s)[i].size
    <3> SUFFICES ASSUME NEW i \in 1 .. Len(s) - 2
                 PROVE  Tail(s)[i + 1].offset = Tail(s)[i].offset + Tail(s)[i].size
      OBVIOUS
    <3>1. i \in 1 .. Len(s) - 1 /\ i + 1 \in 1 .. Len(s) - 1
      BY <1>1
    <3>2. Tail(s)[i] = s[i + 1] /\ Tail(s)[i + 1] = s[(i + 1) + 1]
      BY <1>5, <3>1
    <3> QED BY <3>1, <3>2 DEF Tiles
  <2>5. s[Len(s)].offset + s[Len(s)].size = b
    BY DEF Tiles
  <2> QED BY <1>1, <1>2, <1>3, <1>4, <2>1, <2>2, <2>3, <2>4, <2>5 DEF Tiles
<1> QED BY <1>6, <1>7

\* Every tile ends at or before the end.
LEMMA TilesInside ==
    ASSUME NEW a, NEW b, NEW s, Tiles(s, a, b), NEW i \in 1 .. Len(s)
    PROVE  /\ s[i] \in EntryType /\ s[i].offset \in Nat /\ s[i].size \in Nat \ {0}
           /\ s[i].offset + s[i].size <= b
<1>1. s \in Seq(EntryType) /\ b \in Nat /\ Len(s) \in Nat
  BY DEF Tiles
<1>2. ASSUME NEW k \in 1 .. Len(s)
      PROVE  s[k] \in EntryType /\ s[k].offset \in Nat /\ s[k].size \in Nat \ {0}
  <2>1. s[k] \in EntryType
    BY <1>1
  <2>2. s[k].size # 0
    BY DEF Tiles
  <2> QED BY <2>1, <2>2 DEF EntryType
<1> DEFINE Wrong == {k \in 0 .. Len(s) - 1 : ~(s[Len(s) - k].offset + s[Len(s) - k].size <= b)}
<1>3. SUFFICES ASSUME Wrong # {} PROVE FALSE
  <2>1. Len(s) - i \in 0 .. Len(s) - 1 /\ Len(s) - (Len(s) - i) = i
    BY <1>1
  <2> QED BY <1>2, <2>1
<1>4. Wrong \subseteq Nat
  BY <1>1
<1> HIDE DEF Wrong
<1>5. PICK m \in Wrong : \A k \in Wrong : m <= k
  BY <1>3, <1>4, LeastNatural
<1> DEFINE j == Len(s) - m
<1>6. m \in 0 .. Len(s) - 1 /\ ~(s[j].offset + s[j].size <= b)
  BY <1>5 DEF Wrong
<1>7. m # 0
  <2>1. s # <<>> /\ s[Len(s)].offset + s[Len(s)].size = b
    BY <1>1, <1>6 DEF Tiles
  <2> QED BY <1>1, <1>6, <2>1
<1>8. m - 1 \in 0 .. Len(s) - 1 /\ m - 1 \notin Wrong
  BY <1>1, <1>5, <1>6, <1>7
<1>9. Len(s) - (m - 1) = j + 1 /\ j \in 1 .. Len(s) - 1 /\ j + 1 \in 1 .. Len(s) /\ j \in 1 .. Len(s)
  BY <1>1, <1>6, <1>7
<1> HIDE DEF j
<1>10. s[j + 1].offset + s[j + 1].size <= b
  BY <1>8, <1>9 DEF Wrong
<1>11. s[j + 1].offset = s[j].offset + s[j].size
  BY <1>9 DEF Tiles
<1> QED BY <1>1, <1>2, <1>6, <1>9, <1>10, <1>11

-----------------------------------------------------------------------------
(***************************************************************************)
(* Cut                                                                     *)
(***************************************************************************)

\* An entry that lies in another.
Fits(top) ==
    {e \in EntryType : e.offset >= top.offset /\ e.offset + e.size <= top.offset + top.size}

LEMMA GapTiles ==
    ASSUME NEW top \in EntryType, NEW from \in Nat, NEW to \in Nat, from <= to
    PROVE  Tiles(Gap(top, from, to), from, to)
<1>1. CASE from = to
  BY <1>1, TilesNone DEF Gap
<1>2. CASE from # to
  <2> DEFINE e == Entry(from, to - from, top.high_entropy, FALSE)
  <2>1. to - from \in Nat /\ to - from # 0 /\ top.high_entropy \in BOOLEAN
    BY <1>2 DEF EntryType
  <2>2. e \in EntryType /\ e.offset = from /\ e.size = to - from
    BY <2>1 DEF Entry, EntryType
  <2>3. Gap(top, from, to) = <<e>>
    BY <1>2 DEF Gap
  <2> HIDE DEF e
  <2>4. Tiles(<<e>>, from, from + (to - from))
    BY <2>1, <2>2, TilesOne
  <2> QED BY <2>3, <2>4
<1> QED BY <1>1, <1>2

LEMMA NextIsLeft ==
    ASSUME NEW entries, entries \subseteq EntryType, NEW cur \in Nat, Left(entries, cur) # {}
    PROVE  NextOf(entries, cur) \in Left(entries, cur)
<1> DEFINE left == Left(entries, cur)
           offsets == {e.offset : e \in left}
<1>1. \A e \in left : e.offset \in Nat /\ e.size \in Nat
  BY DEF Left, EntryType
<1>2. left # {}
  OBVIOUS
<1>3. NextOf(entries, cur) = CHOOSE e \in left : \A d \in left : ~Earlier(d, e)
  BY DEF NextOf
<1> HIDE DEF left
<1>4. PICK o \in offsets : \A p \in offsets : o <= p
  BY <1>1, <1>2, LeastNatural
<1> DEFINE sizes == {e.size : e \in {d \in left : d.offset = o}}
<1>5. PICK n \in sizes : \A k \in sizes : n <= k
  <2>1. sizes \subseteq Nat /\ sizes # {}
    BY <1>1, <1>4
  <2> HIDE DEF sizes
  <2> QED BY <2>1, LeastNatural
<1>6. PICK e \in left : e.offset = o /\ e.size = n
  BY <1>5
<1>7. \A d \in left : ~Earlier(d, e)
  <2> SUFFICES ASSUME NEW d \in left, Earlier(d, e) PROVE FALSE
    OBVIOUS
  <2>1. d.offset \in offsets /\ o <= d.offset
    BY <1>4
  <2>2. d.offset = o /\ d.size < n
    BY <1>1, <1>4, <1>6, <2>1 DEF Earlier
  <2>3. n <= d.size
    BY <1>5, <2>2
  <2> QED BY <1>1, <1>5, <1>6, <2>2, <2>3
<1> QED BY <1>3, <1>7 DEF left

\* What process_iter makes of a place, from what it makes of later ones.
Step(top, entries, cut, cur) ==
    IF Left(entries, cur) = {} THEN Gap(top, cur, top.offset + top.size)
    ELSE LET e == NextOf(entries, cur)
         IN  Gap(top, cur, e.offset) \o <<e>> \o cut[e.offset + e.size]

\* The next member lies in the rest of the entry and is not empty.
LEMMA NextFits ==
    ASSUME NEW top \in EntryType, NEW entries, entries \subseteq Fits(top),
           NEW cur \in Nat, Left(entries, cur) # {}
    PROVE  LET e == NextOf(entries, cur)
           IN  /\ e \in EntryType /\ e.size # 0 /\ e.offset \in Nat /\ e.size \in Nat
               /\ cur <= e.offset
               /\ e.offset + e.size \in cur + 1 .. top.offset + top.size
<1> DEFINE e == NextOf(entries, cur)
<1>1. entries \subseteq EntryType
  BY DEF Fits
<1>2. e \in Left(entries, cur)
  BY <1>1, NextIsLeft
<1> HIDE DEF e
<1>3. e \in Fits(top) /\ e.offset >= cur /\ e.size # 0
  BY <1>2 DEF Left
<1>4. e \in EntryType /\ e.offset + e.size <= top.offset + top.size
  BY <1>3 DEF Fits
<1>5. e.offset \in Nat /\ e.size \in Nat /\ top.offset \in Nat /\ top.size \in Nat
  BY <1>4 DEF EntryType
<1> QED BY <1>3, <1>4, <1>5 DEF e

\* What is made of a place rests on what is made of later ones only.
LEMMA StepLooksAhead ==
    ASSUME NEW top \in EntryType, NEW entries, entries \subseteq Fits(top),
           NEW cur \in Nat, NEW f, NEW g,
           \A k \in cur + 1 .. top.offset + top.size : f[k] = g[k]
    PROVE  Step(top, entries, f, cur) = Step(top, entries, g, cur)
<1>1. CASE Left(entries, cur) = {}
  BY <1>1 DEF Step
<1>2. CASE Left(entries, cur) # {}
  <2> DEFINE e == NextOf(entries, cur)
  <2>1. e.offset + e.size \in cur + 1 .. top.offset + top.size
    BY <1>2, NextFits
  <2>2. f[e.offset + e.size] = g[e.offset + e.size]
    BY <2>1
  <2> QED BY <1>2, <2>2 DEF Step
<1> QED BY <1>1, <1>2

\* process_iter ends: there is what it makes of each place.
LEMMA CutExists ==
    ASSUME NEW top \in EntryType, NEW entries, entries \subseteq Fits(top)
    PROVE  \E f : f = [cur \in top.offset .. top.offset + top.size |-> Step(top, entries, f, cur)]
<1> DEFINE lo == top.offset
           hi == top.offset + top.size
           Is(f, k) == f = [cur \in k .. hi |-> Step(top, entries, f, cur)]
           Wrong == {n \in 0 .. top.size : ~ \E f : Is(f, hi - n)}
<1>1. lo \in Nat /\ top.size \in Nat /\ hi \in Nat /\ hi - top.size = lo
  BY DEF EntryType
<1>2. SUFFICES ASSUME Wrong # {} PROVE FALSE
  <2>1. top.size \in 0 .. top.size
    BY <1>1
  <2>2. PICK f : Is(f, lo)
    BY <1>1, <2>1
  <2> QED BY <2>2
<1>3. PICK m \in Wrong : \A n \in Wrong : m <= n
  <2>1. Wrong \subseteq Nat
    OBVIOUS
  <2> HIDE DEF Wrong
  <2> QED BY <1>2, <2>1, LeastNatural
<1>4. m \in 0 .. top.size /\ ~ \E f : Is(f, hi - m)
  BY <1>3
<1>5. m # 0
  <2> SUFFICES ASSUME m = 0 PROVE FALSE
    OBVIOUS
  <2> DEFINE f == [cur \in hi .. hi |-> Gap(top, cur, hi)]
  <2>1. Left(entries, hi) = {}
    <3>1. hi + 1 .. hi = {}
      BY <1>1
    <3> HIDE DEF hi
    <3>2. Left(entries, hi) # {} => NextOf(entries, hi).offset + NextOf(entries, hi).size \in hi + 1 .. hi
      BY <1>1, NextFits DEF hi
    <3> QED BY <3>1, <3>2
  <2>2. ASSUME NEW cur \in hi .. hi PROVE Step(top, entries, f, cur) = Gap(top, cur, hi)
    <3>1. cur = hi
      BY <1>1
    <3> QED BY <2>1, <3>1 DEF Step
  <2>3. f = [cur \in hi .. hi |-> Step(top, entries, f, cur)]
    BY <2>2
  <2>4. hi - m = hi
    BY <1>1
  <2> HIDE DEF f, hi
  <2> QED BY <1>4, <2>3, <2>4
<1>6. PICK f : Is(f, hi - (m - 1))
  <2>1. m - 1 \in 0 .. top.size /\ m - 1 < m
    BY <1>1, <1>4, <1>5
  <2>2. m - 1 \notin Wrong
    <3> HIDE DEF Wrong
    <3> QED BY <1>1, <1>3, <1>4, <2>1
  <2> QED BY <2>1, <2>2
<1> DEFINE k == hi - m
           g == [cur \in k .. hi |-> IF cur = k THEN Step(top, entries, f, cur) ELSE f[cur]]
<1>7. k \in Nat /\ hi - (m - 1) = k + 1 /\ k <= hi
  BY <1>1, <1>4
<1>8. f = [cur \in k + 1 .. hi |-> Step(top, entries, f, cur)]
  BY <1>6, <1>7
<1> HIDE DEF k
<1>9. \A cur \in k + 1 .. hi : g[cur] = f[cur]
  BY <1>1, <1>7
<1>10. ASSUME NEW cur \in k .. hi PROVE g[cur] = Step(top, entries, g, cur)
  <2>1. cur \in Nat /\ \A j \in cur + 1 .. hi : f[j] = g[j]
    BY <1>1, <1>7, <1>9
  <2>2. Step(top, entries, f, cur) = Step(top, entries, g, cur)
    <3> HIDE DEF g
    <3> QED BY <2>1, StepLooksAhead
  <2>3. CASE cur = k
    BY <2>2, <2>3
  <2>4. CASE cur # k
    <3>1. cur \in k + 1 .. hi
      BY <1>1, <1>7, <2>4
    <3>2. f[cur] = Step(top, entries, f, cur)
      BY <1>8, <3>1
    <3>3. g[cur] = f[cur]
      BY <1>9, <3>1
    <3> QED BY <2>2, <3>2, <3>3
  <2> QED BY <2>3, <2>4
<1>11. g = [cur \in k .. hi |-> Step(top, entries, g, cur)]
  <2>1. g = [cur \in k .. hi |-> g[cur]]
    OBVIOUS
  <2> HIDE DEF g
  <2> QED BY <1>10, <2>1
<1> HIDE DEF g, hi
<1> QED BY <1>4, <1>11 DEF k

\* The members and the gaps cover the entry.
LEMMA CutTiles ==
    ASSUME NEW top \in EntryType, NEW entries, entries \subseteq Fits(top)
    PROVE  Tiles(Cut(top, entries), top.offset, top.offset + top.size)
<1> DEFINE lo == top.offset
           hi == top.offset + top.size
           cut == CHOOSE f : f = [cur \in lo .. hi |-> Step(top, entries, f, cur)]
           Wrong == {n \in 0 .. top.size : ~Tiles(cut[hi - n], hi - n, hi)}
<1>1. lo \in Nat /\ top.size \in Nat /\ hi \in Nat /\ hi - top.size = lo
  BY DEF EntryType
<1>2. cut = [cur \in lo .. hi |-> Step(top, entries, cut, cur)]
  BY CutExists
<1>3. Cut(top, entries) = cut[lo]
  BY DEF Cut, Step
<1> HIDE DEF cut
<1>4. SUFFICES ASSUME Wrong # {} PROVE FALSE
  <2>1. top.size \in 0 .. top.size
    BY <1>1
  <2> QED BY <1>1, <1>3, <2>1
<1>5. PICK m \in Wrong : \A n \in Wrong : m <= n
  <2>1. Wrong \subseteq Nat
    OBVIOUS
  <2> HIDE DEF Wrong
  <2> QED BY <1>4, <2>1, LeastNatural
<1> DEFINE cur == hi - m
<1>6. m \in 0 .. top.size /\ ~Tiles(cut[cur], cur, hi)
  BY <1>5
<1>7. cur \in lo .. hi /\ cur \in Nat /\ cur <= hi
  BY <1>1, <1>6
<1>8. cut[cur] = Step(top, entries, cut, cur)
  BY <1>2, <1>7
<1>9. ASSUME NEW j \in cur + 1 .. hi PROVE Tiles(cut[j], j, hi)
  <2>1. hi - j \in 0 .. top.size /\ hi - j < m /\ hi - (hi - j) = j
    BY <1>1, <1>6
  <2>2. hi - j \notin Wrong
    <3> HIDE DEF Wrong
    <3> QED BY <1>1, <1>5, <1>6, <2>1
  <2> QED BY <2>1, <2>2
<1> HIDE DEF Wrong, cur
<1>10. CASE Left(entries, cur) = {}
  <2>1. Tiles(Gap(top, cur, hi), cur, hi)
    <3> HIDE DEF hi
    <3> QED BY <1>1, <1>7, GapTiles
  <2> QED BY <1>6, <1>8, <1>10, <2>1 DEF Step
<1>11. CASE Left(entries, cur) # {}
  <2> DEFINE e == NextOf(entries, cur)
             end == e.offset + e.size
  <2>1. /\ e \in EntryType /\ e.size # 0 /\ e.offset \in Nat /\ e.size \in Nat
        /\ cur <= e.offset /\ end \in cur + 1 .. hi
    BY <1>7, <1>11, NextFits
  <2>2. cut[cur] = Gap(top, cur, e.offset) \o <<e>> \o cut[end]
    BY <1>8, <1>11 DEF Step
  <2> HIDE DEF e
  <2>3. Tiles(Gap(top, cur, e.offset), cur, e.offset)
    BY <1>7, <2>1, GapTiles
  <2>4. Tiles(<<e>>, e.offset, end)
    BY <2>1, TilesOne
  <2>5. Tiles(cut[end], end, hi)
    BY <1>9, <2>1
  <2> HIDE DEF end, hi
  <2>6. Tiles(Gap(top, cur, e.offset) \o <<e>>, cur, end)
    BY <2>3, <2>4, TilesJoin
  <2>7. Tiles(Gap(top, cur, e.offset) \o <<e>> \o cut[end], cur, hi)
    BY <2>5, <2>6, TilesJoin
  <2> QED BY <1>6, <2>2, <2>7
<1> QED BY <1>10, <1>11

-----------------------------------------------------------------------------
(***************************************************************************)
(* Members                                                                 *)
(***************************************************************************)

LEMMA EntryFits ==
    ASSUME NEW top \in EntryType, NEW offset \in Nat, NEW size \in Nat,
           Inside(top, offset, size), NEW high \in BOOLEAN, NEW nest \in BOOLEAN
    PROVE  Entry(top.offset + offset, size, high, nest) \in Fits(top)
<1> DEFINE e == Entry(top.offset + offset, size, high, nest)
<1>1. top.offset \in Nat /\ top.size \in Nat
  BY DEF EntryType
<1>2. e \in EntryType /\ e.offset = top.offset + offset /\ e.size = size
  <2>1. top.offset + offset \in Nat
    BY <1>1
  <2> QED BY <2>1 DEF Entry, EntryType
<1> HIDE DEF e
<1>3. offset <= top.size /\ size <= top.size - offset
  BY DEF Inside
<1>4. e.offset >= top.offset /\ e.offset + e.size <= top.offset + top.size
  BY <1>1, <1>2, <1>3
<1> QED BY <1>2, <1>4 DEF Fits, e

LEMMA AlignUpType ==
    ASSUME NEW n \in Nat
    PROVE  AlignUp(n) \in Nat
<1> DEFINE q == (n + Align - 1) \div Align
<1>1. Align \in Nat \ {0} /\ n + Align - 1 \in Nat
  BY SizesAssumption
<1>2. q \in Nat
  BY <1>1
<1> HIDE DEF q
<1>3. q * Align \in Nat
  BY <1>1, <1>2
<1> QED BY <1>3 DEF AlignUp, q

\* What is known of a header that a processor may find.
LEMMA HeaderType ==
    ASSUME NEW t \in Totals, NEW n \in 1 .. t, NEW h \in Headers(n)
    PROVE  /\ h.toc \in Nat /\ h.data \in Nat
           /\ h.descs \in Seq(ToSet(h.descs)) /\ Len(h.descs) \in Nat
           /\ \A i \in 1 .. Len(h.descs) : h.descs[i] \in ToSet(h.descs)
           /\ \A d \in ToSet(h.descs) : d.offset \in Nat /\ d.size \in Nat
           /\ h.kind = "mac_exe" =>
                \A d \in ToSet(h.descs) : \A s \in ToSet(d.sections) : s.offset \in Nat /\ s.size \in Nat
           /\ h.kind \in {"wad", "wpk", "zip"} => \A d \in ToSet(h.descs) : d.plain \in BOOLEAN
<1>1. h.descs \in Seq(ToSet(h.descs))
  BY HeadersAssumption
<1>2. Len(h.descs) \in Nat /\ DOMAIN h.descs = 1 .. Len(h.descs)
  BY <1>1
<1>3. \A i \in 1 .. Len(h.descs) : h.descs[i] \in ToSet(h.descs)
  BY <1>2 DEF ToSet
<1>4. /\ h.toc \in Nat /\ h.data \in Nat
      /\ \A d \in ToSet(h.descs) : Within(d)
      /\ h.kind = "mac_exe" => \A d \in ToSet(h.descs) : \A s \in ToSet(d.sections) : Within(s)
      /\ h.kind \in {"wad", "wpk", "zip"} => \A d \in ToSet(h.descs) : d.plain \in BOOLEAN
  BY HeadersAssumption
<1> QED BY <1>1, <1>2, <1>3, <1>4 DEF Within

\* The samples of a bank begin at natural numbers.
LEMMA EndsOfType ==
    ASSUME NEW t \in Totals, NEW n \in 1 .. t, NEW h \in Headers(n), NEW i \in 0 .. Len(h.descs)
    PROVE  EndsOf(h)[i] \in Nat
<1> DEFINE m == Len(h.descs)
           F(f) == [k \in 0 .. m |-> IF k = 0 THEN h.toc ELSE f[k - 1] + AlignUp(h.descs[k].size)]
           Is(f, j) == /\ f \in [0 .. j -> Nat]
                       /\ f[0] = h.toc
                       /\ \A k \in 1 .. j : f[k] = f[k - 1] + AlignUp(h.descs[k].size)
           Wrong == {j \in 0 .. m : ~ \E f : Is(f, j)}
<1>1. m \in Nat /\ h.toc \in Nat
  BY HeaderType
<1>2. \A k \in 1 .. m : AlignUp(h.descs[k].size) \in Nat
  BY HeaderType, AlignUpType
<1>3. \E f : Is(f, m)
  <2>1. SUFFICES ASSUME Wrong # {} PROVE FALSE
    <3>1. m \in 0 .. m
      BY <1>1
    <3> QED BY <3>1
  <2>2. PICK j \in Wrong : \A k \in Wrong : j <= k
    <3>1. Wrong \subseteq Nat
      OBVIOUS
    <3> HIDE DEF Wrong
    <3> QED BY <2>1, <3>1, LeastNatural
  <2>3. j \in 0 .. m /\ ~ \E f : Is(f, j)
    BY <2>2
  <2>4. j # 0
    <3> DEFINE f == [k \in 0 .. 0 |-> h.toc]
    <3>1. f \in [0 .. 0 -> Nat] /\ f[0] = h.toc
      BY <1>1
    <3>2. Is(f, 0)
      <4> HIDE DEF f
      <4> QED BY <3>1
    <3> QED BY <2>3, <3>2
  <2>5. PICK f : Is(f, j - 1)
    <3>1. j - 1 \in 0 .. m /\ j - 1 < j
      BY <2>3, <2>4
    <3>2. j - 1 \notin Wrong
      <4> HIDE DEF Wrong
      <4> QED BY <2>2, <2>3, <3>1
    <3> QED BY <3>1, <3>2
  <2> DEFINE a == AlignUp(h.descs[j].size)
             g == [k \in 0 .. j |-> IF k = j THEN f[j - 1] + a ELSE f[k]]
  <2>6. a \in Nat
    BY <1>2, <2>3, <2>4
  <2> HIDE DEF a
  <2>7. g \in [0 .. j -> Nat] /\ g[0] = h.toc
    BY <2>3, <2>4, <2>5, <2>6
  <2>8. \A k \in 1 .. j : g[k] = g[k - 1] + AlignUp(h.descs[k].size)
    BY <2>3, <2>4, <2>5 DEF a
  <2>9. Is(g, j)
    <3> HIDE DEF g
    <3> QED BY <2>7, <2>8
  <2> QED BY <2>3, <2>9
<1>4. PICK f : Is(f, m)
  BY <1>3
<1>5. f = F(f)
  BY <1>4
<1> DEFINE e == EndsOf(h)
<1>6. e = F(e)
  <2>1. e = CHOOSE g : g = F(g)
    BY DEF EndsOf
  <2> HIDE DEF F, e
  <2> QED BY <1>5, <2>1
<1> HIDE DEF e
<1> HIDE DEF m
<1>7. e[0] = h.toc /\ \A k \in 1 .. m : e[k] = e[k - 1] + AlignUp(h.descs[k].size)
  <2>1. \A k \in 0 .. m : e[k] = IF k = 0 THEN h.toc ELSE e[k - 1] + AlignUp(h.descs[k].size)
    BY <1>6
  <2>2. 0 \in 0 .. m /\ \A k \in 1 .. m : k \in 0 .. m /\ k # 0
    BY <1>1
  <2> QED BY <2>1, <2>2
<1> DEFINE Odd == {k \in 0 .. m : e[k] \notin Nat}
<1>8. Odd = {}
  <2>1. SUFFICES ASSUME Odd # {} PROVE FALSE
    OBVIOUS
  <2>2. PICK j \in Odd : \A k \in Odd : j <= k
    <3>1. Odd \subseteq Nat
      OBVIOUS
    <3> HIDE DEF Odd
    <3> QED BY <2>1, <3>1, LeastNatural
  <2>3. j \in 0 .. m /\ e[j] \notin Nat
    BY <2>2
  <2>4. j \in 1 .. m
    BY <1>1, <1>7, <2>3
  <2>5. e[j - 1] \in Nat
    <3>1. j - 1 \in 0 .. m /\ j - 1 < j
      BY <1>1, <2>4
    <3>2. j - 1 \notin Odd
      <4> HIDE DEF Odd
      <4> QED BY <1>1, <2>2, <2>4, <3>1
    <3> QED BY <3>1, <3>2
  <2> QED BY <1>2, <1>7, <2>3, <2>4, <2>5
<1> QED BY <1>8 DEF e, m

\* What a processor may say of an entry: its members lie in it.
Sound(r, top) ==
    /\ r.is \in {"no", "error", "throw", "entries"}
    /\ r.entries \subseteq Fits(top)

LEMMA NoneSound ==
    ASSUME NEW top
    PROVE  Sound(No, top) /\ Sound(Error, top) /\ Sound(Throw, top)
BY DEF Sound, No, Error, Throw

LEMMA MembersSound ==
    ASSUME NEW top, NEW members, members \subseteq Fits(top)
    PROVE  Sound(Members(members), top)
BY DEF Sound, Members

LEMMA FsbSound ==
    ASSUME NEW t \in Totals, NEW n \in 1 .. t, NEW h \in Headers(n), NEW top \in EntryType
    PROVE  Sound(TryFsb(top, h), top)
<1> DEFINE members == {Entry(top.offset + EndsOf(h)[i - 1], AlignUp(h.descs[i].size), TRUE, FALSE) :
                            i \in DOMAIN h.descs}
<1>1. CASE TryFsb(top, h) = Error
  BY <1>1, NoneSound
<1>2. CASE TryFsb(top, h) # Error
  <2>1. TryFsb(top, h) = Members(members)
    BY <1>2 DEF TryFsb
  <2>2. \A i \in DOMAIN h.descs : Inside(top, EndsOf(h)[i - 1], AlignUp(h.descs[i].size))
    BY <1>2 DEF TryFsb
  <2>3. ASSUME NEW i \in DOMAIN h.descs
        PROVE  Entry(top.offset + EndsOf(h)[i - 1], AlignUp(h.descs[i].size), TRUE, FALSE) \in Fits(top)
    <3>1. i \in 1 .. Len(h.descs) /\ i - 1 \in 0 .. Len(h.descs)
      BY HeaderType
    <3>2. EndsOf(h)[i - 1] \in Nat
      BY <3>1, EndsOfType
    <3>3. AlignUp(h.descs[i].size) \in Nat
      BY <3>1, HeaderType, AlignUpType
    <3> QED BY <2>2, <3>2, <3>3, EntryFits
  <2>4. members \subseteq Fits(top)
    BY <2>3
  <2> HIDE DEF members
  <2> QED BY <2>1, <2>4, MembersSound
<1> QED BY <1>1, <1>2

LEMMA FollowingIs ==
    ASSUME NEW places, places \subseteq Nat, NEW from \in Nat, NEW p \in places, p > from
    PROVE  /\ Following(places, from) \in places
           /\ Following(places, from) > from
<1> DEFINE behind == {place \in places : place > from}
<1>1. behind \subseteq Nat /\ behind # {}
  OBVIOUS
<1>2. PICK to \in behind : \A place \in behind : to <= place
  <2> HIDE DEF behind
  <2> QED BY <1>1, LeastNatural
<1>3. to \in places /\ to > from /\ \A place \in places : place > from => to <= place
  BY <1>2
<1> QED BY <1>3 DEF Following

LEMMA Fsb5Sound ==
    ASSUME NEW t \in Totals, NEW n \in 1 .. t, NEW h \in Headers(n), NEW top \in EntryType
    PROVE  Sound(TryFsb5(top, h), top)
<1> DEFINE offsets == {d.offset : d \in ToSet(h.descs)}
           SizeAt(from) == Following(offsets \cup {h.data}, from) - from
           members == {Entry(top.offset + h.toc + from, SizeAt(from), TRUE, FALSE) :
                            from \in offsets \ {h.data}}
<1>1. CASE TryFsb5(top, h) = Error
  BY <1>1, NoneSound
<1>2. CASE TryFsb5(top, h) # Error
  <2>1. TryFsb5(top, h) = Members(members)
    BY <1>2 DEF TryFsb5
  <2>2. h.toc + h.data = top.size /\ ~ \E from \in offsets : from > h.data
    BY <1>2 DEF TryFsb5
  <2>3. h.toc \in Nat /\ h.data \in Nat /\ offsets \subseteq Nat
    BY HeaderType
  <2> HIDE DEF offsets
  <2>4. ASSUME NEW from \in offsets \ {h.data}
        PROVE  Entry(top.offset + h.toc + from, SizeAt(from), TRUE, FALSE) \in Fits(top)
    <3> DEFINE to == Following(offsets \cup {h.data}, from)
    <3>1. from \in Nat /\ h.data > from /\ offsets \cup {h.data} \subseteq Nat
      <4>1. from \in offsets /\ from \in Nat /\ from # h.data /\ h.data \in Nat
        BY <2>3
      <4>2. ~ (from > h.data)
        BY <2>2, <4>1
      <4>3. ASSUME NEW b \in Nat, from # b, ~ (from > b) PROVE b > from
        BY <4>1, <4>3
      <4>4. h.data > from
        BY <4>1, <4>2, <4>3
      <4>5. offsets \cup {h.data} \subseteq Nat
        BY <2>3
      <4> QED BY <4>1, <4>4, <4>5
    <3>2. to \in offsets \cup {h.data} /\ to > from
      BY <3>1, FollowingIs
    <3> HIDE DEF to
    <3>3. to \in Nat /\ to <= h.data /\ to - from \in Nat
      BY <2>2, <2>3, <3>1, <3>2
    <3>4. h.toc + from \in Nat /\ h.toc + from <= top.size /\ to - from <= top.size - (h.toc + from)
      BY <2>2, <2>3, <3>1, <3>3
    <3>5. Entry(top.offset + (h.toc + from), to - from, TRUE, FALSE) \in Fits(top)
      BY <3>3, <3>4, EntryFits DEF Inside
    <3>6. top.offset + (h.toc + from) = top.offset + h.toc + from
      BY <2>3, <3>1 DEF EntryType
    <3> QED BY <3>5, <3>6 DEF to
  <2>5. members \subseteq Fits(top)
    <3> HIDE DEF SizeAt
    <3> QED BY <2>4
  <2> HIDE DEF members
  <2> QED BY <2>1, <2>5, MembersSound
<1> QED BY <1>1, <1>2

\* All members of a header lie in the entry, by their descriptions.
LEMMA AllInIs ==
    ASSUME NEW t \in Totals, NEW n \in 1 .. t, NEW h \in Headers(n), NEW top, AllIn(top, h),
           NEW d \in ToSet(h.descs)
    PROVE  Inside(top, d.offset, d.size)
<1>1. PICK i \in DOMAIN h.descs : h.descs[i] = d
  BY DEF ToSet
<1> QED BY <1>1 DEF AllIn

LEMMA LoadSound ==
    ASSUME NEW t \in Totals, NEW n \in 1 .. t, NEW h \in Headers(n), NEW top \in EntryType
    PROVE  Sound(TryLoad(top, h), top) /\ Sound(TryMacFat(top, h), top)
<1> DEFINE members == {Entry(top.offset + d.offset, d.size, FALSE, TRUE) : d \in ToSet(h.descs)}
<1>1. Given(top, h, Never, Yes) = Members(members)
  BY DEF Given, Never, Yes
<1>2. ASSUME AllIn(top, h) PROVE Sound(Members(members), top)
  <2>1. ASSUME NEW d \in ToSet(h.descs)
        PROVE  Entry(top.offset + d.offset, d.size, FALSE, TRUE) \in Fits(top)
    BY <1>2, AllInIs, HeaderType, EntryFits
  <2>2. members \subseteq Fits(top)
    BY <2>1
  <2> HIDE DEF members
  <2> QED BY <2>2, MembersSound
<1> HIDE DEF members
<1>3. Sound(TryLoad(top, h), top)
  BY <1>1, <1>2, NoneSound DEF TryLoad
<1>4. Sound(TryMacFat(top, h), top)
  BY <1>1, <1>2, NoneSound DEF TryMacFat
<1> QED BY <1>3, <1>4

LEMMA PackedSound ==
    ASSUME NEW t \in Totals, NEW n \in 1 .. t, NEW h \in Headers(n), NEW top \in EntryType,
           h.kind \in {"wad", "zip"}
    PROVE  Sound(TryWad(top, h), top) /\ Sound(TryZip(top, h), top)
<1> DEFINE members == {Entry(top.offset + d.offset, d.size, ~d.plain, d.plain) : d \in ToSet(h.descs)}
<1>1. Given(top, h, Packed, Plain) = Members(members)
  BY DEF Given, Packed, Plain
<1>2. ASSUME AllIn(top, h) PROVE Sound(Members(members), top)
  <2>1. ASSUME NEW d \in ToSet(h.descs)
        PROVE  Entry(top.offset + d.offset, d.size, ~d.plain, d.plain) \in Fits(top)
    <3>1. d.plain \in BOOLEAN /\ (~d.plain) \in BOOLEAN
      BY HeaderType
    <3> QED BY <1>2, <3>1, AllInIs, HeaderType, EntryFits
  <2>2. members \subseteq Fits(top)
    BY <2>1
  <2> HIDE DEF members
  <2> QED BY <2>2, MembersSound
<1> HIDE DEF members
<1>3. Sound(TryWad(top, h), top)
  BY <1>1, <1>2, NoneSound DEF TryWad
<1>4. Sound(TryZip(top, h), top)
  BY <1>1, <1>2, NoneSound DEF TryZip
<1> QED BY <1>3, <1>4

LEMMA WpkSound ==
    ASSUME NEW t \in Totals, NEW n \in 1 .. t, NEW h \in Headers(n), NEW top \in EntryType
    PROVE  Sound(TryWpk(top, h), top)
<1> DEFINE used == {d \in ToSet(h.descs) : d.plain}
           members == {Entry(top.offset + d.offset, d.size, TRUE, FALSE) : d \in used}
<1>1. CASE TryWpk(top, h) = Error
  BY <1>1, NoneSound
<1>2. CASE TryWpk(top, h) # Error
  <2>1. TryWpk(top, h) = Members(members) /\ \A d \in used : Inside(top, d.offset, d.size)
    BY <1>2 DEF TryWpk
  <2>2. ASSUME NEW d \in used
        PROVE  Entry(top.offset + d.offset, d.size, TRUE, FALSE) \in Fits(top)
    BY <2>1, HeaderType, EntryFits
  <2>3. members \subseteq Fits(top)
    BY <2>2
  <2> HIDE DEF members
  <2> QED BY <2>1, <2>3, MembersSound
<1> QED BY <1>1, <1>2

LEMMA PeSound ==
    ASSUME NEW t \in Totals, NEW n \in 1 .. t, NEW h \in Headers(n), NEW top \in EntryType
    PROVE  Sound(TryPe(top, h), top)
<1> DEFINE sections == {d \in ToSet(h.descs) : d.size # 0}
           members == {Entry(top.offset + d.offset, d.size, FALSE, FALSE) : d \in sections}
<1>1. CASE TryPe(top, h) \in {Error, Throw}
  BY <1>1, NoneSound
<1>2. CASE TryPe(top, h) \notin {Error, Throw}
  <2>1. TryPe(top, h) = Members(members) /\ \A d \in sections : Inside(top, d.offset, d.size)
    BY <1>2 DEF TryPe
  <2>2. ASSUME NEW d \in sections
        PROVE  Entry(top.offset + d.offset, d.size, FALSE, FALSE) \in Fits(top)
    BY <2>1, HeaderType, EntryFits
  <2>3. members \subseteq Fits(top)
    BY <2>2
  <2> HIDE DEF members
  <2> QED BY <2>1, <2>3, MembersSound
<1> QED BY <1>1, <1>2

LEMMA MacExeSound ==
    ASSUME NEW t \in Totals, NEW n \in 1 .. t, NEW h \in Headers(n), NEW top \in EntryType,
           h.kind = "mac_exe"
    PROVE  Sound(TryMacExe(top, h), top)
<1> DEFINE sections == UNION {Segment(s) : s \in ToSet(h.descs)}
           members == {Entry(top.offset + d.offset, d.size, FALSE, FALSE) : d \in sections}
<1>1. CASE TryMacExe(top, h) = Error
  BY <1>1, NoneSound
<1>2. CASE TryMacExe(top, h) # Error
  <2>1. TryMacExe(top, h) = Members(members) /\ \A d \in sections : Inside(top, d.offset, d.size)
    BY <1>2 DEF TryMacExe
  <2>2. ASSUME NEW d \in sections
        PROVE  d.offset \in Nat /\ d.size \in Nat
    <3>1. PICK s \in ToSet(h.descs) : d \in Segment(s)
      OBVIOUS
    <3>2. d = s \/ d \in ToSet(s.sections)
      BY <3>1 DEF Segment
    <3> QED BY <3>2, HeaderType DEF Within
  <2>3. ASSUME NEW d \in sections
        PROVE  Entry(top.offset + d.offset, d.size, FALSE, FALSE) \in Fits(top)
    BY <2>1, <2>2, EntryFits
  <2>4. members \subseteq Fits(top)
    BY <2>3
  <2> HIDE DEF members
  <2> QED BY <2>1, <2>4, MembersSound
<1> QED BY <1>1, <1>2

\* Whatever a header says, members lie in the entry that it heads.
LEMMA TrySound ==
    ASSUME NEW t \in Totals, NEW n \in 1 .. t, NEW h \in Headers(n), NEW top \in EntryType
    PROVE  Sound(Try(top, h), top)
<1>1. CASE Try(top, h) = No
  BY <1>1, NoneSound
<1>2. CASE Try(top, h) # No
  <2>1. h.kind \in {"fsb", "fsb5", "load", "mac_exe", "mac_fat", "pe", "wad", "wpk", "zip"}
    BY <1>2 DEF Try
  <2>2. /\ h.kind = "fsb" => Try(top, h) = TryFsb(top, h)
        /\ h.kind = "fsb5" => Try(top, h) = TryFsb5(top, h)
        /\ h.kind = "load" => Try(top, h) = TryLoad(top, h)
        /\ h.kind = "mac_exe" => Try(top, h) = TryMacExe(top, h)
        /\ h.kind = "mac_fat" => Try(top, h) = TryMacFat(top, h)
        /\ h.kind = "pe" => Try(top, h) = TryPe(top, h)
        /\ h.kind = "wad" => Try(top, h) = TryWad(top, h)
        /\ h.kind = "wpk" => Try(top, h) = TryWpk(top, h)
        /\ h.kind = "zip" => Try(top, h) = TryZip(top, h)
    BY <1>2 DEF Try
  <2> QED BY <2>1, <2>2, FsbSound, Fsb5Sound, LoadSound, MacExeSound, PeSound, PackedSound, WpkSound
<1> QED BY <1>1, <1>2

-----------------------------------------------------------------------------
(***************************************************************************)
(* Chunks                                                                  *)
(***************************************************************************)
LEMMA SubSeqJoin ==
    ASSUME NEW D, D \in Seq(ToSet(D)), NEW a \in Nat, NEW b \in Nat, a <= b, b <= Len(D)
    PROVE  SubSeq(D, 1, a) \o SubSeq(D, a + 1, b) = SubSeq(D, 1, b)
<1> DEFINE S == ToSet(D)
           u == SubSeq(D, 1, a)
           v == SubSeq(D, a + 1, b)
           w == SubSeq(D, 1, b)
<1>1. D \in Seq(S) /\ Len(D) \in Nat
  OBVIOUS
<1> HIDE DEF S
<1>2. u \in Seq(S) /\ Len(u) = a /\ \A i \in 1 .. a : u[i] = D[i]
  BY <1>1
<1>3. w \in Seq(S) /\ Len(w) = b /\ \A i \in 1 .. b : w[i] = D[i]
  BY <1>1
<1>4. v \in Seq(S) /\ Len(v) = b - a /\ \A i \in 1 .. b - a : v[i] = D[a + i]
  BY <1>1
<1> HIDE DEF u, v, w
<1>5. u \o v \in Seq(S) /\ Len(u \o v) = b
  <2>1. u \o v \in Seq(S) /\ Len(u \o v) = Len(u) + Len(v)
    BY <1>2, <1>4, ConcatProperties
  <2>2. Len(u) + Len(v) = b
    BY <1>2, <1>4
  <2> QED BY <2>1, <2>2
<1>6. \A i \in 1 .. b : (u \o v)[i] = w[i]
  <2> SUFFICES ASSUME NEW i \in 1 .. b PROVE (u \o v)[i] = w[i]
    OBVIOUS
  <2>1. CASE i <= a
    BY <1>2, <1>3, <1>4, <2>1
  <2>2. CASE i > a
    <3>1. i - a \in 1 .. b - a /\ a + (i - a) = i
      BY <2>2
    <3>2. v[i - a] = D[i]
      BY <1>4, <3>1
    <3>3. (u \o v)[i] = v[i - a]
      BY <1>2, <1>4, <2>2, <3>1
    <3> QED BY <1>3, <3>2, <3>3
  <2>3. i <= a \/ i > a
    OBVIOUS
  <2> QED BY <2>1, <2>2, <2>3
<1>7. u \o v = w
  BY <1>3, <1>5, <1>6
<1> QED BY <1>7 DEF u, v, w

\* Tiles over all cells of a file: the data of their chunks, joined, are the file.
LEMMA JoinedIs ==
    ASSUME NEW D, D \in Seq(ToSet(D)), NEW s, Tiles(s, 0, Len(D)),
           NEW list, list \in Seq(ToSet(list)), Len(list) = Len(s),
           \A i \in 1 .. Len(s) :
                list[i][2] = SubSeq(D, s[i].offset + 1, s[i].offset + s[i].size)
    PROVE  Joined(list) = D
<1> DEFINE n == Len(s)
           EndOf(i) == IF i = 0 THEN 0 ELSE s[i].offset + s[i].size
           F(f) == [i \in 0 .. n |-> IF i = 0 THEN <<>> ELSE f[i - 1] \o list[i][2]]
           joined == [i \in 0 .. n |-> SubSeq(D, 1, EndOf(i))]
           data == CHOOSE f : f = F(f)
<1>1. n \in Nat /\ s \in Seq(EntryType) /\ Len(D) \in Nat
  BY DEF Tiles
<1>2. \A i \in 1 .. n : /\ s[i].offset \in Nat /\ s[i].size \in Nat
                        /\ s[i].offset + s[i].size \in Nat
                        /\ s[i].offset + s[i].size <= Len(D)
  BY TilesInside
<1>3. \A i \in 1 .. n : s[i].offset = EndOf(i - 1)
  <2> SUFFICES ASSUME NEW i \in 1 .. n PROVE s[i].offset = EndOf(i - 1)
    OBVIOUS
  <2>1. CASE i = 1
    <3>1. s # <<>>
      BY <1>1
    <3> QED BY <2>1, <3>1 DEF Tiles
  <2>2. CASE i # 1
    <3>1. i - 1 \in 1 .. Len(s) - 1 /\ (i - 1) + 1 = i /\ i - 1 # 0
      BY <1>1, <2>2
    <3>2. s[(i - 1) + 1].offset = s[i - 1].offset + s[i - 1].size
      BY <3>1 DEF Tiles
    <3> QED BY <3>1, <3>2
  <2> QED BY <2>1, <2>2
<1>4. EndOf(n) = Len(D)
  <2>1. CASE n = 0
    BY <1>1, <2>1 DEF Tiles
  <2>2. CASE n # 0
    BY <1>1, <2>2 DEF Tiles
  <2> QED BY <2>1, <2>2
<1>5. joined = F(joined)
  <2>1. SubSeq(D, 1, 0) = <<>>
    OBVIOUS
  <2>2. ASSUME NEW i \in 1 .. n
        PROVE  SubSeq(D, 1, EndOf(i)) = SubSeq(D, 1, EndOf(i - 1)) \o list[i][2]
    <3>1. list[i][2] = SubSeq(D, EndOf(i - 1) + 1, EndOf(i))
      BY <1>1, <1>3
    <3>2. EndOf(i - 1) \in Nat /\ EndOf(i) \in Nat /\ EndOf(i - 1) <= EndOf(i) /\ EndOf(i) <= Len(D)
      BY <1>1, <1>2, <1>3
    <3> HIDE DEF EndOf
    <3> QED BY <3>1, <3>2, SubSeqJoin
  <2>3. \A i \in 1 .. n : i # 0 /\ i - 1 \in 0 .. n
    BY <1>1
  <2>4. \A i \in 0 .. n : i = 0 \/ i \in 1 .. n
    BY <1>1
  <2>5. EndOf(0) = 0
    OBVIOUS
  <2> HIDE DEF EndOf, n
  <2> QED BY <2>1, <2>2, <2>3, <2>4, <2>5
<1>6. data = F(data)
  <2> HIDE DEF F, joined
  <2> QED BY <1>5
<1>7. Joined(list) = data[n]
  BY DEF Joined
<1> HIDE DEF data
<1> DEFINE Wrong == {i \in 0 .. n : data[i] # joined[i]}
<1>8. Wrong = {}
  <2> SUFFICES ASSUME Wrong # {} PROVE FALSE
    OBVIOUS
  <2>1. PICK i \in Wrong : \A k \in Wrong : i <= k
    <3>1. Wrong \subseteq Nat
      BY <1>1
    <3> HIDE DEF Wrong
    <3> QED BY <3>1, LeastNatural
  <2>2. i \in 0 .. n /\ data[i] # joined[i]
    BY <2>1
  <2>3. CASE i = 0
    <3>1. data[0] = <<>> /\ joined[0] = <<>>
      <4>1. 0 \in 0 .. n
        BY <1>1
      <4>2. F(data)[0] = <<>> /\ F(joined)[0] = <<>>
        BY <4>1
      <4> HIDE DEF F, joined
      <4> QED BY <1>5, <1>6, <4>2
    <3> QED BY <2>2, <2>3, <3>1
  <2>4. CASE i # 0
    <3>1. i - 1 \in 0 .. n /\ i - 1 < i
      BY <1>1, <2>2, <2>4
    <3>2. data[i - 1] = joined[i - 1]
      <4>1. i - 1 \notin Wrong
        <5>1. i \in Nat /\ i - 1 \in Nat /\ ~(i <= i - 1)
          BY <1>1, <2>2, <3>1
        <5> HIDE DEF Wrong
        <5> QED BY <2>1, <5>1
      <4> QED BY <3>1, <4>1
    <3>3. F(data)[i] = data[i - 1] \o list[i][2] /\ F(joined)[i] = joined[i - 1] \o list[i][2]
      <4> HIDE DEF joined
      <4> QED BY <2>2, <2>4
    <3>4. data[i] = F(data)[i] /\ joined[i] = F(joined)[i]
      <4> HIDE DEF F, joined
      <4> QED BY <1>5, <1>6
    <3> HIDE DEF F, joined
    <3> QED BY <2>2, <3>2, <3>3, <3>4
  <2> QED BY <2>3, <2>4
<1>9. data[n] = SubSeq(D, 1, Len(D))
  <2>1. n \in 0 .. n
    BY <1>1
  <2>2. data[n] = joined[n]
    BY <1>8, <2>1
  <2> HIDE DEF EndOf
  <2> QED BY <1>4, <2>1, <2>2
<1>10. SubSeq(D, 1, Len(D)) = D
  OBVIOUS
<1> QED BY <1>7, <1>9, <1>10
-----------------------------------------------------------------------------
(***************************************************************************)
(* The inductive invariant                                                 *)
(***************************************************************************)
Cells == UNION {ToSet(data) : data \in ToSet(Data)}
Lists == Seq({"chunk"} \X Seq(Cells))

Types ==
    /\ ArTypeOK
    /\ file \in 1 .. Len(Data) /\ total = Len(Data[file])
    /\ step \in {"cut", "write", "close", "rewrite", "over", "died"}
    /\ manifest \in Seq([list : Lists, stripped : BOOLEAN])

\* What was cut and what is still to be cut are the file.
Cutting ==
    /\ step = "cut" => /\ state = "run"
                       /\ \E place \in Nat : Tiles(out, 0, place) /\ Tiles(work, place, total)
    /\ step = "write" => Tiles(out, 0, total)

\* The members that were found lie in the entry that is cut next.
Finding ==
    found # Unread => /\ work # <<>> /\ IsSmart
                      /\ found.entries \subseteq Fits(TopEntry)

\* The entries before the one of this file are right.
Making ==
    /\ step \in {"cut", "write"} => Len(manifest) = file - 1
    /\ Len(manifest) <= Len(Data)
    /\ \A i \in 1 .. Len(manifest) : Joined(manifest[i].list) = Data[i]

\* What they need, and what was cut of this file, is in the bundle, and is durable
\* in the end, unless the process died in ~RCache.
Storing ==
    /\ step # "died" => \A i \in 1 .. Len(manifest) : VerifyFile(manifest[i], stored)
    /\ step \in {"cut", "write"} => \A k \in 1 .. Len(out) : Id(file, out[k]) \in stored
    /\ step = "write" => IdOfList(Chunks) \in stored
    /\ step = "over" => durable = stored

Inv == Types /\ Cutting /\ Finding /\ Making /\ Storing

\* The entries that may be cut next.
LEMMA NextEntry ==
    ASSUME Inv, step = "cut", work # <<>>
    PROVE  /\ TopEntry \in EntryType /\ TopEntry.offset \in Nat /\ TopEntry.size \in Nat \ {0}
           /\ TopEntry.size \in 1 .. total
           /\ Tiles(out, 0, TopEntry.offset)
           /\ Tiles(Tail(work), TopEntry.offset + TopEntry.size, total)
<1>1. PICK place \in Nat : Tiles(out, 0, place) /\ Tiles(work, place, total)
  BY DEF Inv, Cutting
<1>2. TopEntry = work[1] /\ 1 \in 1 .. Len(work)
  BY <1>1 DEF TopEntry, Tiles
<1>3. /\ work[1] \in EntryType /\ work[1].offset = place /\ work[1].size \in Nat \ {0}
      /\ Tiles(Tail(work), place + work[1].size, total)
  BY <1>1, TilesTail
<1>4. work[1].offset + work[1].size <= total
  BY <1>1, <1>2, TilesInside
<1>5. total \in Nat
  BY <1>1 DEF Tiles
<1> QED BY <1>1, <1>2, <1>3, <1>4, <1>5

\* An entry that is not looked into again, or of which a piece is cut.
LEMMA PieceTiles ==
    ASSUME NEW e \in EntryType, NEW size \in 1 .. e.size
    PROVE  /\ e.size # 0 => Tiles(<<Dumb(e)>>, e.offset, e.offset + e.size)
           /\ Tiles(<<[e EXCEPT !.size = size]>>, e.offset, e.offset + size)
           /\ size # e.size =>
                Tiles(<<[e EXCEPT !.offset = @ + size, !.size = @ - size]>>, e.offset + size, e.offset + e.size)
<1> DEFINE d == Dumb(e)
           p == [e EXCEPT !.size = size]
           r == [e EXCEPT !.offset = @ + size, !.size = @ - size]
<1>1. e.offset \in Nat /\ e.size \in Nat /\ size \in Nat \ {0} /\ size <= e.size
  BY DEF EntryType
<1>2. d \in EntryType /\ d.offset = e.offset /\ d.size = e.size
  BY DEF Dumb, EntryType
<1>3. p \in EntryType /\ p.offset = e.offset /\ p.size = size
  BY <1>1 DEF EntryType
<1>4. r.offset = e.offset + size /\ r.size = e.size - size
  BY DEF EntryType
<1>5. r \in EntryType
  <2>1. e.size - size \in Nat /\ e.offset + size \in Nat
    BY <1>1
  <2> QED BY <2>1 DEF EntryType
<1> HIDE DEF d, p, r
<1>6. e.size # 0 => Tiles(<<d>>, e.offset, e.offset + e.size)
  BY <1>2, TilesOne
<1>7. Tiles(<<p>>, e.offset, e.offset + size)
  BY <1>1, <1>3, TilesOne
<1>8. size # e.size => Tiles(<<r>>, e.offset + size, e.offset + e.size)
  <2> SUFFICES ASSUME size # e.size PROVE Tiles(<<r>>, e.offset + size, e.offset + e.size)
    OBVIOUS
  <2>1. r.size # 0 /\ r.offset + r.size = e.offset + e.size
    BY <1>1, <1>4
  <2>2. Tiles(<<r>>, r.offset, r.offset + r.size)
    BY <1>5, <2>1, TilesOne
  <2> QED BY <1>4, <2>1, <2>2
<1> QED BY <1>6, <1>7, <1>8 DEF d, p, r

LEMMA SizesFit ==
    ASSUME Types, NEW n \in Nat \ {0}, NEW size \in Sizes(n)
    PROVE  size \in 1 .. n
<1>1. ar.chunk_min \in Nat \ {0} /\ ar.chunk_max \in Nat \ {0}
  BY OptionsAssumption DEF Types, ArTypeOK
<1>2. AtMost(n) \in 1 .. n
  BY <1>1 DEF AtMost
<1> QED BY <1>1, <1>2 DEF Sizes

\* The cells of a file, and its chunks.
LEMMA DataType ==
    ASSUME NEW i \in 1 .. Len(Data)
    PROVE  /\ Data[i] \in Seq(ToSet(Data[i])) /\ Data[i] \in Seq(Cells)
           /\ Len(Data[i]) \in Totals /\ Len(Data[i]) \in Nat
<1>1. Data \in Seq(ToSet(Data)) /\ Data[i] \in ToSet(Data)
  BY DataAssumption DEF ToSet
<1>2. Data[i] \in Seq(ToSet(Data[i]))
  BY <1>1, DataAssumption
<1>3. ToSet(Data[i]) \subseteq Cells
  BY <1>1 DEF Cells
<1>4. Data[i] \in Seq(Cells)
  BY <1>2, <1>3
<1>5. DOMAIN Data = 1 .. Len(Data)
  BY <1>1
<1>6. Len(Data[i]) \in Totals
  BY <1>5, DataAssumption
<1> QED BY <1>2, <1>4, <1>6, SizesAssumption

LEMMA WholeTiles ==
    ASSUME NEW n \in Nat
    PROVE  Tiles(Whole(n), 0, n)
<1>1. CASE n = 0
  BY <1>1, TilesNone DEF Whole
<1>2. CASE n # 0
  <2> DEFINE e == Entry(0, n, FALSE, TRUE)
  <2>1. e \in EntryType /\ e.offset = 0 /\ e.size = n
    BY EntryIsTyped
  <2>2. Whole(n) = <<e>>
    BY <1>2 DEF Whole
  <2> HIDE DEF e
  <2>3. Tiles(<<e>>, e.offset, e.offset + e.size)
    BY <1>2, <2>1, TilesOne
  <2> QED BY <2>1, <2>2, <2>3
<1> QED BY <1>1, <1>2

LEMMA PartType ==
    ASSUME NEW S, NEW D \in Seq(S), NEW a \in 1 .. Len(D), NEW b \in a .. Len(D)
    PROVE  SubSeq(D, a, b) \in Seq(S)
<1>1. a \in Int /\ b \in Int /\ \A k \in a .. b : D[k] \in S
  OBVIOUS
<1> QED BY <1>1, SubSeqProperties

LEMMA ChunksType ==
    ASSUME Types, Tiles(out, 0, total)
    PROVE  /\ Chunks \in Lists /\ Len(Chunks) = Len(out)
           /\ \A i \in 1 .. Len(out) : Chunks[i] = Id(file, out[i])
<1>1. out \in Seq(EntryType) /\ DOMAIN out = 1 .. Len(out) /\ Len(out) \in Nat
  BY DEF Types, ArTypeOK
<1>2. Data[file] \in Seq(Cells)
  BY DataType DEF Types
<1>3. ASSUME NEW i \in 1 .. Len(out) PROVE Id(file, out[i]) \in {"chunk"} \X Seq(Cells)
  <2>1. /\ out[i].offset \in Nat /\ out[i].size \in Nat \ {0}
        /\ out[i].offset + out[i].size <= Len(Data[file])
    BY TilesInside DEF Types
  <2> DEFINE a == out[i].offset + 1
             b == out[i].offset + out[i].size
  <2>2. a \in 1 .. Len(Data[file]) /\ b \in a .. Len(Data[file]) /\ Len(Data[file]) \in Nat
    BY <1>2, <2>1
  <2> HIDE DEF a, b
  <2>3. SubSeq(Data[file], a, b) \in Seq(Cells)
    BY <1>2, <2>2, PartType
  <2> QED BY <2>3 DEF Id, a, b
<1> QED BY <1>1, <1>3 DEF Chunks, Lists

LEMMA InitHolds == MakeInit => Inv
<1> SUFFICES ASSUME MakeInit PROVE Inv
  OBVIOUS
<1>1. 1 \in 1 .. Len(Data) /\ total = Len(Data[1]) /\ total \in Nat
  <2>1. Data # <<>> /\ Data \in Seq(ToSet(Data))
    BY DataAssumption
  <2>2. 1 \in 1 .. Len(Data)
    BY <2>1
  <2> QED BY <2>2, DataType DEF MakeInit
<1>2. Tiles(work, 0, total) /\ Tiles(out, 0, 0)
  BY <1>1, WholeTiles, TilesNone DEF MakeInit, ArInit
<1>3. work \in Seq(EntryType) /\ out \in Seq(EntryType)
  BY <1>2 DEF Tiles
<1>4. Types
  <2>1. ArTypeOK
    BY <1>3 DEF ArTypeOK, MakeInit, ArInit, Unread
  <2>2. manifest \in Seq([list : Lists, stripped : BOOLEAN])
    BY DEF MakeInit
  <2> QED BY <1>1, <2>1, <2>2 DEF Types, MakeInit
<1>5. Cutting
  BY <1>2 DEF Cutting, MakeInit, ArInit
<1>6. Finding
  BY DEF Finding, MakeInit, ArInit
<1>7. Making
  BY <1>1 DEF Making, MakeInit
<1>8. Storing
  BY DEF Storing, MakeInit, ArInit
<1> QED BY <1>4, <1>5, <1>6, <1>7, <1>8 DEF Inv

-----------------------------------------------------------------------------
(***************************************************************************)
(* The steps                                                               *)
(***************************************************************************)

\* A step that cuts, and leaves the callback alone.
LEMMA CutKeeps ==
    ASSUME Inv, step = "cut", UNCHANGED <<ar, total, out, store, file, manifest>>,
           state' \in {"run", "thrown"}, step' = IF state' = "thrown" THEN "close" ELSE "cut",
           work' \in Seq(EntryType), errors' \in BOOLEAN,
           found'.is \in {"unread", "no", "error", "throw", "entries"}, found'.entries \subseteq EntryType,
           Finding',
           \E place \in Nat : Tiles(out, 0, place) /\ Tiles(work', place, total)
    PROVE  Inv'
<1>1. Types'
  BY DEF Inv, Types, ArTypeOK
<1>2. Cutting'
  BY DEF Cutting
<1>3. Making'
  BY DEF Inv, Making
<1>4. Storing'
  BY DEF Inv, Storing, VerifyFile, store, Id
<1> QED BY <1>1, <1>2, <1>3, <1>4 DEF Inv

LEMMA LookKeeps == ASSUME Inv, CutFile, Look PROVE Inv'
<1>1. /\ step = "cut" /\ state = "run" /\ work # <<>> /\ IsSmart /\ step' = "cut"
      /\ UNCHANGED <<ar, total, work, out, errors, state, store, file, manifest>>
  BY DEF CutFile, Look
<1>2. PICK h \in Headers(TopEntry.size) : found' = Try(TopEntry, h)
  BY DEF Look
<1>3. TopEntry \in EntryType /\ TopEntry.size \in 1 .. total /\ total \in Totals
  BY <1>1, NextEntry DEF Inv, Types, ArTypeOK
<1>4. Sound(found', TopEntry)
  BY <1>2, <1>3, TrySound
<1>5. Finding'
  BY <1>1, <1>4 DEF Finding, IsSmart, TopEntry, Sound
<1>6. found'.entries \subseteq EntryType
  BY <1>4 DEF Sound, Fits
<1>7. work \in Seq(EntryType) /\ errors \in BOOLEAN
  BY DEF Inv, Types, ArTypeOK
<1>8. \E place \in Nat : Tiles(out, 0, place) /\ Tiles(work, place, total)
  BY <1>1 DEF Inv, Cutting
<1>9. found'.is \in {"unread", "no", "error", "throw", "entries"}
  BY <1>4 DEF Sound
<1> QED BY <1>1, <1>5, <1>6, <1>7, <1>8, <1>9, CutKeeps

\* The rest of the work is tiled behind what replaces its first entry.
LEMMA ReplaceKeeps ==
    ASSUME Inv, step = "cut", work # <<>>, NEW s,
           Tiles(s, TopEntry.offset, TopEntry.offset + TopEntry.size),
           work' = s \o Tail(work), found' = Unread,
           UNCHANGED <<ar, total, out, state, store, file, manifest>>,
           step' = "cut", errors' \in BOOLEAN
    PROVE  Inv'
<1>1. Tiles(out, 0, TopEntry.offset) /\ Tiles(work', TopEntry.offset, total)
  BY NextEntry, TilesJoin
<1>2. work' \in Seq(EntryType) /\ TopEntry.offset \in Nat
  BY <1>1 DEF Tiles
<1>3. state = "run"
  BY DEF Inv, Cutting
<1>4. Finding'
  BY DEF Finding, Unread
<1> QED BY <1>1, <1>2, <1>3, <1>4, CutKeeps DEF Unread

LEMMA SplitKeeps == ASSUME Inv, CutFile, Split PROVE Inv'
<1>1. /\ step = "cut" /\ step' = "cut" /\ found.is = "entries" /\ found' = Unread
      /\ work' = Cut(TopEntry, found.entries) \o Tail(work)
      /\ UNCHANGED <<ar, total, out, errors, state, store, file, manifest>>
  BY DEF CutFile, Split
<1>2. work # <<>> /\ found.entries \subseteq Fits(TopEntry)
  BY <1>1 DEF Inv, Finding, Unread
<1>3. TopEntry \in EntryType
  BY <1>1, <1>2, NextEntry
<1>4. Tiles(Cut(TopEntry, found.entries), TopEntry.offset, TopEntry.offset + TopEntry.size)
  BY <1>2, <1>3, CutTiles
<1>5. errors \in BOOLEAN
  BY DEF Inv, Types, ArTypeOK
<1> QED BY <1>1, <1>2, <1>4, <1>5, ReplaceKeeps

LEMMA DumbKeeps ==
    ASSUME Inv, CutFile, NotAnArchive \/ BadArchive \/ AssertFails
    PROVE  Inv'
<1>1. /\ step = "cut" /\ state = "run" /\ found # Unread /\ found' = Unread
      /\ UNCHANGED <<ar, total, out, store, file, manifest>>
  BY DEF CutFile, NotAnArchive, BadArchive, AssertFails, Unread, Inv, Cutting
<1>2. work # <<>>
  BY <1>1 DEF Inv, Finding
<1>3. errors \in BOOLEAN /\ errors' \in BOOLEAN
  BY DEF Inv, Types, ArTypeOK, NotAnArchive, BadArchive, AssertFails
<1>4. CASE state' = "run"
  <2>1. work' = <<Dumb(TopEntry)>> \o Tail(work) /\ step' = "cut"
    BY <1>4 DEF CutFile, NotAnArchive, BadArchive, AssertFails
  <2>2. Tiles(<<Dumb(TopEntry)>>, TopEntry.offset, TopEntry.offset + TopEntry.size)
    <3>1. TopEntry \in EntryType /\ TopEntry.size \in Nat \ {0}
      BY <1>1, <1>2, NextEntry
    <3>2. TopEntry.size \in 1 .. TopEntry.size
      BY <3>1
    <3> QED BY <3>1, <3>2, PieceTiles
  <2> QED BY <1>1, <1>2, <1>3, <1>4, <2>1, <2>2, ReplaceKeeps
<1>5. CASE state' # "run"
  <2>1. state' = "thrown" /\ work' = work /\ step' = "close"
    BY <1>1, <1>5 DEF CutFile, NotAnArchive, BadArchive, AssertFails
  <2>2. \E place \in Nat : Tiles(out, 0, place) /\ Tiles(work, place, total)
    BY <1>1 DEF Inv, Cutting
  <2>3. work \in Seq(EntryType)
    BY DEF Inv, Types, ArTypeOK
  <2>4. Finding'
    BY <1>1 DEF Finding, Unread
  <2> QED BY <1>1, <1>3, <2>1, <2>2, <2>3, <2>4, CutKeeps DEF Unread
<1> QED BY <1>4, <1>5

\* The bundle only grows.
LEMMA AddedGrows ==
    ASSUME NEW c, Added(c)
    PROVE  stored \subseteq stored' /\ c \in stored'
BY DEF Added, store

LEMMA VerifiedStays ==
    ASSUME NEW f, NEW a, NEW b, a \subseteq b, VerifyFile(f, a)
    PROVE  VerifyFile(f, b)
BY DEF VerifyFile

LEMMA AddChunkKeeps ==
    ASSUME Inv, NEW n, AddChunk(n)
    PROVE  Inv'
<1> DEFINE piece == [TopEntry EXCEPT !.size = n]
           rest == [TopEntry EXCEPT !.offset = @ + n, !.size = @ - n]
<1>1. /\ step = "cut" /\ state = "run" /\ work # <<>> /\ ~IsSmart
      /\ n \in Sizes(TopEntry.size)
      /\ out' = Append(out, piece)
      /\ work' = IF n = TopEntry.size THEN Tail(work) ELSE <<rest>> \o Tail(work)
      /\ UNCHANGED <<ar, total, found, errors, state, file, manifest, step>>
      /\ Added(Id(file, [offset |-> TopEntry.offset, size |-> n]))
  BY DEF AddChunk, Emit
<1>2. /\ TopEntry \in EntryType /\ TopEntry.offset \in Nat /\ TopEntry.size \in Nat \ {0}
      /\ Tiles(out, 0, TopEntry.offset)
      /\ Tiles(Tail(work), TopEntry.offset + TopEntry.size, total)
  BY <1>1, NextEntry
<1>3. n \in 1 .. TopEntry.size
  BY <1>1, <1>2, SizesFit DEF Inv
<1>4. piece \in EntryType
  BY <1>2, <1>3 DEF EntryType
<1>5. piece.offset = TopEntry.offset /\ piece.size = n
  BY <1>2 DEF EntryType
<1>6. Tiles(out', 0, TopEntry.offset + n)
  <2>1. Tiles(<<piece>>, TopEntry.offset, TopEntry.offset + n)
    BY <1>2, <1>3, PieceTiles
  <2>2. out \in Seq(EntryType)
    BY <1>2 DEF Tiles
  <2> HIDE DEF piece
  <2>3. out' = out \o <<piece>>
    BY <1>1, <1>4, <2>2
  <2> QED BY <1>2, <2>1, <2>3, TilesJoin
<1>7. Tiles(work', TopEntry.offset + n, total)
  <2>1. CASE n = TopEntry.size
    BY <1>1, <1>2, <2>1
  <2>2. CASE n # TopEntry.size
    <3>1. Tiles(<<rest>>, TopEntry.offset + n, TopEntry.offset + TopEntry.size)
      BY <1>2, <1>3, <2>2, PieceTiles
    <3> HIDE DEF rest
    <3> QED BY <1>1, <1>2, <2>2, <3>1, TilesJoin
  <2> QED BY <2>1, <2>2
<1> HIDE DEF rest
<1>8. work' \in Seq(EntryType) /\ out' \in Seq(EntryType) /\ TopEntry.offset + n \in Nat
  BY <1>6, <1>7 DEF Tiles
<1>9. Types'
  BY <1>1, <1>8 DEF Inv, Types, ArTypeOK
<1>10. Cutting'
  BY <1>1, <1>6, <1>7, <1>8 DEF Cutting
<1>11. Finding'
  BY <1>1 DEF Inv, Finding
<1>12. Making'
  BY <1>1 DEF Inv, Making
<1>13. Storing'
  <2>1. stored \subseteq stored' /\ Id(file, piece) \in stored'
    BY <1>1, <1>5, AddedGrows DEF Id
  <2>2. \A i \in 1 .. Len(manifest) : VerifyFile(manifest[i], stored')
    BY <1>1, <2>1, VerifiedStays DEF Inv, Storing
  <2>3. \A k \in 1 .. Len(out') : Id(file, out'[k]) \in stored'
    <3> SUFFICES ASSUME NEW k \in 1 .. Len(out') PROVE Id(file, out'[k]) \in stored'
      OBVIOUS
    <3>1. out \in Seq(EntryType)
      BY <1>2 DEF Tiles
    <3> HIDE DEF piece
    <3>2. k \in 1 .. Len(out) \/ k = Len(out) + 1
      BY <1>1, <1>4, <3>1
    <3>3. CASE k \in 1 .. Len(out)
      <4>1. out'[k] = out[k]
        BY <1>1, <1>4, <3>1, <3>3
      <4>2. Id(file, out[k]) \in stored
        BY <1>1, <3>3 DEF Inv, Storing
      <4> QED BY <2>1, <4>1, <4>2
    <3>4. CASE k = Len(out) + 1
      <4>1. out'[k] = piece
        BY <1>1, <1>4, <3>1, <3>4
      <4> QED BY <2>1, <4>1
    <3> QED BY <3>2, <3>3, <3>4
  <2>4. file' = file /\ manifest' = manifest /\ step' = "cut"
    BY <1>1
  <2>5. \A e : Id(file, e)' = Id(file', e')
    BY DEF Id
  <2> QED BY <2>2, <2>3, <2>4 DEF Storing, Id, VerifyFile
<1> QED BY <1>9, <1>10, <1>11, <1>12, <1>13 DEF Inv

LEMMA AddListKeeps == ASSUME Inv, AddList PROVE Inv'
<1>1. /\ step = "cut" /\ state = "run" /\ work = <<>> /\ state' = "done" /\ step' = "write"
      /\ UNCHANGED <<ar, total, work, out, found, errors, file, manifest>>
      /\ Added(IdOfList(Chunks))
  BY DEF AddList, Finish
<1>2. Tiles(out, 0, total)
  <2>1. PICK place \in Nat : Tiles(out, 0, place) /\ Tiles(work, place, total)
    BY <1>1 DEF Inv, Cutting
  <2>2. place = total
    BY <1>1, <2>1 DEF Tiles
  <2> QED BY <2>1, <2>2
<1>3. Types'
  BY <1>1 DEF Inv, Types, ArTypeOK
<1>4. Cutting'
  BY <1>1, <1>2 DEF Cutting
<1>5. Finding'
  BY <1>1 DEF Inv, Finding
<1>6. Making'
  BY <1>1 DEF Inv, Making
<1>7. Storing'
  <2>1. stored \subseteq stored' /\ IdOfList(Chunks) \in stored'
    BY <1>1, AddedGrows
  <2>2. \A i \in 1 .. Len(manifest) : VerifyFile(manifest[i], stored')
    BY <1>1, <2>1, VerifiedStays DEF Inv, Storing
  <2>3. \A k \in 1 .. Len(out) : Id(file, out[k]) \in stored'
    BY <1>1, <2>1 DEF Inv, Storing
  <2>4. Chunks' = Chunks
    BY <1>1 DEF Chunks, Id
  <2> QED BY <1>1, <2>1, <2>2, <2>3, <2>4 DEF Storing, Id, IdOfList, VerifyFile
<1> QED BY <1>3, <1>4, <1>5, <1>6, <1>7 DEF Inv

\* The entry that is written is right, and the bundle has what it needs.
LEMMA WrittenIs ==
    ASSUME Inv, step = "write"
    PROVE  LET f == [list |-> Chunks, stripped |-> Strip /\ Len(Chunks) > 1]
           IN  /\ f \in [list : Lists, stripped : BOOLEAN]
               /\ Joined(f.list) = Data[file]
               /\ VerifyFile(f, stored)
<1> DEFINE f == [list |-> Chunks, stripped |-> Strip /\ Len(Chunks) > 1]
<1>1. Tiles(out, 0, Len(Data[file])) /\ total = Len(Data[file]) /\ file \in 1 .. Len(Data)
  BY DEF Inv, Cutting, Types
<1>2. /\ Chunks \in Lists /\ Len(Chunks) = Len(out)
      /\ \A i \in 1 .. Len(out) : Chunks[i] = Id(file, out[i])
  BY <1>1, ChunksType DEF Inv
<1>3. f.list = Chunks /\ f \in [list : Lists, stripped : BOOLEAN]
  BY <1>2
<1>4. Joined(Chunks) = Data[file]
  <2>1. Data[file] \in Seq(ToSet(Data[file]))
    BY <1>1, DataType
  <2>2. Chunks \in Seq(ToSet(Chunks))
    <3>1. Chunks \in Seq({"chunk"} \X Seq(Cells)) /\ \A i \in DOMAIN Chunks : Chunks[i] \in ToSet(Chunks)
      BY <1>2 DEF Lists, ToSet
    <3> QED BY <3>1
  <2>3. \A i \in 1 .. Len(out) :
            Chunks[i][2] = SubSeq(Data[file], out[i].offset + 1, out[i].offset + out[i].size)
    BY <1>2 DEF Id
  <2> QED BY <1>1, <1>2, <2>1, <2>2, <2>3, JoinedIs
<1>5. VerifyFile(f, stored)
  <2>1. IdOfList(Chunks) \in stored
    BY DEF Inv, Storing
  <2>2. \A k \in DOMAIN Chunks : Chunks[k] \in stored
    <3>1. DOMAIN Chunks = 1 .. Len(out)
      BY <1>2 DEF Lists
    <3> QED BY <1>2, <3>1 DEF Inv, Storing
  <2> QED BY <1>3, <2>1, <2>2 DEF VerifyFile
<1> QED BY <1>3, <1>4, <1>5

LEMMA WriteKeeps == ASSUME Inv, Write PROVE Inv'
<1> DEFINE f == [list |-> Chunks, stripped |-> Strip /\ Len(Chunks) > 1]
           T == [list : Lists, stripped : BOOLEAN]
<1>1. /\ step = "write" /\ manifest' = Append(manifest, f) /\ NextFile
      /\ UNCHANGED <<stored, durable, damaged>>
  BY DEF Write, store
<1>2. f \in T /\ Joined(f.list) = Data[file] /\ VerifyFile(f, stored)
  BY <1>1, WrittenIs
<1>3. manifest \in Seq(T) /\ file \in 1 .. Len(Data) /\ Len(manifest) = file - 1
  BY <1>1 DEF Inv, Types, Making
<1> HIDE DEF f, T
<1>4. /\ manifest' \in Seq(T) /\ Len(manifest') = file
      /\ \A i \in 1 .. file - 1 : manifest'[i] = manifest[i]
      /\ manifest'[file] = f
  BY <1>1, <1>2, <1>3
<1>5. /\ \A i \in 1 .. Len(manifest') : Joined(manifest'[i].list) = Data[i]
      /\ \A i \in 1 .. Len(manifest') : VerifyFile(manifest'[i], stored)
  <2> SUFFICES ASSUME NEW i \in 1 .. file
               PROVE  Joined(manifest'[i].list) = Data[i] /\ VerifyFile(manifest'[i], stored)
    BY <1>4
  <2>1. CASE i = file
    BY <1>2, <1>4, <2>1
  <2>2. CASE i # file
    <3>1. i \in 1 .. file - 1 /\ i \in 1 .. Len(manifest)
      BY <1>3, <2>2
    <3> QED BY <1>1, <1>4, <3>1 DEF Inv, Making, Storing
  <2> QED BY <2>1, <2>2
<1>6. CASE file = Len(Data)
  <2>1. step' = "close" /\ UNCHANGED <<ar, total, work, out, found, errors, state, file>>
    BY <1>1, <1>6 DEF NextFile, arvars
  <2>2. Types'
    BY <1>4, <2>1 DEF Inv, Types, ArTypeOK, T
  <2>3. Cutting' /\ Finding'
    BY <2>1 DEF Inv, Cutting, Finding, IsSmart, TopEntry
  <2>4. Making'
    BY <1>3, <1>4, <1>5, <2>1 DEF Making
  <2>5. Storing'
    BY <1>1, <1>5, <2>1 DEF Storing, VerifyFile
  <2> QED BY <2>2, <2>3, <2>4, <2>5 DEF Inv
<1>7. CASE file # Len(Data)
  <2>1. /\ step' = "cut" /\ file' = file + 1 /\ total' = Len(Data[file']) /\ work' = Whole(total')
        /\ out' = <<>> /\ found' = Unread /\ errors' = FALSE /\ state' = "run" /\ ar' = ar
    BY <1>1, <1>7 DEF NextFile
  <2>2. file' \in 1 .. Len(Data) /\ Len(Data) \in Nat
    <3>1. Len(Data) \in Nat
      BY DataAssumption
    <3> QED BY <1>3, <1>7, <2>1, <3>1
  <2>3. total' \in Totals /\ total' \in Nat
    BY <2>1, <2>2, DataType
  <2>4. Tiles(work', 0, total') /\ Tiles(out', 0, 0)
    BY <2>1, <2>3, WholeTiles, TilesNone
  <2>5. work' \in Seq(EntryType) /\ out' \in Seq(EntryType)
    BY <2>4 DEF Tiles
  <2>6. ArTypeOK'
    BY <2>1, <2>3, <2>5 DEF Inv, Types, ArTypeOK, Unread
  <2>7. Types'
    BY <1>4, <2>1, <2>2, <2>6 DEF Types, T
  <2>8. Cutting'
    BY <2>1, <2>4 DEF Cutting
  <2>9. Finding'
    BY <2>1 DEF Finding, Unread
  <2>10. Making'
    BY <1>3, <1>4, <1>5, <2>1, <2>2 DEF Making
  <2>11. Storing'
    BY <1>1, <1>5, <2>1 DEF Storing, VerifyFile
  <2> QED BY <2>7, <2>8, <2>9, <2>10, <2>11 DEF Inv
<1> QED BY <1>6, <1>7

LEMMA ThrowsKeeps == ASSUME Inv, Throws PROVE Inv'
<1>1. /\ step = "cut" /\ step' = "close"
      /\ UNCHANGED <<ar, total, work, out, found, errors, state, stored, durable, damaged, file, manifest>>
  BY DEF Throws, arvars, store
<1>2. Types' /\ Cutting' /\ Finding' /\ Making'
  BY <1>1 DEF Inv, Types, ArTypeOK, Cutting, Finding, Making, IsSmart, TopEntry
<1>3. Storing'
  BY <1>1 DEF Inv, Storing, VerifyFile
<1> QED BY <1>2, <1>3 DEF Inv

\* A failed write ends add_file, with nothing lost that the bundle had.
LEMMA AddFailsKeeps == ASSUME Inv, NEW c, AddFails(c) PROVE Inv'
<1>1. /\ step = "cut" /\ step' = "rewrite" /\ stored \subseteq stored'
      /\ UNCHANGED <<ar, total, work, out, found, errors, state, damaged, file, manifest>>
  BY DEF AddFails, arvars
<1>2. Types' /\ Cutting' /\ Finding' /\ Making'
  BY <1>1 DEF Inv, Types, ArTypeOK, Cutting, Finding, Making, IsSmart, TopEntry
<1>3. Storing'
  <2>1. \A i \in 1 .. Len(manifest) : VerifyFile(manifest[i], stored')
    BY <1>1, VerifiedStays DEF Inv, Storing
  <2> QED BY <1>1, <2>1 DEF Storing, VerifyFile
<1> QED BY <1>2, <1>3 DEF Inv

LEMMA CloseKeeps == ASSUME Inv, Close PROVE Inv'
<1>1. /\ step \in {"close", "rewrite"} /\ step' = "over" /\ stored' = stored /\ durable' = stored
      /\ UNCHANGED <<ar, total, work, out, found, errors, state, file, manifest>>
  BY DEF Close, Store!End, arvars
<1>2. Types' /\ Cutting' /\ Finding' /\ Making'
  BY <1>1 DEF Inv, Types, ArTypeOK, Cutting, Finding, Making, IsSmart, TopEntry
<1>3. Storing'
  BY <1>1 DEF Inv, Storing, VerifyFile
<1> QED BY <1>2, <1>3 DEF Inv

LEMMA CloseFailsKeeps == ASSUME Inv, CloseFails PROVE Inv'
<1>1. step' = "died" /\ UNCHANGED <<ar, total, work, out, found, errors, state, file, manifest>>
  BY DEF CloseFails, arvars
<1>2. Types' /\ Cutting' /\ Finding' /\ Making'
  BY <1>1 DEF Inv, Types, ArTypeOK, Cutting, Finding, Making, IsSmart, TopEntry
<1>3. Storing'
  BY <1>1 DEF Storing
<1> QED BY <1>2, <1>3 DEF Inv

LEMMA StepKeeps == Inv /\ [MakeNext]_makevars => Inv'
<1> SUFFICES ASSUME Inv, [MakeNext]_makevars PROVE Inv'
  OBVIOUS
<1>1. CASE CutFile
  BY <1>1, LookKeeps, SplitKeeps, DumbKeeps DEF CutFile
<1>2. ASSUME NEW n, AddChunk(n) PROVE Inv'
  BY <1>2, AddChunkKeeps
<1>3. CASE AddList
  BY <1>3, AddListKeeps
<1>4. CASE Write
  BY <1>4, WriteKeeps
<1>5. CASE Throws
  BY <1>5, ThrowsKeeps
<1>6. CASE Close
  BY <1>6, CloseKeeps
<1>7. ASSUME NEW n, AddChunkFails(n) PROVE Inv'
  BY <1>7, AddFailsKeeps DEF AddChunkFails
<1>8. CASE AddListFails
  BY <1>8, AddFailsKeeps DEF AddListFails
<1>9. CASE CloseFails
  BY <1>9, CloseFailsKeeps
<1>10. CASE UNCHANGED makevars
  <2>1. UNCHANGED <<ar, total, work, out, found, errors, state, stored, durable, damaged, file, manifest, step>>
    BY <1>10 DEF makevars, arvars, store
  <2>2. Types' /\ Cutting' /\ Finding' /\ Making'
    BY <2>1 DEF Inv, Types, ArTypeOK, Cutting, Finding, Making, IsSmart, TopEntry
  <2>3. Storing'
    BY <2>1 DEF Inv, Storing, VerifyFile, IdOfList, Chunks, Id
  <2> QED BY <2>2, <2>3 DEF Inv
<1> QED BY <1>1, <1>2, <1>3, <1>4, <1>5, <1>6, <1>7, <1>8, <1>9, <1>10 DEF MakeNext

\* For all files, options and headers: the chunks of every entry that is written
\* are the file, whatever the processors made of it.
THEOREM CutIsWhole == MakeSpec => []MadeRight
<1>1. Inv => MadeRight
  <2> SUFFICES ASSUME Inv PROVE MadeRight
    OBVIOUS
  <2>1. DOMAIN manifest = 1 .. Len(manifest)
    BY DEF Inv, Types
  <2> QED BY <2>1 DEF Inv, Making, MadeRight
<1> QED BY <1>1, InitHolds, StepKeeps, PTL DEF MakeSpec

\* And what it needs is in the bundle, and durable when the program has ended, also
\* by a failed write that ~RCache made good.  ~RCache itself may fail, and the
\* process die in it: of that nothing is said.
THEOREM BundleHasAll == MakeSpec => []MadeWhole
<1>1. Inv => MadeWhole
  <2> SUFFICES ASSUME Inv PROVE MadeWhole
    OBVIOUS
  <2>1. DOMAIN manifest = 1 .. Len(manifest)
    BY DEF Inv, Types
  <2>2. (IF step = "over" THEN durable ELSE stored) = stored
    BY DEF Inv, Storing
  <2> QED BY <2>1, <2>2 DEF Inv, Storing, MadeWhole
<1> QED BY <1>1, InitHolds, StepKeeps, PTL DEF MakeSpec

-----------------------------------------------------------------------------
(***************************************************************************)
(* The lock                                                                *)
(*                                                                         *)
(* Why no signal cuts a write, for any number of threads, writes, signals  *)
(* and pieces.  lock_ and count_ alone do not give it: a thread that saw   *)
(* lock_ = 0 may count itself in after the handler found nobody counted.   *)
(* The program has then something buffered, and its exit waits.            *)
(***************************************************************************)
Counted == {"writing", "done", "leaving"}

\* The mutex of the cache lets one thread write, and only what is buffered.
OneWriter ==
    /\ \A t, u \in Thread : pc[t] # "out" /\ pc[u] # "out" => t = u
    /\ \A t \in Thread : pc[t] # "out" => buffered /\ t \in program.threads

\* count_ says whether somebody writes.
CountIsTrue == \A t \in Thread : pc[t] \in Counted => count_ = 1
NobodyCounted == count_ = 1 => \E t \in Thread : pc[t] \in Counted

\* lock_ says whether the handler runs; once it ends the program, the thread it
\* stopped is not inside a write, and the program does not end with a buffer to
\* write.
HandlerHolds ==
    /\ lock_ = IF handler = "none" THEN 0 ELSE 1
    /\ handler = "exit" /\ program.threads \subseteq {Main} => count_ = 0
    /\ ended => handler = "exit" /\ ~(program.static /\ buffered)

PieceLeft == \A t \in Thread : pc[t] = "writing" => at[t] < Length

LockInv == TypeOK /\ PieceLeft /\ OneWriter /\ CountIsTrue /\ NobodyCounted /\ HandlerHolds

-----------------------------------------------------------------------------
LEMMA LockInit == Init => LockInv
<1> SUFFICES ASSUME Init PROVE LockInv
  OBVIOUS
<1>1. buffered \in BOOLEAN /\ ended \in BOOLEAN
  BY DEF Init
<1>2. TypeOK
  BY <1>1, Assumption DEF Init, TypeOK
<1>3. \A t \in Thread : pc[t] = "out"
  BY DEF Init
<1>4. PieceLeft /\ OneWriter /\ CountIsTrue
  BY <1>3 DEF PieceLeft, OneWriter, CountIsTrue, Counted
<1>5. NobodyCounted /\ HandlerHolds
  BY DEF Init, NobodyCounted, HandlerHolds
<1> QED BY <1>2, <1>4, <1>5 DEF LockInv

\* A step of a writer.
LEMMA WriterStep ==
    ASSUME LockInv, NEW t \in Thread,
           Enter(t) \/ Count(t) \/ WritePiece(t) \/ Leave(t) \/ Uncount(t)
    PROVE  LockInv'
<1> USE DEF LockInv, Counted
<1>1. CASE Enter(t)
  <2> USE <1>1 DEF Enter
  <2>1. TypeOK'
    <3>1. writes' \in [Thread -> 0 .. MaxWrites]
      BY Assumption DEF TypeOK
    <3>2. buffered' \in BOOLEAN /\ ended' \in BOOLEAN
      BY DEF TypeOK
    <3> QED BY <3>1, <3>2 DEF TypeOK
  <2>2. PieceLeft'
    BY DEF TypeOK, PieceLeft
  <2>3. OneWriter'
    BY DEF TypeOK, OneWriter, Runs
  <2>4. CountIsTrue' /\ NobodyCounted'
    BY DEF TypeOK, CountIsTrue, NobodyCounted
  <2>5. HandlerHolds'
    BY DEF HandlerHolds
  <2> QED BY <2>1, <2>2, <2>3, <2>4, <2>5
<1>2. CASE Count(t)
  <2> USE <1>2 DEF Count
  <2>1. count_ = 0
    BY DEF TypeOK, NobodyCounted, OneWriter
  <2>2. TypeOK'
    BY <2>1, Assumption DEF TypeOK
  <2>3. PieceLeft'
    BY Assumption DEF TypeOK, PieceLeft
  <2>4. OneWriter'
    BY DEF TypeOK, OneWriter, Runs
  <2>5. CountIsTrue' /\ NobodyCounted'
    BY <2>1 DEF TypeOK, CountIsTrue, NobodyCounted
  <2>6. HandlerHolds'
    BY DEF HandlerHolds, Runs
  <2> QED BY <2>2, <2>3, <2>4, <2>5, <2>6
<1>3. CASE WritePiece(t)
  <2> USE <1>3 DEF WritePiece
  <2>1. TypeOK'
    BY Assumption DEF TypeOK, PieceLeft
  <2>2. PieceLeft'
    BY Assumption DEF TypeOK, PieceLeft
  <2>3. OneWriter'
    BY DEF TypeOK, OneWriter
  <2>4. CountIsTrue' /\ NobodyCounted'
    BY DEF TypeOK, CountIsTrue, NobodyCounted
  <2>5. HandlerHolds'
    BY DEF HandlerHolds
  <2> QED BY <2>1, <2>2, <2>3, <2>4, <2>5
<1>4. CASE Leave(t)
  <2> USE <1>4 DEF Leave
  <2>1. TypeOK'
    BY DEF TypeOK
  <2>2. PieceLeft'
    BY DEF TypeOK, PieceLeft
  <2>3. OneWriter'
    BY DEF TypeOK, OneWriter
  <2>4. CountIsTrue' /\ NobodyCounted'
    BY DEF TypeOK, CountIsTrue, NobodyCounted
  <2>5. HandlerHolds'
    BY DEF HandlerHolds
  <2> QED BY <2>1, <2>2, <2>3, <2>4, <2>5
<1>5. CASE Uncount(t)
  <2> USE <1>5 DEF Uncount
  <2>1. count_ = 1
    BY DEF CountIsTrue
  <2>2. \A u \in Thread : pc'[u] = "out"
    BY DEF TypeOK, OneWriter
  <2>3. TypeOK'
    <3>1. count_' = 0 /\ pc' \in [Thread -> {"out", "entering", "writing", "done", "leaving"}]
      BY <2>1 DEF TypeOK
    <3>2. buffered' \in BOOLEAN /\ ended' \in BOOLEAN
      BY DEF TypeOK
    <3> QED BY <3>1, <3>2 DEF TypeOK
  <2>4. PieceLeft' /\ OneWriter' /\ CountIsTrue'
    BY <2>2 DEF PieceLeft, OneWriter, CountIsTrue
  <2>5. NobodyCounted'
    BY <2>1 DEF NobodyCounted
  <2>6. HandlerHolds'
    BY <2>1 DEF HandlerHolds, Runs
  <2> QED BY <2>3, <2>4, <2>5, <2>6
<1> QED BY <1>1, <1>2, <1>3, <1>4, <1>5

\* A step of the handler.
LEMMA HandlerStep ==
    ASSUME LockInv, Signal \/ Ignore \/ Exit \/ End
    PROVE  LockInv'
<1> USE DEF LockInv
<1>1. UNCHANGED <<count_, pc, at, writes, buffered, program>>
  BY DEF Signal, Ignore, Exit, End
<1>2. PieceLeft' /\ OneWriter' /\ CountIsTrue' /\ NobodyCounted'
  BY <1>1 DEF PieceLeft, OneWriter, CountIsTrue, NobodyCounted
<1>3. HandlerHolds'
  BY DEF HandlerHolds, Signal, Ignore, Exit, End
<1>4. TypeOK'
  <2>1. lock_' \in {0, 1} /\ handler' \in {"none", "locked", "exit"}
    BY <1>3 DEF HandlerHolds, TypeOK, Signal, Ignore, Exit, End
  <2>2. signals' \in 0 .. MaxSignals
    BY Assumption DEF TypeOK, Signal, Ignore, Exit, End
  <2>3. ended' \in BOOLEAN /\ buffered' \in BOOLEAN
    BY DEF TypeOK, Signal, Ignore, Exit, End
  <2> QED BY <1>1, <2>1, <2>2, <2>3 DEF TypeOK
<1> QED BY <1>2, <1>3, <1>4

\* A chunk is buffered; nothing else changes.
LEMMA BufferStep ==
    ASSUME LockInv, NEW t \in Thread, Buffer(t)
    PROVE  LockInv'
<1>1. ~ended
  BY DEF Buffer, Runs
<1> QED BY <1>1 DEF LockInv, TypeOK, PieceLeft, OneWriter, CountIsTrue, NobodyCounted,
                    HandlerHolds, Buffer

LEMMA LockNext == LockInv /\ [Next]_vars => LockInv'
<1> SUFFICES ASSUME LockInv, [Next]_vars PROVE LockInv'
  OBVIOUS
<1>1. CASE Next
  BY <1>1, BufferStep, WriterStep, HandlerStep DEF Next
<1>2. CASE UNCHANGED vars
  BY <1>2 DEF vars, LockInv, TypeOK, PieceLeft, OneWriter, CountIsTrue, NobodyCounted,
              HandlerHolds
<1> QED BY <1>1, <1>2

\* In a program that ended nobody is inside a write: one whose threads the
\* handler did not stop has nothing buffered, and so nobody that writes it; in
\* the others nobody was counted when the handler ended them.
LEMMA InvNeverCut == LockInv => NeverCut
<1> SUFFICES ASSUME LockInv, ended, NEW t \in Thread, pc[t] = "writing" PROVE FALSE
  BY DEF NeverCut
<1>1. count_ = 1 /\ buffered
  BY DEF LockInv, CountIsTrue, OneWriter, Counted
<1>2. handler = "exit" /\ ~program.static
  BY <1>1 DEF LockInv, HandlerHolds
<1>3. program.threads \subseteq {Main}
  BY <1>2, ProgramsAssumption DEF LockInv, TypeOK
<1> QED BY <1>1, <1>2, <1>3 DEF LockInv, HandlerHolds

\* SIGINT cuts no write, whenever it comes.
THEOREM WritesAreNeverCut == Spec => []NeverCut
<1>1. Spec => []LockInv
  BY LockInit, LockNext, PTL DEF Spec
<1> QED BY <1>1, InvNeverCut, PTL
=============================================================================
