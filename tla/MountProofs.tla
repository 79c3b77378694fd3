------------------------------ MODULE MountProofs ------------------------------
(***************************************************************************)
(* rman-mount, for all manifests, names, files and chunks, any number of   *)
(* threads and every order of their calls: the tree has the files of the   *)
(* manifests, a directory lists what is in it, and a read returns the      *)
(* bytes of the file, unless a transfer is in order whose body ended       *)
(* early.                                                                  *)
(***************************************************************************)
EXTENDS Mount, FiniteSetTheorems, SequenceTheorems, TLAPS

\* A non-empty set of naturals has a least element.  It stands for induction:
\* the least counterexample of a claim about naturals is looked at.
LEMMA LeastNatural ==
    ASSUME NEW T, T \subseteq Nat, T # {}
    PROVE  \E m \in T : \A k \in T : m <= k
<1>1. PICK n \in T : TRUE
  OBVIOUS
<1>2. n \in Nat
  BY <1>1
<1> DEFINE W == {k \in T : k <= n}
           I == {1 .. k : k \in W}
           S == 1 .. n
<1>3. I \subseteq FiniteSubsetsOf(S)
  <2> SUFFICES ASSUME NEW k \in W PROVE 1 .. k \in FiniteSubsetsOf(S)
    OBVIOUS
  <2>1. k \in Nat /\ 1 .. k \subseteq S
    BY <1>2
  <2>2. IsFiniteSet(1 .. k)
    BY <2>1, FS_Interval
  <2> QED BY <2>1, <2>2 DEF FiniteSubsetsOf
<1>4. IsWellFoundedOn(StrictSubsetOrdering(S), FiniteSubsetsOf(S))
  BY FS_StrictSubsetOrderingWellFounded
<1>5. I # {}
  BY <1>2
<1> HIDE DEF I, S, W
<1>6. PICK x \in I : \A y \in I : ~(<<y, x>> \in StrictSubsetOrdering(S))
  BY <1>3, <1>4, <1>5, WFMin
<1>7. PICK m \in W : x = 1 .. m
  BY DEF I
<1>8. ASSUME NEW k \in T, k < m PROVE FALSE
  <2>1. k \in W /\ m \in Nat /\ k \in Nat
    BY <1>2, <1>8 DEF W
  <2>2. 1 .. k \in I
    BY <2>1 DEF I
  <2>3. m \in 1 .. m /\ m \notin 1 .. k
    BY <2>1, <1>8
  <2>4. 1 .. k \subseteq 1 .. m /\ 1 .. k # 1 .. m
    BY <2>1, <2>3, <1>8
  <2> QED BY <1>3, <1>6, <1>7, <2>2, <2>4 DEF StrictSubsetOrdering, FiniteSubsetsOf
<1> QED BY <1>7, <1>8 DEF W

-----------------------------------------------------------------------------
(***************************************************************************)
(* Loops                                                                   *)
(***************************************************************************)

\* What holds of 0, and of each number up to n if of the one before, holds up to n.
LEMMA UpTo ==
    ASSUME NEW n \in Nat, NEW P, 0 \in P,
           \A i \in 1 .. n : i - 1 \in P => i \in P
    PROVE  \A i \in 0 .. n : i \in P
<1> DEFINE Bad == {i \in 0 .. n : i \notin P}
<1>1. SUFFICES ASSUME Bad # {} PROVE FALSE
  OBVIOUS
<1>2. PICK m \in Bad : \A k \in Bad : m <= k
  <2>1. Bad \subseteq Nat
    OBVIOUS
  <2> HIDE DEF Bad
  <2> QED BY <1>1, <2>1, LeastNatural
<1>3. m \in 1 .. n /\ m \notin P
  BY <1>2
<1>4. m - 1 \in 0 .. n /\ ~(m <= m - 1)
  BY <1>3
<1>5. m - 1 \notin Bad
  <2> HIDE DEF Bad
  <2> QED BY <1>2, <1>4
<1> QED BY <1>3, <1>4, <1>5

\* A loop of n iterations over what is in S: iteration i takes v to step[i][v].
Walk(f, b, step, n) ==
    f[0] = b /\ \A i \in 1 .. n : f[i] = step[i][f[i - 1]]

LEMMA LoopRuns ==
    ASSUME NEW n \in Nat, NEW S, NEW b \in S, NEW step \in [1 .. n -> [S -> S]]
    PROVE  \E f \in [0 .. n -> S] : Walk(f, b, step, n)
<1> DEFINE Good(m) == \E f : (\A i \in 0 .. m : f[i] \in S) /\ Walk(f, b, step, m)
           P == {m \in Nat : Good(m)}
<1>1. 0 \in P
  <2>1. Walk([i \in {0} |-> b], b, step, 0) /\ \A i \in 0 .. 0 : [j \in {0} |-> b][i] \in S
    BY DEF Walk
  <2> QED BY <2>1
<1>2. ASSUME NEW m \in 1 .. n, m - 1 \in P PROVE m \in P
  <2>1. PICK e : (\A i \in 0 .. m - 1 : e[i] \in S) /\ Walk(e, b, step, m - 1)
    BY <1>2
  <2> DEFINE f == [i \in 0 .. m |-> IF i = m THEN step[m][e[m - 1]] ELSE e[i]]
  <2>2. \A i \in 0 .. m - 1 : f[i] = e[i]
    OBVIOUS
  <2>3. f[m] = step[m][e[m - 1]] /\ e[m - 1] \in S
    BY <2>1
  <2>4. step[m][e[m - 1]] \in S
    BY <2>3
  <2> HIDE DEF f
  <2>5. \A i \in 0 .. m : f[i] \in S
    BY <2>1, <2>2, <2>3, <2>4
  <2>6. f[0] = b
    BY <2>1, <2>2 DEF Walk
  <2>7. ASSUME NEW i \in 1 .. m PROVE f[i] = step[i][f[i - 1]]
    <3>1. i - 1 \in 0 .. m - 1
      OBVIOUS
    <3>2. f[i - 1] = e[i - 1]
      BY <2>2, <3>1
    <3>3. CASE i = m
      BY <2>3, <3>2, <3>3
    <3>4. CASE i # m
      <4>1. i \in 0 .. m - 1 /\ i \in 1 .. m - 1
        BY <3>4
      <4> QED BY <2>1, <2>2, <3>2, <4>1 DEF Walk
    <3> QED BY <3>3, <3>4
  <2>8. Walk(f, b, step, m)
    BY <2>6, <2>7 DEF Walk
  <2> QED BY <2>5, <2>8
<1>3. n \in P
  <2>1. \A i \in 1 .. n : i - 1 \in P => i \in P
    BY <1>2
  <2> HIDE DEF P
  <2>2. \A i \in 0 .. n : i \in P
    BY <1>1, <2>1, UpTo
  <2> QED BY <2>2
<1>4. PICK g : (\A i \in 0 .. n : g[i] \in S) /\ Walk(g, b, step, n)
  BY <1>3
<1> DEFINE f == [i \in 0 .. n |-> g[i]]
<1>5. f \in [0 .. n -> S] /\ \A i \in 0 .. n : f[i] = g[i]
  BY <1>4
<1> HIDE DEF f
<1>6. ASSUME NEW i \in 1 .. n PROVE f[i] = step[i][f[i - 1]]
  <2>1. i \in 0 .. n /\ i - 1 \in 0 .. n
    OBVIOUS
  <2> QED BY <1>4, <1>5, <2>1 DEF Walk
<1>7. f[0] = b
  BY <1>4, <1>5 DEF Walk
<1>8. Walk(f, b, step, n)
  BY <1>6, <1>7 DEF Walk
<1> QED BY <1>5, <1>8

-----------------------------------------------------------------------------
(***************************************************************************)
(* The three loops over a path                                             *)
(***************************************************************************)

SomePath == Seq(Name \cup {Slash})
Key == Seq(Nat)

\* The key behind the next component of a path.
KeyStep(key, word) == IF word = Slash THEN key ELSE Append(key, Lower[word])

\* The keys on the way along a path.
KeysOf(keys, path) ==
    /\ keys \in [0 .. Len(path) -> Key] /\ keys[0] = <<>>
    /\ \A i \in 1 .. Len(path) : keys[i] = KeyStep(keys[i - 1], path[i])
    /\ KeyOf(path) = keys[Len(path)]

LEMMA KeysExist ==
    ASSUME NEW path \in SomePath
    PROVE  \E keys : KeysOf(keys, path)
<1> DEFINE n == Len(path)
           F(g) == [i \in 0 .. n |->
                      IF i = 0 THEN <<>>
                      ELSE IF path[i] = Slash THEN g[i - 1] ELSE Append(g[i - 1], Lower[path[i]])]
           step == [i \in 1 .. n |-> [key \in Key |-> KeyStep(key, path[i])]]
<1>1. n \in Nat /\ \A i \in 1 .. n : path[i] \in Name \cup {Slash}
  BY DEF SomePath
<1>2. ASSUME NEW i \in 1 .. n, NEW key \in Key PROVE KeyStep(key, path[i]) \in Key
  BY <1>1, NameAssumption DEF KeyStep, Key
<1>3. step \in [1 .. n -> [Key -> Key]]
  BY <1>2
<1>4. \A i \in 1 .. n, key \in Key : step[i][key] = KeyStep(key, path[i])
  OBVIOUS
<1>5. <<>> \in Key
  BY DEF Key
<1> HIDE DEF step
<1>6. PICK e \in [0 .. n -> Key] : Walk(e, <<>>, step, n)
  <2> HIDE DEF n
  <2> QED BY <1>1, <1>3, <1>5, LoopRuns
<1>7. e[0] = <<>> /\ \A i \in 1 .. n : e[i] = KeyStep(e[i - 1], path[i])
  <2>1. ASSUME NEW i \in 1 .. n PROVE i - 1 \in 0 .. n
    BY <1>1
  <2> HIDE DEF n
  <2> QED BY <1>4, <1>6, <2>1 DEF Walk
<1>8. e = F(e)
  <2>1. ASSUME NEW i \in 0 .. n PROVE e[i] = F(e)[i]
    <3>1. CASE i = 0
      BY <1>7, <3>1
    <3>2. CASE i # 0
      <4>1. i \in 1 .. n
        BY <1>1, <3>2
      <4> HIDE DEF n
      <4> QED BY <1>7, <4>1, <3>2 DEF KeyStep
    <3> QED BY <3>1, <3>2
  <2> QED BY <2>1
<1> DEFINE h == CHOOSE h : h = F(h)
<1>9. KeyOf(path) = h[n]
  BY DEF KeyOf
<1>10. h = F(h)
  <2> HIDE DEF F
  <2> QED BY <1>8
<1> HIDE DEF h
<1>11. DOMAIN h = 0 .. n /\ h[0] = <<>>
  BY <1>1, <1>10
<1>12. ASSUME NEW i \in 1 .. n PROVE h[i] = KeyStep(h[i - 1], path[i])
  <2>1. i \in 0 .. n /\ i # 0
    BY <1>1
  <2>2. h[i] = F(h)[i]
    <3> HIDE DEF F
    <3> QED BY <1>10
  <2> HIDE DEF n
  <2> QED BY ONLY <2>1, <2>2 DEF KeyStep
<1>13. \A i \in 0 .. n : h[i] \in Key
  <2> DEFINE P == {i \in Nat : h[i] \in Key}
  <2>1. 0 \in P
    BY <1>5, <1>11
  <2>2. \A i \in 1 .. n : i - 1 \in P => i \in P
    BY <1>1, <1>2, <1>12
  <2> HIDE DEF P, n
  <2>3. \A i \in 0 .. n : i \in P
    BY <1>1, <2>1, <2>2, UpTo
  <2> QED BY <2>3 DEF P
<1>14. h \in [0 .. n -> Key]
  <2>1. h = [i \in 0 .. n |-> h[i]]
    BY <1>10
  <2> QED BY <1>13, <2>1
<1> QED BY <1>9, <1>11, <1>12, <1>14 DEF KeysOf


-----------------------------------------------------------------------------
(***************************************************************************)
(* The children of a directory                                             *)
(***************************************************************************)

Ordered(s) == \A i, j \in DOMAIN s : i < j => s[i] < s[j]

\* What is in front of the lower bound is less, the others are not.
LEMMA LowerBoundSplits ==
    ASSUME NEW s \in Seq(Nat), Ordered(s), NEW n \in Nat
    PROVE  /\ LowerBound(s, n) \in 1 .. Len(s) + 1
           /\ \A i \in 1 .. Len(s) : (i < LowerBound(s, n)) = (s[i] < n)
<1> DEFINE T == {i \in 1 .. Len(s) + 1 : i = Len(s) + 1 \/ s[i] >= n}
           C == {i \in DOMAIN s : s[i] < n}
<1>1. Len(s) \in Nat /\ DOMAIN s = 1 .. Len(s) /\ \A i \in 1 .. Len(s) : s[i] \in Nat
  OBVIOUS
<1>2. PICK p \in T : \A i \in T : p <= i
  <2>1. T \subseteq Nat /\ Len(s) + 1 \in T
    BY <1>1
  <2> HIDE DEF T
  <2> QED BY <2>1, LeastNatural
<1>3. p \in 1 .. Len(s) + 1 /\ (p = Len(s) + 1 \/ s[p] >= n)
  BY <1>2
<1>4. ASSUME NEW i \in 1 .. Len(s) PROVE (i < p) = (s[i] < n)
  <2>1. CASE i < p
    <3>1. i \notin T
      <4> HIDE DEF T
      <4> QED BY <1>2, <1>3, <1>1, <2>1
    <3> QED BY <1>1, <2>1, <3>1
  <2>2. CASE i = p
    BY <1>1, <1>3, <2>2
  <2>3. CASE p < i
    <3>1. p \in 1 .. Len(s) /\ s[p] >= n
      BY <1>1, <1>3, <2>3
    <3>2. s[p] < s[i]
      BY <1>1, <2>3, <3>1 DEF Ordered
    <3> QED BY <1>1, <2>3, <3>1, <3>2
  <2> QED BY <1>1, <1>3, <2>1, <2>2, <2>3
<1>5. C = 1 .. p - 1
  BY <1>1, <1>3, <1>4
<1>6. Cardinality(1 .. p - 1) = p - 1
  BY <1>1, <1>3, FS_Interval
<1>7. LowerBound(s, n) = 1 + Cardinality(C)
  BY DEF LowerBound
<1> HIDE DEF C
<1>8. LowerBound(s, n) = p
  BY <1>1, <1>3, <1>5, <1>6, <1>7
<1> QED BY <1>3, <1>4, <1>8

LEMMA ChildIsFound ==
    ASSUME NEW s \in Seq(Nat), Ordered(s), NEW n \in Nat
    PROVE  IsChild(s, n) = (n \in ToSet(s))
<1> DEFINE p == LowerBound(s, n)
<1>1. Len(s) \in Nat /\ DOMAIN s = 1 .. Len(s) /\ \A i \in 1 .. Len(s) : s[i] \in Nat
  OBVIOUS
<1>2. p \in 1 .. Len(s) + 1 /\ \A i \in 1 .. Len(s) : (i < p) = (s[i] < n)
  BY LowerBoundSplits
<1> HIDE DEF p
<1>3. IsChild(s, n) = (p <= Len(s) /\ s[p] = n)
  BY DEF IsChild, p
<1>4. ASSUME p <= Len(s), s[p] = n PROVE n \in ToSet(s)
  BY <1>1, <1>2, <1>4 DEF ToSet
<1>5. ASSUME n \in ToSet(s) PROVE p <= Len(s) /\ s[p] = n
  <2>1. PICK i \in 1 .. Len(s) : s[i] = n
    BY <1>1, <1>5 DEF ToSet
  <2>2. p <= i
    BY <1>1, <1>2, <2>1
  <2>3. p \in 1 .. Len(s) /\ s[p] >= n
    BY <1>1, <1>2, <2>1, <2>2
  <2>4. ~(p < i)
    BY <1>1, <2>1, <2>3 DEF Ordered
  <2> QED BY <2>1, <2>2, <2>3, <2>4, <1>1
<1> QED BY <1>3, <1>4, <1>5

LEMMA InsertKeepsOrder ==
    ASSUME NEW s \in Seq(Nat), Ordered(s), NEW n \in Nat, ~IsChild(s, n)
    PROVE  LET t == InsertAt(s, LowerBound(s, n), n)
           IN  t \in Seq(Nat) /\ Ordered(t) /\ ToSet(t) = ToSet(s) \cup {n}
<1> DEFINE p == LowerBound(s, n)
           t == InsertAt(s, p, n)
<1>1. Len(s) \in Nat /\ DOMAIN s = 1 .. Len(s) /\ \A i \in 1 .. Len(s) : s[i] \in Nat
  OBVIOUS
<1>2. p \in 1 .. Len(s) + 1 /\ \A i \in 1 .. Len(s) : (i < p) = (s[i] < n)
  BY LowerBoundSplits
<1>3. \A i \in 1 .. Len(s) : s[i] # n
  BY <1>1, ChildIsFound DEF ToSet
<1>4. t = SubSeq(s, 1, p - 1) \o <<n>> \o SubSeq(s, p, Len(s))
  BY DEF InsertAt
<1> HIDE DEF p, t
<1>5. /\ t \in Seq(Nat) /\ Len(t) = Len(s) + 1
      /\ \A i \in 1 .. Len(s) + 1 :
            t[i] = IF i < p THEN s[i] ELSE IF i = p THEN n ELSE s[i - 1]
  <2> DEFINE u == SubSeq(s, 1, p - 1)
             v == u \o <<n>>
             w == SubSeq(s, p, Len(s))
  <2>1. u \in Seq(Nat) /\ Len(u) = p - 1 /\ \A i \in 1 .. p - 1 : u[i] = s[i]
    BY <1>1, <1>2
  <2>2. w \in Seq(Nat) /\ Len(w) = Len(s) - p + 1 /\ \A i \in 1 .. Len(s) - p + 1 : w[i] = s[i + p - 1]
    BY <1>1, <1>2
  <2> HIDE DEF u, w
  <2>3. v \in Seq(Nat) /\ Len(v) = p /\ v[p] = n /\ \A i \in 1 .. p - 1 : v[i] = s[i]
    BY <1>2, <2>1
  <2> HIDE DEF v
  <2>4. t = v \o w
    BY <1>4 DEF u, v, w
  <2>5. t \in Seq(Nat) /\ Len(t) = Len(s) + 1
    <3>1. v \o w \in Seq(Nat) /\ Len(v \o w) = Len(v) + Len(w)
      <4>1. v \in Seq(Nat) /\ w \in Seq(Nat)
        BY <2>2, <2>3
      <4> QED BY ONLY <4>1
    <3>2. Len(v) + Len(w) = Len(s) + 1
      BY <1>1, <1>2, <2>2, <2>3
    <3> QED BY <2>4, <3>1, <3>2, Zenon
  <2>6. ASSUME NEW i \in 1 .. Len(s) + 1
        PROVE  t[i] = IF i < p THEN s[i] ELSE IF i = p THEN n ELSE s[i - 1]
    <3>1. CASE i <= p
      <4>1. (v \o w)[i] = v[i]
        BY <1>1, <1>2, <2>2, <2>3, <3>1
      <4>2. t[i] = v[i]
        BY <2>4, <4>1, Zenon
      <4> QED BY <1>2, <2>3, <3>1, <4>2
    <3>2. CASE i > p
      <4>0. (v \o w)[i] = w[i - p]
        <5>1. i \in Len(v) + 1 .. Len(v) + Len(w) /\ i - Len(v) = i - p
          BY <1>1, <1>2, <2>2, <2>3, <3>2
        <5>2. (v \o w)[i] = w[i - Len(v)]
          <6>1. v \in Seq(Nat) /\ w \in Seq(Nat)
            BY <2>2, <2>3
          <6> QED BY ONLY <6>1, <5>1
        <5> QED BY <5>1, <5>2, Zenon
      <4>1. t[i] = w[i - p]
        BY <2>4, <4>0, Zenon
      <4>2. i - p \in 1 .. Len(s) - p + 1 /\ (i - p) + p - 1 = i - 1
        BY <1>1, <1>2, <3>2
      <4> QED BY <1>2, <2>2, <3>2, <4>1, <4>2
    <3> QED BY <1>2, <3>1, <3>2
  <2> QED BY <2>5, <2>6
<1>6. DOMAIN t = 1 .. Len(s) + 1
  BY <1>5
<1>7. Ordered(t)
  <2> SUFFICES ASSUME NEW i \in 1 .. Len(s) + 1, NEW j \in 1 .. Len(s) + 1, i < j
               PROVE  t[i] < t[j]
    BY <1>6 DEF Ordered
  <2>1. CASE j < p
    <3>1. t[i] = s[i] /\ t[j] = s[j] /\ i \in 1 .. Len(s) /\ j \in 1 .. Len(s)
      BY <1>1, <1>2, <1>5, <2>1
    <3> QED BY <1>1, <3>1 DEF Ordered
  <2>2. CASE j = p
    <3>1. t[i] = s[i] /\ t[j] = n /\ i \in 1 .. Len(s) /\ i < p
      BY <1>1, <1>2, <1>5, <2>2
    <3> QED BY <1>2, <3>1
  <2>3. CASE j > p /\ i < p
    <3>1. i \in 1 .. Len(s) /\ j - 1 \in 1 .. Len(s) /\ (i < j - 1 \/ i = j - 1)
      BY <1>1, <1>2, <2>3
    <3>2. t[i] = s[i] /\ t[j] = s[j - 1]
      BY <1>1, <1>2, <1>5, <2>3
    <3>3. s[i] < n /\ ~(s[j - 1] < n) /\ s[i] \in Nat /\ s[j - 1] \in Nat
      BY <1>1, <1>2, <2>3
    <3> QED BY <3>2, <3>3
  <2>4. CASE j > p /\ i = p
    <3>1. j - 1 \in 1 .. Len(s) /\ t[i] = n /\ t[j] = s[j - 1]
      BY <1>1, <1>2, <1>5, <2>4
    <3>2. ~(s[j - 1] < n) /\ s[j - 1] # n /\ s[j - 1] \in Nat
      BY <1>1, <1>2, <1>3, <2>4, <3>1
    <3> QED BY <3>1, <3>2
  <2>5. CASE j > p /\ i > p
    <3>1. t[i] = s[i - 1] /\ t[j] = s[j - 1] /\ i - 1 \in 1 .. Len(s) /\ j - 1 \in 1 .. Len(s)
                /\ i - 1 < j - 1
      BY <1>1, <1>2, <1>5, <2>5
    <3> QED BY <1>1, <3>1 DEF Ordered
  <2> QED BY <1>2, <2>1, <2>2, <2>3, <2>4, <2>5
<1>8. ToSet(t) = ToSet(s) \cup {n}
  <2>1. ASSUME NEW k \in ToSet(t) PROVE k \in ToSet(s) \cup {n}
    <3>1. PICK i \in 1 .. Len(s) + 1 : k = t[i]
      BY <1>6, <2>1 DEF ToSet
    <3>2. CASE i < p
      <4>1. i \in DOMAIN s /\ k = s[i]
        BY <1>1, <1>2, <1>5, <3>1, <3>2
      <4> QED BY <4>1 DEF ToSet
    <3>3. CASE i = p
      BY <1>2, <1>5, <3>1, <3>3
    <3>4. CASE i > p
      <4>1. i - 1 \in DOMAIN s /\ k = s[i - 1]
        BY <1>1, <1>2, <1>5, <3>1, <3>4
      <4> QED BY <4>1 DEF ToSet
    <3> QED BY <1>2, <3>1, <3>2, <3>3, <3>4
  <2>2. ASSUME NEW i \in 1 .. Len(s) PROVE s[i] \in ToSet(t)
    <3>1. CASE i < p
      <4>1. i \in 1 .. Len(s) + 1 /\ t[i] = s[i]
        BY <1>1, <1>5, <3>1
      <4> QED BY <1>6, <4>1 DEF ToSet
    <3>2. CASE i >= p
      <4>1. i + 1 \in 1 .. Len(s) + 1 /\ t[i + 1] = s[i]
        BY <1>1, <1>2, <1>5, <3>2
      <4> QED BY <1>6, <4>1 DEF ToSet
    <3> QED BY <1>2, <3>1, <3>2
  <2>3. n \in ToSet(t)
    BY <1>2, <1>5, <1>6 DEF ToSet
  <2> QED BY <1>1, <2>1, <2>2, <2>3 DEF ToSet
<1> QED BY <1>5, <1>7, <1>8 DEF p, t


-----------------------------------------------------------------------------
(***************************************************************************)
(* A tree grows                                                            *)
(***************************************************************************)

Entry == [name : Name \cup {Slash}, file : File \cup {NoFile}, children : Seq(Nat)]

\* Each entry but the root is a child of one that is there, and each child is there.
Linked(tr) ==
    \A key \in Key, n \in Nat :
        (Append(key, n) \in DOMAIN tr) = (key \in DOMAIN tr /\ n \in ToSet(tr[key].children))

Tree ==
    {tr \in UNION {[D -> Entry] : D \in SUBSET Key} :
        /\ <<>> \in DOMAIN tr
        /\ \A key \in DOMAIN tr : Ordered(tr[key].children)
        /\ Linked(tr)}

LEMMA TreeTypes ==
    ASSUME NEW tr \in Tree
    PROVE  /\ tr \in [DOMAIN tr -> Entry] /\ DOMAIN tr \subseteq Key /\ <<>> \in DOMAIN tr
           /\ \A key \in DOMAIN tr : tr[key] \in Entry /\ tr[key].children \in Seq(Nat)
                                     /\ Ordered(tr[key].children)
           /\ Linked(tr)
<1>1. PICK D \in SUBSET Key : tr \in [D -> Entry]
  BY DEF Tree
<1>2. DOMAIN tr = D
  BY <1>1
<1>3. \A key \in DOMAIN tr : tr[key] \in Entry
  BY <1>1
<1>4. \A e \in Entry : e.children \in Seq(Nat)
  BY DEF Entry
<1> QED BY <1>1, <1>2, <1>3, <1>4 DEF Tree

\* More keys, each new one with no file yet; the files that are there stay.
Grown(tr, new, keys) ==
    /\ new \in Tree /\ DOMAIN new = DOMAIN tr \cup keys
    /\ \A key \in DOMAIN tr : new[key].file = tr[key].file
    /\ \A key \in keys : key \notin DOMAIN tr => new[key].file = NoFile

LEMMA AppendIsOne ==
    ASSUME NEW key \in Key, NEW n \in Nat
    PROVE  /\ Append(key, n) \in Key /\ Append(key, n) # key /\ Append(key, n) # <<>>
           /\ \A other \in Key, m \in Nat :
                 Append(other, m) = Append(key, n) => other = key /\ m = n
<1>1. Append(key, n) \in Key /\ Len(Append(key, n)) = Len(key) + 1 /\ Len(key) \in Nat
  BY DEF Key
<1>2. Append(key, n) # key /\ Append(key, n) # <<>>
  <2> DEFINE a == Append(key, n)
  <2>1. Len(a) = Len(key) + 1 /\ Len(key) \in Nat /\ Len(<<>>) = 0
    BY <1>1
  <2> HIDE DEF a
  <2>2. a # key /\ a # <<>>
    BY ONLY <2>1
  <2> QED BY <2>2 DEF a
<1>3. ASSUME NEW other \in Key, NEW m \in Nat, Append(other, m) = Append(key, n)
      PROVE  other = key /\ m = n
  BY <1>3, AppendInjective DEF Key
<1> QED BY <1>1, <1>2, <1>3

LEMMA EnterGrows ==
    ASSUME NEW at, at \in [tree : Tree, key : Key], at.key \in DOMAIN at.tree,
           NEW name \in Name
    PROVE  LET new == Enter(at, name)
               key == Append(at.key, Lower[name])
           IN  new \in [tree : Tree, key : Key] /\ new.key = key /\ Grown(at.tree, new.tree, {key})
<1> DEFINE tr == at.tree
           old == at.key
           n == Lower[name]
           key == Append(old, n)
           s == tr[old].children
           T == [k \in DOMAIN tr \cup {key} |->
                   IF k = key THEN NewEntry(name)
                   ELSE IF k = old
                   THEN [tr[k] EXCEPT !.children = InsertAt(s, LowerBound(s, n), n)]
                   ELSE tr[k]]
           new == Enter(at, name)
<1>1. tr \in Tree /\ old \in Key /\ old \in DOMAIN tr /\ n \in Nat /\ at = [tree |-> tr, key |-> old]
  BY NameAssumption
<1>2. new = IF IsChild(s, n) THEN [at EXCEPT !.key = key] ELSE [key |-> key, tree |-> T]
  BY DEF Enter
<1> HIDE DEF tr, old, n, new
<1>3. /\ key \in Key /\ key # old /\ key # <<>>
      /\ \A other \in Key, m \in Nat : Append(other, m) = key => other = old /\ m = n
  <2> HIDE DEF key
  <2> QED BY <1>1, AppendIsOne DEF key
<1>4. /\ tr \in [DOMAIN tr -> Entry] /\ DOMAIN tr \subseteq Key /\ <<>> \in DOMAIN tr
      /\ \A k \in DOMAIN tr : tr[k] \in Entry /\ tr[k].children \in Seq(Nat)
                              /\ Ordered(tr[k].children)
      /\ Linked(tr)
  BY <1>1, TreeTypes
<1>5. s \in Seq(Nat) /\ Ordered(s)
  BY <1>1, <1>4
<1> HIDE DEF s
<1>6. IsChild(s, n) = (n \in ToSet(s))
  BY <1>1, <1>5, ChildIsFound
<1>7. (key \in DOMAIN tr) = IsChild(s, n)
  BY <1>1, <1>4, <1>6 DEF Linked, s
<1> HIDE DEF key
<1>8. CASE IsChild(s, n)
  <2>1. new = [tree |-> tr, key |-> key]
    BY <1>1, <1>2, <1>8
  <2>2. new \in [tree : Tree, key : Key] /\ new.key = key /\ new.tree = tr
    BY <1>1, <1>3, <2>1
  <2>3. key \in DOMAIN tr
    BY <1>7, <1>8
  <2>4. Grown(tr, new.tree, {key})
    BY <1>1, <2>2, <2>3 DEF Grown
  <2> QED BY <2>2, <2>4 DEF tr, old, n, new, key
<1>9. CASE ~IsChild(s, n)
  <2> DEFINE t == InsertAt(s, LowerBound(s, n), n)
  <2>1. t \in Seq(Nat) /\ Ordered(t) /\ ToSet(t) = ToSet(s) \cup {n}
    BY <1>1, <1>5, <1>9, InsertKeepsOrder
  <2> HIDE DEF t
  <2>2. /\ DOMAIN T = DOMAIN tr \cup {key}
        /\ T[key] = NewEntry(name)
        /\ T[old] = [tr[old] EXCEPT !.children = t]
        /\ \A k \in DOMAIN tr : k # old => T[k] = tr[k]
    BY <1>1, <1>3, <1>7, <1>9 DEF t
  <2> HIDE DEF T
  <2>3. NewEntry(name) \in Entry /\ NewEntry(name).children = <<>> /\ NewEntry(name).file = NoFile
    BY DEF NewEntry, Entry
  <2>4. T[old] \in Entry /\ T[old].children = t /\ T[old].file = tr[old].file
    <3>1. tr[old] \in Entry
      BY <1>1, <1>4
    <3> QED BY <2>1, <2>2, <3>1 DEF Entry
  <2>5. \A k \in DOMAIN T : T[k] \in Entry /\ Ordered(T[k].children)
    <3>1. Ordered(<<>>)
      BY DEF Ordered
    <3> QED BY <1>4, <2>1, <2>2, <2>3, <2>4, <3>1
  <2>6. T \in [DOMAIN tr \cup {key} -> Entry] /\ DOMAIN tr \cup {key} \in SUBSET Key
    <3>1. T = [k \in DOMAIN T |-> T[k]]
      BY DEF T
    <3> QED BY <1>3, <1>4, <2>2, <2>5, <3>1
  <2>7. Linked(T)
    <3> SUFFICES ASSUME NEW k \in Key, NEW m \in Nat
                 PROVE  (Append(k, m) \in DOMAIN T) = (k \in DOMAIN T /\ m \in ToSet(T[k].children))
      BY DEF Linked
    <3>1. (Append(k, m) \in DOMAIN tr) = (k \in DOMAIN tr /\ m \in ToSet(tr[k].children))
      BY <1>4 DEF Linked
    <3>2. (Append(k, m) = key) = (k = old /\ m = n)
      BY <1>3 DEF key
    <3>3. CASE k = key
      <4>1. k \notin DOMAIN tr /\ k # old
        BY <1>3, <1>7, <1>9, <3>3
      <4>2. ToSet(<<>>) = {}
        BY DEF ToSet
      <4>3. m \notin ToSet(T[k].children)
        BY <2>2, <2>3, <3>3, <4>2, Zenon
      <4>4. Append(k, m) \notin DOMAIN T
        BY <2>2, <3>1, <3>2, <4>1
      <4> QED BY <4>3, <4>4
    <3>4. CASE k = old
      <4>1. k \in DOMAIN T /\ ToSet(T[k].children) = ToSet(s) \cup {n}
        BY <1>1, <2>1, <2>2, <2>4, <3>4
      <4>2. (Append(k, m) \in DOMAIN T) = (m \in ToSet(s) \/ m = n)
        BY <1>1, <2>2, <3>1, <3>2, <3>4 DEF s
      <4> QED BY <4>1, <4>2
    <3>5. CASE k # key /\ k # old
      BY <2>2, <3>1, <3>2, <3>5
    <3> QED BY <3>3, <3>4, <3>5
  <2>8. T \in Tree
    BY <1>4, <2>2, <2>5, <2>6, <2>7 DEF Tree
  <2>9. Grown(tr, T, {key})
    <3>1. \A k \in DOMAIN tr : T[k].file = tr[k].file
      BY <2>2, <2>4
    <3> QED BY <2>2, <2>3, <2>8, <3>1 DEF Grown
  <2>10. new = [key |-> key, tree |-> T]
    BY <1>2, <1>9 DEF T
  <2>11. new \in [tree : Tree, key : Key] /\ new.key = key /\ Grown(tr, new.tree, {key})
    BY <1>3, <2>8, <2>9, <2>10
  <2> QED BY <2>11 DEF tr, old, n, new, key
<1> QED BY <1>8, <1>9

\* Where the builder is: at an entry of its tree.
Place == {at \in [tree : Tree, key : Key] : at.key \in DOMAIN at.tree}

EnterStep(at, word) == IF word = Slash THEN at ELSE Enter(at, word)

LEMMA EnterStays ==
    ASSUME NEW at \in Place, NEW word \in Name \cup {Slash}
    PROVE  /\ EnterStep(at, word) \in Place
           /\ EnterStep(at, word).key = KeyStep(at.key, word)
           /\ Grown(at.tree, EnterStep(at, word).tree, {KeyStep(at.key, word)})
<1>1. at \in [tree : Tree, key : Key] /\ at.key \in DOMAIN at.tree
  BY DEF Place
<1>2. CASE word = Slash
  <2>1. at.tree \in Tree
    BY <1>1
  <2>2. EnterStep(at, word) = at /\ KeyStep(at.key, word) = at.key
    BY <1>2 DEF EnterStep, KeyStep
  <2>3. Grown(at.tree, at.tree, {at.key})
    BY <1>1, <2>1 DEF Grown
  <2> QED BY <2>2, <2>3
<1>3. CASE word # Slash
  <2> DEFINE new == Enter(at, word)
             key == Append(at.key, Lower[word])
  <2>1. word \in Name
    BY <1>3
  <2>2. new \in [tree : Tree, key : Key] /\ new.key = key /\ Grown(at.tree, new.tree, {key})
    BY <1>1, <2>1, EnterGrows
  <2>3. EnterStep(at, word) = new /\ KeyStep(at.key, word) = key
    BY <1>3 DEF EnterStep, KeyStep
  <2> HIDE DEF new, key
  <2>4. new \in Place
    BY <2>2 DEF Grown, Place
  <2> QED BY <2>2, <2>3, <2>4
<1> QED BY <1>2, <1>3

\* What grew and grew again has grown.
LEMMA GrownTwice ==
    ASSUME NEW a, NEW b, NEW c, NEW ks, NEW ls, Grown(a, b, ks), Grown(b, c, ls)
    PROVE  Grown(a, c, ks \cup ls)
<1>1. c \in Tree /\ DOMAIN c = DOMAIN a \cup (ks \cup ls)
  BY DEF Grown
<1>2. \A key \in DOMAIN a : c[key].file = a[key].file
  BY DEF Grown
<1>3. ASSUME NEW key \in ks \cup ls, key \notin DOMAIN a PROVE c[key].file = NoFile
  <2>1. CASE key \in ks
    BY <1>3, <2>1 DEF Grown
  <2>2. CASE key \notin ks
    BY <1>3, <2>2 DEF Grown
  <2> QED BY <2>1, <2>2
<1> QED BY <1>1, <1>2, <1>3 DEF Grown

\* The keys of a path, all of them.
OnTheWay(keys, path) == {keys[i] : i \in 0 .. Len(path)}

\* The builder ends at the key of the path, and has made the way there, no more.
LEMMA EnteredGrows ==
    ASSUME NEW tr \in Tree, NEW path \in SomePath, NEW keys, KeysOf(keys, path)
    PROVE  LET at == Entered(tr, path)
           IN  at \in Place /\ at.key = KeyOf(path) /\ Grown(tr, at.tree, OnTheWay(keys, path))
<1> DEFINE n == Len(path)
           b == [tree |-> tr, key |-> <<>>]
           F(g) == [i \in 0 .. n |->
                      IF i = 0 THEN [tree |-> tr, key |-> <<>>]
                      ELSE IF path[i] = Slash THEN g[i - 1] ELSE Enter(g[i - 1], path[i])]
           step == [i \in 1 .. n |-> [at \in Place |-> EnterStep(at, path[i])]]
<1>1. n \in Nat /\ \A i \in 1 .. n : path[i] \in Name \cup {Slash}
  BY DEF SomePath
<1>2. ASSUME NEW i \in 1 .. n, NEW at \in Place PROVE EnterStep(at, path[i]) \in Place
  BY <1>1, EnterStays
<1>3. step \in [1 .. n -> [Place -> Place]]
  BY <1>2
<1>4. \A i \in 1 .. n, at \in Place : step[i][at] = EnterStep(at, path[i])
  OBVIOUS
<1>5. b \in Place
  BY TreeTypes DEF Place, Key
<1> HIDE DEF step
<1>6. PICK e \in [0 .. n -> Place] : Walk(e, b, step, n)
  <2> HIDE DEF n, b
  <2> QED BY <1>1, <1>3, <1>5, LoopRuns
<1>7. e[0] = b /\ \A i \in 1 .. n : e[i] = EnterStep(e[i - 1], path[i])
  <2>1. ASSUME NEW i \in 1 .. n PROVE i - 1 \in 0 .. n
    BY <1>1
  <2> HIDE DEF n, b
  <2> QED BY <1>4, <1>6, <2>1 DEF Walk
<1>8. e = F(e)
  <2>1. ASSUME NEW i \in 0 .. n PROVE e[i] = F(e)[i]
    <3>1. CASE i = 0
      BY <1>7, <3>1
    <3>2. CASE i # 0
      <4>1. i \in 1 .. n
        BY <1>1, <3>2
      <4> HIDE DEF n
      <4> QED BY <1>7, <4>1, <3>2 DEF EnterStep
    <3> QED BY <3>1, <3>2
  <2> QED BY <2>1
<1> DEFINE h == CHOOSE h : h = F(h)
<1>9. Entered(tr, path) = h[n]
  BY DEF Entered
<1>10. h = F(h)
  <2> HIDE DEF F
  <2> QED BY <1>8
<1> HIDE DEF h
<1>11. h[0] = b
  BY <1>1, <1>10
<1>12. ASSUME NEW i \in 1 .. n PROVE h[i] = EnterStep(h[i - 1], path[i])
  <2>1. i \in 0 .. n /\ i # 0
    BY <1>1
  <2>2. h[i] = F(h)[i]
    <3> HIDE DEF F
    <3> QED BY <1>10
  <2> HIDE DEF n
  <2> QED BY ONLY <2>1, <2>2 DEF EnterStep
<1> DEFINE Way(i) == {keys[j] : j \in 0 .. i}
           P == {i \in Nat : h[i] \in Place /\ h[i].key = keys[i] /\ Grown(tr, h[i].tree, Way(i))}
<1>13. keys[0] = <<>> /\ \A i \in 1 .. n : keys[i] = KeyStep(keys[i - 1], path[i])
  BY DEF KeysOf
<1>14. 0 \in P
  <2>1. Way(0) = {<<>>}
    BY <1>13
  <2>2. Grown(tr, tr, {<<>>})
    BY TreeTypes DEF Grown
  <2>3. h[0] \in Place /\ h[0].key = keys[0] /\ h[0].tree = tr
    BY <1>5, <1>11, <1>13
  <2> HIDE DEF Way
  <2> QED BY <2>1, <2>2, <2>3
<1>15. ASSUME NEW i \in 1 .. n, i - 1 \in P PROVE i \in P
  <2>1. h[i - 1] \in Place /\ h[i - 1].key = keys[i - 1] /\ Grown(tr, h[i - 1].tree, Way(i - 1))
    BY <1>15
  <2>2. h[i] \in Place /\ h[i].key = keys[i] /\ Grown(h[i - 1].tree, h[i].tree, {keys[i]})
    <3>1. path[i] \in Name \cup {Slash}
      BY <1>1
    <3>2. keys[i] = KeyStep(h[i - 1].key, path[i])
      BY <1>13, <2>1
    <3> QED BY <1>12, <2>1, <3>1, <3>2, EnterStays
  <2>3. Way(i) = Way(i - 1) \cup {keys[i]}
    BY <1>1
  <2> HIDE DEF Way
  <2>4. Grown(tr, h[i].tree, Way(i))
    BY <2>1, <2>2, <2>3, GrownTwice
  <2> QED BY <1>1, <2>2, <2>4
<1>16. n \in P
  <2> HIDE DEF P, n
  <2>1. \A i \in 0 .. n : i \in P
    BY <1>1, <1>14, <1>15, UpTo
  <2> QED BY <1>1, <2>1
<1>17. KeyOf(path) = keys[n] /\ Way(n) = OnTheWay(keys, path)
  BY DEF KeysOf, OnTheWay
<1> HIDE DEF n, Way
<1> QED BY <1>9, <1>16, <1>17

FindStep(tr, found, word) ==
    IF word = Slash THEN found
    ELSE {Append(key, Lower[word]) : key \in {k \in found : IsChild(tr[k].children, Lower[word])}}

Here(tr, key) == IF key \in DOMAIN tr THEN {key} ELSE {}

LEMMA FindSteps ==
    ASSUME NEW tr \in Tree, NEW key \in Key, NEW word \in Name \cup {Slash}
    PROVE  FindStep(tr, Here(tr, key), word) = Here(tr, KeyStep(key, word))
<1>1. CASE word = Slash
  BY <1>1 DEF FindStep, KeyStep
<1>2. CASE word # Slash
  <2> DEFINE n == Lower[word]
             next == Append(key, n)
  <2>1. n \in Nat
    BY <1>2, NameAssumption
  <2>2. KeyStep(key, word) = next
    BY <1>2 DEF KeyStep
  <2>3. (next \in DOMAIN tr) = (key \in DOMAIN tr /\ n \in ToSet(tr[key].children))
    BY <2>1, TreeTypes DEF Linked
  <2>4. key \in DOMAIN tr => IsChild(tr[key].children, n) = (n \in ToSet(tr[key].children))
    BY <2>1, TreeTypes, ChildIsFound
  <2>5. FindStep(tr, Here(tr, key), word) =
            {Append(k, n) : k \in {l \in Here(tr, key) : IsChild(tr[l].children, n)}}
    BY <1>2 DEF FindStep
  <2> HIDE DEF n
  <2> QED BY <2>2, <2>3, <2>4, <2>5 DEF Here
<1> QED BY <1>1, <1>2

\* What is found is the entry at the key of the path, if it is there.
LEMMA FindFinds ==
    ASSUME NEW tr \in Tree, NEW path \in SomePath
    PROVE  Find(tr, path) = Here(tr, KeyOf(path))
<1>0. PICK keys : KeysOf(keys, path)
  BY KeysExist
<1> DEFINE n == Len(path)
           F(g) == [i \in 0 .. n |->
                      IF i = 0 THEN {<<>>}
                      ELSE IF path[i] = Slash THEN g[i - 1]
                      ELSE {Append(key, Lower[path[i]]) :
                              key \in {k \in g[i - 1] : IsChild(tr[k].children, Lower[path[i]])}}]
           e == [i \in 0 .. n |-> Here(tr, keys[i])]
<1>1. n \in Nat /\ \A i \in 1 .. n : path[i] \in Name \cup {Slash}
  BY DEF SomePath
<1>2. /\ keys[0] = <<>> /\ \A i \in 0 .. n : keys[i] \in Key
      /\ \A i \in 1 .. n : keys[i] = KeyStep(keys[i - 1], path[i])
      /\ KeyOf(path) = keys[n]
  BY <1>0 DEF KeysOf
<1>3. \A i \in 0 .. n : e[i] = Here(tr, keys[i])
  OBVIOUS
<1>4. e[0] = {<<>>}
  BY <1>1, <1>2, TreeTypes DEF Here
<1>5. ASSUME NEW i \in 1 .. n PROVE e[i] = FindStep(tr, e[i - 1], path[i])
  <2>1. i - 1 \in 0 .. n /\ i \in 0 .. n
    BY <1>1
  <2> HIDE DEF e, n
  <2> QED BY <1>1, <1>2, <1>3, <2>1, FindSteps
<1>6. e = F(e)
  <2>1. ASSUME NEW i \in 0 .. n PROVE e[i] = F(e)[i]
    <3>1. CASE i = 0
      BY <1>4, <3>1
    <3>2. CASE i # 0
      <4>1. i \in 1 .. n
        BY <1>1, <3>2
      <4> HIDE DEF n, e
      <4> QED BY <1>5, <4>1, <3>2 DEF FindStep
    <3> QED BY <3>1, <3>2
  <2> QED BY <2>1
<1> DEFINE h == CHOOSE h : h = F(h)
<1>7. Find(tr, path) = h[n]
  BY DEF Find
<1>8. h = F(h)
  <2> HIDE DEF F
  <2> QED BY <1>6
<1> HIDE DEF h
<1>9. h[0] = {<<>>}
  BY <1>1, <1>8
<1>10. ASSUME NEW i \in 1 .. n PROVE h[i] = FindStep(tr, h[i - 1], path[i])
  <2>1. i \in 0 .. n /\ i # 0
    BY <1>1
  <2>2. h[i] = F(h)[i]
    <3> HIDE DEF F
    <3> QED BY <1>8
  <2> HIDE DEF n
  <2> QED BY ONLY <2>1, <2>2 DEF FindStep
<1> DEFINE P == {i \in Nat : h[i] = e[i]}
<1>11. \A i \in 0 .. n : i \in P
  <2> HIDE DEF e, n
  <2>1. 0 \in P
    BY <1>4, <1>9
  <2>2. \A i \in 1 .. n : i - 1 \in P => i \in P
    BY <1>1, <1>5, <1>10
  <2> HIDE DEF P
  <2> QED BY <1>1, <2>1, <2>2, UpTo
<1>12. h[n] = e[n]
  BY <1>1, <1>11
<1> QED BY <1>1, <1>2, <1>3, <1>7, <1>12


-----------------------------------------------------------------------------
(***************************************************************************)
(* What the tree has                                                       *)
(***************************************************************************)

LEMMA PrefixIs ==
    ASSUME NEW s \in Key, NEW t \in Key
    PROVE  IsPrefix(s, t) <=> (Len(s) <= Len(t) /\ \A i \in 1 .. Len(s) : s[i] = t[i])
<1>1. Len(s) \in Nat /\ Len(t) \in Nat /\ DOMAIN s = 1 .. Len(s) /\ DOMAIN t = 1 .. Len(t)
  BY DEF Key
<1>2. SubSeq(s, 1, Len(s)) = s
  BY DEF Key
<1>3. CASE Len(s) <= Len(t)
  <2> DEFINE u == SubSeq(t, 1, Len(s))
  <2>1. u \in Key /\ Len(u) = Len(s) /\ \A i \in 1 .. Len(s) : u[i] = t[i]
    BY <1>1, <1>3 DEF Key
  <2>2. IsPrefix(s, t) <=> (s = u)
    BY <1>2, <1>3 DEF IsPrefix
  <2> HIDE DEF u
  <2>3. (s = u) <=> (\A i \in 1 .. Len(s) : s[i] = u[i])
    <3>1. ASSUME \A i \in 1 .. Len(s) : s[i] = u[i] PROVE s = u
      BY <2>1, <3>1, SeqEqual DEF Key
    <3> QED BY <3>1
  <2> QED BY <1>3, <2>1, <2>2, <2>3
<1>4. CASE ~(Len(s) <= Len(t))
  BY <1>4 DEF IsPrefix
<1> QED BY <1>3, <1>4

LEMMA PrefixOfAppend ==
    ASSUME NEW s \in Key, NEW t \in Key, NEW n \in Nat
    PROVE  IsPrefix(s, Append(t, n)) <=> (IsPrefix(s, t) \/ s = Append(t, n))
<1> DEFINE u == Append(t, n)
<1>1. /\ u \in Key /\ Len(u) = Len(t) + 1 /\ Len(t) \in Nat /\ Len(s) \in Nat
      /\ u[Len(t) + 1] = n /\ \A i \in 1 .. Len(t) : u[i] = t[i]
  BY AppendProperties DEF Key
<1> HIDE DEF u
<1>2. IsPrefix(s, u) <=> (Len(s) <= Len(u) /\ \A i \in 1 .. Len(s) : s[i] = u[i])
  BY <1>1, PrefixIs
<1>3. IsPrefix(s, t) <=> (Len(s) <= Len(t) /\ \A i \in 1 .. Len(s) : s[i] = t[i])
  BY PrefixIs
<1>4. CASE Len(s) <= Len(t)
  <2>1. \A i \in 1 .. Len(s) : u[i] = t[i]
    BY <1>1, <1>4
  <2>2. s # u
    BY <1>1, <1>4
  <2> QED BY <1>1, <1>2, <1>3, <1>4, <2>1, <2>2 DEF u
<1>5. CASE ~(Len(s) <= Len(t))
  <2>1. ~IsPrefix(s, t)
    BY <1>3, <1>5
  <2>2. ASSUME IsPrefix(s, u) PROVE s = u
    <3>1. Len(s) = Len(u)
      BY <1>1, <1>2, <1>5, <2>2
    <3>2. \A i \in 1 .. Len(s) : s[i] = u[i]
      BY <1>2, <2>2
    <3> QED BY <1>1, <3>1, <3>2, SeqEqual DEF Key
  <2>3. ASSUME s = u PROVE IsPrefix(s, u)
    BY <1>1, <1>2, <2>3
  <2> QED BY <2>1, <2>2, <2>3 DEF u
<1> QED BY <1>4, <1>5

\* The next name below a key.
LEMMA AppendIsPrefix ==
    ASSUME NEW s \in Key, NEW t \in Key, NEW n \in Nat
    PROVE  IsPrefix(Append(s, n), t) <=> (IsPrefix(s, t) /\ t # s /\ t[Len(s) + 1] = n)
<1> DEFINE u == Append(s, n)
<1>1. /\ u \in Key /\ Len(u) = Len(s) + 1 /\ Len(t) \in Nat /\ Len(s) \in Nat
      /\ u[Len(s) + 1] = n /\ \A i \in 1 .. Len(s) : u[i] = s[i]
  BY AppendProperties DEF Key
<1> HIDE DEF u
<1>2. IsPrefix(u, t) <=> (Len(u) <= Len(t) /\ \A i \in 1 .. Len(u) : u[i] = t[i])
  BY <1>1, PrefixIs
<1>3. IsPrefix(s, t) <=> (Len(s) <= Len(t) /\ \A i \in 1 .. Len(s) : s[i] = t[i])
  BY PrefixIs
<1>4. ASSUME IsPrefix(u, t) PROVE IsPrefix(s, t) /\ t # s /\ t[Len(s) + 1] = n
  <2>1. Len(s) < Len(t) /\ \A i \in 1 .. Len(s) + 1 : u[i] = t[i]
    BY <1>1, <1>2, <1>4
  <2>2. t # s
    BY <1>1, <2>1
  <2>3. Len(s) + 1 \in 1 .. Len(s) + 1 /\ \A i \in 1 .. Len(s) : i \in 1 .. Len(s) + 1
    BY <1>1
  <2> QED BY <1>1, <1>3, <2>1, <2>2, <2>3
<1>5. ASSUME IsPrefix(s, t), t # s, t[Len(s) + 1] = n PROVE IsPrefix(u, t)
  <2>1. Len(s) # Len(t)
    <3>1. ASSUME Len(s) = Len(t) PROVE s = t
      BY <1>3, <1>5, <3>1, SeqEqual DEF Key
    <3> QED BY <1>5, <3>1
  <2>2. Len(u) <= Len(t)
    BY <1>1, <1>3, <1>5, <2>1
  <2>3. ASSUME NEW i \in 1 .. Len(u) PROVE u[i] = t[i]
    <3>1. CASE i = Len(s) + 1
      BY <1>1, <1>5, <3>1
    <3>2. CASE i # Len(s) + 1
      <4>1. i \in 1 .. Len(s)
        BY <1>1, <3>2
      <4> QED BY <1>1, <1>3, <1>5, <4>1
    <3> QED BY <3>1, <3>2
  <2> QED BY <1>2, <2>2, <2>3
<1> QED BY <1>4, <1>5 DEF u

\* The keys on the way to a key are what it begins with.
LEMMA WayIsPrefixes ==
    ASSUME NEW path \in SomePath, NEW keys, KeysOf(keys, path)
    PROVE  /\ KeyOf(path) \in Key
           /\ \A key \in Key : (key \in OnTheWay(keys, path)) <=> IsPrefix(key, KeyOf(path))
<1> DEFINE n == Len(path)
           Way(i) == {keys[j] : j \in 0 .. i}
           P == {i \in Nat : \A key \in Key : (key \in Way(i)) <=> IsPrefix(key, keys[i])}
<1>1. n \in Nat /\ \A i \in 1 .. n : path[i] \in Name \cup {Slash}
  BY DEF SomePath
<1>2. /\ keys[0] = <<>> /\ \A i \in 0 .. n : keys[i] \in Key
      /\ \A i \in 1 .. n : keys[i] = KeyStep(keys[i - 1], path[i])
      /\ KeyOf(path) = keys[n]
  BY DEF KeysOf
<1>3. 0 \in P
  <2>1. ASSUME NEW key \in Key PROVE (key = <<>>) <=> IsPrefix(key, <<>>)
    <3>1. <<>> \in Key /\ Len(<<>>) = 0 /\ Len(key) \in Nat
      BY DEF Key
    <3>2. IsPrefix(key, <<>>) <=> (Len(key) <= 0 /\ \A i \in 1 .. Len(key) : key[i] = <<>>[i])
      BY <3>1, PrefixIs
    <3>3. (Len(key) = 0) <=> (key = <<>>)
      BY EmptySeq DEF Key
    <3> QED BY <3>1, <3>2, <3>3
  <2>2. Way(0) = {<<>>}
    BY <1>2
  <2> HIDE DEF Way
  <2> QED BY <1>2, <2>1, <2>2
<1>4. ASSUME NEW i \in 1 .. n, i - 1 \in P PROVE i \in P
  <2> SUFFICES ASSUME NEW key \in Key
               PROVE  (key \in Way(i)) <=> IsPrefix(key, keys[i])
    <3> HIDE DEF Way
    <3> QED BY <1>1
  <2>1. (key \in Way(i - 1)) <=> IsPrefix(key, keys[i - 1])
    BY <1>4
  <2>2. Way(i) = Way(i - 1) \cup {keys[i]}
    BY <1>1
  <2> HIDE DEF Way, P, n
  <2>3. keys[i - 1] \in Key /\ keys[i] \in Key
    BY <1>1, <1>2
  <2>4. CASE path[i] = Slash
    <3>1. keys[i] = keys[i - 1]
      BY <1>2, <2>4 DEF KeyStep
    <3>2. IsPrefix(keys[i], keys[i])
      <4>1. Len(keys[i]) \in Nat
        BY <2>3 DEF Key
      <4> QED BY <2>3, <4>1, PrefixIs
    <3> QED BY <2>1, <2>2, <3>1, <3>2
  <2>5. CASE path[i] # Slash
    <3>1. Lower[path[i]] \in Nat /\ keys[i] = Append(keys[i - 1], Lower[path[i]])
      BY <1>1, <1>2, <2>5, NameAssumption DEF KeyStep
    <3> QED BY <2>1, <2>2, <2>3, <3>1, PrefixOfAppend
  <2> QED BY <2>4, <2>5
<1>5. n \in P
  <2> HIDE DEF P, n
  <2>1. \A i \in 0 .. n : i \in P
    BY <1>1, <1>3, <1>4, UpTo
  <2> QED BY <1>1, <2>1
<1>6. Way(n) = OnTheWay(keys, path) /\ n \in 0 .. n
  BY <1>1 DEF OnTheWay
<1> HIDE DEF Way, n
<1> QED BY <1>2, <1>5, <1>6


\* A file of the manifests.
Rec == [path : SomePath, file : File, stripped : BOOLEAN]

KeyAt(fs, i) == KeyOf(fs[i].path)

LEMMA KeyAtType ==
    ASSUME NEW fs \in Seq(Rec), NEW i \in 1 .. Len(fs)
    PROVE  /\ fs[i] \in Rec /\ fs[i].path \in SomePath /\ fs[i].file \in File
           /\ fs[i].file # NoFile /\ KeyAt(fs, i) \in Key
<1>1. fs[i] \in Rec
  OBVIOUS
<1>2. fs[i].path \in SomePath /\ fs[i].file \in File
  BY <1>1 DEF Rec
<1>3. KeyOf(fs[i].path) \in Key
  BY <1>2, KeysExist, WayIsPrefixes
<1> QED BY <1>1, <1>2, <1>3, ListAssumption DEF KeyAt

\* The file at i is the first of fs with its key.
FirstAt(fs, key, i) == KeyAt(fs, i) = key /\ \A j \in 1 .. i - 1 : KeyAt(fs, j) # key

\* A tree has the keys that the files fs begin with, and at each the first of
\* the files with that key.
Holds(tr, fs) ==
    /\ tr \in Tree
    /\ \A key \in Key :
          key \in DOMAIN tr <=> key = <<>> \/ \E i \in 1 .. Len(fs) : IsPrefix(key, KeyAt(fs, i))
    /\ \A key \in DOMAIN tr :
          \/ tr[key].file = NoFile /\ \A i \in 1 .. Len(fs) : KeyAt(fs, i) # key
          \/ \E i \in 1 .. Len(fs) : FirstAt(fs, key, i) /\ tr[key].file = fs[i].file

LEMMA EmptyHolds == Holds(EmptyTree, <<>>)
<1>1. EmptyTree \in [{<<>>} -> Entry] /\ {<<>>} \in SUBSET Key
  BY DEF EmptyTree, NewEntry, Entry, Key
<1>2. DOMAIN EmptyTree = {<<>>} /\ EmptyTree[<<>>].children = <<>> /\ EmptyTree[<<>>].file = NoFile
  BY DEF EmptyTree, NewEntry
<1>3. Ordered(<<>>) /\ ToSet(<<>>) = {}
  BY DEF Ordered, ToSet
<1>4. Linked(EmptyTree)
  <2>1. ASSUME NEW key \in Key, NEW n \in Nat
        PROVE  Append(key, n) \notin DOMAIN EmptyTree
    BY <1>2, AppendIsOne
  <2>2. ASSUME NEW key \in DOMAIN EmptyTree, NEW n
        PROVE  n \notin ToSet(EmptyTree[key].children)
    BY <1>2, <1>3
  <2> QED BY <2>1, <2>2 DEF Linked
<1>5. EmptyTree \in Tree
  BY <1>1, <1>2, <1>3, <1>4 DEF Tree
<1>6. Len(<<>>) = 0 /\ 1 .. 0 = {}
  OBVIOUS
<1> QED BY <1>2, <1>5, <1>6 DEF Holds

\* The places with a key are told from their places in the longer sequence.
LEMMA KeyAtAppend ==
    ASSUME NEW fs \in Seq(Rec), NEW r \in Rec
    PROVE  /\ Append(fs, r) \in Seq(Rec) /\ Len(Append(fs, r)) = Len(fs) + 1 /\ Len(fs) \in Nat
           /\ \A i \in 1 .. Len(fs) : Append(fs, r)[i] = fs[i] /\ KeyAt(Append(fs, r), i) = KeyAt(fs, i)
           /\ Append(fs, r)[Len(fs) + 1] = r /\ KeyAt(Append(fs, r), Len(fs) + 1) = KeyOf(r.path)
BY AppendProperties DEF KeyAt

LEMMA SetFile ==
    ASSUME NEW tr \in Tree, NEW key \in DOMAIN tr, NEW file \in File
    PROVE  LET new == [tr EXCEPT ![key].file = file]
           IN  /\ new \in Tree /\ DOMAIN new = DOMAIN tr /\ new[key].file = file
               /\ \A k \in DOMAIN tr : new[k].children = tr[k].children
               /\ \A k \in DOMAIN tr : k # key => new[k] = tr[k]
<1> DEFINE new == [tr EXCEPT ![key].file = file]
<1>1. /\ tr \in [DOMAIN tr -> Entry] /\ DOMAIN tr \in SUBSET Key /\ <<>> \in DOMAIN tr
      /\ \A k \in DOMAIN tr : tr[k] \in Entry /\ Ordered(tr[k].children)
      /\ Linked(tr)
  BY TreeTypes
<1>2. DOMAIN new = DOMAIN tr /\ new[key] = [tr[key] EXCEPT !.file = file]
      /\ \A k \in DOMAIN tr : k # key => new[k] = tr[k]
  OBVIOUS
<1>3. new[key] \in Entry /\ new[key].file = file /\ new[key].children = tr[key].children
  BY <1>1, <1>2 DEF Entry
<1>4. new = [k \in DOMAIN tr |-> new[k]]
  OBVIOUS
<1> HIDE DEF new
<1>5. \A k \in DOMAIN tr : new[k].children = tr[k].children
  BY <1>2, <1>3
<1>6. new \in [DOMAIN tr -> Entry]
  BY <1>1, <1>2, <1>3, <1>4
<1>7. Linked(new)
  BY <1>1, <1>2, <1>5 DEF Linked
<1>8. new \in Tree
  BY <1>1, <1>2, <1>5, <1>6, <1>7 DEF Tree
<1> QED BY <1>2, <1>3, <1>5, <1>8 DEF new


\* One more file.
LEMMA BuiltHolds ==
    ASSUME NEW tr, NEW fs \in Seq(Rec), Holds(tr, fs), NEW r \in Rec
    PROVE  Holds(Built(tr, r.path, r.file), Append(fs, r))
<1> DEFINE gs == Append(fs, r)
           n == Len(fs)
           key == KeyOf(r.path)
           at == Entered(tr, r.path)
           mid == at.tree
           new == Built(tr, r.path, r.file)
<1>1. /\ gs \in Seq(Rec) /\ Len(gs) = n + 1 /\ n \in Nat
      /\ \A i \in 1 .. n : gs[i] = fs[i] /\ KeyAt(gs, i) = KeyAt(fs, i)
      /\ gs[n + 1] = r /\ KeyAt(gs, n + 1) = key
  BY KeyAtAppend
<1>2. r.path \in SomePath /\ r.file \in File /\ r.file # NoFile
  BY ListAssumption DEF Rec
<1>3. PICK keys : KeysOf(keys, r.path)
  BY <1>2, KeysExist
<1>4. key \in Key /\ \A k \in Key : (k \in OnTheWay(keys, r.path)) <=> IsPrefix(k, key)
  BY <1>2, <1>3, WayIsPrefixes
<1>5. tr \in Tree
  BY DEF Holds
<1>6. at \in Place /\ at.key = key /\ Grown(tr, mid, OnTheWay(keys, r.path))
  BY <1>2, <1>3, <1>5, EnteredGrows
<1>7. mid \in Tree /\ key \in DOMAIN mid
  BY <1>6 DEF Place
<1>8. new = IF mid[key].file = NoFile THEN [mid EXCEPT ![key].file = r.file] ELSE mid
  BY <1>6 DEF Built
<1> HIDE DEF gs, at, mid, new, n, key
<1>9. \A i \in 1 .. n : fs[i].file # NoFile /\ KeyAt(fs, i) \in Key
  BY KeyAtType DEF n
<1>10. \A k \in DOMAIN tr : k \in Key
  BY <1>5, TreeTypes
<1>11. /\ new \in Tree /\ DOMAIN new = DOMAIN mid
       /\ new[key].file = IF mid[key].file = NoFile THEN r.file ELSE mid[key].file
       /\ \A k \in DOMAIN mid : k # key => new[k] = mid[k]
  <2>1. CASE mid[key].file = NoFile
    <3> DEFINE set == [mid EXCEPT ![key].file = r.file]
    <3>1. /\ set \in Tree /\ DOMAIN set = DOMAIN mid /\ set[key].file = r.file
          /\ \A k \in DOMAIN mid : k # key => set[k] = mid[k]
      BY <1>2, <1>7, SetFile
    <3>2. new = set
      BY <1>8, <2>1
    <3> HIDE DEF set
    <3> QED BY <2>1, <3>1, <3>2
  <2>2. CASE mid[key].file # NoFile
    BY <1>7, <1>8, <2>2
  <2> QED BY <2>1, <2>2
<1>12. \A k \in Key : k \in DOMAIN new <=>
          k = <<>> \/ \E i \in 1 .. Len(gs) : IsPrefix(k, KeyAt(gs, i))
  <2> SUFFICES ASSUME NEW k \in Key
               PROVE  k \in DOMAIN new <=>
                        k = <<>> \/ \E i \in 1 .. n + 1 : IsPrefix(k, KeyAt(gs, i))
    BY <1>1
  <2>1. k \in DOMAIN new <=> k \in DOMAIN tr \/ IsPrefix(k, key)
    BY <1>4, <1>6, <1>11 DEF Grown
  <2>2. k \in DOMAIN tr <=> k = <<>> \/ \E i \in 1 .. n : IsPrefix(k, KeyAt(fs, i))
    BY DEF Holds, n
  <2>3. (\E i \in 1 .. n + 1 : IsPrefix(k, KeyAt(gs, i))) <=>
            (\E i \in 1 .. n : IsPrefix(k, KeyAt(fs, i))) \/ IsPrefix(k, key)
    <3>1. ASSUME NEW i \in 1 .. n + 1, IsPrefix(k, KeyAt(gs, i))
          PROVE  (\E j \in 1 .. n : IsPrefix(k, KeyAt(fs, j))) \/ IsPrefix(k, key)
      <4>1. CASE i = n + 1
        BY <1>1, <3>1, <4>1
      <4>2. CASE i # n + 1
        <5>1. i \in 1 .. n
          BY <1>1, <4>2
        <5> QED BY <1>1, <3>1, <5>1
      <4> QED BY <4>1, <4>2
    <3>2. ASSUME NEW i \in 1 .. n, IsPrefix(k, KeyAt(fs, i))
          PROVE  \E j \in 1 .. n + 1 : IsPrefix(k, KeyAt(gs, j))
      <4>1. i \in 1 .. n + 1
        BY <1>1
      <4> QED BY <1>1, <3>2, <4>1
    <3>3. n + 1 \in 1 .. n + 1
      BY <1>1
    <3> QED BY <1>1, <3>1, <3>2, <3>3
  <2> QED BY <2>1, <2>2, <2>3
<1>13. ASSUME NEW k \in DOMAIN new
       PROVE  \/ new[k].file = NoFile /\ \A i \in 1 .. Len(gs) : KeyAt(gs, i) # k
              \/ \E i \in 1 .. Len(gs) : FirstAt(gs, k, i) /\ new[k].file = gs[i].file
  <2>1. k \in DOMAIN tr \/ (k \notin DOMAIN tr /\ mid[k].file = NoFile)
    BY <1>6, <1>11 DEF Grown
  <2>2. k \in DOMAIN tr =>
            \/ mid[k].file = NoFile /\ \A i \in 1 .. n : KeyAt(fs, i) # k
            \/ \E i \in 1 .. n : FirstAt(fs, k, i) /\ mid[k].file = fs[i].file
    BY <1>6 DEF Grown, Holds, n
  <2>3. k \notin DOMAIN tr => \A i \in 1 .. n : KeyAt(fs, i) # k
    <3>1. ASSUME NEW i \in 1 .. n, KeyAt(fs, i) = k PROVE k \in DOMAIN tr
      <4>1. k \in Key
        BY <1>9, <3>1
      <4>2. Len(k) \in Nat
        BY <4>1 DEF Key
      <4>3. IsPrefix(k, k)
        BY <4>1, <4>2, PrefixIs
      <4> QED BY <3>1, <4>1, <4>3 DEF Holds, n
    <3> QED BY <3>1
  <2>4. \/ mid[k].file = NoFile /\ \A i \in 1 .. n : KeyAt(fs, i) # k
        \/ \E i \in 1 .. n : FirstAt(fs, k, i) /\ mid[k].file = fs[i].file
    BY <2>1, <2>2, <2>3
  <2>5. CASE \E i \in 1 .. n : FirstAt(fs, k, i) /\ mid[k].file = fs[i].file
    <3>1. PICK i \in 1 .. n : FirstAt(fs, k, i) /\ mid[k].file = fs[i].file
      BY <2>5
    <3>2. mid[k].file # NoFile
      BY <1>9, <3>1
    <3>3. new[k].file = fs[i].file
      BY <1>11, <3>1, <3>2
    <3>4. i \in 1 .. Len(gs) /\ gs[i] = fs[i] /\ KeyAt(gs, i) = KeyAt(fs, i)
      BY <1>1
    <3>5. \A j \in 1 .. i - 1 : KeyAt(gs, j) = KeyAt(fs, j)
      BY <1>1
    <3>6. FirstAt(gs, k, i)
      BY <3>1, <3>4, <3>5 DEF FirstAt
    <3> QED BY <3>3, <3>4, <3>6
  <2>6. CASE mid[k].file = NoFile /\ \A i \in 1 .. n : KeyAt(fs, i) # k
    <3>1. CASE k = key
      <4>1. new[k].file = r.file
        BY <1>11, <2>6, <3>1
      <4>2. n + 1 \in 1 .. Len(gs) /\ gs[n + 1] = r /\ (n + 1) - 1 = n
        BY <1>1
      <4>3. FirstAt(gs, k, n + 1)
        <5>1. \A j \in 1 .. n : KeyAt(gs, j) # k
          BY <1>1, <2>6
        <5> QED BY <1>1, <3>1, <4>2, <5>1 DEF FirstAt
      <4> QED BY <4>1, <4>2, <4>3
    <3>2. CASE k # key
      <4>1. new[k].file = NoFile
        BY <1>11, <2>6, <3>2
      <4>2. ASSUME NEW i \in 1 .. Len(gs) PROVE KeyAt(gs, i) # k
        <5>1. i \in 1 .. n \/ i = n + 1
          BY <1>1
        <5> QED BY <1>1, <2>6, <3>2, <5>1
      <4> QED BY <4>1, <4>2
    <3> QED BY <3>1, <3>2
  <2> QED BY <2>4, <2>5, <2>6
<1>14. Holds(new, gs)
  BY <1>11, <1>12, <1>13 DEF Holds
<1> QED BY <1>14 DEF new, gs

\* What a tree that holds the files is asked to be.
LEMMA HeldIsBuilt ==
    ASSUME NEW tr, NEW fs \in Seq(Rec), Holds(tr, fs)
    PROVE  BuiltFrom(tr, fs, Paths)
<1> DEFINE n == Len(fs)
           keys == [i \in DOMAIN fs |-> KeyOf(fs[i].path)]
           With(key) == {i \in DOMAIN fs : keys[i] = key}
           Below(key) == {i \in DOMAIN fs : IsPrefix(key, keys[i])}
<1>1. n \in Nat /\ DOMAIN fs = 1 .. n
  OBVIOUS
<1>2. \A i \in 1 .. n : keys[i] = KeyAt(fs, i) /\ keys[i] \in Key
  BY <1>1, KeyAtType DEF KeyAt
<1> HIDE DEF n, keys
<1>3. tr \in Tree
  BY DEF Holds
<1>4. ASSUME NEW path \in Paths
      PROVE  LET key == KeyOf(path)
                 found == Find(tr, path)
             IN  /\ found = IF Below(key) = {} /\ key # <<>> THEN {} ELSE {key}
                 /\ found # {} =>
                       tr[key].file = IF With(key) = {} THEN NoFile
                                      ELSE fs[Min(With(key))].file
  <2> DEFINE key == KeyOf(path)
  <2>1. path \in SomePath
    BY InputsAssumption DEF SomePath
  <2>2. Find(tr, path) = Here(tr, key)
    BY <1>3, <2>1, FindFinds
  <2>3. key \in Key
    BY <2>1, KeysExist, WayIsPrefixes
  <2> HIDE DEF key
  <2>4. key \in DOMAIN tr <=> key = <<>> \/ \E i \in 1 .. n : IsPrefix(key, keys[i])
    BY <1>2, <2>3 DEF Holds, n
  <2>5. Here(tr, key) = IF Below(key) = {} /\ key # <<>> THEN {} ELSE {key}
    <3>1. (Below(key) = {}) <=> ~ \E i \in 1 .. n : IsPrefix(key, keys[i])
      BY <1>1
    <3> HIDE DEF Below
    <3> QED BY <2>4, <3>1 DEF Here
  <2>6. ASSUME key \in DOMAIN tr
        PROVE  tr[key].file = IF With(key) = {} THEN NoFile ELSE fs[Min(With(key))].file
    <3>1. CASE tr[key].file = NoFile /\ \A i \in 1 .. n : KeyAt(fs, i) # key
      <4>1. With(key) = {}
        BY <1>1, <1>2, <3>1
      <4> QED BY <3>1, <4>1
    <3>2. CASE \E i \in 1 .. n : FirstAt(fs, key, i) /\ tr[key].file = fs[i].file
      <4>1. PICK i \in 1 .. n : FirstAt(fs, key, i) /\ tr[key].file = fs[i].file
        BY <3>2
      <4>2. i \in With(key)
        BY <1>1, <1>2, <4>1 DEF FirstAt
      <4>3. ASSUME NEW j \in With(key) PROVE i <= j /\ j \in Nat
        <5>1. j \in 1 .. n /\ KeyAt(fs, j) = key
          BY <1>1, <1>2
        <5>2. j \notin 1 .. i - 1
          BY <4>1, <5>1 DEF FirstAt
        <5> QED BY <1>1, <5>1, <5>2
      <4> HIDE DEF With
      <4>4. Min(With(key)) = i
        <5>1. \E x \in With(key) : \A y \in With(key) : x <= y
          BY <4>2, <4>3
        <5>2. Min(With(key)) \in With(key) /\ Min(With(key)) <= i
          BY <4>2, <5>1 DEF Min
        <5>3. i <= Min(With(key)) /\ Min(With(key)) \in Nat /\ i \in Nat
          BY <4>2, <4>3, <5>2
        <5> QED BY <5>2, <5>3
      <4> QED BY <4>1, <4>2, <4>4
    <3> QED BY <2>6, <3>1, <3>2 DEF Holds, n
  <2> HIDE DEF With, Below
  <2>7. Here(tr, key) # {} => key \in DOMAIN tr
    BY DEF Here
  <2> QED BY <2>2, <2>5, <2>6, <2>7 DEF key
<1>5. ASSUME NEW key \in DOMAIN tr
      PROVE  /\ \A i, j \in DOMAIN tr[key].children :
                    i < j => tr[key].children[i] < tr[key].children[j]
             /\ ToSet(tr[key].children) =
                    {keys[i][Len(key) + 1] : i \in {k \in Below(key) : keys[k] # key}}
  <2>1. key \in Key /\ tr[key].children \in Seq(Nat) /\ Ordered(tr[key].children) /\ Linked(tr)
    BY <1>3, TreeTypes
  <2> DEFINE s == tr[key].children
             Next1 == {keys[i][Len(key) + 1] : i \in {k \in Below(key) : keys[k] # key}}
  <2>2. \A m \in Nat : m \in ToSet(s) <=> Append(key, m) \in DOMAIN tr
    BY <2>1 DEF Linked
  <2>3. ASSUME NEW m \in Nat
        PROVE  Append(key, m) \in DOMAIN tr <=>
                 \E i \in 1 .. n : IsPrefix(key, keys[i]) /\ keys[i] # key /\ keys[i][Len(key) + 1] = m
    <3>1. Append(key, m) \in Key /\ Append(key, m) # <<>>
      BY <2>1, AppendIsOne
    <3>2. Append(key, m) \in DOMAIN tr <=> \E i \in 1 .. n : IsPrefix(Append(key, m), keys[i])
      BY <1>2, <3>1 DEF Holds, n
    <3>3. \A i \in 1 .. n : IsPrefix(Append(key, m), keys[i]) <=>
              IsPrefix(key, keys[i]) /\ keys[i] # key /\ keys[i][Len(key) + 1] = m
      BY <1>2, <2>1, AppendIsPrefix
    <3> QED BY <3>2, <3>3
  <2>4. ToSet(s) \subseteq Nat
    BY <2>1 DEF ToSet
  <2>5. \A m : m \in Next1 <=>
            \E i \in 1 .. n : IsPrefix(key, keys[i]) /\ keys[i] # key /\ keys[i][Len(key) + 1] = m
    BY <1>1
  <2>6. Next1 \subseteq Nat
    <3> SUFFICES ASSUME NEW i \in 1 .. n, IsPrefix(key, keys[i]), keys[i] # key
                 PROVE  keys[i][Len(key) + 1] \in Nat
      BY <1>1
    <3>1. Len(key) <= Len(keys[i]) /\ \A j \in 1 .. Len(key) : key[j] = keys[i][j]
      BY <1>2, <2>1, PrefixIs
    <3>2. Len(key) \in Nat /\ Len(keys[i]) \in Nat
      BY <1>2, <2>1 DEF Key
    <3>3. Len(key) # Len(keys[i])
      <4>1. ASSUME Len(key) = Len(keys[i]) PROVE key = keys[i]
        BY <1>2, <2>1, <3>1, <4>1, SeqEqual DEF Key
      <4> QED BY <4>1
    <3>4. Len(key) + 1 \in 1 .. Len(keys[i])
      BY <3>1, <3>2, <3>3
    <3>5. keys[i] \in Seq(Nat)
      BY <1>2 DEF Key
    <3> QED BY <3>4, <3>5
  <2> HIDE DEF Next1
  <2>7. ToSet(s) = Next1
    BY <2>2, <2>3, <2>4, <2>5, <2>6
  <2> QED BY <2>1, <2>7 DEF Ordered, Next1
<1> QED BY <1>4, <1>5 DEF BuiltFrom, keys


-----------------------------------------------------------------------------
(***************************************************************************)
(* The chunks of a file                                                    *)
(***************************************************************************)

EndOf(f, i) == List[f][i].at + Size[List[f][i].id]

LEMMA ListTypes ==
    ASSUME NEW f \in File
    PROVE  /\ Len(List[f]) \in Nat /\ DOMAIN List[f] = 1 .. Len(List[f]) /\ Total[f] \in Nat
           /\ \A i \in 1 .. Len(List[f]) :
                 /\ List[f][i] \in [id : Chunk, at : Nat]
                 /\ List[f][i].id \in Chunk /\ List[f][i].at \in Nat /\ Size[List[f][i].id] \in Nat
                 /\ EndOf(f, i) \in Nat /\ List[f][i].at <= EndOf(f, i)
<1>1. List[f] \in Seq([id : Chunk, at : Nat]) /\ Total[f] \in Nat
  BY ListAssumption
<1>2. Len(List[f]) \in Nat /\ DOMAIN List[f] = 1 .. Len(List[f])
  BY <1>1
<1>3. ASSUME NEW i \in 1 .. Len(List[f])
      PROVE  /\ List[f][i] \in [id : Chunk, at : Nat]
             /\ List[f][i].id \in Chunk /\ List[f][i].at \in Nat /\ Size[List[f][i].id] \in Nat
             /\ EndOf(f, i) \in Nat /\ List[f][i].at <= EndOf(f, i)
  <2>1. List[f][i] \in [id : Chunk, at : Nat]
    BY <1>1, ElementOfSeq
  <2>2. List[f][i].id \in Chunk /\ List[f][i].at \in Nat
    BY <2>1
  <2>3. Size[List[f][i].id] \in Nat
    BY <2>2, ListAssumption
  <2> QED BY <2>1, <2>2, <2>3 DEF EndOf
<1> QED BY <1>1, <1>2, <1>3

\* A chunk begins where the one before it ends, the first at 0.
LEMMA ListAdjacent ==
    ASSUME NEW f \in File, NEW i \in 1 .. Len(List[f])
    PROVE  List[f][i].at = IF i = 1 THEN 0 ELSE EndOf(f, i - 1)
<1>1. i \in DOMAIN List[f]
  BY ListTypes
<1> QED BY <1>1, ListAssumption DEF EndOf

\* Later chunks begin behind the end of earlier ones.
LEMMA ListGrows ==
    ASSUME NEW f \in File, NEW i \in 1 .. Len(List[f]), NEW j \in 1 .. Len(List[f]), i < j
    PROVE  EndOf(f, i) <= List[f][j].at
<1> DEFINE n == Len(List[f])
           P == {k \in Nat : i + 1 + k <= n => EndOf(f, i) <= List[f][i + 1 + k].at}
<1>1. n \in Nat /\ i \in 1 .. n /\ j \in 1 .. n
  BY ListTypes
<1>2. 0 \in P
  <2>1. ASSUME i + 1 <= n PROVE EndOf(f, i) <= List[f][i + 1].at
    <3>1. i + 1 \in 1 .. n /\ (i + 1) - 1 = i /\ i + 1 # 1
      BY <1>1, <2>1
    <3>2. List[f][i + 1].at = EndOf(f, i) /\ EndOf(f, i) \in Nat
      BY <1>1, <3>1, ListAdjacent, ListTypes
    <3> QED BY <3>2
  <2>2. i + 1 + 0 = i + 1
    BY <1>1
  <2> QED BY <2>1, <2>2
<1>3. ASSUME NEW k \in 1 .. n, k - 1 \in P PROVE k \in P
  <2>1. SUFFICES ASSUME i + 1 + k <= n PROVE EndOf(f, i) <= List[f][i + 1 + k].at
    BY <1>1
  <2> DEFINE m == i + 1 + k
  <2>2. m \in 1 .. n /\ m - 1 \in 1 .. n /\ m # 1 /\ i + 1 + (k - 1) = m - 1
    BY <1>1, <2>1
  <2>3. EndOf(f, i) <= List[f][m - 1].at
    BY <1>3, <2>2
  <2> HIDE DEF m
  <2>4. List[f][m].at = EndOf(f, m - 1)
    BY <2>2, ListAdjacent
  <2>5. List[f][m - 1].at <= EndOf(f, m - 1) /\ List[f][m - 1].at \in Nat /\ EndOf(f, m - 1) \in Nat
        /\ EndOf(f, i) \in Nat
    BY <1>1, <2>2, ListTypes
  <2>6. EndOf(f, i) <= List[f][m].at
    BY <2>3, <2>4, <2>5
  <2> QED BY <2>6 DEF m
<1>4. \A k \in 0 .. n : k \in P
  <2> HIDE DEF P, n
  <2> QED BY <1>1, <1>2, <1>3, UpTo
<1>5. j - i - 1 \in 0 .. n /\ i + 1 + (j - i - 1) = j /\ j <= n
  BY <1>1
<1>6. j - i - 1 \in P
  <2> HIDE DEF P, n
  <2> QED BY <1>4, <1>5
<1>7. EndOf(f, i) <= List[f][i + 1 + (j - i - 1)].at
  BY <1>5, <1>6
<1> QED BY <1>5, <1>7

\* A cell of the file is found in the one chunk that has it.
LEMMA CellIs ==
    ASSUME NEW f \in File, NEW i \in 1 .. Len(List[f]), NEW k \in 1 .. Size[List[f][i].id]
    PROVE  Cell(f, List[f][i].at + k) = Data(List[f][i].id)[k]
<1> DEFINE n == List[f][i].at + k
           Has(j) == n \in List[f][j].at + 1 .. List[f][j].at + Size[List[f][j].id]
           c == CHOOSE j \in DOMAIN List[f] : Has(j)
<1>1. /\ Len(List[f]) \in Nat /\ DOMAIN List[f] = 1 .. Len(List[f])
      /\ \A j \in 1 .. Len(List[f]) : List[f][j].at \in Nat /\ Size[List[f][j].id] \in Nat
  BY ListTypes
<1>2. k \in Nat /\ n \in Nat /\ n - List[f][i].at = k
  BY <1>1
<1>3. i \in DOMAIN List[f] /\ Has(i)
  BY <1>1
<1>4. c \in DOMAIN List[f] /\ Has(c)
  BY <1>3
<1> HIDE DEF c
<1>5. c = i
  <2>1. c \in 1 .. Len(List[f])
    BY <1>1, <1>4
  <2>2. ASSUME NEW j \in 1 .. Len(List[f]), NEW l \in 1 .. Len(List[f]), j < l PROVE ~(Has(j) /\ Has(l))
    <3>1. List[f][j].at + Size[List[f][j].id] <= List[f][l].at
      BY <2>2, ListGrows DEF EndOf
    <3> DEFINE aj == List[f][j].at
               sj == Size[List[f][j].id]
               al == List[f][l].at
               sl == Size[List[f][l].id]
    <3>2. aj \in Nat /\ sj \in Nat /\ al \in Nat /\ sl \in Nat /\ aj + sj <= al /\ n \in Nat
      BY <1>1, <1>2, <3>1
    <3>3. (Has(j) /\ Has(l)) = (n \in aj + 1 .. aj + sj /\ n \in al + 1 .. al + sl)
      OBVIOUS
    <3> HIDE DEF n, aj, sj, al, sl
    <3>4. ~(n \in aj + 1 .. aj + sj /\ n \in al + 1 .. al + sl)
      BY ONLY <3>2
    <3> QED BY <3>3, <3>4
  <2> HIDE DEF Has
  <2> QED BY <1>1, <1>3, <1>4, <2>1, <2>2
<1>6. Cell(f, n) = Data(List[f][c].id)[n - List[f][c].at]
  BY DEF Cell, c
<1> HIDE DEF n
<1> QED BY <1>2, <1>5, <1>6 DEF n

-----------------------------------------------------------------------------
(***************************************************************************)
(* The chunks of a read                                                    *)
(***************************************************************************)

\* What has all in front of each of its members has as many as it reaches.
LEMMA CountFrom ==
    ASSUME NEW a \in Nat, NEW n \in Nat, NEW S, S \subseteq a .. n,
           \A i \in S : \A j \in a .. i : j \in S
    PROVE  Cardinality(S) \in Nat /\ S = a .. a + Cardinality(S) - 1
<1> DEFINE T == {k \in Nat : k >= a /\ k \notin S}
<1>1. PICK m \in T : \A k \in T : m <= k
  <2>1. T \subseteq Nat /\ a + n + 1 \in T
    OBVIOUS
  <2> HIDE DEF T
  <2> QED BY <2>1, LeastNatural
<1>2. m \in Nat /\ m >= a /\ m \notin S
  BY <1>1
<1>3. \A k \in a .. m - 1 : k \in S
  <2>1. ASSUME NEW k \in a .. m - 1 PROVE k \notin T
    <3> HIDE DEF T
    <3>1. k \in Nat /\ ~(m <= k)
      BY <1>2
    <3> QED BY <1>1, <3>1
  <2> QED BY <1>2, <2>1
<1>4. S = a .. m - 1
  <2>1. ASSUME NEW k \in S PROVE k \in a .. m - 1
    <3>1. k \in Nat /\ k >= a
      OBVIOUS
    <3>2. m \notin a .. k
      BY <1>2
    <3> QED BY <1>2, <3>1, <3>2
  <2> QED BY <1>3, <2>1
<1>5. Cardinality(a .. m - 1) = m - a
  <2>1. m - 1 \in Int /\ a \in Int
    BY <1>2
  <2>2. Cardinality(a .. m - 1) = IF a > m - 1 THEN 0 ELSE (m - 1) - a + 1
    BY <2>1, FS_Interval
  <2> QED BY <1>2, <2>2
<1> HIDE DEF T
<1>6. Cardinality(S) = m - a
  BY <1>4, <1>5
<1>7. Cardinality(S) \in Nat /\ a + Cardinality(S) - 1 = m - 1
  BY <1>2, <1>6
<1> QED BY <1>4, <1>7

\* The chunks still to visit: from the one the position is in, or at the end of,
\* to the last that begins before the end of the read.
Ahead(f, chunks, position, end) ==
    chunks # <<>> =>
        \E p \in 1 .. Len(List[f]) : \E q \in p .. Len(List[f]) :
            /\ chunks = SubSeq(List[f], p, q)
            /\ List[f][p].at <= position /\ position <= EndOf(f, p)
            /\ \A j \in p .. q : List[f][j].at < end

LEMMA RangeIsAhead ==
    ASSUME NEW f \in File, NEW offset \in Nat, NEW size \in Nat
    PROVE  Ahead(f, InRange(List[f], offset, size), offset, offset + size)
<1> DEFINE L == List[f]
           n == Len(L)
           A == {i \in DOMAIN L : EndOf(f, i) <= offset}
           first == 1 + Cardinality(A)
           B == {i \in first .. n : L[i].at < offset + size}
           count == Cardinality(B)
           last1 == first + count - 1
<1>1. InRange(L, offset, size) = SubSeq(L, first, last1)
  BY DEF InRange, EndOf
<1>2. /\ n \in Nat /\ DOMAIN L = 1 .. n
      /\ \A i \in 1 .. n : L[i].at \in Nat /\ EndOf(f, i) \in Nat /\ L[i].at <= EndOf(f, i)
  BY ListTypes
<1>3. \A i \in 1 .. n, j \in 1 .. n : i < j => EndOf(f, i) <= L[j].at
  BY ListGrows
<1>4. \A i \in 1 .. n : L[i].at = IF i = 1 THEN 0 ELSE EndOf(f, i - 1)
  BY ListAdjacent
<1>5. L \in Seq([id : Chunk, at : Nat])
  BY ListAssumption
<1> HIDE DEF L, n
<1>6. A \subseteq 1 .. n /\ \A i \in A : \A j \in 1 .. i : j \in A
  <2>1. ASSUME NEW i \in A, NEW j \in 1 .. i PROVE j \in A
    <3>1. i \in 1 .. n /\ j \in 1 .. n /\ EndOf(f, i) <= offset
      BY <1>2
    <3>2. CASE j = i
      BY <3>2
    <3>3. CASE j < i
      <4>1. EndOf(f, j) <= L[i].at
        BY <1>3, <3>1, <3>3
      <4>2. EndOf(f, j) <= offset
        BY <1>2, <3>1, <4>1
      <4> QED BY <1>2, <3>1, <4>2
    <3> QED BY <3>1, <3>2, <3>3
  <2> QED BY <1>2, <2>1
<1>7. Cardinality(A) \in Nat /\ A = 1 .. Cardinality(A)
  <2> HIDE DEF A
  <2>1. Cardinality(A) \in Nat /\ A = 1 .. 1 + Cardinality(A) - 1
    BY <1>2, <1>6, CountFrom
  <2>2. 1 + Cardinality(A) - 1 = Cardinality(A)
    BY <2>1
  <2> QED BY <2>1, <2>2
<1>8. first \in Nat /\ first >= 1 /\ first \notin A /\ (first > 1 => first - 1 \in A)
  <2> HIDE DEF A
  <2> QED BY <1>7
<1> HIDE DEF first
<1>9. B \subseteq first .. n /\ \A i \in B : \A j \in first .. i : j \in B
  <2>1. ASSUME NEW i \in B, NEW j \in first .. i PROVE j \in B
    <3>1. i \in 1 .. n /\ j \in 1 .. n /\ j \in first .. n /\ L[i].at < offset + size
      BY <1>2, <1>8
    <3>2. CASE j = i
      BY <3>2
    <3>3. CASE j < i
      <4>1. EndOf(f, j) <= L[i].at /\ L[j].at <= EndOf(f, j)
        BY <1>2, <1>3, <3>1, <3>3
      <4>2. L[j].at < offset + size
        BY <1>2, <3>1, <4>1
      <4> QED BY <3>1, <4>2
    <3> QED BY <1>8, <3>1, <3>2, <3>3
  <2> QED BY <2>1
<1>10. count \in Nat /\ B = first .. last1
  <2> HIDE DEF B
  <2> QED BY <1>2, <1>8, <1>9, CountFrom
<1>11. ASSUME SubSeq(L, first, last1) # <<>>
       PROVE  \E p \in 1 .. n : \E q \in p .. n :
                  /\ SubSeq(L, first, last1) = SubSeq(L, p, q)
                  /\ L[p].at <= offset /\ offset <= EndOf(f, p)
                  /\ \A j \in p .. q : L[j].at < offset + size
  <2>1. first <= last1
    <3>1. ASSUME last1 < first PROVE SubSeq(L, first, last1) = <<>>
      <4>1. first \in Int /\ last1 \in Int
        BY <1>8, <1>10
      <4> HIDE DEF last1
      <4> QED BY <3>1, <4>1, SubSeqEmpty
    <3> QED BY <1>8, <1>10, <1>11, <3>1
  <2>2. first \in B /\ last1 \in B
    <3> HIDE DEF B
    <3> QED BY <1>8, <1>10, <2>1
  <2>3. first \in 1 .. n /\ last1 \in first .. n
    BY <1>2, <1>8, <2>2
  <2>4. offset <= EndOf(f, first)
    BY <1>2, <1>8, <2>3
  <2>5. L[first].at <= offset
    <3>1. CASE first = 1
      BY <1>4, <2>3, <3>1
    <3>2. CASE first # 1
      <4>1. first - 1 \in A /\ L[first].at = EndOf(f, first - 1)
        BY <1>4, <1>8, <2>3, <3>2
      <4> QED BY <4>1
    <3> QED BY <3>1, <3>2
  <2>6. \A j \in first .. last1 : L[j].at < offset + size
    BY <1>10
  <2> HIDE DEF last1
  <2> QED BY <2>3, <2>4, <2>5, <2>6
<1> QED BY <1>1, <1>11 DEF Ahead, L, n


\* No transfer is in order whose body ended early.
NoShort == "short" \notin Bodies

Byte == {<<c, k>> : c \in Chunk, k \in Nat} \cup {Garbage}

\* What a chunk decompressed to.
Body(c, data) ==
    data \in Seq(Byte) /\ Len(data) = Size[c] /\ (NoShort => data = Data(c))

LEMMA DataIsBody ==
    ASSUME NEW c \in Chunk
    PROVE  /\ Data(c) \in Seq(Byte) /\ Len(Data(c)) = Size[c] /\ Size[c] \in Nat
           /\ Unset(c) \in Seq(Byte) /\ Len(Unset(c)) = Size[c]
<1>1. Size[c] \in Nat
  BY ListAssumption
<1>2. \A k \in 1 .. Size[c] : <<c, k>> \in Byte /\ Garbage \in Byte
  BY DEF Byte
<1> QED BY <1>1, <1>2 DEF Data, Unset

\* A read in progress: it has bytes of the file, as far as it is, and will go on
\* where it is.
Reading(f, r, chunks, b) ==
    /\ f \in File /\ r \in [offset : Nat, size : Nat] /\ r.offset + r.size <= Total[f]
    /\ b \in Seq(Byte) /\ Len(b) <= r.size
    /\ NoShort => \A k \in 1 .. Len(b) : b[k] = Cell(f, r.offset + k)
    /\ Ahead(f, chunks, r.offset + Len(b), r.offset + r.size)

\* The part of a chunk that is wanted, for a position and a number of cells.
Piece(d, data, position, remaining) ==
    LET skip == IF position > d.at THEN position - d.at ELSE 0
        rest == Len(data) - skip
    IN SubSeq(data, skip + 1, skip + (IF remaining < rest THEN remaining ELSE rest))

LEMMA PieceFits ==
    ASSUME NEW at \in Nat, NEW size \in Nat, NEW position \in Nat, NEW remaining \in Nat,
           at <= position, position <= at + size
    PROVE  LET skip == position - at
               rest == size - skip
               m == IF remaining < rest THEN remaining ELSE rest
           IN  /\ skip \in Nat /\ skip <= size /\ m \in Nat /\ skip + m <= size /\ m <= remaining
               /\ position + m <= at + size /\ at + skip = position
               /\ (m < remaining => position + m = at + size)
<1> DEFINE rest == size - (position - at)
<1>1. rest \in Nat /\ position + rest = at + size
  OBVIOUS
<1>2. CASE remaining < rest
  BY <1>1, <1>2
<1>3. CASE ~(remaining < rest)
  BY <1>1, <1>3
<1> QED BY <1>2, <1>3

LEMMA PieceContinues ==
    ASSUME NEW f, NEW r, NEW chunks, NEW b, Reading(f, r, chunks, b), chunks # <<>>,
           NEW data, Body(Head(chunks).id, data)
    PROVE  Reading(f, r, Tail(chunks),
                   b \o Piece(Head(chunks), data, r.offset + Len(b), r.size - Len(b)))
<1> DEFINE L == List[f]
           n == Len(L)
           d == Head(chunks)
           position == r.offset + Len(b)
           end == r.offset + r.size
           remaining == r.size - Len(b)
           piece == Piece(d, data, position, remaining)
<1>1. /\ f \in File /\ r.offset \in Nat /\ r.size \in Nat /\ Len(b) \in Nat /\ Len(b) <= r.size
      /\ b \in Seq(Byte)
  BY DEF Reading
<1>2. PICK p \in 1 .. n : \E q \in p .. n :
          /\ chunks = SubSeq(L, p, q)
          /\ L[p].at <= position /\ position <= EndOf(f, p)
          /\ \A j \in p .. q : L[j].at < end
  BY DEF Reading, Ahead
<1>3. PICK q \in p .. n :
          /\ chunks = SubSeq(L, p, q)
          /\ L[p].at <= position /\ position <= EndOf(f, p)
          /\ \A j \in p .. q : L[j].at < end
  BY <1>2
<1>4. n \in Nat /\ p \in 1 .. n /\ q \in p .. n
  BY <1>1, ListTypes
<1>5. /\ L[p].id \in Chunk /\ L[p].at \in Nat /\ Size[L[p].id] \in Nat
      /\ EndOf(f, p) = L[p].at + Size[L[p].id]
  BY <1>1, ListTypes DEF EndOf
<1>6. d = L[p] /\ Tail(chunks) = SubSeq(L, p + 1, q)
  <2>1. L \in Seq([id : Chunk, at : Nat])
    BY <1>1, ListAssumption
  <2>2. Head(SubSeq(L, p, q)) = L[p] /\ Tail(SubSeq(L, p, q)) = SubSeq(L, p + 1, q)
    <3> HIDE DEF L
    <3> QED BY <2>1, <1>4, HeadTailOfSubSeq
  <2> HIDE DEF L
  <2> QED BY <1>3, <2>2
<1>7. data \in Seq(Byte) /\ Len(data) = Size[L[p].id] /\ (NoShort => data = Data(L[p].id))
  BY <1>6 DEF Body
<1> DEFINE skip == position - L[p].at
           rest == Len(data) - skip
           m == IF remaining < rest THEN remaining ELSE rest
<1>8. piece = SubSeq(data, skip + 1, skip + m)
  <2>1. (IF position > L[p].at THEN position - L[p].at ELSE 0) = skip
    BY <1>1, <1>3, <1>5
  <2> HIDE DEF position, remaining, L, d
  <2> QED BY <1>6, <2>1 DEF Piece
<1>9. /\ skip \in Nat /\ skip <= Len(data) /\ m \in Nat /\ skip + m <= Len(data) /\ m <= remaining
      /\ position + m <= EndOf(f, p) /\ L[p].at + skip = position
      /\ (m < remaining => position + m = EndOf(f, p))
  <2>1. position \in Nat /\ remaining \in Nat /\ Len(data) = Size[L[p].id]
    BY <1>1, <1>7
  <2> DEFINE a == L[p].at
             s == Size[L[p].id]
  <2>2. a \in Nat /\ s \in Nat /\ a <= position /\ position <= a + s
    BY <1>3, <1>5
  <2> HIDE DEF a, s, position, remaining
  <2>3. LET sk == position - a
            re == s - sk
            mm == IF remaining < re THEN remaining ELSE re
        IN  /\ sk \in Nat /\ sk <= s /\ mm \in Nat /\ sk + mm <= s /\ mm <= remaining
            /\ position + mm <= a + s /\ a + sk = position
            /\ (mm < remaining => position + mm = a + s)
    BY <2>1, <2>2, PieceFits
  <2> QED BY <2>1, <2>3, <1>5 DEF a, s
<1> HIDE DEF L, n, d, piece
<1>10. piece \in Seq(Byte) /\ Len(piece) = m /\ \A k \in 1 .. m : piece[k] = data[skip + k]
  <2> HIDE DEF skip, m
  <2>1. /\ skip + 1 \in Int /\ skip + m \in Int
        /\ (skip + m) - (skip + 1) + 1 = m /\ (skip + 1 <= skip + m <=> m # 0)
        /\ \A k \in 1 .. m : skip + 1 + k - 1 = skip + k
    <3>1. skip \in Nat /\ m \in Nat
      BY <1>9
    <3> HIDE DEF skip, m
    <3> QED BY <3>1
  <2>2. \A i \in skip + 1 .. skip + m : data[i] \in Byte
    <3>1. \A i \in skip + 1 .. skip + m : i \in 1 .. Len(data)
      BY <1>9
    <3> QED BY <1>7, <3>1, ElementOfSeq
  <2> DEFINE u == SubSeq(data, skip + 1, skip + m)
  <2>3. /\ u \in Seq(Byte)
        /\ Len(u) = IF skip + 1 <= skip + m THEN (skip + m) - (skip + 1) + 1 ELSE 0
        /\ \A k \in 1 .. (skip + m) - (skip + 1) + 1 : u[k] = data[skip + 1 + k - 1]
    BY <2>1, <2>2, SubSeqProperties
  <2> HIDE DEF u
  <2>4. Len(u) = m /\ \A k \in 1 .. m : u[k] = data[skip + k]
    BY <1>9, <2>1, <2>3
  <2> QED BY <1>8, <2>3, <2>4 DEF u
<1> DEFINE c == b \o piece
<1>11. c \in Seq(Byte) /\ Len(c) = Len(b) + m
       /\ \A k \in 1 .. Len(b) + m : c[k] = IF k <= Len(b) THEN b[k] ELSE piece[k - Len(b)]
  <2> HIDE DEF m
  <2> QED BY <1>1, <1>10, ConcatProperties
<1> HIDE DEF c
<1>12. Len(c) <= r.size /\ r.offset + Len(c) = position + m
  <2>1. m <= remaining /\ m \in Nat
    BY <1>9
  <2> HIDE DEF m
  <2> QED BY <1>1, <1>11, <2>1
<1>13. ASSUME NoShort, NEW k \in 1 .. Len(c) PROVE c[k] = Cell(f, r.offset + k)
  <2>0. k \in 1 .. Len(b) + m
    BY <1>11
  <2>1. CASE k <= Len(b)
    <3>1. k \in 1 .. Len(b)
      BY <1>1, <2>0, <2>1
    <3> QED BY <1>11, <1>13, <2>0, <2>1, <3>1 DEF Reading
  <2>2. CASE ~(k <= Len(b))
    <3> DEFINE i == k - Len(b)
    <3>1. c[k] = piece[i]
      BY <1>11, <2>0, <2>2
    <3>2. i \in 1 .. m /\ m \in Nat
      <4>1. m \in Nat
        BY <1>9
      <4> HIDE DEF m
      <4> QED BY <1>1, <2>0, <2>2, <4>1
    <3>3. piece[i] = data[skip + i] /\ data = Data(L[p].id)
      <4> HIDE DEF m, i, skip
      <4> QED BY <1>7, <1>10, <1>13, <3>2
    <3>4. skip + i \in 1 .. Size[L[p].id] /\ L[p].at + (skip + i) = r.offset + k
      <4>1. skip \in Nat /\ skip + m <= Size[L[p].id] /\ L[p].at + skip = position /\ m \in Nat
        BY <1>7, <1>9
      <4>2. i \in Nat /\ i >= 1 /\ i <= m /\ Len(b) + i = k
        <5>1. k \in Nat
          BY <1>1, <1>11
        <5> HIDE DEF m, skip
        <5> QED BY <1>1, <3>2, <4>1, <5>1
      <4>3. position + i = r.offset + k
        <5> HIDE DEF m, skip, i
        <5> QED BY <1>1, <4>2
      <4> DEFINE a == L[p].at
                 s == Size[L[p].id]
      <4>4. a \in Nat /\ s \in Nat /\ a + skip = position /\ skip + m <= s
        BY <1>5, <4>1
      <4> HIDE DEF skip, m, i, a, s, position
      <4>5. skip + i \in 1 .. s /\ a + (skip + i) = position + i
        BY <4>1, <4>2, <4>4
      <4> QED BY <4>3, <4>5 DEF a, s
    <3>5. Cell(f, L[p].at + (skip + i)) = Data(L[p].id)[skip + i]
      <4> HIDE DEF skip, i
      <4> QED BY <1>1, <1>4, <3>4, CellIs DEF L, n
    <3> HIDE DEF skip, i
    <3> QED BY <3>1, <3>3, <3>4, <3>5
  <2> QED BY <2>1, <2>2
<1>14. Ahead(f, Tail(chunks), r.offset + Len(c), end)
  <2>1. SUFFICES ASSUME Tail(chunks) # <<>>
                 PROVE  \E pp \in 1 .. n : \E qq \in pp .. n :
                          /\ Tail(chunks) = SubSeq(L, pp, qq)
                          /\ L[pp].at <= position + m /\ position + m <= EndOf(f, pp)
                          /\ \A j \in pp .. qq : L[j].at < end
    <3> HIDE DEF m, position, end
    <3> QED BY <1>12 DEF Ahead, L, n
  <2>2. p + 1 <= q
    <3>1. ASSUME ~(p + 1 <= q) PROVE Tail(chunks) = <<>>
      <4>1. p + 1 \in Int /\ q \in Int /\ q < p + 1
        BY <1>4, <3>1
      <4> QED BY <1>6, <4>1, SubSeqEmpty
    <3> QED BY <2>1, <3>1
  <2>3. p + 1 \in 1 .. n /\ q \in p + 1 .. n /\ p + 1 \in p .. q /\ p + 1 # 1 /\ (p + 1) - 1 = p
    BY <1>4, <2>2
  <2>4. L[p + 1].at = EndOf(f, p) /\ L[p + 1].at < end
    <3>1. L[p + 1].at = EndOf(f, p)
      BY <1>1, <2>3, ListAdjacent DEF L, n
    <3> QED BY <1>3, <2>3, <3>1
  <2>5. position + m = EndOf(f, p)
    <3>1. m \in Nat /\ m <= remaining /\ (m < remaining => position + m = EndOf(f, p))
          /\ position + m <= EndOf(f, p) /\ EndOf(f, p) \in Nat
      BY <1>5, <1>9
    <3> HIDE DEF m
    <3> QED BY <1>1, <2>4, <3>1
  <2>6. L[p + 1].at <= EndOf(f, p + 1) /\ EndOf(f, p + 1) \in Nat /\ L[p + 1].at \in Nat
    BY <1>1, <2>3, ListTypes DEF L, n
  <2>7. \A j \in p + 1 .. q : L[j].at < end
    BY <1>3, <1>4
  <2> HIDE DEF m, position, end
  <2>8. L[p + 1].at <= position + m /\ position + m <= EndOf(f, p + 1)
    BY <2>4, <2>5, <2>6
  <2> QED BY <1>6, <2>3, <2>7, <2>8
<1>15. Reading(f, r, Tail(chunks), c)
  <2> HIDE DEF m
  <2> QED BY <1>1, <1>11, <1>12, <1>13, <1>14 DEF Reading
<1> QED BY <1>15 DEF c, piece, d


\* All that was wanted was read.
LEMMA ReadingDone ==
    ASSUME NEW f, NEW r, NEW chunks, NEW b, Reading(f, r, chunks, b), Len(b) = r.size, NoShort
    PROVE  b = Wanted(f, r)
<1>1. b \in Seq(Byte) /\ DOMAIN b = 1 .. r.size /\ \A k \in 1 .. r.size : b[k] = Cell(f, r.offset + k)
  BY LenProperties DEF Reading
<1>2. b = [k \in DOMAIN b |-> b[k]]
  BY <1>1
<1> QED BY <1>1, <1>2 DEF Wanted

\* A read begins.
LEMMA ReadingBegins ==
    ASSUME NEW f \in File, NEW r, r \in [offset : Nat, size : Nat],
           r.offset < Total[f], r.size > 0
    PROVE  LET size == Cut(f, r)
           IN  /\ size \in Nat /\ size > 0
               /\ Reading(f, [offset |-> r.offset, size |-> size],
                          InRange(List[f], r.offset, size), <<>>)
<1> DEFINE size == Cut(f, r)
           s == [offset |-> r.offset, size |-> size]
           chunks == InRange(List[f], r.offset, size)
<1>1. r.offset \in Nat /\ r.size \in Nat /\ Total[f] \in Nat
  BY ListTypes
<1>2. size \in Nat /\ size > 0 /\ r.offset + size <= Total[f]
  BY <1>1 DEF Cut
<1> HIDE DEF size
<1>3. Ahead(f, chunks, r.offset, r.offset + size)
  BY <1>1, <1>2, RangeIsAhead
<1> HIDE DEF chunks
<1>4. s.offset = r.offset /\ s.size = size /\ s \in [offset : Nat, size : Nat]
  BY <1>1, <1>2
<1>5. <<>> \in Seq(Byte) /\ Len(<<>>) = 0 /\ s.offset + Len(<<>>) = r.offset
  BY <1>1, <1>4
<1> HIDE DEF s
<1>6. Reading(f, s, chunks, <<>>)
  <2>1. Ahead(f, chunks, s.offset + Len(<<>>), s.offset + s.size)
    BY <1>3, <1>4, <1>5
  <2>2. \A k \in 1 .. Len(<<>>) : FALSE
    BY <1>5
  <2>3. s.offset + s.size <= Total[f] /\ Len(<<>>) <= s.size
    BY <1>2, <1>4, <1>5
  <2> QED BY <1>4, <1>5, <2>1, <2>2, <2>3 DEF Reading
<1> QED BY <1>2, <1>6 DEF size, s, chunks

-----------------------------------------------------------------------------
(***************************************************************************)
(* The inductive invariant                                                 *)
(***************************************************************************)

TreeInv ==
    /\ files \in Seq(Rec) /\ parsed \in 0 .. Len(files)
    /\ Holds(tree, SubSeq(files, 1, parsed))
    /\ \A key \in DOMAIN tree : tree[key].file # NoFile => tree[key].file \in DOMAIN eager

Domains ==
    /\ DOMAIN last = Thread /\ DOMAIN handle = Thread /\ DOMAIN listed = Thread
    /\ DOMAIN dirOffset = Thread /\ DOMAIN call = Thread /\ DOMAIN todo = Thread
    /\ DOMAIN buf = Thread /\ DOMAIN reply = Thread

\* The names given are the first children, as many as the offset says.
Listed(entry, names, n) ==
    /\ n \in 0 .. Len(entry.children) /\ names = SubSeq(entry.children, 1, n)
    /\ names # <<>> => entry.file = NoFile

\* The buffer of the thread has the chunk whose id it has.
Kept(l) == l.id \in Chunk \cup {None} /\ (l.id # None => Body(l.id, l.data))

Replied(tr, rp) ==
    /\ rp.kind \in {"none", "data", "EAGAIN", "EINTR"}
    /\ rp.kind = "data" =>
          /\ rp.key \in DOMAIN tr /\ tr[rp.key].file \in File
          /\ NoShort => rp.data = Wanted(tr[rp.key].file, rp.call)

ThreadInv(t) ==
    /\ handle[t] = None => listed[t] = <<>> /\ dirOffset[t] = 0
    /\ handle[t] # None =>
          Mounted /\ handle[t] \in DOMAIN tree /\ Listed(tree[handle[t]], listed[t], dirOffset[t])
    /\ Kept(last[t])
    /\ Busy(t) => handle[t] # None /\ Reading(Opened(t), call[t], todo[t], buf[t])
    /\ ~Busy(t) => call[t] = Idle /\ todo[t] = <<>> /\ buf[t] = <<>>
    /\ Replied(tree, reply[t])
    /\ reply[t].kind = "data" => Mounted

IInv ==
    TreeInv /\ cache \subseteq Chunk /\ Domains /\ \A t \in Thread : ThreadInv(t)

LEMMA InitIInv == Init => IInv
<1> SUFFICES ASSUME Init PROVE IInv
  OBVIOUS
<1>1. TreeInv
  <2>1. files \in Seq(Rec)
    BY ManifestsAssumption DEF Init, Rec, SomePath
  <2>2. Len(files) \in Nat
    BY <2>1
  <2>3. SubSeq(files, 1, 0) = <<>>
    BY SubSeqEmpty
  <2>4. Holds(tree, SubSeq(files, 1, parsed))
    BY <2>3, EmptyHolds DEF Init
  <2>5. \A key \in DOMAIN tree : tree[key].file = NoFile
    BY DEF Init, EmptyTree, NewEntry
  <2> QED BY <2>1, <2>2, <2>4, <2>5 DEF Init, TreeInv
<1>2. cache \subseteq Chunk
  BY InputsAssumption DEF Init
<1>3. Domains
  BY DEF Init, Domains
<1>4. ASSUME NEW t \in Thread PROVE ThreadInv(t)
  <2>1. /\ handle[t] = None /\ listed[t] = <<>> /\ dirOffset[t] = 0
        /\ last[t].id = None /\ call[t] = Idle /\ todo[t] = <<>> /\ buf[t] = <<>> /\ reply[t] = NoAnswer
    BY DEF Init
  <2>2. ~Busy(t)
    BY <2>1 DEF Busy, Idle
  <2>3. reply[t].kind = "none"
    BY <2>1 DEF NoAnswer, Answer
  <2> QED BY <2>1, <2>2, <2>3 DEF ThreadInv, Kept, Replied
<1> QED BY <1>1, <1>2, <1>3, <1>4 DEF IInv

\* Types
LEMMA IInvTypes == IInv => TypeOK
<1> SUFFICES ASSUME IInv PROVE TypeOK
  OBVIOUS
<1>1. /\ parsed \in 0 .. Len(files) /\ cache \subseteq Chunk
      /\ \A key \in DOMAIN tree : tree[key].file \in DOMAIN eager \cup {NoFile}
  BY DEF IInv, TreeInv
<1>2. ASSUME NEW t \in Thread
      PROVE  /\ last[t].id \in Chunk \cup {None}
             /\ handle[t] \in DOMAIN tree \cup {None}
             /\ listed[t] # <<>> => handle[t] # None /\ IsDir(tree, handle[t])
             /\ call[t].size > 0 => Opened(t) \in File /\ call[t].offset + call[t].size <= Total[Opened(t)]
             /\ Len(buf[t]) <= call[t].size
             /\ reply[t].kind \in {"none", "data", "EAGAIN", "EINTR"}
  <2>1. ThreadInv(t)
    BY DEF IInv
  <2>2. last[t].id \in Chunk \cup {None} /\ reply[t].kind \in {"none", "data", "EAGAIN", "EINTR"}
    BY <2>1 DEF ThreadInv, Kept, Replied
  <2>3. handle[t] \in DOMAIN tree \cup {None}
    BY <2>1 DEF ThreadInv
  <2>4. listed[t] # <<>> => handle[t] # None /\ IsDir(tree, handle[t])
    BY <2>1 DEF ThreadInv, Listed, IsDir
  <2>5. CASE Busy(t)
    <3>1. Reading(Opened(t), call[t], todo[t], buf[t])
      BY <2>1, <2>5 DEF ThreadInv
    <3>2. Opened(t) \in File /\ call[t].offset + call[t].size <= Total[Opened(t)] /\ Len(buf[t]) <= call[t].size
      BY <3>1 DEF Reading
    <3> QED BY <2>2, <2>3, <2>4, <3>2
  <2>6. CASE ~Busy(t)
    <3>1. call[t].size = 0 /\ buf[t] = <<>>
      BY <2>1, <2>6 DEF ThreadInv, Idle
    <3>2. Len(buf[t]) <= call[t].size /\ ~(call[t].size > 0)
      BY <3>1
    <3> QED BY <2>2, <2>3, <2>4, <3>2
  <2> QED BY <2>5, <2>6
<1> QED BY <1>1, <1>2 DEF TypeOK

-----------------------------------------------------------------------------
(***************************************************************************)
(* What follows from it                                                    *)
(***************************************************************************)

LEMMA IInvTree == IInv => TreeRight
<1> SUFFICES ASSUME IInv PROVE TreeRight
  OBVIOUS
<1>1. files \in Seq(Rec) /\ parsed \in 0 .. Len(files) /\ Holds(tree, SubSeq(files, 1, parsed))
  BY DEF IInv, TreeInv
<1>2. SubSeq(files, 1, parsed) \in Seq(Rec)
  <2>1. \A i \in 1 .. parsed : files[i] \in Rec
    BY <1>1, ElementOfSeq
  <2>2. 1 \in Int /\ parsed \in Int
    BY <1>1
  <2> QED BY <2>1, <2>2, SubSeqProperties
<1> QED BY <1>1, <1>2, HeldIsBuilt DEF TreeRight

LEMMA MountedHolds ==
    ASSUME IInv, Mounted
    PROVE  files \in Seq(Rec) /\ Holds(tree, files)
<1>1. files \in Seq(Rec) /\ Holds(tree, SubSeq(files, 1, parsed)) /\ parsed = Len(files)
  BY DEF IInv, TreeInv, Mounted
<1>2. SubSeq(files, 1, Len(files)) = files
  BY <1>1, SubSeqFull
<1> QED BY <1>1, <1>2

LEMMA IInvListed == IInv => ListedRight
<1> SUFFICES ASSUME IInv, NEW t \in Thread, handle[t] # None
             PROVE  /\ IsInjective(listed[t])
                    /\ Len(listed[t]) = Len(tree[handle[t]].children) =>
                         ToSet(listed[t]) =
                            {KeyOf(files[i].path)[Len(handle[t]) + 1] :
                                i \in {k \in DOMAIN files : IsStrictPrefix(handle[t], KeyOf(files[k].path))}}
  BY DEF ListedRight
<1> DEFINE key == handle[t]
           s == tree[key].children
           n == dirOffset[t]
           keys == [i \in DOMAIN files |-> KeyOf(files[i].path)]
           Below == {i \in DOMAIN files : IsPrefix(key, keys[i])}
<1>1. Mounted /\ key \in DOMAIN tree /\ n \in 0 .. Len(s) /\ listed[t] = SubSeq(s, 1, n)
  BY DEF IInv, ThreadInv, Listed
<1>2. files \in Seq(Rec) /\ Holds(tree, files)
  BY <1>1, MountedHolds
<1>3. s \in Seq(Nat) /\ Ordered(s)
  BY <1>1, <1>2, TreeTypes DEF Holds
<1>4. ToSet(s) = {keys[i][Len(key) + 1] : i \in {k \in Below : keys[k] # key}}
  <2>1. BuiltFrom(tree, files, Paths)
    BY <1>2, HeldIsBuilt
  <2> QED BY <1>1, <2>1 DEF BuiltFrom
<1>5. {keys[i][Len(key) + 1] : i \in {k \in Below : keys[k] # key}} =
        {KeyOf(files[i].path)[Len(key) + 1] :
            i \in {k \in DOMAIN files : IsStrictPrefix(key, KeyOf(files[k].path))}}
  BY DEF IsStrictPrefix
<1> HIDE DEF s, n, key, keys, Below
<1>6. /\ listed[t] \in Seq(Nat) /\ Len(listed[t]) = n /\ DOMAIN listed[t] = 1 .. n
      /\ \A i \in 1 .. n : listed[t][i] = s[i]
  BY <1>1, <1>3
<1>7. IsInjective(listed[t])
  <2> SUFFICES ASSUME NEW i \in 1 .. n, NEW j \in 1 .. n, listed[t][i] = listed[t][j] PROVE i = j
    BY <1>6 DEF IsInjective
  <2>1. i \in 1 .. Len(s) /\ j \in 1 .. Len(s) /\ s[i] = s[j] /\ DOMAIN s = 1 .. Len(s)
        /\ s[i] \in Nat /\ s[j] \in Nat /\ i \in Int /\ j \in Int
    BY <1>1, <1>3, <1>6
  <2>2. ~(i < j) /\ ~(j < i)
    BY <1>3, <2>1 DEF Ordered
  <2> QED BY <2>1, <2>2
<1>8. ASSUME Len(listed[t]) = Len(s) PROVE listed[t] = s
  <2>1. n = Len(s)
    BY <1>6, <1>8
  <2> QED BY <1>1, <1>3, <2>1, SubSeqFull
<1> QED BY <1>4, <1>5, <1>7, <1>8 DEF s, key

\* The entry of a file has the first file with its path.
LEMMA FileIsFirst ==
    ASSUME IInv, Mounted, NEW key \in DOMAIN tree, tree[key].file \in File
    PROVE  tree[key].file = FirstWith(key)
<1>1. files \in Seq(Rec) /\ Holds(tree, files)
  BY MountedHolds
<1> DEFINE W == {i \in DOMAIN files : KeyOf(files[i].path) = key}
<1>2. DOMAIN files = 1 .. Len(files) /\ Len(files) \in Nat
  BY <1>1
<1>3. PICK i \in 1 .. Len(files) : FirstAt(files, key, i) /\ tree[key].file = files[i].file
  BY <1>1, ListAssumption DEF Holds
<1>4. i \in W
  BY <1>2, <1>3 DEF FirstAt, KeyAt
<1>5. ASSUME NEW j \in W PROVE i <= j /\ j \in Nat
  <2>1. j \in 1 .. Len(files) /\ KeyAt(files, j) = key
    BY <1>2 DEF KeyAt
  <2>2. j \notin 1 .. i - 1
    BY <1>3, <2>1 DEF FirstAt
  <2> QED BY <1>2, <2>1, <2>2
<1>6. FirstWith(key) = files[Min(W)].file
  BY DEF FirstWith
<1> HIDE DEF W
<1>7. Min(W) = i
  <2>1. \E x \in W : \A y \in W : x <= y
    BY <1>4, <1>5
  <2>2. Min(W) \in W /\ Min(W) <= i
    BY <1>4, <2>1 DEF Min
  <2>3. i <= Min(W) /\ Min(W) \in Nat /\ i \in Nat
    BY <1>4, <1>5, <2>2
  <2> QED BY <2>2, <2>3
<1> QED BY <1>3, <1>6, <1>7

LEMMA IInvRead == IInv /\ NoShort => ReadRight
<1> SUFFICES ASSUME IInv, NoShort, NEW t \in Thread, reply[t].kind = "data"
             PROVE  reply[t].data = Wanted(FirstWith(reply[t].key), reply[t].call)
  BY DEF ReadRight
<1>1. ThreadInv(t)
  BY DEF IInv
<1>2. Mounted /\ Replied(tree, reply[t])
  BY <1>1 DEF ThreadInv
<1>3. /\ reply[t].key \in DOMAIN tree /\ tree[reply[t].key].file \in File
      /\ reply[t].data = Wanted(tree[reply[t].key].file, reply[t].call)
  BY <1>2 DEF Replied
<1>4. tree[reply[t].key].file = FirstWith(reply[t].key)
  BY <1>2, <1>3, FileIsFirst
<1> QED BY <1>3, <1>4


-----------------------------------------------------------------------------
(***************************************************************************)
(* The steps                                                               *)
(***************************************************************************)

\* A file is put in the tree: no thread has anything open yet.
LEMMA BuiltFiles ==
    ASSUME NEW tr \in Tree, NEW path \in SomePath, NEW file \in File
    PROVE  LET new == Built(tr, path, file)
           IN  \A key \in DOMAIN new :
                  \/ new[key].file \in {NoFile, file}
                  \/ key \in DOMAIN tr /\ new[key].file = tr[key].file
<1> DEFINE at == Entered(tr, path)
           mid == at.tree
           new == Built(tr, path, file)
<1>1. PICK keys : KeysOf(keys, path)
  BY KeysExist
<1>2. at \in Place /\ Grown(tr, mid, OnTheWay(keys, path))
  BY <1>1, EnteredGrows
<1>3. mid \in Tree /\ at.key \in DOMAIN mid
  BY <1>2 DEF Place
<1>4. \A key \in DOMAIN mid :
          mid[key].file = NoFile \/ (key \in DOMAIN tr /\ mid[key].file = tr[key].file)
  BY <1>2 DEF Grown
<1>5. new = IF mid[at.key].file = NoFile THEN [mid EXCEPT ![at.key].file = file] ELSE mid
  BY DEF Built
<1> HIDE DEF at, mid, new
<1>6. CASE mid[at.key].file = NoFile
  <2> DEFINE set == [mid EXCEPT ![at.key].file = file]
  <2>1. /\ DOMAIN set = DOMAIN mid /\ set[at.key].file = file
        /\ \A k \in DOMAIN mid : k # at.key => set[k] = mid[k]
    BY <1>3, SetFile
  <2>2. new = set
    BY <1>5, <1>6
  <2> HIDE DEF set
  <2> QED BY <1>4, <2>1, <2>2 DEF new
<1>7. CASE mid[at.key].file # NoFile
  BY <1>4, <1>5, <1>7 DEF new
<1> QED BY <1>6, <1>7

LEMMA ParseKeeps ==
    ASSUME IInv, Parse
    PROVE  IInv'
<1> DEFINE r == files[parsed + 1]
           fs == SubSeq(files, 1, parsed)
<1>1. /\ files \in Seq(Rec) /\ parsed \in 0 .. Len(files) /\ Holds(tree, fs)
      /\ parsed < Len(files) /\ parsed' = parsed + 1 /\ files' = files
      /\ tree' = Built(tree, r.path, r.file)
  BY DEF IInv, TreeInv, Parse
<1>2. parsed \in Nat /\ Len(files) \in Nat /\ parsed + 1 \in 1 .. Len(files) /\ (parsed + 1) - 1 = parsed
  BY <1>1
<1>3. r \in Rec
  BY <1>1, <1>2, ElementOfSeq
<1>4. fs \in Seq(Rec)
  <2>1. \A i \in 1 .. parsed : files[i] \in Rec
    BY <1>1, ElementOfSeq
  <2> QED BY <1>2, <2>1, SubSeqProperties
<1>5. SubSeq(files, 1, parsed + 1) = Append(fs, r)
  <2>1. 1 \in 1 .. Len(files) /\ parsed + 1 \in 1 .. Len(files)
    BY <1>2
  <2>2. SubSeq(files, 1, parsed + 1) = SubSeq(files, 1, (parsed + 1) - 1) \o <<files[parsed + 1]>>
    BY <1>1, <2>1, SubSeqRecursiveSecond
  <2>3. SubSeq(files, 1, (parsed + 1) - 1) = fs
    BY <1>2
  <2>4. Append(fs, r) = fs \o <<r>>
    BY <1>3, <1>4, AppendIsConcat
  <2> HIDE DEF fs
  <2> QED BY <2>2, <2>3, <2>4, Zenon
<1>6. Holds(tree', SubSeq(files', 1, parsed'))
  <2> HIDE DEF fs, r
  <2>1. Holds(Built(tree, r.path, r.file), Append(fs, r))
    BY <1>1, <1>3, <1>4, BuiltHolds
  <2> QED BY <1>1, <1>5, <2>1 DEF r
<1>7. \A key \in DOMAIN tree' : tree'[key].file # NoFile => tree'[key].file \in DOMAIN eager'
  <2>1. \A key \in DOMAIN tree : tree[key].file # NoFile => tree[key].file \in DOMAIN eager
    BY DEF IInv, TreeInv
  <2>2. CASE tree' = tree
    <3>1. eager' = eager
      BY <2>2 DEF Parse
    <3> QED BY <2>1, <2>2, <3>1
  <2>3. CASE tree' # tree
    <3>1. DOMAIN eager' = DOMAIN eager \cup {r.file}
      <4>1. CASE r.file \notin DOMAIN eager
        <5>1. eager' = [f \in DOMAIN eager \cup {r.file} |->
                           IF f = r.file THEN ~r.stripped ELSE eager[f]]
          BY <2>3, <4>1 DEF Parse
        <5> QED BY <5>1
      <4>2. CASE r.file \in DOMAIN eager
        <5>1. eager' = eager
          BY <4>2 DEF Parse
        <5> QED BY <4>2, <5>1
      <4> QED BY <4>1, <4>2
    <3>2. tree \in Tree /\ r.path \in SomePath /\ r.file \in File
      BY <1>1, <1>3 DEF Holds, Rec
    <3> HIDE DEF r
    <3>3. \A key \in DOMAIN tree' :
              \/ tree'[key].file \in {NoFile, r.file}
              \/ key \in DOMAIN tree /\ tree'[key].file = tree[key].file
      <4> DEFINE new == Built(tree, r.path, r.file)
      <4>1. \A key \in DOMAIN new :
              \/ new[key].file \in {NoFile, r.file}
              \/ key \in DOMAIN tree /\ new[key].file = tree[key].file
        BY <3>2, BuiltFiles
      <4>2. tree' = new
        BY <1>1 DEF r
      <4> HIDE DEF new
      <4> QED BY <4>1, <4>2
    <3> QED BY <2>1, <3>1, <3>3
  <2> QED BY <2>2, <2>3
<1>8. TreeInv'
  BY <1>1, <1>2, <1>6, <1>7 DEF TreeInv
<1>9. cache' \subseteq Chunk /\ Domains'
  BY DEF IInv, Domains, Parse, opened, reading
<1>10. ASSUME NEW t \in Thread PROVE ThreadInv(t)'
  <2>1. ThreadInv(t) /\ ~Mounted
    BY <1>1, <1>2 DEF IInv, Mounted
  <2>2. /\ last' = last /\ handle' = handle /\ listed' = listed /\ dirOffset' = dirOffset
        /\ call' = call /\ todo' = todo /\ buf' = buf /\ reply' = reply
    BY DEF Parse, opened, reading
  <2>3. handle[t] = None /\ ~Busy(t) /\ reply[t].kind # "data"
    BY <2>1 DEF ThreadInv
  <2>4. Busy(t)' = Busy(t)
    BY <2>2 DEF Busy
  <2> QED BY <2>1, <2>2, <2>3, <2>4 DEF ThreadInv, Replied
<1> QED BY <1>8, <1>9, <1>10 DEF IInv

-----------------------------------------------------------------------------
\* Nothing of thread u changes.
Same(u) ==
    /\ last'[u] = last[u] /\ handle'[u] = handle[u] /\ listed'[u] = listed[u]
    /\ dirOffset'[u] = dirOffset[u] /\ call'[u] = call[u] /\ todo'[u] = todo[u]
    /\ buf'[u] = buf[u] /\ reply'[u] = reply[u]

\* A step of t: it is enough to look at t.
LEMMA StepOf ==
    ASSUME IInv, NEW t \in Thread, UNCHANGED mounted, cache' \subseteq Chunk, Domains',
           \A u \in Thread : u # t => Same(u), ThreadInv(t)'
    PROVE  IInv'
<1>1. files' = files /\ parsed' = parsed /\ tree' = tree /\ eager' = eager
  BY DEF mounted
<1>2. TreeInv'
  BY <1>1 DEF IInv, TreeInv
<1>3. ASSUME NEW u \in Thread, u # t PROVE ThreadInv(u)'
  <2>1. ThreadInv(u) /\ Same(u)
    BY <1>3 DEF IInv
  <2>2. Busy(u)' = Busy(u) /\ Mounted' = Mounted /\ Opened(u)' = Opened(u)
    BY <1>1, <2>1 DEF Same, Busy, Mounted, Opened
  <2> QED BY <1>1, <2>1, <2>2 DEF ThreadInv, Same
<1> QED BY <1>2, <1>3 DEF IInv

LEMMA OpensKeeps ==
    ASSUME IInv, NEW t \in Thread, NEW path \in Paths, NEW dir \in BOOLEAN, Opens(t, path, dir)
    PROVE  IInv'
<1>1. PICK key \in EntryAt(path) : IsDir(tree, key) = dir /\ handle' = [handle EXCEPT ![t] = key]
  BY DEF Opens
<1>2. /\ Mounted /\ handle[t] = None /\ UNCHANGED mounted /\ cache' = cache /\ last' = last
      /\ listed' = listed /\ dirOffset' = dirOffset
      /\ call' = call /\ todo' = todo /\ buf' = buf /\ reply' = reply
  BY DEF Opens, reading
<1>3. tree' = tree /\ parsed' = parsed /\ files' = files
  BY <1>2 DEF mounted
<1>4. tree \in Tree
  BY DEF IInv, TreeInv, Holds
<1>5. key \in DOMAIN tree
  <2>1. path \in SomePath
    BY InputsAssumption DEF SomePath
  <2>2. EntryAt(path) = Here(tree, KeyOf(path))
    BY <1>4, <2>1, FindFinds DEF EntryAt
  <2> QED BY <2>2 DEF Here
<1>6. cache' \subseteq Chunk /\ Domains'
  BY <1>1, <1>2 DEF IInv, Domains
<1>7. \A u \in Thread : u # t => Same(u)
  BY <1>1, <1>2 DEF Same, IInv, Domains
<1>8. ThreadInv(t)
  BY DEF IInv
<1>9. handle'[t] = key
  BY <1>1 DEF IInv, Domains
<1>10. Listed(tree[key], <<>>, 0)
  <2>1. tree[key].children \in Seq(Nat)
    BY <1>4, <1>5, TreeTypes
  <2>2. SubSeq(tree[key].children, 1, 0) = <<>> /\ Len(tree[key].children) \in Nat
    BY <2>1, SubSeqEmpty
  <2> QED BY <2>2 DEF Listed
<1>11. ~Busy(t) /\ listed[t] = <<>> /\ dirOffset[t] = 0
  BY <1>2, <1>8 DEF ThreadInv
<1>12. ~Busy(t)' /\ Mounted'
  BY <1>2, <1>3, <1>11 DEF Busy, Mounted
<1>13. ThreadInv(t)'
  BY <1>2, <1>3, <1>5, <1>8, <1>9, <1>10, <1>11, <1>12 DEF ThreadInv
<1> QED BY <1>2, <1>6, <1>7, <1>13, StepOf

LEMMA ReadDirKeeps ==
    ASSUME IInv, NEW t \in Thread, NEW n \in Nat \ {0}, ReadDir(t, n)
    PROVE  IInv'
<1> DEFINE s == tree[handle[t]].children
           m == dirOffset[t]
<1>1. /\ handle[t] # None /\ IsDir(tree, handle[t]) /\ m + n <= Len(s)
      /\ listed' = [listed EXCEPT ![t] = @ \o SubSeq(s, m + 1, m + n)]
      /\ dirOffset' = [dirOffset EXCEPT ![t] = m + n]
  BY DEF ReadDir, FillNext
<1>2. /\ UNCHANGED mounted /\ cache' = cache /\ last' = last /\ handle' = handle
      /\ call' = call /\ todo' = todo /\ buf' = buf /\ reply' = reply
  BY DEF ReadDir, reading
<1>3. tree' = tree /\ parsed' = parsed /\ files' = files
  BY <1>2 DEF mounted
<1>4. cache' \subseteq Chunk /\ Domains'
  BY <1>1, <1>2 DEF IInv, Domains
<1>5. \A u \in Thread : u # t => Same(u)
  BY <1>1, <1>2 DEF Same, IInv, Domains
<1>6. ThreadInv(t)
  BY DEF IInv
<1>7. handle[t] \in DOMAIN tree /\ m \in 0 .. Len(s) /\ listed[t] = SubSeq(s, 1, m)
  BY <1>1, <1>6 DEF ThreadInv, Listed
<1>8. s \in Seq(Nat)
  BY <1>7, TreeTypes DEF IInv, TreeInv, Holds
<1>9. listed'[t] = SubSeq(s, 1, m) \o SubSeq(s, m + 1, m + n) /\ dirOffset'[t] = m + n
  BY <1>1, <1>7 DEF IInv, Domains
<1>10. SubSeq(s, 1, m) \o SubSeq(s, m + 1, m + n) = SubSeq(s, 1, m + n) /\ m + n \in 0 .. Len(s)
  <2> HIDE DEF s, m
  <2>1. 1 \in 1 .. Len(s) + 1 /\ m \in 1 - 1 .. Len(s) /\ m + n \in m .. Len(s)
    BY <1>1, <1>7, <1>8
  <2> QED BY <1>8, <2>1, ConcatAdjacentSubSeq
<1>11. Listed(tree[handle[t]], listed'[t], dirOffset'[t])
  <2> HIDE DEF m
  <2> QED BY <1>1, <1>9, <1>10 DEF Listed, IsDir
<1>12. Busy(t)' = Busy(t) /\ Mounted' = Mounted /\ Opened(t)' = Opened(t)
  BY <1>2, <1>3 DEF Busy, Mounted, Opened
<1>13. ThreadInv(t)'
  BY <1>1, <1>2, <1>3, <1>6, <1>11, <1>12 DEF ThreadInv
<1> QED BY <1>2, <1>4, <1>5, <1>13, StepOf

LEMMA ReleaseKeeps ==
    ASSUME IInv, NEW t \in Thread, Release(t)
    PROVE  IInv'
<1>1. /\ ~Busy(t) /\ UNCHANGED mounted /\ cache' = cache /\ last' = last
      /\ call' = call /\ todo' = todo /\ buf' = buf
      /\ handle' = [handle EXCEPT ![t] = None]
      /\ listed' = [listed EXCEPT ![t] = <<>>] /\ dirOffset' = [dirOffset EXCEPT ![t] = 0]
      /\ reply' = [reply EXCEPT ![t] = NoAnswer]
  BY DEF Release
<1>2. cache' \subseteq Chunk /\ Domains'
  BY <1>1 DEF IInv, Domains
<1>3. \A u \in Thread : u # t => Same(u)
  BY <1>1 DEF Same, IInv, Domains
<1>4. ThreadInv(t)
  BY DEF IInv
<1>5. /\ handle'[t] = None /\ listed'[t] = <<>> /\ dirOffset'[t] = 0 /\ reply'[t].kind = "none"
  BY <1>1 DEF IInv, Domains, NoAnswer, Answer
<1>6. ~Busy(t)'
  BY <1>1 DEF Busy
<1>7. ThreadInv(t)'
  BY <1>1, <1>4, <1>5, <1>6 DEF ThreadInv, Replied
<1> QED BY <1>1, <1>2, <1>3, <1>7, StepOf


LEMMA ReadKeeps ==
    ASSUME IInv, NEW t \in Thread, NEW r \in Reads, Read(t, r)
    PROVE  IInv'
<1> DEFINE f == Opened(t)
           list == ListOf(f)
           size == Cut(f, r)
           s == [offset |-> r.offset, size |-> size]
           chunks == InRange(List[f], r.offset, size)
<1>1. /\ handle[t] # None /\ ~IsDir(tree, handle[t]) /\ ~Busy(t) /\ r.offset < Total[f] /\ r.size > 0
      /\ UNCHANGED mounted /\ cache' = cache /\ last' = last
      /\ handle' = handle /\ listed' = listed /\ dirOffset' = dirOffset /\ buf' = buf
  BY DEF Read, opened
<1>2. \/ /\ reply' = [reply EXCEPT ![t] = Answer("EAGAIN", handle[t], r, <<>>)]
         /\ call' = call /\ todo' = todo
      \/ /\ list # <<>>
         /\ call' = [call EXCEPT ![t] = s]
         /\ todo' = [todo EXCEPT ![t] = InRange(list, r.offset, size)]
         /\ reply' = [reply EXCEPT ![t] = NoAnswer]
  BY DEF Read
<1>3. tree' = tree /\ parsed' = parsed /\ files' = files
  BY <1>1 DEF mounted
<1>4. cache' \subseteq Chunk /\ Domains'
  BY <1>1, <1>2 DEF IInv, Domains
<1>5. \A u \in Thread : u # t => Same(u)
  BY <1>1, <1>2 DEF Same, IInv, Domains
<1>6. ThreadInv(t)
  BY DEF IInv
<1>7. f \in File
  <2>1. handle[t] \in DOMAIN tree /\ tree \in Tree
    BY <1>1, <1>6 DEF ThreadInv, IInv, TreeInv, Holds
  <2>2. tree[handle[t]].file \in File \cup {NoFile}
    BY <2>1, TreeTypes DEF Entry
  <2> QED BY <1>1, <2>2 DEF Opened, IsDir
<1>8. Mounted' = Mounted /\ Opened(t)' = Opened(t)
  BY <1>1, <1>3 DEF Mounted, Opened
<1>9. todo[t] = <<>> /\ buf[t] = <<>>
  BY <1>1, <1>6 DEF ThreadInv
<1>10. CASE /\ reply' = [reply EXCEPT ![t] = Answer("EAGAIN", handle[t], r, <<>>)]
            /\ call' = call /\ todo' = todo
  <2>1. reply'[t].kind = "EAGAIN"
    BY <1>10 DEF IInv, Domains, Answer
  <2>2. ~Busy(t)'
    BY <1>1, <1>10 DEF Busy
  <2>3. ThreadInv(t)'
    BY <1>1, <1>3, <1>6, <1>8, <1>10, <2>1, <2>2 DEF ThreadInv, Replied
  <2> QED BY <1>1, <1>4, <1>5, <2>3, StepOf
<1>11. CASE /\ list # <<>>
            /\ call' = [call EXCEPT ![t] = s]
            /\ todo' = [todo EXCEPT ![t] = InRange(list, r.offset, size)]
            /\ reply' = [reply EXCEPT ![t] = NoAnswer]
  <2>1. list = List[f]
    BY <1>11 DEF ListOf, GetChunks
  <2>2. r \in [offset : Nat, size : Nat]
    BY InputsAssumption
  <2>3. size \in Nat /\ size > 0 /\ Reading(f, s, chunks, <<>>)
    <3> HIDE DEF f
    <3> QED BY <1>1, <1>7, <2>2, ReadingBegins DEF f
  <2>4. call'[t] = s /\ todo'[t] = chunks /\ reply'[t].kind = "none" /\ buf'[t] = <<>>
    BY <1>1, <1>9, <1>11, <2>1 DEF IInv, Domains, NoAnswer, Answer
  <2>5. call'[t].size = size
    BY <2>4
  <2> HIDE DEF f, size, s, chunks, list
  <2>6. Busy(t)'
    BY <2>3, <2>5 DEF Busy
  <2>7. Reading(Opened(t)', call'[t], todo'[t], buf'[t])
    BY <1>8, <2>3, <2>4 DEF f
  <2>8. ThreadInv(t)'
    BY <1>1, <1>3, <1>6, <1>8, <2>4, <2>6, <2>7 DEF ThreadInv, Replied
  <2> QED BY <1>1, <1>4, <1>5, <2>8, StepOf
<1> QED BY <1>2, <1>10, <1>11

\* The read of a thread ends, with data or without.
LEMMA EndsKeeps ==
    ASSUME IInv, NEW t \in Thread, Busy(t), NEW kind \in {"data", "EAGAIN", "EINTR"},
           kind = "data" => Len(buf[t]) = call[t].size,
           Ends(t, kind), UNCHANGED <<mounted, opened>>, Kept(last'[t])
    PROVE  ThreadInv(t)'
<1>1. /\ tree' = tree /\ parsed' = parsed /\ files' = files
      /\ handle' = handle /\ listed' = listed /\ dirOffset' = dirOffset
  BY DEF mounted, opened
<1>2. ThreadInv(t)
  BY DEF IInv
<1>3. /\ reply'[t] = Answer(kind, handle[t], call[t], buf[t])
      /\ call'[t] = Idle /\ todo'[t] = <<>> /\ buf'[t] = <<>>
  BY DEF Ends, IInv, Domains
<1>4. ~Busy(t)' /\ Mounted' = Mounted
  BY <1>1, <1>3 DEF Busy, Idle, Mounted
<1>5. handle[t] # None /\ Mounted /\ handle[t] \in DOMAIN tree
      /\ Reading(Opened(t), call[t], todo[t], buf[t])
  BY <1>2 DEF ThreadInv
<1>6. Opened(t) \in File /\ Opened(t) = tree[handle[t]].file
  BY <1>5 DEF Reading, Opened
<1>7. kind = "data" /\ NoShort => buf[t] = Wanted(Opened(t), call[t])
  BY <1>5, ReadingDone
<1>8. /\ reply'[t].kind = kind /\ reply'[t].key = handle[t]
      /\ reply'[t].call = call[t] /\ reply'[t].data = buf[t]
  BY <1>3 DEF Answer
<1>9. Replied(tree, reply'[t])
  BY <1>5, <1>6, <1>7, <1>8 DEF Replied
<1> QED BY <1>1, <1>2, <1>3, <1>4, <1>5, <1>9 DEF ThreadInv

\* It goes on with a piece of the chunk it is at.
LEMMA ContinuesKeeps ==
    ASSUME IInv, NEW t \in Thread, todo[t] # <<>>,
           NEW data, Body(Head(todo[t]).id, data),
           Continues(t, Piece(Head(todo[t]), data, Position(t), Remaining(t))),
           UNCHANGED <<mounted, opened>>, Kept(last'[t])
    PROVE  ThreadInv(t)'
<1> DEFINE piece == Piece(Head(todo[t]), data, Position(t), Remaining(t))
<1>1. /\ tree' = tree /\ parsed' = parsed /\ files' = files
      /\ handle' = handle /\ listed' = listed /\ dirOffset' = dirOffset
  BY DEF mounted, opened
<1>2. ThreadInv(t)
  BY DEF IInv
<1>3. Busy(t) /\ handle[t] # None /\ Reading(Opened(t), call[t], todo[t], buf[t])
  BY <1>2 DEF ThreadInv
<1>4. /\ buf'[t] = buf[t] \o piece /\ todo'[t] = Tail(todo[t]) /\ call' = call /\ reply' = reply
  BY DEF Continues, IInv, Domains
<1>5. Reading(Opened(t), call[t], Tail(todo[t]), buf[t] \o piece)
  BY <1>3, PieceContinues DEF Position, Remaining
<1> HIDE DEF piece
<1>6. Busy(t)' /\ Mounted' = Mounted /\ Opened(t)' = Opened(t)
  BY <1>1, <1>3, <1>4 DEF Busy, Mounted, Opened
<1>7. Reading(Opened(t)', call'[t], todo'[t], buf'[t])
  <2>1. Reading(Opened(t), call[t], todo'[t], buf'[t])
    BY <1>4, <1>5, Zenon
  <2> QED BY <1>4, <1>6, <2>1
<1> QED BY <1>1, <1>2, <1>3, <1>4, <1>6, <1>7 DEF ThreadInv

\* The chunk a read is at.
LEMMA HeadIsChunk ==
    ASSUME IInv, NEW t \in Thread, todo[t] # <<>>
    PROVE  /\ Busy(t) /\ Head(todo[t]).id \in Chunk /\ Head(todo[t]).at \in Nat
           /\ Position(t) \in Nat /\ Remaining(t) \in Nat
<1> DEFINE f == Opened(t)
<1>1. Busy(t) /\ Reading(f, call[t], todo[t], buf[t])
  BY DEF IInv, ThreadInv
<1>2. /\ f \in File /\ call[t].offset \in Nat /\ call[t].size \in Nat
      /\ Len(buf[t]) \in Nat /\ Len(buf[t]) <= call[t].size
  BY <1>1 DEF Reading
<1>3. PICK p \in 1 .. Len(List[f]) : \E q \in p .. Len(List[f]) : todo[t] = SubSeq(List[f], p, q)
  BY <1>1 DEF Reading, Ahead
<1>4. PICK q \in p .. Len(List[f]) : todo[t] = SubSeq(List[f], p, q)
  BY <1>3
<1>5. Head(todo[t]) = List[f][p]
  <2>1. List[f] \in Seq([id : Chunk, at : Nat])
    BY <1>2, ListAssumption
  <2>2. Head(SubSeq(List[f], p, q)) = List[f][p]
    BY <2>1, HeadTailOfSubSeq
  <2> QED BY <1>4, <2>2
<1>6. List[f][p].id \in Chunk /\ List[f][p].at \in Nat
  BY <1>2, ListTypes
<1>7. Position(t) \in Nat /\ Remaining(t) \in Nat
  BY <1>2 DEF Position, Remaining
<1> QED BY <1>1, <1>5, <1>6, <1>7

\* What is got in order is the chunk.
LEMMA GotIsBody ==
    ASSUME NEW c \in Chunk, NEW got \in GetInto(c)
    PROVE  got.ok => Body(c, got.data)
<1>1. CASE c \in cache
  BY <1>1, DataIsBody DEF GetInto, Body
<1>2. CASE c \notin cache
  <2>1. PICK b \in Bodies :
            got = [ok |-> b \in {"whole", "short"},
                   data |-> IF b \in {"whole", "long"} THEN Data(c) ELSE Unset(c),
                   stored |-> CanWrite /\ b \in {"whole", "long"}]
    BY <1>2 DEF GetInto
  <2>2. CASE b = "whole"
    <3>1. got.data = Data(c)
      BY <2>1, <2>2
    <3> QED BY <3>1, DataIsBody DEF Body
  <2>3. CASE b = "short"
    <3>1. got.data = Unset(c) /\ ~NoShort
      BY <2>1, <2>3 DEF NoShort
    <3> QED BY <3>1, DataIsBody DEF Body
  <2>4. CASE b \notin {"whole", "short"}
    BY <2>1, <2>4
  <2> QED BY <2>2, <2>3, <2>4
<1> QED BY <1>1, <1>2

\* What a step of a read leaves alone.
LEMMA ReadFrame ==
    ASSUME IInv, NEW t \in Thread, UNCHANGED <<mounted, opened>>,
           NEW c \in Chunk, cache' = cache \/ cache' = cache \cup {c},
           NEW l, last' = last \/ last' = [last EXCEPT ![t] = l],
           (\E kind : Ends(t, kind)) \/ (\E data : Continues(t, data)),
           ThreadInv(t)'
    PROVE  IInv'
<1>1. cache' \subseteq Chunk /\ UNCHANGED mounted
  BY DEF IInv
<1>2. handle' = handle /\ listed' = listed /\ dirOffset' = dirOffset
  BY DEF opened
<1>3. /\ \A u \in Thread : u # t => call'[u] = call[u] /\ todo'[u] = todo[u]
                                    /\ buf'[u] = buf[u] /\ reply'[u] = reply[u]
      /\ DOMAIN call' = Thread /\ DOMAIN todo' = Thread /\ DOMAIN buf' = Thread
      /\ DOMAIN reply' = Thread
  <2>1. CASE \E kind : Ends(t, kind)
    BY <2>1 DEF Ends, IInv, Domains
  <2>2. CASE \E data : Continues(t, data)
    BY <2>2 DEF Continues, IInv, Domains
  <2> QED BY <2>1, <2>2
<1>4. DOMAIN last' = Thread /\ \A u \in Thread : u # t => last'[u] = last[u]
  BY DEF IInv, Domains
<1>5. Domains' /\ \A u \in Thread : u # t => Same(u)
  BY <1>2, <1>3, <1>4 DEF IInv, Domains, Same
<1> QED BY <1>1, <1>5, StepOf

LEMMA ReadWholeKeeps ==
    ASSUME IInv, NEW t \in Thread, ReadWhole(t)
    PROVE  IInv'
<1> DEFINE d == Head(todo[t])
<1>1. /\ todo[t] # <<>> /\ FitsWhole(t, d)
      /\ UNCHANGED <<mounted, opened>> /\ last' = last
  BY DEF ReadWhole
<1>2. PICK got \in GetInto(d.id) :
          Store(d.id, got) /\ IF got.ok THEN Continues(t, got.data) ELSE Ends(t, "EAGAIN")
  BY DEF ReadWhole
<1>3. Busy(t) /\ d.id \in Chunk /\ d.at \in Nat /\ Position(t) \in Nat /\ Remaining(t) \in Nat
  BY <1>1, HeadIsChunk
<1>4. Kept(last'[t])
  BY <1>1 DEF IInv, ThreadInv
<1>5. cache' = cache \/ cache' = cache \cup {d.id}
  BY <1>2 DEF Store
<1>6. CASE got.ok
  <2>1. Body(d.id, got.data)
    BY <1>2, <1>3, <1>6, GotIsBody
  <2>2. got.data \in Seq(Byte) /\ Len(got.data) = Size[d.id] /\ Size[d.id] \in Nat
    BY <1>3, <2>1, DataIsBody DEF Body
  <2>3. d.at = Position(t) /\ Remaining(t) >= Size[d.id]
    BY <1>1 DEF FitsWhole
  <2>4. Piece(d, got.data, Position(t), Remaining(t)) = got.data
    <3> DEFINE skip == IF Position(t) > d.at THEN Position(t) - d.at ELSE 0
               rest == Len(got.data) - skip
    <3>1. skip = 0
      BY <1>3, <2>3
    <3>2. rest = Len(got.data)
      BY <2>2, <3>1
    <3>3. skip + (IF Remaining(t) < rest THEN Remaining(t) ELSE rest) = Len(got.data)
      BY <1>3, <2>2, <2>3, <3>1, <3>2
    <3>4. Piece(d, got.data, Position(t), Remaining(t)) =
              SubSeq(got.data, skip + 1, skip + (IF Remaining(t) < rest THEN Remaining(t) ELSE rest))
      BY DEF Piece
    <3> HIDE DEF rest
    <3>5. Piece(d, got.data, Position(t), Remaining(t)) = SubSeq(got.data, 1, Len(got.data))
      BY <3>1, <3>3, <3>4
    <3> QED BY <2>2, <3>5, SubSeqFull
  <2>5. Continues(t, got.data)
    BY <1>2, <1>6
  <2>6. Continues(t, Piece(d, got.data, Position(t), Remaining(t)))
    BY <2>4, <2>5, Zenon
  <2> HIDE DEF d
  <2>7. ThreadInv(t)'
    BY <1>1, <1>4, <2>1, <2>6, ContinuesKeeps DEF d
  <2> QED BY <1>1, <1>3, <1>5, <2>5, <2>7, ReadFrame
<1>7. CASE ~got.ok
  <2>1. Ends(t, "EAGAIN")
    BY <1>2, <1>7
  <2>2. ThreadInv(t)'
    BY <1>1, <1>3, <1>4, <2>1, EndsKeeps
  <2> HIDE DEF d
  <2> QED BY <1>1, <1>3, <1>5, <2>1, <2>2, ReadFrame
<1> QED BY <1>6, <1>7

LEMMA ReadLastKeeps ==
    ASSUME IInv, NEW t \in Thread, ReadLast(t)
    PROVE  IInv'
<1> DEFINE d == Head(todo[t])
           data == last[t].data
<1>1. /\ todo[t] # <<>> /\ last[t].id = d.id /\ Continues(t, Part(t, d, data))
      /\ UNCHANGED <<mounted, opened>> /\ last' = last /\ cache' = cache
  BY DEF ReadLast
<1>2. d.id \in Chunk
  BY <1>1, HeadIsChunk
<1>3. Kept(last[t])
  BY DEF IInv, ThreadInv
<1>4. Body(d.id, data)
  BY <1>1, <1>2, <1>3, ListAssumption DEF Kept
<1>5. Kept(last'[t])
  BY <1>1, <1>3
<1>6. Continues(t, Piece(d, data, Position(t), Remaining(t)))
  BY <1>1 DEF Part, Piece
<1>7. ThreadInv(t)'
  <2> HIDE DEF data
  <2> QED BY <1>1, <1>4, <1>5, <1>6, ContinuesKeeps
<1> HIDE DEF d
<1> QED BY <1>1, <1>2, <1>6, <1>7, ReadFrame

LEMMA ReadPartKeepsInv ==
    ASSUME IInv, NEW t \in Thread, ReadPart(t)
    PROVE  IInv'
<1> DEFINE d == Head(todo[t])
<1>1. todo[t] # <<>> /\ UNCHANGED <<mounted, opened>>
  BY DEF ReadPart
<1>2. PICK got \in GetInto(d.id) :
          /\ Store(d.id, got)
          /\ last' = [last EXCEPT ![t] = [id |-> IF got.ok THEN d.id ELSE None, data |-> got.data]]
          /\ IF got.ok THEN Continues(t, Part(t, d, got.data)) ELSE Ends(t, "EAGAIN")
  BY DEF ReadPart
<1> DEFINE l == [id |-> IF got.ok THEN d.id ELSE None, data |-> got.data]
<1>3. Busy(t) /\ d.id \in Chunk
  BY <1>1, HeadIsChunk
<1>4. got.ok => Body(d.id, got.data)
  BY <1>2, <1>3, GotIsBody
<1>5. Kept(last'[t])
  <2>1. last'[t] = l
    BY <1>2 DEF IInv, Domains
  <2> QED BY <1>3, <1>4, <2>1 DEF Kept
<1>6. cache' = cache \/ cache' = cache \cup {d.id}
  BY <1>2 DEF Store
<1>7. last' = [last EXCEPT ![t] = l]
  BY <1>2
<1>8. CASE got.ok
  <2>1. Continues(t, Piece(d, got.data, Position(t), Remaining(t)))
    BY <1>2, <1>8 DEF Part, Piece
  <2>2. ThreadInv(t)'
    BY <1>1, <1>4, <1>5, <1>8, <2>1, ContinuesKeeps
  <2> HIDE DEF d, l
  <2> QED BY <1>1, <1>3, <1>6, <1>7, <2>1, <2>2, ReadFrame
<1>9. CASE ~got.ok
  <2>1. Ends(t, "EAGAIN")
    BY <1>2, <1>9
  <2>2. ThreadInv(t)'
    BY <1>1, <1>3, <1>5, <2>1, EndsKeeps
  <2> HIDE DEF d, l
  <2> QED BY <1>1, <1>3, <1>6, <1>7, <2>1, <2>2, ReadFrame
<1> QED BY <1>8, <1>9

LEMMA InterruptKeeps ==
    ASSUME IInv, NEW t \in Thread, Interrupt(t)
    PROVE  IInv'
<1>1. /\ todo[t] # <<>> /\ Ends(t, "EINTR") /\ UNCHANGED <<mounted, opened>>
      /\ last' = last /\ cache' = cache
  BY DEF Interrupt
<1>2. Busy(t) /\ Head(todo[t]).id \in Chunk
  BY <1>1, HeadIsChunk
<1>3. Kept(last'[t])
  BY <1>1 DEF IInv, ThreadInv
<1>4. ThreadInv(t)'
  BY <1>1, <1>2, <1>3, EndsKeeps
<1> QED BY <1>1, <1>2, <1>4, ReadFrame

LEMMA ReturnKeeps ==
    ASSUME IInv, NEW t \in Thread, Return(t)
    PROVE  IInv'
<1> DEFINE kind == IF Len(buf[t]) = call[t].size THEN "data" ELSE "EAGAIN"
<1>1. /\ Busy(t) /\ Ends(t, kind) /\ UNCHANGED <<mounted, opened>>
      /\ last' = last /\ cache' = cache
  BY DEF Return
<1>2. Kept(last'[t])
  BY <1>1 DEF IInv, ThreadInv
<1>3. kind \in {"data", "EAGAIN", "EINTR"} /\ (kind = "data" => Len(buf[t]) = call[t].size)
  OBVIOUS
<1> HIDE DEF kind
<1>4. ThreadInv(t)'
  BY <1>1, <1>2, <1>3, EndsKeeps
<1>5. handle' = handle /\ listed' = listed /\ dirOffset' = dirOffset
  BY <1>1 DEF opened
<1>6. Domains' /\ \A u \in Thread : u # t => Same(u)
  BY <1>1, <1>5 DEF Ends, IInv, Domains, Same
<1>7. cache' \subseteq Chunk /\ UNCHANGED mounted
  BY <1>1 DEF IInv
<1> QED BY <1>4, <1>6, <1>7, StepOf

LEMMA NextKeeps == IInv /\ [Next]_vars => IInv'
<1> SUFFICES ASSUME IInv, [Next]_vars PROVE IInv'
  OBVIOUS
<1>1. CASE Parse
  BY <1>1, ParseKeeps
<1>2. ASSUME NEW t \in Thread, NEW path \in Paths, OpenFile(t, path) \/ OpenDir(t, path) PROVE IInv'
  BY <1>2, OpensKeeps DEF OpenFile, OpenDir
<1>3. ASSUME NEW t \in Thread, NEW n \in 1 .. Cardinality(Name), ReadDir(t, n) PROVE IInv'
  <2>1. n \in Nat \ {0}
    BY NameAssumption, FS_CardinalityType
  <2> QED BY <1>3, <2>1, ReadDirKeeps
<1>4. ASSUME NEW t \in Thread, Release(t) PROVE IInv'
  BY <1>4, ReleaseKeeps
<1>5. ASSUME NEW t \in Thread, NEW r \in Reads, Read(t, r) PROVE IInv'
  BY <1>5, ReadKeeps
<1>6. ASSUME NEW t \in Thread, ReadWhole(t) PROVE IInv'
  BY <1>6, ReadWholeKeeps
<1>7. ASSUME NEW t \in Thread, ReadLast(t) PROVE IInv'
  BY <1>7, ReadLastKeeps
<1>8. ASSUME NEW t \in Thread, ReadPart(t) PROVE IInv'
  BY <1>8, ReadPartKeepsInv
<1>9. ASSUME NEW t \in Thread, Interrupt(t) PROVE IInv'
  BY <1>9, InterruptKeeps
<1>10. ASSUME NEW t \in Thread, Return(t) PROVE IInv'
  BY <1>10, ReturnKeeps
<1>11. CASE UNCHANGED vars
  <2>1. /\ files' = files /\ parsed' = parsed /\ tree' = tree /\ eager' = eager /\ cache' = cache
        /\ last' = last /\ handle' = handle /\ listed' = listed /\ dirOffset' = dirOffset
        /\ call' = call /\ todo' = todo /\ buf' = buf /\ reply' = reply
    BY <1>11 DEF vars, mounted, opened, reading
  <2>2. TreeInv' /\ Domains' /\ cache' \subseteq Chunk
    BY <2>1 DEF IInv, TreeInv, Domains
  <2>3. ASSUME NEW t \in Thread PROVE ThreadInv(t)'
    <3>1. Busy(t)' = Busy(t) /\ Mounted' = Mounted /\ Opened(t)' = Opened(t) /\ ThreadInv(t)
      BY <2>1 DEF Busy, Mounted, Opened, IInv
    <3> QED BY <2>1, <3>1 DEF ThreadInv
  <2> QED BY <2>2, <2>3 DEF IInv
<1> QED BY <1>1, <1>2, <1>3, <1>4, <1>5, <1>6, <1>7, <1>8, <1>9, <1>10, <1>11 DEF Next

LEMMA Invariant == Spec => []IInv
<1>1. Init => IInv
  BY InitIInv
<1>2. IInv /\ [Next]_vars => IInv'
  BY NextKeeps
<1> QED BY <1>1, <1>2, PTL DEF Spec

-----------------------------------------------------------------------------
\* Type correctness (impl_open, impl_opendir, impl_readdir, impl_release, impl_read).
THEOREM MountTyped == Spec => []TypeOK
<1>1. IInv => TypeOK
  BY IInvTypes
<1> QED BY <1>1, Invariant, PTL

\* However the files of the manifests follow each other, the tree has each of
\* them under its path, the first of those with the same path, and a directory
\* names what is in it (RDirEntry::builder, RDirEntry::find).
THEOREM TreesRight == Spec => []TreeRight
<1>1. IInv => TreeRight
  BY IInvTree
<1> QED BY <1>1, Invariant, PTL

\* However many names each call of the kernel takes, they are those of the
\* directory, each once (impl_readdir).
THEOREM ListsRight == Spec => []ListedRight
<1>1. IInv => ListedRight
  BY IInvListed
<1> QED BY <1>1, Invariant, PTL

\* If no transfer is in order whose body ended early, a read that returns data
\* returns the bytes of the file, whatever was read before by whom, and whichever
\* of those reads failed (impl_read, find_chunks_in_range).
THEOREM ReadsRight ==
    ASSUME NoShort
    PROVE  Spec => []ReadRight
<1>1. IInv => ReadRight
  BY IInvRead
<1> QED BY <1>1, Invariant, PTL
=============================================================================
