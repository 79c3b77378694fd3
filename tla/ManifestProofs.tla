---------------------------- MODULE ManifestProofs ----------------------------
(***************************************************************************)
(* Manifest files, for all programs, inputs and manifests, every number of *)
(* runs, kills and failed writes: what is read from a manifest was written *)
(* to it, and while no half line is in it, all that was written is read.   *)
(* And what programs make of manifests: rman-merge, rman-diff, the files   *)
(* that rman-dl downloads, and the bundles it asks for or rman-bl prints.  *)
(***************************************************************************)
EXTENDS Manifest, FiniteSetTheorems, SequenceTheorems, TLAPS

\* A non-empty set of naturals has a least element.  It stands for induction:
\* the least counterexample of a claim about naturals is looked at.
LEMMA LeastNatural ==
    ASSUME NEW T, T \subseteq Nat, T # {}
    PROVE  \E m \in T : \A k \in T : m <= k
<1>1. PICK n \in T : TRUE
  OBVIOUS
<1>2. n \in Nat
  BY <1>1
<1> DEFINE W == {k \in T : k <= n}
           I == {1 .. k : k \in W}
           S == 1 .. n
<1>3. I \subseteq FiniteSubsetsOf(S)
  <2> SUFFICES ASSUME NEW k \in W PROVE 1 .. k \in FiniteSubsetsOf(S)
    OBVIOUS
  <2>1. k \in Nat /\ 1 .. k \subseteq S
    BY <1>2
  <2>2. IsFiniteSet(1 .. k)
    BY <2>1, FS_Interval
  <2> QED BY <2>1, <2>2 DEF FiniteSubsetsOf
<1>4. IsWellFoundedOn(StrictSubsetOrdering(S), FiniteSubsetsOf(S))
  BY FS_StrictSubsetOrderingWellFounded
<1>5. I # {}
  BY <1>2
<1> HIDE DEF I, S, W
<1>6. PICK x \in I : \A y \in I : ~(<<y, x>> \in StrictSubsetOrdering(S))
  BY <1>3, <1>4, <1>5, WFMin
<1>7. PICK m \in W : x = 1 .. m
  BY DEF I
<1>8. ASSUME NEW k \in T, k < m PROVE FALSE
  <2>1. k \in W /\ m \in Nat /\ k \in Nat
    BY <1>2, <1>8 DEF W
  <2>2. 1 .. k \in I
    BY <2>1 DEF I
  <2>3. m \in 1 .. m /\ m \notin 1 .. k
    BY <2>1, <1>8
  <2>4. 1 .. k \subseteq 1 .. m /\ 1 .. k # 1 .. m
    BY <2>1, <2>3, <1>8
  <2> QED BY <1>3, <1>6, <1>7, <2>2, <2>4 DEF StrictSubsetOrdering, FiniteSubsetsOf
<1> QED BY <1>7, <1>8 DEF W

\* What holds of 0, and of each number up to n if of the one before, holds up to n.
LEMMA UpTo ==
    ASSUME NEW n \in Nat, NEW P, 0 \in P,
           \A i \in 1 .. n : i - 1 \in P => i \in P
    PROVE  \A i \in 0 .. n : i \in P
<1> DEFINE Bad == {i \in 0 .. n : i \notin P}
<1>1. SUFFICES ASSUME Bad # {} PROVE FALSE
  OBVIOUS
<1>2. PICK m \in Bad : \A k \in Bad : m <= k
  <2>1. Bad \subseteq Nat
    OBVIOUS
  <2> HIDE DEF Bad
  <2> QED BY <1>1, <2>1, LeastNatural
<1>3. m \in 1 .. n /\ m \notin P
  BY <1>2
<1>4. m - 1 \in 0 .. n /\ ~(m <= m - 1)
  BY <1>3
<1>5. m - 1 \notin Bad
  <2> HIDE DEF Bad
  <2> QED BY <1>2, <1>4
<1> QED BY <1>3, <1>4, <1>5

\* A loop of n iterations over what is in S: iteration i takes v to step[i][v].
Walk(f, b, step, n) ==
    f[0] = b /\ \A i \in 1 .. n : f[i] = step[i][f[i - 1]]

LEMMA LoopRuns ==
    ASSUME NEW n \in Nat, NEW S, NEW b \in S, NEW step \in [1 .. n -> [S -> S]]
    PROVE  \E f \in [0 .. n -> S] : Walk(f, b, step, n)
<1> DEFINE Good(m) == \E f : (\A i \in 0 .. m : f[i] \in S) /\ Walk(f, b, step, m)
           P == {m \in Nat : Good(m)}
<1>1. 0 \in P
  <2>1. Walk([i \in {0} |-> b], b, step, 0) /\ \A i \in 0 .. 0 : [j \in {0} |-> b][i] \in S
    BY DEF Walk
  <2> QED BY <2>1
<1>2. ASSUME NEW m \in 1 .. n, m - 1 \in P PROVE m \in P
  <2>1. PICK e : (\A i \in 0 .. m - 1 : e[i] \in S) /\ Walk(e, b, step, m - 1)
    BY <1>2
  <2> DEFINE f == [i \in 0 .. m |-> IF i = m THEN step[m][e[m - 1]] ELSE e[i]]
  <2>2. \A i \in 0 .. m - 1 : f[i] = e[i]
    OBVIOUS
  <2>3. f[m] = step[m][e[m - 1]] /\ e[m - 1] \in S
    BY <2>1
  <2>4. step[m][e[m - 1]] \in S
    BY <2>3
  <2> HIDE DEF f
  <2>5. \A i \in 0 .. m : f[i] \in S
    BY <2>1, <2>2, <2>3, <2>4
  <2>6. f[0] = b
    BY <2>1, <2>2 DEF Walk
  <2>7. ASSUME NEW i \in 1 .. m PROVE f[i] = step[i][f[i - 1]]
    <3>1. i - 1 \in 0 .. m - 1
      OBVIOUS
    <3>2. f[i - 1] = e[i - 1]
      BY <2>2, <3>1
    <3>3. CASE i = m
      BY <2>3, <3>2, <3>3
    <3>4. CASE i # m
      <4>1. i \in 0 .. m - 1 /\ i \in 1 .. m - 1
        BY <3>4
      <4> QED BY <2>1, <2>2, <3>2, <4>1 DEF Walk
    <3> QED BY <3>3, <3>4
  <2>8. Walk(f, b, step, m)
    BY <2>6, <2>7 DEF Walk
  <2> QED BY <2>5, <2>8
<1>3. n \in P
  <2>1. \A i \in 1 .. n : i - 1 \in P => i \in P
    BY <1>2
  <2> HIDE DEF P
  <2>2. \A i \in 0 .. n : i \in P
    BY <1>1, <2>1, UpTo
  <2> QED BY <2>2
<1>4. PICK g : (\A i \in 0 .. n : g[i] \in S) /\ Walk(g, b, step, n)
  BY <1>3
<1> DEFINE f == [i \in 0 .. n |-> g[i]]
<1>5. f \in [0 .. n -> S] /\ \A i \in 0 .. n : f[i] = g[i]
  BY <1>4
<1> HIDE DEF f
<1>6. ASSUME NEW i \in 1 .. n PROVE f[i] = step[i][f[i - 1]]
  <2>1. i \in 0 .. n /\ i - 1 \in 0 .. n
    OBVIOUS
  <2> QED BY <1>4, <1>5, <2>1 DEF Walk
<1>7. f[0] = b
  BY <1>4, <1>5 DEF Walk
<1>8. Walk(f, b, step, n)
  BY <1>6, <1>7 DEF Walk
<1> QED BY <1>5, <1>8

-----------------------------------------------------------------------------
(***************************************************************************)
(* Sequences                                                               *)
(***************************************************************************)

IsSequence(s) == s \in Seq(ToSet(s))

LEMMA SequenceIs ==
    ASSUME NEW S, NEW s \in Seq(S)
    PROVE  /\ IsSequence(s) /\ ToSet(s) \subseteq S
           /\ Len(s) \in Nat /\ DOMAIN s = 1 .. Len(s)
           /\ \A i \in 1 .. Len(s) : s[i] \in ToSet(s)
<1>1. Len(s) \in Nat /\ DOMAIN s = 1 .. Len(s) /\ \A i \in 1 .. Len(s) : s[i] \in S
  OBVIOUS
<1>2. ToSet(s) \subseteq S /\ \A i \in 1 .. Len(s) : s[i] \in ToSet(s)
  BY <1>1 DEF ToSet
<1>3. s = [i \in 1 .. Len(s) |-> s[i]]
  BY <1>1
<1>4. [i \in 1 .. Len(s) |-> s[i]] \in Seq(ToSet(s))
  BY <1>1, <1>2
<1> QED BY <1>1, <1>2, <1>3, <1>4 DEF IsSequence

LEMMA AppendIs ==
    ASSUME NEW s, IsSequence(s), NEW x
    PROVE  /\ IsSequence(Append(s, x)) /\ ToSet(Append(s, x)) = ToSet(s) \cup {x}
           /\ Len(Append(s, x)) = Len(s) + 1
           /\ \A i \in 1 .. Len(s) : Append(s, x)[i] = s[i]
           /\ Append(s, x)[Len(s) + 1] = x
<1> DEFINE S == ToSet(s) \cup {x}
           t == Append(s, x)
<1>1. s \in Seq(S) /\ x \in S /\ Len(s) \in Nat /\ DOMAIN s = 1 .. Len(s)
  <2>1. s \in Seq(ToSet(s))
    BY DEF IsSequence
  <2> HIDE DEF S
  <2>2. Len(s) \in Nat /\ DOMAIN s = 1 .. Len(s) /\ \A i \in 1 .. Len(s) : s[i] \in ToSet(s)
    BY <2>1
  <2>3. ToSet(s) \subseteq S /\ x \in S
    BY DEF S
  <2> QED BY <2>1, <2>2, <2>3, SeqMonotonic
<1> HIDE DEF S
<1>2. /\ t \in Seq(S) /\ Len(t) = Len(s) + 1 /\ DOMAIN t = 1 .. Len(s) + 1
      /\ \A i \in 1 .. Len(s) : t[i] = s[i]
      /\ t[Len(s) + 1] = x
  BY <1>1
<1> HIDE DEF t
<1>3. ToSet(t) = ToSet(s) \cup {x}
  BY <1>1, <1>2 DEF ToSet
<1>4. IsSequence(t)
  BY <1>2, SequenceIs
<1> QED BY <1>2, <1>3, <1>4 DEF t

LEMMA TailIs ==
    ASSUME NEW s, IsSequence(s), s # <<>>
    PROVE  /\ IsSequence(Tail(s)) /\ ToSet(Tail(s)) \subseteq ToSet(s)
           /\ Head(s) \in ToSet(s) /\ s[1] \in ToSet(s)
           /\ Len(s) \in Nat \ {0} /\ Len(Tail(s)) = Len(s) - 1
           /\ \A i \in 1 .. Len(s) - 1 : Tail(s)[i] = s[i + 1]
<1>1. s \in Seq(ToSet(s))
  BY DEF IsSequence
<1> DEFINE S == ToSet(s)
<1> HIDE DEF S
<1>2. s \in Seq(S)
  BY <1>1 DEF S
<1>3. /\ Tail(s) \in Seq(S) /\ Head(s) = s[1] /\ s[1] \in S
      /\ Len(s) \in Nat \ {0} /\ Len(Tail(s)) = Len(s) - 1
      /\ \A i \in 1 .. Len(s) - 1 : Tail(s)[i] = s[i + 1]
  BY <1>2
<1>4. IsSequence(Tail(s)) /\ ToSet(Tail(s)) \subseteq S
  BY <1>3, SequenceIs
<1> QED BY <1>3, <1>4 DEF S

LEMMA EmptyIs == IsSequence(<<>>) /\ ToSet(<<>>) = {} /\ Len(<<>>) = 0
BY DEF IsSequence, ToSet

LEMMA ConcatIs ==
    ASSUME NEW s, IsSequence(s), NEW t, IsSequence(t), NEW c, c = s \o t
    PROVE  /\ IsSequence(c) /\ ToSet(c) = ToSet(s) \cup ToSet(t)
           /\ Len(s) \in Nat /\ Len(t) \in Nat /\ Len(c) = Len(s) + Len(t)
           /\ \A i \in 1 .. Len(s) : c[i] = s[i]
           /\ \A i \in 1 .. Len(t) : c[Len(s) + i] = t[i]
<1> DEFINE S == ToSet(s) \cup ToSet(t)
<1>1. s \in Seq(ToSet(s)) /\ t \in Seq(ToSet(t))
  BY DEF IsSequence
<1>2. s \in Seq(S) /\ t \in Seq(S)
  <2>1. ToSet(s) \subseteq S /\ ToSet(t) \subseteq S
    OBVIOUS
  <2> HIDE DEF S
  <2> QED BY <1>1, <2>1, SeqMonotonic
<1>3. /\ DOMAIN s = 1 .. Len(s) /\ DOMAIN t = 1 .. Len(t) /\ Len(s) \in Nat /\ Len(t) \in Nat
  BY <1>1
<1> HIDE DEF S
<1>4. /\ c \in Seq(S) /\ Len(c) = Len(s) + Len(t) /\ DOMAIN c = 1 .. Len(s) + Len(t)
      /\ \A i \in 1 .. Len(s) : c[i] = s[i]
      /\ \A i \in 1 .. Len(t) : c[Len(s) + i] = t[i]
  <2>1. c \in Seq(S) /\ Len(c) = Len(s) + Len(t)
    BY <1>2, ConcatProperties
  <2>2. \A i \in 1 .. Len(c) : c[i] = IF i <= Len(s) THEN s[i] ELSE t[i - Len(s)]
    BY <1>2, <2>1, ConcatProperties
  <2>3. DOMAIN c = 1 .. Len(c)
    BY <2>1
  <2>4. \A i \in 1 .. Len(s) : i \in 1 .. Len(c) /\ i <= Len(s)
    BY <1>3, <2>1
  <2>5. \A i \in 1 .. Len(t) : Len(s) + i \in 1 .. Len(c) /\ ~(Len(s) + i <= Len(s)) /\ (Len(s) + i) - Len(s) = i
    BY <1>3, <2>1
  <2> QED BY <2>1, <2>2, <2>3, <2>4, <2>5
<1>5. IsSequence(c)
  BY <1>4, SequenceIs
<1>6. ToSet(c) \subseteq ToSet(s) \cup ToSet(t)
  BY <1>4, SequenceIs DEF S
<1>7. ToSet(s) \subseteq ToSet(c)
  <2> SUFFICES ASSUME NEW i \in 1 .. Len(s) PROVE s[i] \in ToSet(c)
    BY <1>3 DEF ToSet
  <2>1. i \in DOMAIN c /\ c[i] = s[i]
    BY <1>3, <1>4
  <2> QED BY <2>1 DEF ToSet
<1>8. ToSet(t) \subseteq ToSet(c)
  <2> SUFFICES ASSUME NEW i \in 1 .. Len(t) PROVE t[i] \in ToSet(c)
    BY <1>3 DEF ToSet
  <2>1. Len(s) + i \in DOMAIN c /\ c[Len(s) + i] = t[i]
    BY <1>3, <1>4
  <2> QED BY <2>1 DEF ToSet
<1> QED BY <1>3, <1>4, <1>5, <1>6, <1>7, <1>8

LEMMA SingleIs ==
    ASSUME NEW x
    PROVE  IsSequence(<<x>>) /\ Len(<<x>>) = 1 /\ <<x>>[1] = x /\ ToSet(<<x>>) = {x}
<1>1. <<x>> \in Seq({x}) /\ Len(<<x>>) = 1 /\ <<x>>[1] = x /\ DOMAIN <<x>> = {1}
  OBVIOUS
<1>2. ToSet(<<x>>) = {x}
  BY <1>1 DEF ToSet
<1> QED BY <1>1, <1>2 DEF IsSequence

LEMMA FunctionIs ==
    ASSUME NEW n \in Nat, NEW f
    PROVE  LET s == [i \in 1 .. n |-> f[i]]
           IN  /\ IsSequence(s) /\ Len(s) = n
               /\ \A i \in 1 .. n : s[i] = f[i] /\ f[i] \in ToSet(s)
<1> DEFINE s == [i \in 1 .. n |-> f[i]]
           S == {f[i] : i \in 1 .. n}
<1>1. \A i \in 1 .. n : f[i] \in S
  OBVIOUS
<1> HIDE DEF S
<1>2. s \in Seq(S) /\ Len(s) = n /\ \A i \in 1 .. n : s[i] = f[i]
  BY <1>1
<1> HIDE DEF s
<1>3. IsSequence(s) /\ \A i \in 1 .. n : s[i] \in ToSet(s)
  BY <1>2, SequenceIs
<1> QED BY <1>2, <1>3 DEF s

LEMMA ReverseIs ==
    ASSUME NEW s, IsSequence(s)
    PROVE  /\ IsSequence(Reverse(s)) /\ Len(Reverse(s)) = Len(s) /\ Len(s) \in Nat
           /\ \A i \in 1 .. Len(s) : Reverse(s)[i] = s[(Len(s) - i) + 1]
<1> DEFINE n == Len(s)
           f == [i \in 1 .. n |-> s[(n - i) + 1]]
<1>1. n \in Nat
  BY SequenceIs DEF IsSequence
<1>2. Reverse(s) = [i \in 1 .. n |-> f[i]]
  BY DEF Reverse
<1>3. \A i \in 1 .. n : f[i] = s[(n - i) + 1]
  OBVIOUS
<1> HIDE DEF f, n
<1> QED BY <1>1, <1>2, <1>3, FunctionIs DEF n

\* What is behind the first elements.
LEMMA SuffixIs ==
    ASSUME NEW s, IsSequence(s), NEW n \in 0 .. Len(s)
    PROVE  LET t == SubSeq(s, n + 1, Len(s))
           IN  /\ IsSequence(t) /\ Len(t) = Len(s) - n /\ Len(s) \in Nat
               /\ \A i \in 1 .. Len(s) - n : t[i] = s[n + i]
<1> DEFINE S == ToSet(s)
           t == SubSeq(s, n + 1, Len(s))
<1>1. s \in Seq(S) /\ Len(s) \in Nat
  BY SequenceIs DEF IsSequence
<1> HIDE DEF S
<1>2. n + 1 \in 1 .. Len(s) + 1 /\ (Len(s) - (n + 1)) + 1 = Len(s) - n
  BY <1>1
<1>3. t = [i \in 1 .. Len(s) - n |-> s[n + i]]
  <2>1. \A i \in 1 .. Len(s) - n : (i + (n + 1)) - 1 = n + i
    BY <1>1
  <2>2. SubSeq(s, n + 1, Len(s)) = [i \in 1 .. (Len(s) - (n + 1)) + 1 |-> s[(i + (n + 1)) - 1]]
    BY <1>1
  <2> QED BY <1>2, <2>1, <2>2
<1> DEFINE f == [i \in 1 .. Len(s) - n |-> s[n + i]]
<1>4. t = [i \in 1 .. Len(s) - n |-> f[i]] /\ \A i \in 1 .. Len(s) - n : f[i] = s[n + i]
  BY <1>3
<1> HIDE DEF f, t
<1>5. Len(s) - n \in Nat
  BY <1>1
<1> QED BY <1>1, <1>4, <1>5, FunctionIs DEF t

-----------------------------------------------------------------------------
(***************************************************************************)
(* Reading lines                                                           *)
(***************************************************************************)

\* The loops of read_jrman and read_zrman go on behind the line.
Good(line) == line.is = "entry" /\ Undumps(line.file)
AllGood(s, n) == \A k \in 1 .. n : Good(s[k])

\* What is read are the lines before the first that is not good.
LEMMA EntriesAre ==
    ASSUME NEW s, IsSequence(s)
    PROVE  /\ IsSequence(Entries(s).entries)
           /\ Len(Entries(s).entries) \in 0 .. Len(s)
           /\ AllGood(s, Len(Entries(s).entries))
           /\ Len(Entries(s).entries) = Len(s) \/ ~Good(s[Len(Entries(s).entries) + 1])
           /\ \A i \in 1 .. Len(Entries(s).entries) : Entries(s).entries[i] = s[i].file
           /\ Entries(s).ok = AllGood(s, Len(s))
           /\ Entries(s).ok => Len(Entries(s).entries) = Len(s)
           /\ Entries(s) = [entries |-> Entries(s).entries, ok |-> Entries(s).ok]
<1> DEFINE B == {i \in 1 .. Len(s) : ~Good(s[i])}
           n == SelectInSeq(s, LAMBDA l : ~(l.is = "entry" /\ Undumps(l.file)))
           good == IF n = 0 THEN s ELSE SubSeq(s, 1, n - 1)
           r == [i \in DOMAIN good |-> good[i].file]
<1>1. s \in Seq(ToSet(s)) /\ Len(s) \in Nat /\ DOMAIN s = 1 .. Len(s)
  <2>1. s \in Seq(ToSet(s))
    BY DEF IsSequence
  <2> QED BY <2>1, SequenceIs
<1>2. Entries(s) = [entries |-> r, ok |-> (n = 0)]
  BY DEF Entries
<1>3. n = IF B # {} THEN Min(B) ELSE 0
  BY DEF SelectInSeq, Good
<1>4. B # {} => n \in B /\ \A k \in B : n <= k
  <2> SUFFICES ASSUME B # {} PROVE n \in B /\ \A k \in B : n <= k
    OBVIOUS
  <2>1. B \subseteq Nat
    OBVIOUS
  <2> HIDE DEF B
  <2>2. \E m \in B : \A k \in B : m <= k
    BY <2>1, LeastNatural
  <2> QED BY <1>3, <2>2 DEF Min
<1>5. B = {} => n = 0
  BY <1>3
<1> HIDE DEF n
<1>6. (n = 0) <=> AllGood(s, Len(s))
  <2>1. CASE B = {}
    <3>1. \A k \in 1 .. Len(s) : Good(s[k])
      BY <2>1
    <3> QED BY <1>5, <2>1, <3>1 DEF AllGood
  <2>2. CASE B # {}
    <3>1. n \in 1 .. Len(s) /\ ~Good(s[n])
      BY <1>4, <2>2
    <3>2. n # 0
      BY <1>1, <3>1
    <3> QED BY <3>1, <3>2 DEF AllGood
  <2> QED BY <2>1, <2>2
<1>7. CASE n = 0
  <2>1. good = s /\ DOMAIN r = 1 .. Len(s) /\ \A i \in 1 .. Len(s) : r[i] = s[i].file
    BY <1>1, <1>7
  <2>2. r = [i \in 1 .. Len(s) |-> s[i].file]
    BY <1>1, <1>7
  <2> DEFINE T == {s[i].file : i \in 1 .. Len(s)}
  <2> HIDE DEF good, r
  <2>3. r \in Seq(T) /\ Len(r) = Len(s)
    BY <1>1, <2>2
  <2>4. IsSequence(r)
    BY <2>3, SequenceIs
  <2>5. Entries(s).entries = r /\ Entries(s).ok = (n = 0) /\ Len(r) \in 0 .. Len(s)
    BY <1>1, <1>2, <2>3
  <2>6. AllGood(s, Len(r))
    BY <1>6, <1>7, <2>3
  <2>7. Entries(s).ok = AllGood(s, Len(s))
    BY <1>6, <2>5 DEF AllGood
  <2> HIDE DEF B, T
  <2> QED BY <1>2, <2>1, <2>3, <2>4, <2>5, <2>6, <2>7
<1>8. CASE n # 0
  <2>1. n \in 1 .. Len(s) /\ ~Good(s[n]) /\ \A k \in 1 .. n - 1 : Good(s[k])
    BY <1>1, <1>4, <1>5, <1>8
  <2>2. good \in Seq(ToSet(s)) /\ Len(good) = n - 1 /\ \A i \in 1 .. n - 1 : good[i] = s[i]
    BY <1>1, <1>8, <2>1
  <2>3. DOMAIN good = 1 .. n - 1
    BY <2>1, <2>2
  <2> DEFINE T == {s[i].file : i \in 1 .. n - 1}
  <2> HIDE DEF good
  <2>4. r \in Seq(T) /\ Len(r) = n - 1 /\ \A i \in 1 .. n - 1 : r[i] = s[i].file
    BY <2>1, <2>2, <2>3
  <2>5. IsSequence(r)
    BY <2>4, SequenceIs
  <2> HIDE DEF r
  <2>6. Entries(s).entries = r /\ Entries(s).ok = (n = 0) /\ Len(r) \in 0 .. Len(s)
    BY <1>1, <1>2, <2>1, <2>4
  <2>7. AllGood(s, Len(r)) /\ ~Good(s[Len(r) + 1])
    BY <2>1, <2>4 DEF AllGood
  <2>8. ~Entries(s).ok /\ ~AllGood(s, Len(s)) /\ Entries(s).ok = FALSE
    BY <1>6, <1>8, <2>6
  <2>9. Entries(s).ok = AllGood(s, Len(s))
    BY <1>6, <2>6 DEF AllGood
  <2> HIDE DEF B, T
  <2> QED BY <1>2, <2>4, <2>5, <2>6, <2>7, <2>8, <2>9
<1> QED BY <1>7, <1>8

\* Of lines without headers, but perhaps the first, all but that are left.
Body(s) == IF s # <<>> /\ s[1] = Header THEN Tail(s) ELSE s

\* What is kept of each of the first elements.
KeptOf(kept, s, T) ==
    /\ kept \in [0 .. Len(s) -> Seq(ToSet(s))] /\ kept[0] = <<>>
    /\ \A i \in 1 .. Len(s) :
          kept[i] = IF s[i] \in T THEN Append(kept[i - 1], s[i]) ELSE kept[i - 1]
    /\ Only(s, T) = kept[Len(s)]

LEMMA KeptExist ==
    ASSUME NEW s, IsSequence(s), NEW T
    PROVE  \E kept : KeptOf(kept, s, T)
<1> DEFINE n == Len(s)
           S == Seq(ToSet(s))
           Step(kept, e) == IF e \in T THEN Append(kept, e) ELSE kept
           F(g) == [i \in 0 .. n |->
                      IF i = 0 THEN <<>>
                      ELSE IF s[i] \in T THEN Append(g[i - 1], s[i]) ELSE g[i - 1]]
           step == [i \in 1 .. n |-> [kept \in S |-> Step(kept, s[i])]]
<1>1. n \in Nat /\ \A i \in 1 .. n : s[i] \in ToSet(s)
  BY SequenceIs DEF IsSequence
<1>2. ASSUME NEW i \in 1 .. n, NEW kept \in S PROVE Step(kept, s[i]) \in S
  BY <1>1
<1>3. step \in [1 .. n -> [S -> S]]
  <2> HIDE DEF Step, S
  <2> QED BY <1>2
<1>4. \A i \in 1 .. n, kept \in S : step[i][kept] = Step(kept, s[i])
  OBVIOUS
<1>5. <<>> \in S
  OBVIOUS
<1> HIDE DEF step
<1>6. PICK e \in [0 .. n -> S] : Walk(e, <<>>, step, n)
  <2> HIDE DEF n, S
  <2> QED BY <1>1, <1>3, <1>5, LoopRuns
<1>7. e[0] = <<>> /\ \A i \in 1 .. n : e[i] = Step(e[i - 1], s[i])
  <2>1. ASSUME NEW i \in 1 .. n PROVE i - 1 \in 0 .. n
    BY <1>1
  <2> HIDE DEF n, Step, S
  <2> QED BY <1>4, <1>6, <2>1 DEF Walk
<1>8. e = F(e)
  <2>1. ASSUME NEW i \in 0 .. n PROVE e[i] = F(e)[i]
    <3>1. CASE i = 0
      BY <1>7, <3>1
    <3>2. CASE i # 0
      <4>1. i \in 1 .. n
        BY <1>1, <3>2
      <4> HIDE DEF n
      <4> QED BY <1>7, <4>1, <3>2
    <3> QED BY <3>1, <3>2
  <2> HIDE DEF S
  <2> QED BY <2>1
<1> DEFINE h == CHOOSE h : h = F(h)
<1>9. Only(s, T) = h[n]
  BY DEF Only
<1>10. h = F(h)
  <2> HIDE DEF F
  <2> QED BY <1>8
<1> HIDE DEF h
<1>11. DOMAIN h = 0 .. n /\ h[0] = <<>>
  BY <1>1, <1>10
<1>12. ASSUME NEW i \in 1 .. n PROVE h[i] = Step(h[i - 1], s[i])
  <2>1. i \in 0 .. n /\ i # 0
    BY <1>1
  <2>2. h[i] = F(h)[i]
    <3> HIDE DEF F
    <3> QED BY <1>10
  <2> HIDE DEF n
  <2> QED BY ONLY <2>1, <2>2
<1>13. \A i \in 0 .. n : h[i] \in S
  <2> DEFINE P == {i \in Nat : h[i] \in S}
  <2> HIDE DEF Step, S
  <2>1. 0 \in P
    BY <1>5, <1>11
  <2>2. \A i \in 1 .. n : i - 1 \in P => i \in P
    BY <1>1, <1>2, <1>12
  <2> HIDE DEF P, n
  <2>3. \A i \in 0 .. n : i \in P
    BY <1>1, <2>1, <2>2, UpTo
  <2> QED BY <2>3 DEF P
<1>14. h \in [0 .. n -> S]
  <2>1. h = [i \in 0 .. n |-> h[i]]
    BY <1>10
  <2> HIDE DEF S, n
  <2> QED BY <1>13, <2>1
<1> QED BY <1>9, <1>11, <1>12, <1>14 DEF KeptOf

LEMMA OnlyType ==
    ASSUME NEW s, IsSequence(s), NEW T
    PROVE  IsSequence(Only(s, T)) /\ ToSet(Only(s, T)) \subseteq ToSet(s)
<1>1. PICK kept : KeptOf(kept, s, T)
  BY KeptExist
<1>2. Len(s) \in Nat
  BY SequenceIs DEF IsSequence
<1>3. Only(s, T) \in Seq(ToSet(s))
  BY <1>1, <1>2 DEF KeptOf
<1> QED BY <1>3, SequenceIs

\* The same of the lines that are no header.
HeadersOf(kept, s) ==
    /\ kept[0] = <<>> /\ WithoutHeaders(s) = kept[Len(s)]
    /\ \A i \in 1 .. Len(s) :
          kept[i] = IF s[i] = Header THEN kept[i - 1] ELSE Append(kept[i - 1], s[i])

LEMMA HeadersExist ==
    ASSUME NEW s, IsSequence(s)
    PROVE  \E kept : HeadersOf(kept, s)
<1> DEFINE T == ToSet(s) \ {Header}
<1>1. PICK kept : KeptOf(kept, s, T)
  BY KeptExist
<1>2. \A i \in 1 .. Len(s) : s[i] \in T <=> s[i] # Header
  BY SequenceIs DEF IsSequence
<1>3. WithoutHeaders(s) = Only(s, T)
  BY DEF WithoutHeaders
<1> HIDE DEF T
<1>4. HeadersOf(kept, s)
  BY <1>1, <1>2, <1>3 DEF KeptOf, HeadersOf
<1> QED BY <1>4

LEMMA WithoutHeadersType ==
    ASSUME NEW s, IsSequence(s)
    PROVE  IsSequence(WithoutHeaders(s)) /\ ToSet(WithoutHeaders(s)) \subseteq ToSet(s)
BY OnlyType DEF WithoutHeaders

LEMMA SubSeqGrows ==
    ASSUME NEW S, NEW s \in Seq(S), NEW i \in 1 .. Len(s), NEW a \in 1 .. i
    PROVE  SubSeq(s, a, i) = Append(SubSeq(s, a, i - 1), s[i])
<1>1. a \in 1 .. Len(s) /\ i \in a .. Len(s)
  OBVIOUS
<1>2. SubSeq(s, a, i) = SubSeq(s, a, i - 1) \o <<s[i]>>
  BY <1>1, SubSeqRecursiveSecond
<1>3. SubSeq(s, a, i - 1) \in Seq(S) /\ s[i] \in S
  OBVIOUS
<1> QED BY <1>2, <1>3

LEMMA HeadersGone ==
    ASSUME NEW s, IsSequence(s), \A i \in 2 .. Len(s) : s[i] # Header
    PROVE  WithoutHeaders(s) = Body(s)
<1>1. PICK kept : HeadersOf(kept, s)
  BY HeadersExist
<1> DEFINE n == Len(s)
           S == ToSet(s)
           b == IF s # <<>> /\ s[1] = Header THEN 1 ELSE 0
           P == {i \in Nat : i <= n => kept[i] = SubSeq(s, b + 1, i)}
<1>2. s \in Seq(S) /\ n \in Nat /\ (s # <<>> => n > 0)
  BY DEF IsSequence
<1>3. b \in 0 .. 1 /\ (b = 1 <=> s # <<>> /\ s[1] = Header)
  OBVIOUS
<1> HIDE DEF b, S
<1>4. 0 \in P
  <2>1. SubSeq(s, b + 1, 0) = <<>>
    BY <1>2, <1>3, SubSeqEmpty
  <2> QED BY <1>1, <2>1 DEF HeadersOf
<1>5. ASSUME NEW i \in 1 .. n, i - 1 \in P PROVE i \in P
  <2>1. kept[i - 1] = SubSeq(s, b + 1, i - 1) /\ i \in Nat /\ i <= n
    BY <1>2, <1>5
  <2>2. kept[i] = IF s[i] = Header THEN kept[i - 1] ELSE Append(kept[i - 1], s[i])
    BY <1>1 DEF HeadersOf
  <2>3. CASE i = 1 /\ b = 1
    <3>1. SubSeq(s, b + 1, i - 1) = <<>> /\ SubSeq(s, b + 1, i) = <<>>
      BY <1>2, <2>3, SubSeqEmpty
    <3>2. s[i] = Header
      BY <1>3, <2>3
    <3> HIDE DEF n
    <3> QED BY <2>1, <2>2, <3>1, <3>2
  <2>4. CASE ~(i = 1 /\ b = 1)
    <3>1. s[i] # Header
      BY <1>2, <1>3, <2>1, <2>4
    <3>2. b + 1 \in 1 .. i
      BY <1>3, <2>1, <2>4
    <3>3. SubSeq(s, b + 1, i) = Append(SubSeq(s, b + 1, i - 1), s[i])
      BY <1>2, <3>2, SubSeqGrows
    <3> HIDE DEF n
    <3> QED BY <2>1, <2>2, <3>1, <3>3
  <2> QED BY <2>3, <2>4
<1>6. n \in P
  <2> HIDE DEF P, n
  <2>1. \A i \in 0 .. n : i \in P
    BY <1>2, <1>4, <1>5, UpTo
  <2> QED BY <1>2, <2>1
<1>7. WithoutHeaders(s) = SubSeq(s, b + 1, n)
  BY <1>1, <1>2, <1>6 DEF HeadersOf
<1>8. SubSeq(s, 1, n) = s
  BY <1>2
<1>9. SubSeq(s, 2, n) = Tail(s)
  BY <1>2
<1> QED BY <1>3, <1>7, <1>8, <1>9 DEF Body

LEMMA NoHeaders ==
    ASSUME NEW s, IsSequence(s), s # <<>>, \A i \in 2 .. Len(s) : s[i] # Header
    PROVE  WithoutHeaders(Tail(s)) = Tail(s)
<1> DEFINE b == Tail(s)
<1>1. /\ IsSequence(b) /\ Len(s) \in Nat \ {0} /\ Len(b) = Len(s) - 1
      /\ \A i \in 1 .. Len(s) - 1 : b[i] = s[i + 1]
  BY TailIs
<1> HIDE DEF b
<1>2. ASSUME NEW i \in 1 .. Len(b) PROVE b[i] # Header
  <2>1. i + 1 \in 2 .. Len(s) /\ b[i] = s[i + 1]
    BY <1>1
  <2> QED BY <2>1
<1>3. b # <<>> => b[1] # Header
  <2>1. b # <<>> => Len(b) \in Nat \ {0}
    BY <1>1, TailIs
  <2> QED BY <1>2, <2>1
<1>4. Body(b) = b
  BY <1>3 DEF Body
<1>5. \A i \in 2 .. Len(b) : b[i] # Header
  BY <1>1, <1>2
<1> QED BY <1>1, <1>4, <1>5, HeadersGone DEF b

LEMMA PrefixIs ==
    ASSUME NEW r, IsSequence(r), NEW g, IsSequence(g)
    PROVE  IsPrefix(r, g) <=> Len(r) <= Len(g) /\ \A i \in 1 .. Len(r) : r[i] = g[i]
<1> DEFINE S == ToSet(r) \cup ToSet(g)
           n == Len(r)
<1>1. r \in Seq(ToSet(r)) /\ g \in Seq(ToSet(g))
  BY DEF IsSequence
<1>2. r \in Seq(S) /\ g \in Seq(S)
  <2>1. ToSet(r) \subseteq S /\ ToSet(g) \subseteq S
    OBVIOUS
  <2> HIDE DEF S
  <2> QED BY <1>1, <2>1, SeqMonotonic
<1> HIDE DEF S
<1>3. n \in Nat /\ Len(g) \in Nat
  BY <1>2
<1>4. SubSeq(r, 1, n) = r
  BY <1>2, SubSeqFull
<1>5. ASSUME n <= Len(g) PROVE (r = SubSeq(g, 1, n)) <=> \A i \in 1 .. n : r[i] = g[i]
  <2>1. SubSeq(g, 1, n) \in Seq(S) /\ Len(SubSeq(g, 1, n)) = n /\ \A i \in 1 .. n : SubSeq(g, 1, n)[i] = g[i]
    BY <1>2, <1>3, <1>5
  <2>2. ASSUME \A i \in 1 .. n : r[i] = g[i] PROVE r = SubSeq(g, 1, n)
    BY <1>2, <2>1, <2>2, SeqEqual
  <2> QED BY <2>1, <2>2
<1> QED BY <1>4, <1>5 DEF IsPrefix

LEMMA SequencesEqual ==
    ASSUME NEW r, IsSequence(r), NEW g, IsSequence(g), Len(r) = Len(g),
           \A i \in 1 .. Len(r) : r[i] = g[i]
    PROVE  r = g
<1> DEFINE S == ToSet(r) \cup ToSet(g)
<1>1. r \in Seq(ToSet(r)) /\ g \in Seq(ToSet(g)) /\ ToSet(r) \subseteq S /\ ToSet(g) \subseteq S
  BY DEF IsSequence
<1> HIDE DEF S
<1>2. r \in Seq(S) /\ g \in Seq(S)
  BY <1>1, SeqMonotonic
<1> QED BY <1>2, SeqEqual

-----------------------------------------------------------------------------
(***************************************************************************)
(* What a file has, and what was given to be written to it                 *)
(***************************************************************************)

\* Up to the first line that is not good, lines are what was given; if there is no
\* such line, they are all of it.
Follows(s, given) ==
    \A i \in 1 .. Len(s) : AllGood(s, i) => i <= Len(given) /\ s[i].file = given[i]
Agrees(s, given) ==
    /\ Follows(s, given)
    /\ AllGood(s, Len(s)) => Len(s) = Len(given)

LEMMA FollowsReads ==
    ASSUME NEW s, IsSequence(s), NEW given, IsSequence(given), Follows(s, given)
    PROVE  /\ IsPrefix(Entries(s).entries, given)
           /\ AllGood(s, Len(s)) /\ Len(s) = Len(given) => Entries(s) = [entries |-> given, ok |-> TRUE]
<1> DEFINE r == Entries(s).entries
           n == Len(r)
<1>1. /\ IsSequence(r) /\ n \in 0 .. Len(s) /\ AllGood(s, n)
      /\ \A i \in 1 .. n : r[i] = s[i].file
      /\ Entries(s).ok = AllGood(s, Len(s)) /\ (Entries(s).ok => n = Len(s))
      /\ Entries(s) = [entries |-> r, ok |-> Entries(s).ok]
  BY EntriesAre
<1> HIDE DEF r
<1>2. Len(s) \in Nat /\ Len(given) \in Nat
  BY SequenceIs DEF IsSequence
<1>3. \A i \in 1 .. n : i <= Len(given) /\ r[i] = given[i]
  <2> SUFFICES ASSUME NEW i \in 1 .. n PROVE i <= Len(given) /\ r[i] = given[i]
    OBVIOUS
  <2>1. i \in 1 .. Len(s) /\ AllGood(s, i)
    BY <1>1, <1>2 DEF AllGood
  <2> QED BY <1>1, <2>1 DEF Follows
<1>4. n <= Len(given)
  <2>1. CASE n = 0
    BY <1>2, <2>1
  <2>2. CASE n # 0
    <3>1. n \in 1 .. n
      BY <1>1, <1>2, <2>2
    <3> QED BY <1>3, <3>1
  <2> QED BY <2>1, <2>2
<1>5. IsPrefix(r, given)
  BY <1>1, <1>3, <1>4, PrefixIs
<1>6. ASSUME AllGood(s, Len(s)), Len(s) = Len(given) PROVE r = given /\ Entries(s).ok = TRUE
  <2>1. Entries(s).ok /\ n = Len(s) /\ Len(given) = Len(s)
    BY <1>1, <1>6
  <2>2. r = given
    BY <1>1, <1>3, <2>1, SequencesEqual
  <2>3. Entries(s).ok = TRUE
    BY <1>1, <1>6 DEF AllGood
  <2> QED BY <2>2, <2>3
<1> QED BY <1>1, <1>5, <1>6 DEF r

LEMMA AgreesReads ==
    ASSUME NEW s, IsSequence(s), NEW given, IsSequence(given), Agrees(s, given)
    PROVE  /\ IsPrefix(Entries(s).entries, given)
           /\ AllGood(s, Len(s)) => Entries(s) = [entries |-> given, ok |-> TRUE]
BY FollowsReads DEF Agrees

\* What is read agrees with itself.
LEMMA ReadAgrees ==
    ASSUME NEW s, IsSequence(s)
    PROVE  Agrees(s, Entries(s).entries) /\ (Entries(s).ok => AllGood(s, Len(s)))
<1> DEFINE r == Entries(s).entries
           n == Len(r)
<1>1. /\ n \in 0 .. Len(s) /\ (n = Len(s) \/ ~Good(s[n + 1]))
      /\ \A i \in 1 .. n : r[i] = s[i].file
      /\ Entries(s).ok = AllGood(s, Len(s)) /\ (Entries(s).ok => n = Len(s))
  BY EntriesAre
<1> HIDE DEF r
<1>2. Len(s) \in Nat
  BY SequenceIs DEF IsSequence
<1>3. ASSUME NEW i \in 1 .. Len(s), AllGood(s, i) PROVE i <= n /\ s[i].file = r[i]
  <2>1. i <= n
    <3>1. CASE n = Len(s)
      BY <1>2, <3>1
    <3>2. CASE n # Len(s)
      <4>1. n + 1 \notin 1 .. i
        BY <1>1, <1>3, <3>2 DEF AllGood
      <4> QED BY <1>1, <1>2, <4>1
    <3> QED BY <3>1, <3>2
  <2>2. i \in 1 .. n
    BY <1>1, <2>1
  <2> QED BY <1>1, <2>1, <2>2
<1>4. AllGood(s, Len(s)) => Len(s) = n
  BY <1>1
<1>5. Agrees(s, r)
  BY <1>3, <1>4 DEF Agrees, Follows
<1> QED BY <1>1, <1>5 DEF r

\* A line and what it is of are added together.
LEMMA AgreesAdds ==
    ASSUME NEW s, IsSequence(s), NEW given, IsSequence(given), Agrees(s, given), NEW file
    PROVE  Agrees(Append(s, [is |-> "entry", file |-> file]), Append(given, file))
<1> DEFINE line == [is |-> "entry", file |-> file]
           t == Append(s, line)
           g == Append(given, file)
<1>1. line.file = file
  OBVIOUS
<1> HIDE DEF line
<1>2. /\ Len(t) = Len(s) + 1 /\ Len(s) \in Nat
      /\ (\A i \in 1 .. Len(s) : t[i] = s[i]) /\ t[Len(s) + 1] = line
  BY AppendIs, SequenceIs DEF IsSequence
<1>3. /\ Len(g) = Len(given) + 1 /\ Len(given) \in Nat
      /\ (\A i \in 1 .. Len(given) : g[i] = given[i]) /\ g[Len(given) + 1] = file
  BY AppendIs, SequenceIs DEF IsSequence
<1> HIDE DEF t, g
<1>4. ASSUME NEW i \in 1 .. Len(s) + 1, AllGood(t, i) PROVE i <= Len(g) /\ t[i].file = g[i]
  <2>1. CASE i \in 1 .. Len(s)
    <3>1. AllGood(s, i)
      BY <1>2, <1>4, <2>1 DEF AllGood
    <3>2. i <= Len(given) /\ s[i].file = given[i]
      BY <2>1, <3>1 DEF Agrees, Follows
    <3> QED BY <1>2, <1>3, <2>1, <3>2
  <2>2. CASE i = Len(s) + 1
    <3>1. AllGood(s, Len(s))
      BY <1>2, <1>4, <2>2 DEF AllGood
    <3>2. Len(s) = Len(given)
      BY <3>1 DEF Agrees, Follows
    <3> QED BY <1>1, <1>2, <1>3, <2>2, <3>2
  <2> QED BY <1>2, <2>1, <2>2
<1>5. ASSUME AllGood(t, Len(s) + 1) PROVE Len(s) + 1 = Len(g)
  <2>1. AllGood(s, Len(s))
    BY <1>2, <1>5 DEF AllGood
  <2> QED BY <1>3, <2>1 DEF Agrees, Follows
<1>6. Agrees(t, g)
  BY <1>2, <1>4, <1>5 DEF Agrees, Follows
<1> QED BY <1>6 DEF t, g, line

\* Behind a line that is not good, anything may be given or written.
LEMMA AgreesStays ==
    ASSUME NEW s, IsSequence(s), NEW given, IsSequence(given), Agrees(s, given),
           ~AllGood(s, Len(s)), NEW file
    PROVE  Agrees(s, Append(given, file))
<1>1. Len(s) \in Nat /\ Len(given) \in Nat /\ Len(Append(given, file)) = Len(given) + 1
  BY AppendIs, SequenceIs DEF IsSequence
<1>2. \A i \in 1 .. Len(given) : Append(given, file)[i] = given[i]
  BY AppendIs
<1>3. ASSUME NEW i \in 1 .. Len(s), AllGood(s, i)
      PROVE  i <= Len(given) + 1 /\ s[i].file = Append(given, file)[i]
  <2>1. i <= Len(given) /\ s[i].file = given[i]
    BY <1>3 DEF Agrees, Follows
  <2>2. i \in 1 .. Len(given)
    BY <1>1, <2>1
  <2> QED BY <1>1, <1>2, <2>1, <2>2
<1> QED BY <1>1, <1>3 DEF Agrees, Follows

LEMMA AgreesTorn ==
    ASSUME NEW s, IsSequence(s), NEW given, IsSequence(given), Agrees(s, given)
    PROVE  Agrees(Append(s, Torn), given) /\ ~AllGood(Append(s, Torn), Len(s) + 1)
<1> DEFINE t == Append(s, Torn)
<1>1. /\ Len(t) = Len(s) + 1 /\ Len(s) \in Nat
      /\ (\A i \in 1 .. Len(s) : t[i] = s[i]) /\ t[Len(s) + 1] = Torn
  BY AppendIs, SequenceIs DEF IsSequence
<1> HIDE DEF t
<1>2. ~Good(Torn)
  BY DEF Good, Torn
<1>3. ~AllGood(t, Len(s) + 1)
  <2>1. Len(s) + 1 \in 1 .. Len(s) + 1
    BY <1>1
  <2> QED BY <1>1, <1>2, <2>1 DEF AllGood
<1>4. ASSUME NEW i \in 1 .. Len(s) + 1, AllGood(t, i) PROVE i <= Len(given) /\ t[i].file = given[i]
  <2>1. i \in 1 .. Len(s)
    BY <1>1, <1>3, <1>4
  <2>2. AllGood(s, i)
    BY <1>1, <1>4, <2>1 DEF AllGood
  <2> QED BY <1>1, <2>1, <2>2 DEF Agrees, Follows
<1>5. Agrees(t, given)
  BY <1>1, <1>3, <1>4 DEF Agrees, Follows
<1> QED BY <1>3, <1>5 DEF t

\* A file that was made by writing lines: what it was given, and whether it has a
\* header and no half line.
Plain(m, given, entire) ==
    /\ IsText(m)
    /\ \A i \in 2 .. Len(m.lines) : m.lines[i] # Header
    /\ ~m.whole => m.lines[Len(m.lines)] = Torn /\ Agrees(Body(Front(m.lines)), given)
    /\ Agrees(Body(m.lines), given)
    /\ entire => m.lines # <<>> /\ m.lines[1] = Header /\ AllGood(Body(m.lines), Len(Body(m.lines)))

\* One that was compressed.
Packed(m, given, entire) ==
    /\ IsText(m)
    /\ IsPrefix(ReadZrman(m).entries, given)
    /\ ReadZrman(m).ok => ReadZrman(m).entries = given
    /\ entire => ReadZrman(m) = [entries |-> given, ok |-> TRUE]

LEMMA BodyIs ==
    ASSUME NEW s, IsSequence(s)
    PROVE  /\ IsSequence(Body(s)) /\ ToSet(Body(s)) \subseteq ToSet(s)
           /\ \A x : x # Header => Body(Append(s, x)) = Append(Body(s), x)
<1>1. IsSequence(Body(s)) /\ ToSet(Body(s)) \subseteq ToSet(s)
  BY TailIs DEF Body
<1>2. ASSUME NEW x, x # Header PROVE Body(Append(s, x)) = Append(Body(s), x)
  <2> DEFINE t == Append(s, x)
             S == ToSet(s) \cup {x}
  <2>1. s \in Seq(ToSet(s)) /\ ToSet(s) \subseteq S /\ x \in S
    BY DEF IsSequence
  <2> HIDE DEF S
  <2>2. s \in Seq(S) /\ x \in S
    BY <2>1, SeqMonotonic
  <2>3. CASE s = <<>>
    <3>1. t = <<x>> /\ t[1] = x
      BY <2>3
    <3> QED BY <1>2, <2>3, <3>1 DEF Body
  <2>4. CASE s # <<>>
    <3>1. t # <<>> /\ t[1] = s[1] /\ Tail(t) = Append(Tail(s), x)
      BY <2>2, <2>4
    <3> QED BY <2>4, <3>1 DEF Body
  <2> QED BY <2>3, <2>4
<1> QED BY <1>1, <1>2

\* The lines of a file, and how one is changed.
LEMMA TextIs ==
    ASSUME NEW m, IsText(m)
    PROVE  /\ IsSequence(m.lines) /\ Len(m.lines) \in Nat /\ m.whole \in BOOLEAN
           /\ ~m.whole => m.lines # <<>>
           /\ \A lines : [m EXCEPT !.lines = lines] = [form |-> m.form, lines |-> lines, whole |-> m.whole]
           /\ \A form : [m EXCEPT !.form = form] = [form |-> form, lines |-> m.lines, whole |-> m.whole]
<1> DEFINE f == m.form
           l == m.lines
           w == m.whole
<1>1. m = [form |-> f, lines |-> l, whole |-> w] /\ IsSequence(l) /\ w \in BOOLEAN /\ (~w => l # <<>>)
  BY DEF IsText, IsSequence
<1>2. Len(l) \in Nat
  BY <1>1, SequenceIs DEF IsSequence
<1> HIDE DEF f, l, w
<1>3. /\ \A lines : [m EXCEPT !.lines = lines] = [form |-> f, lines |-> lines, whole |-> w]
      /\ \A form : [m EXCEPT !.form = form] = [form |-> form, lines |-> l, whole |-> w]
  <2>1. m = [form |-> f, lines |-> l, whole |-> w]
    BY <1>1
  <2>2. ASSUME NEW lines PROVE [m EXCEPT !.lines = lines] = [form |-> f, lines |-> lines, whole |-> w]
    BY ONLY <2>1
  <2>3. ASSUME NEW form PROVE [m EXCEPT !.form = form] = [form |-> form, lines |-> l, whole |-> w]
    BY ONLY <2>1
  <2> QED BY <2>2, <2>3
<1> QED BY <1>1, <1>2, <1>3 DEF f, l, w

\* A half line at the end is torn already.
LEMMA TornAgain ==
    ASSUME NEW s, IsSequence(s), s # <<>>, s[Len(s)] = Torn
    PROVE  Append(Front(s), Torn) = s
<1>1. s \in Seq(ToSet(s)) /\ Len(s) \in 1 .. Len(s) /\ 1 \in 1 .. Len(s)
  BY TailIs DEF IsSequence
<1>2. SubSeq(s, 1, Len(s)) = Append(SubSeq(s, 1, Len(s) - 1), s[Len(s)])
  BY <1>1, SubSeqGrows
<1>3. SubSeq(s, 1, Len(s)) = s
  BY <1>1, SubSeqFull
<1> QED BY <1>2, <1>3 DEF Front

LEMMA TornIsBad ==
    ASSUME NEW s, IsSequence(s), s # <<>>, s[Len(s)] = Torn
    PROVE  ~AllGood(Body(s), Len(Body(s)))
<1> DEFINE n == Len(s)
<1>1. n \in Nat \ {0} /\ Header # Torn /\ ~Good(Torn)
  BY TailIs DEF Header, Torn, Good
<1>2. Len(Body(s)) \in 1 .. n /\ Body(s)[Len(Body(s))] = Torn
  <2>1. CASE s[1] = Header
    <3>1. n # 1
      BY <1>1, <2>1
    <3> HIDE DEF n
    <3>2. n - 1 \in 1 .. n - 1 /\ (n - 1) + 1 = n
      BY <1>1, <3>1
    <3> USE DEF n
    <3>3. Body(s) = Tail(s) /\ Len(Tail(s)) = n - 1 /\ Tail(s)[n - 1] = s[n]
      BY <2>1, <3>2, TailIs DEF Body
    <3> QED BY <1>1, <3>1, <3>3
  <2>2. CASE s[1] # Header
    BY <1>1, <2>2 DEF Body
  <2> QED BY <2>1, <2>2
<1> QED BY <1>1, <1>2 DEF AllGood

LEMMA PlainAfter ==
    ASSUME NEW m, m.form = "jrman", NEW given, IsSequence(given), NEW file, IsEntry(file),
           NEW entire \in BOOLEAN, Plain(m, given, entire), entire => Undumps(file)
    PROVE  LET new == After(m, [is |-> "entry", file |-> file])
           IN  new.form = "jrman" /\ Plain(new, Append(given, file), entire)
<1> DEFINE line == [is |-> "entry", file |-> file]
           new == After(m, line)
           s == m.lines
           n == Len(s)
<1>1. IsText(m) /\ IsSequence(s) /\ n \in Nat /\ m.whole \in BOOLEAN /\ (~m.whole => s # <<>>)
  BY TextIs DEF Plain
<1>2. line.is = "entry" /\ line.file = file /\ line # Header /\ line # Torn
  BY DEF Header, Torn
<1> HIDE DEF line, s
<1>3. CASE m.whole
  <2> DEFINE t == Append(s, line)
  <2>1. new = [form |-> "jrman", lines |-> t, whole |-> TRUE]
    BY <1>1, <1>3, TextIs DEF After, s
  <2>2. /\ IsSequence(t) /\ ToSet(t) = ToSet(s) \cup {line} /\ Len(t) = n + 1
        /\ (\A i \in 1 .. n : t[i] = s[i]) /\ t[n + 1] = line
    BY <1>1, AppendIs
  <2>3. Body(t) = Append(Body(s), line) /\ IsSequence(Body(s))
    BY <1>1, <1>2, BodyIs
  <2>4. Agrees(Body(t), Append(given, file))
    BY <2>3, AgreesAdds DEF Plain, line, s
  <2> HIDE DEF t, new
  <2>5. new.form = "jrman" /\ new.lines = t /\ new.whole = TRUE
    BY <2>1
  <2>6. IsText(new)
    <3>1. \A l \in ToSet(t) : l.is = "entry" => IsEntry(l.file)
      BY <1>1, <1>2, <2>2 DEF IsText, s
    <3> QED BY <2>1, <2>2, <2>5, <3>1 DEF IsText, IsSequence
  <2>7. \A i \in 2 .. n + 1 : t[i] # Header
    BY <1>1, <1>2, <2>2 DEF Plain, s
  <2>8. ASSUME entire PROVE t # <<>> /\ t[1] = Header /\ AllGood(Body(t), Len(Body(t)))
    <3>1. s # <<>> /\ s[1] = Header /\ AllGood(Body(s), Len(Body(s)))
      BY <2>8 DEF Plain, s
    <3>2. n > 0 /\ t # <<>>
      BY <1>1, <2>2, <3>1, EmptyIs, TailIs
    <3>3. Good(line)
      BY <1>2, <2>8 DEF Good
    <3>4. /\ Len(Body(t)) = Len(Body(s)) + 1 /\ Len(Body(s)) \in Nat
          /\ (\A i \in 1 .. Len(Body(s)) : Body(t)[i] = Body(s)[i]) /\ Body(t)[Len(Body(s)) + 1] = line
      BY <2>3, AppendIs, SequenceIs DEF IsSequence
    <3>5. AllGood(Body(t), Len(Body(t)))
      BY <3>1, <3>3, <3>4 DEF AllGood
    <3> QED BY <1>1, <2>2, <3>1, <3>2, <3>5
  <2> QED BY <2>2, <2>4, <2>5, <2>6, <2>7, <2>8 DEF Plain, line, new
<1>4. CASE ~m.whole
  <2>1. s # <<>> /\ s[n] = Torn /\ n > 0
    BY <1>1, <1>4, TailIs DEF Plain, s
  <2>2. Append(Front(s), Torn) = s
    BY <1>1, <2>1, TornAgain
  <2>3. new = [form |-> "jrman", lines |-> s, whole |-> TRUE]
    BY <1>1, <1>4, <2>2, TextIs DEF After, s
  <2> HIDE DEF new
  <2>4. new.form = "jrman" /\ new.lines = s /\ new.whole = TRUE
    BY <2>3
  <2>5. IsText(new)
    BY <1>1, <2>3, <2>4 DEF IsText, IsSequence, s
  <2>6. ~AllGood(Body(s), Len(Body(s))) /\ ~(s[1] = Header /\ AllGood(Body(s), Len(Body(s))))
    BY <1>1, <2>1, TornIsBad
  <2>7. IsSequence(Body(s)) /\ Agrees(Body(s), Append(given, file))
    BY <1>1, <2>6, BodyIs, AgreesStays DEF Plain, s
  <2>8. ~entire
    BY <2>6 DEF Plain, s
  <2> QED BY <1>1, <2>4, <2>5, <2>7, <2>8 DEF Plain, line, new, s
<1> QED BY <1>1, <1>3, <1>4

LEMMA FrontIs ==
    ASSUME NEW s, IsSequence(s), s # <<>>
    PROVE  /\ IsSequence(Front(s)) /\ ToSet(Front(s)) \subseteq ToSet(s)
           /\ Len(Front(s)) = Len(s) - 1
           /\ \A i \in 1 .. Len(s) - 1 : Front(s)[i] = s[i]
           /\ s = Append(Front(s), s[Len(s)])
<1> DEFINE S == ToSet(s)
<1>1. s \in Seq(S) /\ Len(s) \in 1 .. Len(s) /\ 1 \in 1 .. Len(s) /\ Len(s) \in Nat \ {0}
  BY TailIs DEF IsSequence
<1> HIDE DEF S
<1>2. /\ Front(s) \in Seq(S) /\ Len(Front(s)) = Len(s) - 1
      /\ \A i \in 1 .. Len(s) - 1 : Front(s)[i] = s[i]
  <2> DEFINE n == Len(s) - 1
  <2>1. n \in Nat /\ n <= Len(s) /\ 1 \in Nat
    BY <1>1
  <2>2. \A i \in 1 .. n : s[i] \in S
    BY <1>1
  <2> HIDE DEF n
  <2>3. SubSeq(s, 1, n) \in Seq(S) /\ Len(SubSeq(s, 1, n)) = n
    BY <1>1, <2>1, <2>2
  <2>4. \A i \in 1 .. n : SubSeq(s, 1, n)[i] = s[i]
    BY <1>1, <2>1, <2>2
  <2> QED BY <2>3, <2>4 DEF Front, n
<1>3. IsSequence(Front(s)) /\ ToSet(Front(s)) \subseteq S
  BY <1>2, SequenceIs
<1>4. SubSeq(s, 1, Len(s)) = Append(SubSeq(s, 1, Len(s) - 1), s[Len(s)])
  BY <1>1, SubSeqGrows
<1>5. SubSeq(s, 1, Len(s)) = s
  BY <1>1, SubSeqFull
<1> QED BY <1>2, <1>3, <1>4, <1>5 DEF S, Front

\* The line behind the others does not matter to what is before it.
LEMMA FrontAppend ==
    ASSUME NEW s, IsSequence(s), NEW x
    PROVE  Front(Append(s, x)) = s
<1> DEFINE t == Append(s, x)
<1>1. IsSequence(t) /\ Len(t) = Len(s) + 1 /\ Len(s) \in Nat /\ \A i \in 1 .. Len(s) : t[i] = s[i]
  BY AppendIs, SequenceIs DEF IsSequence
<1>2. t # <<>>
  BY <1>1, EmptyIs
<1> HIDE DEF t
<1>3. IsSequence(Front(t)) /\ Len(Front(t)) = Len(s) /\ \A i \in 1 .. Len(s) : Front(t)[i] = s[i]
  BY <1>1, <1>2, FrontIs
<1> QED BY <1>3, SequencesEqual DEF t

LEMMA PlainHalf ==
    ASSUME NEW m, m.form = "jrman", NEW given, IsSequence(given), NEW entire, Plain(m, given, entire)
    PROVE  HalfAfter(m).form = "jrman" /\ Plain(HalfAfter(m), given, FALSE)
<1> DEFINE new == HalfAfter(m)
           s == m.lines
           n == Len(s)
<1>1. IsText(m) /\ IsSequence(s) /\ n \in Nat /\ m.whole \in BOOLEAN /\ (~m.whole => s # <<>>)
  BY TextIs DEF Plain
<1>2. Torn # Header /\ ~(Torn.is = "entry")
  BY DEF Header, Torn
<1> HIDE DEF s
<1>3. CASE m.whole
  <2> DEFINE t == Append(s, Torn)
  <2>1. new = [form |-> "jrman", lines |-> t, whole |-> FALSE]
    BY <1>1, <1>3 DEF HalfAfter, s
  <2>2. /\ IsSequence(t) /\ ToSet(t) = ToSet(s) \cup {Torn} /\ Len(t) = n + 1
        /\ (\A i \in 1 .. n : t[i] = s[i]) /\ t[n + 1] = Torn
    BY <1>1, AppendIs
  <2>3. Body(t) = Append(Body(s), Torn) /\ IsSequence(Body(s))
    BY <1>1, <1>2, BodyIs
  <2>4. Agrees(Body(t), given)
    BY <2>3, AgreesTorn DEF Plain, s
  <2> HIDE DEF t, new
  <2>5. new.form = "jrman" /\ new.lines = t /\ new.whole = FALSE
    BY <2>1
  <2>6. t # <<>>
    BY <1>1, <2>2, EmptyIs
  <2>7. \A l \in ToSet(t) : l.is = "entry" => IsEntry(l.file)
    BY <1>1, <1>2, <2>2 DEF IsText, s
  <2>8. IsText(new)
    BY <2>1, <2>2, <2>5, <2>6, <2>7 DEF IsText, IsSequence
  <2>9. \A i \in 2 .. n + 1 : t[i] # Header
    BY <1>1, <1>2, <2>2 DEF Plain, s
  <2>10. Front(t) = s /\ Agrees(Body(s), given)
    BY <1>1, FrontAppend DEF Plain, s, t
  <2> QED BY <2>2, <2>4, <2>5, <2>8, <2>9, <2>10 DEF Plain, new
<1>4. CASE ~m.whole
  <2>1. s # <<>> /\ s[n] = Torn
    BY <1>1, <1>4 DEF Plain, s
  <2>2. Append(Front(s), Torn) = s
    BY <1>1, <2>1, TornAgain
  <2>3. new = [form |-> "jrman", lines |-> s, whole |-> FALSE]
    BY <1>1, <1>4, <2>2 DEF HalfAfter, s
  <2> HIDE DEF new
  <2>4. new.form = "jrman" /\ new.lines = s /\ new.whole = FALSE
    BY <2>3
  <2>5. IsText(new)
    BY <1>1, <2>1, <2>3, <2>4 DEF IsText, IsSequence, s
  <2>6. /\ \A i \in 2 .. n : s[i] # Header
        /\ Agrees(Body(Front(s)), given) /\ Agrees(Body(s), given)
    BY <1>4 DEF Plain, s
  <2> QED BY <1>1, <2>1, <2>4, <2>5, <2>6 DEF Plain, new
<1> QED BY <1>1, <1>3, <1>4

LEMMA PlainLess ==
    ASSUME NEW m, NEW given, NEW entire, Plain(m, given, entire)
    PROVE  Plain(m, given, FALSE)
BY DEF Plain

\* A file that was just made, and one with its header.
LEMMA EmptyPlain ==
    /\ Empty.form = "jrman" /\ Plain(Empty, <<>>, FALSE)
    /\ After(Empty, Header).form = "jrman" /\ Plain(After(Empty, Header), <<>>, TRUE)
<1> DEFINE new == After(Empty, Header)
<1>1. Empty.form = "jrman" /\ Empty.lines = <<>> /\ Empty.whole = TRUE
  BY DEF Empty
<1>2. IsText(Empty)
  BY <1>1, EmptyIs DEF IsText, IsSequence, Empty
<1>3. Body(<<>>) = <<>> /\ Agrees(<<>>, <<>>)
  BY EmptyIs DEF Body, Agrees, Follows
<1>4. Plain(Empty, <<>>, FALSE)
  BY <1>1, <1>2, <1>3, EmptyIs DEF Plain
<1> DEFINE t == <<Header>>
<1>5. t = Append(<<>>, Header) /\ Len(t) = 1 /\ t[1] = Header /\ Tail(t) = <<>> /\ t # <<>>
  OBVIOUS
<1>6. new = [form |-> "jrman", lines |-> t, whole |-> TRUE]
  BY <1>1, <1>2, <1>5, TextIs DEF After
<1>7. IsSequence(t) /\ ToSet(t) = {Header}
  <2>1. IsSequence(<<>>) /\ ToSet(<<>>) = {}
    BY EmptyIs
  <2>2. IsSequence(Append(<<>>, Header)) /\ ToSet(Append(<<>>, Header)) = ToSet(<<>>) \cup {Header}
    BY <2>1, AppendIs
  <2>3. t = Append(<<>>, Header)
    BY <1>5
  <2> HIDE DEF t
  <2> QED BY <2>1, <2>2, <2>3
<1> HIDE DEF new, t
<1>8. new.form = "jrman" /\ new.lines = t /\ new.whole = TRUE
  BY <1>6
<1>9. IsText(new)
  <2>1. ~(Header.is = "entry")
    BY DEF Header
  <2> QED BY <1>6, <1>7, <1>8, <2>1 DEF IsText, IsSequence
<1>10. Body(t) = <<>>
  BY <1>5 DEF Body
<1>11. Plain(new, <<>>, TRUE)
  BY <1>3, <1>5, <1>8, <1>9, <1>10, EmptyIs DEF Plain, AllGood
<1> QED BY <1>1, <1>4, <1>8, <1>11 DEF new

\* What is read are entries that undump takes.
LEMMA ReadGood ==
    ASSUME NEW s, IsSequence(s), \A line \in ToSet(s) : line.is = "entry" => IsEntry(line.file)
    PROVE  \A e \in ToSet(Entries(s).entries) : IsEntry(e) /\ Undumps(e)
<1> DEFINE r == Entries(s).entries
<1>1. /\ IsSequence(r) /\ Len(r) \in 0 .. Len(s) /\ AllGood(s, Len(r))
      /\ \A i \in 1 .. Len(r) : r[i] = s[i].file
  BY EntriesAre
<1> HIDE DEF r
<1>2. DOMAIN r = 1 .. Len(r) /\ Len(s) \in Nat /\ \A i \in 1 .. Len(s) : s[i] \in ToSet(s)
  BY <1>1, SequenceIs DEF IsSequence
<1>3. ASSUME NEW e \in ToSet(r) PROVE IsEntry(e) /\ Undumps(e)
  <2>1. PICK i \in 1 .. Len(r) : e = r[i]
    BY <1>2 DEF ToSet
  <2>2. e = s[i].file /\ Good(s[i])
    BY <1>1, <2>1 DEF AllGood
  <2>3. s[i] \in ToSet(s)
    BY <1>1, <1>2, <2>1
  <2> QED BY <2>2, <2>3 DEF Good
<1> QED BY <1>3 DEF r

\* What is read from a file that was made by writing lines.
LEMMA PlainReads ==
    ASSUME NEW m, m.form = "jrman", NEW given, IsSequence(given), NEW entire, Plain(m, given, entire)
    PROVE  /\ IsSequence(ReadFile(m).entries) /\ IsPrefix(ReadFile(m).entries, given)
           /\ entire => ReadFile(m) = [entries |-> given, ok |-> TRUE]
           /\ ReadFile(m).ok => ReadFile(m).entries = given
           /\ \A e \in ToSet(ReadFile(m).entries) : IsEntry(e) /\ Undumps(e)
<1> DEFINE s == m.lines
<1>1. IsText(m) /\ IsSequence(s) /\ m # Missing
  BY TextIs DEF Plain, Missing
<1>2. CASE s # <<>> /\ s[1] = Header
  <2>1. ReadFile(m) = Entries(Tail(s)) /\ Body(s) = Tail(s)
    <3>1. WithoutHeaders(Tail(s)) = Tail(s)
      BY <1>1, <1>2, NoHeaders DEF Plain
    <3> QED BY <1>1, <1>2, <3>1 DEF ReadFile, ReadJrman, Body
  <2> DEFINE b == Tail(s)
  <2>2. IsSequence(b) /\ ToSet(b) \subseteq ToSet(s) /\ Agrees(b, given)
    BY <1>1, <1>2, <2>1, TailIs DEF Plain
  <2> HIDE DEF b
  <2>3. /\ IsPrefix(Entries(b).entries, given)
        /\ AllGood(b, Len(b)) => Entries(b) = [entries |-> given, ok |-> TRUE]
    BY <2>2, AgreesReads
  <2>4. IsSequence(Entries(b).entries) /\ Entries(b).ok = AllGood(b, Len(b))
    BY <2>2, EntriesAre
  <2>5. entire => AllGood(b, Len(b))
    BY <2>1 DEF Plain, b
  <2>6. \A e \in ToSet(Entries(b).entries) : IsEntry(e) /\ Undumps(e)
    BY <1>1, <2>2, ReadGood DEF IsText
  <2> QED BY <2>1, <2>3, <2>4, <2>5, <2>6 DEF b
<1>3. CASE ~(s # <<>> /\ s[1] = Header)
  <2>1. ReadFile(m) = Nothing /\ ~entire
    BY <1>1, <1>3 DEF ReadFile, Plain
  <2>2. ReadFile(m).entries = <<>> /\ ~ReadFile(m).ok
    BY <2>1 DEF Nothing
  <2>3. IsPrefix(<<>>, given)
    <3>1. Len(given) \in Nat
      BY SequenceIs DEF IsSequence
    <3> QED BY <3>1, EmptyIs, PrefixIs
  <2> QED BY <2>1, <2>2, <2>3, EmptyIs
<1> QED BY <1>2, <1>3

\* A text file that is there at first: what is read of it counts as given.
LEMMA FirstPlain ==
    ASSUME NEW m, m.form = "jrman", IsText(m), AsWritten(m)
    PROVE  /\ Plain(m, ReadFile(m).entries, ReadFile(m).ok)
           /\ IsSequence(ReadFile(m).entries) /\ ReadFile(m).ok \in BOOLEAN
<1> DEFINE s == m.lines
           b == Tail(s)
<1>1. IsSequence(s) /\ s # <<>> /\ s[1] = Header /\ m # Missing /\ Len(s) \in Nat
  BY TextIs DEF AsWritten, Missing
<1>2. ReadFile(m) = Entries(WithoutHeaders(b)) /\ Body(s) = b
  BY <1>1 DEF ReadFile, ReadJrman, Body
<1>3. IsSequence(b) /\ Len(b) = Len(s) - 1 /\ \A i \in 1 .. Len(s) - 1 : b[i] = s[i + 1]
  BY <1>1, TailIs
<1> HIDE DEF b
<1>4. Agrees(b, Entries(b).entries) /\ (Entries(b).ok => AllGood(b, Len(b)))
  BY <1>3, ReadAgrees
<1>5. IsSequence(Entries(b).entries) /\ Entries(b).ok \in BOOLEAN
  BY <1>3, EntriesAre DEF AllGood
<1>6. ASSUME NEW i \in 2 .. Len(s) PROVE s[i] # Header
  <2>1. i - 1 \in 1 .. Len(b) /\ b[i - 1] = s[(i - 1) + 1] /\ (i - 1) + 1 = i
    BY <1>1, <1>3
  <2>2. b[i - 1] \in ToSet(b)
    BY <1>3, <2>1, SequenceIs DEF IsSequence
  <2> QED BY <2>1, <2>2 DEF AsWritten, b
<1>7. WithoutHeaders(b) = b
  BY <1>1, <1>6, NoHeaders DEF b
<1>8. ~m.whole => s[Len(s)] = Torn
  BY DEF AsWritten, Last
<1>9. ASSUME ~m.whole PROVE Agrees(Body(Front(s)), Entries(b).entries)
  <2> DEFINE f == Front(s)
             g == Body(f)
             r == Entries(b).entries
  <2>1. IsSequence(f) /\ s = Append(f, Torn)
    BY <1>1, <1>8, <1>9, FrontIs
  <2> HIDE DEF f
  <2>2. IsSequence(g) /\ b = Append(g, Torn)
    <3>1. Torn # Header
      BY DEF Torn, Header
    <3> QED BY <1>2, <2>1, <3>1, BodyIs
  <2> HIDE DEF g
  <2>3. /\ Len(b) = Len(g) + 1 /\ Len(g) \in Nat /\ b[Len(g) + 1] = Torn
        /\ \A i \in 1 .. Len(g) : b[i] = g[i]
    BY <2>2, AppendIs, SequenceIs DEF IsSequence
  <2>4. \A i \in 1 .. Len(g) : AllGood(b, i) <=> AllGood(g, i)
    BY <2>3 DEF AllGood
  <2>5. Follows(g, r)
    <3>1. Follows(b, r)
      BY <1>4 DEF Agrees
    <3> HIDE DEF r
    <3> QED BY <2>3, <2>4, <3>1 DEF Follows
  <2>6. ASSUME AllGood(g, Len(g)) PROVE Len(g) = Len(r)
    <3>1. ~AllGood(b, Len(b))
      BY <2>3 DEF AllGood, Good, Torn
    <3>2. Len(r) \in 0 .. Len(b) /\ AllGood(b, Len(r)) /\ (Len(r) = Len(b) \/ ~Good(b[Len(r) + 1]))
      BY <1>3, EntriesAre
    <3>3. Len(r) # Len(b)
      BY <3>1, <3>2
    <3>4. ~(Len(r) < Len(g))
      <4> SUFFICES ASSUME Len(r) < Len(g) PROVE FALSE
        OBVIOUS
      <4>1. Len(r) + 1 \in 1 .. Len(g)
        BY <2>3, <3>2
      <4>2. Good(g[Len(r) + 1]) /\ ~Good(b[Len(r) + 1])
        BY <2>6, <3>2, <3>3, <4>1 DEF AllGood
      <4> QED BY <2>3, <4>1, <4>2
    <3> HIDE DEF r
    <3> QED BY <2>3, <3>2, <3>3, <3>4
  <2> QED BY <2>5, <2>6 DEF Agrees, f, g
<1> QED BY <1>1, <1>2, <1>4, <1>5, <1>6, <1>7, <1>8, <1>9 DEF Plain

\* The user compresses a file that was made by writing lines.
LEMMA PlainPacks ==
    ASSUME NEW m, m.form = "jrman", NEW given, IsSequence(given), NEW entire, Plain(m, given, entire)
    PROVE  LET new == [m EXCEPT !.form = "zrman"]
           IN  new.form = "zrman" /\ Packed(new, given, entire)
<1> DEFINE new == [m EXCEPT !.form = "zrman"]
           s == m.lines
           n == Len(s)
<1>1. IsText(m) /\ IsSequence(s) /\ n \in Nat /\ m.whole \in BOOLEAN /\ (~m.whole => s # <<>>)
  BY TextIs DEF Plain
<1>2. new = [form |-> "zrman", lines |-> s, whole |-> m.whole]
  BY <1>1, TextIs
<1> HIDE DEF new
<1>3. new.form = "zrman" /\ new.lines = s /\ new.whole = m.whole
  BY <1>2
<1>4. IsText(new)
  BY <1>1, <1>2, <1>3 DEF IsText
<1>5. CASE m.whole
  <2>1. ReadZrman(new) = Entries(Body(s)) /\ IsSequence(Body(s))
    BY <1>1, <1>3, <1>5, HeadersGone, BodyIs DEF ReadZrman, Plain
  <2>2. /\ IsPrefix(Entries(Body(s)).entries, given)
        /\ AllGood(Body(s), Len(Body(s))) => Entries(Body(s)) = [entries |-> given, ok |-> TRUE]
    BY <2>1, AgreesReads DEF Plain
  <2>3. Entries(Body(s)).ok = AllGood(Body(s), Len(Body(s)))
    BY <2>1, EntriesAre
  <2>4. entire => AllGood(Body(s), Len(Body(s)))
    BY DEF Plain
  <2> HIDE DEF s
  <2>5. Packed(new, given, entire)
    BY <1>3, <1>4, <2>1, <2>2, <2>3, <2>4 DEF Packed
  <2> QED BY <1>3, <2>5 DEF new
<1>6. CASE ~m.whole
  <2> DEFINE f == Front(s)
             b == Body(f)
  <2>1. s # <<>> /\ s[n] = Torn
    BY <1>1, <1>6 DEF Plain
  <2>2. IsSequence(f) /\ Len(f) = n - 1 /\ (\A i \in 1 .. n - 1 : f[i] = s[i]) /\ s = Append(f, Torn)
    BY <1>1, <2>1, FrontIs
  <2> HIDE DEF f
  <2>3. \A i \in 2 .. Len(f) : f[i] # Header
    BY <1>1, <2>2 DEF Plain
  <2>4. IsSequence(b) /\ Body(s) = Append(b, Torn)
    <3>1. Torn # Header
      BY DEF Torn, Header
    <3> QED BY <2>2, <3>1, BodyIs
  <2>5. ReadZrman(new) = Entries(b)
    BY <1>3, <1>6, <2>2, <2>3, HeadersGone DEF ReadZrman, f
  <2> HIDE DEF b, s, n
  <2>6. Agrees(b, given)
    BY <1>6 DEF Plain, b, f, s
  <2>7. IsPrefix(Entries(b).entries, given) /\ (Entries(b).ok => Entries(b).entries = given)
    <3>1. /\ IsPrefix(Entries(b).entries, given)
          /\ AllGood(b, Len(b)) => Entries(b) = [entries |-> given, ok |-> TRUE]
      BY <2>4, <2>6, AgreesReads
    <3>2. Entries(b).ok = AllGood(b, Len(b))
      BY <2>4, EntriesAre
    <3> QED BY <3>1, <3>2
  <2>8. ~entire
    BY <1>1, <2>1, TornIsBad DEF Plain, s, n
  <2> QED BY <1>3, <1>4, <2>5, <2>7, <2>8 DEF Packed, new
<1> QED BY <1>1, <1>5, <1>6

\* What is read from a compressed file.
LEMMA ZrmanReads ==
    ASSUME NEW m, m.form = "zrman", IsText(m)
    PROVE  /\ ReadFile(m) = ReadZrman(m) /\ IsSequence(ReadFile(m).entries) /\ ReadFile(m).ok \in BOOLEAN
           /\ ReadFile(m) = [entries |-> ReadFile(m).entries, ok |-> ReadFile(m).ok]
           /\ \A e \in ToSet(ReadFile(m).entries) : IsEntry(e) /\ Undumps(e)
<1> DEFINE s == m.lines
           f == IF m.whole THEN s ELSE Front(s)
           b == WithoutHeaders(f)
<1>1. IsSequence(s) /\ m # Missing /\ (~m.whole => s # <<>>)
  BY TextIs DEF Missing
<1>2. IsSequence(f) /\ ToSet(f) \subseteq ToSet(s)
  BY <1>1, FrontIs
<1>3. ReadFile(m) = Entries(b) /\ ReadZrman(m) = Entries(b)
  BY <1>1 DEF ReadFile, ReadZrman
<1> HIDE DEF f
<1>4. IsSequence(b) /\ ToSet(b) \subseteq ToSet(s)
  BY <1>2, WithoutHeadersType
<1> HIDE DEF b
<1>5. \A e \in ToSet(Entries(b).entries) : IsEntry(e) /\ Undumps(e)
  BY <1>4, ReadGood DEF IsText
<1>6. /\ IsSequence(Entries(b).entries) /\ Entries(b).ok \in BOOLEAN
      /\ Entries(b) = [entries |-> Entries(b).entries, ok |-> Entries(b).ok]
  BY <1>4, EntriesAre DEF AllGood
<1> QED BY <1>3, <1>5, <1>6

LEMMA FirstPacked ==
    ASSUME NEW m, m.form = "zrman", IsText(m)
    PROVE  Packed(m, ReadFile(m).entries, ReadFile(m).ok)
<1> DEFINE r == ReadFile(m).entries
<1>1. ReadZrman(m) = ReadFile(m) /\ IsSequence(r) /\ ReadFile(m) = [entries |-> r, ok |-> ReadFile(m).ok]
      /\ ReadFile(m).ok \in BOOLEAN
  BY ZrmanReads
<1>2. Len(r) \in Nat
  BY <1>1, SequenceIs DEF IsSequence
<1> HIDE DEF r
<1>3. IsPrefix(r, r)
  BY <1>1, <1>2, PrefixIs
<1> QED BY <1>1, <1>3 DEF Packed, r

-----------------------------------------------------------------------------
(***************************************************************************)
(* Entries that programs read, change and write                            *)
(***************************************************************************)

\* undump takes every entry that is at hand.
AllUndump ==
    /\ \A e \in New : Undumps(e)
    /\ \A f \in First : \A m \in ToSet(f.disk) :
          m.form = "rman" => \A e \in ToSet(ReadRman(m).entries) : Undumps(e)

Sound(e) == IsEntry(e) /\ (AllUndump => Undumps(e))
AreSound(s) == IsSequence(s) /\ \A e \in ToSet(s) : Sound(e)

\* What a program changes of an entry does not make it one that undump refuses.
LEMMA ChangedIsSound ==
    ASSUME NEW e, Sound(e)
    PROVE  /\ \A x : Sound([e EXCEPT !.langs = x]) /\ Sound([e EXCEPT !.places = x])
           /\ \A x : IsSequence(x) => Sound([e EXCEPT !.path = x])
           /\ Sound([e EXCEPT !.stripped = TRUE])
<1>1. "path" \in DOMAIN e /\ "langs" \in DOMAIN e /\ "places" \in DOMAIN e /\ "stripped" \in DOMAIN e
      /\ "data" \in DOMAIN e /\ "fits" \in DOMAIN e /\ "hash" \in DOMAIN e /\ DOMAIN e = Fields
      /\ IsSequence(e.path)
  BY DEF Sound, IsEntry, IsSequence, Fields
<1>2. ASSUME NEW x, IsSequence(x) PROVE Sound([e EXCEPT !.path = x])
  <2> DEFINE c == [e EXCEPT !.path = x]
  <2>1. DOMAIN c = Fields /\ c.stripped = e.stripped /\ c.data = e.data /\ c.fits = e.fits /\ c.hash = e.hash
        /\ IsSequence(c.path)
    BY <1>1, <1>2
  <2> HIDE DEF c
  <2>2. Undumps(e) => Undumps(c)
    BY <2>1 DEF Undumps
  <2> QED BY <2>1, <2>2 DEF Sound, IsEntry, IsSequence, c
<1>3. ASSUME NEW x PROVE Sound([e EXCEPT !.langs = x])
  <2> DEFINE c == [e EXCEPT !.langs = x]
  <2>1. DOMAIN c = Fields /\ c.stripped = e.stripped /\ c.data = e.data /\ c.fits = e.fits /\ c.hash = e.hash
        /\ IsSequence(c.path)
    BY <1>1
  <2> HIDE DEF c
  <2>2. Undumps(e) => Undumps(c)
    BY <2>1 DEF Undumps
  <2> QED BY <2>1, <2>2 DEF Sound, IsEntry, IsSequence, c
<1>4. ASSUME NEW x PROVE Sound([e EXCEPT !.places = x])
  <2> DEFINE c == [e EXCEPT !.places = x]
  <2>1. DOMAIN c = Fields /\ c.stripped = e.stripped /\ c.data = e.data /\ c.fits = e.fits /\ c.hash = e.hash
        /\ IsSequence(c.path)
    BY <1>1
  <2> HIDE DEF c
  <2>2. Undumps(e) => Undumps(c)
    BY <2>1 DEF Undumps
  <2> QED BY <2>1, <2>2 DEF Sound, IsEntry, IsSequence, c
<1>5. Sound([e EXCEPT !.stripped = TRUE])
  <2> DEFINE c == [e EXCEPT !.stripped = TRUE]
  <2>1. DOMAIN c = Fields /\ c.stripped = TRUE /\ IsSequence(c.path)
    BY <1>1
  <2> HIDE DEF c
  <2>2. Undumps(c)
    BY <2>1 DEF Undumps
  <2> QED BY <2>1, <2>2 DEF Sound, IsEntry, IsSequence, c
<1> QED BY <1>2, <1>3, <1>4, <1>5

LEMMA SoundAppends ==
    ASSUME NEW s, AreSound(s), NEW e, Sound(e)
    PROVE  AreSound(Append(s, e))
BY AppendIs DEF AreSound

LEMMA SoundTail ==
    ASSUME NEW s, AreSound(s), s # <<>>
    PROVE  AreSound(Tail(s)) /\ Sound(Head(s))
BY TailIs DEF AreSound

LEMMA SoundEmpty == AreSound(<<>>)
BY EmptyIs DEF AreSound

LEMMA SoundSeq ==
    ASSUME NEW T, \A e \in T : Sound(e), NEW s \in Seq(T)
    PROVE  AreSound(s)
BY SequenceIs DEF AreSound

-----------------------------------------------------------------------------
(***************************************************************************)
(* The release of rman-rads                                                *)
(***************************************************************************)

\* The last place is one of the places, and behind the others.
LEMMA LastIs ==
    ASSUME NEW n \in Nat, NEW I \in SUBSET (1 .. n), I # {}
    PROVE  Max(I) \in I /\ \A k \in I : k <= Max(I)
<1> DEFINE T == {n - i : i \in I}
<1>1. T \subseteq Nat /\ T # {}
  <2>1. \A i \in I : n - i \in Nat
    OBVIOUS
  <2>2. T \subseteq Nat
    BY <2>1
  <2>3. PICK i \in I : TRUE
    OBVIOUS
  <2>4. n - i \in T
    OBVIOUS
  <2> QED BY <2>2, <2>4
<1> HIDE DEF T
<1>2. PICK m \in T : \A k \in T : m <= k
  BY <1>1, LeastNatural
<1> USE DEF T
<1>3. PICK i \in I : m = n - i
  BY <1>2
<1>4. ASSUME NEW k \in I PROVE i >= k
  <2>1. n - k \in T
    OBVIOUS
  <2>2. i \in Nat /\ k \in Nat
    OBVIOUS
  <2> HIDE DEF T
  <2>3. n - i <= n - k
    BY <1>2, <1>3, <2>1
  <2> QED BY <2>2, <2>3
<1>5. Max(I) \in I /\ \A k \in I : Max(I) >= k
  BY <1>4 DEF Max
<1> QED BY <1>5

LEMMA FindFileType ==
    ASSUME NEW path, IsSequence(from)
    PROVE  FindFile(path) \in 0 .. Len(from)
<1> DEFINE n == Len(from)
           I == {i \in 1 .. n : Lowered(from[i].path) = Lowered(path)}
<1>1. n \in Nat
  BY SequenceIs DEF IsSequence
<1>2. FindFile(path) = IF I # {} THEN Max(I) ELSE 0
  BY DEF FindFile, SelectLastInSeq
<1>3. I \in SUBSET (1 .. n)
  OBVIOUS
<1>4. I # {} => Max(I) \in I
  <2> HIDE DEF I, n
  <2> QED BY <1>1, <1>3, LastIs
<1> QED BY <1>1, <1>2, <1>4

\* The folders above a file, step by step.
LEMMA AboveIs ==
    ASSUME NEW raw, Len(raw.folders) \in Nat, NEW file
    PROVE  LET n == Len(raw.folders)
               up == Above(raw, file)
           IN  /\ up[0] = Parent(raw.folders, "files", file)
               /\ \A k \in 1 .. n :
                     up[k] = IF up[k - 1] = 0 THEN 0 ELSE Parent(raw.folders, "folders", up[k - 1])
               /\ \A k \in 0 .. n : up[k] \in 0 .. n /\ (up[k] # 0 => up[k] < n)
<1> DEFINE n == Len(raw.folders)
           S == {i \in 0 .. n : i # 0 => i < n}
           b == Parent(raw.folders, "files", file)
           Up(i) == IF i = 0 THEN 0 ELSE Parent(raw.folders, "folders", i)
           F(g) == [k \in 0 .. n |->
                IF k = 0 THEN Parent(raw.folders, "files", file)
                ELSE IF g[k - 1] = 0 THEN 0 ELSE Parent(raw.folders, "folders", g[k - 1])]
           step == [k \in 1 .. n |-> [i \in S |-> Up(i)]]
           h == CHOOSE h : h = F(h)
<1>1. n \in Nat /\ Above(raw, file) = h
  BY DEF Above
<1>2. ASSUME NEW field, NEW c PROVE Parent(raw.folders, field, c) \in S
  <2> DEFINE I == {i \in 1 .. n : c \in Members(raw.folders[i][field])}
  <2>1. Parent(raw.folders, field, c) = IF I = {} \/ Max(I) = 0 THEN 0 ELSE Max(I) - 1
    BY DEF Parent, SelectLastInSeq
  <2>2. I # {} => Max(I) \in I
    <3>1. I \in SUBSET (1 .. n)
      OBVIOUS
    <3> HIDE DEF I, n
    <3> QED BY <1>1, <3>1, LastIs
  <2>3. I # {} => Max(I) \in 1 .. n
    BY <2>2
  <2> HIDE DEF I, n
  <2> QED BY <1>1, <2>1, <2>3
<1>3. b \in S /\ \A i \in S : Up(i) \in S
  <2>1. 0 \in S
    BY <1>1
  <2> HIDE DEF S
  <2> QED BY <1>2, <2>1
<1> HIDE DEF S, b, h
<1>4. step \in [1 .. n -> [S -> S]] /\ \A k \in 1 .. n, i \in S : step[k][i] = Up(i)
  <2> HIDE DEF Up, n
  <2> QED BY <1>3
<1> HIDE DEF step
<1>5. PICK w \in [0 .. n -> S] : Walk(w, b, step, n)
  <2> HIDE DEF n, Up
  <2> QED BY <1>1, <1>3, <1>4, LoopRuns
<1>6. w[0] = b /\ \A k \in 1 .. n : w[k] = Up(w[k - 1])
  <2>1. ASSUME NEW k \in 1 .. n PROVE k - 1 \in 0 .. n
    BY <1>1
  <2> HIDE DEF n, Up
  <2> QED BY <1>4, <1>5, <2>1 DEF Walk
<1> HIDE DEF n
<1> DEFINE G(g) == [k \in 0 .. n |-> IF k = 0 THEN b ELSE Up(g[k - 1])]
<1>7. \A g : F(g) = G(g)
  BY DEF b
<1> HIDE DEF F, Up
<1>8. w = G(w)
  <2>1. ASSUME NEW k \in 0 .. n PROVE w[k] = G(w)[k]
    <3>1. CASE k = 0
      BY <1>6, <3>1
    <3>2. CASE k # 0
      <4>1. k \in 1 .. n
        BY <1>1, <3>2
      <4> QED BY <1>6, <4>1, <3>2
    <3> QED BY <3>1, <3>2
  <2> QED BY <2>1
<1>9. h = G(h)
  <2>1. h = F(h)
    <3>1. w = F(w)
      <4> HIDE DEF G
      <4> QED BY <1>7, <1>8
    <3> QED BY <3>1 DEF h
  <2> HIDE DEF G
  <2> QED BY <1>7, <2>1
<1>10. h[0] = b /\ \A k \in 1 .. n : h[k] = Up(h[k - 1])
  <2>1. h[0] = b
    <3>1. h[0] = G(h)[0]
      <4> HIDE DEF G
      <4> QED BY <1>9
    <3> QED BY ONLY <1>1, <3>1
  <2>2. ASSUME NEW k \in 1 .. n PROVE h[k] = Up(h[k - 1])
    <3>1. k \in 0 .. n /\ k # 0
      BY <1>1
    <3>2. h[k] = G(h)[k]
      <4> HIDE DEF G
      <4> QED BY <1>9
    <3> QED BY ONLY <3>1, <3>2
  <2> QED BY <2>1, <2>2
<1>11. \A k \in 0 .. n : h[k] \in S
  <2> DEFINE P == {k \in Nat : h[k] \in S}
  <2>1. 0 \in P
    BY <1>3, <1>10
  <2>2. ASSUME NEW k \in 1 .. n, k - 1 \in P PROVE k \in P
    BY <1>1, <1>3, <1>10, <2>2
  <2> HIDE DEF P
  <2>3. \A k \in 0 .. n : k \in P
    BY <1>1, <2>1, <2>2, UpTo
  <2> QED BY <2>3 DEF P
<1>12. \A k \in 1 .. n : h[k] = IF h[k - 1] = 0 THEN 0 ELSE Parent(raw.folders, "folders", h[k - 1])
  BY <1>10 DEF Up
<1> QED BY <1>1, <1>10, <1>11, <1>12 DEF n, b, S

\* The number of folders above a file that is in no circle.
Depth(raw, file) == Min({k \in 0 .. Len(raw.folders) : Above(raw, file)[k] = 0})

LEMMA DepthIs ==
    ASSUME NEW raw, Len(raw.folders) \in Nat, NEW file, ~Circular(raw, file)
    PROVE  /\ Depth(raw, file) \in 0 .. Len(raw.folders) /\ Above(raw, file)[Depth(raw, file)] = 0
           /\ \A k \in 0 .. Depth(raw, file) - 1 : Above(raw, file)[k] # 0
<1> DEFINE n == Len(raw.folders)
           T == {k \in 0 .. n : Above(raw, file)[k] = 0}
<1>1. n \in T /\ T \subseteq Nat
  BY DEF Circular
<1>2. PICK m \in T : \A k \in T : m <= k
  <2> HIDE DEF T
  <2> QED BY <1>1, LeastNatural
<1>3. Min(T) \in T /\ \A k \in T : Min(T) <= k
  BY <1>2 DEF Min
<1>4. Depth(raw, file) = Min(T)
  BY DEF Depth
<1>5. ASSUME NEW k \in 0 .. Min(T) - 1 PROVE k \notin T /\ k \in 0 .. n
  <2>1. Min(T) \in 0 .. n
    BY <1>3
  <2> HIDE DEF T
  <2>2. k \in 0 .. n /\ ~(Min(T) <= k)
    BY <2>1
  <2> QED BY <1>3, <2>2
<1>6. \A k \in 0 .. Min(T) - 1 : Above(raw, file)[k] # 0
  BY <1>5
<1>7. Min(T) \in 0 .. n /\ Above(raw, file)[Min(T)] = 0
  BY <1>3
<1> HIDE DEF T
<1> QED BY <1>4, <1>6, <1>7

\* The name of such a file, from the outermost folder.
LEMMA FileNameIs ==
    ASSUME NEW raw, Len(raw.folders) \in Nat, NEW file, ~Circular(raw, file)
    PROVE  LET d == Depth(raw, file)
               name == FileName(raw, file)
           IN  /\ IsSequence(name) /\ Len(name) = d + 1 /\ name[d + 1] = raw.files[file + 1].name
               /\ \A k \in 1 .. d : name[k] = raw.folders[Above(raw, file)[d - k] + 1].name
<1> DEFINE d == Depth(raw, file)
           f == [k \in 1 .. d |-> raw.folders[Above(raw, file)[k - 1] + 1].name]
           s == [k \in 1 .. d |-> f[k]]
<1>1. d \in Nat
  BY DepthIs
<1>2. FileName(raw, file) = Append(Reverse(s), raw.files[file + 1].name)
  BY DEF FileName, Depth
<1>3. \A k \in 1 .. d : f[k] = raw.folders[Above(raw, file)[k - 1] + 1].name
  OBVIOUS
<1> HIDE DEF d, f
<1>4. IsSequence(s) /\ Len(s) = d /\ \A k \in 1 .. d : s[k] = f[k]
  BY <1>1, FunctionIs
<1> HIDE DEF s
<1>5. /\ IsSequence(Reverse(s)) /\ Len(Reverse(s)) = d
      /\ \A k \in 1 .. d : Reverse(s)[k] = s[(d - k) + 1]
  BY <1>4, ReverseIs
<1> DEFINE q == Append(Reverse(s), raw.files[file + 1].name)
<1>6. /\ IsSequence(q) /\ Len(q) = d + 1 /\ q[d + 1] = raw.files[file + 1].name
      /\ \A k \in 1 .. d : q[k] = Reverse(s)[k]
  BY <1>5, AppendIs
<1> HIDE DEF q
<1>7. ASSUME NEW k \in 1 .. d PROVE q[k] = raw.folders[Above(raw, file)[d - k] + 1].name
  <2>1. (d - k) + 1 \in 1 .. d /\ ((d - k) + 1) - 1 = d - k
    BY <1>1
  <2> QED BY <1>3, <1>4, <1>5, <1>6, <2>1
<1> QED BY <1>2, <1>6, <1>7 DEF d, q

\* The files that a release manifest lists are a sequence, and so are the projects.
LEMMA ContentsRead ==
    ASSUME NEW path
    PROVE  /\ IsSequence(ReadRls(ReadContent(path)).files)
           /\ \A file \in ToSet(ReadRls(ReadContent(path)).files) : IsSequence(file.name)
           /\ IsSequence(ReadSln(ReadContent(path)).projects)
<1> DEFINE raw == ReadContent(path)
<1>1. raw = NoContent \/ \E data \in DOMAIN Contents : raw = Contents[data]
  BY DEF ReadContent
<1> HIDE DEF raw
<1>2. /\ raw.is = "rls" => raw.files \in Seq(ToSet(raw.files)) /\ Len(raw.folders) \in Nat
      /\ raw.is = "sln" => raw.projects \in Seq(ToSet(raw.projects))
  <2>1. CASE raw = NoContent
    BY <2>1 DEF NoContent
  <2>2. CASE \E data \in DOMAIN Contents : raw = Contents[data]
    BY <2>2, ContentsAssumption
  <2> QED BY <1>1, <2>1, <2>2
<1>3. IsSequence(ReadRls(raw).files) /\ \A file \in ToSet(ReadRls(raw).files) : IsSequence(file.name)
  <2>1. CASE raw.is = "rls" /\ RlsOk(raw)
    <3> DEFINE s == raw.files
               r == [i \in DOMAIN s |-> [name |-> FileName(raw, i - 1), version |-> s[i].version]]
    <3>1. ReadRls(raw).files = r
      BY <2>1 DEF ReadRls
    <3>2. Len(s) \in Nat /\ DOMAIN s = 1 .. Len(s)
      BY <1>2, <2>1
    <3>3. ASSUME NEW i \in DOMAIN s PROVE IsSequence(r[i].name)
      <4>1. ~Circular(raw, i - 1)
        BY <2>1 DEF RlsOk
      <4>2. IsSequence(FileName(raw, i - 1))
        BY <1>2, <2>1, <4>1, FileNameIs
      <4> QED BY <4>2
    <3>4. DOMAIN r = DOMAIN s
      OBVIOUS
    <3> HIDE DEF s
    <3>5. r \in Seq({r[i] : i \in DOMAIN s})
      BY <3>2
    <3> HIDE DEF r
    <3> QED BY <3>1, <3>3, <3>4, <3>5, SequenceIs DEF ToSet
  <2>2. CASE ~(raw.is = "rls" /\ RlsOk(raw))
    <3>1. ReadRls(raw).files = <<>>
      BY <2>2 DEF ReadRls, NoRelease
    <3>2. \A file \in ToSet(<<>>) : IsSequence(file.name)
      BY EmptyIs
    <3> QED BY <3>1, <3>2, EmptyIs
  <2> QED BY <2>1, <2>2
<1>4. IsSequence(ReadSln(raw).projects)
  <2>1. CASE raw.is = "sln" /\ SlnOk(raw)
    <3> DEFINE s == raw.projects
               F(i) == [name |-> s[i].name, version |-> s[i].version, langs |-> LangsOf(raw, s[i].name)]
               r == [i \in DOMAIN s |-> F(i)]
    <3>1. ReadSln(raw).projects = r
      BY <2>1 DEF ReadSln
    <3>2. Len(s) \in Nat /\ DOMAIN s = 1 .. Len(s)
      BY <1>2, <2>1
    <3> HIDE DEF s, F
    <3>3. r \in Seq({r[i] : i \in DOMAIN s})
      BY <3>2
    <3> HIDE DEF r
    <3> QED BY <3>1, <3>3, SequenceIs
  <2>2. CASE ~(raw.is = "sln" /\ SlnOk(raw))
    <3>1. ReadSln(raw).projects = <<>>
      BY <2>2 DEF ReadSln, NoSolution
    <3> QED BY <3>1, EmptyIs
  <2> QED BY <2>1, <2>2
<1> QED BY <1>3, <1>4 DEF raw

\* Where process_rls finds a file of the project, and what it takes for it.
FilesOf(path) == ReadRls(ReadContent(path)).files
PlaceOf(path, file) == FindFile(FilePath(Before(path, Projects), ReadRls(ReadContent(path)).name, file))
NamedBy(path, file) == [from[PlaceOf(path, file)] EXCEPT !.path = file.name]
FoundBy(path, n) == {NamedBy(path, FilesOf(path)[i]) : i \in {i \in 1 .. n : PlaceOf(path, FilesOf(path)[i]) # 0}}

\* It takes all that it finds.
LEMMA RlsFinds ==
    ASSUME NEW path
    PROVE  IsSequence(ProcessRls(path)) /\ ToSet(ProcessRls(path)) = FoundBy(path, Len(FilesOf(path)))
<1> DEFINE s == FilesOf(path)
           n == Len(s)
           Place(i) == PlaceOf(path, s[i])
           Named(i) == NamedBy(path, s[i])
           T == FoundBy(path, n)
           S == Seq(T)
           Step(v, i) == IF Place(i) = 0 THEN v ELSE Append(v, Named(i))
           F(g) == [i \in 0 .. n |->
                      IF i = 0 THEN <<>>
                      ELSE IF Place(i) = 0 THEN g[i - 1]
                      ELSE Append(g[i - 1], Named(i))]
           step == [i \in 1 .. n |-> [v \in S |-> Step(v, i)]]
           h == CHOOSE h : h = F(h)
<1>1. n \in Nat
  BY ContentsRead, SequenceIs DEF IsSequence, FilesOf
<1>2. ProcessRls(path) = h[n]
  BY DEF ProcessRls, FilesOf, PlaceOf, NamedBy
<1>3. \A k : FoundBy(path, k) = {Named(i) : i \in {i \in 1 .. k : Place(i) # 0}}
  BY DEF FoundBy
<1> HIDE DEF Place, Named, s
<1>4. ASSUME NEW i \in 1 .. n, NEW v \in S PROVE Step(v, i) \in S
  <2>1. Place(i) # 0 => Named(i) \in T
    BY <1>3
  <2> HIDE DEF T, n
  <2> QED BY <2>1
<1>5. <<>> \in S
  OBVIOUS
<1> HIDE DEF S, Step, n, h
<1>6. step \in [1 .. n -> [S -> S]] /\ \A i \in 1 .. n, v \in S : step[i][v] = Step(v, i)
  BY <1>4
<1> HIDE DEF step
<1>7. PICK w \in [0 .. n -> S] : Walk(w, <<>>, step, n)
  BY <1>1, <1>5, <1>6, LoopRuns
<1>8. w[0] = <<>> /\ \A i \in 1 .. n : w[i] = Step(w[i - 1], i)
  <2>1. ASSUME NEW i \in 1 .. n PROVE i - 1 \in 0 .. n
    BY <1>1
  <2> QED BY <1>6, <1>7, <2>1 DEF Walk
<1>9. w = F(w)
  <2>1. ASSUME NEW i \in 0 .. n PROVE w[i] = F(w)[i]
    <3>1. CASE i = 0
      BY <1>8, <3>1
    <3>2. CASE i # 0
      <4>1. i \in 1 .. n
        BY <1>1, <3>2
      <4> QED BY <1>8, <4>1, <3>2 DEF Step
    <3> QED BY <3>1, <3>2
  <2> QED BY <2>1
<1>10. h = F(h)
  <2> HIDE DEF F
  <2> QED BY <1>9 DEF h
<1>11. h[0] = <<>> /\ \A i \in 1 .. n : h[i] = Step(h[i - 1], i)
  <2>1. h[0] = <<>>
    BY <1>1, <1>10
  <2>2. ASSUME NEW i \in 1 .. n PROVE h[i] = Step(h[i - 1], i)
    <3>1. i \in 0 .. n /\ i # 0
      BY <1>1
    <3>2. h[i] = F(h)[i]
      <4> HIDE DEF F
      <4> QED BY <1>10
    <3> QED BY ONLY <3>1, <3>2 DEF Step
  <2> QED BY <2>1, <2>2
<1> HIDE DEF F, T
<1> DEFINE P == {k \in Nat : IsSequence(h[k]) /\ ToSet(h[k]) = FoundBy(path, k)}
<1>12. 0 \in P
  <2>1. FoundBy(path, 0) = {}
    <3>1. 1 .. 0 = {}
      OBVIOUS
    <3> QED BY <3>1 DEF FoundBy
  <2> QED BY <1>11, <2>1, EmptyIs
<1>13. ASSUME NEW k \in 1 .. n, k - 1 \in P PROVE k \in P
  <2>1. k \in Nat /\ 1 .. k = 1 .. k - 1 \cup {k}
    BY <1>1
  <2>2. IsSequence(h[k - 1]) /\ ToSet(h[k - 1]) = FoundBy(path, k - 1)
    BY <1>13
  <2>3. FoundBy(path, k) = IF Place(k) = 0 THEN FoundBy(path, k - 1) ELSE FoundBy(path, k - 1) \cup {Named(k)}
    <3> DEFINE I(j) == {i \in 1 .. j : Place(i) # 0}
    <3>1. I(k) = IF Place(k) = 0 THEN I(k - 1) ELSE I(k - 1) \cup {k}
      BY <2>1
    <3>2. \A j : FoundBy(path, j) = {Named(i) : i \in I(j)}
      BY <1>3
    <3> HIDE DEF I
    <3>3. FoundBy(path, k - 1) = {Named(i) : i \in I(k - 1)} /\ FoundBy(path, k) = {Named(i) : i \in I(k)}
      BY <3>2
    <3>4. CASE Place(k) = 0
      BY <3>1, <3>3, <3>4
    <3>5. CASE Place(k) # 0
      <4>1. I(k) = I(k - 1) \cup {k}
        BY <3>1, <3>5
      <4> QED BY ONLY <3>3, <3>5, <4>1
    <3> QED BY <3>4, <3>5
  <2>4. h[k] = IF Place(k) = 0 THEN h[k - 1] ELSE Append(h[k - 1], Named(k))
    BY <1>11 DEF Step
  <2>5. PICK g, e : g = h[k - 1] /\ e = Named(k)
    OBVIOUS
  <2>6. IsSequence(Append(g, e)) /\ ToSet(Append(g, e)) = ToSet(g) \cup {e}
    BY <2>2, <2>5, AppendIs
  <2>7. CASE Place(k) = 0
    BY <2>1, <2>2, <2>3, <2>4, <2>7
  <2>8. CASE Place(k) # 0
    <3>1. h[k] = Append(g, e) /\ ToSet(g) \cup {e} = FoundBy(path, k)
      BY <2>2, <2>3, <2>4, <2>5, <2>8
    <3> QED BY ONLY <2>1, <2>6, <3>1
  <2> QED BY <2>7, <2>8
<1>14. n \in P
  <2> HIDE DEF P
  <2>1. \A k \in 0 .. n : k \in P
    BY <1>1, <1>12, <1>13, UpTo
  <2> QED BY <1>1, <2>1
<1> QED BY <1>2, <1>14 DEF n, s

\* The files that process_rls finds are entries of the input under other names.
LEMMA RlsSound ==
    ASSUME NEW path, AreSound(from)
    PROVE  AreSound(ProcessRls(path))
<1>1. PICK s, n : s = FilesOf(path) /\ n = Len(s)
  OBVIOUS
<1>2. IsSequence(ProcessRls(path)) /\ ToSet(ProcessRls(path)) = FoundBy(path, n)
  BY <1>1, RlsFinds
<1>3. ASSUME NEW e \in FoundBy(path, n) PROVE Sound(e)
  <2>1. PICK i \in 1 .. n : PlaceOf(path, s[i]) # 0 /\ e = NamedBy(path, s[i])
    BY <1>1 DEF FoundBy
  <2>2. PICK k : k = PlaceOf(path, s[i]) /\ e = [from[k] EXCEPT !.path = s[i].name]
    BY <2>1 DEF NamedBy
  <2>3. k \in 0 .. Len(from) /\ Len(from) \in Nat
    BY <2>2, FindFileType, SequenceIs DEF PlaceOf, AreSound, IsSequence
  <2>4. k \in 1 .. Len(from)
    BY <2>1, <2>2, <2>3
  <2>5. Sound(from[k])
    BY <2>4, SequenceIs DEF AreSound, IsSequence
  <2>6. IsSequence(s[i].name)
    <3>1. s[i] \in ToSet(s)
      BY <1>1, ContentsRead, SequenceIs DEF FilesOf, IsSequence
    <3> QED BY <1>1, <3>1, ContentsRead DEF FilesOf
  <2> QED BY <2>2, <2>5, <2>6, ChangedIsSound
<1> QED BY <1>2, <1>3 DEF AreSound

\* The sequences up to each, one behind the other.
Joins(w, seqs, n) ==
    /\ w[0] = <<>> /\ \A i \in 1 .. n : w[i] = w[i - 1] \o seqs[i]
    /\ FlattenSeq(seqs) = w[n]

LEMMA FlattenIs ==
    ASSUME NEW T, NEW n \in Nat, NEW seqs \in [1 .. n -> Seq(T)]
    PROVE  \E w \in [0 .. n -> Seq(T)] : Joins(w, seqs, n)
<1> DEFINE S == Seq(T)
           F(g) == [i \in 1 .. Len(seqs) |-> IF i = 1 THEN seqs[i] ELSE g[i - 1] \o seqs[i]]
           h == CHOOSE h : h = F(h)
           step == [i \in 1 .. n |-> [v \in S |-> v \o seqs[i]]]
<1>1. Len(seqs) = n
  OBVIOUS
<1>2. FlattenSeq(seqs) = IF Len(seqs) = 0 THEN seqs ELSE h[Len(seqs)]
  BY DEF FlattenSeq
<1>3. PICK w \in [0 .. n -> S] : w[0] = <<>> /\ \A i \in 1 .. n : w[i] = w[i - 1] \o seqs[i]
  <2>1. step \in [1 .. n -> [S -> S]] /\ \A i \in 1 .. n, v \in S : step[i][v] = v \o seqs[i]
    OBVIOUS
  <2>2. <<>> \in S
    OBVIOUS
  <2> HIDE DEF step, S
  <2>3. PICK w \in [0 .. n -> S] : Walk(w, <<>>, step, n)
    BY <2>1, <2>2, LoopRuns
  <2>4. w[0] = <<>> /\ \A i \in 1 .. n : w[i] = w[i - 1] \o seqs[i]
    <3>1. ASSUME NEW i \in 1 .. n PROVE i - 1 \in 0 .. n
      OBVIOUS
    <3> QED BY <2>1, <2>3, <3>1 DEF Walk
  <2> QED BY <2>4
<1>4. CASE n = 0
  <2>1. seqs = <<>>
    BY <1>4
  <2> QED BY <1>1, <1>2, <1>3, <1>4, <2>1 DEF Joins
<1>5. CASE n # 0
  <2> DEFINE v == [i \in 1 .. n |-> w[i]]
  <2>1. v = F(v)
    <3>1. ASSUME NEW i \in 1 .. n PROVE v[i] = F(v)[i]
      <4>1. CASE i = 1
        <5>1. 1 \in 1 .. n /\ 1 - 1 = 0
          BY <4>1
        <5>2. w[1] = w[0] \o seqs[1]
          BY <1>3, <5>1
        <5>3. w[1] = <<>> \o seqs[1] /\ seqs[1] \in Seq(T)
          BY <1>3, <5>1, <5>2
        <5> QED BY <1>1, <4>1, <5>1, <5>3
      <4>2. CASE i # 1
        <5>1. i - 1 \in 1 .. n
          BY <4>2
        <5> QED BY <1>1, <1>3, <4>2, <5>1
      <4> QED BY <4>1, <4>2
    <3> QED BY <1>1, <3>1
  <2> HIDE DEF v, h
  <2>2. h = F(h)
    <3> HIDE DEF F
    <3> QED BY <2>1 DEF h
  <2>3. \A i \in 1 .. n : h[i] = IF i = 1 THEN seqs[i] ELSE h[i - 1] \o seqs[i]
    BY <1>1, <2>2
  <2> DEFINE P == {i \in Nat : i = 0 \/ h[i] = w[i]}
  <2>4. \A i \in 1 .. n : i - 1 \in P => i \in P
    <3> SUFFICES ASSUME NEW i \in 1 .. n, i - 1 \in P PROVE h[i] = w[i]
      OBVIOUS
    <3>1. w[i] = w[i - 1] \o seqs[i]
      BY <1>3
    <3>2. CASE i = 1
      <4>1. w[i - 1] = <<>> /\ seqs[i] \in Seq(T)
        BY <1>3, <3>2
      <4>2. w[i] = seqs[i]
        BY <3>1, <4>1
      <4> QED BY <2>3, <3>2, <4>2
    <3>3. CASE i # 1
      <4>1. h[i - 1] = w[i - 1]
        BY <3>3
      <4> QED BY <2>3, <3>1, <3>3, <4>1
    <3> QED BY <3>2, <3>3
  <2>5. 0 \in P
    OBVIOUS
  <2> HIDE DEF P
  <2>6. \A i \in 0 .. n : i \in P
    BY <2>4, <2>5, UpTo
  <2>7. n \in P
    BY <2>6
  <2> QED BY <1>1, <1>2, <1>3, <1>5, <2>7 DEF P, Joins
<1> QED BY <1>4, <1>5

LEMMA FlattenType ==
    ASSUME NEW T, NEW n \in Nat, NEW seqs \in [1 .. n -> Seq(T)]
    PROVE  FlattenSeq(seqs) \in Seq(T)
<1>1. PICK w \in [0 .. n -> Seq(T)] : Joins(w, seqs, n)
  BY FlattenIs
<1>2. FlattenSeq(seqs) = w[n]
  BY <1>1 DEF Joins
<1> QED BY <1>2

\* What is in them.
AllOf(seqs, n) == UNION {ToSet(seqs[i]) : i \in 1 .. n}

LEMMA FlattenGives ==
    ASSUME NEW T, NEW n \in Nat, NEW seqs \in [1 .. n -> Seq(T)]
    PROVE  IsSequence(FlattenSeq(seqs)) /\ ToSet(FlattenSeq(seqs)) = AllOf(seqs, n)
<1>1. PICK w \in [0 .. n -> Seq(T)] : Joins(w, seqs, n)
  BY FlattenIs
<1> DEFINE P == {k \in Nat : IsSequence(w[k]) /\ ToSet(w[k]) = AllOf(seqs, k)}
<1>2. 0 \in P
  <2>1. AllOf(seqs, 0) = {}
    <3>1. 1 .. 0 = {}
      OBVIOUS
    <3> QED BY <3>1 DEF AllOf
  <2> QED BY <1>1, <2>1, EmptyIs DEF Joins
<1>3. ASSUME NEW k \in 1 .. n, k - 1 \in P PROVE k \in P
  <2>1. k \in Nat /\ 1 .. k = 1 .. k - 1 \cup {k}
    OBVIOUS
  <2>2. AllOf(seqs, k) = AllOf(seqs, k - 1) \cup ToSet(seqs[k])
    BY <2>1 DEF AllOf
  <2>3. IsSequence(w[k - 1]) /\ ToSet(w[k - 1]) = AllOf(seqs, k - 1)
    BY <1>3
  <2>4. w[k] = w[k - 1] \o seqs[k]
    BY <1>1 DEF Joins
  <2>5. IsSequence(seqs[k])
    BY SequenceIs
  <2>6. PICK s, t : s = w[k - 1] /\ t = seqs[k] /\ IsSequence(s) /\ IsSequence(t)
    BY <2>3, <2>5
  <2>7. IsSequence(s \o t) /\ ToSet(s \o t) = ToSet(s) \cup ToSet(t)
    BY <2>6, ConcatIs
  <2> QED BY <2>1, <2>2, <2>3, <2>4, <2>6, <2>7
<1>4. n \in P
  <2> HIDE DEF P
  <2>1. \A k \in 0 .. n : k \in P
    BY <1>2, <1>3, UpTo
  <2> QED BY <2>1
<1> QED BY <1>1, <1>4 DEF Joins

\* Where each sequence begins, and the end.
StartsAt(at, seqs, n) ==
    /\ at \in [1 .. n + 1 -> Nat] /\ at[1] = 0 /\ at[n + 1] = Len(FlattenSeq(seqs))
    /\ \A i \in 1 .. n : at[i + 1] = at[i] + Len(seqs[i]) /\ at[i + 1] <= Len(FlattenSeq(seqs))
    /\ \A i \in 1 .. n : \A k \in 1 .. Len(seqs[i]) : FlattenSeq(seqs)[at[i] + k] = seqs[i][k]

LEMMA FlattenStarts ==
    ASSUME NEW T, NEW n \in Nat, NEW seqs \in [1 .. n -> Seq(T)]
    PROVE  \E at : StartsAt(at, seqs, n)
<1>1. PICK w \in [0 .. n -> Seq(T)] : Joins(w, seqs, n)
  BY FlattenIs
<1> DEFINE all == FlattenSeq(seqs)
           Grown(i, j) == Len(w[i]) <= Len(w[j]) /\ \A k \in 1 .. Len(w[i]) : w[j][k] = w[i][k]
           P == {j \in Nat : \A i \in 0 .. j : Grown(i, j)}
           at == [i \in 1 .. n + 1 |-> Len(w[i - 1])]
<1>2. all = w[n] /\ w[0] = <<>>
  BY <1>1 DEF Joins
<1>3. ASSUME NEW i \in 1 .. n
      PROVE  /\ w[i] \in Seq(T) /\ w[i - 1] \in Seq(T) /\ seqs[i] \in Seq(T) /\ Len(w[i]) = Len(w[i - 1]) + Len(seqs[i])
             /\ \A k \in 1 .. Len(w[i - 1]) : w[i][k] = w[i - 1][k]
             /\ \A k \in 1 .. Len(seqs[i]) : w[i][Len(w[i - 1]) + k] = seqs[i][k]
  <2>1. i \in 0 .. n /\ i - 1 \in 0 .. n
    OBVIOUS
  <2>2. w[i] \in Seq(T) /\ w[i - 1] \in Seq(T) /\ seqs[i] \in Seq(T) /\ w[i] = w[i - 1] \o seqs[i]
    BY <1>1, <2>1 DEF Joins
  <2> QED BY <2>2, ConcatProperties
<1>4. \A i \in 0 .. n : w[i] \in Seq(T) /\ Len(w[i]) \in Nat
  OBVIOUS
<1>5. 0 \in P
  <2>1. Grown(0, 0)
    BY <1>4
  <2>2. \A i \in 0 .. 0 : i = 0
    OBVIOUS
  <2> HIDE DEF Grown
  <2> QED BY <2>1, <2>2
<1>6. ASSUME NEW j \in 1 .. n, j - 1 \in P PROVE j \in P
  <2> SUFFICES ASSUME NEW i \in 0 .. j PROVE Grown(i, j)
    OBVIOUS
  <2>1. CASE i = j
    BY <1>4, <2>1
  <2>2. CASE i # j
    <3>1. i \in 0 .. j - 1 /\ i \in 0 .. n /\ j \in 0 .. n /\ j - 1 \in 0 .. n
      BY <2>2
    <3>2. Grown(i, j - 1)
      <4> HIDE DEF Grown
      <4> QED BY <1>6, <3>1
    <3>3. Len(w[i]) \in Nat /\ Len(w[j]) \in Nat /\ Len(w[j - 1]) \in Nat /\ Len(seqs[j]) \in Nat
      BY <1>3, <1>4, <3>1
    <3>4. Len(w[j]) = Len(w[j - 1]) + Len(seqs[j]) /\ \A k \in 1 .. Len(w[j - 1]) : w[j][k] = w[j - 1][k]
      BY <1>3
    <3>5. Len(w[i]) <= Len(w[j])
      BY <3>2, <3>3, <3>4
    <3>6. \A k \in 1 .. Len(w[i]) : k \in 1 .. Len(w[j - 1])
      BY <3>2, <3>3
    <3> QED BY <3>2, <3>4, <3>5, <3>6
  <2> QED BY <2>1, <2>2
<1>7. \A i \in 0 .. n : Grown(i, n)
  <2> HIDE DEF P, Grown
  <2>1. \A j \in 0 .. n : j \in P
    BY <1>5, <1>6, UpTo
  <2>2. n \in P
    BY <2>1
  <2> QED BY <2>2 DEF P
<1>8. /\ at \in [1 .. n + 1 -> Nat] /\ at[1] = 0 /\ at[n + 1] = Len(all)
      /\ \A i \in 1 .. n : at[i] = Len(w[i - 1]) /\ at[i + 1] = Len(w[i])
  <2>1. \A i \in 1 .. n + 1 : i - 1 \in 0 .. n
    OBVIOUS
  <2>2. at \in [1 .. n + 1 -> Nat]
    BY <1>4, <2>1
  <2>3. at[1] = Len(w[0]) /\ at[n + 1] = Len(w[n])
    <3>1. 1 \in 1 .. n + 1 /\ n + 1 \in 1 .. n + 1 /\ 1 - 1 = 0 /\ (n + 1) - 1 = n
      OBVIOUS
    <3> QED BY <3>1
  <2>4. ASSUME NEW i \in 1 .. n PROVE at[i] = Len(w[i - 1]) /\ at[i + 1] = Len(w[i])
    <3>1. i \in 1 .. n + 1 /\ i + 1 \in 1 .. n + 1 /\ (i + 1) - 1 = i
      OBVIOUS
    <3> QED BY <3>1
  <2> HIDE DEF at
  <2> QED BY <1>2, <2>2, <2>3, <2>4, EmptyIs
<1> HIDE DEF at, all
<1>9. ASSUME NEW i \in 1 .. n
      PROVE  at[i + 1] = at[i] + Len(seqs[i]) /\ at[i + 1] <= Len(all)
  <2>1. i \in 0 .. n
    OBVIOUS
  <2> QED BY <1>2, <1>3, <1>7, <1>8, <2>1
<1>10. ASSUME NEW i \in 1 .. n, NEW k \in 1 .. Len(seqs[i])
       PROVE  all[at[i] + k] = seqs[i][k]
  <2>1. i \in 0 .. n /\ i - 1 \in 0 .. n
    OBVIOUS
  <2>2. w[i][Len(w[i - 1]) + k] = seqs[i][k] /\ Len(w[i]) = Len(w[i - 1]) + Len(seqs[i])
    BY <1>3
  <2>3. Len(w[i - 1]) \in Nat /\ Len(seqs[i]) \in Nat
    BY <1>3, <1>4, <2>1
  <2>4. Len(w[i - 1]) + k \in 1 .. Len(w[i])
    BY <2>2, <2>3
  <2>5. w[n][Len(w[i - 1]) + k] = w[i][Len(w[i - 1]) + k]
    BY <1>7, <2>1, <2>4
  <2> QED BY <1>2, <1>8, <2>2, <2>5
<1>11. StartsAt(at, seqs, n)
  BY <1>8, <1>9, <1>10 DEF StartsAt, all
<1> QED BY <1>11

\* The projects of a solution, and what process_sln takes for the files of one.
ProjectsOf(path) == ReadSln(ReadContent(path)).projects
FilesIn(path, project) == ProcessRls(RlsPath(Before(path, Solutions), project.name, project.version))
InProject(project, e) == [e EXCEPT !.langs = project.langs]
OfProjects(path) ==
    UNION {{InProject(ProjectsOf(path)[i], e) : e \in ToSet(FilesIn(path, ProjectsOf(path)[i]))} :
              i \in 1 .. Len(ProjectsOf(path))}

LEMMA SlnFinds ==
    ASSUME NEW path
    PROVE  IsSequence(ProcessSln(path)) /\ ToSet(ProcessSln(path)) = OfProjects(path)
<1> DEFINE projects == ProjectsOf(path)
           n == Len(projects)
           Of(project) == [k \in DOMAIN FilesIn(path, project) |-> [FilesIn(path, project)[k] EXCEPT !.langs = project.langs]]
           seqs == [i \in DOMAIN projects |-> Of(projects[i])]
           T == OfProjects(path)
<1>1. n \in Nat /\ DOMAIN projects = 1 .. n
  BY ContentsRead, SequenceIs DEF IsSequence, ProjectsOf
<1>2. ProcessSln(path) = FlattenSeq(seqs)
  BY DEF ProcessSln, ProjectsOf, FilesIn
<1> HIDE DEF projects
<1>3. ASSUME NEW i \in 1 .. n
      PROVE  LET files == {InProject(projects[i], e) : e \in ToSet(FilesIn(path, projects[i]))}
             IN  ToSet(Of(projects[i])) = files /\ Of(projects[i]) \in Seq(files)
  <2>1. PICK s, p : s = FilesIn(path, p) /\ p = projects[i]
    OBVIOUS
  <2>2. Len(s) \in Nat /\ DOMAIN s = 1 .. Len(s)
    BY <2>1, RlsFinds, SequenceIs DEF IsSequence, FilesIn
  <2>3. Of(p) = [k \in 1 .. Len(s) |-> InProject(p, s[k])]
    BY <2>1, <2>2 DEF InProject
  <2> DEFINE files == {InProject(p, e) : e \in ToSet(s)}
             o == [k \in 1 .. Len(s) |-> InProject(p, s[k])]
  <2>4. files = {InProject(p, s[k]) : k \in 1 .. Len(s)}
    BY <2>2 DEF ToSet
  <2>5. ToSet(o) = files
    <3>1. DOMAIN o = 1 .. Len(s) /\ \A k \in 1 .. Len(s) : o[k] = InProject(p, s[k])
      OBVIOUS
    <3> HIDE DEF o, files
    <3> QED BY <2>4, <3>1 DEF ToSet
  <2>6. \A k \in 1 .. Len(s) : InProject(p, s[k]) \in files
    BY <2>4
  <2> HIDE DEF files
  <2>7. o \in Seq(files)
    BY <2>2, <2>6
  <2> HIDE DEF o, Of
  <2> QED BY <2>1, <2>3, <2>5, <2>7 DEF o, files
<1>4. T = UNION {ToSet(Of(projects[i])) : i \in 1 .. n}
  BY <1>3 DEF OfProjects, projects
<1>5. ASSUME NEW i \in 1 .. n PROVE Of(projects[i]) \in Seq(T)
  <2> DEFINE files == {InProject(projects[i], e) : e \in ToSet(FilesIn(path, projects[i]))}
  <2>1. ToSet(Of(projects[i])) = files /\ Of(projects[i]) \in Seq(files)
    BY <1>3
  <2> HIDE DEF files, Of
  <2>2. files \subseteq T
    BY <1>4, <2>1
  <2> HIDE DEF T
  <2> QED BY <2>1, <2>2, SeqMonotonic
<1> HIDE DEF T, Of
<1>6. seqs \in [1 .. n -> Seq(T)] /\ \A i \in 1 .. n : seqs[i] = Of(projects[i])
  BY <1>1, <1>5
<1> HIDE DEF seqs, n
<1>7. IsSequence(FlattenSeq(seqs)) /\ ToSet(FlattenSeq(seqs)) = AllOf(seqs, n)
  BY <1>1, <1>6, FlattenGives
<1>8. AllOf(seqs, n) = T
  BY <1>4, <1>6 DEF AllOf
<1> QED BY <1>2, <1>7, <1>8 DEF T

LEMMA SlnSound ==
    ASSUME NEW path, AreSound(from)
    PROVE  AreSound(ProcessSln(path))
<1>1. IsSequence(ProcessSln(path)) /\ ToSet(ProcessSln(path)) = OfProjects(path)
  BY SlnFinds
<1>2. ASSUME NEW e \in OfProjects(path) PROVE Sound(e)
  <2>1. PICK i \in 1 .. Len(ProjectsOf(path)) :
            e \in {InProject(ProjectsOf(path)[i], f) : f \in ToSet(FilesIn(path, ProjectsOf(path)[i]))}
    BY DEF OfProjects
  <2>2. PICK p : p = ProjectsOf(path)[i] /\ e \in {InProject(p, f) : f \in ToSet(FilesIn(path, p))}
    BY <2>1
  <2>3. PICK f \in ToSet(FilesIn(path, p)) : e = InProject(p, f)
    BY <2>2
  <2>4. Sound(f)
    BY RlsSound DEF FilesIn, AreSound
  <2> QED BY <2>3, <2>4, ChangedIsSound DEF InProject
<1> QED BY <1>1, <1>2 DEF AreSound

-----------------------------------------------------------------------------
(***************************************************************************)
(* The inductive invariant                                                 *)
(***************************************************************************)

\* A file, what was given to be written to it, and whether it is sound.
FileInv(m, given, whole) ==
    /\ IsSequence(given) /\ whole \in BOOLEAN
    /\ m.form \in {"none", "rman", "jrman", "zrman"}
    /\ m.form = "none" => m = Missing /\ ~whole
    /\ m.form = "rman" => ~whole /\ \E f \in First : m \in ToSet(f.disk)
    /\ m.form = "jrman" => Plain(m, given, whole /\ AllUndump)
    /\ m.form = "zrman" => Packed(m, given, whole /\ AllUndump)

DiskInv ==
    /\ DOMAIN disk = Name /\ DOMAIN log = Name /\ DOMAIN sound = Name
    /\ \A n \in Name : FileInv(disk[n], log[n], sound[n])

\* The program may call its writer; its output is open.
WritesNow ==
    \/ pc = "header"
    \/ pc \in {"read", "entries", "release"} /\ (Writes(Cli) \/ (Cli.is = "rads" /\ chosen # <<>>))
Opened == Out \in Name /\ disk[Out].form = "jrman"

\* What is appended to is text, or is not there yet.
Appends ==
    pc \in {"open", "read", "entries", "release"} /\ (Writes(Cli) \/ Cli.is = "rads") /\ Cli.append =>
        disk[Out].form \in {"none", "jrman"}

ProgInv ==
    /\ "command" \in DOMAIN prog /\ Cli \in Commands
    /\ pc \in {"none", "open", "header", "read", "entries", "release"}
    /\ pc = "open" => Writes(Cli) \/ Cli.is = "rads"
    /\ pc = "header" => disk[Out] = Empty /\ log[Out] = <<>>
    /\ pc = "release" => Cli.is = "rads"
    /\ WritesNow \/ rest => Opened
    /\ Appends
    /\ rest \in BOOLEAN /\ todo \in Seq(Name)

DataInv ==
    /\ Cli.is # "bl" => AreSound(entries)
    /\ AreSound(from) /\ AreSound(chosen)

IInv == DiskInv /\ ProgInv /\ DataInv

LEMMA PackedLess ==
    ASSUME NEW m, NEW given, NEW entire, Packed(m, given, entire), NEW less, less => entire
    PROVE  Packed(m, given, less)
BY DEF Packed

\* One step up of the walk.
UpFrom(raw, at) ==
    LET dirs == ById(raw.dirs)
        name == Get(dirs[at.dir], "name")
    IN  IF at.dir = 0 \/ Len(at.path) >= MaxPath \/ at.dir \notin DOMAIN dirs THEN at
        ELSE [dir |-> Get(dirs[at.dir], "parent"), path |-> IF name = NoWord THEN at.path ELSE <<name>> \o at.path]

\* The walk from a file up through its directories.
Climbs(w, raw, file) ==
    /\ w[0] = [dir |-> Get(file, "dir"), path |-> <<Get(file, "name")>>]
    /\ \A k \in 1 .. Len(raw.dirs) : w[k] = UpFrom(raw, w[k - 1])
    /\ \A k \in 0 .. Len(raw.dirs) : IsSequence(w[k].path)
    /\ Climb(raw, file) = w[Len(raw.dirs)]

LEMMA ClimbIs ==
    ASSUME NEW raw, Len(raw.dirs) \in Nat, NEW file
    PROVE  \E w : Climbs(w, raw, file)
<1> DEFINE n == Len(raw.dirs)
           dirs == ById(raw.dirs)
           name(d) == Get(dirs[d], "name")
           b == [dir |-> Get(file, "dir"), path |-> <<Get(file, "name")>>]
           Up(at) ==
             IF at.dir = 0 \/ Len(at.path) >= MaxPath \/ at.dir \notin DOMAIN dirs THEN at
             ELSE [dir |-> Get(dirs[at.dir], "parent"),
                   path |-> IF name(at.dir) = NoWord THEN at.path ELSE <<name(at.dir)>> \o at.path]
           D == {Get(file, "dir")} \cup {Get(dirs[d], "parent") : d \in DOMAIN dirs}
           W == {Get(file, "name")} \cup {name(d) : d \in DOMAIN dirs}
           S == [dir : D, path : Seq(W)]
           F(g) == [k \in 0 .. n |->
                IF k = 0 THEN [dir |-> Get(file, "dir"), path |-> <<Get(file, "name")>>]
                ELSE LET at == g[k - 1]
                     IN  IF at.dir = 0 \/ Len(at.path) >= MaxPath \/ at.dir \notin DOMAIN dirs THEN at
                         ELSE [dir |-> Get(dirs[at.dir], "parent"),
                               path |-> IF name(at.dir) = NoWord THEN at.path ELSE <<name(at.dir)>> \o at.path]]
           step == [k \in 1 .. n |-> [at \in S |-> Up(at)]]
           h == CHOOSE h : h = F(h)
<1>1. n \in Nat /\ Climb(raw, file) = h[n]
  BY DEF Climb
<1>2. b \in S
  OBVIOUS
<1>3. ASSUME NEW at \in S PROVE Up(at) \in S
  <2>1. at.dir \in DOMAIN dirs => Get(dirs[at.dir], "parent") \in D /\ name(at.dir) \in W
    OBVIOUS
  <2>2. at.path \in Seq(W) /\ at \in S
    OBVIOUS
  <2> HIDE DEF D, W, name, dirs
  <2>3. at.dir \in DOMAIN dirs => <<name(at.dir)>> \o at.path \in Seq(W)
    BY <2>1, <2>2
  <2> QED BY <2>1, <2>2, <2>3
<1> HIDE DEF S, b, h
<1>4. step \in [1 .. n -> [S -> S]] /\ \A k \in 1 .. n, at \in S : step[k][at] = Up(at)
  <2> HIDE DEF Up, n
  <2> QED BY <1>3
<1> HIDE DEF step
<1>5. PICK w \in [0 .. n -> S] : Walk(w, b, step, n)
  <2> HIDE DEF n
  <2> QED BY <1>1, <1>2, <1>4, LoopRuns
<1>6. w[0] = b /\ \A k \in 1 .. n : w[k] = Up(w[k - 1])
  <2>1. ASSUME NEW k \in 1 .. n PROVE k - 1 \in 0 .. n
    OBVIOUS
  <2> HIDE DEF n, Up
  <2> QED BY <1>4, <1>5, <2>1 DEF Walk
<1> HIDE DEF n
<1> DEFINE G(g) == [k \in 0 .. n |-> IF k = 0 THEN b ELSE Up(g[k - 1])]
<1>7. \A g : F(g) = G(g)
  BY DEF b
<1> HIDE DEF F, Up
<1>8. w = G(w)
  <2>1. ASSUME NEW k \in 0 .. n PROVE w[k] = G(w)[k]
    <3>1. CASE k = 0
      BY <1>6, <3>1
    <3>2. CASE k # 0
      <4>1. k \in 1 .. n
        BY <1>1, <3>2
      <4> QED BY <1>6, <4>1, <3>2
    <3> QED BY <3>1, <3>2
  <2> QED BY <2>1
<1>9. h = G(h)
  <2>1. h = F(h)
    <3>1. w = F(w)
      <4> HIDE DEF G
      <4> QED BY <1>7, <1>8
    <3> QED BY <3>1 DEF h
  <2> HIDE DEF G
  <2> QED BY <1>7, <2>1
<1>10. h[0] = b /\ \A k \in 1 .. n : h[k] = Up(h[k - 1])
  <2>1. h[0] = b
    <3>1. h[0] = G(h)[0]
      <4> HIDE DEF G
      <4> QED BY <1>9
    <3> QED BY ONLY <1>1, <3>1
  <2>2. ASSUME NEW k \in 1 .. n PROVE h[k] = Up(h[k - 1])
    <3>1. k \in 0 .. n /\ k # 0
      BY <1>1
    <3>2. h[k] = G(h)[k]
      <4> HIDE DEF G
      <4> QED BY <1>9
    <3> QED BY ONLY <3>1, <3>2
  <2> QED BY <2>1, <2>2
<1>11. \A k \in 0 .. n : h[k] \in S
  <2> DEFINE P == {k \in Nat : h[k] \in S}
  <2>1. 0 \in P
    BY <1>2, <1>10
  <2>2. ASSUME NEW k \in 1 .. n, k - 1 \in P PROVE k \in P
    BY <1>3, <1>1, <1>10, <2>2
  <2> HIDE DEF P
  <2>3. \A k \in 0 .. n : k \in P
    BY <1>1, <2>1, <2>2, UpTo
  <2> QED BY <2>3 DEF P
<1>12. ASSUME NEW at \in S PROVE IsSequence(at.path)
  <2>1. at.path \in Seq(W)
    BY DEF S
  <2> QED BY <2>1, SequenceIs
<1>13. \A at : Up(at) = UpFrom(raw, at)
  BY DEF Up, UpFrom
<1> QED BY <1>1, <1>10, <1>11, <1>12, <1>13 DEF n, b, Climbs

\* The entries of a binary manifest that is there at first.
LEMMA RmanReads ==
    ASSUME NEW f \in First, NEW m \in ToSet(f.disk), m.form = "rman"
    PROVE  ReadFile(m) = ReadRman(m) /\ AreSound(ReadFile(m).entries)
<1> DEFINE raw == m.raw
           s == raw.files
           rman == Parse(raw)
<1>1. m # Missing /\ s \in Seq(ToSet(s)) /\ Len(raw.dirs) \in Nat
  BY FirstAssumption DEF Missing, HasTables
<1>2. Len(s) \in Nat /\ DOMAIN s = 1 .. Len(s)
  BY <1>1
<1>3. ReadFile(m) = ReadRman(m)
  BY <1>1 DEF ReadFile
<1>4. CASE ~m.whole
  <2>1. ReadRman(m).entries = <<>>
    BY <1>4 DEF ReadRman, Nothing
  <2> QED BY <1>3, <2>1, SoundEmpty
<1>5. CASE m.whole
  <2> DEFINE r == [i \in DOMAIN rman.files |-> Entry(rman.files[i])]
             T == {Entry(rman.files[i]) : i \in DOMAIN rman.files}
  <2>1. ReadRman(m).entries = r
    BY <1>5 DEF ReadRman
  <2>2. \E k \in Nat : DOMAIN rman.files = 1 .. k
    <3>1. CASE rman = Refused
      <4>1. DOMAIN rman.files = 1 .. 0
        BY <3>1 DEF Refused
      <4> QED BY <4>1
    <3>2. CASE rman # Refused
      <4>1. rman.files = [i \in DOMAIN s |-> FileOf(raw, s[i])]
        BY <3>2 DEF Parse
      <4> HIDE DEF rman, s
      <4>2. DOMAIN rman.files = 1 .. Len(s)
        BY <1>2, <4>1
      <4> QED BY <1>2, <4>2
    <3> QED BY <3>1, <3>2
  <2>3. ASSUME NEW i \in DOMAIN rman.files PROVE IsEntry(Entry(rman.files[i]))
    <3>1. rman.files[i] = FileOf(raw, s[i])
      <4>1. rman # Refused
        BY <2>3 DEF Refused
      <4>2. rman.files = [j \in DOMAIN s |-> FileOf(raw, s[j])]
        BY <4>1 DEF Parse
      <4> HIDE DEF rman, s
      <4> QED BY <2>3, <4>2
    <3> DEFINE file == s[i]
    <3>2. PICK w : Climbs(w, raw, file)
      BY <1>1, ClimbIs
    <3> HIDE DEF rman, file
    <3>3. FileOf(raw, file).path = Climb(raw, file).path
      BY DEF FileOf, Path
    <3>4. IsSequence(FileOf(raw, file).path)
      BY <1>1, <3>2, <3>3 DEF Climbs
    <3> QED BY <3>1, <3>4 DEF Entry, IsEntry, Fields, IsSequence, file
  <2> HIDE DEF rman
  <2>4. r \in Seq(T)
    <3>1. PICK k \in Nat : DOMAIN rman.files = 1 .. k
      BY <2>2
    <3> QED BY <3>1
  <2>5. IsSequence(r) /\ ToSet(r) \subseteq T
    BY <2>4, SequenceIs
  <2>6. \A e \in ToSet(r) : IsEntry(e)
    BY <2>3, <2>5
  <2> HIDE DEF r, T
  <2>7. AllUndump => \A e \in ToSet(r) : Undumps(e)
    BY <2>1 DEF AllUndump
  <2> QED BY <1>3, <2>1, <2>5, <2>6, <2>7 DEF AreSound, Sound
<1> QED BY <1>4, <1>5

LEMMA MissingReads == ReadFile(Missing).entries = <<>> /\ ReadFile(Missing).ok = FALSE /\ ~IsRman(Missing)
BY DEF ReadFile, Nothing, IsRman

\* What a program finds of a manifest, while the last one may have left half a line.
LEMMA FileReads ==
    ASSUME NEW m, NEW given, NEW whole, FileInv(m, given, whole)
    PROVE  /\ AreSound(ReadFile(m).entries)
           /\ ~IsRman(m) =>
                IsPrefix(ReadFile(m).entries, given) /\ (ReadFile(m).ok => ReadFile(m).entries = given)
           /\ AllUndump /\ whole => ReadFile(m) = [entries |-> given, ok |-> TRUE]
<1>1. IsSequence(given) /\ whole \in BOOLEAN /\ m.form \in {"none", "rman", "jrman", "zrman"} /\ Len(given) \in Nat
  BY SequenceIs DEF FileInv, IsSequence
<1>2. CASE m.form = "none"
  <2>1. m = Missing /\ ~whole
    BY <1>2 DEF FileInv
  <2>2. IsPrefix(<<>>, given)
    BY <1>1, EmptyIs, PrefixIs
  <2> QED BY <2>1, <2>2, MissingReads, SoundEmpty
<1>3. CASE m.form = "rman"
  <2>1. ~whole /\ \E f \in First : m \in ToSet(f.disk)
    BY <1>3 DEF FileInv
  <2>2. IsRman(m)
    BY <1>3 DEF IsRman, Missing
  <2> QED BY <1>3, <2>1, <2>2, RmanReads
<1>4. CASE m.form = "jrman"
  <2>1. Plain(m, given, whole /\ AllUndump)
    BY <1>4 DEF FileInv
  <2> DEFINE entire == whole /\ AllUndump
  <2> HIDE DEF entire
  <2>2. Plain(m, given, entire)
    BY <2>1 DEF entire
  <2>3. /\ IsSequence(ReadFile(m).entries) /\ IsPrefix(ReadFile(m).entries, given)
        /\ entire => ReadFile(m) = [entries |-> given, ok |-> TRUE]
        /\ ReadFile(m).ok => ReadFile(m).entries = given
        /\ \A e \in ToSet(ReadFile(m).entries) : IsEntry(e) /\ Undumps(e)
    BY <1>1, <1>4, <2>2, PlainReads
  <2> QED BY <2>3 DEF AreSound, Sound, entire
<1>5. CASE m.form = "zrman"
  <2>1. Packed(m, given, whole /\ AllUndump)
    BY <1>5 DEF FileInv
  <2>2. /\ ReadFile(m) = ReadZrman(m) /\ IsSequence(ReadFile(m).entries)
        /\ \A e \in ToSet(ReadFile(m).entries) : IsEntry(e) /\ Undumps(e)
    BY <1>5, <2>1, ZrmanReads DEF Packed
  <2> QED BY <2>1, <2>2 DEF AreSound, Sound, Packed
<1> QED BY <1>1, <1>2, <1>3, <1>4, <1>5

LEMMA FirstFileInv ==
    ASSUME NEW f \in First, NEW m \in ToSet(f.disk)
    PROVE  FileInv(m, ReadFile(m).entries, ~IsRman(m) /\ ReadFile(m).ok)
<1> DEFINE given == ReadFile(m).entries
           ok == ReadFile(m).ok
           whole == ~IsRman(m) /\ ok
<1>1. /\ m.form \in {"none", "rman", "jrman", "zrman"}
      /\ m.form = "none" => m = Missing
      /\ m.form \in {"jrman", "zrman"} => IsText(m)
      /\ m.form = "jrman" => AsWritten(m)
  BY FirstAssumption
<1>2. IsRman(m) <=> m.form = "rman"
  BY DEF IsRman, Missing
<1>3. CASE m.form = "none"
  <2>1. m = Missing /\ given = <<>> /\ ~whole
    BY <1>1, <1>3, MissingReads
  <2> QED BY <1>3, <2>1, EmptyIs DEF FileInv
<1>4. CASE m.form = "rman"
  <2>1. IsSequence(given) /\ ~whole
    BY <1>2, <1>4, RmanReads DEF AreSound
  <2> QED BY <1>4, <2>1 DEF FileInv
<1>5. CASE m.form = "jrman"
  <2>1. Plain(m, given, ok) /\ IsSequence(given) /\ ok \in BOOLEAN
    BY <1>1, <1>5, FirstPlain
  <2> HIDE DEF given, ok
  <2>2. whole \in BOOLEAN /\ Plain(m, given, whole /\ AllUndump)
    BY <2>1 DEF Plain
  <2> QED BY <1>5, <2>1, <2>2 DEF FileInv, given, ok
<1>6. CASE m.form = "zrman"
  <2>1. Packed(m, given, ok) /\ IsSequence(given) /\ ok \in BOOLEAN
    BY <1>1, <1>6, FirstPacked, ZrmanReads
  <2> HIDE DEF given, ok
  <2>2. whole \in BOOLEAN /\ Packed(m, given, whole /\ AllUndump)
    BY <2>1 DEF Packed
  <2> QED BY <1>6, <2>1, <2>2 DEF FileInv, given, ok
<1> QED BY <1>1, <1>3, <1>4, <1>5, <1>6

LEMMA InitIInv == Init => IInv
<1> SUFFICES ASSUME Init PROVE IInv
  OBVIOUS
<1>1. PICK f \in First : disk = f.disk
  BY DEF Init
<1>2. DOMAIN disk = Name /\ \A n \in Name : disk[n] \in ToSet(f.disk)
  BY <1>1, FirstAssumption DEF ToSet
<1>3. /\ log = [n \in Name |-> ReadFile(disk[n]).entries]
      /\ sound = [n \in Name |-> ~IsRman(disk[n]) /\ ReadFile(disk[n]).ok]
  BY DEF Init
<1>4. DiskInv
  BY <1>2, <1>3, FirstFileInv DEF DiskInv
<1>5. "command" \in DOMAIN prog /\ Cli \in Commands
  <2> DEFINE first == CHOOSE c \in Commands : TRUE
  <2>1. first \in Commands
    BY CommandsAssumption
  <2>2. \E l, d : prog = [command |-> first, lists |-> l, dir |-> d, url |-> FALSE, ended |-> "no"]
    BY DEF Init
  <2> HIDE DEF first
  <2> QED BY <2>1, <2>2 DEF Cli
<1>6. ProgInv
  <2>1. pc = "none" /\ todo = <<>> /\ rest = FALSE /\ <<>> \in Seq(Name)
    BY DEF Init
  <2> QED BY <1>5, <2>1 DEF ProgInv, WritesNow, Appends
<1>7. DataInv
  BY SoundEmpty DEF Init, DataInv
<1> QED BY <1>4, <1>6, <1>7 DEF IInv

-----------------------------------------------------------------------------
(***************************************************************************)
(* What a step does to the files                                           *)
(***************************************************************************)

LEMMA OnDiskInv ==
    ASSUME DiskInv, ProgInv, NEW n \in Name
    PROVE  /\ FileInv(OnDisk(n), log[n], sound[n] /\ ~(rest /\ n = Out))
           /\ OnDisk(n).form = disk[n].form
<1>1. FileInv(disk[n], log[n], sound[n]) /\ sound[n] \in BOOLEAN
  BY DEF DiskInv, FileInv
<1>2. CASE rest /\ n = Out
  <2>1. disk[n].form = "jrman" /\ OnDisk(n) = HalfAfter(disk[n])
    BY <1>2 DEF ProgInv, Opened, OnDisk
  <2>2. IsSequence(log[n]) /\ Plain(disk[n], log[n], sound[n] /\ AllUndump)
    BY <1>1, <2>1 DEF FileInv
  <2>3. HalfAfter(disk[n]).form = "jrman" /\ Plain(HalfAfter(disk[n]), log[n], FALSE)
    BY <2>1, <2>2, PlainHalf
  <2>4. Plain(HalfAfter(disk[n]), log[n], FALSE /\ AllUndump)
    BY <2>3 DEF Plain
  <2>5. FileInv(HalfAfter(disk[n]), log[n], FALSE)
    BY <2>2, <2>3, <2>4 DEF FileInv
  <2>6. (sound[n] /\ ~(rest /\ n = Out)) = FALSE
    BY <1>2
  <2> QED BY <2>1, <2>3, <2>5, <2>6
<1>3. CASE ~(rest /\ n = Out)
  <2>1. OnDisk(n) = disk[n] /\ (sound[n] /\ ~(rest /\ n = Out)) = sound[n]
    BY <1>1, <1>3 DEF OnDisk
  <2> QED BY <1>1, <2>1
<1> QED BY <1>2, <1>3

\* A call of the writer that succeeds, and one that fails.
LEMMA WrittenKeeps ==
    ASSUME DiskInv, ProgInv, WritesNow, NEW e, Sound(e), Written(e)
    PROVE  /\ DiskInv' /\ rest' \in BOOLEAN
           /\ \A n \in Name : disk'[n].form = disk[n].form
<1>1. Out \in Name /\ disk[Out].form = "jrman" /\ rest \in BOOLEAN
  BY DEF ProgInv, Opened
<1>2. CASE UNCHANGED <<disk, log, sound>> /\ rest' \in {rest, TRUE}
  BY <1>1, <1>2 DEF DiskInv
<1>3. CASE /\ Succeeds(Line(e)) /\ log' = [log EXCEPT ![Out] = Append(@, Dumped(e))]
           /\ UNCHANGED sound
  <2> DEFINE m == disk[Out]
             given == log[Out]
             file == Dumped(e)
             entire == sound[Out] /\ AllUndump
             new == After(m, Line(e))
  <2>1. IsSequence(given) /\ Plain(m, given, entire) /\ sound[Out] \in BOOLEAN
    BY <1>1 DEF DiskInv, FileInv
  <2>2. Sound(file)
    BY ChangedIsSound DEF Dumped
  <2>3. IsEntry(file) /\ (entire => Undumps(file))
    BY <2>2 DEF Sound
  <2>4. Line(e) = [is |-> "entry", file |-> file]
    BY DEF Line
  <2>5. entire \in BOOLEAN
    OBVIOUS
  <2> HIDE DEF m, given, file, entire
  <2>6. new.form = "jrman" /\ Plain(new, Append(given, file), entire)
    BY <1>1, <2>1, <2>3, <2>4, <2>5, PlainAfter DEF m
  <2>7. IsSequence(Append(given, file))
    BY <2>1, AppendIs
  <2> HIDE DEF new
  <2>8. FileInv(new, Append(given, file), sound[Out])
    BY <2>1, <2>6, <2>7 DEF FileInv, entire
  <2>9. /\ disk' = [disk EXCEPT ![Out] = new] /\ log' = [log EXCEPT ![Out] = Append(given, file)]
        /\ sound' = sound /\ rest' \in {rest, FALSE}
    BY <1>3 DEF Succeeds, new, m, given, file
  <2>10. DiskInv'
    BY <1>1, <2>8, <2>9 DEF DiskInv
  <2>11. \A n \in Name : disk'[n].form = disk[n].form
    BY <1>1, <2>6, <2>9 DEF DiskInv
  <2> QED BY <1>1, <2>9, <2>10, <2>11
<1> QED BY <1>2, <1>3 DEF Written, Fails

\* A program that goes on behind a call of its writer.
LEMMA WriterKeeps ==
    ASSUME DiskInv, ProgInv, WritesNow, NEW e, Sound(e), Written(e),
           UNCHANGED <<prog, pc, todo>>, pc \in {"read", "entries"}
    PROVE  DiskInv' /\ ProgInv'
<1>1. DiskInv' /\ rest' \in BOOLEAN /\ \A n \in Name : disk'[n].form = disk[n].form
  BY WrittenKeeps
<1>2. Out \in Name /\ disk[Out].form = "jrman" /\ Cli' = Cli /\ Out' = Out
  BY DEF ProgInv, Opened, Cli, Out
<1>3. disk'[Out].form = "jrman"
  BY <1>1, <1>2
<1>4. Opened' /\ Appends'
  BY <1>2, <1>3 DEF Opened, Appends
<1>5. "command" \in DOMAIN prog' /\ Cli' \in Commands /\ todo' \in Seq(Name)
  BY <1>2 DEF ProgInv
<1> QED BY <1>1, <1>4, <1>5 DEF ProgInv

\* A step that leaves the files alone.
LEMMA FilesStay ==
    ASSUME DiskInv, ProgInv, UNCHANGED <<disk, log, sound, rest>>,
           "command" \in DOMAIN prog', Cli' = Cli, todo' \in Seq(Name),
           pc' \in {"none", "open", "read", "entries", "release"},
           pc' = "none" \/ pc \in {"open", "read", "entries", "release"},
           pc' \in {"open", "release"} => Cli.is = "rads",
           WritesNow' => WritesNow
    PROVE  DiskInv' /\ ProgInv'
<1>1. DiskInv'
  BY DEF DiskInv
<1>2. Out' = Out /\ Writes(Cli)' = Writes(Cli)
  BY DEF Out, Writes
<1>3. (WritesNow' \/ rest' => Opened') /\ Opened' = Opened
  BY <1>2 DEF ProgInv, Opened
<1>4. Appends'
  BY <1>2 DEF ProgInv, Appends
<1>5. Cli' \in Commands /\ (pc' = "open" => Writes(Cli)' \/ Cli'.is = "rads") /\ (pc' = "release" => Cli'.is = "rads")
  BY DEF ProgInv
<1> QED BY <1>1, <1>3, <1>4, <1>5 DEF ProgInv

-----------------------------------------------------------------------------
(***************************************************************************)
(* The actions                                                             *)
(***************************************************************************)

LEMMA StartKeeps ==
    ASSUME IInv, NEW command \in Commands, Start(command)
    PROVE  IInv'
<1>1. DiskInv /\ ProgInv
  BY DEF IInv
<1>2. /\ pc' = IF Writes(command) THEN "open" ELSE "read"
      /\ todo' = command.ins /\ entries' = <<>> /\ from' = <<>> /\ chosen' = <<>>
      /\ disk' = [n \in Name |-> OnDisk(n)] /\ rest' = FALSE
      /\ sound' = [n \in Name |-> sound[n] /\ ~(rest /\ n = Out)]
      /\ log' = log
      /\ (command.append /\ disk[command.out] # Missing) => disk[command.out].form = "jrman"
  BY DEF Start
<1>3. "command" \in DOMAIN prog' /\ prog'.command = command
  BY DEF Start
<1>4. Cli' = command /\ Out' = command.out
  BY <1>3 DEF Cli, Out
<1>5. DiskInv'
  <2>1. \A n \in Name : FileInv(OnDisk(n), log[n], sound[n] /\ ~(rest /\ n = Out))
    BY <1>1, OnDiskInv
  <2> QED BY <1>1, <1>2, <2>1 DEF DiskInv
<1>6. Appends'
  <2> SUFFICES ASSUME command.append, Writes(command) \/ command.is = "rads"
               PROVE  disk'[command.out].form \in {"none", "jrman"}
    BY <1>2, <1>4 DEF Appends, Writes
  <2>1. command.out \in Name
    BY CommandsAssumption DEF Writes
  <2>2. disk'[command.out].form = disk[command.out].form
    BY <1>1, <1>2, <2>1, OnDiskInv
  <2>3. Missing.form = "none"
    BY DEF Missing
  <2> QED BY <1>2, <2>2, <2>3
<1>7. ~WritesNow'
  BY <1>2, <1>4 DEF WritesNow, Writes
<1>8. ProgInv'
  <2>1. todo' \in Seq(Name)
    BY <1>2, CommandsAssumption
  <2>2. pc' \in {"none", "open", "header", "read", "entries", "release"} /\ pc' # "header" /\ pc' # "release"
    BY <1>2
  <2>3. pc' = "open" => Writes(Cli)' \/ Cli'.is = "rads"
    BY <1>2, <1>4 DEF Writes
  <2> QED BY <1>2, <1>3, <1>4, <1>6, <1>7, <2>1, <2>2, <2>3 DEF ProgInv
<1>9. DataInv'
  BY <1>2, SoundEmpty DEF DataInv
<1> QED BY <1>5, <1>8, <1>9 DEF IInv

LEMMA OpenKeeps ==
    ASSUME IInv, Open
    PROVE  IInv'
<1>1. DiskInv /\ ProgInv /\ DataInv /\ pc = "open" /\ (Writes(Cli) \/ Cli.is = "rads") /\ Cli \in Commands
  BY DEF IInv, Open, ProgInv
<1>2. Out \in Name /\ UNCHANGED <<rest, prog, todo, entries, from, chosen>>
  BY <1>1, CommandsAssumption DEF Open, Writes, Out, reading
<1>3. Cli' = Cli /\ Out' = Out /\ DataInv'
  BY <1>1, <1>2, SoundEmpty DEF Cli, Out, DataInv
<1>4. FileInv(Empty, <<>>, FALSE) /\ Empty.form = "jrman"
  <2>1. Plain(Empty, <<>>, FALSE /\ AllUndump) /\ IsSequence(<<>>)
    BY EmptyPlain, EmptyIs DEF Plain
  <2> QED BY <2>1, EmptyPlain DEF FileInv
<1>5. CASE /\ disk' = [disk EXCEPT ![Out] = Empty] /\ log' = [log EXCEPT ![Out] = <<>>]
           /\ sound' = [sound EXCEPT ![Out] = FALSE] /\ pc' \in {"read", "header"}
  <2>1. DiskInv'
    BY <1>1, <1>2, <1>4, <1>5 DEF DiskInv
  <2>2. disk'[Out] = Empty /\ log'[Out] = <<>>
    BY <1>1, <1>2, <1>5 DEF DiskInv
  <2>3. Opened' /\ Appends'
    BY <1>2, <1>3, <1>4, <2>2 DEF Opened, Appends
  <2>4. ProgInv'
    BY <1>1, <1>2, <1>3, <1>5, <2>2, <2>3 DEF ProgInv
  <2> QED BY <1>3, <2>1, <2>4 DEF IInv
<1>6. CASE /\ disk[Out] # Missing /\ Cli.append /\ pc' = "read"
           /\ disk' = [disk EXCEPT ![Out] = disk[Out]] /\ log' = [log EXCEPT ![Out] = log[Out]]
           /\ sound' = [sound EXCEPT ![Out] = sound[Out]]
  <2>1. FileInv(disk[Out], log[Out], sound[Out])
    BY <1>1, <1>2 DEF DiskInv
  <2>2. disk[Out].form = "jrman"
    BY <1>1, <1>6, <2>1 DEF FileInv, ProgInv, Appends
  <2>3. DiskInv'
    BY <1>1, <1>2, <1>6 DEF DiskInv
  <2>4. Opened' /\ Appends'
    BY <1>1, <1>2, <1>3, <1>6, <2>2 DEF Opened, Appends, DiskInv
  <2>5. ProgInv'
    BY <1>1, <1>2, <1>3, <1>6, <2>4 DEF ProgInv
  <2> QED BY <1>3, <2>3, <2>5 DEF IInv
<1>7. CASE Cli.append /\ disk[Out] = Missing
  <2>1. /\ disk' = [disk EXCEPT ![Out] = Empty] /\ log' = [log EXCEPT ![Out] = <<>>]
        /\ sound' = [sound EXCEPT ![Out] = @ /\ FALSE] /\ pc' = "read"
    BY <1>7 DEF Open
  <2>2. sound' = [sound EXCEPT ![Out] = FALSE]
    BY <2>1
  <2> QED BY <1>5, <2>1, <2>2
<1>8. CASE Cli.append /\ disk[Out] # Missing
  <2>1. disk' = [disk EXCEPT ![Out] = @] /\ log' = [log EXCEPT ![Out] = @] /\ sound' = [sound EXCEPT ![Out] = @ /\ TRUE] /\ pc' = "read"
    BY <1>8 DEF Open
  <2>2. sound[Out] \in BOOLEAN
    BY <1>1, <1>2 DEF DiskInv, FileInv
  <2>3. sound' = [sound EXCEPT ![Out] = sound[Out]]
    BY <2>1, <2>2
  <2>4. disk' = [disk EXCEPT ![Out] = disk[Out]] /\ log' = [log EXCEPT ![Out] = log[Out]]
    BY <2>1
  <2> QED BY <1>6, <1>8, <2>1, <2>3, <2>4
<1>9. CASE ~Cli.append
  BY <1>5, <1>9 DEF Open
<1> QED BY <1>7, <1>8, <1>9

LEMMA WriteHeaderKeeps ==
    ASSUME IInv, WriteHeader
    PROVE  IInv'
<1>1. /\ DiskInv /\ ProgInv /\ DataInv /\ pc = "header" /\ pc' = "read" /\ disk[Out] = Empty /\ log[Out] = <<>>
      /\ Out \in Name /\ rest \in BOOLEAN
  BY DEF IInv, WriteHeader, ProgInv, WritesNow, Opened
<1>2. UNCHANGED <<prog, todo, entries, from, chosen>>
  BY DEF WriteHeader, reading
<1>3. Cli' = Cli /\ Out' = Out /\ DataInv' /\ Empty.form = "jrman"
  BY <1>1, <1>2, EmptyPlain DEF Cli, Out, DataInv
<1>4. DiskInv' /\ disk'[Out].form = "jrman" /\ rest' \in BOOLEAN
  <2>1. CASE Succeeds(Header) /\ sound' = [sound EXCEPT ![Out] = TRUE] /\ UNCHANGED log
    <3> DEFINE new == After(Empty, Header)
    <3>1. new.form = "jrman" /\ Plain(new, <<>>, TRUE /\ AllUndump) /\ IsSequence(<<>>)
      BY EmptyPlain, EmptyIs DEF Plain
    <3>2. FileInv(new, <<>>, TRUE)
      BY <3>1 DEF FileInv
    <3>3. disk' = [disk EXCEPT ![Out] = new] /\ rest' \in {rest, FALSE}
      BY <1>1, <2>1 DEF Succeeds
    <3> HIDE DEF new
    <3> QED BY <1>1, <2>1, <3>1, <3>2, <3>3 DEF DiskInv
  <2>2. CASE Fails
    BY <1>1, <1>3, <2>2 DEF DiskInv, Fails
  <2> QED BY <2>1, <2>2 DEF WriteHeader
<1>5. Opened' /\ Appends'
  BY <1>1, <1>3, <1>4 DEF Opened, Appends
<1>6. ProgInv'
  BY <1>1, <1>2, <1>3, <1>4, <1>5 DEF ProgInv
<1> QED BY <1>3, <1>4, <1>6 DEF IInv

LEMMA ReadKeeps ==
    ASSUME IInv, Read
    PROVE  IInv'
<1>1. DiskInv /\ ProgInv /\ DataInv /\ pc = "read" /\ pc' = "entries" /\ todo # <<>> /\ todo \in Seq(Name)
  BY DEF IInv, Read, ProgInv
<1>2. UNCHANGED <<disk, log, sound, rest, prog, from, chosen>> /\ todo' = Tail(todo)
      /\ entries' = InputOf(Head(todo)).entries
  BY DEF Read, disks
<1>3. Cli' = Cli /\ Head(todo) \in Name /\ todo' \in Seq(Name)
  BY <1>1, <1>2 DEF Cli
<1>4. "command" \in DOMAIN prog' /\ (WritesNow' => WritesNow)
  BY <1>1, <1>2, <1>3 DEF ProgInv, WritesNow, Writes
<1>5. DiskInv' /\ ProgInv'
  BY <1>1, <1>2, <1>3, <1>4, FilesStay
<1>6. Cli.is # "bl" => AreSound(entries')
  <2>1. AreSound(ReadFile(OnDisk(Head(todo))).entries)
    BY <1>1, <1>3, OnDiskInv, FileReads
  <2> QED BY <1>2, <2>1 DEF InputOf
<1>7. DataInv'
  BY <1>1, <1>2, <1>3, <1>6 DEF DataInv
<1> QED BY <1>5, <1>7 DEF IInv

\* The next entry of an input.
LEMMA NextEntry ==
    ASSUME IInv, NEW is, is # "bl", Next1(is)
    PROVE  /\ DiskInv /\ ProgInv /\ AreSound(from) /\ AreSound(chosen) /\ pc = "entries"
           /\ UNCHANGED <<prog, pc, todo>> /\ Cli' = Cli /\ Cli.is = is
           /\ Sound(Head(entries)) /\ AreSound(entries')
<1>1. DiskInv /\ ProgInv /\ DataInv /\ pc = "entries" /\ entries # <<>> /\ Cli.is = is /\ entries' = Tail(entries)
  BY DEF IInv, Next1
<1>2. AreSound(entries)
  BY <1>1 DEF DataInv
<1> QED BY <1>1, <1>2, SoundTail DEF Next1, DataInv, Cli

LEMMA EntryStays ==
    ASSUME DiskInv, ProgInv, UNCHANGED <<disk, log, sound, rest, prog, pc, todo>>,
           pc \in {"read", "entries"}, UNCHANGED chosen \/ Cli.is # "rads"
    PROVE  DiskInv' /\ ProgInv'
<1>1. Cli' = Cli /\ "command" \in DOMAIN prog' /\ todo' \in Seq(Name) /\ (WritesNow' => WritesNow)
  BY DEF Cli, ProgInv, WritesNow, Writes
<1> QED BY <1>1, FilesStay

LEMMA MergeKeeps ==
    ASSUME IInv, MergeEntry
    PROVE  IInv'
<1> DEFINE e == Prefixed(Head(entries))
<1>1. /\ DiskInv /\ ProgInv /\ AreSound(from) /\ AreSound(chosen) /\ pc = "entries"
      /\ UNCHANGED <<prog, pc, todo>> /\ Cli' = Cli /\ Cli.is = "merge"
      /\ Sound(Head(entries)) /\ AreSound(entries') /\ UNCHANGED <<from, chosen>>
  BY NextEntry DEF MergeEntry
<1>2. DataInv'
  BY <1>1 DEF DataInv
<1>3. Sound(e)
  <2> DEFINE h == Head(entries)
             x == Cli.ins[Len(Cli.ins) - Len(todo)]
  <2>1. IsSequence(h.path)
    BY <1>1 DEF Sound, IsEntry, IsSequence
  <2> HIDE DEF h, x
  <2>2. IsSequence(<<x>> \o h.path)
    BY <2>1, SingleIs, ConcatIs
  <2>3. Sound([h EXCEPT !.path = <<x>> \o h.path])
    BY <1>1, <2>2, ChangedIsSound DEF h
  <2> QED BY <1>1, <2>3 DEF Prefixed, h, x
<1> HIDE DEF e
<1>4. Sound(Stripped(e))
  BY <1>3, ChangedIsSound DEF Stripped
<1>5. WritesNow
  BY <1>1 DEF WritesNow, Writes
<1>6. Written(Stripped(e)) \/ UNCHANGED disks
  BY DEF MergeEntry, e
<1>7. CASE Written(Stripped(e))
  <2>1. DiskInv' /\ ProgInv'
    BY <1>1, <1>4, <1>5, <1>7, WriterKeeps
  <2> QED BY <1>2, <2>1 DEF IInv
<1>8. CASE UNCHANGED disks
  <2>1. UNCHANGED <<disk, log, sound, rest>>
    BY <1>8 DEF disks
  <2>2. DiskInv' /\ ProgInv'
    BY <1>1, <2>1, EntryStays
  <2> QED BY <1>2, <2>2 DEF IInv
<1> QED BY <1>6, <1>7, <1>8

LEMMA DiffKeeps ==
    ASSUME IInv, DiffEntry
    PROVE  IInv'
<1> DEFINE e == Head(entries)
<1>1. /\ DiskInv /\ ProgInv /\ AreSound(from) /\ AreSound(chosen) /\ pc = "entries"
      /\ UNCHANGED <<prog, pc, todo>> /\ Cli' = Cli /\ Cli.is = "diff"
      /\ Sound(e) /\ AreSound(entries') /\ UNCHANGED chosen
  BY NextEntry DEF DiffEntry
<1>2. from' = (IF Older /\ Matching(e) THEN Append(from, e) ELSE from) /\ (Written(e) \/ UNCHANGED disks)
  BY DEF DiffEntry
<1>3. DataInv'
  BY <1>1, <1>2, SoundAppends DEF DataInv
<1>4. WritesNow
  BY <1>1 DEF WritesNow, Writes
<1>5. CASE Written(e)
  <2>1. DiskInv' /\ ProgInv'
    BY <1>1, <1>4, <1>5, WriterKeeps
  <2> QED BY <1>3, <2>1 DEF IInv
<1>6. CASE UNCHANGED disks
  <2>1. UNCHANGED <<disk, log, sound, rest>>
    BY <1>6 DEF disks
  <2>2. DiskInv' /\ ProgInv'
    BY <1>1, <2>1, EntryStays
  <2> QED BY <1>3, <2>2 DEF IInv
<1> QED BY <1>2, <1>5, <1>6

\* An entry that is in the directory has a path behind it.
LEMMA PassesBelow ==
    ASSUME Cli \in Commands, Cli.is = "split", NEW e, Sound(e), Passes(e)
    PROVE  /\ Sound(Below(Cli.release, e)) /\ IsSequence(Cli.release)
           /\ Len(Cli.release) \in Nat /\ Len(e.path) \in Nat /\ Len(Cli.release) < Len(e.path)
           /\ Below(Cli.release, e).path = SubSeq(e.path, Len(Cli.release) + 1, Len(e.path))
           /\ IsPrefix(Cli.release, e.path)
<1> DEFINE d == Cli.release
           x == SubSeq(e.path, Len(d) + 1, Len(e.path))
<1>1. IsSequence(d) /\ IsSequence(e.path) /\ "path" \in DOMAIN e
  BY CommandsAssumption DEF Sound, IsEntry, IsSequence, Fields
<1>2. IsPrefix(d, e.path) /\ d # e.path
  BY DEF Passes, IsIn, IsStrictPrefix
<1>3. Below(d, e) = [e EXCEPT !.path = x]
  BY DEF Below
<1> HIDE DEF d
<1>4. /\ Len(d) \in Nat /\ Len(e.path) \in Nat /\ Len(d) <= Len(e.path)
      /\ \A k \in 1 .. Len(d) : e.path[k] = d[k]
  BY <1>1, <1>2, PrefixIs, SequenceIs DEF IsSequence
<1>5. Len(d) # Len(e.path)
  <2> SUFFICES ASSUME Len(d) = Len(e.path) PROVE FALSE
    OBVIOUS
  <2>1. \A k \in 1 .. Len(d) : d[k] = e.path[k]
    BY <1>4
  <2> QED BY <1>1, <1>2, <2>1, SequencesEqual
<1>6. IsSequence(x)
  <2>1. Len(d) \in 0 .. Len(e.path)
    BY <1>4
  <2> QED BY <1>1, <2>1, SuffixIs
<1> HIDE DEF x
<1>7. Sound(Below(d, e))
  <2>1. Sound([e EXCEPT !.path = x])
    BY ONLY Sound(e), <1>6, ChangedIsSound
  <2> QED BY <1>3, <2>1
<1>8. Below(d, e).path = x
  BY <1>1, <1>3
<1> QED BY <1>1, <1>2, <1>4, <1>5, <1>7, <1>8 DEF d, x

LEMMA SplitKeeps ==
    ASSUME IInv, SplitEntry
    PROVE  IInv'
<1> DEFINE e == Below(Cli.release, Head(entries))
<1>1. /\ DiskInv /\ ProgInv /\ AreSound(from) /\ AreSound(chosen) /\ pc = "entries"
      /\ UNCHANGED <<prog, pc, todo>> /\ Cli' = Cli /\ Cli.is = "split"
      /\ Sound(Head(entries)) /\ AreSound(entries') /\ UNCHANGED <<from, chosen>>
  BY NextEntry DEF SplitEntry
<1>2. DataInv'
  BY <1>1 DEF DataInv
<1>3. Passes(Head(entries)) => Sound(e)
  <2>1. Cli \in Commands
    BY <1>1 DEF ProgInv
  <2> QED BY <1>1, <2>1, PassesBelow
<1>4. WritesNow
  BY <1>1 DEF WritesNow, Writes
<1>5. (Passes(Head(entries)) /\ Written(e)) \/ UNCHANGED disks
  BY DEF SplitEntry
<1> HIDE DEF e
<1>6. CASE Passes(Head(entries)) /\ Written(e)
  <2>1. DiskInv' /\ ProgInv'
    BY <1>1, <1>3, <1>4, <1>6, WriterKeeps
  <2> QED BY <1>2, <2>1 DEF IInv
<1>7. CASE UNCHANGED disks
  <2>1. UNCHANGED <<disk, log, sound, rest>>
    BY <1>7 DEF disks
  <2>2. DiskInv' /\ ProgInv'
    BY <1>1, <2>1, EntryStays
  <2> QED BY <1>2, <2>2 DEF IInv
<1> QED BY <1>5, <1>6, <1>7

\* The entries that are kept, and those that are printed.
LEMMA KeptKeeps ==
    ASSUME IInv, RadsEntry \/ ChooseEntry
    PROVE  IInv'
<1> DEFINE e == Head(entries)
<1>1. /\ DiskInv /\ ProgInv /\ AreSound(from) /\ AreSound(chosen) /\ pc = "entries"
      /\ UNCHANGED <<prog, pc, todo>> /\ Cli' = Cli /\ Sound(e) /\ AreSound(entries')
      /\ Cli.is \in {"rads", "dl"}
  <2>1. Next1("rads") \/ Next1("dl")
    BY DEF RadsEntry, ChooseEntry
  <2> QED BY <2>1, NextEntry
<1>2. UNCHANGED <<disk, log, sound, rest>> /\ (UNCHANGED chosen \/ Cli.is # "rads")
  BY DEF RadsEntry, ChooseEntry, Next1, disks
<1>3. from' \in {from, Append(from, e)} /\ chosen' \in {chosen, Append(chosen, e)}
  BY DEF RadsEntry, ChooseEntry
<1>4. DataInv'
  BY <1>1, <1>3, SoundAppends DEF DataInv
<1>5. DiskInv' /\ ProgInv'
  BY <1>1, <1>2, EntryStays
<1> QED BY <1>4, <1>5 DEF IInv

LEMMA PrintKeeps ==
    ASSUME IInv, PrintEntry
    PROVE  IInv'
<1>1. /\ DiskInv /\ ProgInv /\ DataInv /\ pc = "entries" /\ entries # <<>>
      /\ UNCHANGED <<prog, pc, todo, disk, log, sound, rest, from, chosen>> /\ entries' = Tail(entries)
  BY DEF IInv, PrintEntry, Next1, disks
<1>2. Cli' = Cli
  BY <1>1 DEF Cli
<1>3. DataInv'
  BY <1>1, <1>2, SoundTail DEF DataInv
<1>4. DiskInv' /\ ProgInv'
  BY <1>1, EntryStays
<1> QED BY <1>3, <1>4 DEF IInv

LEMMA CutKeeps ==
    ASSUME IInv, CutEntry
    PROVE  IInv'
<1>1. DiskInv /\ ProgInv /\ DataInv /\ pc = "read" /\ Cli.is = "cut"
  BY DEF IInv, CutEntry
<1>2. UNCHANGED <<prog, pc, todo, entries, from, chosen>>
  BY DEF CutEntry, reading
<1>3. PICK e \in New : Written(e)
  BY DEF CutEntry
<1>4. Sound(e)
  BY NewAssumption DEF Sound, AllUndump
<1>5. WritesNow
  BY <1>1 DEF WritesNow, Writes
<1>6. DiskInv' /\ ProgInv'
  BY <1>1, <1>2, <1>3, <1>4, <1>5, WriterKeeps
<1>7. DataInv'
  BY <1>1, <1>2 DEF DataInv, Cli
<1> QED BY <1>6, <1>7 DEF IInv

\* The steps that end an input or a program, and those of a download.
LEMMA EndKeeps ==
    ASSUME IInv, EndOfInput \/ End \/ DownloadThrows \/ \E verdict \in {"ok", "failed"} : DownloadFile(verdict)
    PROVE  IInv'
<1>1. DiskInv /\ ProgInv /\ DataInv
  BY DEF IInv
<1>2. /\ UNCHANGED <<disk, log, sound, rest, todo, entries, from>>
      /\ pc \in {"read", "entries"}
      /\ pc' \in {"none", "read", "entries", "release"} /\ (pc' = "release" => Cli.is = "rads" /\ pc = "entries")
      /\ UNCHANGED chosen \/ (chosen # <<>> /\ chosen' = Tail(chosen) /\ Cli.is = "dl")
      /\ prog' = prog \/ \E x : prog' = [prog EXCEPT !.ended = x]
  <2>1. CASE EndOfInput
    <3>1. prog' = prog \/ prog' = [prog EXCEPT !.ended = "thrown"]
      BY <2>1 DEF EndOfInput
    <3> QED BY <2>1, <3>1 DEF EndOfInput, disks, reading
  <2>2. CASE End
    <3>1. prog' = [prog EXCEPT !.ended = IF prog.ended = "no" THEN "ok" ELSE prog.ended]
      BY <2>2 DEF End
    <3> QED BY <2>2, <3>1 DEF End, disks, reading
  <2>3. CASE DownloadThrows
    BY <2>3 DEF DownloadThrows, Downloads, disks, reading
  <2>4. ASSUME NEW verdict, DownloadFile(verdict)
        PROVE  /\ UNCHANGED <<disk, log, sound, rest, todo, entries, from, pc>> /\ pc = "read"
               /\ chosen # <<>> /\ chosen' = Tail(chosen) /\ Cli.is = "dl"
               /\ \E x : prog' = [prog EXCEPT !.ended = x]
    <3>1. prog' = [prog EXCEPT !.ended = IF verdict = "failed" THEN "failed" ELSE prog.ended]
      BY <2>4 DEF DownloadFile
    <3> QED BY <2>4, <3>1 DEF DownloadFile, Downloads, disks, reading
  <2> QED BY <2>1, <2>2, <2>3, <2>4
<1>3. "command" \in DOMAIN prog' /\ Cli' = Cli
  BY <1>1, <1>2 DEF ProgInv, Cli
<1>4. WritesNow' => WritesNow
  BY <1>2, <1>3 DEF WritesNow, Writes
<1>5. todo' \in Seq(Name)
  BY <1>1, <1>2 DEF ProgInv
<1>6. DiskInv' /\ ProgInv'
  BY <1>1, <1>2, <1>3, <1>4, <1>5, FilesStay
<1>7. DataInv'
  BY <1>1, <1>2, <1>3, SoundTail DEF DataInv
<1> QED BY <1>6, <1>7 DEF IInv

LEMMA ReleaseKeeps ==
    ASSUME IInv, Release
    PROVE  IInv'
<1>1. DiskInv /\ ProgInv /\ DataInv /\ pc = "release" /\ Cli.is = "rads"
  BY DEF IInv, Release, ProgInv
<1>2. UNCHANGED <<disk, log, sound, rest, todo, entries, from>> /\ pc' \in {"none", "open"}
  BY DEF Release, disks, reading
<1>3. prog' = prog \/ prog' = [prog EXCEPT !.ended = "thrown"]
  BY DEF Release
<1>4. "command" \in DOMAIN prog' /\ Cli' = Cli
  BY <1>1, <1>3 DEF ProgInv, Cli
<1>5. ~WritesNow' /\ todo' \in Seq(Name)
  BY <1>1, <1>2 DEF WritesNow, ProgInv
<1>6. DiskInv' /\ ProgInv'
  BY <1>1, <1>2, <1>4, <1>5, FilesStay
<1>7. AreSound(chosen')
  <2>1. chosen' = chosen \/ chosen' = ProcessRls(Cli.release) \/ chosen' = ProcessSln(Cli.release) \/ chosen' = <<>>
    BY DEF Release
  <2> QED BY <1>1, <2>1, RlsSound, SlnSound, SoundEmpty DEF DataInv
<1>8. DataInv'
  BY <1>1, <1>2, <1>4, <1>7 DEF DataInv
<1> QED BY <1>6, <1>8 DEF IInv

LEMMA WriteFileKeeps ==
    ASSUME IInv, WriteFile
    PROVE  IInv'
<1>1. /\ DiskInv /\ ProgInv /\ DataInv /\ pc = "read" /\ Cli.is = "rads" /\ chosen # <<>>
      /\ Written(Head(chosen)) /\ chosen' = Tail(chosen)
  BY DEF IInv, WriteFile, WritesRelease
<1>2. UNCHANGED <<prog, pc, todo, entries, from>>
  BY DEF WriteFile, reading
<1>3. Sound(Head(chosen)) /\ AreSound(chosen')
  BY <1>1, SoundTail DEF DataInv
<1>4. WritesNow
  BY <1>1 DEF WritesNow
<1>5. DiskInv' /\ ProgInv'
  BY <1>1, <1>2, <1>3, <1>4, WriterKeeps
<1>6. DataInv'
  BY <1>1, <1>2, <1>3 DEF DataInv, Cli
<1> QED BY <1>5, <1>6 DEF IInv

LEMMA KillKeeps ==
    ASSUME IInv, Kill
    PROVE  IInv'
<1>1. DiskInv /\ ProgInv /\ DataInv
  BY DEF IInv
<1>2. UNCHANGED <<disk, log, sound, todo, entries, from, chosen>> /\ pc' = "none"
      /\ prog' = [prog EXCEPT !.ended = "killed"]
  BY DEF Kill, reading
<1>3. rest' = rest \/ (Writing /\ rest' = TRUE)
  BY DEF Kill
<1>4. "command" \in DOMAIN prog' /\ Cli' = Cli /\ Out' = Out /\ Opened' = Opened
  BY <1>1, <1>2 DEF ProgInv, Cli, Out, Opened
<1>5. Writing => WritesNow
  BY DEF Writing, WritesNow, Writes, Passes, WritesRelease
<1>6. (rest' => Opened) /\ rest' \in BOOLEAN
  <2>1. rest \in BOOLEAN /\ (rest => Opened) /\ (WritesNow => Opened)
    BY <1>1 DEF ProgInv
  <2>2. CASE rest' = rest
    BY <2>1, <2>2
  <2>3. CASE Writing /\ rest' = TRUE
    BY <1>5, <2>1, <2>3
  <2> QED BY <1>3, <2>2, <2>3
<1>7. ~WritesNow' /\ Appends'
  BY <1>2 DEF WritesNow, Appends
<1>8. ProgInv'
  BY <1>1, <1>2, <1>4, <1>6, <1>7 DEF ProgInv
<1>9. DiskInv' /\ DataInv'
  BY <1>1, <1>2, <1>4 DEF DiskInv, DataInv
<1> QED BY <1>8, <1>9 DEF IInv

LEMMA CompressKeeps ==
    ASSUME IInv, NEW n \in Name, Compress(n)
    PROVE  IInv'
<1> DEFINE m == OnDisk(n)
           new == [m EXCEPT !.form = "zrman"]
           whole == sound[n] /\ ~(rest /\ n = Out)
<1>1. DiskInv /\ ProgInv /\ DataInv
  BY DEF IInv
<1>2. /\ pc = "none" /\ disk[n].form = "jrman"
      /\ disk' = [disk EXCEPT ![n] = new] /\ rest' = (rest /\ n # Out)
      /\ sound' = [sound EXCEPT ![n] = @ /\ ~(rest /\ n = Out)]
      /\ UNCHANGED <<log, prog, pc, todo, entries, from, chosen>>
  BY DEF Compress, reading
<1>3. FileInv(m, log[n], whole) /\ m.form = "jrman"
  BY <1>1, <1>2, OnDiskInv
<1> HIDE DEF m, whole
<1>4. new.form = "zrman" /\ Packed(new, log[n], whole /\ AllUndump) /\ IsSequence(log[n]) /\ whole \in BOOLEAN
  <2>1. IsSequence(log[n]) /\ Plain(m, log[n], whole /\ AllUndump) /\ whole \in BOOLEAN
    BY <1>3 DEF FileInv
  <2> DEFINE entire == whole /\ AllUndump
  <2> HIDE DEF entire
  <2>2. Plain(m, log[n], entire)
    BY <2>1 DEF entire
  <2>3. new.form = "zrman" /\ Packed(new, log[n], entire)
    BY <1>3, <2>1, <2>2, PlainPacks
  <2> QED BY <2>1, <2>3 DEF entire
<1> HIDE DEF new
<1>5. FileInv(new, log[n], whole)
  BY <1>4 DEF FileInv
<1>6. sound' = [sound EXCEPT ![n] = whole]
  BY <1>2 DEF whole
<1>7. DiskInv'
  BY <1>1, <1>2, <1>5, <1>6 DEF DiskInv
<1>8. Cli' = Cli /\ Out' = Out /\ ~WritesNow' /\ Appends'
  BY <1>2 DEF Cli, Out, WritesNow, Appends
<1>9. rest' \in BOOLEAN /\ (rest' => Opened')
  <2>1. rest' => Opened /\ n # Out
    BY <1>1, <1>2 DEF ProgInv
  <2> QED BY <1>1, <1>2, <1>8, <2>1 DEF DiskInv, Opened, ProgInv
<1>10. ProgInv'
  BY <1>1, <1>2, <1>8, <1>9 DEF ProgInv
<1>11. DataInv'
  BY <1>1, <1>2, <1>8 DEF DataInv
<1> QED BY <1>7, <1>10, <1>11 DEF IInv

LEMMA NextKeeps ==
    ASSUME IInv, [Next]_vars
    PROVE  IInv'
<1>1. CASE Next
  <2>1. CASE \E command \in Commands : Start(command)
    BY <2>1, StartKeeps
  <2>2. CASE Open \/ WriteHeader \/ Read
    BY <2>2, OpenKeeps, WriteHeaderKeeps, ReadKeeps
  <2>3. CASE MergeEntry \/ DiffEntry \/ SplitEntry
    BY <2>3, MergeKeeps, DiffKeeps, SplitKeeps
  <2>4. CASE RadsEntry \/ PrintEntry \/ ChooseEntry \/ CutEntry
    BY <2>4, KeptKeeps, PrintKeeps, CutKeeps
  <2>5. CASE EndOfInput \/ End \/ DownloadThrows \/ \E verdict \in {"ok", "failed"} : DownloadFile(verdict)
    BY <2>5, EndKeeps
  <2>6. CASE Release \/ WriteFile
    BY <2>6, ReleaseKeeps, WriteFileKeeps
  <2>7. CASE Kill \/ \E n \in Name : Compress(n)
    BY <2>7, KillKeeps, CompressKeeps
  <2> QED BY <1>1, <2>1, <2>2, <2>3, <2>4, <2>5, <2>6, <2>7 DEF Next
<1>2. CASE UNCHANGED vars
  BY <1>2 DEF vars, disks, reading, IInv, DiskInv, ProgInv, DataInv, WritesNow, Writes, Opened, Appends, Cli, Out
<1> QED BY <1>1, <1>2

LEMMA Invariant == Spec => []IInv
<1>1. Init => IInv
  BY InitIInv
<1>2. IInv /\ [Next]_vars => IInv'
  BY NextKeeps
<1> QED BY <1>1, <1>2, PTL DEF Spec

-----------------------------------------------------------------------------
(***************************************************************************)
(* The inputs of a program                                                 *)
(***************************************************************************)

\* The number of inputs that are read, or the last of which is.
Begun == Len(Cli.ins) - Len(todo)

TodoInv ==
    /\ Len(todo) <= Len(Cli.ins) /\ \A i \in 1 .. Len(todo) : todo[i] = Cli.ins[Begun + i]
    /\ pc \in {"open", "header"} => Writes(Cli) \/ Cli.is = "rads"
    /\ pc \in {"open", "header"} /\ Writes(Cli) => todo = Cli.ins
    /\ pc = "entries" => Begun > 0
    /\ pc \in {"none", "open", "header", "read", "entries", "release"}
    /\ DOMAIN prog = {"command", "lists", "dir", "url", "ended"}

\* Nothing is written to a binary manifest.
RmanInv == \A n \in Name : IsRman(disk[n]) => log[n] = ReadFile(disk[n]).entries

FlowInv == IInv /\ TodoInv /\ RmanInv

\* The output is none of the inputs.
Apart == Out \notin ToSet(Cli.ins)

LEMMA WrittenFiles ==
    ASSUME IInv, WritesNow, NEW e, Written(e)
    PROVE  \A n \in Name : n # Out => disk'[n] = disk[n] /\ log'[n] = log[n]
<1>1. Out \in Name /\ DOMAIN disk = Name /\ DOMAIN log = Name
  BY DEF IInv, ProgInv, Opened, DiskInv
<1> QED BY <1>1 DEF Written, Succeeds, Fails

LEMMA WrittenForm ==
    ASSUME IInv, WritesNow, NEW e, Written(e)
    PROVE  disk'[Out].form = "jrman"
<1>1. Out \in Name /\ disk[Out].form = "jrman" /\ DOMAIN disk = Name
  BY DEF IInv, ProgInv, Opened, DiskInv
<1>2. IsText(disk[Out])
  BY <1>1 DEF IInv, DiskInv, FileInv, Plain
<1>3. After(disk[Out], Line(e)).form = "jrman"
  BY <1>1, <1>2, TextIs DEF After
<1>4. disk' = disk \/ disk' = [disk EXCEPT ![Out] = After(disk[Out], Line(e))]
  BY DEF Written, Succeeds, Fails
<1> QED BY <1>1, <1>3, <1>4

\* The actions that may call the writer.
LEMMA WritersWrite ==
    ASSUME IInv, MergeEntry \/ DiffEntry \/ SplitEntry \/ CutEntry \/ WriteFile
    PROVE  /\ WritesNow /\ Cli' = Cli /\ Out' = Out
           /\ UNCHANGED <<disk, log>> \/ \E e : Written(e)
<1>1. WritesNow
  BY DEF MergeEntry, DiffEntry, SplitEntry, CutEntry, WriteFile, Next1, WritesRelease, WritesNow, Writes
<1>2. prog' = prog
  BY DEF MergeEntry, DiffEntry, SplitEntry, CutEntry, WriteFile, Next1
<1>3. UNCHANGED <<disk, log>> \/ \E e : Written(e)
  BY DEF MergeEntry, DiffEntry, SplitEntry, CutEntry, WriteFile, disks
<1> QED BY <1>1, <1>2, <1>3 DEF Cli, Out

\* A step changes the manifest that is its output, or compresses one; none changes
\* what was written to another.
LEMMA FilesStep ==
    ASSUME FlowInv, Next
    PROVE  /\ \A n \in Name : IsRman(disk'[n]) => disk'[n] = disk[n] /\ log'[n] = log[n]
           /\ \A n \in Name : n # Out \/ ~(Writes(Cli) \/ Cli.is = "rads") => log'[n] = log[n]
<1>1. /\ DOMAIN disk = Name /\ DOMAIN log = Name /\ (rest => Opened) /\ (WritesNow => Opened)
      /\ \A n \in Name : IsRman(disk[n]) => disk[n].form = "rman"
  BY DEF FlowInv, IInv, DiskInv, ProgInv, IsRman
<1>2. \A m : m.form = "jrman" \/ m.form = "zrman" => ~IsRman(m)
  BY DEF IsRman
<1>3. CASE \E command \in Commands : Start(command)
  <2>1. disk' = [n \in Name |-> OnDisk(n)] /\ log' = log
    BY <1>3 DEF Start
  <2>2. \A n \in Name : OnDisk(n) = disk[n] \/ OnDisk(n).form = "jrman"
    <3> SUFFICES ASSUME NEW n \in Name, rest, n = Out PROVE OnDisk(n).form = "jrman"
      BY DEF OnDisk
    <3>1. disk[n].form = "jrman"
      BY <1>1 DEF Opened
    <3> QED BY <3>1, OnDiskInv DEF FlowInv, IInv
  <2> QED BY <1>2, <2>1, <2>2
<1>4. CASE Open
  <2>1. Writes(Cli) \/ Cli.is = "rads"
    BY <1>4 DEF Open, FlowInv, TodoInv
  <2>2. \/ disk' = [disk EXCEPT ![Out] = Empty] /\ log' = [log EXCEPT ![Out] = <<>>]
        \/ disk' = [disk EXCEPT ![Out] = disk[Out]] /\ log' = [log EXCEPT ![Out] = log[Out]]
    <3>1. CASE Cli.append /\ disk[Out] # Missing
      BY <1>4, <3>1 DEF Open
    <3>2. CASE ~(Cli.append /\ disk[Out] # Missing)
      BY <1>4, <3>2 DEF Open
    <3> QED BY <3>1, <3>2
  <2>3. Empty.form = "jrman"
    BY DEF Empty
  <2> QED BY <1>1, <1>2, <2>1, <2>2, <2>3
<1>5. CASE WriteHeader
  <2>1. Opened /\ (Writes(Cli) \/ Cli.is = "rads") /\ disk[Out] = Empty
    BY <1>1, <1>5 DEF WriteHeader, FlowInv, TodoInv, WritesNow, IInv, ProgInv
  <2>2. (disk' = disk \/ disk' = [disk EXCEPT ![Out] = After(Empty, Header)]) /\ log' = log
    BY <1>5, <2>1 DEF WriteHeader, Succeeds, Fails
  <2>3. After(Empty, Header).form = "jrman"
    BY EmptyPlain
  <2> QED BY <1>1, <1>2, <2>1, <2>2, <2>3 DEF Opened
<1>6. CASE MergeEntry \/ DiffEntry \/ SplitEntry \/ CutEntry \/ WriteFile
  <2>1. WritesNow /\ (UNCHANGED <<disk, log>> \/ \E e : Written(e))
    BY <1>6, WritersWrite DEF FlowInv
  <2>2. Writes(Cli) \/ Cli.is = "rads"
    BY <1>6 DEF MergeEntry, DiffEntry, SplitEntry, CutEntry, WriteFile, Next1, WritesRelease, Writes
  <2>3. CASE UNCHANGED <<disk, log>>
    BY <2>3
  <2>4. CASE \E e : Written(e)
    <3>1. PICK e : Written(e)
      BY <2>4
    <3>2. \A n \in Name : n # Out => disk'[n] = disk[n] /\ log'[n] = log[n]
      BY <2>1, <3>1, WrittenFiles DEF FlowInv
    <3>3. ~IsRman(disk'[Out])
      BY <1>2, <2>1, <3>1, WrittenForm DEF FlowInv
    <3> QED BY <2>2, <3>2, <3>3
  <2> QED BY <2>1, <2>3, <2>4
<1>7. CASE Read \/ RadsEntry \/ PrintEntry \/ ChooseEntry \/ EndOfInput \/ End
           \/ (\E verdict \in {"ok", "failed"} : DownloadFile(verdict)) \/ DownloadThrows \/ Release \/ Kill
  <2>1. UNCHANGED <<disk, log>>
    BY <1>7 DEF Read, RadsEntry, PrintEntry, ChooseEntry, EndOfInput, End, DownloadFile, DownloadThrows, Release, Kill, disks
  <2> QED BY <2>1
<1>8. CASE \E n \in Name : Compress(n)
  <2>1. PICK n \in Name : Compress(n)
    BY <1>8
  <2>2. disk' = [disk EXCEPT ![n] = [OnDisk(n) EXCEPT !.form = "zrman"]] /\ log' = log /\ disk[n].form = "jrman"
    BY <2>1 DEF Compress
  <2>3. IsText(OnDisk(n))
    <3>1. FileInv(OnDisk(n), log[n], sound[n] /\ ~(rest /\ n = Out)) /\ OnDisk(n).form = "jrman"
      BY <2>2, OnDiskInv DEF FlowInv, IInv
    <3> QED BY <3>1 DEF FileInv, Plain
  <2>4. [OnDisk(n) EXCEPT !.form = "zrman"].form = "zrman"
    BY <2>3, TextIs
  <2> QED BY <1>1, <1>2, <2>2, <2>4
<1> QED BY <1>3, <1>4, <1>5, <1>6, <1>7, <1>8 DEF Next

\* The program goes on.
LEMMA ProgStep ==
    ASSUME FlowInv, Next, ~ \E command \in Commands : Start(command)
    PROVE  /\ Cli' = Cli /\ Out' = Out /\ DOMAIN prog' = DOMAIN prog
           /\ prog'.dir = prog.dir /\ prog'.url = prog.url
           /\ Read \/ todo' = todo
           /\ pc' \in {"none", "open", "header", "read", "entries", "release"}
           /\ pc' = "open" => Cli.is = "rads"
           /\ pc' = "header" => pc = "open"
           /\ pc' = "entries" => Read \/ pc = "entries"
<1>1. DOMAIN prog = {"command", "lists", "dir", "url", "ended"} /\ (pc = "release" => Cli.is = "rads")
      /\ pc \in {"none", "open", "header", "read", "entries", "release"}
  BY DEF FlowInv, TodoInv, IInv, ProgInv
<1>2. \A x : LET p == [prog EXCEPT !.ended = x]
             IN  p.command = prog.command /\ p.dir = prog.dir /\ p.url = prog.url /\ DOMAIN p = DOMAIN prog
  BY <1>1
<1>3. ASSUME prog' = prog \/ \E x : prog' = [prog EXCEPT !.ended = x]
      PROVE  Cli' = Cli /\ Out' = Out /\ DOMAIN prog' = DOMAIN prog /\ prog'.dir = prog.dir /\ prog'.url = prog.url
  BY <1>2, <1>3 DEF Cli, Out
<1>4. CASE Open \/ WriteHeader
  <2>1. prog' = prog /\ todo' = todo
    BY <1>4 DEF Open, WriteHeader, reading
  <2>2. pc' \in {"read", "header"} /\ (pc' = "header" => pc = "open")
    <3>1. CASE WriteHeader
      BY <3>1 DEF WriteHeader
    <3>2. CASE Open
      BY <3>2 DEF Open
    <3> QED BY <1>4, <3>1, <3>2
  <2> QED BY <1>3, <2>1, <2>2
<1>5. CASE Read
  <2>1. prog' = prog /\ pc' = "entries"
    BY <1>5 DEF Read
  <2> QED BY <1>3, <1>5, <2>1
<1>6. CASE MergeEntry \/ DiffEntry \/ SplitEntry \/ RadsEntry \/ PrintEntry \/ ChooseEntry
  <2>1. \E is : Next1(is)
    BY <1>6 DEF MergeEntry, DiffEntry, SplitEntry, RadsEntry, PrintEntry, ChooseEntry
  <2>2. prog' = prog /\ todo' = todo /\ pc' = "entries" /\ pc = "entries"
    BY <2>1 DEF Next1
  <2> QED BY <1>3, <2>2
<1>7. CASE CutEntry \/ WriteFile
  <2>1. prog' = prog /\ todo' = todo /\ pc' = pc /\ pc = "read"
    BY <1>7 DEF CutEntry, WriteFile, WritesRelease, reading
  <2> QED BY <1>3, <2>1
<1>8. CASE EndOfInput \/ End
  <2>1. todo' = todo /\ pc' \in {"none", "read", "release"}
    BY <1>8 DEF EndOfInput, End, reading
  <2>2. prog' = prog \/ \E x : prog' = [prog EXCEPT !.ended = x]
    <3>1. CASE EndOfInput
      BY <3>1 DEF EndOfInput
    <3>2. CASE End
      <4>1. prog' = [prog EXCEPT !.ended = IF prog.ended = "no" THEN "ok" ELSE prog.ended]
        BY <3>2 DEF End
      <4> QED BY <4>1
    <3> QED BY <1>8, <3>1, <3>2
  <2> QED BY <1>3, <2>1, <2>2
<1>9. CASE DownloadThrows \/ \E verdict \in {"ok", "failed"} : DownloadFile(verdict)
  <2>1. CASE DownloadThrows
    <3>1. todo' = todo /\ pc' = "none" /\ prog' = [prog EXCEPT !.ended = "thrown"]
      BY <2>1 DEF DownloadThrows, reading
    <3> QED BY <1>3, <3>1
  <2>2. ASSUME NEW verdict, DownloadFile(verdict)
        PROVE  /\ todo' = todo /\ pc' = pc /\ pc = "read"
               /\ \E x : prog' = [prog EXCEPT !.ended = x]
    <3>1. prog' = [prog EXCEPT !.ended = IF verdict = "failed" THEN "failed" ELSE prog.ended]
      BY <2>2 DEF DownloadFile
    <3> QED BY <2>2, <3>1 DEF DownloadFile, Downloads, reading
  <2> QED BY <1>3, <1>9, <2>1, <2>2
<1>10. CASE Release
  <2>1. todo' = todo /\ pc' \in {"none", "open"} /\ Cli.is = "rads"
    BY <1>1, <1>10 DEF Release, reading
  <2>2. prog' = prog \/ prog' = [prog EXCEPT !.ended = "thrown"]
    BY <1>10 DEF Release
  <2> QED BY <1>3, <2>1, <2>2
<1>11. CASE Kill
  <2>1. todo' = todo /\ pc' = "none" /\ prog' = [prog EXCEPT !.ended = "killed"]
    BY <1>11 DEF Kill, reading
  <2> QED BY <1>3, <2>1
<1>12. CASE \E n \in Name : Compress(n)
  <2>1. prog' = prog /\ todo' = todo /\ pc' = pc /\ pc = "none"
    BY <1>12 DEF Compress, reading
  <2> QED BY <1>3, <2>1
<1> QED BY <1>4, <1>5, <1>6, <1>7, <1>8, <1>9, <1>10, <1>11, <1>12 DEF Next

LEMMA StartStep ==
    ASSUME NEW command \in Commands, Start(command)
    PROVE  /\ Cli' = command /\ Out' = command.out /\ DOMAIN prog' = {"command", "lists", "dir", "url", "ended"}
           /\ prog'.dir = dir /\ dir' = dir /\ prog'.ended = "no"
           /\ prog'.url = (command.is = "dl" /\ HasKnownBundle(disk[Last(command.ins)]))
           /\ todo' = command.ins /\ todo' \in Seq(Name)
           /\ pc' = IF Writes(command) THEN "open" ELSE "read"
           /\ from' = <<>> /\ chosen' = <<>> /\ printed' = <<>>
BY CommandsAssumption DEF Start, Cli, Out

LEMMA FlowKeeps ==
    ASSUME FlowInv, [Next]_vars
    PROVE  FlowInv'
<1>1. IInv'
  BY NextKeeps DEF FlowInv
<1>2. CASE UNCHANGED vars
  <2>1. UNCHANGED <<disk, log, todo, prog, pc>>
    BY <1>2 DEF vars, disks, reading
  <2>2. RmanInv' /\ TodoInv'
    BY <2>1 DEF FlowInv, TodoInv, RmanInv, Begun, Cli, Out, Writes
  <2> QED BY <1>1, <2>2 DEF FlowInv
<1>3. CASE Next
  <2>1. RmanInv'
    BY <1>3, FilesStep DEF FlowInv, RmanInv
  <2>2. ASSUME NEW command \in Commands, Start(command) PROVE TodoInv'
    <3>1. Len(command.ins) \in Nat /\ todo' = command.ins /\ Cli' = command /\ Begun' = 0
      BY <2>2, StartStep, CommandsAssumption DEF Begun
    <3>2. pc' = IF Writes(command) THEN "open" ELSE "read"
      BY <2>2, StartStep
    <3>3. DOMAIN prog' = {"command", "lists", "dir", "url", "ended"}
      BY <2>2, StartStep
    <3> QED BY <3>1, <3>2, <3>3 DEF TodoInv
  <2>3. ASSUME ~ \E command \in Commands : Start(command) PROVE TodoInv'
    <3>1. Cli' = Cli /\ DOMAIN prog' = {"command", "lists", "dir", "url", "ended"} /\ (Read \/ todo' = todo)
          /\ pc' \in {"none", "open", "header", "read", "entries", "release"}
          /\ (pc' = "open" => Cli.is = "rads") /\ (pc' = "header" => pc = "open")
          /\ (pc' = "entries" => Read \/ pc = "entries")
      BY <1>3, <2>3, ProgStep DEF FlowInv, TodoInv
    <3>2. /\ Len(todo) <= Len(Cli.ins) /\ \A i \in 1 .. Len(todo) : todo[i] = Cli.ins[Begun + i]
          /\ pc \in {"open", "header"} => Writes(Cli) \/ Cli.is = "rads"
          /\ pc \in {"open", "header"} /\ Writes(Cli) => todo = Cli.ins
          /\ pc = "entries" => Begun > 0
          /\ Begun = Len(Cli.ins) - Len(todo) /\ Begun' = Len(Cli'.ins) - Len(todo')
      BY DEF FlowInv, TodoInv, Begun
    <3>3. todo \in Seq(Name) /\ Len(Cli.ins) \in Nat /\ Len(todo) \in Nat /\ ~(Writes(Cli) /\ Cli.is = "rads")
      BY CommandsAssumption DEF FlowInv, IInv, ProgInv, Writes
    <3>4. CASE Read
      <4>1. todo # <<>> /\ todo' = Tail(todo) /\ pc' = "entries"
        BY <3>4 DEF Read
      <4>2. Len(todo) \in Nat \ {0} /\ Len(todo') = Len(todo) - 1 /\ \A i \in 1 .. Len(todo) - 1 : todo'[i] = todo[i + 1]
        BY <3>3, <4>1
      <4>3. Begun' = Begun + 1 /\ Begun' > 0
        BY <3>1, <3>2, <3>3, <4>2
      <4>4. \A i \in 1 .. Len(todo') : todo'[i] = Cli'.ins[Begun' + i]
        BY <3>1, <3>2, <3>3, <4>2, <4>3
      <4>5. Len(todo') <= Len(Cli'.ins)
        BY <3>1, <3>2, <3>3, <4>2
      <4> HIDE DEF Begun
      <4> QED BY <3>1, <4>1, <4>3, <4>4, <4>5 DEF TodoInv
    <3>5. CASE todo' = todo
      <4>1. Begun' = Begun
        BY <3>1, <3>5 DEF Begun
      <4>2. pc' = "entries" => Begun' > 0
        <5>1. Read => Len(todo') = Len(todo) - 1
          BY <3>3 DEF Read
        <5> QED BY <3>1, <3>2, <3>3, <3>5, <4>1, <5>1
      <4>3. Writes(Cli)' = Writes(Cli)
        BY <3>1 DEF Writes
      <4> QED BY <3>1, <3>2, <3>3, <3>5, <4>1, <4>2, <4>3 DEF TodoInv
    <3> QED BY <3>1, <3>4, <3>5
  <2>4. TodoInv'
    BY <2>2, <2>3
  <2> QED BY <1>1, <2>1, <2>4 DEF FlowInv
<1> QED BY <1>2, <1>3

LEMMA Flow == Spec => []FlowInv
<1>1. Init => FlowInv
  <2> SUFFICES ASSUME Init PROVE FlowInv
    OBVIOUS
  <2>1. IInv
    BY InitIInv
  <2>2. RmanInv
    BY DEF Init, RmanInv
  <2>3. TodoInv
    <3>1. DOMAIN prog = {"command", "lists", "dir", "url", "ended"} /\ pc = "none" /\ todo = <<>>
      BY DEF Init
    <3>2. Len(Cli.ins) \in Nat
      BY <2>1, CommandsAssumption DEF IInv, ProgInv
    <3> QED BY <3>1, <3>2 DEF TodoInv
  <2> QED BY <2>1, <2>2, <2>3 DEF FlowInv
<1>2. FlowInv /\ [Next]_vars => FlowInv'
  BY FlowKeeps
<1> QED BY <1>1, <1>2, PTL DEF Spec

\* What is read of a manifest was written to it; where its end is found, all of it.
LEMMA InputIs ==
    ASSUME FlowInv, NEW n \in Name
    PROVE  LET read == ReadFile(OnDisk(n))
           IN  /\ AreSound(read.entries) /\ IsSequence(log[n])
               /\ IsPrefix(read.entries, log[n])
               /\ read.ok => read.entries = log[n]
<1>1. FileInv(OnDisk(n), log[n], sound[n] /\ ~(rest /\ n = Out)) /\ OnDisk(n).form = disk[n].form
  BY OnDiskInv DEF FlowInv, IInv
<1>2. AreSound(ReadFile(OnDisk(n)).entries) /\ IsSequence(log[n])
  BY <1>1, FileReads DEF FileInv
<1>3. CASE ~IsRman(OnDisk(n))
  BY <1>1, <1>2, <1>3, FileReads
<1>4. CASE IsRman(OnDisk(n))
  <2>1. OnDisk(n) = disk[n]
    <3>1. rest /\ n = Out => disk[n].form = "jrman"
      BY DEF FlowInv, IInv, ProgInv, Opened
    <3>2. OnDisk(n).form = "rman"
      BY <1>4 DEF IsRman
    <3> QED BY <1>1, <3>1, <3>2 DEF OnDisk
  <2>2. ReadFile(OnDisk(n)).entries = log[n]
    BY <1>4, <2>1 DEF FlowInv, RmanInv
  <2>3. IsPrefix(log[n], log[n])
    <3>1. Len(log[n]) \in Nat
      BY <1>2, SequenceIs DEF IsSequence
    <3> QED BY <1>2, <3>1, PrefixIs
  <2> QED BY <1>2, <2>2, <2>3
<1> QED BY <1>3, <1>4

-----------------------------------------------------------------------------
(***************************************************************************)
(* What rman-dl leaves in its directory                                    *)
(***************************************************************************)

\* As in UpdateComplete, the entries with the path of an entry; and an entry of the
\* manifest of which the directory should get the file.
SamePath(i, e) == {f \in ToSet(EntriesOf(i)) : f.path = e.path}
HadOlder(e) == \A f \in SamePath(1, e) : Matching(f) => Holds(prog.dir, f)
Wanted(e) == Matching(e) /\ SamePath(Len(Cli.ins), e) = {e} /\ (Len(Cli.ins) = 2 => HadOlder(e))
Settled(e) == Wanted(e) => e \in ToSet(chosen) \/ Holds(dir, e)
AllSettled == \A e \in ToSet(EntriesOf(Len(Cli.ins))) : Settled(e)

\* The program runs, or ended well.  What is chosen, or the older manifest has, is
\* of the manifests; the directory is as it was until both are read; from then on
\* what is wanted is still to be looked at, or to be downloaded, or there.
Updates == Cli.is = "dl" /\ (pc # "none" \/ prog.ended = "ok")
UpdateInv ==
    Updates =>
        /\ pc \in {"none", "read", "entries"} /\ (pc = "none" => todo = <<>> /\ chosen = <<>>)
        /\ \A f \in ToSet(from) : Len(Cli.ins) = 2 /\ f \in ToSet(EntriesOf(1)) /\ Matching(f)
        /\ ToSet(chosen) \subseteq ToSet(EntriesOf(Len(Cli.ins)))
        /\ pc = "entries" \/ todo # <<>> => dir = prog.dir
        /\ pc = "entries" => ToSet(entries) \subseteq ToSet(EntriesOf(Begun))
        /\ pc = "entries" /\ todo = <<>> /\ readable =>
              \A e \in ToSet(EntriesOf(Len(Cli.ins))) : e \in ToSet(entries) \/ Settled(e)
        /\ pc # "entries" /\ todo = <<>> /\ prog.ended \in {"no", "ok"} => AllSettled

\* The entry that rman-diff and rman-dl know under the path is the last one.
LEMMA KnownLatest ==
    ASSUME NEW e, IsSequence(from)
    PROVE  LatestIn(from, e) = IF Known(e) = 0 THEN {} ELSE {Reverse(from)[Known(e)]}
<1> DEFINE r == Reverse(from)
           B == {i \in 1 .. Len(r) : r[i].path = e.path}
           n == Len(from)
           A == {k \in 1 .. n : from[k].path = e.path}
<1>1. n \in Nat /\ DOMAIN from = 1 .. n
  BY SequenceIs DEF IsSequence
<1>2. r = [i \in 1 .. n |-> from[(n - i) + 1]]
  BY DEF Reverse
<1>3. Len(r) = n
  <2> DEFINE T == ToSet(from)
  <2>1. \A i \in 1 .. n : from[(n - i) + 1] \in T
    BY <1>1 DEF ToSet
  <2>2. r \in [1 .. n -> T]
    <3> HIDE DEF T, r
    <3> QED BY <1>2, <2>1
  <2> HIDE DEF T, r
  <2> QED BY <1>1, <2>2
<1>4. Known(e) = IF B # {} THEN Min(B) ELSE 0
  BY DEF Known, SelectInSeq
<1>5. LatestIn(from, e) = {from[k] : k \in {k \in A : \A l \in A : l <= k}}
  BY <1>1 DEF LatestIn
<1>6. \A i \in 1 .. n : r[i] = from[(n - i) + 1] /\ (n - i) + 1 \in 1 .. n
  BY <1>1, <1>2
<1> HIDE DEF r
<1>7. CASE B = {}
  <2>1. Known(e) = 0
    BY <1>4, <1>7
  <2>2. A = {}
    <3> SUFFICES ASSUME NEW k \in A PROVE FALSE
      OBVIOUS
    <3>1. (n - k) + 1 \in 1 .. n /\ (n - ((n - k) + 1)) + 1 = k
      BY <1>1
    <3>2. (n - k) + 1 \in B
      BY <1>3, <1>6, <3>1
    <3> QED BY <1>7, <3>2
  <2> QED BY <1>5, <2>1, <2>2
<1>8. CASE B # {}
  <2>1. Known(e) \in B /\ \A i \in B : Known(e) <= i
    <3>1. B \subseteq Nat
      BY <1>1, <1>3
    <3>2. Known(e) = Min(B)
      BY <1>4, <1>8
    <3> HIDE DEF B
    <3>3. \E m \in B : \A k \in B : m <= k
      BY <1>8, <3>1, LeastNatural
    <3> QED BY <3>2, <3>3 DEF Min
  <2>2. PICK m \in 1 .. n : m = (n - Known(e)) + 1
    BY <1>1, <1>3, <2>1
  <2>3. Known(e) \in 1 .. n /\ r[Known(e)] = from[m] /\ Known(e) # 0
    BY <1>3, <1>6, <2>1, <2>2
  <2>4. m \in A
    BY <2>1, <2>3
  <2>5. ASSUME NEW l \in A PROVE l <= m
    <3>1. (n - l) + 1 \in 1 .. n /\ (n - ((n - l) + 1)) + 1 = l
      BY <1>1
    <3>2. (n - l) + 1 \in B
      BY <1>3, <1>6, <3>1
    <3>3. Known(e) <= (n - l) + 1
      BY <2>1, <3>2
    <3> QED BY <1>1, <2>2, <2>3, <3>3
  <2>6. {k \in A : \A l \in A : l <= k} = {m}
    <3>1. ASSUME NEW k \in A, \A l \in A : l <= k PROVE k = m
      BY <1>1, <2>4, <2>5, <3>1
    <3> HIDE DEF A
    <3> QED BY <2>4, <2>5, <3>1
  <2>7. LatestIn(from, e) = {from[m]}
    <3> HIDE DEF A
    <3> QED BY <1>5, <2>6
  <2> QED BY <2>3, <2>7 DEF r
<1> QED BY <1>7, <1>8

\* So it is one of those that were kept, and has the path.
LEMMA KnownIs ==
    ASSUME NEW e, IsSequence(from), Known(e) # 0
    PROVE  Reverse(from)[Known(e)] \in ToSet(from) /\ Reverse(from)[Known(e)].path = e.path
<1>1. Reverse(from)[Known(e)] \in LatestIn(from, e)
  BY KnownLatest
<1>2. \A f \in LatestIn(from, e) : f \in ToSet(from) /\ f.path = e.path
  BY DEF LatestIn, ToSet
<1> QED BY <1>1, <1>2

\* No step of rman-dl changes what it is to do.
LEMMA UpdateStays ==
    ASSUME FlowInv, Cli.is = "dl", Next, ~ \E command \in Commands : Start(command)
    PROVE  /\ Cli' = Cli /\ prog'.dir = prog.dir /\ Len(Cli.ins) \in {1, 2}
           /\ \A i \in 1 .. Len(Cli.ins) : Cli.ins[i] \in Name /\ EntriesOf(i)' = EntriesOf(i)
           /\ \A e : Matching(e)' = Matching(e) /\ Wanted(e)' = Wanted(e)
<1>1. Cli' = Cli /\ prog'.dir = prog.dir
  BY ProgStep
<1>2. Len(Cli.ins) \in {1, 2} /\ Cli.ins \in Seq(Name)
  BY CommandsAssumption DEF FlowInv, IInv, ProgInv
<1>3. \A n \in Name : log'[n] = log[n]
  BY FilesStep DEF Writes
<1>4. \A i \in 1 .. Len(Cli.ins) : Cli.ins[i] \in Name /\ EntriesOf(i)' = EntriesOf(i)
  BY <1>1, <1>2, <1>3 DEF EntriesOf
<1>5. EntriesOf(1)' = EntriesOf(1) /\ EntriesOf(Len(Cli.ins))' = EntriesOf(Len(Cli.ins))
  <2>1. 1 \in 1 .. Len(Cli.ins) /\ \E i \in 1 .. Len(Cli.ins) : i = Len(Cli.ins)
    <3>1. Len(Cli.ins) = 1 \/ Len(Cli.ins) = 2
      BY <1>2
    <3>2. \A l \in Nat : l = 1 \/ l = 2 => 1 \in 1 .. l /\ l \in 1 .. l
      OBVIOUS
    <3>3. Len(Cli.ins) \in Nat
      BY <1>2
    <3> QED BY <3>1, <3>2, <3>3
  <2>2. PICK i \in 1 .. Len(Cli.ins) : i = Len(Cli.ins)
    BY <2>1
  <2> QED BY <1>1, <1>4, <2>1, <2>2
<1>6. \A e : Matching(e)' = Matching(e)
  BY <1>1 DEF Matching
<1>7. \A e : SamePath(1, e)' = SamePath(1, e) /\ SamePath(Len(Cli.ins), e)' = SamePath(Len(Cli.ins), e)
  BY <1>1, <1>5 DEF SamePath
<1>8. \A e : HadOlder(e)' = HadOlder(e)
  BY <1>1, <1>6, <1>7 DEF HadOlder, Holds
<1>9. \A e : Wanted(e)' = Wanted(e)
  BY <1>1, <1>6, <1>7, <1>8 DEF Wanted
<1> QED BY <1>1, <1>2, <1>4, <1>6, <1>9

\* The program begins.
LEMMA UpdateStarts ==
    ASSUME NEW command \in Commands, Start(command)
    PROVE  UpdateInv'
<1> SUFFICES ASSUME command.is = "dl"
             PROVE  UpdateInv'
  BY StartStep DEF UpdateInv, Updates
<1>1. /\ Cli' = command /\ pc' = "read" /\ todo' = command.ins /\ from' = <<>> /\ chosen' = <<>>
      /\ dir' = dir /\ prog'.dir = dir
  BY StartStep DEF Writes
<1>2. command.ins \in Seq(Name) /\ Len(command.ins) \in {1, 2}
  BY CommandsAssumption
<1>3. todo' # <<>>
  BY <1>1, <1>2
<1>4. ToSet(from') = {} /\ ToSet(chosen') = {}
  BY <1>1, EmptyIs
<1> QED BY <1>1, <1>3, <1>4 DEF UpdateInv

\* The next manifest is read.
LEMMA UpdateReads ==
    ASSUME FlowInv, UpdateInv, Updates, Read
    PROVE  UpdateInv'
<1>1. /\ pc = "read" /\ todo # <<>> /\ pc' = "entries" /\ todo' = Tail(todo)
      /\ UNCHANGED <<dir, prog, from, chosen>>
      /\ entries' = ReadFile(OnDisk(Head(todo))).entries /\ readable' = ReadFile(OnDisk(Head(todo))).ok
  BY DEF Read, InputOf, Updates
<1>2. /\ Cli' = Cli /\ prog'.dir = prog.dir /\ Len(Cli.ins) \in {1, 2}
      /\ \A i \in 1 .. Len(Cli.ins) : Cli.ins[i] \in Name /\ EntriesOf(i)' = EntriesOf(i)
      /\ \A e : Matching(e)' = Matching(e)
  <2>1. Next /\ ~ \E command \in Commands : Start(command)
    BY <1>1 DEF Next, Start
  <2> QED BY <2>1, UpdateStays DEF Updates
<1>3. /\ dir = prog.dir
      /\ \A f \in ToSet(from) : Len(Cli.ins) = 2 /\ f \in ToSet(EntriesOf(1)) /\ Matching(f)
      /\ ToSet(chosen) \subseteq ToSet(EntriesOf(Len(Cli.ins)))
  BY <1>1 DEF UpdateInv
<1>4. /\ todo \in Seq(Name) /\ Len(todo) \in 1 .. Len(Cli.ins) /\ Head(todo) = todo[1]
      /\ todo[1] = Cli.ins[Begun + 1] /\ Len(todo') = Len(todo) - 1 /\ (todo' = <<>> <=> Len(todo') = 0)
  <2>1. todo \in Seq(Name)
    BY DEF FlowInv, IInv, ProgInv
  <2>2. Len(todo) \in Nat \ {0} /\ Head(todo) = todo[1] /\ Len(todo') = Len(todo) - 1 /\ (todo' = <<>> <=> Len(todo') = 0)
    <3>1. Tail(todo) \in Seq(Name) /\ Len(todo) \in Nat \ {0} /\ Head(todo) = todo[1] /\ Len(Tail(todo)) = Len(todo) - 1
      BY <1>1, <2>1
    <3>2. \A s \in Seq(Name) : s = <<>> <=> Len(s) = 0
      OBVIOUS
    <3> QED BY <1>1, <3>1, <3>2
  <2>3. Len(todo) <= Len(Cli.ins) /\ \A i \in 1 .. Len(todo) : todo[i] = Cli.ins[Begun + i]
    BY DEF FlowInv, TodoInv
  <2> QED BY <1>2, <2>1, <2>2, <2>3
<1>5. Begun' = Begun + 1 /\ Begun' \in 1 .. Len(Cli.ins) /\ (todo' = <<>> <=> Begun' = Len(Cli.ins))
  BY <1>2, <1>4 DEF Begun
<1>6. PICK i \in 1 .. Len(Cli.ins) : i = Begun + 1
  BY <1>5
<1> DEFINE n == Cli.ins[i]
<1>7. n \in Name /\ Head(todo) = n /\ log[n] = EntriesOf(i) /\ EntriesOf(i)' = EntriesOf(i)
  BY <1>2, <1>4, <1>6 DEF EntriesOf
<1>8. /\ IsSequence(entries') /\ IsSequence(EntriesOf(i)) /\ IsPrefix(entries', EntriesOf(i))
      /\ readable' => entries' = EntriesOf(i)
  BY <1>1, <1>7, InputIs DEF AreSound
<1>9. ToSet(entries') \subseteq ToSet(EntriesOf(i))
  <2>1. /\ Len(entries') \in Nat /\ DOMAIN entries' = 1 .. Len(entries')
        /\ Len(EntriesOf(i)) \in Nat /\ DOMAIN EntriesOf(i) = 1 .. Len(EntriesOf(i))
    BY <1>8, SequenceIs DEF IsSequence
  <2>2. Len(entries') <= Len(EntriesOf(i)) /\ \A k \in 1 .. Len(entries') : entries'[k] = EntriesOf(i)[k]
    BY <1>8, <2>1, PrefixIs
  <2> QED BY <2>1, <2>2 DEF ToSet
<1>10. todo' = <<>> /\ readable' => ToSet(entries') = ToSet(EntriesOf(Len(Cli.ins)))
  BY <1>5, <1>6, <1>8
<1>11. EntriesOf(1)' = EntriesOf(1) /\ EntriesOf(Len(Cli.ins))' = EntriesOf(Len(Cli.ins))
  BY <1>2, 1 \in 1 .. Len(Cli.ins), Len(Cli.ins) \in 1 .. Len(Cli.ins)
<1>12. ToSet(entries') \subseteq ToSet(EntriesOf(Begun))'
  BY <1>5, <1>6, <1>7, <1>9
<1> QED BY <1>1, <1>2, <1>3, <1>10, <1>11, <1>12 DEF UpdateInv

LEMMA HeadTail ==
    ASSUME NEW s, IsSequence(s), s # <<>>
    PROVE  ToSet(s) = {Head(s)} \cup ToSet(Tail(s)) /\ IsSequence(Tail(s))
<1>1. /\ IsSequence(Tail(s)) /\ ToSet(Tail(s)) \subseteq ToSet(s) /\ Head(s) \in ToSet(s)
      /\ Len(s) \in Nat \ {0} /\ Len(Tail(s)) = Len(s) - 1
      /\ \A i \in 1 .. Len(s) - 1 : Tail(s)[i] = s[i + 1]
  BY TailIs
<1>2. DOMAIN s = 1 .. Len(s) /\ DOMAIN Tail(s) = 1 .. Len(s) - 1 /\ Head(s) = s[1]
  BY <1>1, SequenceIs DEF IsSequence
<1>3. ASSUME NEW i \in 1 .. Len(s) PROVE s[i] \in {Head(s)} \cup ToSet(Tail(s))
  <2>1. CASE i = 1
    BY <1>2, <2>1
  <2>2. CASE i # 1
    <3>1. i - 1 \in 1 .. Len(s) - 1 /\ s[i] = Tail(s)[i - 1]
      BY <1>1, <2>2
    <3> QED BY <1>2, <3>1 DEF ToSet
  <2> QED BY <2>1, <2>2
<1> QED BY <1>1, <1>2, <1>3 DEF ToSet

\* An entry is chosen, or passed over.
LEMMA UpdateChooses ==
    ASSUME FlowInv, UpdateInv, Updates, ChooseEntry
    PROVE  UpdateInv'
<1>e. PICK e : e = Head(entries)
  OBVIOUS
<1>l. PICK last : last = Len(Cli.ins)
  OBVIOUS
<1>1. /\ pc = "entries" /\ entries # <<>> /\ entries' = Tail(entries)
      /\ UNCHANGED <<dir, prog, pc, todo, readable>>
  BY DEF ChooseEntry, Next1
<1>2. /\ Cli' = Cli /\ prog'.dir = prog.dir /\ last \in {1, 2} /\ EntriesOf(1)' = EntriesOf(1)
      /\ EntriesOf(last)' = EntriesOf(last)
      /\ \A f : Matching(f)' = Matching(f) /\ Wanted(f)' = Wanted(f)
  <2>1. Next /\ ~ \E command \in Commands : Start(command)
    BY <1>1 DEF Next, Start
  <2>2. /\ Cli' = Cli /\ prog'.dir = prog.dir /\ last \in {1, 2}
        /\ \A i \in 1 .. last : EntriesOf(i)' = EntriesOf(i)
        /\ \A f : Matching(f)' = Matching(f) /\ Wanted(f)' = Wanted(f)
    BY <1>l, <2>1, UpdateStays DEF Updates
  <2> QED BY <2>2, 1 \in 1 .. last, last \in 1 .. last
<1>3. /\ dir = prog.dir
      /\ \A f \in ToSet(from) : last = 2 /\ f \in ToSet(EntriesOf(1)) /\ Matching(f)
      /\ ToSet(chosen) \subseteq ToSet(EntriesOf(last))
      /\ ToSet(entries) \subseteq ToSet(EntriesOf(Begun))
      /\ todo = <<>> /\ readable => \A f \in ToSet(EntriesOf(last)) : f \in ToSet(entries) \/ Settled(f)
  BY <1>l, <1>1 DEF UpdateInv
<1>4. IsSequence(entries) /\ IsSequence(from) /\ IsSequence(chosen)
  BY DEF FlowInv, IInv, DataInv, AreSound, Updates
<1>5. e \in ToSet(entries) /\ ToSet(entries') \subseteq ToSet(entries) /\ ToSet(entries) = {e} \cup ToSet(entries')
  BY <1>e, <1>1, <1>4, HeadTail
<1>6. Begun' = Begun /\ Begun = last - Len(todo) /\ Len(todo) \in Nat /\ Begun > 0 /\ (todo = <<>> <=> Len(todo) = 0)
  <2>1. todo \in Seq(Name)
    BY DEF FlowInv, IInv, ProgInv
  <2> QED BY <1>l, <1>1, <1>2, <2>1 DEF Begun, FlowInv, TodoInv
<1>7. ToSet(entries') \subseteq ToSet(EntriesOf(Begun))'
  <2>1. Begun \in {1, last}
    BY <1>2, <1>6
  <2>2. ToSet(EntriesOf(Begun))' = ToSet(EntriesOf(Begun))
    BY <1>2, <1>6, <2>1
  <2> QED BY <1>3, <1>5, <2>2
<1>8. CASE Older
  <2>1. last = 2 /\ todo # <<>> /\ Begun = 1 /\ chosen' = chosen /\ from' \in {from, Append(from, e)}
        /\ (from' = from \/ Matching(e))
    BY <1>e, <1>l, <1>2, <1>6, <1>8 DEF ChooseEntry, Older
  <2>2. \A f \in ToSet(from') : f \in ToSet(EntriesOf(1)) /\ Matching(f)
    <3>1. from' = Append(from, e) => ToSet(from') = ToSet(from) \cup {e}
      BY <1>4, AppendIs
    <3> QED BY <1>3, <1>5, <2>1, <3>1
  <2> QED BY <1>l, <1>1, <1>2, <1>3, <1>7, <2>1, <2>2 DEF UpdateInv
<1>9. CASE ~Older
  <2>1. todo = <<>> /\ Begun = last /\ from' = from
        /\ chosen' = IF ~Skipped(e) /\ Matching(e) THEN Append(chosen, e) ELSE chosen
    <3>1. ~(last = 2 /\ Len(todo) = 1)
      BY <1>l, <1>9 DEF Older
    <3>2. Len(todo) = 0 /\ Begun = last
      <4>1. CASE last = 1
        BY <1>6, <4>1
      <4>2. CASE last = 2
        <5>1. 2 - Len(todo) > 0 /\ Len(todo) \in Nat
          BY <1>6, <4>2
        <5>2. \A l \in Nat : 2 - l > 0 => l \in {0, 1}
          OBVIOUS
        <5>3. Len(todo) \in {0, 1}
          BY <5>1, <5>2
        <5> QED BY <1>6, <3>1, <4>2, <5>3
      <4> QED BY <1>2, <4>1, <4>2
    <3>3. from' = from /\ chosen' = IF ~Skipped(e) /\ Matching(e) THEN Append(chosen, e) ELSE chosen
      BY <1>e, <1>9 DEF ChooseEntry
    <3> QED BY <1>6, <3>2, <3>3
  <2>2. ToSet(Append(chosen, e)) = ToSet(chosen) \cup {e}
    BY <1>4, AppendIs
  <2>3. ToSet(chosen) \subseteq ToSet(chosen') /\ ToSet(chosen') \subseteq ToSet(EntriesOf(last))
    BY <1>3, <1>5, <2>1, <2>2
  <2>4. \A f : Settled(f) => Settled(f)'
    BY <1>1, <1>2, <2>3 DEF Settled, Holds
  <2>5. Settled(e)'
    <3> SUFFICES ASSUME Wanted(e), e \notin ToSet(chosen') PROVE Holds(dir, e)
      BY <1>1, <1>2 DEF Settled, Holds
    <3>1. Skipped(e)
      BY <2>1, <2>2 DEF Wanted
    <3> DEFINE f == Reverse(from)[Known(e)]
    <3>2. f \in ToSet(from) /\ f.path = e.path /\ f.data = e.data
      BY <1>4, <3>1, KnownIs DEF Skipped
    <3>3. last = 2 /\ f \in SamePath(1, e) /\ Matching(f)
      BY <1>3, <3>2 DEF SamePath
    <3>4. Holds(prog.dir, f)
      BY <1>l, <3>3 DEF Wanted, HadOlder
    <3> QED BY <1>3, <3>2, <3>4 DEF Holds
  <2>6. readable => \A f \in ToSet(EntriesOf(last)) : f \in ToSet(entries') \/ Settled(f)'
    BY <1>3, <1>5, <2>1, <2>4, <2>5
  <2>7. from' = from /\ todo' = <<>> /\ pc' = "entries"
    BY <1>1, <2>1
  <2> QED BY <1>l, <1>1, <1>2, <1>3, <1>7, <2>3, <2>6, <2>7 DEF UpdateInv
<1> QED BY <1>8, <1>9

\* A file is downloaded.
LEMMA UpdateDownloads ==
    ASSUME FlowInv, UpdateInv, Updates, NEW verdict \in {"ok", "failed"}, DownloadFile(verdict)
    PROVE  UpdateInv'
<1>e. PICK e : e = Head(chosen)
  OBVIOUS
<1>l. PICK last : last = Len(Cli.ins)
  OBVIOUS
<1>1. /\ pc = "read" /\ todo = <<>> /\ chosen # <<>> /\ chosen' = Tail(chosen)
      /\ UNCHANGED <<pc, todo, from>>
      /\ verdict = "ok" => dir' = With(dir, e.path, e.data) /\ (prog'.ended \in {"no", "ok"} => prog.ended \in {"no", "ok"})
      /\ verdict = "failed" => prog'.ended = "failed"
  <2>1. prog' = [prog EXCEPT !.ended = IF verdict = "failed" THEN "failed" ELSE prog.ended]
    BY DEF DownloadFile
  <2>2. prog'.ended = IF verdict = "failed" THEN "failed" ELSE prog.ended
    BY <2>1 DEF FlowInv, TodoInv
  <2> QED BY <1>e, <2>2 DEF DownloadFile, Downloads, reading
<1>2. /\ Cli' = Cli /\ last \in {1, 2} /\ EntriesOf(1)' = EntriesOf(1)
      /\ EntriesOf(last)' = EntriesOf(last)
      /\ \A f : Matching(f)' = Matching(f) /\ Wanted(f)' = Wanted(f)
  <2>1. Next /\ ~ \E command \in Commands : Start(command)
    BY <1>1 DEF Next, Start
  <2>2. /\ Cli' = Cli /\ last \in {1, 2}
        /\ \A i \in 1 .. last : EntriesOf(i)' = EntriesOf(i)
        /\ \A f : Matching(f)' = Matching(f) /\ Wanted(f)' = Wanted(f)
    BY <1>l, <2>1, UpdateStays DEF Updates
  <2> QED BY <2>2, 1 \in 1 .. last, last \in 1 .. last
<1>3. /\ \A f \in ToSet(from) : last = 2 /\ f \in ToSet(EntriesOf(1)) /\ Matching(f)
      /\ ToSet(chosen) \subseteq ToSet(EntriesOf(last))
      /\ prog.ended \in {"no", "ok"} => \A f \in ToSet(EntriesOf(last)) : Settled(f)
  BY <1>l, <1>1 DEF UpdateInv, AllSettled
<1>4. e \in ToSet(chosen) /\ ToSet(chosen) = {e} \cup ToSet(chosen')
  <2>1. IsSequence(chosen)
    BY DEF FlowInv, IInv, DataInv, AreSound
  <2> QED BY <1>e, <1>1, <2>1, HeadTail
<1>5. ASSUME verdict = "ok", NEW f \in ToSet(EntriesOf(last)), Settled(f)
      PROVE  Settled(f)'
  <2>1. DOMAIN dir' = {e.path} \cup DOMAIN dir /\ dir'[e.path] = e.data
        /\ \A path \in DOMAIN dir : path # e.path => dir'[path] = dir[path]
    BY <1>1, <1>5 DEF With
  <2>2. Holds(dir, e)'
    BY <2>1 DEF Holds
  <2> SUFFICES ASSUME Wanted(f), f \notin ToSet(chosen')
               PROVE  Holds(dir, f)'
    BY <1>2 DEF Settled
  <2>3. CASE f.path = e.path
    <3>1. e \in SamePath(last, f)
      BY <1>3, <1>4, <2>3 DEF SamePath
    <3>2. e = f
      BY <1>l, <3>1 DEF Wanted
    <3> QED BY <2>2, <3>2
  <2>4. CASE f.path # e.path
    <3>1. Holds(dir, f)
      BY <1>4, <1>5, <2>4 DEF Settled
    <3> QED BY <2>1, <2>4, <3>1 DEF Holds
  <2> QED BY <2>3, <2>4
<1>6. prog'.ended \in {"no", "ok"} => AllSettled'
  <2> SUFFICES ASSUME prog'.ended \in {"no", "ok"} PROVE AllSettled'
    OBVIOUS
  <2>1. verdict = "ok" /\ prog.ended \in {"no", "ok"}
    BY <1>1
  <2>2. \A f \in ToSet(EntriesOf(last)) : Settled(f)'
    BY <1>3, <1>5, <2>1
  <2> QED BY <1>l, <1>2, <2>2 DEF AllSettled
<1> QED BY <1>l, <1>1, <1>2, <1>3, <1>4, <1>6 DEF UpdateInv

\* An input is read to its end, or the program ends.
LEMMA UpdateEnds ==
    ASSUME FlowInv, UpdateInv, Updates, EndOfInput \/ End, Updates'
    PROVE  UpdateInv'
<1>l. PICK last : last = Len(Cli.ins)
  OBVIOUS
<1>1. /\ UNCHANGED <<todo, entries, readable, dir, from, chosen>>
      /\ DOMAIN prog = {"command", "lists", "dir", "url", "ended"}
  BY DEF EndOfInput, End, reading, FlowInv, TodoInv
<1>2. /\ Cli' = Cli /\ prog'.dir = prog.dir /\ last \in {1, 2} /\ EntriesOf(1)' = EntriesOf(1)
      /\ EntriesOf(last)' = EntriesOf(last)
      /\ \A f : Matching(f)' = Matching(f) /\ Wanted(f)' = Wanted(f)
  <2>1. Next /\ ~ \E command \in Commands : Start(command)
    <3>1. pc # "none"
      BY DEF EndOfInput, End
    <3> QED BY <3>1 DEF Next, Start
  <2>2. /\ Cli' = Cli /\ prog'.dir = prog.dir /\ last \in {1, 2}
        /\ \A i \in 1 .. last : EntriesOf(i)' = EntriesOf(i)
        /\ \A f : Matching(f)' = Matching(f) /\ Wanted(f)' = Wanted(f)
    BY <1>l, <2>1, UpdateStays DEF Updates
  <2> QED BY <2>2, 1 \in 1 .. last, last \in 1 .. last
<1>3. \A f : Settled(f)' = Settled(f)
  BY <1>1, <1>2 DEF Settled, Holds
<1>4. AllSettled => AllSettled'
  BY <1>l, <1>2, <1>3 DEF AllSettled
<1>5. CASE EndOfInput
  <2>1. readable /\ pc = "entries" /\ entries = <<>> /\ pc' = "read" /\ prog' = prog
    <3>1. readable
      <4> SUFFICES ASSUME ~readable PROVE FALSE
        OBVIOUS
      <4>1. pc' = "none" /\ prog' = [prog EXCEPT !.ended = "thrown"]
        BY <1>5 DEF EndOfInput
      <4>2. prog'.ended = "thrown"
        BY <1>1, <4>1
      <4> QED BY <4>1, <4>2 DEF Updates
    <3> QED BY <1>5, <3>1 DEF EndOfInput, Updates
  <2>2. todo = <<>> => AllSettled
    BY <2>1, EmptyIs DEF UpdateInv, AllSettled
  <2> QED BY <1>l, <1>1, <1>2, <1>4, <2>1, <2>2 DEF UpdateInv
<1>6. CASE End
  <2>1. pc = "read" /\ todo = <<>> /\ chosen = <<>> /\ pc' = "none" /\ prog.ended \in {"no", "ok"}
    <3>1. pc = "read" /\ todo = <<>> /\ chosen = <<>> /\ pc' = "none"
          /\ prog' = [prog EXCEPT !.ended = IF prog.ended = "no" THEN "ok" ELSE prog.ended]
      BY <1>6 DEF End
    <3>2. prog'.ended = IF prog.ended = "no" THEN "ok" ELSE prog.ended
      BY <1>1, <3>1
    <3> QED BY <3>1, <3>2 DEF Updates
  <2>2. AllSettled
    BY <2>1 DEF UpdateInv
  <2> QED BY <1>l, <1>1, <1>2, <1>4, <2>1, <2>2 DEF UpdateInv
<1> QED BY <1>5, <1>6

LEMMA UpdateKeeps ==
    ASSUME FlowInv, UpdateInv, [Next]_vars
    PROVE  UpdateInv'
<1>1. CASE UNCHANGED vars
  <2>1. UNCHANGED <<pc, prog, todo, entries, readable, dir, from, chosen, log>>
    BY <1>1 DEF vars, disks, reading
  <2>2. Cli' = Cli /\ Begun' = Begun /\ \A i : EntriesOf(i)' = EntriesOf(i)
    BY <2>1 DEF Cli, Begun, EntriesOf
  <2>3. \A f : Matching(f)' = Matching(f) /\ Wanted(f)' = Wanted(f)
    BY <2>1, <2>2 DEF Matching, Wanted, HadOlder, SamePath, Holds
  <2>4. \A f : Settled(f)' = Settled(f)
    BY <2>1, <2>3 DEF Settled, Holds
  <2> QED BY <2>1, <2>2, <2>3, <2>4 DEF UpdateInv, Updates, AllSettled
<1>2. CASE \E command \in Commands : Start(command)
  BY <1>2, UpdateStarts
<1>3. CASE Next /\ ~ \E command \in Commands : Start(command)
  <2> SUFFICES ASSUME Updates' PROVE UpdateInv'
    BY DEF UpdateInv
  <2>1. Cli' = Cli /\ Cli.is = "dl" /\ DOMAIN prog = {"command", "lists", "dir", "url", "ended"}
    BY <1>3, ProgStep DEF Updates, FlowInv, TodoInv
  <2>2. CASE \E n \in Name : Compress(n)
    <3>1. UNCHANGED <<pc, prog, todo, entries, readable, dir, from, chosen>> /\ pc = "none"
      BY <2>2 DEF Compress, reading
    <3>2. /\ \A f : Matching(f)' = Matching(f) /\ Wanted(f)' = Wanted(f)
          /\ EntriesOf(1)' = EntriesOf(1) /\ EntriesOf(Len(Cli.ins))' = EntriesOf(Len(Cli.ins))
      <4>1. /\ Len(Cli.ins) \in {1, 2}
            /\ \A i \in 1 .. Len(Cli.ins) : EntriesOf(i)' = EntriesOf(i)
            /\ \A f : Matching(f)' = Matching(f) /\ Wanted(f)' = Wanted(f)
        BY <1>3, <2>1, UpdateStays
      <4> QED BY <2>1, <4>1, 1 \in 1 .. Len(Cli.ins), Len(Cli.ins) \in 1 .. Len(Cli.ins)
    <3>3. \A f : Settled(f)' = Settled(f)
      BY <3>1, <3>2 DEF Settled, Holds
    <3>4. AllSettled' = AllSettled
      BY <2>1, <3>2, <3>3 DEF AllSettled
    <3> QED BY <2>1, <3>1, <3>2, <3>4 DEF UpdateInv, Updates
  <2>3. CASE ~ \E n \in Name : Compress(n)
    <3>1. pc # "none"
      BY <1>3, <2>3 DEF Next, Start, Open, WriteHeader, Read, MergeEntry, DiffEntry, SplitEntry, RadsEntry,
            PrintEntry, ChooseEntry, CutEntry, EndOfInput, End, DownloadFile, DownloadThrows, Downloads,
            Release, WriteFile, WritesRelease, Kill, Next1
    <3>2. Updates /\ pc \in {"read", "entries"}
      BY <2>1, <3>1 DEF Updates, UpdateInv
    <3>3. Read \/ ChooseEntry \/ EndOfInput \/ End \/ DownloadThrows \/ Kill
          \/ \E verdict \in {"ok", "failed"} : DownloadFile(verdict)
      BY <1>3, <2>1, <2>3, <3>2 DEF Next, Open, WriteHeader, MergeEntry, DiffEntry, SplitEntry, RadsEntry,
            PrintEntry, CutEntry, Release, WriteFile, WritesRelease, Next1
    <3>4. ~DownloadThrows /\ ~Kill
      <4>1. \A x : [prog EXCEPT !.ended = x].ended = x
        BY <2>1
      <4> QED BY <4>1 DEF DownloadThrows, Kill, Updates
    <3> QED BY <3>2, <3>3, <3>4, UpdateReads, UpdateChooses, UpdateEnds, UpdateDownloads
  <2> QED BY <2>2, <2>3
<1> QED BY <1>1, <1>2, <1>3

LEMMA Updating == Spec => [](FlowInv /\ UpdateInv)
<1>1. Init => UpdateInv
  BY DEF Init, UpdateInv, Updates
<1>2. FlowInv /\ UpdateInv /\ [Next]_vars => UpdateInv'
  BY UpdateKeeps
<1> QED BY <1>1, <1>2, Flow, PTL DEF Spec

-----------------------------------------------------------------------------
(***************************************************************************)
(* What is kept of a sequence, element by element                          *)
(***************************************************************************)

LEMMA OnlyEmpty ==
    ASSUME NEW T
    PROVE  Only(<<>>, T) = <<>>
<1>1. PICK kept : KeptOf(kept, <<>>, T)
  BY EmptyIs, KeptExist
<1> QED BY <1>1, EmptyIs DEF KeptOf

LEMMA OnlyAppend ==
    ASSUME NEW s, IsSequence(s), NEW e, NEW T
    PROVE  Only(Append(s, e), T) = IF e \in T THEN Append(Only(s, T), e) ELSE Only(s, T)
<1> DEFINE t == Append(s, e)
           n == Len(s)
<1>1. /\ IsSequence(t) /\ Len(t) = n + 1 /\ n \in Nat
      /\ \A i \in 1 .. n : t[i] = s[i]
      /\ t[n + 1] = e
  BY AppendIs, SequenceIs DEF IsSequence
<1> HIDE DEF t
<1>2. PICK f : KeptOf(f, s, T)
  BY KeptExist
<1>3. PICK g : KeptOf(g, t, T)
  BY <1>1, KeptExist
<1> DEFINE P == {i \in Nat : f[i] = g[i]}
<1>4. 0 \in P
  BY <1>2, <1>3 DEF KeptOf
<1>5. ASSUME NEW i \in 1 .. n, i - 1 \in P PROVE i \in P
  <2>1. i \in 1 .. Len(t) /\ t[i] = s[i] /\ f[i - 1] = g[i - 1] /\ i \in Nat
    BY <1>1, <1>5
  <2>2. g[i] = IF t[i] \in T THEN Append(g[i - 1], t[i]) ELSE g[i - 1]
    BY <1>3, <2>1 DEF KeptOf
  <2>3. f[i] = IF s[i] \in T THEN Append(f[i - 1], s[i]) ELSE f[i - 1]
    BY <1>2 DEF KeptOf
  <2> QED BY <2>1, <2>2, <2>3
<1>6. n \in P
  <2> HIDE DEF P, n
  <2>1. \A i \in 0 .. n : i \in P
    BY <1>1, <1>4, <1>5, UpTo
  <2> QED BY <1>1, <2>1
<1>7. Only(s, T) = f[n] /\ Only(t, T) = g[n + 1]
  BY <1>1, <1>2, <1>3 DEF KeptOf
<1>8. g[n + 1] = IF e \in T THEN Append(g[n], e) ELSE g[n]
  <2>1. n + 1 \in 1 .. Len(t) /\ (n + 1) - 1 = n
    BY <1>1
  <2> QED BY <1>1, <1>3, <2>1 DEF KeptOf
<1> QED BY <1>6, <1>7, <1>8 DEF t

\* A function of each element, and of one more.
LEMMA MapAppends ==
    ASSUME NEW s, IsSequence(s), NEW e, NEW f
    PROVE  [k \in DOMAIN Append(s, e) |-> f[Append(s, e)[k]]] = Append([k \in DOMAIN s |-> f[s[k]]], f[e])
<1> DEFINE t == Append(s, e)
           r == [k \in DOMAIN s |-> f[s[k]]]
           q == [k \in DOMAIN t |-> f[t[k]]]
           S == {f[s[k]] : k \in DOMAIN s} \cup {f[e]}
           n == Len(s)
<1>1. /\ n \in Nat /\ DOMAIN s = 1 .. n /\ DOMAIN t = 1 .. n + 1
      /\ \A i \in 1 .. n : t[i] = s[i]
      /\ t[n + 1] = e
  BY AppendIs, SequenceIs DEF IsSequence
<1> HIDE DEF t
<1>2. r = [k \in 1 .. n |-> f[s[k]]] /\ \A k \in 1 .. n : f[s[k]] \in S
  BY <1>1
<1>3. r \in Seq(S) /\ Len(r) = n /\ f[e] \in S /\ \A k \in 1 .. n : r[k] = f[s[k]]
  <2> HIDE DEF n
  <2>1. f[e] \in S
    OBVIOUS
  <2> HIDE DEF S
  <2> QED BY <1>1, <1>2, <2>1
<1>4. \A k \in 1 .. n + 1 : k = n + 1 \/ k \in 1 .. n
  BY <1>1
<1>5. q = [k \in 1 .. n + 1 |-> f[t[k]]] /\ \A k \in 1 .. n + 1 : f[t[k]] \in S
  <2> HIDE DEF n
  <2> QED BY <1>1, <1>4
<1> HIDE DEF S, r, n
<1>6. q \in Seq(S) /\ Len(q) = n + 1 /\ \A k \in 1 .. n + 1 : q[k] = f[t[k]]
  <2> HIDE DEF q
  <2> QED BY <1>1, <1>5
<1>7. IsSequence(r) /\ IsSequence(q)
  BY <1>3, <1>6, SequenceIs
<1>8. /\ IsSequence(Append(r, f[e])) /\ Len(Append(r, f[e])) = n + 1
      /\ \A k \in 1 .. n : Append(r, f[e])[k] = r[k]
      /\ Append(r, f[e])[n + 1] = f[e]
  BY <1>3, <1>7, AppendIs
<1> HIDE DEF q
<1>9. \A k \in 1 .. n + 1 : q[k] = Append(r, f[e])[k]
  BY <1>1, <1>3, <1>4, <1>6, <1>8
<1>10. q = Append(r, f[e])
  BY <1>6, <1>7, <1>8, <1>9, SequencesEqual
<1> QED BY <1>10 DEF q, r, t

\* The first elements of a sequence, and one more.
LEMMA FirstOf ==
    ASSUME NEW s, IsSequence(s)
    PROVE  /\ Len(s) \in Nat /\ SubSeq(s, 1, 0) = <<>> /\ SubSeq(s, 1, Len(s)) = s
           /\ \A n \in 0 .. Len(s) : IsSequence(SubSeq(s, 1, n)) /\ ToSet(SubSeq(s, 1, n)) \subseteq ToSet(s)
           /\ \A n \in 0 .. Len(s) - 1 : SubSeq(s, 1, n + 1) = Append(SubSeq(s, 1, n), s[n + 1])
<1>1. s \in Seq(ToSet(s)) /\ Len(s) \in Nat
  BY SequenceIs DEF IsSequence
<1>2. SubSeq(s, 1, 0) = <<>>
  BY <1>1, SubSeqEmpty
<1>3. SubSeq(s, 1, Len(s)) = s
  BY <1>1, SubSeqFull
<1>4. ASSUME NEW n \in 0 .. Len(s)
      PROVE  IsSequence(SubSeq(s, 1, n)) /\ ToSet(SubSeq(s, 1, n)) \subseteq ToSet(s)
  <2> DEFINE S == ToSet(s)
  <2> HIDE DEF S
  <2>1. s \in Seq(S)
    BY <1>1 DEF S
  <2>2. SubSeq(s, 1, n) \in Seq(S)
    BY <2>1, SubSeqProperties
  <2> QED BY <2>2, SequenceIs DEF S
<1>5. ASSUME NEW n \in 0 .. Len(s) - 1
      PROVE  SubSeq(s, 1, n + 1) = Append(SubSeq(s, 1, n), s[n + 1])
  <2>1. n + 1 \in 1 .. Len(s) /\ 1 \in 1 .. n + 1 /\ (n + 1) - 1 = n
    BY <1>1
  <2> QED BY <1>1, <2>1, SubSeqGrows
<1> QED BY <1>1, <1>2, <1>3, <1>4, <1>5

\* What is kept has the elements of the sequence that are in the set.
LEMMA OnlyIs ==
    ASSUME NEW s, IsSequence(s), NEW T
    PROVE  ToSet(Only(s, T)) = ToSet(s) \cap T
<1> DEFINE Begin(n) == SubSeq(s, 1, n)
           P == {n \in Nat : ToSet(Only(Begin(n), T)) = ToSet(Begin(n)) \cap T}
<1>1. /\ Len(s) \in Nat /\ Begin(0) = <<>> /\ Begin(Len(s)) = s
      /\ \A n \in 0 .. Len(s) : IsSequence(Begin(n))
      /\ \A n \in 0 .. Len(s) - 1 : Begin(n + 1) = Append(Begin(n), s[n + 1])
  BY FirstOf
<1> HIDE DEF Begin
<1>2. 0 \in P
  BY <1>1, OnlyEmpty, EmptyIs
<1>3. ASSUME NEW n \in 1 .. Len(s), n - 1 \in P PROVE n \in P
  <2> DEFINE f == Begin(n - 1)
  <2>1. IsSequence(f) /\ Begin(n) = Append(f, s[n]) /\ ToSet(Only(f, T)) = ToSet(f) \cap T /\ n \in Nat
    <3>1. n - 1 \in 0 .. Len(s) /\ n - 1 \in 0 .. Len(s) - 1 /\ (n - 1) + 1 = n
      BY <1>1
    <3> QED BY <1>1, <1>3, <3>1
  <2> HIDE DEF f
  <2>2. ToSet(Begin(n)) = ToSet(f) \cup {s[n]}
    BY <2>1, AppendIs
  <2>3. CASE s[n] \in T
    <3>1. Only(Begin(n), T) = Append(Only(f, T), s[n])
      BY <2>1, <2>3, OnlyAppend
    <3>2. ToSet(Only(Begin(n), T)) = ToSet(Only(f, T)) \cup {s[n]}
      BY <2>1, <3>1, OnlyType, AppendIs
    <3> QED BY <2>1, <2>2, <2>3, <3>2
  <2>4. CASE s[n] \notin T
    <3>1. Only(Begin(n), T) = Only(f, T)
      BY <2>1, <2>4, OnlyAppend
    <3> QED BY <2>1, <2>2, <2>4, <3>1
  <2> QED BY <2>3, <2>4
<1>4. Len(s) \in P
  <2> HIDE DEF P
  <2>1. \A n \in 0 .. Len(s) : n \in P
    BY <1>1, <1>2, <1>3, UpTo
  <2> QED BY <1>1, <2>1
<1> QED BY <1>1, <1>4

-----------------------------------------------------------------------------
(***************************************************************************)
(* How far an input is read                                                *)
(***************************************************************************)

\* So many entries of the input were read; what read_file read are the next.
At(n) ==
    /\ n + Len(entries) <= Len(EntriesOf(Begun)) /\ (readable => n + Len(entries) = Len(EntriesOf(Begun)))
    /\ \A k \in 1 .. Len(entries) : entries[k] = EntriesOf(Begun)[n + k]

\* No step but the next start changes what the inputs of the program have.
LEMMA InputsStay ==
    ASSUME FlowInv, Apart, Next, ~ \E command \in Commands : Start(command)
    PROVE  /\ Cli' = Cli /\ Out' = Out /\ Apart' /\ Cli.ins \in Seq(Name)
           /\ \A i \in 1 .. Len(Cli.ins) : EntriesOf(i)' = EntriesOf(i) /\ IsSequence(EntriesOf(i))
           /\ \A e : Matching(e)' = Matching(e)
<1>1. Cli' = Cli /\ Out' = Out
  BY ProgStep
<1>2. Cli.ins \in Seq(Name)
  BY CommandsAssumption DEF FlowInv, IInv, ProgInv
<1>3. ASSUME NEW i \in 1 .. Len(Cli.ins)
      PROVE  EntriesOf(i)' = EntriesOf(i) /\ IsSequence(EntriesOf(i))
  <2>1. Cli.ins[i] \in Name /\ Cli.ins[i] # Out
    BY <1>2 DEF Apart, ToSet
  <2>2. log'[Cli.ins[i]] = log[Cli.ins[i]]
    BY <2>1, FilesStep
  <2>3. IsSequence(log[Cli.ins[i]])
    BY <2>1 DEF FlowInv, IInv, DiskInv, FileInv
  <2> QED BY <1>1, <2>2, <2>3 DEF EntriesOf
<1>4. \A e : Matching(e)' = Matching(e)
  BY <1>1 DEF Matching
<1> QED BY <1>1, <1>2, <1>3, <1>4 DEF Apart

\* An input is opened.
LEMMA AtFirst ==
    ASSUME FlowInv, Apart, Read, Cli.is # "bl"
    PROVE  /\ At(0)' /\ Begun \in Nat /\ Begun' = Begun + 1 /\ Begun' \in 1 .. Len(Cli.ins)
           /\ (todo' = <<>> <=> Begun' = Len(Cli.ins))
<1>1. /\ pc = "read" /\ todo # <<>> /\ todo' = Tail(todo)
      /\ entries' = ReadFile(OnDisk(Head(todo))).entries /\ readable' = ReadFile(OnDisk(Head(todo))).ok
  BY DEF Read, InputOf
<1>2. /\ Cli' = Cli /\ Cli.ins \in Seq(Name)
      /\ \A i \in 1 .. Len(Cli.ins) : EntriesOf(i)' = EntriesOf(i) /\ IsSequence(EntriesOf(i))
  <2>1. Next /\ ~ \E command \in Commands : Start(command)
    BY <1>1 DEF Next, Start
  <2> QED BY <2>1, InputsStay
<1>3. /\ todo \in Seq(Name) /\ Len(todo) \in 1 .. Len(Cli.ins) /\ Head(todo) = todo[1]
      /\ todo[1] = Cli.ins[Begun + 1] /\ Len(todo') = Len(todo) - 1 /\ (todo' = <<>> <=> Len(todo') = 0)
  <2>1. todo \in Seq(Name)
    BY DEF FlowInv, IInv, ProgInv
  <2>2. Len(todo) \in Nat \ {0} /\ Head(todo) = todo[1] /\ Len(todo') = Len(todo) - 1 /\ (todo' = <<>> <=> Len(todo') = 0)
    <3>1. Tail(todo) \in Seq(Name) /\ Len(todo) \in Nat \ {0} /\ Head(todo) = todo[1] /\ Len(Tail(todo)) = Len(todo) - 1
      BY <1>1, <2>1
    <3>2. \A s \in Seq(Name) : s = <<>> <=> Len(s) = 0
      OBVIOUS
    <3> QED BY <1>1, <3>1, <3>2
  <2>3. Len(todo) <= Len(Cli.ins) /\ \A i \in 1 .. Len(todo) : todo[i] = Cli.ins[Begun + i]
    BY DEF FlowInv, TodoInv
  <2> QED BY <1>2, <2>1, <2>2, <2>3
<1>4. Begun \in Nat /\ Begun' = Begun + 1 /\ Begun' \in 1 .. Len(Cli.ins) /\ (todo' = <<>> <=> Begun' = Len(Cli.ins))
  BY <1>2, <1>3 DEF Begun
<1>5. PICK i \in 1 .. Len(Cli.ins) : i = Begun + 1
  BY <1>4
<1> DEFINE n == Cli.ins[i]
<1>6. n \in Name /\ Head(todo) = n /\ log[n] = EntriesOf(i) /\ EntriesOf(i)' = EntriesOf(i)
  BY <1>2, <1>3, <1>5 DEF EntriesOf
<1>7. /\ IsSequence(entries') /\ IsSequence(EntriesOf(i)) /\ IsPrefix(entries', EntriesOf(i))
      /\ readable' => entries' = EntriesOf(i)
  BY <1>1, <1>6, InputIs DEF AreSound
<1>8. /\ Len(entries') \in Nat /\ Len(EntriesOf(i)) \in Nat /\ Len(entries') <= Len(EntriesOf(i))
      /\ \A k \in 1 .. Len(entries') : entries'[k] = EntriesOf(i)[k]
  BY <1>7, PrefixIs, SequenceIs DEF IsSequence
<1>9. EntriesOf(Begun)' = EntriesOf(i)
  BY <1>4, <1>5, <1>6
<1>10. At(0)'
  BY <1>7, <1>8, <1>9 DEF At
<1> QED BY <1>4, <1>10

\* The next entry is taken.
LEMMA AtNext ==
    ASSUME FlowInv, Apart, NEW is, is # "bl", Next1(is), Next, NEW n \in Nat, At(n)
    PROVE  /\ At(n + 1)' /\ n + 1 \in 1 .. Len(EntriesOf(Begun)) /\ EntriesOf(Begun)[n + 1] = Head(entries)
           /\ Begun' = Begun /\ Begun \in 1 .. Len(Cli.ins) /\ EntriesOf(Begun)' = EntriesOf(Begun)
<1>1. /\ pc = "entries" /\ entries # <<>> /\ entries' = Tail(entries) /\ Cli.is = is
      /\ UNCHANGED <<prog, todo, readable>>
  BY DEF Next1
<1>2. /\ Cli' = Cli /\ Cli.ins \in Seq(Name)
      /\ \A i \in 1 .. Len(Cli.ins) : EntriesOf(i)' = EntriesOf(i) /\ IsSequence(EntriesOf(i))
  <2>1. ~ \E command \in Commands : Start(command)
    BY <1>1 DEF Start
  <2> QED BY <2>1, InputsStay
<1>3. Begun' = Begun /\ Begun \in 1 .. Len(Cli.ins)
  <2>1. todo \in Seq(Name) /\ Begun > 0
    BY <1>1 DEF FlowInv, IInv, ProgInv, TodoInv
  <2> QED BY <1>1, <1>2, <2>1 DEF Begun
<1>4. PICK i \in 1 .. Len(Cli.ins) : i = Begun
  BY <1>3
<1>5. EntriesOf(i)' = EntriesOf(i) /\ Len(EntriesOf(i)) \in Nat
  BY <1>2, <1>4, SequenceIs DEF IsSequence
<1>6. IsSequence(entries)
  BY <1>1 DEF FlowInv, IInv, DataInv, AreSound
<1>7. /\ Len(entries) \in Nat \ {0} /\ Len(entries') = Len(entries) - 1 /\ Head(entries) = entries[1]
      /\ \A k \in 1 .. Len(entries) - 1 : entries'[k] = entries[k + 1]
  BY <1>1, <1>6, TailIs
<1>8. /\ n + Len(entries) <= Len(EntriesOf(i)) /\ (readable => n + Len(entries) = Len(EntriesOf(i)))
      /\ \A k \in 1 .. Len(entries) : entries[k] = EntriesOf(i)[n + k]
  BY <1>4 DEF At
<1>9. n + 1 \in 1 .. Len(EntriesOf(i)) /\ EntriesOf(i)[n + 1] = Head(entries)
  BY <1>5, <1>7, <1>8
<1>10. \A k \in 1 .. Len(entries') : entries'[k] = EntriesOf(i)[(n + 1) + k]
  <2> SUFFICES ASSUME NEW k \in 1 .. Len(entries') PROVE entries'[k] = EntriesOf(i)[(n + 1) + k]
    OBVIOUS
  <2>1. k \in 1 .. Len(entries) - 1 /\ k + 1 \in 1 .. Len(entries) /\ n + (k + 1) = (n + 1) + k
    BY <1>7
  <2> QED BY <1>7, <1>8, <2>1
<1>11. (n + 1) + Len(entries') <= Len(EntriesOf(i)) /\ (readable' => (n + 1) + Len(entries') = Len(EntriesOf(i)))
  BY <1>1, <1>5, <1>7, <1>8
<1>12. EntriesOf(Begun)' = EntriesOf(i)
  BY <1>3, <1>4, <1>5
<1>13. At(n + 1)'
  BY <1>10, <1>11, <1>12 DEF At
<1> QED BY <1>3, <1>4, <1>9, <1>12, <1>13

-----------------------------------------------------------------------------
(***************************************************************************)
(* What rman-diff and rman-merge write                                     *)
(***************************************************************************)

\* The steps of a program with one output and inputs that are other files, up to
\* where it ends by itself.
LEMMA MakerSteps ==
    ASSUME FlowInv, Next, ~ \E command \in Commands : Start(command),
           Cli.is \in {"merge", "diff"}, pc' # "none" \/ prog'.ended # "killed"
    PROVE  \/ pc = "none" /\ UNCHANGED <<pc, prog, todo, entries, readable, from, log, lists, missed>>
           \/ pc # "none" /\ (Open \/ WriteHeader \/ Read \/ MergeEntry \/ DiffEntry \/ EndOfInput \/ End)
<1>1. CASE \E n \in Name : Compress(n)
  BY <1>1 DEF Compress, reading
<1>2. CASE ~ \E n \in Name : Compress(n)
  <2>1. pc # "none"
    BY <1>2 DEF Next, Start, Open, WriteHeader, Read, MergeEntry, DiffEntry, SplitEntry, RadsEntry,
          PrintEntry, ChooseEntry, CutEntry, EndOfInput, End, DownloadFile, DownloadThrows, Downloads,
          Release, WriteFile, WritesRelease, Kill, Next1
  <2>2. ~Release
    BY DEF Release, FlowInv, IInv, ProgInv
  <2>3. ~Kill
    <3>1. [prog EXCEPT !.ended = "killed"].ended = "killed"
      BY DEF FlowInv, TodoInv
    <3> QED BY <3>1 DEF Kill
  <2>4. ~SplitEntry /\ ~RadsEntry /\ ~PrintEntry /\ ~ChooseEntry /\ ~CutEntry /\ ~WriteFile
        /\ ~DownloadThrows /\ ~ \E verdict \in {"ok", "failed"} : DownloadFile(verdict)
    BY DEF SplitEntry, RadsEntry, PrintEntry, ChooseEntry, CutEntry, WriteFile, WritesRelease,
           DownloadThrows, DownloadFile, Downloads, Next1
  <2> QED BY <1>2, <2>1, <2>2, <2>3, <2>4 DEF Next
<1> QED BY <1>1, <1>2

\* The output is begun with a header.
LEMMA MakerBegins ==
    ASSUME FlowInv, Cli.is \in {"merge", "diff"}, Open \/ WriteHeader
    PROVE  /\ Open => pc' = "header"
           /\ WriteHeader => pc' = "read" /\ Begun' = 0 /\ log' = log /\ log[Out] = <<>>
           /\ UNCHANGED <<todo, entries, readable, from, lists>>
<1>1. ~Cli.append
  BY CommandsAssumption DEF FlowInv, IInv, ProgInv
<1>2. Open => pc' = "header"
  BY <1>1 DEF Open
<1>3. WriteHeader => pc' = "read" /\ Begun' = 0 /\ log' = log /\ log[Out] = <<>>
  <2> SUFFICES ASSUME WriteHeader PROVE pc' = "read" /\ Begun' = 0 /\ log' = log /\ log[Out] = <<>>
    OBVIOUS
  <2>1. pc = "header" /\ pc' = "read" /\ log' = log /\ todo' = todo /\ prog' = prog
    BY DEF WriteHeader, Fails, reading
  <2>2. todo = Cli.ins /\ log[Out] = <<>> /\ Len(Cli.ins) \in Nat
    BY <2>1, CommandsAssumption DEF FlowInv, TodoInv, IInv, ProgInv, Writes
  <2> QED BY <2>1, <2>2 DEF Begun, Cli
<1> QED BY <1>2, <1>3 DEF Open, WriteHeader, reading

\* The lists of chunks do not change with the program's end.
LEMMA MakerEnds ==
    ASSUME FlowInv, Cli.is \in {"merge", "diff"}, Apart, EndOfInput \/ End
    PROVE  /\ UNCHANGED <<todo, from, log, lists, missed>>
           /\ End => pc = "read" /\ pc' = "none" /\ todo = <<>> /\ Begun = Len(Cli.ins)
           /\ EndOfInput => /\ pc = "entries" /\ entries = <<>> /\ (readable => pc' = "read")
                            /\ (~readable => pc' = "none" /\ prog'.ended = "thrown")
                            /\ \A n \in Nat : At(n) => n <= Len(EntriesOf(Begun)) /\ (readable => n = Len(EntriesOf(Begun)))
           /\ Len(Cli.ins) \in Nat /\ Begun \in 0 .. Len(Cli.ins) /\ (pc = "entries" => Begun > 0)
           /\ \A i \in 1 .. Len(Cli.ins) : IsSequence(EntriesOf(i)) /\ Len(EntriesOf(i)) \in Nat
<1>1. Next /\ ~ \E command \in Commands : Start(command)
  BY DEF Next, EndOfInput, End, Start
<1>2. Cli.ins \in Seq(Name) /\ \A i \in 1 .. Len(Cli.ins) : IsSequence(EntriesOf(i)) /\ Len(EntriesOf(i)) \in Nat
  BY <1>1, InputsStay, SequenceIs DEF IsSequence
<1>3. Len(Cli.ins) \in Nat /\ Begun \in 0 .. Len(Cli.ins) /\ (pc = "entries" => Begun > 0)
  <2>1. todo \in Seq(Name) /\ Len(todo) <= Len(Cli.ins) /\ (pc = "entries" => Begun > 0)
    BY DEF FlowInv, TodoInv, IInv, ProgInv
  <2> QED BY <1>2, <2>1 DEF Begun
<1>4. End => pc = "read" /\ pc' = "none" /\ todo = <<>> /\ Begun = Len(Cli.ins)
  BY <1>2 DEF End, Begun
<1>5. EndOfInput => /\ pc = "entries" /\ entries = <<>> /\ (readable => pc' = "read")
                    /\ (~readable => pc' = "none" /\ prog'.ended = "thrown")
  BY DEF EndOfInput, FlowInv, TodoInv
<1>6. ASSUME EndOfInput, NEW n \in Nat, At(n)
      PROVE  n <= Len(EntriesOf(Begun)) /\ (readable => n = Len(EntriesOf(Begun)))
  <2>1. n + 0 <= Len(EntriesOf(Begun)) /\ (readable => n + 0 = Len(EntriesOf(Begun)))
    BY <1>5, <1>6, EmptyIs DEF At
  <2>2. n + 0 = n
    OBVIOUS
  <2> QED BY <2>1, <2>2
<1> QED BY <1>2, <1>3, <1>4, <1>5, <1>6 DEF EndOfInput, End, reading, disks

\* An entry is written, or the write failed and the program has missed it.
LEMMA MakerWrites ==
    ASSUME FlowInv, WritesNow, NEW e, Written(e)
    PROVE  /\ missed => missed'
           /\ ~missed' => log'[Out] = Append(log[Out], Dumped(e))
           /\ IsSequence(log[Out])
<1>1. Out \in Name /\ DOMAIN log = Name /\ IsSequence(log[Out])
  BY DEF FlowInv, IInv, ProgInv, Opened, DiskInv, FileInv
<1>2. CASE Fails
  <2>1. missed' = TRUE
    BY <1>2 DEF Fails
  <2> QED BY <1>1, <2>1
<1>3. CASE ~Fails
  <2>1. missed' = missed /\ log' = [log EXCEPT ![Out] = Append(log[Out], Dumped(e))]
    BY <1>3 DEF Written, Succeeds
  <2> QED BY <1>1, <2>1
<1> QED BY <1>2, <1>3

\* The matching entries of the first input, and what rman-diff writes of the first
\* entries of the second.
Older1 == {e \in ToSet(EntriesOf(1)) : Matching(e)}
Newer2 == {e \in ToSet(EntriesOf(2)) : Differs(e)}
DiffUpTo(n) ==
    LET s == Only(SubSeq(EntriesOf(2), 1, n), Newer2)
    IN  [k \in DOMAIN s |-> Dumped(s[k])]
AllStripless == \A i \in DOMAIN Cli.ins : Stripless(Input(i))

\* It is done with so many entries of an input.
Diffed(i, n) ==
    /\ i = 0 => from = <<>>
    /\ i = 1 => from = Only(SubSeq(EntriesOf(1), 1, n), Older1)
    /\ i < 2 => log[Out] = <<>>
    /\ i = 2 => from = Input(1) /\ (~missed /\ AllStripless => log[Out] = DiffUpTo(n))

Diffs == Cli.is = "diff" /\ Apart /\ (pc # "none" \/ prog.ended = "ok")
DiffInv ==
    Diffs =>
        /\ pc \in {"none", "open", "header", "read", "entries"}
        /\ pc \in {"open", "header"} => from = <<>>
        /\ pc = "read" /\ Begun = 0 => Diffed(0, 0)
        /\ pc = "read" /\ Begun > 0 => Diffed(Begun, Len(EntriesOf(Begun)))
        /\ pc = "entries" => \E n \in Nat : At(n) /\ Diffed(Begun, n)
        /\ pc = "none" => Diffed(2, Len(EntriesOf(2)))

\* What rman-diff compares with does not change.
LEMMA DiffStays ==
    ASSUME FlowInv, Cli.is = "diff", Apart, Next, ~ \E command \in Commands : Start(command)
    PROVE  /\ Cli' = Cli /\ Out' = Out /\ Apart' /\ Len(Cli.ins) = 2 /\ Cli.ins \in Seq(Name)
           /\ EntriesOf(1)' = EntriesOf(1) /\ EntriesOf(2)' = EntriesOf(2)
           /\ IsSequence(EntriesOf(1)) /\ IsSequence(EntriesOf(2))
           /\ Older1' = Older1 /\ Newer2' = Newer2 /\ Input(1)' = Input(1) /\ AllStripless' = AllStripless
           /\ \A n : DiffUpTo(n)' = DiffUpTo(n)
<1>1. /\ Cli' = Cli /\ Out' = Out /\ Apart' /\ Cli.ins \in Seq(Name)
      /\ \A i \in 1 .. Len(Cli.ins) : EntriesOf(i)' = EntriesOf(i) /\ IsSequence(EntriesOf(i))
      /\ \A e : Matching(e)' = Matching(e)
  BY InputsStay
<1>2. Len(Cli.ins) = 2
  BY CommandsAssumption DEF FlowInv, IInv, ProgInv
<1>3. EntriesOf(1)' = EntriesOf(1) /\ EntriesOf(2)' = EntriesOf(2) /\ IsSequence(EntriesOf(1)) /\ IsSequence(EntriesOf(2))
  <2>1. 1 \in 1 .. Len(Cli.ins) /\ 2 \in 1 .. Len(Cli.ins)
    BY <1>2
  <2> QED BY <1>1, <2>1
<1>4. \A i \in 1 .. Len(Cli.ins) : Input(i)' = Input(i)
  BY <1>1 DEF Input
<1>5. Input(1)' = Input(1)
  BY <1>1, <1>3 DEF Input
<1>6. Older1' = Older1
  BY <1>1, <1>3 DEF Older1
<1>7. \A e : Differs(e)' = Differs(e)
  BY <1>1, <1>5 DEF Differs, LatestIn
<1>8. Newer2' = Newer2
  BY <1>3, <1>7 DEF Newer2
<1>9. \A n : DiffUpTo(n)' = DiffUpTo(n)
  BY <1>3, <1>8 DEF DiffUpTo, Dumped
<1>10. AllStripless' = AllStripless
  <2>1. DOMAIN Cli.ins = 1 .. Len(Cli.ins)
    BY <1>1
  <2> QED BY <1>1, <1>4, <2>1 DEF AllStripless, Stripless
<1> QED BY <1>1, <1>2, <1>3, <1>5, <1>6, <1>8, <1>9, <1>10

\* Where no file of the inputs is stripped, rman-diff writes an entry if the latest
\* of the first input under its path has other data.
LEMMA ChangedIs ==
    ASSUME NEW e, Matching(e), IsSequence(from), from = Input(1), AllStripless, Len(Cli.ins) = 2,
           Cli.ins \in Seq(Name), IsSequence(EntriesOf(1)), IsSequence(EntriesOf(2)), e \in ToSet(EntriesOf(2))
    PROVE  Unchanged(e) <=> ~Differs(e)
<1>1. ASSUME NEW i \in {1, 2}, NEW f \in ToSet(Input(i)) PROVE ~f.stripped
  <2>1. i \in DOMAIN Cli.ins
    BY <1>1
  <2>2. Stripless(Input(i))
    BY <2>1 DEF AllStripless
  <2> QED BY <1>1, <2>2 DEF Stripless, ToSet
<1>2. ~e.stripped
  <2>1. e \in ToSet(Input(2))
    BY OnlyIs DEF Input
  <2> QED BY <1>1, <2>1
<1>3. LatestIn(Input(1), e) = IF Known(e) = 0 THEN {} ELSE {Reverse(from)[Known(e)]}
  BY KnownLatest
<1>4. CASE Known(e) = 0
  BY <1>3, <1>4 DEF Unchanged, Differs
<1>5. CASE Known(e) # 0
  <2> DEFINE f == Reverse(from)[Known(e)]
  <2>1. f \in ToSet(Input(1))
    BY <1>5, KnownIs
  <2>2. ~f.stripped
    BY <1>1, <2>1
  <2>3. ExtractChunks(f) = f.data /\ ExtractChunks(e) = e.data
    BY <1>2, <2>2 DEF ExtractChunks
  <2>4. Unchanged(e) <=> f.data = e.data
    BY <1>5, <2>3 DEF Unchanged
  <2>5. Differs(e) <=> ~(f.data = e.data)
    BY <1>3, <1>5 DEF Differs
  <2> QED BY <2>4, <2>5
<1> QED BY <1>4, <1>5

\* One more entry of the second input.
LEMMA DiffGrows ==
    ASSUME IsSequence(EntriesOf(2)), NEW n \in Nat, n + 1 \in 1 .. Len(EntriesOf(2))
    PROVE  LET e == EntriesOf(2)[n + 1]
           IN  DiffUpTo(n + 1) = IF Differs(e) THEN Append(DiffUpTo(n), Dumped(e)) ELSE DiffUpTo(n)
<1> DEFINE s == EntriesOf(2)
           e == s[n + 1]
           t == Only(SubSeq(s, 1, n), Newer2)
           r == [k \in DOMAIN t |-> Dumped(t[k])]
<1>1. /\ IsSequence(SubSeq(s, 1, n)) /\ SubSeq(s, 1, n + 1) = Append(SubSeq(s, 1, n), e) /\ e \in ToSet(s)
  <2>1. n \in 0 .. Len(s) - 1 /\ n \in 0 .. Len(s) /\ DOMAIN s = 1 .. Len(s)
    BY SequenceIs DEF IsSequence
  <2> QED BY <2>1, FirstOf DEF ToSet
<1>2. e \in Newer2 <=> Differs(e)
  BY <1>1 DEF Newer2
<1>3. Only(SubSeq(s, 1, n + 1), Newer2) = IF Differs(e) THEN Append(t, e) ELSE t
  <2> HIDE DEF s, e, t
  <2>1. Only(Append(SubSeq(s, 1, n), e), Newer2) = IF e \in Newer2 THEN Append(Only(SubSeq(s, 1, n), Newer2), e) ELSE Only(SubSeq(s, 1, n), Newer2)
    BY <1>1, OnlyAppend
  <2> QED BY <1>1, <1>2, <2>1 DEF t
<1>4. DiffUpTo(n) = r
  BY DEF DiffUpTo
<1>5. CASE ~Differs(e)
  BY <1>3, <1>5 DEF DiffUpTo
<1>6. CASE Differs(e)
  <2>1. IsSequence(t)
    BY <1>1, OnlyType
  <2> HIDE DEF t, s, e
  <2>2. DiffUpTo(n + 1) = [k \in DOMAIN Append(t, e) |-> Dumped(Append(t, e)[k])]
    BY <1>3, <1>6 DEF DiffUpTo, s, e
  <2> DEFINE f == [y \in ToSet(t) \cup {e} |-> Dumped(y)]
  <2>3. [k \in DOMAIN Append(t, e) |-> f[Append(t, e)[k]]] = Append([k \in DOMAIN t |-> f[t[k]]], f[e])
    <3> HIDE DEF f
    <3> QED BY <2>1, MapAppends
  <2>4. \A k \in DOMAIN Append(t, e) : f[Append(t, e)[k]] = Dumped(Append(t, e)[k])
    BY <2>1, AppendIs DEF ToSet
  <2>5. (\A k \in DOMAIN t : f[t[k]] = Dumped(t[k])) /\ f[e] = Dumped(e)
    BY DEF ToSet
  <2> HIDE DEF f
  <2>6. DiffUpTo(n + 1) = Append(r, Dumped(e))
    BY <2>2, <2>3, <2>4, <2>5
  <2> HIDE DEF r
  <2> QED BY <1>4, <1>6, <2>6 DEF s, e
<1> QED BY <1>5, <1>6

LEMMA DiffEntryKeeps ==
    ASSUME FlowInv, DiffInv, Diffs, DiffEntry, Next
    PROVE  DiffInv'
<1>1. pc = "entries" /\ pc' = pc /\ Cli.is = "diff" /\ Apart /\ entries # <<>> /\ Next1("diff") /\ todo' = todo
  BY DEF DiffEntry, Next1, Diffs
<1>2. /\ Cli' = Cli /\ Out' = Out /\ Apart' /\ Len(Cli.ins) = 2 /\ Cli.ins \in Seq(Name)
      /\ EntriesOf(1)' = EntriesOf(1) /\ EntriesOf(2)' = EntriesOf(2)
      /\ IsSequence(EntriesOf(1)) /\ IsSequence(EntriesOf(2))
      /\ Older1' = Older1 /\ Newer2' = Newer2 /\ Input(1)' = Input(1) /\ AllStripless' = AllStripless
      /\ \A n : DiffUpTo(n)' = DiffUpTo(n)
  <2>1. ~ \E command \in Commands : Start(command)
    BY <1>1 DEF Start
  <2> QED BY <1>1, <2>1, DiffStays
<1>3. PICK n \in Nat : At(n) /\ Diffed(Begun, n)
  BY <1>1 DEF DiffInv
<1>4. PICK e : e = Head(entries)
  OBVIOUS
<1>5. PICK i : i = Begun
  OBVIOUS
<1>6. /\ At(n + 1)' /\ n + 1 \in 1 .. Len(EntriesOf(i)) /\ EntriesOf(i)[n + 1] = e /\ n + 1 \in Nat
      /\ Begun' = i /\ i \in 1 .. 2
  BY <1>1, <1>2, <1>3, <1>4, <1>5, AtNext
<1>7. Older <=> i = 1
  <2>1. Len(todo) \in Nat
    BY DEF FlowInv, IInv, ProgInv
  <2>2. \A l \in Nat : 2 - l = 1 <=> l = 1
    OBVIOUS
  <2>3. i = 2 - Len(todo)
    BY <1>2, <1>5 DEF Begun
  <2> QED BY <1>2, <2>1, <2>2, <2>3 DEF Older
<1>8. from' = IF Older /\ Matching(e) THEN Append(from, e) ELSE from
  BY <1>4 DEF DiffEntry
<1>9. CASE i = 1
  <2>1. ~Passes(e)
    BY <1>1, <1>7, <1>9 DEF Passes
  <2>2. UNCHANGED <<log, missed>> /\ log[Out] = <<>> /\ from = Only(SubSeq(EntriesOf(1), 1, n), Older1)
    BY <1>3, <1>4, <1>5, <1>9, <2>1 DEF DiffEntry, disks, Diffed
  <2>3. e \in Older1 <=> Matching(e)
    <3>1. e \in ToSet(EntriesOf(1))
      BY <1>2, <1>6, <1>9, SequenceIs DEF IsSequence
    <3> QED BY <3>1 DEF Older1
  <2>4. /\ IsSequence(SubSeq(EntriesOf(1), 1, n))
        /\ SubSeq(EntriesOf(1), 1, n + 1) = Append(SubSeq(EntriesOf(1), 1, n), e)
    <3>1. n \in 0 .. Len(EntriesOf(1)) - 1 /\ n \in 0 .. Len(EntriesOf(1))
      BY <1>6, <1>9
    <3> QED BY <1>2, <1>6, <1>9, <3>1, FirstOf
  <2>5. from' = Only(SubSeq(EntriesOf(1), 1, n + 1), Older1)
    <3>1. PICK f, T : f = SubSeq(EntriesOf(1), 1, n) /\ T = Older1
      OBVIOUS
    <3>2. IsSequence(f)
      BY <2>4, <3>1
    <3>3. Only(Append(f, e), T) = IF e \in T THEN Append(Only(f, T), e) ELSE Only(f, T)
      BY <3>2, OnlyAppend
    <3> QED BY <1>7, <1>8, <1>9, <2>2, <2>3, <2>4, <3>1, <3>3
  <2>6. Diffed(i, n + 1)'
    BY <1>2, <1>9, <2>2, <2>5 DEF Diffed
  <2>7. Diffed(Begun, n + 1)'
    BY <1>6, <2>6 DEF Diffed
  <2> QED BY <1>1, <1>6, <2>7 DEF DiffInv
<1>10. CASE i = 2
  <2>1. from' = from /\ from = Input(1) /\ (~missed /\ AllStripless => log[Out] = DiffUpTo(n))
    BY <1>3, <1>5, <1>7, <1>8, <1>10 DEF Diffed
  <2>2. DiffUpTo(n + 1) = IF Differs(e) THEN Append(DiffUpTo(n), Dumped(e)) ELSE DiffUpTo(n)
    BY <1>2, <1>6, <1>10, DiffGrows
  <2>3. AllStripless => (Passes(e) <=> Differs(e))
    <3> SUFFICES ASSUME AllStripless PROVE Passes(e) <=> Differs(e)
      OBVIOUS
    <3>1. Passes(e) <=> Matching(e) /\ ~Unchanged(e)
      BY <1>1, <1>7, <1>10 DEF Passes
    <3>2. IsSequence(from) /\ e \in ToSet(EntriesOf(2))
      BY <1>2, <1>6, <1>10, SequenceIs DEF IsSequence, FlowInv, IInv, DataInv, AreSound
    <3>3. Matching(e) => (Unchanged(e) <=> ~Differs(e))
      BY <1>2, <2>1, <3>2, ChangedIs
    <3>4. Differs(e) => Matching(e)
      BY DEF Differs
    <3> QED BY <3>1, <3>3, <3>4
  <2>4. ~missed' /\ AllStripless => log'[Out] = DiffUpTo(n + 1)
    <3> SUFFICES ASSUME ~missed', AllStripless PROVE log'[Out] = DiffUpTo(n + 1)
      OBVIOUS
    <3>1. CASE Passes(e)
      <4>1. Written(e)
        BY <1>4, <3>1 DEF DiffEntry
      <4>2. WritesNow
        BY <1>1 DEF WritesNow, Writes
      <4>3. ~missed /\ log'[Out] = Append(log[Out], Dumped(e))
        BY <4>1, <4>2, MakerWrites
      <4> QED BY <2>1, <2>2, <2>3, <3>1, <4>3
    <3>2. CASE ~Passes(e)
      <4>1. UNCHANGED <<log, missed>>
        BY <1>4, <3>2 DEF DiffEntry, disks
      <4> QED BY <2>1, <2>2, <2>3, <3>2, <4>1
    <3> QED BY <3>1, <3>2
  <2>5. Diffed(i, n + 1)'
    BY <1>2, <1>10, <2>1, <2>4 DEF Diffed
  <2>6. Diffed(Begun, n + 1)'
    BY <1>6, <2>5 DEF Diffed
  <2> QED BY <1>1, <1>6, <2>6 DEF DiffInv
<1> QED BY <1>6, <1>9, <1>10

LEMMA DiffKeepsOn ==
    ASSUME FlowInv, DiffInv, [Next]_vars
    PROVE  DiffInv'
<1>1. CASE UNCHANGED vars
  <2>1. UNCHANGED <<pc, prog, todo, entries, readable, from, log, missed>>
    BY <1>1 DEF vars, disks, reading
  <2>2. Cli' = Cli /\ Out' = Out /\ Begun' = Begun /\ Apart' = Apart /\ \A i : EntriesOf(i)' = EntriesOf(i)
    BY <2>1 DEF Cli, Out, Begun, Apart, EntriesOf
  <2>3. \A e : Matching(e)' = Matching(e)
    BY <2>2 DEF Matching
  <2>4. \A i : Input(i)' = Input(i)
    BY <2>2, <2>3 DEF Input
  <2>5. \A e : Differs(e)' = Differs(e)
    BY <2>3, <2>4 DEF Differs, LatestIn
  <2>6. Older1' = Older1 /\ AllStripless' = AllStripless /\ Newer2' = Newer2
    BY <2>2, <2>3, <2>4, <2>5 DEF Older1, AllStripless, Stripless, Newer2
  <2>7. \A n : DiffUpTo(n)' = DiffUpTo(n)
    BY <2>2, <2>6 DEF DiffUpTo, Dumped
  <2>8. \A i, n : Diffed(i, n)' = Diffed(i, n)
    BY <2>1, <2>2, <2>4, <2>6, <2>7 DEF Diffed
  <2>9. \A n : At(n)' = At(n)
    BY <2>1, <2>2 DEF At
  <2>10. Diffed(Begun, Len(EntriesOf(Begun)))' = Diffed(Begun, Len(EntriesOf(Begun)))
    BY <2>1, <2>2, <2>4, <2>6, <2>7 DEF Diffed
  <2> QED BY <2>1, <2>2, <2>8, <2>9, <2>10 DEF DiffInv, Diffs
<1>2. CASE \E command \in Commands : Start(command)
  <2>1. PICK command \in Commands : Start(command)
    BY <1>2
  <2>2. Cli' = command /\ from' = <<>> /\ (command.is = "diff" => pc' = "open")
    BY <2>1, StartStep DEF Writes
  <2> QED BY <2>2 DEF DiffInv, Diffs
<1>3. CASE Next /\ ~ \E command \in Commands : Start(command)
  <2> SUFFICES ASSUME Diffs' PROVE DiffInv'
    BY DEF DiffInv
  <2>1. /\ Cli' = Cli /\ Out' = Out /\ Cli.is = "diff" /\ Apart
    BY <1>3, ProgStep DEF Diffs, Apart
  <2>2. /\ Len(Cli.ins) = 2 /\ Cli.ins \in Seq(Name)
        /\ EntriesOf(1)' = EntriesOf(1) /\ EntriesOf(2)' = EntriesOf(2)
        /\ IsSequence(EntriesOf(1)) /\ IsSequence(EntriesOf(2))
        /\ Older1' = Older1 /\ Newer2' = Newer2 /\ Input(1)' = Input(1) /\ AllStripless' = AllStripless
        /\ \A n : DiffUpTo(n)' = DiffUpTo(n)
    BY <1>3, <2>1, DiffStays
  <2>3. \/ pc = "none" /\ UNCHANGED <<pc, prog, todo, entries, readable, from, log, lists, missed>>
        \/ pc # "none" /\ (Open \/ WriteHeader \/ Read \/ MergeEntry \/ DiffEntry \/ EndOfInput \/ End)
    BY <1>3, <2>1, MakerSteps DEF Diffs
  <2>4. Diffs
    BY <2>1, <2>3 DEF Diffs
  <2>5. ASSUME UNCHANGED <<from, log, missed>>, NEW i, NEW n, Diffed(i, n)
        PROVE  Diffed(i, n)'
    BY <2>1, <2>2, <2>5 DEF Diffed
  <2>6. CASE pc = "none"
    <3>1. UNCHANGED <<pc, from, log, missed>> /\ Diffed(2, Len(EntriesOf(2)))
      BY <2>3, <2>4, <2>6 DEF DiffInv
    <3>2. Diffed(2, Len(EntriesOf(2)))'
      BY <2>1, <2>2, <3>1 DEF Diffed
    <3> QED BY <2>6, <3>1, <3>2 DEF DiffInv
  <2>7. CASE pc # "none" /\ Open
    <3>1. pc' = "header" /\ from' = from /\ pc = "open"
      BY <2>1, <2>7, MakerBegins DEF Open
    <3> QED BY <2>4, <3>1 DEF DiffInv
  <2>8. CASE pc # "none" /\ WriteHeader
    <3>1. pc' = "read" /\ Begun' = 0 /\ log' = log /\ log[Out] = <<>> /\ from' = from /\ pc = "header"
      BY <2>1, <2>8, MakerBegins DEF WriteHeader
    <3>2. from = <<>>
      BY <2>4, <3>1 DEF DiffInv
    <3>3. Diffed(0, 0)'
      BY <2>1, <3>1, <3>2 DEF Diffed
    <3> QED BY <3>1, <3>3 DEF DiffInv
  <2>9. CASE pc # "none" /\ Read
    <3>1. pc = "read" /\ pc' = "entries" /\ UNCHANGED <<from, log, missed>>
      BY <2>9 DEF Read, disks
    <3>2. At(0)' /\ Begun \in Nat /\ Begun' = Begun + 1 /\ Begun' \in 1 .. 2
      BY <2>1, <2>2, <2>9, AtFirst
    <3>3. CASE Begun = 0
      <4>1. Begun' = 1 /\ from = <<>> /\ log[Out] = <<>>
        BY <2>4, <3>1, <3>2, <3>3 DEF DiffInv, Diffed
      <4>2. Only(SubSeq(EntriesOf(1), 1, 0), Older1) = <<>>
        BY <2>2, FirstOf, OnlyEmpty
      <4>3. Diffed(1, 0)'
        BY <2>1, <2>2, <3>1, <4>1, <4>2 DEF Diffed
      <4>4. Diffed(Begun, 0)'
        BY <4>1, <4>3 DEF Diffed
      <4> QED BY <3>1, <3>2, <4>4 DEF DiffInv
    <3>4. CASE Begun # 0
      <4>1. Begun' = 2 /\ Begun = 1
        BY <3>2, <3>4
      <4>2. Diffed(1, Len(EntriesOf(1)))
        BY <2>4, <3>1, <4>1 DEF DiffInv
      <4>3. from = Input(1) /\ log[Out] = <<>>
        <5>1. from = Only(SubSeq(EntriesOf(1), 1, Len(EntriesOf(1))), Older1) /\ log[Out] = <<>>
          BY <4>2 DEF Diffed
        <5>2. SubSeq(EntriesOf(1), 1, Len(EntriesOf(1))) = EntriesOf(1)
          BY <2>2, FirstOf
        <5> QED BY <5>1, <5>2 DEF Input, Older1
      <4>4. DiffUpTo(0) = <<>>
        <5>1. Only(SubSeq(EntriesOf(2), 1, 0), Newer2) = <<>>
          BY <2>2, FirstOf, OnlyEmpty
        <5> QED BY <5>1 DEF DiffUpTo
      <4>5. Diffed(2, 0)'
        BY <2>1, <2>2, <3>1, <4>3, <4>4 DEF Diffed
      <4>6. Diffed(Begun, 0)'
        BY <4>1, <4>5 DEF Diffed
      <4> QED BY <3>1, <3>2, <4>6 DEF DiffInv
    <3> QED BY <3>3, <3>4
  <2>10. CASE pc # "none" /\ DiffEntry
    BY <1>3, <2>4, <2>10, DiffEntryKeeps
  <2>11. CASE pc # "none" /\ (EndOfInput \/ End)
    <3>1. /\ UNCHANGED <<todo, from, log, missed>> /\ Begun \in 0 .. 2 /\ (pc = "entries" => Begun > 0)
          /\ End => pc = "read" /\ pc' = "none" /\ Begun = 2
          /\ EndOfInput => /\ pc = "entries" /\ (readable => pc' = "read")
                           /\ (~readable => pc' = "none" /\ prog'.ended = "thrown")
                           /\ \A n \in Nat : At(n) => (readable => n = Len(EntriesOf(Begun)))
      BY <2>1, <2>2, <2>11, MakerEnds
    <3>2. CASE End
      <4>1. Diffed(2, Len(EntriesOf(2)))
        BY <2>4, <3>1, <3>2 DEF DiffInv
      <4>2. Diffed(2, Len(EntriesOf(2)))'
        BY <2>1, <2>2, <3>1, <4>1 DEF Diffed
      <4> QED BY <3>1, <3>2, <4>2 DEF DiffInv
    <3>3. CASE EndOfInput
      <4>1. readable /\ pc' = "read"
        BY <3>1, <3>3 DEF Diffs
      <4>2. PICK i \in 1 .. 2 : i = Begun
        BY <3>1, <3>3
      <4>3. Diffed(i, Len(EntriesOf(i)))
        BY <2>4, <3>1, <3>3, <4>1, <4>2 DEF DiffInv
      <4>4. Begun' = i /\ EntriesOf(i)' = EntriesOf(i)
        BY <2>1, <2>2, <3>1, <4>2 DEF Begun
      <4>5. Diffed(i, Len(EntriesOf(i)))'
        BY <2>1, <2>2, <3>1, <4>3, <4>4 DEF Diffed
      <4>6. Diffed(Begun, Len(EntriesOf(Begun)))'
        BY <4>4, <4>5 DEF Diffed
      <4> QED BY <4>1, <4>2, <4>4, <4>6 DEF DiffInv
    <3> QED BY <2>11, <3>2, <3>3
  <2>12. ~MergeEntry
    BY <2>1 DEF MergeEntry, Next1
  <2> QED BY <2>3, <2>6, <2>7, <2>8, <2>9, <2>10, <2>11, <2>12
<1> QED BY <1>1, <1>2, <1>3

LEMMA Diffing == Spec => [](FlowInv /\ DiffInv)
<1>1. Init => DiffInv
  BY DEF Init, DiffInv, Diffs
<1>2. FlowInv /\ DiffInv /\ [Next]_vars => DiffInv'
  BY DiffKeepsOn
<1> QED BY <1>1, <1>2, Flow, PTL DEF Spec

\* The inputs of rman-merge under the names the entries get, where each begins in
\* all of them, and what it writes of the first entries.
Inputs == [i \in DOMAIN Cli.ins |-> InputNamed(i)]
Starts(at) == StartsAt(at, Inputs, Len(Cli.ins))
MatchingAll == {e \in ToSet(AllNamed) : Matching(e)}
MergeTo(n) == Only(SubSeq(AllNamed, 1, n), MatchingAll)
MergeOutput(n) == [k \in DOMAIN MergeTo(n) |-> Merged(MergeTo(n)[k])]
MergedTo(n) ==
    ~missed =>
        /\ log[Out] = MergeOutput(n)
        /\ \A e \in ToSet(MergeTo(n)) : Merged(e).stripped /\ ~e.stripped => Merged(e).data \in lists

Merges == Cli.is = "merge" /\ Apart /\ (pc # "none" \/ prog.ended \notin {"no", "killed"})
MergeInv ==
    Merges =>
        /\ pc \in {"none", "open", "header", "read", "entries"}
        /\ \A at : Starts(at) =>
            /\ pc = "read" => \E m \in Nat : m = at[Begun + 1] /\ MergedTo(m)
            /\ pc = "entries" => \E n, m \in Nat : At(n) /\ m = at[Begun] + n /\ MergedTo(m)
            /\ pc = "none" =>
                  \E n \in 0 .. Len(AllNamed) : MergedTo(n) /\ (prog.ended = "ok" => n = Len(AllNamed))

LEMMA InputsAre ==
    ASSUME FlowInv, Cli.is \in {"merge", "diff"}
    PROVE  /\ Cli.ins \in Seq(Name) /\ Len(Cli.ins) \in Nat /\ DOMAIN Cli.ins = 1 .. Len(Cli.ins)
           /\ \E T : Inputs \in [1 .. Len(Cli.ins) -> Seq(T)]
           /\ \A i \in 1 .. Len(Cli.ins) :
                 Inputs[i] = InputNamed(i) /\ Len(InputNamed(i)) = Len(EntriesOf(i)) /\ Len(EntriesOf(i)) \in Nat
           /\ IsSequence(AllNamed) /\ \E at : Starts(at)
<1>1. Cli.ins \in Seq(Name) /\ Len(Cli.ins) \in Nat /\ DOMAIN Cli.ins = 1 .. Len(Cli.ins)
  <2>1. Cli.ins \in Seq(Name)
    BY CommandsAssumption DEF FlowInv, IInv, ProgInv
  <2> QED BY <2>1
<1>2. ASSUME NEW i \in 1 .. Len(Cli.ins)
      PROVE  IsSequence(InputNamed(i)) /\ Len(InputNamed(i)) = Len(EntriesOf(i)) /\ Len(EntriesOf(i)) \in Nat
  <2>1. Cli.ins[i] \in Name
    BY <1>1
  <2>2. IsSequence(EntriesOf(i))
    BY <2>1 DEF FlowInv, IInv, DiskInv, FileInv, EntriesOf
  <2> DEFINE s == EntriesOf(i)
             F(k) == IF Cli.prefix THEN [s[k] EXCEPT !.path = <<Cli.ins[i]>> \o @] ELSE s[k]
             r == [k \in 1 .. Len(s) |-> F(k)]
             S == {F(k) : k \in 1 .. Len(s)}
  <2>3. Len(s) \in Nat /\ DOMAIN s = 1 .. Len(s)
    BY <2>2, SequenceIs DEF IsSequence
  <2>4. InputNamed(i) = r
    BY <2>3 DEF InputNamed
  <2>5. \A k \in 1 .. Len(s) : F(k) \in S
    OBVIOUS
  <2> HIDE DEF s, F, S
  <2>6. r \in Seq(S) /\ Len(r) = Len(s)
    BY <2>3, <2>5
  <2> HIDE DEF r
  <2>7. IsSequence(r)
    BY <2>6, SequenceIs
  <2> QED BY <2>3, <2>4, <2>6, <2>7 DEF s
<1>3. Inputs = [i \in 1 .. Len(Cli.ins) |-> InputNamed(i)]
  BY <1>1 DEF Inputs
<1>4. \A i \in 1 .. Len(Cli.ins) : Inputs[i] = InputNamed(i)
  BY <1>3
<1> DEFINE T == UNION {ToSet(InputNamed(i)) : i \in 1 .. Len(Cli.ins)}
<1>5. \A i \in 1 .. Len(Cli.ins) : InputNamed(i) \in Seq(T)
  <2> SUFFICES ASSUME NEW i \in 1 .. Len(Cli.ins) PROVE InputNamed(i) \in Seq(T)
    OBVIOUS
  <2>1. ToSet(InputNamed(i)) \subseteq T
    OBVIOUS
  <2>2. InputNamed(i) \in Seq(ToSet(InputNamed(i)))
    BY <1>2 DEF IsSequence
  <2> HIDE DEF T
  <2> QED BY <2>1, <2>2, SeqMonotonic
<1> HIDE DEF T
<1>6. Inputs \in [1 .. Len(Cli.ins) -> Seq(T)]
  BY <1>3, <1>5
<1>7. AllNamed = FlattenSeq(Inputs)
  BY DEF AllNamed, Inputs
<1>8. AllNamed \in Seq(T)
  BY <1>1, <1>6, <1>7, FlattenType
<1>9. IsSequence(AllNamed)
  BY <1>8, SequenceIs
<1>10. \E at : Starts(at)
  BY <1>1, <1>6, FlattenStarts DEF Starts
<1> QED BY <1>1, <1>2, <1>4, <1>6, <1>9, <1>10

\* What rman-merge is to write does not change.
LEMMA MergeStays ==
    ASSUME FlowInv, Cli.is = "merge", Apart, Next, ~ \E command \in Commands : Start(command)
    PROVE  /\ Cli' = Cli /\ Out' = Out /\ Apart' /\ AllNamed' = AllNamed
           /\ \A at : Starts(at)' <=> Starts(at)
           /\ \A n : MergeTo(n)' = MergeTo(n) /\ MergeOutput(n)' = MergeOutput(n)
           /\ \A e : Merged(e)' = Merged(e)
           /\ \A i \in 1 .. Len(Cli.ins) : EntriesOf(i)' = EntriesOf(i) /\ IsSequence(EntriesOf(i))
<1>1. /\ Cli' = Cli /\ Out' = Out /\ Apart'
      /\ \A i \in 1 .. Len(Cli.ins) : EntriesOf(i)' = EntriesOf(i) /\ IsSequence(EntriesOf(i))
      /\ \A e : Matching(e)' = Matching(e)
  BY InputsStay
<1>2. DOMAIN Cli.ins = 1 .. Len(Cli.ins)
  BY InputsAre
<1>3. \A i \in 1 .. Len(Cli.ins) : InputNamed(i)' = InputNamed(i)
  BY <1>1 DEF InputNamed
<1>4. Inputs' = Inputs
  BY <1>1, <1>2, <1>3 DEF Inputs
<1>5. AllNamed' = AllNamed
  BY <1>4 DEF AllNamed, Inputs
<1>6. MatchingAll' = MatchingAll
  BY <1>1, <1>5 DEF MatchingAll
<1>7. \A n : MergeTo(n)' = MergeTo(n)
  BY <1>5, <1>6 DEF MergeTo
<1>8. \A e : Merged(e)' = Merged(e)
  BY <1>1 DEF Merged
<1>9. \A n : MergeOutput(n)' = MergeOutput(n)
  BY <1>7, <1>8 DEF MergeOutput
<1>10. \A at : Starts(at)' <=> Starts(at)
  BY <1>1, <1>4 DEF Starts, StartsAt
<1> QED BY <1>1, <1>5, <1>7, <1>8, <1>9, <1>10

\* One more entry.
LEMMA MergeGrows ==
    ASSUME IsSequence(AllNamed), NEW n \in Nat, n + 1 \in 1 .. Len(AllNamed), NEW e, e = AllNamed[n + 1]
    PROVE  /\ Matching(e) => MergeOutput(n + 1) = Append(MergeOutput(n), Merged(e))
           /\ Matching(e) => ToSet(MergeTo(n + 1)) = ToSet(MergeTo(n)) \cup {e}
           /\ ~Matching(e) => MergeTo(n + 1) = MergeTo(n) /\ MergeOutput(n + 1) = MergeOutput(n)
<1> DEFINE s == SubSeq(AllNamed, 1, n)
           t == MergeTo(n)
<1>1. /\ IsSequence(s) /\ SubSeq(AllNamed, 1, n + 1) = Append(s, e) /\ e \in ToSet(AllNamed)
  <2>1. n \in 0 .. Len(AllNamed) - 1 /\ n \in 0 .. Len(AllNamed) /\ DOMAIN AllNamed = 1 .. Len(AllNamed)
    BY SequenceIs DEF IsSequence
  <2> QED BY <2>1, FirstOf DEF ToSet
<1>2. e \in MatchingAll <=> Matching(e)
  BY <1>1 DEF MatchingAll
<1>3. t = Only(s, MatchingAll)
  BY DEF MergeTo
<1> HIDE DEF s, t
<1>4. Only(Append(s, e), MatchingAll) = IF e \in MatchingAll THEN Append(Only(s, MatchingAll), e) ELSE Only(s, MatchingAll)
  <2>1. PICK f, T : f = s /\ T = MatchingAll
    OBVIOUS
  <2>2. IsSequence(f)
    BY <1>1, <2>1
  <2>3. Only(Append(f, e), T) = IF e \in T THEN Append(Only(f, T), e) ELSE Only(f, T)
    BY ONLY <2>2, OnlyAppend
  <2> QED BY <2>1, <2>3
<1>5. MergeTo(n + 1) = IF Matching(e) THEN Append(t, e) ELSE t
  BY <1>1, <1>2, <1>3, <1>4 DEF MergeTo
<1>6. CASE ~Matching(e)
  BY <1>5, <1>6 DEF MergeOutput, t
<1>7. CASE Matching(e)
  <2>1. IsSequence(t)
    BY <1>1, <1>3, OnlyType
  <2>2. MergeOutput(n + 1) = [k \in DOMAIN Append(t, e) |-> Merged(Append(t, e)[k])]
        /\ MergeOutput(n) = [k \in DOMAIN t |-> Merged(t[k])]
    BY <1>5, <1>7 DEF MergeOutput, t
  <2> DEFINE f == [y \in ToSet(t) \cup {e} |-> Merged(y)]
  <2>3. [k \in DOMAIN Append(t, e) |-> f[Append(t, e)[k]]] = Append([k \in DOMAIN t |-> f[t[k]]], f[e])
    <3> HIDE DEF f
    <3> QED BY <2>1, MapAppends
  <2>4. \A k \in DOMAIN Append(t, e) : f[Append(t, e)[k]] = Merged(Append(t, e)[k])
    BY <2>1, AppendIs DEF ToSet
  <2>5. (\A k \in DOMAIN t : f[t[k]] = Merged(t[k])) /\ f[e] = Merged(e)
    BY DEF ToSet
  <2> HIDE DEF f
  <2>6. MergeOutput(n + 1) = Append(MergeOutput(n), Merged(e))
    BY <2>2, <2>3, <2>4, <2>5
  <2>7. ToSet(Append(t, e)) = ToSet(t) \cup {e}
    BY <2>1, AppendIs
  <2> QED BY <1>5, <1>7, <2>6, <2>7 DEF t
<1> QED BY <1>6, <1>7

\* An entry under the name it gets, and what is written of it.
LEMMA MergedIs ==
    ASSUME NEW e, DOMAIN e = Fields
    PROVE  /\ Dumped(Stripped(e)) = Merged(e)
           /\ Merged(e).stripped /\ ~e.stripped => Merged(e).data \in Listed(e)
<1> DEFINE strip == Cli.cache /\ Len(e.data) > 1
<1>1. CASE strip
  <2>1. Stripped(e) = [e EXCEPT !.stripped = TRUE] /\ Merged(e) = [e EXCEPT !.places = <<>>, !.stripped = TRUE]
    BY <1>1 DEF Stripped, Merged
  <2>2. Dumped(Stripped(e)) = Merged(e)
    BY <2>1 DEF Dumped, Fields
  <2>3. Merged(e).data = e.data
    BY <2>1 DEF Fields
  <2> QED BY <1>1, <2>2, <2>3 DEF Listed
<1>2. CASE ~strip
  <2>1. Stripped(e) = e /\ Merged(e) = [e EXCEPT !.places = <<>>, !.stripped = e.stripped]
    BY <1>2 DEF Stripped, Merged, Fields
  <2>2. Merged(e) = [e EXCEPT !.places = <<>>] /\ Merged(e).stripped = e.stripped
    BY <2>1 DEF Fields
  <2> QED BY <2>1, <2>2 DEF Dumped
<1> QED BY <1>1, <1>2

LEMMA MergeEntryKeeps ==
    ASSUME FlowInv, MergeInv, Merges, MergeEntry, Next
    PROVE  MergeInv'
<1>1. /\ pc = "entries" /\ pc' = pc /\ Cli.is = "merge" /\ Apart /\ entries # <<>> /\ Next1("merge")
      /\ todo' = todo
  BY DEF MergeEntry, Next1, Merges
<1>2. /\ Cli' = Cli /\ Out' = Out /\ Apart' /\ AllNamed' = AllNamed
      /\ \A at : Starts(at)' <=> Starts(at)
      /\ \A n : MergeTo(n)' = MergeTo(n) /\ MergeOutput(n)' = MergeOutput(n)
      /\ \A e : Merged(e)' = Merged(e)
  <2>1. ~ \E command \in Commands : Start(command)
    BY <1>1 DEF Start
  <2> QED BY <1>1, <2>1, MergeStays
<1>3. /\ Cli.ins \in Seq(Name) /\ Len(Cli.ins) \in Nat
      /\ \A i \in 1 .. Len(Cli.ins) :
            Inputs[i] = InputNamed(i) /\ Len(InputNamed(i)) = Len(EntriesOf(i)) /\ Len(EntriesOf(i)) \in Nat
      /\ IsSequence(AllNamed)
  BY <1>1, InputsAre
<1>4. SUFFICES ASSUME NEW at, Starts(at)
               PROVE  \E n, m \in Nat : At(n)' /\ (m = at[Begun] + n)' /\ MergedTo(m)'
  BY <1>1, <1>2 DEF MergeInv
<1>5. PICK n \in Nat, m \in Nat : At(n) /\ m = at[Begun] + n /\ MergedTo(m)
  BY <1>1, <1>4 DEF MergeInv
<1>6. PICK h : h = Head(entries)
  OBVIOUS
<1>7. PICK i : i = Begun
  OBVIOUS
<1>8. PICK e : e = Prefixed(h)
  OBVIOUS
<1>9. /\ At(n + 1)' /\ n + 1 \in 1 .. Len(EntriesOf(i)) /\ EntriesOf(i)[n + 1] = h /\ n + 1 \in Nat
      /\ Begun' = i /\ i \in 1 .. Len(Cli.ins)
  BY <1>1, <1>5, <1>6, <1>7, AtNext
<1>10. DOMAIN e = Fields
  <2>1. Sound(h)
    BY <1>1, <1>6, NextEntry DEF FlowInv, IInv, DataInv
  <2> QED BY <1>8, <2>1 DEF Sound, IsEntry, Prefixed
<1>11. InputNamed(i)[n + 1] = e
  <2>1. n + 1 \in DOMAIN EntriesOf(i)
    <3>1. IsSequence(EntriesOf(i))
      BY <1>3, <1>9 DEF FlowInv, IInv, DiskInv, FileInv, EntriesOf
    <3> QED BY <1>9, <3>1, SequenceIs DEF IsSequence
  <2>2. i = Len(Cli.ins) - Len(todo)
    BY <1>7 DEF Begun
  <2> QED BY <1>8, <1>9, <2>1, <2>2 DEF InputNamed, Prefixed
<1>12. m + 1 \in 1 .. Len(AllNamed) /\ AllNamed[m + 1] = e
  <2>1. AllNamed = FlattenSeq(Inputs)
    BY DEF AllNamed, Inputs
  <2>2. /\ at \in [1 .. Len(Cli.ins) + 1 -> Nat]
        /\ at[i + 1] = at[i] + Len(Inputs[i]) /\ at[i + 1] <= Len(AllNamed)
        /\ \A k \in 1 .. Len(Inputs[i]) : AllNamed[at[i] + k] = Inputs[i][k]
    BY <1>4, <1>9, <2>1 DEF Starts, StartsAt
  <2>3. Len(Inputs[i]) = Len(EntriesOf(i)) /\ n + 1 \in 1 .. Len(Inputs[i]) /\ Inputs[i][n + 1] = e
    BY <1>3, <1>9, <1>11
  <2>4. AllNamed[at[i] + (n + 1)] = e
    BY <2>2, <2>3
  <2>5. at[i] \in Nat /\ Len(AllNamed) \in Nat /\ Len(Inputs[i]) \in Nat
    <3>1. i \in 1 .. Len(Cli.ins) + 1
      BY <1>3, <1>9
    <3>2. at[i] \in Nat
      BY <2>2, <3>1
    <3>3. Len(AllNamed) \in Nat
      BY <1>3, SequenceIs DEF IsSequence
    <3>4. Len(Inputs[i]) \in Nat
      BY <1>3, <1>9
    <3> QED BY <3>2, <3>3, <3>4
  <2>6. m + 1 = at[i] + (n + 1)
    BY <1>5, <1>7, <2>5
  <2> QED BY <2>2, <2>3, <2>4, <2>5, <2>6
<1>13. Passes(h) <=> Matching(e)
  BY <1>1, <1>8 DEF Passes
<1>14. /\ Matching(e) => MergeOutput(m + 1) = Append(MergeOutput(m), Merged(e))
       /\ Matching(e) => ToSet(MergeTo(m + 1)) = ToSet(MergeTo(m)) \cup {e}
       /\ ~Matching(e) => MergeTo(m + 1) = MergeTo(m) /\ MergeOutput(m + 1) = MergeOutput(m)
  BY <1>3, <1>12, MergeGrows
<1>15. MergedTo(m + 1)'
  <2>1. CASE Matching(e)
    <3>1. Written(Stripped(e)) /\ lists' = Listed(e)
      BY <1>6, <1>8, <1>13, <2>1 DEF MergeEntry
    <3>2. WritesNow
      BY <1>1 DEF WritesNow, Writes
    <3>3. (missed => missed') /\ (~missed' => log'[Out] = Append(log[Out], Dumped(Stripped(e))))
      BY <3>1, <3>2, MakerWrites
    <3>4. SUFFICES ASSUME ~missed'
                   PROVE  /\ log'[Out] = MergeOutput(m + 1)
                          /\ \A f \in ToSet(MergeTo(m + 1)) : Merged(f).stripped /\ ~f.stripped => Merged(f).data \in lists'
      BY <1>2 DEF MergedTo
    <3>5. /\ log[Out] = MergeOutput(m)
          /\ \A f \in ToSet(MergeTo(m)) : Merged(f).stripped /\ ~f.stripped => Merged(f).data \in lists
      BY <1>5, <3>3, <3>4 DEF MergedTo
    <3>6. Dumped(Stripped(e)) = Merged(e) /\ (Merged(e).stripped /\ ~e.stripped => Merged(e).data \in lists')
      BY <1>10, <3>1, MergedIs
    <3>7. lists \subseteq lists'
      BY <3>1 DEF Listed
    <3> QED BY <1>14, <2>1, <3>3, <3>4, <3>5, <3>6, <3>7
  <2>2. CASE ~Matching(e)
    <3>1. UNCHANGED <<log, missed, lists>>
      BY <1>6, <1>13, <2>2 DEF MergeEntry, disks
    <3> QED BY <1>2, <1>5, <1>14, <2>2, <3>1 DEF MergedTo
  <2> QED BY <2>1, <2>2
<1>16. (m + 1 = at[Begun] + (n + 1))'
  <2>1. at[i] \in Nat
    <3>1. i \in 1 .. Len(Cli.ins) + 1 /\ at \in [1 .. Len(Cli.ins) + 1 -> Nat]
      BY <1>3, <1>4, <1>9 DEF Starts, StartsAt
    <3> QED BY <3>1
  <2>2. m + 1 = at[i] + (n + 1)
    BY <1>5, <1>7, <2>1
  <2> QED BY <1>9, <2>2
<1>17. m + 1 \in Nat /\ n + 1 \in Nat
  OBVIOUS
<1> QED BY <1>9, <1>15, <1>16, <1>17

LEMMA MergeKeepsOn ==
    ASSUME FlowInv, MergeInv, [Next]_vars
    PROVE  MergeInv'
<1>1. CASE UNCHANGED vars
  <2>1. UNCHANGED <<pc, prog, todo, entries, readable, log, lists, missed>>
    BY <1>1 DEF vars, disks, reading
  <2>2. Cli' = Cli /\ Out' = Out /\ Begun' = Begun /\ Apart' = Apart /\ \A i : EntriesOf(i)' = EntriesOf(i)
    BY <2>1 DEF Cli, Out, Begun, Apart, EntriesOf
  <2>3. \A i : InputNamed(i)' = InputNamed(i)
    BY <2>2 DEF InputNamed
  <2>4. Inputs' = Inputs /\ AllNamed' = AllNamed
    BY <2>2, <2>3 DEF Inputs, AllNamed
  <2>5. MatchingAll' = MatchingAll /\ \A e : Merged(e)' = Merged(e)
    BY <2>2, <2>4 DEF MatchingAll, Matching, Merged
  <2>6. \A n : MergeTo(n)' = MergeTo(n)
    BY <2>4, <2>5 DEF MergeTo
  <2>7. \A n : MergeOutput(n)' = MergeOutput(n)
    BY <2>5, <2>6 DEF MergeOutput
  <2>8. \A n : MergedTo(n)' <=> MergedTo(n)
    BY <2>1, <2>2, <2>5, <2>6, <2>7 DEF MergedTo
  <2>9. \A n : At(n)' <=> At(n)
    BY <2>1, <2>2 DEF At
  <2>10. \A at : Starts(at)' <=> Starts(at)
    BY <2>2, <2>4 DEF Starts
  <2> QED BY <2>1, <2>2, <2>4, <2>8, <2>9, <2>10 DEF MergeInv, Merges
<1>2. CASE \E command \in Commands : Start(command)
  <2>1. PICK command \in Commands : Start(command)
    BY <1>2
  <2>2. Cli' = command /\ (command.is = "merge" => pc' = "open")
    BY <2>1, StartStep DEF Writes
  <2> QED BY <2>2 DEF MergeInv, Merges
<1>3. CASE Next /\ ~ \E command \in Commands : Start(command)
  <2> SUFFICES ASSUME Merges' PROVE MergeInv'
    BY DEF MergeInv
  <2>1. Cli' = Cli /\ Out' = Out /\ Cli.is = "merge" /\ Apart
    BY <1>3, ProgStep DEF Merges, Apart
  <2>2. /\ AllNamed' = AllNamed
        /\ \A at : Starts(at)' <=> Starts(at)
        /\ \A n : MergeTo(n)' = MergeTo(n) /\ MergeOutput(n)' = MergeOutput(n)
        /\ \A e : Merged(e)' = Merged(e)
        /\ \A i \in 1 .. Len(Cli.ins) : EntriesOf(i)' = EntriesOf(i) /\ IsSequence(EntriesOf(i))
    BY <1>3, <2>1, MergeStays
  <2>3. \/ pc = "none" /\ UNCHANGED <<pc, prog, todo, entries, readable, from, log, lists, missed>>
        \/ pc # "none" /\ (Open \/ WriteHeader \/ Read \/ MergeEntry \/ DiffEntry \/ EndOfInput \/ End)
    BY <1>3, <2>1, MakerSteps DEF Merges
  <2>4. Merges
    BY <2>1, <2>3 DEF Merges
  <2>5. ASSUME UNCHANGED <<log, lists, missed>>, NEW n, MergedTo(n)
        PROVE  MergedTo(n)'
    BY <2>1, <2>2, <2>5 DEF MergedTo
  <2>6. /\ Len(Cli.ins) \in Nat /\ IsSequence(AllNamed) /\ Len(AllNamed) \in Nat
        /\ \A i \in 1 .. Len(Cli.ins) :
              Inputs[i] = InputNamed(i) /\ Len(InputNamed(i)) = Len(EntriesOf(i)) /\ Len(EntriesOf(i)) \in Nat
    BY <2>1, InputsAre, SequenceIs DEF IsSequence
  <2>7. CASE pc = "none"
    <3>1. UNCHANGED <<pc, prog, log, lists, missed>>
      BY <2>3, <2>7
    <3>2. SUFFICES ASSUME NEW at, Starts(at)
                   PROVE  \E n \in 0 .. Len(AllNamed) : MergedTo(n)' /\ (prog'.ended = "ok" => n = Len(AllNamed))
      BY <2>2, <2>7, <3>1 DEF MergeInv
    <3>3. PICK n \in 0 .. Len(AllNamed) : MergedTo(n) /\ (prog.ended = "ok" => n = Len(AllNamed))
      BY <2>4, <2>7, <3>2 DEF MergeInv
    <3> QED BY <2>5, <3>1, <3>3
  <2>8. CASE pc # "none" /\ Open
    <3>1. pc' = "header"
      BY <2>1, <2>8, MakerBegins
    <3> QED BY <3>1 DEF MergeInv
  <2>9. CASE pc # "none" /\ WriteHeader
    <3>1. pc' = "read" /\ Begun' = 0 /\ log' = log /\ log[Out] = <<>>
      BY <2>1, <2>9, MakerBegins
    <3>2. MergeTo(0) = <<>>
      BY <2>6, FirstOf, OnlyEmpty DEF MergeTo
    <3>3. MergeOutput(0) = <<>> /\ ToSet(MergeTo(0)) = {}
      BY <3>2, EmptyIs DEF MergeOutput
    <3>4. MergedTo(0)'
      BY <2>1, <2>2, <3>1, <3>3 DEF MergedTo
    <3>5. ASSUME NEW at, Starts(at) PROVE at[1] = 0
      BY <3>5 DEF Starts, StartsAt
    <3>6. ASSUME NEW at, Starts(at)' PROVE \E m \in Nat : (m = at[Begun + 1])' /\ MergedTo(m)'
      <4>1. at[1] = 0
        BY <2>2, <3>5, <3>6
      <4>2. (0 = at[Begun + 1])'
        BY <3>1, <4>1
      <4> QED BY <3>4, <4>2
    <3> QED BY <3>1, <3>6 DEF MergeInv
  <2>10. CASE pc # "none" /\ Read
    <3>1. pc = "read" /\ pc' = "entries" /\ UNCHANGED <<log, lists, missed>>
      BY <2>10 DEF Read, disks
    <3>2. At(0)' /\ Begun \in Nat /\ Begun' = Begun + 1
      BY <2>1, <2>10, AtFirst
    <3>3. ASSUME NEW at, Starts(at)'
          PROVE  \E n, m \in Nat : At(n)' /\ (m = at[Begun] + n)' /\ MergedTo(m)'
      <4>1. PICK m \in Nat : m = at[Begun + 1] /\ MergedTo(m)
        BY <2>2, <2>4, <3>1, <3>3 DEF MergeInv
      <4>2. MergedTo(m)'
        BY <2>5, <3>1, <4>1
      <4>3. m + 0 = m
        OBVIOUS
      <4>4. (m = at[Begun] + 0)'
        BY <3>2, <4>1, <4>3
      <4> QED BY <3>2, <4>2, <4>4
    <3> QED BY <3>1, <3>3 DEF MergeInv
  <2>11. CASE pc # "none" /\ MergeEntry
    BY <1>3, <2>4, <2>11, MergeEntryKeeps
  <2>12. CASE pc # "none" /\ (EndOfInput \/ End)
    <3>1. /\ UNCHANGED <<todo, log, lists, missed>> /\ Begun \in 0 .. Len(Cli.ins) /\ (pc = "entries" => Begun > 0)
          /\ End => pc = "read" /\ pc' = "none" /\ Begun = Len(Cli.ins)
          /\ EndOfInput => /\ pc = "entries" /\ (readable => pc' = "read")
                           /\ (~readable => pc' = "none" /\ prog'.ended = "thrown")
                           /\ \A n \in Nat : At(n) => n <= Len(EntriesOf(Begun)) /\ (readable => n = Len(EntriesOf(Begun)))
      BY <2>1, <2>12, MakerEnds
    <3>2. CASE End
      <4>1. SUFFICES ASSUME NEW at, Starts(at)
                     PROVE  \E n \in 0 .. Len(AllNamed) : MergedTo(n)' /\ n = Len(AllNamed)
        BY <2>2, <3>1, <3>2 DEF MergeInv
      <4>2. PICK m \in Nat : m = at[Begun + 1] /\ MergedTo(m)
        BY <2>4, <3>1, <3>2, <4>1 DEF MergeInv
      <4>3. at[Len(Cli.ins) + 1] = Len(AllNamed)
        BY <4>1 DEF Starts, StartsAt, AllNamed, Inputs
      <4>4. m = Len(AllNamed)
        BY <3>1, <3>2, <4>2, <4>3
      <4> QED BY <2>5, <2>6, <3>1, <4>2, <4>4
    <3>3. CASE EndOfInput
      <4>1. PICK i \in 1 .. Len(Cli.ins) : i = Begun
        BY <2>6, <3>1, <3>3
      <4>2. ASSUME NEW at, Starts(at)
            PROVE  \E m \in Nat : m <= Len(AllNamed) /\ MergedTo(m)' /\ (readable => m = at[i + 1])
        <5>1. PICK n \in Nat, m \in Nat : At(n) /\ m = at[Begun] + n /\ MergedTo(m)
          BY <2>4, <3>1, <3>3, <4>2 DEF MergeInv
        <5>2. n <= Len(EntriesOf(i)) /\ (readable => n = Len(EntriesOf(i)))
          BY <3>1, <3>3, <4>1, <5>1
        <5>3. AllNamed = FlattenSeq(Inputs)
          BY DEF AllNamed, Inputs
        <5>4. /\ at \in [1 .. Len(Cli.ins) + 1 -> Nat]
              /\ at[i + 1] = at[i] + Len(Inputs[i]) /\ at[i + 1] <= Len(AllNamed)
          BY <4>1, <4>2, <5>3 DEF Starts, StartsAt
        <5>5. Len(Inputs[i]) = Len(EntriesOf(i)) /\ Len(EntriesOf(i)) \in Nat
          BY <2>6
        <5>6. i \in 1 .. Len(Cli.ins) + 1
          BY <2>6
        <5>7. at[i] \in Nat
          BY <5>4, <5>6
        <5>8. m = at[i] + n
          BY <4>1, <5>1
        <5>9. m <= Len(AllNamed) /\ (readable => m = at[i + 1])
          BY <2>6, <5>2, <5>4, <5>5, <5>7, <5>8
        <5> QED BY <2>5, <3>1, <5>1, <5>9
      <4>3. CASE readable
        <5>1. pc' = "read" /\ Begun' = i
          BY <2>1, <3>1, <3>3, <4>1, <4>3 DEF Begun
        <5>2. ASSUME NEW at, Starts(at)' PROVE \E m \in Nat : (m = at[Begun + 1])' /\ MergedTo(m)'
          <6>1. PICK m \in Nat : MergedTo(m)' /\ m = at[i + 1]
            BY <2>2, <4>2, <4>3, <5>2
          <6>2. (m = at[Begun + 1])'
            BY <5>1, <6>1
          <6> QED BY <6>1, <6>2
        <5> QED BY <5>1, <5>2 DEF MergeInv
      <4>4. CASE ~readable
        <5>1. pc' = "none" /\ prog'.ended = "thrown"
          BY <3>1, <3>3, <4>4
        <5>2. ASSUME NEW at, Starts(at)
              PROVE  \E n \in 0 .. Len(AllNamed) : MergedTo(n)'
          <6>1. PICK m \in Nat : m <= Len(AllNamed) /\ MergedTo(m)'
            BY <4>2, <5>2
          <6>2. m \in 0 .. Len(AllNamed)
            BY <2>6, <6>1
          <6> QED BY <6>1, <6>2
        <5> QED BY <2>2, <5>1, <5>2 DEF MergeInv
      <4> QED BY <4>3, <4>4
    <3> QED BY <2>12, <3>2, <3>3
  <2>13. ~DiffEntry
    BY <2>1 DEF DiffEntry, Next1
  <2> QED BY <2>3, <2>7, <2>8, <2>9, <2>10, <2>11, <2>12, <2>13
<1> QED BY <1>1, <1>2, <1>3

LEMMA Merging == Spec => [](FlowInv /\ MergeInv)
<1>1. Init => MergeInv
  BY DEF Init, MergeInv, Merges
<1>2. FlowInv /\ MergeInv /\ [Next]_vars => MergeInv'
  BY MergeKeepsOn
<1> QED BY <1>1, <1>2, Flow, PTL DEF Spec

\* What is kept of the first elements are the first of what is kept.
LEMMA OnlyBegins ==
    ASSUME NEW s, IsSequence(s), NEW T, NEW n \in 0 .. Len(s)
    PROVE  /\ IsSequence(Only(SubSeq(s, 1, n), T)) /\ IsSequence(Only(s, T))
           /\ Len(Only(SubSeq(s, 1, n), T)) <= Len(Only(s, T))
           /\ \A k \in 1 .. Len(Only(SubSeq(s, 1, n), T)) : Only(s, T)[k] = Only(SubSeq(s, 1, n), T)[k]
<1> DEFINE F(j) == Only(SubSeq(s, 1, j), T)
           Grown(i, j) == Len(F(i)) <= Len(F(j)) /\ \A k \in 1 .. Len(F(i)) : F(j)[k] = F(i)[k]
           P == {j \in Nat : \A i \in 0 .. j : Grown(i, j)}
<1>1. Len(s) \in Nat /\ F(Len(s)) = Only(s, T)
  BY FirstOf
<1>2. ASSUME NEW j \in 0 .. Len(s) PROVE IsSequence(F(j)) /\ Len(F(j)) \in Nat
  BY FirstOf, OnlyType, SequenceIs DEF IsSequence
<1>3. 0 \in P
  <2>1. \A i \in 0 .. 0 : i = 0
    OBVIOUS
  <2>2. Grown(0, 0)
    BY <1>1, <1>2
  <2> HIDE DEF Grown
  <2> QED BY <2>1, <2>2
<1>4. ASSUME NEW j \in 1 .. Len(s), j - 1 \in P PROVE j \in P
  <2>1. PICK p \in 0 .. Len(s) - 1 : p = j - 1 /\ j = p + 1 /\ p \in 0 .. Len(s)
    BY <1>1
  <2>2. PICK f, t, e : f = F(p) /\ t = F(j) /\ e = s[p + 1]
    OBVIOUS
  <2>3. t = f \/ t = Append(f, e)
    <3>1. IsSequence(SubSeq(s, 1, p)) /\ SubSeq(s, 1, p + 1) = Append(SubSeq(s, 1, p), s[p + 1])
      BY <2>1, FirstOf
    <3>2. PICK b : b = SubSeq(s, 1, p)
      OBVIOUS
    <3>3. IsSequence(b)
      BY <3>1, <3>2
    <3>4. Only(Append(b, e), T) = IF e \in T THEN Append(Only(b, T), e) ELSE Only(b, T)
      BY ONLY <3>3, OnlyAppend
    <3>5. SubSeq(s, 1, j) = Append(b, e)
      BY <2>1, <2>2, <3>1, <3>2
    <3> QED BY <2>2, <3>2, <3>4, <3>5
  <2>4. IsSequence(f) /\ Len(f) \in Nat
    BY <1>2, <2>1, <2>2
  <2>5. Len(f) <= Len(t) /\ \A k \in 1 .. Len(f) : t[k] = f[k]
    <3>1. Len(f) <= Len(Append(f, e)) /\ \A k \in 1 .. Len(f) : Append(f, e)[k] = f[k]
      BY <2>4, AppendIs
    <3> QED BY <2>3, <2>4, <3>1
  <2>6. ASSUME NEW i \in 0 .. j PROVE Grown(i, j)
    <3>1. CASE i = j
      <4>1. Len(t) \in Nat
        BY <1>2, <2>2
      <4> QED BY <2>2, <3>1, <4>1
    <3>2. CASE i # j
      <4>1. i \in 0 .. p /\ i \in 0 .. Len(s)
        BY <2>1, <3>2
      <4>2. PICK r : r = F(i) /\ Len(r) \in Nat
        BY <1>2, <4>1
      <4>3. Len(r) <= Len(f) /\ \A k \in 1 .. Len(r) : f[k] = r[k]
        BY <1>4, <2>1, <2>2, <4>1, <4>2
      <4>4. Len(t) \in Nat
        BY <1>2, <2>2
      <4>5. Len(r) <= Len(t) /\ \A k \in 1 .. Len(r) : t[k] = r[k]
        BY <2>4, <2>5, <4>2, <4>3, <4>4
      <4> QED BY <2>2, <4>2, <4>5
    <3> QED BY <3>1, <3>2
  <2> HIDE DEF Grown
  <2> QED BY <2>1, <2>6
<1>5. \A j \in 0 .. Len(s) : j \in P
  <2> HIDE DEF P
  <2> QED BY <1>1, <1>3, <1>4, UpTo
<1>6. Grown(n, Len(s))
  <2>1. Len(s) \in 0 .. Len(s)
    BY <1>1
  <2> HIDE DEF Grown
  <2> QED BY <1>5, <2>1
<1>7. IsSequence(F(n)) /\ IsSequence(Only(s, T))
  <2>1. Len(s) \in 0 .. Len(s)
    BY <1>1
  <2> QED BY <1>1, <1>2, <2>1
<1> QED BY <1>1, <1>6, <1>7

\* What is written of the first entries are the first of what is written of all.
LEMMA MergePrefix ==
    ASSUME IsSequence(AllNamed), NEW n \in 0 .. Len(AllNamed)
    PROVE  /\ MergeTo(Len(AllNamed)) = ToMerge
           /\ \A k \in DOMAIN MergeTo(n) : ToMerge[k] = MergeTo(n)[k]
           /\ IsPrefix(MergeOutput(n), MergeOutput(Len(AllNamed)))
<1>1. SubSeq(AllNamed, 1, Len(AllNamed)) = AllNamed /\ Len(AllNamed) \in Nat
  BY FirstOf
<1>2. MergeTo(Len(AllNamed)) = ToMerge
  BY <1>1 DEF MergeTo, ToMerge, MatchingAll
<1>3. PICK t, q : t = MergeTo(n) /\ q = ToMerge
  OBVIOUS
<1>4. IsSequence(t) /\ IsSequence(q) /\ Len(t) <= Len(q) /\ \A k \in 1 .. Len(t) : q[k] = t[k]
  <2>1. PICK s, T : s = AllNamed /\ T = MatchingAll
    OBVIOUS
  <2>2. n \in 0 .. Len(s) /\ IsSequence(s)
    BY <2>1
  <2>3. /\ IsSequence(Only(SubSeq(s, 1, n), T)) /\ IsSequence(Only(s, T))
        /\ Len(Only(SubSeq(s, 1, n), T)) <= Len(Only(s, T))
        /\ \A k \in 1 .. Len(Only(SubSeq(s, 1, n), T)) : Only(s, T)[k] = Only(SubSeq(s, 1, n), T)[k]
    BY ONLY <2>2, OnlyBegins
  <2>4. t = Only(SubSeq(s, 1, n), T) /\ q = Only(s, T)
    BY <1>3, <2>1 DEF MergeTo, ToMerge, MatchingAll
  <2> QED BY <2>3, <2>4
<1>5. Len(t) \in Nat /\ Len(q) \in Nat /\ DOMAIN t = 1 .. Len(t) /\ DOMAIN q = 1 .. Len(q)
  BY <1>4, SequenceIs DEF IsSequence
<1>6. ASSUME NEW w, Len(w) \in Nat, DOMAIN w = 1 .. Len(w)
      PROVE  LET r == [k \in DOMAIN w |-> Merged(w[k])]
             IN  IsSequence(r) /\ Len(r) = Len(w) /\ \A k \in 1 .. Len(w) : r[k] = Merged(w[k])
  <2> DEFINE S == {Merged(w[k]) : k \in 1 .. Len(w)}
             r == [k \in 1 .. Len(w) |-> Merged(w[k])]
  <2>1. \A k \in 1 .. Len(w) : Merged(w[k]) \in S
    OBVIOUS
  <2> HIDE DEF S
  <2>2. r \in Seq(S) /\ Len(r) = Len(w)
    BY <1>6, <2>1
  <2>3. IsSequence(r)
    <3> HIDE DEF r
    <3> QED BY <2>2, SequenceIs
  <2> QED BY <1>6, <2>2, <2>3
<1>7. PICK r, g : r = MergeOutput(n) /\ g = MergeOutput(Len(AllNamed))
  OBVIOUS
<1>8. IsSequence(r) /\ Len(r) = Len(t) /\ \A k \in 1 .. Len(t) : r[k] = Merged(t[k])
  BY <1>3, <1>5, <1>6, <1>7 DEF MergeOutput
<1>9. IsSequence(g) /\ Len(g) = Len(q) /\ \A k \in 1 .. Len(q) : g[k] = Merged(q[k])
  BY <1>2, <1>3, <1>5, <1>6, <1>7 DEF MergeOutput
<1>10. Len(r) <= Len(g) /\ \A k \in 1 .. Len(r) : r[k] = g[k]
  BY <1>4, <1>5, <1>8, <1>9
<1>11. IsPrefix(r, g)
  BY <1>8, <1>9, <1>10, PrefixIs
<1> QED BY <1>2, <1>3, <1>4, <1>5, <1>7, <1>11

-----------------------------------------------------------------------------
(***************************************************************************)
(* The bundles of a binary manifest                                        *)
(***************************************************************************)

\* A chunk is in its bundle behind the bytes of those before it.
LEMMA PlacedIs ==
    ASSUME NEW b, NEW k \in DOMAIN Get(b, "chunks")
    PROVE  /\ Placed(b)[k].id = Get(Get(b, "chunks")[k], "id") /\ Placed(b)[k].bundle = Get(b, "id")
           /\ Placed(b)[k].at = Bytes(Get(b, "chunks"), "compressed", k)
BY DEF Placed, Bytes

\* A table gives for an id its last row.
LEMMA RowIs ==
    ASSUME NEW rows, IsSequence(rows), NEW id \in DOMAIN ById(rows)
    PROVE  \E j \in DOMAIN rows : RowOf(rows, id) = {j} /\ ById(rows)[id] = rows[j] /\ Get(rows[j], "id") = id
<1> DEFINE n == Len(rows)
           I == {i \in 1 .. n : Get(rows[i], "id") = id}
<1>1. n \in Nat /\ DOMAIN rows = 1 .. n
  BY SequenceIs DEF IsSequence
<1>2. I # {}
  BY <1>1 DEF ById
<1>3. ById(rows)[id] = rows[Max(I)]
  BY <1>2 DEF ById, SelectLastInSeq
<1>4. Max(I) \in I /\ \A k \in I : k <= Max(I)
  <2>1. I \in SUBSET (1 .. n)
    OBVIOUS
  <2> HIDE DEF I, n
  <2> QED BY <1>1, <1>2, <2>1, LastIs
<1>5. PICK j : j = Max(I)
  OBVIOUS
<1>6. j \in 1 .. n /\ Get(rows[j], "id") = id /\ \A k \in 1 .. n : Get(rows[k], "id") = id => k <= j
  BY <1>4, <1>5
<1>7. RowOf(rows, id) = {j}
  <2>1. j \in RowOf(rows, id)
    BY <1>1, <1>6 DEF RowOf
  <2>2. ASSUME NEW i \in RowOf(rows, id) PROVE i = j
    <3>1. i \in 1 .. n /\ Get(rows[i], "id") = id /\ \A k \in i + 1 .. n : Get(rows[k], "id") # id
      BY <1>1 DEF RowOf
    <3>2. i <= j /\ j \notin i + 1 .. n
      BY <1>6, <3>1
    <3> HIDE DEF n
    <3> QED BY <1>1, <1>6, <3>1, <3>2
  <2> QED BY <2>1, <2>2
<1> QED BY <1>1, <1>3, <1>5, <1>6, <1>7

LEMMA ByIdIs ==
    ASSUME NEW rows, IsSequence(rows), NEW id \in DOMAIN ById(rows)
    PROVE  ById(rows)[id] \in ToSet(rows) /\ Get(ById(rows)[id], "id") = id
BY RowIs DEF ToSet

\* Every chunk that can be looked up is in a bundle of the table.
LEMMA SourcesAre ==
    ASSUME NEW raw, HasTables(raw), NEW id \in DOMAIN Sources(raw)
    PROVE  \E i \in DOMAIN raw.bundles : \E k \in DOMAIN Get(raw.bundles[i], "chunks") :
                Sources(raw)[id] = Placed(raw.bundles[i])[k] /\ Placed(raw.bundles[i])[k].id = id
<1> DEFINE b == raw.bundles
           n == Len(b)
           seqs == [i \in DOMAIN b |-> Placed(b[i])]
           T == UNION {ToSet(Placed(b[i])) : i \in 1 .. n}
<1>1. n \in Nat /\ DOMAIN b = 1 .. n
  BY DEF HasTables
<1>2. ASSUME NEW i \in 1 .. n
      PROVE  Placed(b[i]) \in Seq(T) /\ DOMAIN Placed(b[i]) = DOMAIN Get(b[i], "chunks")
  <2> DEFINE rows == Get(b[i], "chunks")
             p == Placed(b[i])
  <2>1. rows \in Seq(ToSet(rows))
    BY <1>1 DEF HasTables, ToSet
  <2>2. Len(rows) \in Nat /\ DOMAIN rows = 1 .. Len(rows)
    BY <2>1
  <2>3. DOMAIN p = DOMAIN rows /\ p = [k \in DOMAIN rows |-> p[k]]
    BY DEF Placed
  <2>4. \A k \in DOMAIN p : p[k] \in T
    <3>1. \A k \in DOMAIN p : p[k] \in ToSet(p)
      <4> HIDE DEF p
      <4> QED BY DEF ToSet
    <3>2. ToSet(p) \subseteq T
      OBVIOUS
    <3> HIDE DEF p, T
    <3> QED BY <3>1, <3>2
  <2> HIDE DEF p, rows, T
  <2>5. p \in Seq(T)
    <3>1. p = [k \in 1 .. Len(rows) |-> p[k]] /\ \A k \in 1 .. Len(rows) : p[k] \in T
      BY <2>2, <2>3, <2>4
    <3> QED BY <2>2, <3>1
  <2> QED BY <2>3, <2>5 DEF p, rows
<1>3. Sources(raw) = ById(FlattenSeq(seqs))
  BY DEF Sources
<1>4. FlattenSeq(seqs) \in Seq(T)
  <2>1. seqs \in [1 .. n -> Seq(T)]
    <3> HIDE DEF T
    <3> QED BY <1>1, <1>2
  <2> HIDE DEF seqs, T, n
  <2> QED BY <1>1, <2>1, FlattenType
<1> HIDE DEF T, seqs
<1>5. IsSequence(FlattenSeq(seqs)) /\ ToSet(FlattenSeq(seqs)) \subseteq T
  BY <1>4, SequenceIs
<1>6. Sources(raw)[id] \in T /\ Get(Sources(raw)[id], "id") = id
  BY <1>3, <1>5, ByIdIs
<1>7. PICK i \in 1 .. n : Sources(raw)[id] \in ToSet(Placed(b[i]))
  BY <1>6 DEF T
<1>8. PICK k \in DOMAIN Get(b[i], "chunks") : Sources(raw)[id] = Placed(b[i])[k]
  BY <1>2, <1>7 DEF ToSet
<1>9. "id" \in DOMAIN Placed(b[i])[k]
  BY <1>8 DEF Placed
<1>10. Placed(b[i])[k].id = id
  BY <1>6, <1>8, <1>9 DEF Get
<1> QED BY <1>1, <1>8, <1>10

LEMMA BundleIs ==
    ASSUME NEW raw, HasTables(raw), NEW id \in DOMAIN Sources(raw)
    PROVE  \E i \in DOMAIN raw.bundles : Sources(raw)[id].bundle = Get(raw.bundles[i], "id")
<1>1. PICK i \in DOMAIN raw.bundles : \E k \in DOMAIN Get(raw.bundles[i], "chunks") :
            Sources(raw)[id] = Placed(raw.bundles[i])[k] /\ Placed(raw.bundles[i])[k].id = id
  BY SourcesAre
<1>2. PICK k \in DOMAIN Get(raw.bundles[i], "chunks") : Sources(raw)[id] = Placed(raw.bundles[i])[k]
  BY <1>1
<1> QED BY <1>2, PlacedIs

\* Each chunk of each file of a binary manifest has a place, in one of its bundles.
Even(e) == Len(e.places) = Len(e.data)

LEMMA RmanFiles ==
    ASSUME NEW f \in First, NEW m \in ToSet(f.disk), m.form = "rman"
    PROVE  /\ IsSequence(ReadBundles(m).entries) /\ IsSequence(ReadFile(m).entries)
           /\ \A e \in ToSet(ReadFile(m).entries) :
                 Even(e) /\ \A place \in ToSet(e.places) : place.bundle \in ToSet(ReadBundles(m).entries)
<1> DEFINE raw == m.raw
           rman == Parse(raw)
           r == ReadFile(m).entries
           b == ReadBundles(m).entries
<1>1. m # Missing /\ HasTables(raw)
  BY FirstAssumption DEF Missing
<1>2. ReadFile(m) = ReadRman(m) /\ IsSequence(r)
  BY RmanReads DEF AreSound
<1>3. CASE ~m.whole
  BY <1>2, <1>3, EmptyIs DEF ReadRman, ReadBundles, Nothing
<1>4. CASE m.whole /\ rman = Refused
  <2>1. b = <<>>
    BY <1>1, <1>4 DEF ReadBundles, Refused
  <2>2. r = <<>>
    BY <1>2, <1>4 DEF ReadRman, Refused
  <2> QED BY <2>1, <2>2, EmptyIs
<1>5. CASE m.whole /\ rman # Refused
  <2>1. /\ rman.files = [i \in DOMAIN raw.files |-> FileOf(raw, raw.files[i])]
        /\ rman.bundles = [i \in DOMAIN raw.bundles |-> raw.bundles[i].id]
        /\ BundlesOk(raw) /\ \A i \in DOMAIN raw.files : FileOk(raw, raw.files[i])
    BY <1>5 DEF Parse
  <2>2. b = rman.bundles /\ r = [i \in DOMAIN rman.files |-> Entry(rman.files[i])]
    BY <1>1, <1>2, <1>5 DEF ReadBundles, ReadRman
  <2> HIDE DEF rman
  <2>3. ASSUME NEW i \in DOMAIN raw.bundles
        PROVE  Get(raw.bundles[i], "id") = raw.bundles[i].id /\ raw.bundles[i].id \in ToSet(b)
    <3>1. Get(raw.bundles[i], "id") # 0
      BY <2>1 DEF BundlesOk
    <3>2. Get(raw.bundles[i], "id") = raw.bundles[i].id
      BY <3>1 DEF Get, Absent
    <3>3. i \in DOMAIN b /\ b[i] = raw.bundles[i].id
      BY <2>1, <2>2
    <3> QED BY <3>2, <3>3 DEF ToSet
  <2>4. IsSequence(b)
    <3> DEFINE t == raw.bundles
               S == {t[i].id : i \in 1 .. Len(t)}
    <3>1. Len(t) \in Nat /\ DOMAIN t = 1 .. Len(t)
      BY <1>1 DEF HasTables
    <3>2. b = [i \in 1 .. Len(t) |-> t[i].id] /\ \A i \in 1 .. Len(t) : t[i].id \in S
      BY <2>1, <2>2, <3>1
    <3> HIDE DEF S, t, b
    <3>3. b \in Seq(S)
      BY <3>1, <3>2
    <3> QED BY <3>3, SequenceIs
  <2>5. ASSUME NEW e \in ToSet(r)
        PROVE  Even(e) /\ \A place \in ToSet(e.places) : place.bundle \in ToSet(b)
    <3>1. PICK i \in DOMAIN raw.files : e = Entry(FileOf(raw, raw.files[i]))
      BY <2>1, <2>2 DEF ToSet
    <3> DEFINE file == raw.files[i]
               ids == Get(file, "ids")
               chunks == Chunks(raw, file)
    <3>2. Len(ids) \in Nat /\ DOMAIN ids = 1 .. Len(ids) /\ \A k \in DOMAIN ids : ids[k] \in DOMAIN Sources(raw)
      <4>1. ids \in Seq(ToSet(ids))
        BY <1>1 DEF HasTables, ToSet
      <4>2. ToSet(ids) \subseteq DOMAIN Sources(raw)
        BY <2>1 DEF FileOk
      <4> QED BY <4>1, <4>2 DEF ToSet
    <3>3. DOMAIN chunks = DOMAIN ids /\ \A k \in DOMAIN ids : chunks[k].bundle = Sources(raw)[ids[k]].bundle
      BY DEF Chunks
    <3>4. /\ e.data = [k \in DOMAIN chunks |-> chunks[k].id]
          /\ e.places = [k \in DOMAIN chunks |-> [bundle |-> chunks[k].bundle, at |-> chunks[k].at]]
      BY <3>1 DEF Entry, FileOf
    <3> HIDE DEF chunks, ids, file
    <3>5. Even(e)
      BY <3>2, <3>3, <3>4 DEF Even
    <3>6. ASSUME NEW place \in ToSet(e.places)
          PROVE  place.bundle \in ToSet(b)
      <4>1. PICK k \in DOMAIN ids : place.bundle = chunks[k].bundle
        BY <3>3, <3>4 DEF ToSet
      <4>2. place.bundle = Sources(raw)[ids[k]].bundle /\ ids[k] \in DOMAIN Sources(raw)
        BY <3>2, <3>3, <4>1
      <4>3. PICK j \in DOMAIN raw.bundles : place.bundle = Get(raw.bundles[j], "id")
        <5>1. PICK id, w : id = ids[k] /\ w = raw
          OBVIOUS
        <5>2. HasTables(w) /\ id \in DOMAIN Sources(w)
          BY <1>1, <4>2, <5>1
        <5>3. \E j \in DOMAIN w.bundles : Sources(w)[id].bundle = Get(w.bundles[j], "id")
          BY ONLY <5>2, BundleIs
        <5> QED BY <4>2, <5>1, <5>3
      <4> QED BY <2>3, <4>3
    <3> QED BY <3>5, <3>6
  <2> QED BY <1>2, <2>4, <2>5
<1> QED BY <1>3, <1>4, <1>5

-----------------------------------------------------------------------------
(***************************************************************************)
(* The files of a binary manifest                                          *)
(***************************************************************************)

\* One more element behind two sequences is one more behind the second.
LEMMA ConcatAppends ==
    ASSUME NEW s, IsSequence(s), NEW t, IsSequence(t), NEW e
    PROVE  s \o Append(t, e) = Append(s \o t, e)
<1>1. /\ IsSequence(Append(t, e)) /\ Len(Append(t, e)) = Len(t) + 1
      /\ \A i \in 1 .. Len(t) : Append(t, e)[i] = t[i]
      /\ Append(t, e)[Len(t) + 1] = e
  BY AppendIs
<1>2. PICK a : a = Append(t, e)
  OBVIOUS
<1>3. PICK c, d : c = s \o a /\ d = s \o t
  OBVIOUS
<1>4. /\ IsSequence(c) /\ Len(s) \in Nat /\ Len(t) \in Nat /\ Len(c) = Len(s) + (Len(t) + 1)
      /\ \A i \in 1 .. Len(s) : c[i] = s[i]
      /\ \A i \in 1 .. Len(t) + 1 : c[Len(s) + i] = a[i]
  <2>1. IsSequence(a) /\ Len(a) = Len(t) + 1
    BY <1>1, <1>2
  <2>2. Len(t) \in Nat
    BY SequenceIs DEF IsSequence
  <2>3. IsSequence(c) /\ Len(s) \in Nat /\ Len(c) = Len(s) + Len(a)
    BY <1>3, <2>1, ConcatIs
  <2>4. \A i \in 1 .. Len(s) : c[i] = s[i]
    BY <1>3, <2>1, ConcatIs
  <2>5. \A i \in 1 .. Len(a) : c[Len(s) + i] = a[i]
    BY <1>3, <2>1, ConcatIs
  <2> QED BY <2>1, <2>2, <2>3, <2>4, <2>5
<1>5. /\ IsSequence(d) /\ Len(d) = Len(s) + Len(t)
      /\ \A i \in 1 .. Len(s) : d[i] = s[i]
      /\ \A i \in 1 .. Len(t) : d[Len(s) + i] = t[i]
  <2>1. IsSequence(d) /\ Len(d) = Len(s) + Len(t)
    BY <1>3, ConcatIs
  <2>2. \A i \in 1 .. Len(s) : d[i] = s[i]
    BY <1>3, ConcatIs
  <2>3. \A i \in 1 .. Len(t) : d[Len(s) + i] = t[i]
    BY <1>3, ConcatIs
  <2> QED BY <2>1, <2>2, <2>3
<1>6. /\ IsSequence(Append(d, e)) /\ Len(Append(d, e)) = Len(d) + 1
      /\ \A i \in 1 .. Len(d) : Append(d, e)[i] = d[i]
      /\ Append(d, e)[Len(d) + 1] = e
  BY <1>5, <1>3, AppendIs
<1>7. PICK b : b = Append(d, e)
  OBVIOUS
<1>8. ASSUME NEW i \in 1 .. Len(c) PROVE c[i] = b[i]
  <2>1. i \in 1 .. Len(s) + (Len(t) + 1) /\ Len(d) = Len(s) + Len(t)
    BY <1>4, <1>5, <1>3
  <2>2. CASE i \in 1 .. Len(s)
    <3>1. i \in 1 .. Len(d)
      BY <1>4, <2>1, <2>2
    <3> QED BY <1>4, <1>5, <1>3, <1>6, <1>7, <2>2, <3>1
  <2>3. CASE i \notin 1 .. Len(s)
    <3>1. PICK k \in 1 .. Len(t) + 1 : i = Len(s) + k
      <4>1. i - Len(s) \in 1 .. Len(t) + 1 /\ i = Len(s) + (i - Len(s))
        BY <1>4, <2>1, <2>3
      <4> QED BY <4>1
    <3>2. c[i] = a[k]
      BY <1>4, <1>3, <3>1
    <3>3. CASE k = Len(t) + 1
      <4>1. i = Len(d) + 1
        BY <1>4, <2>1, <3>1, <3>3
      <4>2. c[i] = e /\ b[i] = e
        BY <1>1, <1>2, <1>6, <1>7, <3>2, <3>3, <4>1
      <4> QED BY <4>2
    <3>4. CASE k # Len(t) + 1
      <4>1. k \in 1 .. Len(t) /\ i \in 1 .. Len(d)
        <5>1. Len(t) \in Nat /\ Len(s) \in Nat
          BY <1>4
        <5> QED BY <2>1, <3>1, <3>4, <5>1
      <4>2. c[i] = t[k] /\ b[i] = d[i] /\ d[i] = t[k]
        BY <1>1, <1>2, <1>5, <1>3, <1>6, <1>7, <3>1, <3>2, <4>1
      <4> QED BY <4>2
    <3> QED BY <3>3, <3>4
  <2> QED BY <2>2, <2>3
<1>9. IsSequence(c) /\ IsSequence(b) /\ Len(c) = Len(b)
  BY <1>4, <1>5, <1>3, <1>6, <1>7
<1>10. c = b
  BY <1>8, <1>9, SequencesEqual
<1> QED BY <1>2, <1>3, <1>7, <1>10

\* What is the last is the first when it is reversed.
LEMMA ReverseAppends ==
    ASSUME NEW s, IsSequence(s), NEW x
    PROVE  Reverse(Append(s, x)) = <<x>> \o Reverse(s)
<1>1. PICK n, a, r : n = Len(s) /\ a = Append(s, x) /\ r = Reverse(s)
  OBVIOUS
<1>2. /\ IsSequence(a) /\ Len(a) = n + 1 /\ a[n + 1] = x /\ \A i \in 1 .. n : a[i] = s[i]
  BY <1>1, AppendIs
<1>3. IsSequence(r) /\ Len(r) = n /\ n \in Nat /\ \A i \in 1 .. n : r[i] = s[(n - i) + 1]
  BY <1>1, ReverseIs
<1>4. PICK b : b = Reverse(a)
  OBVIOUS
<1>5. IsSequence(b) /\ Len(b) = n + 1 /\ \A i \in 1 .. n + 1 : b[i] = a[((n + 1) - i) + 1]
  BY <1>2, <1>4, ReverseIs
<1>6. PICK y : y = <<x>>
  OBVIOUS
<1>7. IsSequence(y) /\ Len(y) = 1 /\ y[1] = x
  BY <1>6, SingleIs
<1>8. PICK c : c = y \o r
  OBVIOUS
<1>9. /\ IsSequence(c) /\ Len(c) = 1 + n /\ c[1] = x /\ \A i \in 1 .. n : c[1 + i] = r[i]
  <2>1. 1 \in 1 .. Len(y)
    BY <1>7
  <2>2. IsSequence(y) /\ IsSequence(r)
    BY <1>3, <1>7
  <2>3. IsSequence(c) /\ Len(c) = Len(y) + Len(r)
    BY <1>8, <2>2, ConcatIs
  <2>4. \A i \in 1 .. Len(y) : c[i] = y[i]
    BY <1>8, <2>2, ConcatIs
  <2>5. \A i \in 1 .. Len(r) : c[Len(y) + i] = r[i]
    BY <1>8, <2>2, ConcatIs
  <2> QED BY <1>3, <1>7, <2>1, <2>3, <2>4, <2>5
<1>10. ASSUME NEW i \in 1 .. Len(b) PROVE b[i] = c[i]
  <2>1. CASE i = 1
    <3>1. 1 \in 1 .. n + 1 /\ ((n + 1) - 1) + 1 = n + 1
      BY <1>3
    <3> QED BY <1>2, <1>5, <1>9, <2>1, <3>1
  <2>2. CASE i # 1
    <3>1. PICK k \in 1 .. n : i = 1 + k
      <4>1. i - 1 \in 1 .. n /\ i = 1 + (i - 1)
        BY <1>3, <1>5, <2>2
      <4> QED BY <4>1
    <3>2. ((n + 1) - i) + 1 = (n - k) + 1 /\ (n - k) + 1 \in 1 .. n /\ i \in 1 .. n + 1
      BY <1>3, <3>1
    <3>3. b[i] = s[(n - k) + 1]
      BY <1>2, <1>5, <3>2
    <3> QED BY <1>3, <1>9, <3>1, <3>3
  <2> QED BY <2>1, <2>2
<1>11. b = c
  BY <1>3, <1>5, <1>9, <1>10, SequencesEqual
<1> QED BY <1>1, <1>4, <1>6, <1>8, <1>11

\* It does not matter what else is in the set.
LEMMA OnlySame ==
    ASSUME NEW s, IsSequence(s), NEW T, NEW U, \A e \in ToSet(s) : e \in T <=> e \in U
    PROVE  Only(s, T) = Only(s, U)
<1>1. PICK f : KeptOf(f, s, T)
  BY KeptExist
<1>2. PICK g : KeptOf(g, s, U)
  BY KeptExist
<1>3. Len(s) \in Nat /\ \A i \in 1 .. Len(s) : s[i] \in ToSet(s)
  BY SequenceIs DEF IsSequence
<1> DEFINE P == {i \in Nat : f[i] = g[i]}
<1>4. 0 \in P
  BY <1>1, <1>2 DEF KeptOf
<1>5. ASSUME NEW i \in 1 .. Len(s), i - 1 \in P PROVE i \in P
  <2>1. f[i] = (IF s[i] \in T THEN Append(f[i - 1], s[i]) ELSE f[i - 1])
    BY <1>1 DEF KeptOf
  <2>2. g[i] = IF s[i] \in U THEN Append(g[i - 1], s[i]) ELSE g[i - 1]
    BY <1>2 DEF KeptOf
  <2> QED BY <1>3, <1>5, <2>1, <2>2
<1>6. Len(s) \in P
  <2> HIDE DEF P
  <2>1. \A i \in 0 .. Len(s) : i \in P
    BY <1>3, <1>4, <1>5, UpTo
  <2> QED BY <1>3, <2>1
<1> QED BY <1>1, <1>2, <1>6 DEF KeptOf

\* The first element is kept first.
LEMMA OnlyCons ==
    ASSUME NEW s, IsSequence(s), NEW x, NEW T
    PROVE  Only(<<x>> \o s, T) = IF x \in T THEN <<x>> \o Only(s, T) ELSE Only(s, T)
<1> DEFINE Begin(n) == SubSeq(s, 1, n)
           Is(t) == Only(<<x>> \o t, T) = IF x \in T THEN <<x>> \o Only(t, T) ELSE Only(t, T)
           P == {n \in Nat : Is(Begin(n))}
<1>1. /\ Len(s) \in Nat /\ Begin(0) = <<>> /\ Begin(Len(s)) = s
      /\ \A n \in 0 .. Len(s) : IsSequence(Begin(n))
      /\ \A n \in 0 .. Len(s) - 1 : Begin(n + 1) = Append(Begin(n), s[n + 1])
  BY FirstOf
<1> HIDE DEF Begin
<1>2. IsSequence(<<x>>)
  BY SingleIs
<1>3. 0 \in P
  <2>1. <<x>> \o <<>> = Append(<<>>, x) /\ <<x>> = Append(<<>>, x)
    OBVIOUS
  <2>2. Only(Append(<<>>, x), T) = IF x \in T THEN Append(<<>>, x) ELSE <<>>
    BY EmptyIs, OnlyEmpty, OnlyAppend
  <2> QED BY <1>1, <2>1, <2>2, OnlyEmpty
<1>4. ASSUME NEW n \in 1 .. Len(s), n - 1 \in P PROVE n \in P
  <2>1. PICK f, e : f = Begin(n - 1) /\ e = s[n]
    OBVIOUS
  <2>2. IsSequence(f) /\ Begin(n) = Append(f, e) /\ Is(f) /\ n \in Nat
    <3>1. n - 1 \in 0 .. Len(s) /\ n - 1 \in 0 .. Len(s) - 1 /\ (n - 1) + 1 = n
      BY <1>1
    <3> QED BY <1>1, <1>4, <2>1, <3>1
  <2>3. IsSequence(Only(f, T)) /\ IsSequence(<<x>> \o f)
    BY <1>2, <2>2, OnlyType, ConcatIs
  <2>4. <<x>> \o Append(f, e) = Append(<<x>> \o f, e)
    BY <1>2, <2>2, ConcatAppends
  <2>5. Only(Append(<<x>> \o f, e), T) = IF e \in T THEN Append(Only(<<x>> \o f, T), e) ELSE Only(<<x>> \o f, T)
    <3>1. PICK c : c = <<x>> \o f
      OBVIOUS
    <3>2. IsSequence(c)
      BY <2>3, <3>1
    <3>3. Only(Append(c, e), T) = IF e \in T THEN Append(Only(c, T), e) ELSE Only(c, T)
      BY ONLY <3>2, OnlyAppend
    <3> QED BY <3>1, <3>3
  <2>6. Only(Append(f, e), T) = IF e \in T THEN Append(Only(f, T), e) ELSE Only(f, T)
    BY ONLY <2>2, OnlyAppend
  <2>7. <<x>> \o Append(Only(f, T), e) = Append(<<x>> \o Only(f, T), e)
    BY <1>2, <2>3, ConcatAppends
  <2>8. Is(Append(f, e))
    BY <2>2, <2>4, <2>5, <2>6, <2>7
  <2> HIDE DEF Is
  <2> QED BY <2>2, <2>8
<1>5. Len(s) \in P
  <2> HIDE DEF P
  <2>1. \A n \in 0 .. Len(s) : n \in P
    BY <1>1, <1>3, <1>4, UpTo
  <2> QED BY <1>1, <2>1
<1> QED BY <1>1, <1>5

\* The names of the directories of a chain.
NamesOf(raw, chain) == [k \in DOMAIN chain |-> Get(raw.dirs[chain[k]], "name")]

\* With one more directory the path has one more name, or has it if it is not empty.
LEMMA PathGrows ==
    ASSUME NEW raw, NEW file, NEW chain \in Seq(DOMAIN raw.dirs), NEW row \in DOMAIN raw.dirs
    PROVE  LET path == PathBy(raw, file, chain)
               name == Get(raw.dirs[row], "name")
           IN  PathBy(raw, file, Append(chain, row)) = IF name = NoWord THEN path ELSE <<name>> \o path
<1>1. PICK x, names, longer :
        x = Get(raw.dirs[row], "name") /\ names = NamesOf(raw, chain) /\ longer = NamesOf(raw, Append(chain, row))
  OBVIOUS
<1>2. Len(chain) \in Nat /\ DOMAIN chain = 1 .. Len(chain) /\ IsSequence(chain)
  BY SequenceIs
<1>3. IsSequence(names)
  <2> DEFINE f == [k \in 1 .. Len(chain) |-> Get(raw.dirs[chain[k]], "name")]
  <2>1. names = [k \in 1 .. Len(chain) |-> f[k]]
    BY <1>1, <1>2 DEF NamesOf
  <2> HIDE DEF f
  <2> QED BY <1>2, <2>1, FunctionIs
<1>4. longer = Append(names, x)
  <2> DEFINE f == [j \in DOMAIN raw.dirs |-> Get(raw.dirs[j], "name")]
  <2>1. names = [k \in DOMAIN chain |-> f[chain[k]]]
    BY <1>1 DEF NamesOf
  <2>2. \A k \in DOMAIN Append(chain, row) : Append(chain, row)[k] \in DOMAIN raw.dirs
    OBVIOUS
  <2>3. longer = [k \in DOMAIN Append(chain, row) |-> f[Append(chain, row)[k]]]
    BY <1>1, <2>2 DEF NamesOf
  <2>4. f[row] = x
    BY <1>1
  <2> HIDE DEF f
  <2> QED BY <1>2, <2>1, <2>3, <2>4, MapAppends
<1>5. PICK r : r = Reverse(names)
  OBVIOUS
<1>6. IsSequence(r) /\ ToSet(r) \subseteq ToSet(names)
  <2>1. IsSequence(r) /\ Len(r) = Len(names) /\ Len(names) \in Nat
        /\ \A i \in 1 .. Len(names) : r[i] = names[(Len(names) - i) + 1]
    BY <1>3, <1>5, ReverseIs
  <2>2. DOMAIN r = 1 .. Len(names) /\ \A i \in 1 .. Len(names) : names[i] \in ToSet(names)
    BY <1>3, <2>1, SequenceIs DEF IsSequence
  <2>3. \A i \in DOMAIN r : r[i] \in ToSet(names)
    <3> SUFFICES ASSUME NEW i \in 1 .. Len(names) PROVE r[i] \in ToSet(names)
      BY <2>2
    <3>1. (Len(names) - i) + 1 \in 1 .. Len(names)
      BY <2>1
    <3> QED BY <2>1, <2>2, <3>1
  <2> QED BY <2>1, <2>3 DEF ToSet
<1>7. Reverse(longer) = <<x>> \o r
  BY <1>3, <1>4, <1>5, ReverseAppends
<1>8. ToSet(longer) = ToSet(names) \cup {x}
  BY <1>3, <1>4, AppendIs
<1>9. PICK T, U : T = ToSet(names) \ {NoWord} /\ U = ToSet(longer) \ {NoWord}
  OBVIOUS
<1>10. Only(r, U) = Only(r, T) /\ IsSequence(Only(r, T))
  <2>1. \A e \in ToSet(r) : e \in U <=> e \in T
    BY <1>6, <1>8, <1>9
  <2> QED BY <1>6, <2>1, OnlySame, OnlyType
<1>11. Only(<<x>> \o r, U) = IF x \in U THEN <<x>> \o Only(r, U) ELSE Only(r, U)
  BY ONLY <1>6, OnlyCons
<1>12. x \in U <=> x # NoWord
  BY <1>8, <1>9
<1>13. PICK o, y : o = Only(r, T) /\ y = Get(file, "name")
  OBVIOUS
<1>14. <<x>> \o Append(o, y) = Append(<<x>> \o o, y)
  BY <1>10, <1>13, SingleIs, ConcatAppends
<1>15. PathBy(raw, file, chain) = Append(o, y)
  BY <1>1, <1>5, <1>9, <1>13 DEF PathBy, NamesOf
<1>16. PathBy(raw, file, Append(chain, row)) = Append(Only(<<x>> \o r, U), y)
  BY <1>1, <1>7, <1>9, <1>13 DEF PathBy, NamesOf
<1> QED BY <1>1, <1>10, <1>11, <1>12, <1>13, <1>14, <1>15, <1>16

\* The row above so many directories of a chain.
UpOf(raw, file, chain, k) == IF k = 0 THEN Get(file, "dir") ELSE Get(raw.dirs[chain[k]], "parent")

\* A part of a chain, from the innermost directory on.
PartOf(raw, file, chain) ==
    /\ chain \in Seq(DOMAIN raw.dirs)
    /\ \A k \in DOMAIN chain :
          UpOf(raw, file, chain, k - 1) # 0 /\ chain[k] \in RowOf(raw.dirs, UpOf(raw, file, chain, k - 1))

LEMMA PartGrows ==
    ASSUME NEW raw, NEW file, NEW chain, PartOf(raw, file, chain),
           NEW row \in DOMAIN raw.dirs,
           UpOf(raw, file, chain, Len(chain)) # 0, row \in RowOf(raw.dirs, UpOf(raw, file, chain, Len(chain)))
    PROVE  /\ PartOf(raw, file, Append(chain, row)) /\ Len(Append(chain, row)) = Len(chain) + 1
           /\ UpOf(raw, file, Append(chain, row), Len(chain) + 1) = Get(raw.dirs[row], "parent")
<1> DEFINE longer == Append(chain, row)
<1>1. chain \in Seq(DOMAIN raw.dirs) /\ Len(chain) \in Nat /\ DOMAIN chain = 1 .. Len(chain)
  BY DEF PartOf
<1>2. /\ longer \in Seq(DOMAIN raw.dirs) /\ Len(longer) = Len(chain) + 1 /\ DOMAIN longer = 1 .. Len(chain) + 1
      /\ longer[Len(chain) + 1] = row
      /\ \A k \in 1 .. Len(chain) : longer[k] = chain[k]
  BY <1>1
<1> HIDE DEF longer
<1>3. \A k \in 0 .. Len(chain) : UpOf(raw, file, longer, k) = UpOf(raw, file, chain, k)
  BY <1>1, <1>2 DEF UpOf
<1>4. UpOf(raw, file, longer, Len(chain) + 1) = Get(raw.dirs[row], "parent")
  BY <1>1, <1>2 DEF UpOf
<1>5. ASSUME NEW k \in 1 .. Len(chain) + 1
      PROVE  UpOf(raw, file, longer, k - 1) # 0 /\ longer[k] \in RowOf(raw.dirs, UpOf(raw, file, longer, k - 1))
  <2>1. k - 1 \in 0 .. Len(chain)
    BY <1>1
  <2>2. UpOf(raw, file, longer, k - 1) = UpOf(raw, file, chain, k - 1)
    BY <1>3, <2>1
  <2>3. CASE k = Len(chain) + 1
    <3>1. k - 1 = Len(chain)
      BY <1>1, <2>3
    <3> QED BY <1>2, <2>2, <2>3, <3>1
  <2>4. CASE k # Len(chain) + 1
    <3>1. k \in 1 .. Len(chain)
      BY <1>1, <2>4
    <3> QED BY <1>1, <1>2, <2>2, <3>1 DEF PartOf
  <2> QED BY <2>3, <2>4
<1>6. PartOf(raw, file, longer)
  BY <1>2, <1>5 DEF PartOf
<1> QED BY <1>2, <1>4, <1>6 DEF longer

\* The walk goes along a chain.
LEMMA ChainExists ==
    ASSUME NEW raw, HasTables(raw), NEW file, HasPath(raw, file)
    PROVE  \E chain \in BoundedSeq(DOMAIN raw.dirs, Len(raw.dirs)) :
                IsChain(raw, file, chain) /\ Path(raw, file) = PathBy(raw, file, chain)
<1>1. PICK n : n = Len(raw.dirs)
  OBVIOUS
<1>2. n \in Nat /\ IsSequence(raw.dirs)
  BY <1>1, SequenceIs DEF HasTables, IsSequence
<1>3. PICK w : Climbs(w, raw, file)
  BY <1>1, <1>2, ClimbIs
<1>4. /\ w[0] = [dir |-> Get(file, "dir"), path |-> <<Get(file, "name")>>]
      /\ \A k \in 1 .. n : w[k] = UpFrom(raw, w[k - 1])
      /\ Climb(raw, file) = w[n]
  BY <1>1, <1>3 DEF Climbs
<1> DEFINE Goes(k, chain) ==
             /\ PartOf(raw, file, chain) /\ Len(chain) <= k
             /\ w[k].dir = UpOf(raw, file, chain, Len(chain)) /\ w[k].path = PathBy(raw, file, chain)
           P == {k \in Nat : \E chain : Goes(k, chain)}
<1>5. 0 \in P
  <2>1. PartOf(raw, file, <<>>) /\ Len(<<>>) = 0 /\ UpOf(raw, file, <<>>, 0) = Get(file, "dir")
    BY EmptyIs DEF PartOf, UpOf
  <2>2. PathBy(raw, file, <<>>) = <<Get(file, "name")>>
    <3> DEFINE names == [k \in DOMAIN <<>> |-> Get(raw.dirs[<<>>[k]], "name")]
    <3>1. names = <<>>
      OBVIOUS
    <3>2. Reverse(names) = <<>>
      BY <3>1, EmptyIs DEF Reverse
    <3>3. PathBy(raw, file, <<>>) = Append(Only(Reverse(names), ToSet(names) \ {NoWord}), Get(file, "name"))
      BY DEF PathBy
    <3> HIDE DEF names
    <3>4. Only(Reverse(names), ToSet(names) \ {NoWord}) = <<>>
      BY <3>2, OnlyEmpty
    <3>5. \A x : Append(<<>>, x) = <<x>>
      OBVIOUS
    <3>6. PathBy(raw, file, <<>>) = Append(<<>>, Get(file, "name"))
      BY <3>3, <3>4
    <3> QED BY ONLY <3>5, <3>6
  <2>3. Goes(0, <<>>)
    BY <1>4, <2>1, <2>2
  <2> QED BY <2>3
<1>6. ASSUME NEW k \in 1 .. n, k - 1 \in P PROVE k \in P
  <2>1. PICK chain : Goes(k - 1, chain)
    BY <1>6
  <2>2. w[k] = UpFrom(raw, w[k - 1]) /\ k \in Nat /\ k - 1 \in Nat
    BY <1>2, <1>4
  <2>3. PICK at : at = w[k - 1]
    OBVIOUS
  <2>4. Len(chain) \in Nat /\ chain \in Seq(DOMAIN raw.dirs)
    BY <2>1 DEF PartOf
  <2>5. CASE UpFrom(raw, at) = at
    <3>1. Goes(k, chain)
      BY <2>1, <2>2, <2>3, <2>4, <2>5
    <3> QED BY <2>2, <3>1
  <2>6. CASE UpFrom(raw, at) # at
    <3>1. PICK dirs : dirs = ById(raw.dirs)
      OBVIOUS
    <3>2. PICK name : name = Get(dirs[at.dir], "name")
      OBVIOUS
    <3>3. /\ at.dir # 0 /\ at.dir \in DOMAIN dirs
          /\ UpFrom(raw, at) = [dir |-> Get(dirs[at.dir], "parent"), path |-> IF name = NoWord THEN at.path ELSE <<name>> \o at.path]
      BY <2>6, <3>1, <3>2 DEF UpFrom
    <3>4. PICK row \in DOMAIN raw.dirs : RowOf(raw.dirs, at.dir) = {row} /\ dirs[at.dir] = raw.dirs[row]
      BY <1>2, <3>1, <3>3, RowIs
    <3>5. at.dir = UpOf(raw, file, chain, Len(chain)) /\ at.path = PathBy(raw, file, chain) /\ PartOf(raw, file, chain)
      BY <2>1, <2>3
    <3>6. PICK longer : longer = Append(chain, row)
      OBVIOUS
    <3>7. PartOf(raw, file, longer) /\ Len(longer) = Len(chain) + 1
          /\ UpOf(raw, file, longer, Len(longer)) = Get(raw.dirs[row], "parent")
      BY <3>3, <3>4, <3>5, <3>6, PartGrows
    <3>8. PathBy(raw, file, longer) = IF name = NoWord THEN at.path ELSE <<name>> \o at.path
      BY <2>4, <3>2, <3>4, <3>5, <3>6, PathGrows
    <3>9. Len(longer) <= k
      BY <2>1, <2>2, <2>4, <3>7
    <3>10. w[k].dir = Get(raw.dirs[row], "parent") /\ w[k].path = PathBy(raw, file, longer)
      BY <2>2, <2>3, <3>3, <3>4, <3>8
    <3>11. Goes(k, longer)
      BY <3>7, <3>9, <3>10
    <3> QED BY <2>2, <3>11
  <2> QED BY <2>5, <2>6
<1>7. PICK chain : Goes(n, chain)
  <2>1. n \in P
    <3> HIDE DEF P
    <3>1. \A k \in 0 .. n : k \in P
      BY <1>2, <1>5, <1>6, UpTo
    <3> QED BY <1>2, <3>1
  <2> QED BY <2>1
<1>8. UpOf(raw, file, chain, Len(chain)) = 0 /\ Path(raw, file) = PathBy(raw, file, chain)
  BY <1>4, <1>7 DEF HasPath, Path
<1>9. IsChain(raw, file, chain)
  BY <1>7, <1>8 DEF IsChain, PartOf, UpOf
<1>10. chain \in BoundedSeq(DOMAIN raw.dirs, Len(raw.dirs))
  <2>1. chain \in Seq(DOMAIN raw.dirs) /\ Len(chain) \in 0 .. n
    BY <1>2, <1>7 DEF PartOf
  <2>2. chain \in [1 .. Len(chain) -> DOMAIN raw.dirs]
    BY <2>1
  <2>3. \E m \in 0 .. n : chain \in [1 .. m -> DOMAIN raw.dirs]
    BY <2>1, <2>2
  <2> QED BY <1>1, <2>3 DEF BoundedSeq, SeqOf
<1> QED BY <1>8, <1>9, <1>10

\* What is read of a row of the files is what it means.
LEMMA RowIsMeant ==
    ASSUME NEW raw, HasTables(raw), ParamsOk(raw), BundlesOk(raw), NEW i \in DOMAIN raw.files, FileOk(raw, raw.files[i])
    PROVE  IsMeant(raw, raw.files[i], Entry(FileOf(raw, raw.files[i])))
<1>1. PICK file, e : file = raw.files[i] /\ e = Entry(FileOf(raw, file))
  OBVIOUS
<1>2. file \in ToSet(raw.files) /\ FileOk(raw, file)
  BY <1>1 DEF ToSet
<1>3. /\ e.path = Path(raw, file) /\ e.langs = Langs(raw, file)
      /\ e.hash = Get(raw.params[Get(file, "params") + 1], "hash")
      /\ e.data = [k \in DOMAIN Chunks(raw, file) |-> Chunks(raw, file)[k].id]
      /\ e.places = [k \in DOMAIN Chunks(raw, file) |->
                        [bundle |-> Chunks(raw, file)[k].bundle, at |-> Chunks(raw, file)[k].at]]
  BY <1>1 DEF Entry, FileOf
<1>4. \E chain \in BoundedSeq(DOMAIN raw.dirs, Len(raw.dirs)) :
            IsChain(raw, file, chain) /\ e.path = PathBy(raw, file, chain)
  <2>1. HasPath(raw, file)
    BY <1>2 DEF FileOk
  <2> QED BY <1>3, <2>1, ChainExists
<1>5. e.langs = LangsBy(raw, file)
  <2>1. CASE Get(file, "flags") = {}
    <3>1. LangIds(file) = {}
      BY <2>1 DEF LangIds
    <3> QED BY <1>3, <2>1, <3>1 DEF Langs, LangsBy
  <2>2. CASE Get(file, "flags") # {}
    <3>1. LangIds(file) # {} /\ LangIds(file) \subseteq DOMAIN ById(raw.langs)
      BY <1>2, <2>2 DEF LangIds, FileOk
    <3>2. file.flags = Get(file, "flags")
      BY <2>2 DEF Get, Absent
    <3> DEFINE One(id) == {Get(raw.langs[k], "name") : k \in RowOf(raw.langs, id)}
    <3>3. ASSUME NEW id \in LangIds(file) PROVE One(id) = {Get(ById(raw.langs)[id], "name")}
      <4>1. IsSequence(raw.langs)
        BY DEF HasTables, IsSequence
      <4>2. PICK j \in DOMAIN raw.langs : RowOf(raw.langs, id) = {j} /\ ById(raw.langs)[id] = raw.langs[j]
        BY <3>1, <4>1, RowIs
      <4> QED BY <4>2
    <3>4. LangsBy(raw, file) = UNION {One(bit + 1) : bit \in file.flags}
      BY <2>2 DEF LangsBy
    <3>5. Langs(raw, file) = {Get(ById(raw.langs)[id], "name") : id \in LangIds(file)}
      BY <3>1 DEF Langs
    <3> HIDE DEF One
    <3>6. UNION {One(bit + 1) : bit \in file.flags} = UNION {One(id) : id \in LangIds(file)}
      BY <3>2 DEF LangIds
    <3>7. UNION {One(id) : id \in LangIds(file)} = {Get(ById(raw.langs)[id], "name") : id \in LangIds(file)}
      BY <3>3
    <3> QED BY <1>3, <3>4, <3>5, <3>6, <3>7
  <2> QED BY <2>1, <2>2
<1>6. e.hash = raw.params[Get(file, "params") + 1].hash
  <2>1. PICK p : p = Get(file, "params") + 1
    OBVIOUS
  <2>2. p \in DOMAIN raw.params
    <3>1. Get(file, "params") \in Nat /\ Get(file, "params") < Len(raw.params)
      BY <1>2 DEF HasTables, FileOk
    <3>2. Len(raw.params) \in Nat /\ DOMAIN raw.params = 1 .. Len(raw.params)
      BY DEF HasTables
    <3> QED BY <2>1, <3>1, <3>2
  <2>3. Get(raw.params[p], "hash") \in 1 .. LastHash
    BY <2>2 DEF ParamsOk
  <2>4. Get(raw.params[p], "hash") # 0
    BY <2>3, LastHashAssumption
  <2>5. Get(raw.params[p], "hash") = raw.params[p].hash
    BY <2>4 DEF Get, Absent
  <2> QED BY <1>3, <2>1, <2>5
<1>7. PICK ids : ids = Get(file, "ids")
  OBVIOUS
<1>8. ids \in Seq(ToSet(ids)) /\ ToSet(ids) \subseteq DOMAIN Sources(raw)
  BY <1>2, <1>7 DEF HasTables, FileOk
<1>9. PICK chunks : chunks = Chunks(raw, file)
  OBVIOUS
<1>10. /\ DOMAIN chunks = DOMAIN ids
       /\ \A k \in DOMAIN ids : /\ chunks[k].id = ids[k]
                                /\ chunks[k].bundle = Sources(raw)[ids[k]].bundle
                                /\ chunks[k].at = Sources(raw)[ids[k]].at
  BY <1>7, <1>9 DEF Chunks
<1>11. e.data = ids
  <2>1. ids = [k \in DOMAIN ids |-> ids[k]]
    BY <1>8
  <2> QED BY <1>3, <1>9, <1>10, <2>1
<1>12. ASSUME NEW k \in DOMAIN ids PROVE IsAt(raw, ids[k], e.places[k])
  <2>1. PICK id : id = ids[k]
    OBVIOUS
  <2>2. id \in DOMAIN Sources(raw)
    BY <1>8, <2>1 DEF ToSet
  <2>3. PICK j \in DOMAIN raw.bundles : \E l \in DOMAIN Get(raw.bundles[j], "chunks") :
                Sources(raw)[id] = Placed(raw.bundles[j])[l] /\ Placed(raw.bundles[j])[l].id = id
    BY <2>2, SourcesAre
  <2>4. PICK b, rows : b = raw.bundles[j] /\ rows = Get(b, "chunks")
    OBVIOUS
  <2>5. PICK l \in DOMAIN rows : Sources(raw)[id] = Placed(b)[l] /\ Placed(b)[l].id = id
    BY <2>3, <2>4
  <2>6. Get(b, "id") # 0 /\ Get(rows[l], "id") # 0
    BY <2>4 DEF BundlesOk
  <2>7. Get(b, "id") = b.id /\ Get(rows[l], "id") = rows[l].id
    BY <2>6 DEF Get, Absent
  <2>8. Placed(b)[l].id = Get(rows[l], "id") /\ Placed(b)[l].bundle = Get(b, "id") /\ Placed(b)[l].at = Bytes(rows, "compressed", l)
    BY <2>4, PlacedIs
  <2>9. e.places[k] = [bundle |-> b.id, at |-> Bytes(rows, "compressed", l)]
    <3>1. e.places[k] = [bundle |-> chunks[k].bundle, at |-> chunks[k].at]
      <4>1. e.places = [x \in DOMAIN chunks |-> [bundle |-> chunks[x].bundle, at |-> chunks[x].at]]
        BY <1>3, <1>9
      <4>2. k \in DOMAIN chunks
        BY <1>10
      <4> QED BY <4>1, <4>2
    <3>2. chunks[k].bundle = Sources(raw)[id].bundle /\ chunks[k].at = Sources(raw)[id].at
      BY <1>10, <2>1
    <3>3. chunks[k].bundle = b.id
      BY <3>2, <2>5, <2>7, <2>8
    <3>4. chunks[k].at = Bytes(rows, "compressed", l)
      BY <3>2, <2>5, <2>8
    <3> QED BY <3>1, <3>3, <3>4
  <2>10. rows[l].id = id
    BY <2>5, <2>7, <2>8
  <2> QED BY <2>1, <2>4, <2>9, <2>10 DEF IsAt
<1> QED BY <1>1, <1>4, <1>5, <1>6, <1>7, <1>11, <1>12 DEF IsMeant

-----------------------------------------------------------------------------
(***************************************************************************)
(* Where rman-dl asks for chunks, and what rman-bl prints                  *)
(***************************************************************************)

\* Where rman-dl keeps the url, its manifest is a binary one until it ends, and what
\* is chosen is of it.
UrlInv ==
    prog.url =>
        /\ Cli.is = "dl" /\ \A e \in ToSet(chosen) : Even(e)
        /\ pc # "none" => IsRman(disk[Cli.ins[Len(Cli.ins)]])

\* The bundles that are printed are those of the inputs that are read, and of the
\* one that is being read, less those that are still to come.
BundlesOf(i) == ToSet(ReadBundles(disk[Cli.ins[i]]).entries)
Coming(i) == IF pc = "entries" /\ i = Begun THEN ToSet(entries) ELSE {}
Prints == Cli.is = "bl" /\ (pc # "none" \/ prog.ended = "ok")
PrintInv ==
    Prints =>
        /\ pc \in {"none", "read", "entries"} /\ (pc = "none" => todo = <<>>)
        /\ IsSequence(printed) /\ IsSequence(entries)
        /\ \A i \in 1 .. Len(Cli.ins) : i <= Begun /\ (pc = "entries" /\ i = Begun => readable) =>
              IsRman(disk[Cli.ins[i]]) /\ BundlesOf(i) \subseteq ToSet(printed) \cup Coming(i)

\* A program that does not write leaves binary manifests as they are.
LEMMA RmanStays ==
    ASSUME FlowInv, Next, NEW n \in Name, IsRman(disk[n]),
           \/ \E command \in Commands : Start(command)
           \/ ~(Writes(Cli) \/ Cli.is = "rads")
    PROVE  disk'[n] = disk[n]
<1>1. DOMAIN disk = Name /\ (rest => Opened) /\ disk[n].form = "rman"
  BY DEF FlowInv, IInv, DiskInv, ProgInv, IsRman
<1>2. CASE \E command \in Commands : Start(command)
  <2>1. disk' = [k \in Name |-> OnDisk(k)]
    BY <1>2 DEF Start
  <2>2. ~(rest /\ n = Out)
    BY <1>1 DEF Opened
  <2> QED BY <2>1, <2>2 DEF OnDisk
<1>3. CASE \E k \in Name : Compress(k)
  BY <1>1, <1>3 DEF Compress
<1>4. CASE ~(\E command \in Commands : Start(command)) /\ ~(\E k \in Name : Compress(k))
  <2>1. pc \notin {"open", "header"}
    BY <1>4 DEF FlowInv, TodoInv
  <2> QED BY <1>4, <2>1 DEF Next, Open, WriteHeader, Read, MergeEntry, DiffEntry, SplitEntry, RadsEntry,
            PrintEntry, ChooseEntry, CutEntry, EndOfInput, End, DownloadFile, DownloadThrows, Downloads,
            Release, WriteFile, WritesRelease, Kill, Next1, disks, Writes
<1> QED BY <1>2, <1>3, <1>4

\* The entries of a binary manifest.
LEMMA RmanLog ==
    ASSUME FlowInv, NEW n \in Name, IsRman(disk[n])
    PROVE  /\ IsSequence(ReadBundles(disk[n]).entries) /\ log[n] = ReadFile(disk[n]).entries
           /\ \A e \in ToSet(log[n]) :
                 Even(e) /\ \A place \in ToSet(e.places) : place.bundle \in ToSet(ReadBundles(disk[n]).entries)
<1>1. log[n] = ReadFile(disk[n]).entries
  BY DEF FlowInv, RmanInv
<1>2. PICK f \in First : disk[n] \in ToSet(f.disk)
  BY DEF FlowInv, IInv, DiskInv, FileInv, IsRman
<1>3. disk[n].form = "rman"
  BY DEF IsRman
<1> QED BY <1>1, <1>2, <1>3, RmanFiles

LEMMA UrlKeeps ==
    ASSUME FlowInv, UpdateInv', UrlInv, [Next]_vars
    PROVE  UrlInv'
<1>1. CASE UNCHANGED vars
  <2>1. UNCHANGED <<prog, pc, chosen, disk>>
    BY <1>1 DEF vars, disks, reading
  <2> QED BY <2>1 DEF UrlInv, Cli
<1>2. CASE \E command \in Commands : Start(command)
  <2>1. PICK command \in Commands : Start(command)
    BY <1>2
  <2>2. Cli' = command /\ chosen' = <<>> /\ prog'.url = (command.is = "dl" /\ HasKnownBundle(disk[Last(command.ins)]))
    BY <2>1, StartStep
  <2>3. SUFFICES ASSUME command.is = "dl", HasKnownBundle(disk[Last(command.ins)])
                 PROVE  UrlInv'
    BY <2>2 DEF UrlInv
  <2>4. PICK n \in Name : n = Last(command.ins) /\ n = command.ins[Len(command.ins)]
    <3>1. command.ins \in Seq(Name) /\ Len(command.ins) \in {1, 2}
      BY <2>3, CommandsAssumption
    <3>2. Len(command.ins) \in 1 .. Len(command.ins)
      <4>1. \A l \in {1, 2} : l \in 1 .. l
        OBVIOUS
      <4> QED BY <3>1, <4>1
    <3>3. command.ins[Len(command.ins)] \in Name
      BY <3>1, <3>2
    <3> QED BY <3>3 DEF Last
  <2>5. IsRman(disk[n])
    BY <2>3, <2>4 DEF HasKnownBundle, IsRman
  <2>6. Next
    BY <1>2 DEF Next
  <2>7. disk'[n] = disk[n]
    BY <1>2, <2>5, <2>6, RmanStays
  <2>8. IsRman(disk[n])'
    BY <2>5, <2>7 DEF IsRman
  <2> QED BY <2>2, <2>3, <2>4, <2>8, EmptyIs DEF UrlInv
<1>3. CASE Next /\ ~ \E command \in Commands : Start(command)
  <2>1. Cli' = Cli /\ prog'.url = prog.url
    BY <1>3, ProgStep
  <2>2. SUFFICES ASSUME prog.url, Cli.is = "dl"
                 PROVE  UrlInv'
    BY <2>1 DEF UrlInv
  <2>3. PICK n \in Name : n = Cli.ins[Len(Cli.ins)]
    <3>1. Cli.ins \in Seq(Name) /\ Len(Cli.ins) \in {1, 2}
      BY <2>2, CommandsAssumption DEF FlowInv, IInv, ProgInv
    <3>2. Len(Cli.ins) \in 1 .. Len(Cli.ins)
      <4>1. \A l \in {1, 2} : l \in 1 .. l
        OBVIOUS
      <4> QED BY <3>1, <4>1
    <3> QED BY <3>1, <3>2
  <2>4. CASE pc' = "none"
    <3>1. chosen' = chosen
      <4>1. pc \notin {"open", "header", "release"}
        BY <2>2 DEF FlowInv, TodoInv, IInv, ProgInv, Writes
      <4> QED BY <1>3, <2>2, <2>4, <4>1 DEF Next, Open, WriteHeader, Read, MergeEntry, DiffEntry, SplitEntry,
                RadsEntry, PrintEntry, ChooseEntry, CutEntry, EndOfInput, End, DownloadFile, DownloadThrows,
                Downloads, Release, WriteFile, WritesRelease, Kill, Next1, Compress
    <3> QED BY <2>1, <2>2, <2>4, <3>1 DEF UrlInv
  <2>5. CASE pc' # "none"
    <3>1. pc # "none"
      BY <1>3, <2>2, <2>5 DEF Next, Open, WriteHeader, Read, MergeEntry, DiffEntry, SplitEntry,
         RadsEntry, PrintEntry, ChooseEntry, CutEntry, EndOfInput, End, DownloadFile, DownloadThrows,
         Downloads, Release, WriteFile, WritesRelease, Kill, Next1, Compress
    <3>2. IsRman(disk[n])
      BY <2>2, <2>3, <3>1 DEF UrlInv
    <3>3. disk'[n] = disk[n]
      BY <1>3, <2>2, <3>2, RmanStays DEF Writes
    <3>4. IsRman(disk'[n])
      BY <3>2, <3>3
    <3>5. \A e \in ToSet(log'[n]) : Even(e)
      BY <1>3, <3>2, <3>4, FilesStep, RmanLog
    <3>6. ToSet(chosen') \subseteq ToSet(log'[n])
      BY <2>1, <2>2, <2>3, <2>5 DEF UpdateInv, Updates, EntriesOf
    <3> QED BY <2>1, <2>2, <2>3, <3>4, <3>5, <3>6 DEF UrlInv
  <2> QED BY <2>4, <2>5
<1> QED BY <1>1, <1>2, <1>3

LEMMA PrintKeepsOn ==
    ASSUME FlowInv, PrintInv, [Next]_vars
    PROVE  PrintInv'
<1>1. CASE UNCHANGED vars
  <2>1. UNCHANGED <<prog, pc, todo, entries, readable, printed, disk>>
    BY <1>1 DEF vars, disks, reading
  <2>2. Cli' = Cli /\ Begun' = Begun /\ (\A i : BundlesOf(i)' = BundlesOf(i)) /\ (\A i : Coming(i)' = Coming(i))
    BY <2>1 DEF Cli, Begun, BundlesOf, Coming
  <2> QED BY <2>1, <2>2 DEF PrintInv, Prints
<1>2. CASE \E command \in Commands : Start(command)
  <2>1. PICK command \in Commands : Start(command)
    BY <1>2
  <2>2. Cli' = command /\ printed' = <<>> /\ entries' = <<>> /\ todo' = command.ins
        /\ (command.is = "bl" => pc' = "read")
    BY <2>1, StartStep DEF Writes, Start
  <2>3. Begun' = 0 /\ Len(command.ins) \in Nat
    <3>1. Len(command.ins) \in Nat
      BY CommandsAssumption
    <3> QED BY <2>2, <3>1 DEF Begun
  <2>4. \A i \in 1 .. Len(command.ins) : ~(i <= 0)
    BY <2>3
  <2> QED BY <2>2, <2>3, <2>4, EmptyIs DEF PrintInv, Prints
<1>3. CASE Next /\ ~ \E command \in Commands : Start(command)
  <2>1. Cli' = Cli
    BY <1>3, ProgStep
  <2>2. SUFFICES ASSUME Prints', Cli.is = "bl"
                 PROVE  PrintInv'
    BY <2>1 DEF PrintInv, Prints
  <2>3. Cli.ins \in Seq(Name) /\ Len(Cli.ins) \in Nat
    BY CommandsAssumption DEF FlowInv, IInv, ProgInv
  <2>4. todo \in Seq(Name) /\ Len(todo) \in Nat /\ Len(todo) <= Len(Cli.ins)
        /\ (\A i \in 1 .. Len(todo) : todo[i] = Cli.ins[Begun + i]) /\ (pc = "entries" => Begun > 0)
        /\ DOMAIN prog = {"command", "lists", "dir", "url", "ended"}
    BY DEF FlowInv, TodoInv, IInv, ProgInv
  <2>5. Begun \in Nat /\ Begun <= Len(Cli.ins)
    BY <2>3, <2>4 DEF Begun
  <2>6. ASSUME NEW i \in 1 .. Len(Cli.ins), IsRman(disk[Cli.ins[i]])
        PROVE  IsRman(disk[Cli.ins[i]])' /\ BundlesOf(i)' = BundlesOf(i)
    <3>1. PICK n \in Name : n = Cli.ins[i]
      BY <2>3
    <3>2. disk'[n] = disk[n]
      BY <1>3, <2>2, <2>6, <3>1, RmanStays DEF Writes
    <3> QED BY <2>1, <2>6, <3>1, <3>2 DEF BundlesOf
  <2>7. CASE \E n \in Name : Compress(n)
    <3>1. UNCHANGED <<prog, pc, todo, entries, readable, printed>>
      BY <2>7 DEF Compress, reading
    <3>2. Begun' = Begun /\ (\A i : Coming(i)' = Coming(i)) /\ Prints
      BY <2>2, <3>1 DEF Cli, Begun, Coming, Prints
    <3> QED BY <2>1, <2>6, <3>1, <3>2 DEF PrintInv
  <2>8. CASE ~ \E n \in Name : Compress(n)
    <3>1. pc # "none"
      BY <1>3, <2>8 DEF Next, Start, Open, WriteHeader, Read, MergeEntry, DiffEntry, SplitEntry, RadsEntry,
            PrintEntry, ChooseEntry, CutEntry, EndOfInput, End, DownloadFile, DownloadThrows, Downloads,
            Release, WriteFile, WritesRelease, Kill, Next1
    <3>2. Prints /\ pc \in {"read", "entries"}
      BY <2>2, <3>1 DEF Prints, PrintInv
    <3>3. Read \/ (Next1("bl") /\ printed' = Append(printed, Head(entries))) \/ EndOfInput \/ End \/ Kill
      BY <1>3, <2>2, <2>8, <3>2 DEF Next, Open, WriteHeader, MergeEntry, DiffEntry, SplitEntry, RadsEntry,
            PrintEntry, ChooseEntry, CutEntry, DownloadFile, DownloadThrows, Downloads,
            Release, WriteFile, WritesRelease, Next1
    <3>4. \A x : [prog EXCEPT !.ended = x].ended = x
      BY <2>4
    <3>5. ~Kill
      BY <2>2, <3>4 DEF Kill, Prints
    <3>6. IsSequence(printed) /\ IsSequence(entries)
      BY <3>2 DEF PrintInv
    <3>7. CASE Read
      <4>1. /\ pc = "read" /\ todo # <<>> /\ pc' = "entries" /\ todo' = Tail(todo) /\ UNCHANGED <<disk, printed>>
            /\ entries' = ReadBundles(OnDisk(Head(todo))).entries /\ readable' = ReadBundles(OnDisk(Head(todo))).ok
        BY <2>2, <3>7 DEF Read, InputOf, disks
      <4>2. Begun' = Begun + 1 /\ Begun + 1 \in 1 .. Len(Cli.ins) /\ Head(todo) = Cli.ins[Begun + 1]
        <5>1. Len(Tail(todo)) = Len(todo) - 1 /\ Len(todo) \in Nat \ {0} /\ Head(todo) = todo[1]
          BY <2>4, <4>1
        <5> QED BY <2>1, <2>3, <2>4, <4>1, <5>1 DEF Begun
      <4>3. PICK i \in 1 .. Len(Cli.ins), n \in Name : i = Begun + 1 /\ n = Cli.ins[i]
        BY <2>3, <4>2
      <4>4. OnDisk(n) = disk[n] \/ OnDisk(n).form = "jrman"
        <5>1. disk[n].form = "jrman" => HalfAfter(disk[n]).form = "jrman"
          BY DEF HalfAfter
        <5>2. rest /\ n = Out => disk[n].form = "jrman"
          BY DEF FlowInv, IInv, ProgInv, Opened
        <5> QED BY <5>1, <5>2 DEF OnDisk
      <4>5. entries' = ReadBundles(OnDisk(n)).entries /\ readable' = ReadBundles(OnDisk(n)).ok
        BY <4>1, <4>2, <4>3
      <4>6. CASE IsRman(disk[n])
        <5>1. disk[n].form = "rman"
          BY <4>6 DEF IsRman
        <5>2. OnDisk(n) = disk[n]
          <6>1. rest /\ n = Out => disk[n].form = "jrman"
            BY DEF FlowInv, IInv, ProgInv, Opened
          <6> QED BY <5>1, <6>1 DEF OnDisk
        <5>3. IsSequence(entries') /\ BundlesOf(i) = ToSet(entries')
          BY <4>3, <4>5, <4>6, <5>2, RmanLog DEF BundlesOf
        <5>4. Coming(i)' = ToSet(entries')
          BY <4>1, <4>2, <4>3 DEF Coming
        <5>5. ASSUME NEW j \in 1 .. Len(Cli.ins), j <= Begun'
              PROVE  IsRman(disk[Cli.ins[j]])' /\ BundlesOf(j)' \subseteq ToSet(printed') \cup Coming(j)'
          <6>1. CASE j = i
            BY <2>6, <4>3, <4>6, <5>3, <5>4, <6>1
          <6>2. CASE j # i
            <7>1. j <= Begun
              BY <2>5, <4>2, <4>3, <5>5, <6>2
            <7>2. IsRman(disk[Cli.ins[j]]) /\ BundlesOf(j) \subseteq ToSet(printed)
              BY <3>2, <4>1, <7>1 DEF PrintInv, Coming
            <7> QED BY <2>6, <4>1, <7>2
          <6> QED BY <6>1, <6>2
        <5> QED BY <2>1, <3>6, <4>1, <5>3, <5>5 DEF PrintInv
      <4>7. CASE ~IsRman(disk[n])
        <5>1. ~readable' /\ entries' = <<>>
          BY <4>4, <4>5, <4>7 DEF IsRman, ReadBundles, Nothing
        <5>2. ASSUME NEW j \in 1 .. Len(Cli.ins), j <= Begun', j # Begun'
              PROVE  IsRman(disk[Cli.ins[j]])' /\ BundlesOf(j)' \subseteq ToSet(printed') \cup Coming(j)'
          <6>1. j <= Begun
            BY <2>5, <4>2, <5>2
          <6>2. IsRman(disk[Cli.ins[j]]) /\ BundlesOf(j) \subseteq ToSet(printed)
            BY <3>2, <4>1, <6>1 DEF PrintInv, Coming
          <6> QED BY <2>6, <4>1, <6>2
        <5> QED BY <2>1, <3>6, <4>1, <5>1, <5>2, EmptyIs DEF PrintInv
      <4> QED BY <4>6, <4>7
    <3>8. CASE Next1("bl") /\ printed' = Append(printed, Head(entries))
      <4>1. /\ pc = "entries" /\ entries # <<>> /\ entries' = Tail(entries)
            /\ UNCHANGED <<prog, pc, todo, readable>> /\ Begun' = Begun
        BY <2>1, <3>8 DEF Next1, Begun
      <4>2. IsSequence(entries') /\ ToSet(entries) = {Head(entries)} \cup ToSet(entries')
        BY <3>6, <4>1, HeadTail, TailIs
      <4>3. IsSequence(printed') /\ ToSet(printed') = ToSet(printed) \cup {Head(entries)}
        BY <3>6, <3>8, AppendIs
      <4>4. ASSUME NEW i \in 1 .. Len(Cli.ins), i <= Begun, i = Begun => readable
            PROVE  IsRman(disk[Cli.ins[i]])' /\ BundlesOf(i)' \subseteq ToSet(printed') \cup Coming(i)'
        <5>1. IsRman(disk[Cli.ins[i]]) /\ BundlesOf(i) \subseteq ToSet(printed) \cup Coming(i)
          BY <3>2, <4>1, <4>4 DEF PrintInv
        <5>2. Coming(i) \subseteq Coming(i)' \cup {Head(entries)}
          BY <4>1, <4>2 DEF Coming
        <5> QED BY <2>6, <4>3, <5>1, <5>2
      <4> QED BY <2>1, <3>2, <4>1, <4>2, <4>3, <4>4 DEF PrintInv
    <3>9. CASE EndOfInput
      <4>1. readable /\ pc = "entries" /\ entries = <<>> /\ pc' = "read"
            /\ UNCHANGED <<prog, todo, entries, printed>> /\ Begun' = Begun
        <5>1. readable
          BY <2>2, <3>4, <3>9 DEF EndOfInput, Prints
        <5> QED BY <2>1, <2>2, <3>9, <5>1 DEF EndOfInput, reading, Begun
      <4>2. ASSUME NEW i \in 1 .. Len(Cli.ins), i <= Begun
            PROVE  IsRman(disk[Cli.ins[i]])' /\ BundlesOf(i)' \subseteq ToSet(printed') \cup Coming(i)'
        <5>1. IsRman(disk[Cli.ins[i]]) /\ BundlesOf(i) \subseteq ToSet(printed)
          BY <3>2, <4>1, <4>2, EmptyIs DEF PrintInv, Coming
        <5> QED BY <2>6, <4>1, <5>1
      <4> QED BY <2>1, <3>6, <4>1, <4>2 DEF PrintInv
    <3>10. CASE End
      <4>1. pc = "read" /\ pc' = "none" /\ todo = <<>> /\ UNCHANGED <<todo, entries, readable, printed>> /\ Begun' = Begun
        BY <2>1, <3>10 DEF End, reading, Begun
      <4>2. ASSUME NEW i \in 1 .. Len(Cli.ins), i <= Begun
            PROVE  IsRman(disk[Cli.ins[i]])' /\ BundlesOf(i)' \subseteq ToSet(printed') \cup Coming(i)'
        <5>1. IsRman(disk[Cli.ins[i]]) /\ BundlesOf(i) \subseteq ToSet(printed)
          BY <3>2, <4>1, <4>2 DEF PrintInv, Coming
        <5> QED BY <2>6, <4>1, <5>1
      <4> QED BY <2>1, <3>6, <4>1, <4>2 DEF PrintInv
    <3> QED BY <3>3, <3>5, <3>7, <3>8, <3>9, <3>10
  <2> QED BY <2>7, <2>8
<1> QED BY <1>1, <1>2, <1>3

LEMMA Asking == Spec => [](FlowInv /\ UrlInv /\ PrintInv)
<1>1. Init => UrlInv /\ PrintInv
  BY DEF Init, UrlInv, PrintInv, Prints
<1>2. FlowInv /\ UpdateInv' /\ UrlInv /\ [Next]_vars => UrlInv'
  BY UrlKeeps
<1>3. FlowInv /\ PrintInv /\ [Next]_vars => PrintInv'
  BY PrintKeepsOn
<1> QED BY <1>1, <1>2, <1>3, Flow, Updating, PTL DEF Spec

-----------------------------------------------------------------------------
(***************************************************************************)
(* What rman-rads writes                                                   *)
(***************************************************************************)

\* The element at the last of some places of a sequence.
Latest(s, I) == {s[i] : i \in {j \in I : \A k \in I : k <= j}}

InAnyCase(s, path) == {i \in DOMAIN s : Lowered(s[i].path) = Lowered(path)}
Searched(n, path) ==
    {i \in 1 .. n : IsIn(Realm, EntriesOf(1)[i]) /\ Lowered(EntriesOf(1)[i].path) = Lowered(path)}

\* What rman-rads finds under a path is the last of the first entries of the input.
LooksUp(n) == \A path : Latest(from, InAnyCase(from, path)) = Latest(EntriesOf(1), Searched(n, path))
Looked == IsSequence(from) /\ IsSequence(EntriesOf(1)) /\ LooksUp(Len(EntriesOf(1)))

\* What is at the last of the places.
LEMMA LatestSame ==
    ASSUME NEW s, NEW t, NEW I, \A i \in I : t[i] = s[i]
    PROVE  Latest(t, I) = Latest(s, I)
BY DEF Latest

LEMMA LatestIs ==
    ASSUME NEW s, NEW I, NEW m \in I, \A k \in I : k \in Nat /\ k <= m
    PROVE  Latest(s, I) = {s[m]}
<1>1. {j \in I : \A k \in I : k <= j} = {m}
  <2>1. ASSUME NEW j \in I, \A k \in I : k <= j PROVE j = m
    BY <2>1
  <2> QED BY <2>1
<1> QED BY <1>1 DEF Latest

\* One more entry of the input is looked at.
LEMMA LookupGrows ==
    ASSUME IsSequence(from), NEW n \in Nat, n + 1 \in 1 .. Len(EntriesOf(1)), LooksUp(n),
           NEW e, e = EntriesOf(1)[n + 1], NEW g, g = IF IsIn(Realm, e) THEN Append(from, e) ELSE from
    PROVE  \A path : Latest(g, InAnyCase(g, path)) = Latest(EntriesOf(1), Searched(n + 1, path))
<1> SUFFICES ASSUME NEW path
             PROVE  Latest(g, InAnyCase(g, path)) = Latest(EntriesOf(1), Searched(n + 1, path))
  OBVIOUS
<1>1. PICK input, I, J, m :
          input = EntriesOf(1) /\ I = InAnyCase(from, path) /\ J = Searched(n, path) /\ m = Len(from)
  OBVIOUS
<1>2. Latest(from, I) = Latest(input, J)
  BY <1>1 DEF LooksUp
<1>3. m \in Nat /\ DOMAIN from = 1 .. m /\ I \in SUBSET (1 .. m) /\ J \in SUBSET (1 .. n)
  BY <1>1, SequenceIs DEF IsSequence, InAnyCase, Searched
<1>4. Searched(n + 1, path) = IF IsIn(Realm, e) /\ Lowered(e.path) = Lowered(path) THEN J \cup {n + 1} ELSE J
  <2>1. 1 .. n + 1 = 1 .. n \cup {n + 1}
    OBVIOUS
  <2> QED BY <1>1, <2>1 DEF Searched
<1>5. CASE ~IsIn(Realm, e)
  BY <1>1, <1>2, <1>4, <1>5
<1>6. CASE IsIn(Realm, e)
  <2>1. g = Append(from, e)
    BY <1>6
  <2>2. /\ DOMAIN g = 1 .. m + 1 /\ g[m + 1] = e
        /\ \A i \in 1 .. m : g[i] = from[i]
    BY <1>1, <2>1, AppendIs, SequenceIs DEF IsSequence
  <2>3. InAnyCase(g, path) = IF Lowered(e.path) = Lowered(path) THEN I \cup {m + 1} ELSE I
    <3>1. 1 .. m + 1 = 1 .. m \cup {m + 1}
      BY <1>3
    <3> QED BY <1>1, <1>3, <2>2, <3>1 DEF InAnyCase
  <2>4. Latest(g, I) = Latest(from, I)
    <3>1. \A i \in I : g[i] = from[i]
      BY <1>3, <2>2
    <3> QED BY <3>1, LatestSame
  <2>5. Latest(g, I \cup {m + 1}) = {e}
    <3>1. PICK K, k : K = I \cup {m + 1} /\ k = m + 1
      OBVIOUS
    <3>2. k \in K /\ \A i \in K : i \in Nat /\ i <= k
      BY <1>3, <3>1
    <3>3. Latest(g, K) = {g[k]}
      BY <3>2, LatestIs
    <3> QED BY <2>2, <3>1, <3>3
  <2>6. Latest(input, J \cup {n + 1}) = {e}
    <3>1. PICK K, k : K = J \cup {n + 1} /\ k = n + 1
      OBVIOUS
    <3>2. k \in K /\ \A i \in K : i \in Nat /\ i <= k
      BY <1>3, <3>1
    <3>3. Latest(input, K) = {input[k]}
      BY <3>2, LatestIs
    <3> QED BY <1>1, <3>1, <3>3
  <2>7. CASE Lowered(e.path) = Lowered(path)
    BY <1>1, <1>4, <1>6, <2>3, <2>5, <2>6, <2>7
  <2>8. CASE Lowered(e.path) # Lowered(path)
    BY <1>1, <1>2, <1>4, <2>3, <2>4, <2>8
  <2> QED BY <2>7, <2>8
<1> QED BY <1>5, <1>6

\* find_file finds what the input has under the path.
LEMMA FindsEntry ==
    ASSUME Looked, NEW path
    PROVE  IF FindFile(path) = 0 THEN EntryAt(path) = {}
           ELSE FindFile(path) \in 1 .. Len(from) /\ EntryAt(path) = {from[FindFile(path)]}
<1>1. PICK n, I : n = Len(from) /\ I = InAnyCase(from, path)
  OBVIOUS
<1>2. n \in Nat /\ DOMAIN from = 1 .. n /\ I \in SUBSET (1 .. n)
  BY <1>1, SequenceIs DEF Looked, IsSequence, InAnyCase
<1>3. EntryAt(path) = Latest(from, I)
  <2>1. DOMAIN EntriesOf(1) = 1 .. Len(EntriesOf(1))
    BY SequenceIs DEF Looked, IsSequence
  <2>2. EntryAt(path) = Latest(EntriesOf(1), Searched(Len(EntriesOf(1)), path))
    BY <2>1 DEF EntryAt, Latest, Searched
  <2> QED BY <1>1, <2>2 DEF Looked, LooksUp
<1>4. FindFile(path) = IF I # {} THEN Max(I) ELSE 0
  BY <1>1, <1>2 DEF FindFile, SelectLastInSeq, InAnyCase
<1>5. CASE I = {}
  BY <1>3, <1>4, <1>5 DEF Latest
<1>6. CASE I # {}
  <2>1. Max(I) \in I /\ \A k \in I : k <= Max(I)
    BY <1>2, <1>6, LastIs
  <2>2. PICK m \in I : m = Max(I)
    BY <2>1
  <2>3. \A k \in I : k \in Nat /\ k <= m
    BY <1>2, <2>1, <2>2
  <2>4. Latest(from, I) = {from[m]}
    BY <2>3, LatestIs
  <2>5. m \in 1 .. n /\ m # 0
    BY <1>2
  <2> QED BY <1>1, <1>3, <1>4, <1>6, <2>2, <2>4, <2>5
<1> QED BY <1>5, <1>6

\* So rman-rads reads what the entry says.
LEMMA ReadsWhatIsSaid ==
    ASSUME Looked, NEW path, NEW is \in {"rls", "sln"}
    PROVE  LET raw == ReadContent(path)
           IN  Said(is, path) =
                  IF raw.is = is /\ (IF is = "rls" THEN RlsOk(raw) ELSE SlnOk(raw)) THEN {raw} ELSE {}
<1>1. PICK n, raw : n = FindFile(path) /\ raw = ReadContent(path)
  OBVIOUS
<1> DEFINE Can(e) == e.data \in DOMAIN Contents /\ ToSet(e.data) \subseteq Cli.bundle /\ (e.stripped => e.data \in lists)
           Ok(r) == r.is = is /\ IF is = "rls" THEN RlsOk(r) ELSE SlnOk(r)
<1>2. Said(is, path) = {r \in {Contents[e.data] : e \in {e \in EntryAt(path) : Can(e)}} : Ok(r)}
  BY DEF Said
<1>3. raw = IF n # 0 /\ Can(from[n]) THEN Contents[from[n].data] ELSE NoContent
  BY <1>1 DEF ReadContent
<1>4. ~Ok(NoContent)
  BY DEF NoContent
<1> HIDE DEF Can, Ok
<1>5. CASE n = 0
  <2>1. EntryAt(path) = {}
    BY <1>1, <1>5, FindsEntry
  <2> QED BY <1>1, <1>2, <1>3, <1>4, <1>5, <2>1 DEF Ok
<1>6. CASE n # 0 /\ ~Can(from[n])
  <2>1. EntryAt(path) = {from[n]}
    BY <1>1, <1>6, FindsEntry
  <2>2. {e \in EntryAt(path) : Can(e)} = {}
    BY <1>6, <2>1
  <2> QED BY <1>1, <1>2, <1>3, <1>4, <1>6, <2>2 DEF Ok
<1>7. CASE n # 0 /\ Can(from[n])
  <2>1. EntryAt(path) = {from[n]}
    BY <1>1, <1>7, FindsEntry
  <2>2. {e \in EntryAt(path) : Can(e)} = {from[n]}
    BY <1>7, <2>1
  <2>3. {Contents[e.data] : e \in {e \in EntryAt(path) : Can(e)}} = {raw}
    BY <1>3, <1>7, <2>2
  <2>4. Said(is, path) = IF Ok(raw) THEN {raw} ELSE {}
    BY <1>2, <2>3
  <2> QED BY <1>1, <2>4 DEF Ok
<1> QED BY <1>5, <1>6, <1>7

\* The folder that has a folder or file, and none behind it has.
LEMMA ParentIs ==
    ASSUME NEW folders, Len(folders) \in Nat \ {0}, NEW field, NEW c
    PROVE  /\ Parent(folders, field, c) + 1 \in 1 .. Len(folders)
           /\ \A d \in 1 .. Len(folders) :
                 HasLast(folders, field, c, d) <=> d = Parent(folders, field, c) + 1
<1>1. PICK n \in Nat \ {0} : n = Len(folders)
  OBVIOUS
<1> DEFINE I == {i \in 1 .. n : c \in Members(folders[i][field])}
<1>2. Parent(folders, field, c) = IF I = {} \/ Max(I) = 0 THEN 0 ELSE Max(I) - 1
  BY <1>1 DEF Parent, SelectLastInSeq
<1>3. ASSUME NEW d \in 1 .. n
      PROVE  HasLast(folders, field, c, d) <=> (d = 1 \/ d \in I) /\ \A later \in d + 1 .. n : later \notin I
  <2>1. \A later \in d + 1 .. n : later \in 1 .. n
    OBVIOUS
  <2> QED BY <1>1, <2>1 DEF HasLast
<1>4. I \in SUBSET (1 .. n)
  OBVIOUS
<1> HIDE DEF I
<1>5. CASE I = {}
  <2>1. \A d \in 1 .. n : HasLast(folders, field, c, d) <=> d = 1
    BY <1>3, <1>5
  <2> QED BY <1>1, <1>2, <1>5, <2>1
<1>6. CASE I # {}
  <2>1. PICK m \in 1 .. n : m = Max(I) /\ m \in I /\ \A k \in I : k <= m
    BY <1>4, <1>6, LastIs
  <2>2. Parent(folders, field, c) + 1 = m
    BY <1>2, <1>6, <2>1
  <2>3. ASSUME NEW d \in 1 .. n PROVE HasLast(folders, field, c, d) <=> d = m
    <3>1. CASE d = m
      BY <1>3, <2>1, <3>1
    <3>2. CASE d < m
      <4>1. m \in d + 1 .. n
        BY <3>2
      <4> QED BY <1>3, <2>1, <3>2, <4>1
    <3>3. CASE d > m
      <4>1. d # 1 /\ d \notin I
        BY <2>1, <3>3
      <4> QED BY <1>3, <3>3, <4>1
    <3> QED BY <3>1, <3>2, <3>3
  <2> QED BY <1>1, <2>1, <2>2, <2>3
<1> QED BY <1>5, <1>6

\* A file that is in no circle has one chain of folders, that of the loop.
ChainTo(raw, file) == [k \in 1 .. Depth(raw, file - 1) |-> Above(raw, file - 1)[k - 1] + 1]

LEMMA ChainIs ==
    ASSUME NEW raw, IsSequence(raw.folders), NEW file, ~Circular(raw, file - 1)
    PROVE  ChainsOf(raw, file) = {ChainTo(raw, file)}
<1>1. PICK folders, n, up, d : /\ folders = raw.folders /\ n = Len(folders)
                               /\ up = Above(raw, file - 1) /\ d = Depth(raw, file - 1)
  OBVIOUS
<1>2. n \in Nat /\ DOMAIN folders = 1 .. n
  BY <1>1, SequenceIs DEF IsSequence
<1>3. /\ up[0] = Parent(folders, "files", file - 1)
      /\ \A k \in 1 .. n : up[k] = IF up[k - 1] = 0 THEN 0 ELSE Parent(folders, "folders", up[k - 1])
      /\ \A k \in 0 .. n : up[k] \in 0 .. n /\ (up[k] # 0 => up[k] < n)
  BY <1>1, <1>2, AboveIs
<1>4. d \in 0 .. n /\ up[d] = 0 /\ \A k \in 0 .. d - 1 : up[k] # 0
  BY <1>1, <1>2, DepthIs
<1> DEFINE c == [k \in 1 .. d |-> up[k - 1] + 1]
<1>5. ChainTo(raw, file) = c
  BY <1>1 DEF ChainTo
<1>6. c \in BoundedSeq(1 .. n, n)
  <2>1. ASSUME NEW k \in 1 .. d PROVE up[k - 1] + 1 \in 1 .. n
    <3>1. k - 1 \in 0 .. d - 1 /\ k - 1 \in 0 .. n
      BY <1>2, <1>4
    <3> QED BY <1>2, <1>3, <1>4, <3>1
  <2>2. c \in [1 .. d -> 1 .. n]
    BY <2>1
  <2> HIDE DEF c
  <2> QED BY <1>4, <2>2 DEF BoundedSeq, SeqOf
<1>7. \A chain : IsFolderChain(raw, file, chain) <=>
         (n # 0 =>
            LET Up(k) == IF k > Len(chain) THEN 1 ELSE chain[k]
            IN  /\ HasLast(folders, "files", file - 1, Up(1))
                /\ \A k \in DOMAIN chain : chain[k] # 1 /\ HasLast(folders, "folders", chain[k] - 1, Up(k + 1)))
  <2>1. folders = <<>> <=> n = 0
    BY <1>1 DEF IsSequence
  <2> QED BY <1>1, <2>1 DEF IsFolderChain
<1>8. Len(c) = d /\ DOMAIN c = 1 .. d /\ \A k \in 1 .. d : c[k] = up[k - 1] + 1
  BY <1>4
<1> HIDE DEF c
<1>9. IsFolderChain(raw, file, c)
  <2> SUFFICES ASSUME n # 0
               PROVE  LET Up(k) == IF k > Len(c) THEN 1 ELSE c[k]
                      IN  /\ HasLast(folders, "files", file - 1, Up(1))
                          /\ \A k \in DOMAIN c : c[k] # 1 /\ HasLast(folders, "folders", c[k] - 1, Up(k + 1))
    BY <1>7
  <2> DEFINE Up(k) == IF k > Len(c) THEN 1 ELSE c[k]
  <2>1. ASSUME NEW k \in 0 .. d PROVE Up(k + 1) = up[k] + 1
    <3>1. CASE k = d
      BY <1>4, <1>8, <3>1
    <3>2. CASE k # d
      <4>1. k + 1 \in 1 .. d /\ ~(k + 1 > d) /\ (k + 1) - 1 = k
        BY <1>4, <3>2
      <4> QED BY <1>8, <4>1
    <3> QED BY <3>1, <3>2
  <2>2. HasLast(folders, "files", file - 1, Up(1))
    <3>1. Up(1) = Parent(folders, "files", file - 1) + 1
      <4>1. 0 \in 0 .. d /\ 0 + 1 = 1
        BY <1>4
      <4>2. Up(0 + 1) = up[0] + 1
        BY <2>1, <4>1
      <4> HIDE DEF Up
      <4> QED BY <1>3, <4>1, <4>2
    <3> HIDE DEF Up
    <3> QED BY <1>1, <1>2, <3>1, ParentIs
  <2>3. ASSUME NEW k \in 1 .. d PROVE c[k] # 1 /\ HasLast(folders, "folders", c[k] - 1, Up(k + 1))
    <3>1. k - 1 \in 0 .. d - 1 /\ k - 1 \in 0 .. n /\ k \in 1 .. n /\ k \in 0 .. d
      BY <1>2, <1>4
    <3>2. c[k] = up[k - 1] + 1 /\ up[k - 1] # 0 /\ up[k - 1] \in Nat
      BY <1>3, <1>4, <1>8, <3>1
    <3>3. c[k] # 1 /\ c[k] - 1 = up[k - 1]
      BY <3>2
    <3>4. Up(k + 1) = Parent(folders, "folders", up[k - 1]) + 1
      <4> HIDE DEF Up
      <4> QED BY <1>3, <2>1, <3>1, <3>2
    <3> HIDE DEF Up
    <3> QED BY <1>1, <1>2, <3>3, <3>4, ParentIs
  <2> QED BY <1>8, <2>2, <2>3
<1>10. ASSUME NEW chain \in ChainsOf(raw, file) PROVE chain = c
  <2>1. IsFolderChain(raw, file, chain) /\ chain \in BoundedSeq(1 .. n, n)
    BY <1>1, <1>2 DEF ChainsOf
  <2>2. PICK m \in 0 .. n : chain \in [1 .. m -> 1 .. n]
    BY <2>1 DEF BoundedSeq, SeqOf
  <2>3. Len(chain) = m /\ DOMAIN chain = 1 .. m
    BY <1>2, <2>2
  <2> DEFINE Up(k) == IF k > Len(chain) THEN 1 ELSE chain[k]
  <2>4. ASSUME n # 0
        PROVE  /\ HasLast(folders, "files", file - 1, Up(1))
               /\ \A k \in 1 .. m : chain[k] # 1 /\ HasLast(folders, "folders", chain[k] - 1, Up(k + 1))
    BY <1>7, <2>1, <2>3, <2>4
  <2>5. n # 0 => \A k \in 1 .. m + 1 : Up(k) \in 1 .. n
    <3> SUFFICES ASSUME n # 0, NEW k \in 1 .. m + 1 PROVE Up(k) \in 1 .. n
      OBVIOUS
    <3>1. CASE k = m + 1
      BY <1>2, <2>3, <3>1
    <3>2. CASE k # m + 1
      <4>1. k \in 1 .. m /\ ~(k > m)
        BY <3>2
      <4> QED BY <2>2, <2>3, <4>1
    <3> QED BY <3>1, <3>2
  <2>6. Up(m + 1) = 1 /\ \A k \in 1 .. m : Up(k) = chain[k]
    BY <2>3
  <2> HIDE DEF Up
  <2> DEFINE P == {k \in Nat : Up(k + 1) = up[k] + 1}
  <2>7. n # 0 => \A k \in 0 .. m : k \in P
    <3> SUFFICES ASSUME n # 0 PROVE \A k \in 0 .. m : k \in P
      OBVIOUS
    <3>1. 0 \in P
      <4>1. Up(1) \in 1 .. n
        BY <2>5
      <4>2. Up(1) = Parent(folders, "files", file - 1) + 1
        BY <1>1, <1>2, <2>4, <4>1, ParentIs
      <4> QED BY <1>3, <4>2
    <3>2. ASSUME NEW k \in 1 .. m, k - 1 \in P PROVE k \in P
      <4>1. k + 1 \in 1 .. m + 1 /\ (k - 1) + 1 = k /\ k \in 1 .. n /\ k - 1 \in 0 .. n /\ k \in Nat
        BY <1>2
      <4>2. chain[k] = up[k - 1] + 1
        BY <2>6, <3>2, <4>1
      <4>3. up[k - 1] # 0 /\ chain[k] - 1 = up[k - 1]
        BY <1>3, <2>4, <4>1, <4>2
      <4>4. Up(k + 1) \in 1 .. n /\ HasLast(folders, "folders", up[k - 1], Up(k + 1))
        BY <2>4, <2>5, <4>1, <4>3
      <4>5. Up(k + 1) = Parent(folders, "folders", up[k - 1]) + 1
        BY <1>1, <1>2, <4>4, ParentIs
      <4> QED BY <1>3, <4>1, <4>3, <4>5
    <3> HIDE DEF P
    <3> QED BY <3>1, <3>2, UpTo
  <2>8. ASSUME NEW k \in 0 .. m PROVE n # 0 => Up(k + 1) = up[k] + 1
    BY <2>7
  <2>9. CASE n = 0
    <3>1. m = 0 /\ d = 0
      BY <1>4, <2>9
    <3> QED BY <1>8, <2>2, <3>1 DEF c
  <2>10. CASE n # 0
    <3>1. up[m] = 0
      <4>1. up[m] \in Nat /\ Up(m + 1) = up[m] + 1
        BY <1>2, <1>3, <2>8, <2>10
      <4> QED BY <2>6, <4>1
    <3>2. ASSUME NEW k \in 1 .. m PROVE chain[k] = up[k - 1] + 1 /\ up[k - 1] # 0
      <4>1. k - 1 \in 0 .. m /\ (k - 1) + 1 = k
        OBVIOUS
      <4>2. chain[k] = up[k - 1] + 1 /\ chain[k] # 1
        BY <2>4, <2>6, <2>8, <2>10, <4>1
      <4> QED BY <4>2
    <3>3. m = d
      <4>1. ~(m < d)
        BY <1>4, <3>1
      <4>2. ~(d < m)
        <5> SUFFICES ASSUME d < m PROVE FALSE
          OBVIOUS
        <5>1. d + 1 \in 1 .. m /\ (d + 1) - 1 = d
          BY <1>4
        <5> QED BY <1>4, <3>2, <5>1
      <4> QED BY <1>4, <4>1, <4>2
    <3>4. chain = [k \in 1 .. m |-> chain[k]] /\ c = [k \in 1 .. d |-> c[k]]
      BY <2>2 DEF c
    <3> QED BY <1>8, <3>2, <3>3, <3>4
  <2> QED BY <2>9, <2>10
<1>11. c \in ChainsOf(raw, file)
  BY <1>1, <1>2, <1>6, <1>9 DEF ChainsOf
<1> QED BY <1>5, <1>10, <1>11

\* What the rows mean is what is read of them.
LEMMA MeantIs ==
    ASSUME NEW raw, IsSequence(raw.folders), IsSequence(raw.files), RlsOk(raw)
    PROVE  Meant(raw) = {[name |-> FileName(raw, i - 1), version |-> raw.files[i].version] : i \in DOMAIN raw.files}
<1> DEFINE InFolders(file, chain) ==
               Append(Reverse([k \in DOMAIN chain |-> raw.folders[chain[k]].name]), raw.files[file].name)
<1>1. ASSUME NEW i \in DOMAIN raw.files
      PROVE  ChainsOf(raw, i) = {ChainTo(raw, i)} /\ InFolders(i, ChainTo(raw, i)) = FileName(raw, i - 1)
  <2>1. ChainsOf(raw, i) = {ChainTo(raw, i)}
    BY ChainIs DEF RlsOk
  <2>2. PICK d, up : d = Depth(raw, i - 1) /\ up = Above(raw, i - 1)
    OBVIOUS
  <2>3. ChainTo(raw, i) = [k \in 1 .. d |-> up[k - 1] + 1]
    BY <2>2 DEF ChainTo
  <2>4. [k \in DOMAIN ChainTo(raw, i) |-> raw.folders[ChainTo(raw, i)[k]].name]
            = [k \in 1 .. d |-> raw.folders[up[k - 1] + 1].name]
    BY <2>3
  <2>5. (i - 1) + 1 = i
    BY SequenceIs DEF IsSequence
  <2>6. FileName(raw, i - 1) = Append(Reverse([k \in 1 .. d |-> raw.folders[up[k - 1] + 1].name]), raw.files[i].name)
    BY <2>2, <2>5 DEF FileName, Depth
  <2> QED BY <2>1, <2>4, <2>6
<1>2. ~ \E i \in DOMAIN raw.files : ChainsOf(raw, i) = {}
  BY <1>1
<1>3. Meant(raw) = {[name |-> InFolders(i, CHOOSE chain \in ChainsOf(raw, i) : TRUE),
                     version |-> raw.files[i].version] : i \in DOMAIN raw.files}
  BY <1>2 DEF Meant
<1>4. ASSUME NEW i \in DOMAIN raw.files
      PROVE  InFolders(i, CHOOSE chain \in ChainsOf(raw, i) : TRUE) = FileName(raw, i - 1)
  <2>1. (CHOOSE chain \in ChainsOf(raw, i) : TRUE) = ChainTo(raw, i)
    <3>1. PICK C, c : C = ChainsOf(raw, i) /\ c = ChainTo(raw, i) /\ C = {c}
      BY <1>1
    <3>2. (CHOOSE chain \in C : TRUE) \in C
      <4>1. \E chain \in C : TRUE
        BY <3>1
      <4> QED BY <4>1
    <3> QED BY <3>1, <3>2
  <2> HIDE DEF InFolders
  <2> QED BY <1>1, <2>1
<1> HIDE DEF InFolders
<1> QED BY <1>3, <1>4

\* The fields that a release gives an entry do not meet that which is not written.
LEMMA DumpedRenamed ==
    ASSUME NEW e, "path" \in DOMAIN e, "langs" \in DOMAIN e, "places" \in DOMAIN e, NEW x
    PROVE  /\ Dumped([e EXCEPT !.path = x]) = [Dumped(e) EXCEPT !.path = x]
           /\ Dumped([e EXCEPT !.langs = x]) = [Dumped(e) EXCEPT !.langs = x]
<1> DEFINE Swapped(s) == [[e EXCEPT ![s] = x] EXCEPT !["places"] = <<>>] = [[e EXCEPT !["places"] = <<>>] EXCEPT ![s] = x]
<1>1. ASSUME NEW s, s # "places" PROVE Swapped(s)
  <2> DEFINE l == [[e EXCEPT ![s] = x] EXCEPT !["places"] = <<>>]
             r == [[e EXCEPT !["places"] = <<>>] EXCEPT ![s] = x]
  <2>1. l = [f \in DOMAIN e |-> l[f]] /\ r = [f \in DOMAIN e |-> r[f]]
    OBVIOUS
  <2>2. ASSUME NEW f \in DOMAIN e PROVE l[f] = r[f]
    BY <1>1
  <2> HIDE DEF l, r
  <2>3. l = r
    BY <2>1, <2>2
  <2> QED BY <2>3 DEF l, r
<1>2. Swapped("path") /\ Swapped("langs")
  <2> HIDE DEF Swapped
  <2>1. "path" # "places" /\ "langs" # "places"
    OBVIOUS
  <2> QED BY <1>1, <2>1
<1> QED BY <1>2 DEF Dumped

\* A release manifest is a sequence of rows, if it is one.
LEMMA ContentIs ==
    ASSUME NEW path, NEW raw, raw = ReadContent(path)
    PROVE  /\ raw.is = "rls" => IsSequence(raw.files) /\ IsSequence(raw.folders)
           /\ raw.is = "sln" => IsSequence(raw.projects)
<1>1. raw = NoContent \/ \E data \in DOMAIN Contents : raw = Contents[data]
  BY DEF ReadContent
<1>2. CASE raw = NoContent
  BY <1>2 DEF NoContent
<1>3. CASE \E data \in DOMAIN Contents : raw = Contents[data]
  BY <1>3, ContentsAssumption DEF IsSequence
<1> QED BY <1>1, <1>2, <1>3

\* What process_rls gives, as it is written, are the files of the project.
LEMMA RlsGives ==
    ASSUME Looked, AreSound(from), NEW path, Before(path, Projects) = Realm
    PROVE  {Dumped(e) : e \in ToSet(ProcessRls(path))} = FilesAt(path)
<1>1. PICK raw, s, n, name : /\ raw = ReadContent(path) /\ s = FilesOf(path) /\ n = Len(s)
                             /\ name = ReadRls(raw).name
  OBVIOUS
<1>2. n \in Nat /\ DOMAIN s = 1 .. n
  BY <1>1, ContentsRead, SequenceIs DEF IsSequence, FilesOf
<1> DEFINE Place(i) == PlaceOf(path, s[i])
           Named(i) == NamedBy(path, s[i])
           As(e, file) == [Dumped(e) EXCEPT !.path = file.name]
           OfRow(file) == {As(e, file) : e \in EntryAt(FilePath(Realm, name, file))}
<1>3. ASSUME NEW i \in 1 .. n
      PROVE  OfRow(s[i]) = IF Place(i) = 0 THEN {} ELSE {Dumped(Named(i))}
  <2>1. PICK p, k, file : p = FilePath(Realm, name, s[i]) /\ k = FindFile(p) /\ file = s[i]
    OBVIOUS
  <2>2. Place(i) = k
    BY <1>1, <2>1 DEF PlaceOf
  <2>3. IF k = 0 THEN EntryAt(p) = {} ELSE k \in 1 .. Len(from) /\ EntryAt(p) = {from[k]}
    BY <2>1, FindsEntry
  <2>4. CASE k = 0
    BY <2>1, <2>2, <2>3, <2>4
  <2>5. CASE k # 0
    <3>1. Named(i) = [from[k] EXCEPT !.path = file.name]
      BY <2>1, <2>2 DEF NamedBy
    <3>2. Sound(from[k])
      BY <2>3, <2>5, SequenceIs DEF AreSound, IsSequence
    <3>3. PICK e, x : e = from[k] /\ x = file.name
      OBVIOUS
    <3>4. "path" \in DOMAIN e /\ "langs" \in DOMAIN e /\ "places" \in DOMAIN e
      BY <3>2, <3>3 DEF Sound, IsEntry, Fields
    <3>5. Dumped([e EXCEPT !.path = x]) = [Dumped(e) EXCEPT !.path = x]
      BY <3>4, DumpedRenamed
    <3>6. Dumped(Named(i)) = As(from[k], file)
      BY <3>1, <3>3, <3>5
    <3> HIDE DEF As, Named, Place
    <3> QED BY <2>1, <2>2, <2>3, <2>5, <3>6
  <2> QED BY <2>4, <2>5
<1> DEFINE All == UNION {OfRow(s[i]) : i \in 1 .. n}
<1>4. {Dumped(e) : e \in ToSet(ProcessRls(path))} = All
  <2>1. ToSet(ProcessRls(path)) = {Named(i) : i \in {i \in 1 .. n : Place(i) # 0}}
    BY <1>1, RlsFinds DEF FoundBy
  <2> DEFINE N(i) == Dumped(Named(i))
             P(i) == OfRow(s[i])
  <2> HIDE DEF Named, Place
  <2>2. {Dumped(e) : e \in ToSet(ProcessRls(path))} = {N(i) : i \in {i \in 1 .. n : Place(i) # 0}}
    BY <2>1
  <2>3. \A i \in 1 .. n : P(i) = IF Place(i) = 0 THEN {} ELSE {N(i)}
    BY <1>3
  <2>4. All = UNION {P(i) : i \in 1 .. n}
    OBVIOUS
  <2> HIDE DEF N, P, All
  <2>5. UNION {P(i) : i \in 1 .. n} = {N(i) : i \in {i \in 1 .. n : Place(i) # 0}}
    BY <2>3
  <2> QED BY <2>2, <2>4, <2>5
<1>5. FilesAt(path) = All
  <2>1. Said("rls", path) = IF raw.is = "rls" /\ RlsOk(raw) THEN {raw} ELSE {}
    BY <1>1, ReadsWhatIsSaid
  <2>2. FilesAt(path) = UNION {UNION {{As(e, file) : e \in EntryAt(FilePath(Realm, r.name, file))} :
                                  file \in Meant(r)} : r \in Said("rls", path)}
    BY DEF FilesAt
  <2>3. CASE raw.is = "rls" /\ RlsOk(raw)
    <3>1. name = raw.name
      BY <1>1, <2>3 DEF ReadRls
    <3>2. IsSequence(raw.files) /\ IsSequence(raw.folders)
      BY <1>1, <2>3, ContentIs
    <3>3. s = [i \in DOMAIN raw.files |-> [name |-> FileName(raw, i - 1), version |-> raw.files[i].version]]
      BY <1>1, <2>3 DEF FilesOf, ReadRls
    <3>4. Meant(raw) = {s[i] : i \in 1 .. n}
      BY <1>2, <2>3, <3>2, <3>3, MeantIs
    <3>5. FilesAt(path) = UNION {{As(e, file) : e \in EntryAt(FilePath(Realm, raw.name, file))} : file \in Meant(raw)}
      <4> HIDE DEF As
      <4> QED BY <2>1, <2>2, <2>3
    <3>6. FilesAt(path) = UNION {OfRow(file) : file \in Meant(raw)}
      BY <3>1, <3>5
    <3> HIDE DEF OfRow
    <3> QED BY <3>4, <3>6
  <2>4. CASE ~(raw.is = "rls" /\ RlsOk(raw))
    <3>1. s = <<>>
      BY <1>1, <2>4 DEF FilesOf, ReadRls, NoRelease
    <3>2. 1 .. n = {}
      BY <1>1, <3>1, EmptyIs
    <3> HIDE DEF OfRow, As
    <3>3. FilesAt(path) = {}
      BY <2>1, <2>2, <2>4
    <3> QED BY <3>2, <3>3
  <2> QED BY <2>3, <2>4
<1> QED BY <1>4, <1>5

\* What process_sln gives, as it is written, are the files of the solution.
LEMMA SlnGives ==
    ASSUME Looked, AreSound(from), NEW path, Before(path, Solutions) = Realm,
           \A name, version : Before(RlsPath(Realm, name, version), Projects) = Realm
    PROVE  {Dumped(e) : e \in ToSet(ProcessSln(path))} = FilesOfSolution(path)
<1>1. PICK raw, s, n : raw = ReadContent(path) /\ s = ProjectsOf(path) /\ n = Len(s)
  OBVIOUS
<1>2. n \in Nat /\ DOMAIN s = 1 .. n
  BY <1>1, ContentsRead, SequenceIs DEF IsSequence, ProjectsOf
<1> DEFINE Files(p) == FilesAt(RlsPath(Realm, p.name, p.version))
           With1(g, p) == [g EXCEPT !.langs = p.langs]
           P(i) == {With1(g, s[i]) : g \in Files(s[i])}
<1>3. ASSUME NEW i \in 1 .. n
      PROVE  {Dumped(InProject(s[i], e)) : e \in ToSet(FilesIn(path, s[i]))} = P(i)
  <2>1. PICK p, F, G : p = s[i] /\ F = ToSet(FilesIn(path, p)) /\ G = Files(p)
    OBVIOUS
  <2>2. {Dumped(e) : e \in F} = G
    <3>1. FilesIn(path, p) = ProcessRls(RlsPath(Realm, p.name, p.version))
      BY DEF FilesIn
    <3> QED BY <2>1, <3>1, RlsGives
  <2>3. ASSUME NEW e \in F PROVE Dumped(InProject(p, e)) = With1(Dumped(e), p)
    <3>1. Sound(e)
      BY <2>1, RlsSound DEF FilesIn, AreSound
    <3>2. "path" \in DOMAIN e /\ "langs" \in DOMAIN e /\ "places" \in DOMAIN e
      BY <3>1 DEF Sound, IsEntry, Fields
    <3>3. PICK x : x = p.langs
      OBVIOUS
    <3>4. Dumped([e EXCEPT !.langs = x]) = [Dumped(e) EXCEPT !.langs = x]
      BY <3>2, DumpedRenamed
    <3> QED BY <3>3, <3>4 DEF InProject
  <2> HIDE DEF With1, Files
  <2>4. {Dumped(InProject(p, e)) : e \in F} = {With1(g, p) : g \in G}
    BY <2>2, <2>3
  <2> QED BY <2>1, <2>4
<1>4. {Dumped(e) : e \in ToSet(ProcessSln(path))} = UNION {P(i) : i \in 1 .. n}
  <2> DEFINE O(i) == {InProject(s[i], e) : e \in ToSet(FilesIn(path, s[i]))}
             D(i) == {Dumped(InProject(s[i], e)) : e \in ToSet(FilesIn(path, s[i]))}
  <2>1. ToSet(ProcessSln(path)) = UNION {O(i) : i \in 1 .. n}
    <3> HIDE DEF P
    <3>1. OfProjects(path) = UNION {O(i) : i \in 1 .. n}
      BY ONLY <1>1 DEF OfProjects
    <3> HIDE DEF O
    <3> QED BY ONLY <3>1, SlnFinds
  <2>2. \A i \in 1 .. n : D(i) = {Dumped(e) : e \in O(i)}
    OBVIOUS
  <2>3. \A i \in 1 .. n : D(i) = P(i)
    BY <1>3
  <2> HIDE DEF O, D, P
  <2> QED BY <2>1, <2>2, <2>3
<1>5. FilesOfSolution(path) = UNION {P(i) : i \in 1 .. n}
  <2> DEFINE In(r, p) == {InSolution(r, g, p.name) : g \in Files(p)}
  <2>1. Said("sln", path) = IF raw.is = "sln" /\ SlnOk(raw) THEN {raw} ELSE {}
    BY <1>1, ReadsWhatIsSaid
  <2>2. FilesOfSolution(path) = UNION {UNION {In(r, p) : p \in ToSet(r.projects)} : r \in Said("sln", path)}
    BY DEF FilesOfSolution
  <2>3. CASE raw.is = "sln" /\ SlnOk(raw)
    <3>1. IsSequence(raw.projects)
      BY <1>1, <2>3, ContentIs
    <3>2. PICK rows : rows = raw.projects /\ IsSequence(rows)
      BY <3>1
    <3>3. s = [i \in DOMAIN rows |-> [name |-> rows[i].name, version |-> rows[i].version,
                                       langs |-> LangsOf(raw, rows[i].name)]]
      BY <1>1, <2>3, <3>2 DEF ProjectsOf, ReadSln
    <3>4. DOMAIN rows = 1 .. n
      BY <1>2, <3>3
    <3>5. ASSUME NEW i \in 1 .. n PROVE P(i) = In(raw, rows[i])
      <4>1. s[i].name = rows[i].name /\ s[i].version = rows[i].version /\ s[i].langs = LangsOf(raw, rows[i].name)
        BY <3>3, <3>4
      <4>2. \A g : InSolution(raw, g, rows[i].name) = With1(g, s[i])
        BY <4>1 DEF InSolution, LangsOf, IsFor
      <4>3. Files(s[i]) = Files(rows[i])
        BY <4>1
      <4> HIDE DEF Files, With1
      <4> QED BY <4>2, <4>3
    <3> HIDE DEF In, P
    <3>6. FilesOfSolution(path) = UNION {In(raw, p) : p \in ToSet(rows)}
      BY <2>1, <2>2, <2>3, <3>2
    <3>7. ToSet(rows) = {rows[i] : i \in 1 .. n}
      BY <3>4 DEF ToSet
    <3> QED BY <3>5, <3>6, <3>7
  <2>4. CASE ~(raw.is = "sln" /\ SlnOk(raw))
    <3>1. s = <<>>
      BY <1>1, <2>4 DEF ProjectsOf, ReadSln, NoSolution
    <3>2. 1 .. n = {}
      BY <1>1, <3>1, EmptyIs
    <3> HIDE DEF P, In
    <3>3. FilesOfSolution(path) = {}
      BY <2>1, <2>2, <2>4
    <3> QED BY <3>2, <3>3
  <2> QED BY <2>3, <2>4
<1> QED BY <1>4, <1>5

\* The directories of a path before the first of its kind.
FirstAt(q, d) == SelectInSeq(q, LAMBDA w : w = d)

LEMMA FirstPlace ==
    ASSUME NEW q, IsSequence(q), NEW d, NEW m \in 1 .. Len(q), q[m] = d
    PROVE  /\ FirstAt(q, d) \in 1 .. m /\ q[FirstAt(q, d)] = d
           /\ \A i \in 1 .. FirstAt(q, d) - 1 : q[i] # d
<1>1. Len(q) \in Nat
  BY SequenceIs DEF IsSequence
<1> DEFINE I == {i \in 1 .. Len(q) : q[i] = d}
<1>2. m \in I /\ I \subseteq Nat
  BY <1>1
<1>3. FirstAt(q, d) = Min(I)
  BY <1>2 DEF FirstAt, SelectInSeq
<1>4. Min(I) \in I /\ \A i \in I : Min(I) <= i
  <2> HIDE DEF I
  <2>1. \E k \in I : \A i \in I : k <= i
    BY <1>2, LeastNatural
  <2> QED BY <2>1 DEF Min
<1>5. PICK k \in I : k = Min(I) /\ \A i \in I : k <= i
  BY <1>4
<1>6. k \in 1 .. Len(q) /\ q[k] = d /\ k <= m
  BY <1>2, <1>5
<1>7. ASSUME NEW i \in 1 .. k - 1 PROVE q[i] # d
  <2>1. i \in 1 .. Len(q) /\ ~(k <= i)
    BY <1>1, <1>6
  <2> QED BY <1>5, <2>1
<1> HIDE DEF I
<1> QED BY <1>1, <1>3, <1>5, <1>6, <1>7

LEMMA BeforeIs ==
    ASSUME NEW q, IsSequence(q), NEW d, NEW m \in 1 .. Len(q) - 1, q[m] = d
    PROVE  /\ IsSequence(Before(q, d)) /\ Len(Before(q, d)) < m
           /\ \A i \in 1 .. Len(Before(q, d)) : Before(q, d)[i] = q[i] /\ q[i] # d
           /\ q[Len(Before(q, d)) + 1] = d
<1>1. Len(q) \in Nat /\ m \in 1 .. Len(q)
  BY SequenceIs DEF IsSequence
<1>2. PICK k : k = FirstAt(q, d) /\ k \in 1 .. m /\ q[k] = d /\ \A i \in 1 .. k - 1 : q[i] # d
  BY <1>1, FirstPlace
<1>3. Before(q, d) = SubSeq(q, 1, k - 1)
  BY <1>2 DEF Before, Has, FirstAt
<1>4. q \in Seq(ToSet(q)) /\ k - 1 \in 0 .. Len(q)
  BY <1>1, <1>2 DEF IsSequence
<1>5. IsSequence(SubSeq(q, 1, k - 1))
  BY <1>4, FirstOf
<1>6. Len(SubSeq(q, 1, k - 1)) = k - 1 /\ \A i \in 1 .. k - 1 : SubSeq(q, 1, k - 1)[i] = q[i]
  <2> DEFINE S == ToSet(q)
  <2> HIDE DEF S
  <2> QED BY <1>4 DEF S
<1> QED BY <1>1, <1>2, <1>3, <1>5, <1>6

\* Within a directory that is in none of its kind, it is the first of it.
LEMMA BeforeConcat ==
    ASSUME NEW realm, IsSequence(realm), NEW d, \A i \in 1 .. Len(realm) : realm[i] # d,
           NEW t, IsSequence(t), Len(t) > 1, t[1] = d
    PROVE  Before(realm \o t, d) = realm
<1>1. PICK c, n, k : c = realm \o t /\ n = Len(realm) /\ k = Len(t)
  OBVIOUS
<1>2. /\ IsSequence(c) /\ n \in Nat /\ k \in Nat /\ Len(c) = n + k
      /\ \A i \in 1 .. n : c[i] = realm[i]
      /\ \A i \in 1 .. k : c[n + i] = t[i]
  <2>1. IsSequence(c) /\ Len(realm) \in Nat /\ Len(t) \in Nat /\ Len(c) = Len(realm) + Len(t)
    BY <1>1, ConcatIs
  <2>2. \A i \in 1 .. Len(realm) : c[i] = realm[i]
    BY <1>1, ConcatIs
  <2>3. \A i \in 1 .. Len(t) : c[Len(realm) + i] = t[i]
    BY <1>1, ConcatIs
  <2> QED BY <1>1, <2>1, <2>2, <2>3
<1>3. n + 1 \in 1 .. Len(c) - 1 /\ c[n + 1] = d
  <2>1. 1 \in 1 .. k
    BY <1>1, <1>2
  <2> QED BY <1>1, <1>2, <2>1
<1>4. PICK b, l : /\ b = Before(c, d) /\ l = Len(b) /\ IsSequence(b) /\ l < n + 1 /\ c[l + 1] = d
                  /\ \A i \in 1 .. l : b[i] = c[i]
  <2>1. PICK m : m = n + 1 /\ m \in 1 .. Len(c) - 1 /\ c[m] = d
    BY <1>3
  <2>2. IsSequence(c) /\ m \in 1 .. Len(c) - 1 /\ c[m] = d
    BY <1>2, <2>1
  <2>3. IsSequence(Before(c, d)) /\ Len(Before(c, d)) < m /\ c[Len(Before(c, d)) + 1] = d
    BY ONLY <2>2, BeforeIs
  <2>4. \A i \in 1 .. Len(Before(c, d)) : Before(c, d)[i] = c[i]
    BY ONLY <2>2, BeforeIs
  <2> QED BY <2>1, <2>3, <2>4
<1>5. l \in Nat
  BY <1>4, SequenceIs DEF IsSequence
<1>6. l = n
  <2>1. l < n => l + 1 \in 1 .. n
    BY <1>2, <1>5
  <2> QED BY <1>1, <1>2, <1>4, <1>5, <2>1
<1>7. \A i \in 1 .. n : b[i] = realm[i]
  BY <1>2, <1>4, <1>6
<1>8. b = realm
  BY <1>1, <1>4, <1>6, <1>7, SequencesEqual
<1> QED BY <1>1, <1>4, <1>8

\* The release is looked for where its manifest is.
LEMMA RealmIs ==
    ASSUME IsSequence(Cli.release), IsOf(Cli.release)
    PROVE  /\ Last(Cli.release) = RlsName => Before(Cli.release, Projects) = Realm
           /\ Last(Cli.release) = SlnName =>
                 /\ Before(Cli.release, Solutions) = Realm
                 /\ \A name, version : Before(RlsPath(Realm, name, version), Projects) = Realm
<1>1. PICK path : path = Cli.release /\ IsSequence(path) /\ IsOf(path)
  OBVIOUS
<1>2. Last(path) = RlsName => Before(path, Projects) = Realm
  <2> SUFFICES ASSUME Last(path) = RlsName PROVE Before(path, Projects) = Realm
    OBVIOUS
  <2>1. Has(path, Projects)
    BY <1>1, ManifestNamesAssumption DEF IsOf
  <2> QED BY <1>1, <2>1 DEF Realm, RealmOf
<1>3. ASSUME Last(path) = SlnName PROVE Before(path, Solutions) = Realm /\ Has(path, Solutions) /\ ~Has(path, Projects)
  <2>1. Has(path, Solutions) /\ ~Has(path, Projects)
    BY <1>1, <1>3, ManifestNamesAssumption DEF IsOf
  <2> QED BY <1>1, <2>1 DEF Realm, RealmOf
<1>4. ASSUME Last(path) = SlnName, NEW name, NEW version
      PROVE  Before(RlsPath(Realm, name, version), Projects) = Realm
  <2>1. PICK m \in 1 .. Len(path) - 1 : path[m] = Solutions
    BY <1>3, <1>4 DEF Has
  <2>2. PICK realm : realm = Realm /\ realm = Before(path, Solutions)
    BY <1>3, <1>4
  <2>3. IsSequence(realm) /\ Len(realm) < m /\ \A i \in 1 .. Len(realm) : realm[i] = path[i]
    BY <1>1, <2>1, <2>2, BeforeIs
  <2>4. ASSUME NEW i \in 1 .. Len(realm) PROVE realm[i] # Projects
    <3>1. Len(realm) \in Nat /\ Len(path) \in Nat
      BY <1>1, <2>3, SequenceIs DEF IsSequence
    <3>2. i \in 1 .. Len(path) - 1
      BY <2>1, <2>3, <3>1
    <3> QED BY <1>3, <1>4, <2>3, <3>2 DEF Has
  <2> DEFINE t == <<Projects, name, Releases, version, RlsName>>
  <2>5. IsSequence(t) /\ Len(t) > 1 /\ t[1] = Projects
    <3>1. t \in Seq({Projects, name, Releases, version, RlsName}) /\ Len(t) = 5 /\ t[1] = Projects
      OBVIOUS
    <3> HIDE DEF t
    <3> QED BY <3>1, SequenceIs
  <2>6. RlsPath(Realm, name, version) = realm \o t
    BY <2>2 DEF RlsPath
  <2> HIDE DEF t
  <2>7. Before(realm \o t, Projects) = realm
    BY <2>3, <2>4, <2>5, BeforeConcat
  <2> QED BY <2>2, <2>6, <2>7
<1> QED BY <1>1, <1>2, <1>3, <1>4

\* The steps of rman-rads, up to where it ends by itself.
LEMMA ReleaseSteps ==
    ASSUME FlowInv, Next, ~ \E command \in Commands : Start(command),
           Cli.is \in {"rads", "split"}, pc' # "none" \/ prog'.ended # "killed"
    PROVE  \/ pc = "none" /\ UNCHANGED <<pc, prog, todo, entries, readable, from, chosen, log, lists, missed>>
           \/ pc # "none" /\ (Open \/ WriteHeader \/ Read \/ SplitEntry \/ RadsEntry \/ EndOfInput \/ End
                                   \/ Release \/ WriteFile)
<1>1. CASE \E n \in Name : Compress(n)
  BY <1>1 DEF Compress, reading
<1>2. CASE ~ \E n \in Name : Compress(n)
  <2>1. pc # "none"
    BY <1>2 DEF Next, Start, Open, WriteHeader, Read, MergeEntry, DiffEntry, SplitEntry, RadsEntry,
          PrintEntry, ChooseEntry, CutEntry, EndOfInput, End, DownloadFile, DownloadThrows, Downloads,
          Release, WriteFile, WritesRelease, Kill, Next1
  <2>2. ~Kill
    <3>1. [prog EXCEPT !.ended = "killed"].ended = "killed"
      BY DEF FlowInv, TodoInv
    <3> QED BY <3>1 DEF Kill
  <2>3. ~MergeEntry /\ ~DiffEntry /\ ~PrintEntry /\ ~ChooseEntry /\ ~CutEntry
        /\ ~DownloadThrows /\ ~ \E verdict \in {"ok", "failed"} : DownloadFile(verdict)
    BY DEF MergeEntry, DiffEntry, PrintEntry, ChooseEntry, CutEntry, DownloadThrows, DownloadFile, Downloads, Next1
  <2> QED BY <1>2, <2>1, <2>2, <2>3 DEF Next
<1> QED BY <1>1, <1>2

\* The files that rman-rads should write.
Promised ==
    CASE Last(Cli.release) = RlsName -> FilesAt(Cli.release)
      [] Last(Cli.release) = SlnName -> FilesOfSolution(Cli.release)
      [] OTHER -> {}

\* They do not change, nor does what is found of the input.
LEMMA PromisedStays ==
    ASSUME Cli' = Cli, EntriesOf(1)' = EntriesOf(1)
    PROVE  /\ \A n : LooksUp(n) /\ from' = from => LooksUp(n)'
           /\ lists' = lists => Promised' = Promised
<1>1. Realm' = Realm /\ Cli.release' = Cli.release /\ Cli.bundle' = Cli.bundle
  BY DEF Realm
<1>2. ASSUME NEW n, NEW path PROVE Searched(n, path)' = Searched(n, path)
  BY <1>1 DEF Searched
<1>3. ASSUME NEW n, LooksUp(n), from' = from PROVE LooksUp(n)'
  BY <1>2, <1>3 DEF LooksUp
<1>4. ASSUME NEW path PROVE EntryAt(path)' = EntryAt(path)
  BY <1>1 DEF EntryAt
<1>5. ASSUME lists' = lists PROVE Promised' = Promised
  <2>1. ASSUME NEW is, NEW path PROVE Said(is, path)' = Said(is, path)
    BY <1>1, <1>4, <1>5 DEF Said
  <2>2. ASSUME NEW path PROVE FilesAt(path)' = FilesAt(path)
    BY <1>1, <1>4, <2>1 DEF FilesAt
  <2>3. ASSUME NEW path PROVE FilesOfSolution(path)' = FilesOfSolution(path)
    BY <1>1, <2>1, <2>2 DEF FilesOfSolution
  <2> QED BY <1>1, <2>2, <2>3 DEF Promised
<1> QED BY <1>3, <1>5

\* What rman-rads finds while it reads is what the read entries have; what it then
\* has still to write, with what it wrote, are the files it should write.
Rest(s) == {Dumped(e) : e \in ToSet(s)}
Rads == Cli.is = "rads" /\ Apart /\ ~Cli.append /\ IsOf(Cli.release) /\ (pc # "none" \/ prog.ended = "ok")
ReleaseInv ==
    Rads =>
        /\ pc \in {"entries", "release", "open", "header"} => todo = <<>>
        /\ (pc = "read" /\ todo # <<>>) \/ pc \in {"entries", "release"} => chosen = <<>>
        /\ pc = "read" /\ todo # <<>> => from = <<>>
        /\ pc = "entries" => \E n \in Nat : At(n) /\ LooksUp(n)
        /\ pc = "release" => Looked
        /\ pc \in {"open", "header"} => Rest(chosen) = Promised
        /\ pc = "read" /\ todo = <<>> /\ ~missed => ToSet(log[Out]) \cup Rest(chosen) = Promised
        /\ pc = "none" /\ ~missed => ToSet(log[Out]) = Promised

\* The entries of the input are gone through.
LEMMA ReleaseReads ==
    ASSUME FlowInv, ReleaseInv, Rads, Rads', Next, Read \/ RadsEntry
    PROVE  ReleaseInv'
<1>1. Cli.is = "rads" /\ Apart /\ Len(Cli.ins) = 1 /\ Cli.ins \in Seq(Name) /\ pc # "none" /\ AreSound(from)
  BY CommandsAssumption DEF Rads, FlowInv, IInv, ProgInv, DataInv, Read, RadsEntry, Next1
<1>2. Cli' = Cli /\ EntriesOf(1)' = EntriesOf(1) /\ IsSequence(EntriesOf(1))
  <2>1. ~ \E command \in Commands : Start(command)
    BY <1>1 DEF Start
  <2>2. 1 \in 1 .. Len(Cli.ins)
    BY <1>1
  <2> QED BY <1>1, <2>1, <2>2, InputsStay
<1>3. CASE Read
  <2>1. At(0)' /\ todo' = <<>> /\ pc' = "entries" /\ UNCHANGED <<from, chosen>> /\ pc = "read" /\ todo # <<>>
    <3>1. At(0)' /\ Begun' \in 1 .. Len(Cli.ins) /\ (todo' = <<>> <=> Begun' = Len(Cli.ins))
      BY <1>1, <1>3, AtFirst
    <3> QED BY <1>1, <1>3, <3>1 DEF Read
  <2>2. from' = <<>> /\ chosen' = <<>>
    BY <2>1 DEF ReleaseInv
  <2>3. LooksUp(0)'
    <3> SUFFICES ASSUME NEW path
                 PROVE  Latest(from', InAnyCase(from', path)) = Latest(EntriesOf(1)', Searched(0, path)')
      BY DEF LooksUp
    <3>1. DOMAIN <<>> = {} /\ 1 .. 0 = {}
      OBVIOUS
    <3>2. InAnyCase(from', path) = {} /\ Searched(0, path)' = {}
      BY <2>2, <3>1 DEF InAnyCase, Searched
    <3> QED BY <3>2 DEF Latest
  <2>4. \E n \in Nat : At(n)' /\ LooksUp(n)'
    BY <2>1, <2>3
  <2> QED BY <2>1, <2>2, <2>4 DEF ReleaseInv
<1>4. CASE RadsEntry
  <2>1. /\ Next1("rads") /\ pc = "entries" /\ pc' = "entries" /\ todo' = todo /\ chosen' = chosen
        /\ from' = IF IsIn(Realm, Head(entries)) THEN Append(from, Head(entries)) ELSE from
    BY <1>4 DEF RadsEntry, Next1, Realm
  <2>2. PICK n \in Nat : At(n) /\ LooksUp(n)
    BY <2>1 DEF ReleaseInv
  <2>3. /\ At(n + 1)' /\ n + 1 \in Nat
        /\ n + 1 \in 1 .. Len(EntriesOf(1)) /\ EntriesOf(1)[n + 1] = Head(entries)
    <3>1. /\ At(n + 1)' /\ n + 1 \in 1 .. Len(EntriesOf(Begun)) /\ EntriesOf(Begun)[n + 1] = Head(entries)
          /\ Begun \in 1 .. Len(Cli.ins)
      BY <1>1, <2>1, <2>2, AtNext
    <3>2. Begun = 1
      BY <1>1, <3>1
    <3> QED BY <3>1, <3>2
  <2>4. LooksUp(n + 1)'
    <3>1. PICK e, g : e = Head(entries) /\ g = from' /\ e = EntriesOf(1)[n + 1]
                      /\ g = IF IsIn(Realm, e) THEN Append(from, e) ELSE from
      BY <2>1, <2>3
    <3>2. IsSequence(from)
      BY <1>1 DEF AreSound
    <3>3. \A path : Latest(g, InAnyCase(g, path)) = Latest(EntriesOf(1), Searched(n + 1, path))
      BY <2>2, <2>3, <3>1, <3>2, LookupGrows
    <3>4. ASSUME NEW path PROVE Searched(n + 1, path)' = Searched(n + 1, path)
      BY <1>2 DEF Searched, Realm
    <3> QED BY <1>2, <3>1, <3>3, <3>4 DEF LooksUp
  <2>5. \E k \in Nat : At(k)' /\ LooksUp(k)'
    BY <2>3, <2>4
  <2>6. chosen' = <<>> /\ todo' = <<>>
    BY <2>1 DEF ReleaseInv
  <2> QED BY <2>1, <2>5, <2>6 DEF ReleaseInv
<1> QED BY <1>3, <1>4

\* The release is gone through.
LEMMA ReleaseFinds ==
    ASSUME FlowInv, Looked, Cli.is = "rads", IsOf(Cli.release), Release, pc' = "open"
    PROVE  Rest(chosen') = Promised
<1>1. AreSound(from)
  BY DEF FlowInv, IInv, DataInv
<1>2. chosen' = CASE Last(Cli.release) = RlsName -> ProcessRls(Cli.release)
                  [] Last(Cli.release) = SlnName -> ProcessSln(Cli.release)
                  [] OTHER -> <<>>
  BY DEF Release
<1>3. IsSequence(Cli.release)
  BY CommandsAssumption DEF FlowInv, IInv, ProgInv, IsSequence
<1>4. CASE Last(Cli.release) = RlsName
  <2>1. chosen' = ProcessRls(Cli.release) /\ Promised = FilesAt(Cli.release)
    BY <1>2, <1>4, ManifestNamesAssumption DEF Promised
  <2>2. Before(Cli.release, Projects) = Realm
    BY <1>3, <1>4, RealmIs
  <2> QED BY <1>1, <2>1, <2>2, RlsGives DEF Rest
<1>5. CASE Last(Cli.release) = SlnName
  <2>1. chosen' = ProcessSln(Cli.release) /\ Promised = FilesOfSolution(Cli.release)
    BY <1>2, <1>5, ManifestNamesAssumption DEF Promised
  <2>2. /\ Before(Cli.release, Solutions) = Realm
        /\ \A name, version : Before(RlsPath(Realm, name, version), Projects) = Realm
    BY <1>3, <1>5, RealmIs
  <2> QED BY <1>1, <2>1, <2>2, SlnGives DEF Rest
<1>6. CASE Last(Cli.release) \notin {RlsName, SlnName}
  <2>1. chosen' = <<>> /\ Promised = {}
    BY <1>2, <1>6 DEF Promised
  <2> QED BY <2>1, EmptyIs DEF Rest
<1> QED BY <1>4, <1>5, <1>6

\* And its files are written.
LEMMA ReleaseWrites ==
    ASSUME FlowInv, WriteFile
    PROVE  /\ missed => missed'
           /\ ~missed' => ToSet(log'[Out]) \cup Rest(chosen') = ToSet(log[Out]) \cup Rest(chosen)
<1>1. /\ WritesNow /\ chosen # <<>> /\ chosen' = Tail(chosen) /\ Written(Head(chosen)) /\ IsSequence(chosen)
  BY DEF WriteFile, WritesRelease, WritesNow, FlowInv, IInv, DataInv, AreSound
<1>2. PICK e, l : e = Dumped(Head(chosen)) /\ l = log[Out]
  OBVIOUS
<1>3. (missed => missed') /\ (~missed' => log'[Out] = Append(l, e)) /\ IsSequence(l)
  BY <1>1, <1>2, MakerWrites
<1>4. ToSet(Append(l, e)) = ToSet(l) \cup {e}
  BY <1>3, AppendIs
<1>5. ToSet(chosen) = {Head(chosen)} \cup ToSet(Tail(chosen))
  BY <1>1, HeadTail
<1>6. Rest(chosen) = {e} \cup Rest(chosen')
  BY <1>1, <1>2, <1>5 DEF Rest
<1> QED BY <1>2, <1>3, <1>4, <1>6

LEMMA ReleaseKeepsOn ==
    ASSUME FlowInv, ReleaseInv, [Next]_vars
    PROVE  ReleaseInv'
<1>1. CASE UNCHANGED vars
  <2>1. UNCHANGED <<pc, prog, todo, entries, readable, from, chosen, log, lists, missed>>
    BY <1>1 DEF vars, disks, reading
  <2>2. Cli' = Cli /\ Out' = Out /\ Begun' = Begun /\ Apart' = Apart /\ \A i : EntriesOf(i)' = EntriesOf(i)
    BY <2>1 DEF Cli, Out, Begun, Apart, EntriesOf
  <2>3. \A n : At(n)' = At(n)
    BY <2>1, <2>2 DEF At
  <2>4. Promised' = Promised /\ \A n : LooksUp(n) => LooksUp(n)'
    BY <2>1, <2>2, PromisedStays
  <2>5. Looked => Looked'
    <3>1. LooksUp(Len(EntriesOf(1))) => LooksUp(Len(EntriesOf(1)))'
      <4>1. PICK n : n = Len(EntriesOf(1))
        OBVIOUS
      <4> QED BY <2>2, <2>4, <4>1
    <3> QED BY <2>1, <2>2, <3>1 DEF Looked
  <2>6. Rads' = Rads /\ Rest(chosen)' = Rest(chosen)
    BY <2>1, <2>2 DEF Rads, Rest
  <2>7. (\E n \in Nat : At(n) /\ LooksUp(n)) => \E n \in Nat : At(n)' /\ LooksUp(n)'
    BY <2>3, <2>4
  <2> QED BY <2>1, <2>2, <2>4, <2>5, <2>6, <2>7 DEF ReleaseInv
<1>2. CASE \E command \in Commands : Start(command)
  <2>1. PICK command \in Commands : Start(command)
    BY <1>2
  <2>2. /\ Cli' = command /\ from' = <<>> /\ chosen' = <<>> /\ (command.is = "rads" => pc' = "read")
        /\ (command.is = "rads" => todo' # <<>>)
    <3>1. todo' = command.ins /\ (command.is = "rads" => Len(command.ins) = 1)
      BY <2>1, StartStep, CommandsAssumption
    <3> QED BY <2>1, <3>1, StartStep, EmptyIs DEF Writes
  <2> QED BY <2>2 DEF ReleaseInv, Rads
<1>3. CASE Next /\ ~ \E command \in Commands : Start(command)
  <2> SUFFICES ASSUME Rads' PROVE ReleaseInv'
    BY DEF ReleaseInv
  <2>1. Cli' = Cli /\ Out' = Out /\ Cli.is = "rads" /\ Apart /\ ~Cli.append /\ IsOf(Cli.release)
    BY <1>3, ProgStep DEF Rads, Apart
  <2>2. Len(Cli.ins) = 1 /\ Cli.ins \in Seq(Name) /\ EntriesOf(1)' = EntriesOf(1) /\ IsSequence(EntriesOf(1))
    <3>1. Len(Cli.ins) = 1
      BY <2>1, CommandsAssumption DEF FlowInv, IInv, ProgInv
    <3>2. 1 \in 1 .. Len(Cli.ins)
      BY <3>1
    <3> QED BY <1>3, <2>1, <3>1, <3>2, InputsStay
  <2>3. \/ pc = "none" /\ UNCHANGED <<pc, prog, todo, entries, readable, from, chosen, log, lists, missed>>
        \/ pc # "none" /\ (Open \/ WriteHeader \/ Read \/ SplitEntry \/ RadsEntry \/ EndOfInput \/ End
                                \/ Release \/ WriteFile)
    BY <1>3, <2>1, ReleaseSteps DEF Rads
  <2>4. Rads
    BY <2>1, <2>3 DEF Rads
  <2>5. lists' = lists => Promised' = Promised
    BY <2>1, <2>2, PromisedStays
  <2>6. CASE pc = "none"
    <3>1. UNCHANGED <<pc, log, lists, missed>>
      BY <2>3, <2>6
    <3> QED BY <2>1, <2>4, <2>5, <2>6, <3>1 DEF ReleaseInv
  <2>7. CASE pc # "none" /\ Open
    <3>1. pc = "open" /\ pc' = "header" /\ UNCHANGED <<lists, todo, chosen>>
      BY <2>1, <2>7 DEF Open, reading
    <3>2. Rest(chosen') = Promised /\ todo' = <<>>
      BY <2>4, <3>1 DEF ReleaseInv
    <3> QED BY <2>5, <3>1, <3>2 DEF ReleaseInv, Rest
  <2>8. CASE pc # "none" /\ WriteHeader
    <3>1. pc = "header" /\ pc' = "read" /\ UNCHANGED <<lists, todo, chosen, log>>
      BY <2>8 DEF WriteHeader, Fails, reading
    <3>2. log[Out] = <<>>
      BY <3>1 DEF FlowInv, IInv, ProgInv
    <3>3. Rest(chosen') = Promised /\ todo' = <<>> /\ log'[Out] = <<>>
      BY <2>4, <3>1, <3>2 DEF ReleaseInv
    <3>4. ToSet(log'[Out]) \cup Rest(chosen') = Promised
      BY <3>3, EmptyIs
    <3> QED BY <2>1, <2>5, <3>1, <3>3, <3>4 DEF ReleaseInv, Rest
  <2>9. CASE pc # "none" /\ (Read \/ RadsEntry)
    BY <1>3, <2>4, <2>9, ReleaseReads
  <2>10. CASE pc # "none" /\ EndOfInput
    <3>1. /\ pc = "entries" /\ entries = <<>> /\ readable /\ pc' = "release"
          /\ UNCHANGED <<todo, chosen, from>>
      <4>1. ~readable => pc' = "none" /\ prog'.ended = "thrown"
        BY <2>10 DEF EndOfInput, FlowInv, TodoInv
      <4> QED BY <2>1, <2>10, <4>1 DEF EndOfInput, Rads, reading
    <3>2. PICK n \in Nat : At(n) /\ LooksUp(n)
      BY <2>4, <3>1 DEF ReleaseInv
    <3>3. n = Len(EntriesOf(1))
      <4>1. todo = <<>>
        BY <2>4, <3>1 DEF ReleaseInv
      <4>2. Begun = 1
        BY <2>2, <4>1, EmptyIs DEF Begun
      <4>3. n + 0 = Len(EntriesOf(1))
        BY <3>1, <3>2, <4>2, EmptyIs DEF At
      <4> QED BY <4>3
    <3>4. LooksUp(n)'
      BY <2>1, <2>2, <3>1, <3>2, PromisedStays
    <3>5. Looked'
      <4>1. IsSequence(from)
        BY DEF FlowInv, IInv, DataInv, AreSound
      <4> QED BY <2>2, <3>1, <3>3, <3>4, <4>1 DEF Looked
    <3> QED BY <2>4, <3>1, <3>5 DEF ReleaseInv
  <2>11. CASE pc # "none" /\ Release
    <3>1. pc = "release" /\ pc' = "open" /\ UNCHANGED <<todo, lists>>
      <4>1. pc' # "open" => pc' = "none" /\ prog'.ended = "thrown"
        BY <2>11 DEF Release, FlowInv, TodoInv
      <4> QED BY <2>11, <4>1 DEF Release, Rads, reading
    <3>2. Looked /\ todo' = <<>>
      BY <2>4, <3>1 DEF ReleaseInv
    <3>3. Rest(chosen') = Promised
      BY <2>1, <2>11, <3>1, <3>2, ReleaseFinds
    <3> QED BY <2>5, <3>1, <3>2, <3>3 DEF ReleaseInv, Rest
  <2>12. CASE pc # "none" /\ WriteFile
    <3>1. pc = "read" /\ pc' = "read" /\ UNCHANGED <<todo, lists>> /\ chosen # <<>>
      BY <2>12 DEF WriteFile, WritesRelease, reading
    <3>2. todo = <<>>
      BY <2>4, <3>1 DEF ReleaseInv
    <3>3. ~missed' => ToSet(log'[Out]) \cup Rest(chosen') = Promised
      <4>1. ~missed => ToSet(log[Out]) \cup Rest(chosen) = Promised
        BY <2>4, <3>1, <3>2 DEF ReleaseInv
      <4> QED BY <2>12, <4>1, ReleaseWrites
    <3> QED BY <2>1, <2>5, <3>1, <3>2, <3>3 DEF ReleaseInv, Rest
  <2>13. CASE pc # "none" /\ End
    <3>1. pc = "read" /\ todo = <<>> /\ chosen = <<>> /\ pc' = "none" /\ UNCHANGED <<log, lists, missed>>
      BY <2>13 DEF End, disks
    <3>2. ~missed => ToSet(log[Out]) \cup Rest(chosen) = Promised
      BY <2>4, <3>1 DEF ReleaseInv
    <3>3. Rest(chosen) = {}
      BY <3>1, EmptyIs DEF Rest
    <3>4. ~missed' => ToSet(log[Out]') = Promised'
      BY <2>1, <2>5, <3>1, <3>2, <3>3
    <3> QED BY <2>1, <3>1, <3>4 DEF ReleaseInv
  <2>14. ~SplitEntry
    BY <2>1 DEF SplitEntry, Next1
  <2> QED BY <2>3, <2>6, <2>7, <2>8, <2>9, <2>10, <2>11, <2>12, <2>13, <2>14
<1> QED BY <1>1, <1>2, <1>3

\* Without a bundle: the files of a directory of the first entries are written,
\* under the paths they have in it.
SplitTo(n) ==
    ~missed => {Cli.release \o e.path : e \in ToSet(log[Out])} =
                   {EntriesOf(1)[k].path : k \in {k \in 1 .. n : IsIn(Cli.release, EntriesOf(1)[k])}}
Splits == Cli.is = "split" /\ Apart /\ ~Cli.append /\ (pc # "none" \/ prog.ended = "ok")
SplitInv ==
    Splits =>
        /\ pc = "read" /\ todo # <<>> => log[Out] = <<>>
        /\ pc = "read" /\ todo = <<>> => SplitTo(Len(EntriesOf(1)))
        /\ pc = "entries" => todo = <<>> /\ \E n \in Nat : At(n) /\ SplitTo(n)
        /\ pc = "none" => SplitTo(Len(EntriesOf(1)))

\* This does not change but with what is written.
LEMMA SplitStays ==
    ASSUME Cli' = Cli, EntriesOf(1)' = EntriesOf(1), log' = log, missed' = missed
    PROVE  /\ \A n : SplitTo(n)' = SplitTo(n)
           /\ SplitTo(Len(EntriesOf(1)))' = SplitTo(Len(EntriesOf(1)))
<1>1. Out' = Out
  BY DEF Out
<1>2. \A n : SplitTo(n)' = SplitTo(n)
  BY <1>1 DEF SplitTo
<1>3. SplitTo(Len(EntriesOf(1)))' = SplitTo(Len(EntriesOf(1)))
  BY <1>1 DEF SplitTo
<1> QED BY <1>2, <1>3

\* One more entry of the input.
LEMMA SplitGrows ==
    ASSUME FlowInv, SplitEntry, Out \notin ToSet(Cli.ins), NEW n \in Nat, SplitTo(n),
           EntriesOf(1)' = EntriesOf(1), EntriesOf(1)[n + 1] = Head(entries)
    PROVE  SplitTo(n + 1)'
<1>1. PICK e, dir0, I, input : /\ e = Head(entries) /\ dir0 = Cli.release /\ input = EntriesOf(1)
                               /\ I = {k \in 1 .. n : IsIn(Cli.release, EntriesOf(1)[k])}
  OBVIOUS
<1>2. pc = "entries" /\ entries # <<>> /\ Cli.is = "split" /\ prog' = prog /\ AreSound(entries) /\ Cli \in Commands
  BY DEF SplitEntry, Next1, FlowInv, IInv, DataInv, ProgInv
<1>3. Cli' = Cli /\ Out' = Out
  BY <1>2 DEF Cli, Out
<1>4. Sound(e) /\ (Passes(e) <=> IsIn(dir0, e))
  BY <1>1, <1>2, SoundTail DEF Passes
<1>5. {k \in 1 .. n + 1 : IsIn(dir0, input[k])} = IF IsIn(dir0, e) THEN I \cup {n + 1} ELSE I
  <2>1. 1 .. n + 1 = 1 .. n \cup {n + 1}
    OBVIOUS
  <2> QED BY <1>1, <2>1
<1> DEFINE Paths(J) == {input[k].path : k \in J}
<1>6. ~missed => {dir0 \o f.path : f \in ToSet(log[Out])} = Paths(I)
  BY <1>1 DEF SplitTo
<1> SUFFICES ASSUME ~missed'
             PROVE  {dir0 \o f.path : f \in ToSet(log'[Out])} = Paths({k \in 1 .. n + 1 : IsIn(dir0, input[k])})
  BY <1>1, <1>3 DEF SplitTo
<1>7. CASE ~IsIn(dir0, e)
  <2>1. UNCHANGED <<log, missed>>
    BY <1>1, <1>4, <1>7 DEF SplitEntry, disks
  <2> QED BY <1>5, <1>6, <1>7, <2>1
<1>8. CASE IsIn(dir0, e)
  <2>1. PICK l, d : l = log[Out] /\ d = Dumped(Below(dir0, e))
    OBVIOUS
  <2>2. ~missed /\ log'[Out] = Append(l, d) /\ IsSequence(l)
    <3>1. Written(Below(dir0, e))
      BY <1>1, <1>4, <1>8 DEF SplitEntry
    <3>2. WritesNow
      BY <1>2 DEF WritesNow, Writes
    <3> QED BY <2>1, <3>1, <3>2, MakerWrites
  <2>3. ToSet(log'[Out]) = ToSet(l) \cup {d}
    BY <2>2, AppendIs
  <2>4. dir0 \o d.path = e.path
    <3>1. /\ IsSequence(dir0) /\ IsSequence(e.path)
          /\ Below(dir0, e).path = SubSeq(e.path, Len(dir0) + 1, Len(e.path))
          /\ IsPrefix(dir0, e.path) /\ Sound(Below(dir0, e))
      <4>1. Passes(e) /\ IsSequence(e.path)
        BY <1>4, <1>8 DEF Sound, IsEntry, IsSequence
      <4> QED BY <1>1, <1>2, <1>4, <4>1, PassesBelow
    <3>2. d.path = SubSeq(e.path, Len(dir0) + 1, Len(e.path))
      BY <2>1, <3>1 DEF Dumped, Sound, IsEntry, Fields
    <3>3. PICK p, x, m : p = e.path /\ x = SubSeq(p, Len(dir0) + 1, Len(p)) /\ m = Len(dir0)
      OBVIOUS
    <3>4. m \in Nat /\ m \in 0 .. Len(p) /\ \A k \in 1 .. m : dir0[k] = p[k]
      <4>1. IsSequence(p) /\ IsPrefix(dir0, p)
        BY <3>1, <3>3
      <4>2. Len(dir0) <= Len(p) /\ \A k \in 1 .. Len(dir0) : dir0[k] = p[k]
        BY <3>1, <4>1, PrefixIs
      <4> QED BY <3>1, <3>3, <4>1, <4>2, SequenceIs DEF IsSequence
    <3>5. IsSequence(x) /\ Len(x) = Len(p) - m /\ Len(p) \in Nat /\ \A k \in 1 .. Len(p) - m : x[k] = p[m + k]
      BY <3>1, <3>3, <3>4, SuffixIs
    <3>6. PICK c : c = dir0 \o x
      OBVIOUS
    <3>7. IsSequence(c) /\ Len(c) = Len(dir0) + Len(x)
      BY <3>1, <3>5, <3>6, ConcatIs
    <3>8. \A k \in 1 .. Len(dir0) : c[k] = dir0[k]
      BY <3>1, <3>5, <3>6, ConcatIs
    <3>9. \A k \in 1 .. Len(x) : c[Len(dir0) + k] = x[k]
      BY <3>1, <3>5, <3>6, ConcatIs
    <3>10. Len(c) = Len(p) /\ IsSequence(p)
      BY <3>1, <3>3, <3>4, <3>5, <3>7
    <3>11. ASSUME NEW k \in 1 .. Len(c) PROVE c[k] = p[k]
      <4>1. CASE k <= m
        <5>1. k \in 1 .. m
          BY <4>1
        <5> QED BY <3>3, <3>4, <3>8, <5>1
      <4>2. CASE ~(k <= m)
        <5>1. PICK j : j = k - m /\ j \in 1 .. Len(p) - m /\ m + j = k
          <6>1. m \in Nat /\ Len(p) \in Nat /\ k \in 1 .. Len(p)
            BY <3>4, <3>5, <3>10
          <6>2. k - m \in 1 .. Len(p) - m /\ m + (k - m) = k
            BY ONLY <4>2, <6>1
          <6> QED BY <6>2
        <5>2. c[m + j] = x[j]
          BY ONLY <3>3, <3>5, <3>9, <5>1
        <5>3. x[j] = p[m + j]
          BY ONLY <3>5, <5>1
        <5> QED BY <5>1, <5>2, <5>3
      <4> QED BY <4>1, <4>2
    <3>12. c = p
      BY <3>7, <3>10, <3>11, SequencesEqual
    <3> QED BY <3>2, <3>3, <3>6, <3>12
  <2>5. {dir0 \o f.path : f \in ToSet(log'[Out])} = Paths(I) \cup {e.path}
    BY <1>6, <2>1, <2>2, <2>3, <2>4
  <2>6. Paths(I \cup {n + 1}) = Paths(I) \cup {e.path}
    BY <1>1
  <2> QED BY <1>5, <1>8, <2>5, <2>6
<1> QED BY <1>7, <1>8

LEMMA SplitKeepsOn ==
    ASSUME FlowInv, SplitInv, [Next]_vars
    PROVE  SplitInv'
<1>1. CASE UNCHANGED vars
  <2>1. UNCHANGED <<pc, prog, todo, entries, readable, log, missed>>
    BY <1>1 DEF vars, disks, reading
  <2>2. Cli' = Cli /\ Out' = Out /\ Begun' = Begun /\ Apart' = Apart /\ \A i : EntriesOf(i)' = EntriesOf(i)
    BY <2>1 DEF Cli, Out, Begun, Apart, EntriesOf
  <2>3. \A n : At(n)' = At(n) /\ SplitTo(n)' = SplitTo(n)
    BY <2>1, <2>2 DEF At, SplitTo
  <2>4. SplitTo(Len(EntriesOf(1)))' = SplitTo(Len(EntriesOf(1)))
    BY <2>1, <2>2 DEF SplitTo
  <2> QED BY <2>1, <2>2, <2>3, <2>4 DEF SplitInv, Splits
<1>2. CASE \E command \in Commands : Start(command)
  <2>1. PICK command \in Commands : Start(command)
    BY <1>2
  <2>2. Cli' = command /\ (command.is = "split" => pc' = "open")
    BY <2>1, StartStep DEF Writes
  <2> QED BY <2>2 DEF SplitInv, Splits
<1>3. CASE Next /\ ~ \E command \in Commands : Start(command)
  <2> SUFFICES ASSUME Splits' PROVE SplitInv'
    BY DEF SplitInv
  <2>1. Cli' = Cli /\ Out' = Out /\ Cli.is = "split" /\ Apart /\ ~Cli.append
    BY <1>3, ProgStep DEF Splits, Apart
  <2>2. Len(Cli.ins) = 1 /\ Cli.ins \in Seq(Name) /\ EntriesOf(1)' = EntriesOf(1) /\ IsSequence(EntriesOf(1))
    <3>1. Len(Cli.ins) = 1
      BY <2>1, CommandsAssumption DEF FlowInv, IInv, ProgInv
    <3>2. 1 \in 1 .. Len(Cli.ins)
      BY <3>1
    <3> QED BY <1>3, <2>1, <3>1, <3>2, InputsStay
  <2>3. \/ pc = "none" /\ UNCHANGED <<pc, prog, todo, entries, readable, from, chosen, log, lists, missed>>
        \/ pc # "none" /\ (Open \/ WriteHeader \/ Read \/ SplitEntry \/ RadsEntry \/ EndOfInput \/ End
                                \/ Release \/ WriteFile)
    BY <1>3, <2>1, ReleaseSteps DEF Splits
  <2>4. Splits
    BY <2>1, <2>3 DEF Splits
  <2>5. \A n : SplitTo(n) /\ UNCHANGED <<log, missed>> => SplitTo(n)'
    BY <2>1, <2>2, SplitStays
  <2>6. SplitTo(Len(EntriesOf(1))) /\ UNCHANGED <<log, missed>> => SplitTo(Len(EntriesOf(1)))'
    BY <2>1, <2>2, SplitStays
  <2>7. CASE pc = "none"
    BY <2>3, <2>4, <2>6, <2>7 DEF SplitInv
  <2>8. CASE pc # "none" /\ Open
    BY <2>1, <2>8 DEF Open, SplitInv
  <2>9. CASE pc # "none" /\ WriteHeader
    <3>1. pc = "header" /\ pc' = "read" /\ UNCHANGED <<todo, log>>
      BY <2>9 DEF WriteHeader, Fails, reading
    <3>2. log[Out] = <<>> /\ todo = Cli.ins
      BY <2>1, <3>1 DEF FlowInv, TodoInv, IInv, ProgInv, Writes
    <3>3. todo # <<>>
      BY <2>2, <3>2, EmptyIs
    <3> QED BY <2>1, <3>1, <3>2, <3>3 DEF SplitInv
  <2>10. CASE pc # "none" /\ Read
    <3>1. pc = "read" /\ todo # <<>> /\ pc' = "entries" /\ UNCHANGED <<log, missed>>
      BY <2>10 DEF Read, disks
    <3>2. At(0)' /\ todo' = <<>>
      <4>1. At(0)' /\ Begun' \in 1 .. Len(Cli.ins) /\ (todo' = <<>> <=> Begun' = Len(Cli.ins))
        BY <2>1, <2>10, AtFirst
      <4> QED BY <2>2, <4>1
    <3>3. log[Out] = <<>>
      BY <2>4, <3>1 DEF SplitInv
    <3>4. SplitTo(0)
      <4>1. 1 .. 0 = {} /\ ToSet(log[Out]) = {}
        BY <3>3, EmptyIs
      <4> QED BY <4>1 DEF SplitTo
    <3>5. SplitTo(0)'
      BY <2>5, <3>1, <3>4
    <3> QED BY <3>1, <3>2, <3>5 DEF SplitInv
  <2>11. CASE pc # "none" /\ SplitEntry
    <3>1. pc = "entries" /\ pc' = "entries" /\ Next1("split") /\ todo' = todo
      BY <2>11 DEF SplitEntry, Next1
    <3>2. PICK n \in Nat : At(n) /\ SplitTo(n)
      BY <2>4, <3>1 DEF SplitInv
    <3>3. At(n + 1)' /\ n + 1 \in Nat /\ EntriesOf(1)[n + 1] = Head(entries)
      <4>1. At(n + 1)' /\ EntriesOf(Begun)[n + 1] = Head(entries) /\ Begun \in 1 .. Len(Cli.ins)
        BY <1>3, <2>1, <3>1, <3>2, AtNext
      <4>2. Begun = 1
        BY <2>2, <4>1
      <4> QED BY <4>1, <4>2
    <3>4. SplitTo(n + 1)'
      BY <2>1, <2>2, <2>11, <3>2, <3>3, SplitGrows DEF Apart
    <3>5. todo' = <<>>
      BY <2>4, <3>1 DEF SplitInv
    <3>6. \E k \in Nat : At(k)' /\ SplitTo(k)'
      BY <3>3, <3>4
    <3> QED BY <3>1, <3>5, <3>6 DEF SplitInv
  <2>12. CASE pc # "none" /\ EndOfInput
    <3>1. pc = "entries" /\ entries = <<>> /\ readable /\ pc' = "read" /\ UNCHANGED <<todo, log, missed>>
      <4>1. ~readable => pc' = "none" /\ prog'.ended = "thrown"
        BY <2>12 DEF EndOfInput, FlowInv, TodoInv
      <4> QED BY <2>1, <2>12, <4>1 DEF EndOfInput, Splits, reading, disks
    <3>2. todo = <<>> /\ \E n \in Nat : At(n) /\ SplitTo(n)
      BY <2>4, <3>1 DEF SplitInv
    <3>3. PICK n \in Nat : At(n) /\ SplitTo(n)
      BY <3>2
    <3>4. n = Len(EntriesOf(1))
      <4>1. Begun = 1
        BY <2>2, <3>2, EmptyIs DEF Begun
      <4>2. n + 0 = Len(EntriesOf(1))
        BY <3>1, <3>3, <4>1, EmptyIs DEF At
      <4> QED BY <4>2
    <3>5. SplitTo(Len(EntriesOf(1)))'
      BY <2>6, <3>1, <3>3, <3>4
    <3> QED BY <3>1, <3>2, <3>5 DEF SplitInv
  <2>13. CASE pc # "none" /\ End
    <3>1. pc = "read" /\ todo = <<>> /\ pc' = "none" /\ UNCHANGED <<log, missed>>
      BY <2>13 DEF End, disks
    <3> QED BY <2>4, <2>6, <3>1 DEF SplitInv
  <2>14. ~RadsEntry /\ ~Release /\ ~WriteFile
    BY <2>1 DEF RadsEntry, Next1, Release, WriteFile, WritesRelease, FlowInv, IInv, ProgInv
  <2> QED BY <2>3, <2>7, <2>8, <2>9, <2>10, <2>11, <2>12, <2>13, <2>14
<1> QED BY <1>1, <1>2, <1>3

LEMMA Releasing == Spec => [](FlowInv /\ ReleaseInv /\ SplitInv)
<1>1. Init => ReleaseInv /\ SplitInv
  BY DEF Init, ReleaseInv, Rads, SplitInv, Splits
<1>2. FlowInv /\ ReleaseInv /\ [Next]_vars => ReleaseInv'
  BY ReleaseKeepsOn
<1>3. FlowInv /\ SplitInv /\ [Next]_vars => SplitInv'
  BY SplitKeepsOn
<1> QED BY <1>1, <1>2, <1>3, Flow, PTL DEF Spec

-----------------------------------------------------------------------------
(***************************************************************************)
(* The theorems                                                            *)
(***************************************************************************)

\* However often programs were killed inside a write, or a write failed, and others
\* went on behind the half line or over it: what read_file reads of a manifest was
\* written to it, in this order from the first on.
THEOREM NothingIsInvented == Spec => []NothingInvented
<1>1. IInv => NothingInvented
  <2> SUFFICES ASSUME IInv, NEW n \in Name, ~IsRman(disk[n])
               PROVE  IsPrefix(ReadFile(OnDisk(n)).entries, log[n])
    BY DEF NothingInvented
  <2>1. FileInv(OnDisk(n), log[n], sound[n] /\ ~(rest /\ n = Out)) /\ OnDisk(n).form = disk[n].form
    BY OnDiskInv DEF IInv
  <2>2. ~IsRman(OnDisk(n))
    BY <2>1 DEF IsRman, Missing
  <2> QED BY <2>1, <2>2, FileReads
<1> QED BY <1>1, Invariant, PTL

\* Where undump takes every entry that is at hand (no hash type of one is past
\* those that TypeHandlerEnum knows, and its chunks have its size), all that was
\* written to a manifest is read from it again, in its order and without an error.
THEOREM AllIsRead == ASSUME AllUndump PROVE Spec => []WrittenIsRead
<1>1. IInv => WrittenIsRead
  <2> SUFFICES ASSUME IInv, NEW n \in Name, sound[n], ~(rest /\ n = Out)
               PROVE  ReadFile(disk[n]) = [entries |-> log[n], ok |-> TRUE]
    BY DEF WrittenIsRead
  <2>1. FileInv(disk[n], log[n], sound[n])
    BY DEF IInv, DiskInv
  <2> QED BY <2>1, FileReads
<1> QED BY <1>1, Invariant, PTL

\* An update that ends well leaves each file that its manifest lists once, and that
\* the filters pass, in the directory, where the directory had those of the older
\* manifest under its path; without an older manifest, whatever the directory had.
THEOREM UpdatesAreComplete == Spec => []UpdateComplete
<1>1. FlowInv /\ UpdateInv => UpdateComplete
  <2> SUFFICES ASSUME FlowInv, UpdateInv, Ended("dl"), prog.ended = "ok",
                      NEW e \in ToSet(EntriesOf(Len(Cli.ins))), Wanted(e)
               PROVE  Holds(dir, e)
    BY DEF UpdateComplete, Wanted, HadOlder, SamePath
  <2>1. pc = "none" /\ Updates
    BY DEF Ended, Updates
  <2>2. Settled(e) /\ chosen = <<>>
    BY <2>1 DEF UpdateInv, AllSettled
  <2> QED BY <2>2, EmptyIs DEF Settled
<1> QED BY <1>1, Updating, PTL

\* Where no file that the filters pass is stripped, rman-diff writes the files of the
\* second input that the first does not have with the same data under the same path,
\* and no other, in their order.
THEOREM DiffsAreComplete == Spec => []DiffOfChunks
<1>1. FlowInv /\ DiffInv => DiffOfChunks
  <2> SUFFICES ASSUME FlowInv, DiffInv, Ended("diff"), AllStripless, prog.ended = "ok", ~missed
               PROVE  log[Out] = DiffOf
    BY DEF DiffOfChunks, DiffComplete, AllStripless
  <2>1. pc = "none" /\ Diffs
    BY DEF Ended, Diffs, Apart
  <2>2. log[Out] = DiffUpTo(Len(EntriesOf(2)))
    BY <2>1 DEF DiffInv, Diffed
  <2>3. SubSeq(EntriesOf(2), 1, Len(EntriesOf(2))) = EntriesOf(2)
    <3>1. Cli.ins \in Seq(Name) /\ Len(Cli.ins) = 2
      BY <2>1, CommandsAssumption DEF FlowInv, IInv, ProgInv, Diffs
    <3>2. Cli.ins[2] \in Name
      BY <3>1
    <3>3. IsSequence(EntriesOf(2))
      BY <3>2 DEF FlowInv, IInv, DiskInv, FileInv, EntriesOf
    <3> QED BY <3>3, FirstOf
  <2> QED BY <2>2, <2>3 DEF DiffUpTo, DiffOf, Newer2
<1> QED BY <1>1, Diffing, PTL

\* rman-merge gives the files of its inputs that match under the name they get,
\* input by input and each in its order, and where an input's end cannot be read,
\* the first of them; a file that it stripped has its chunks in the cache's lists.
THEOREM MergesAreFaithful == Spec => []MergeFaithful
<1>1. FlowInv /\ MergeInv => MergeFaithful
  <2> SUFFICES ASSUME FlowInv, MergeInv, Ended("merge"), prog.ended # "killed", ~missed
               PROVE  LET expected == [k \in DOMAIN ToMerge |-> Merged(ToMerge[k])]
                      IN /\ IF prog.ended = "ok" THEN log[Out] = expected ELSE IsPrefix(log[Out], expected)
                         /\ \A k \in DOMAIN log[Out] :
                              log[Out][k].stripped /\ ~ToMerge[k].stripped => log[Out][k].data \in lists
    BY DEF MergeFaithful
  <2>1. pc = "none" /\ Merges
    BY DEF Ended, Merges, Apart
  <2>2. IsSequence(AllNamed) /\ Len(AllNamed) \in Nat /\ \E at : Starts(at)
    BY <2>1, InputsAre, SequenceIs DEF Merges, IsSequence
  <2>3. PICK n \in 0 .. Len(AllNamed) : MergedTo(n) /\ (prog.ended = "ok" => n = Len(AllNamed))
    BY <2>1, <2>2 DEF MergeInv
  <2> DEFINE N == Len(AllNamed)
  <2>4. MergeTo(N) = ToMerge /\ MergeOutput(N) = [k \in DOMAIN ToMerge |-> Merged(ToMerge[k])]
    <3>1. MergeTo(N) = ToMerge
      BY <2>2, <2>3, MergePrefix
    <3> QED BY <3>1 DEF MergeOutput
  <2>5. log[Out] = MergeOutput(n) /\ IsPrefix(MergeOutput(n), MergeOutput(N))
    BY <2>2, <2>3, MergePrefix DEF MergedTo
  <2>6. ASSUME NEW k \in DOMAIN log[Out], log[Out][k].stripped, ~ToMerge[k].stripped
        PROVE  log[Out][k].data \in lists
    <3>1. PICK t : t = MergeTo(n)
      OBVIOUS
    <3>2. k \in DOMAIN t /\ log[Out][k] = Merged(t[k])
      BY <2>5, <2>6, <3>1 DEF MergeOutput
    <3>3. t[k] = ToMerge[k]
      BY <2>2, <3>1, <3>2, MergePrefix
    <3>4. t[k] \in ToSet(MergeTo(n))
      BY <3>1, <3>2 DEF ToSet
    <3> QED BY <2>3, <2>6, <3>2, <3>3, <3>4 DEF MergedTo
  <2> QED BY <2>3, <2>4, <2>5, <2>6
<1> QED BY <1>1, Merging, PTL

\* Where rman-dl keeps the url, every chunk of every file it still asks for has its
\* bundle; and a run of rman-bl that ends well has printed each bundle in which a
\* chunk of a file of its inputs is.
THEOREM BundlesAreKnown == Spec => []BundlesKnown
<1>1. FlowInv /\ UrlInv /\ PrintInv => BundlesKnown
  <2> SUFFICES ASSUME FlowInv, UrlInv, PrintInv PROVE BundlesKnown
    OBVIOUS
  <2>1. ASSUME prog.url, NEW i \in DOMAIN chosen PROVE Len(chosen[i].places) = Len(chosen[i].data)
    BY <2>1 DEF UrlInv, Even, ToSet
  <2>2. ASSUME Ended("bl"), prog.ended = "ok", NEW i \in DOMAIN Cli.ins, NEW k \in DOMAIN EntriesOf(i),
               NEW place \in ToSet(EntriesOf(i)[k].places)
        PROVE  place.bundle \in ToSet(printed)
    <3>1. pc = "none" /\ Prints /\ todo = <<>>
      BY <2>2 DEF Ended, Prints, PrintInv
    <3>2. Cli.ins \in Seq(Name) /\ Len(Cli.ins) \in Nat
      BY CommandsAssumption DEF FlowInv, IInv, ProgInv, Prints
    <3>3. i \in 1 .. Len(Cli.ins) /\ i <= Begun
      BY <3>1, <3>2 DEF Begun
    <3>4. PICK n \in Name : n = Cli.ins[i]
      BY <3>2
    <3>5. IsRman(disk[n]) /\ BundlesOf(i) \subseteq ToSet(printed)
      BY <3>1, <3>3, <3>4 DEF PrintInv, Coming
    <3>6. EntriesOf(i)[k] \in ToSet(log[n])
      BY <3>4 DEF EntriesOf, ToSet
    <3> QED BY <3>4, <3>5, <3>6, RmanLog DEF BundlesOf
  <2> QED BY <2>1, <2>2 DEF BundlesKnown
<1> QED BY <1>1, Asking, PTL

\* A manifest that is read is one whose every reference has a meaning, and each file
\* of it has the path, the languages, the hash type and the chunks, each where its
\* bundle has it, that its row means.
THEOREM ParsesAreRight == Spec => ParsedRight
<1> DEFINE Right ==
             Read /\ IsRman(disk[Head(todo)]) /\ Cli.is # "bl" /\ readable' =>
                LET raw == disk[Head(todo)].raw
                IN  Len(entries') = Len(raw.files) /\ \A i \in DOMAIN raw.files : IsMeant(raw, raw.files[i], entries'[i])
<1>1. FlowInv /\ [Next]_vars => [Right]_vars
  <2> SUFFICES ASSUME FlowInv, Read, IsRman(disk[Head(todo)]), Cli.is # "bl", readable'
               PROVE  LET raw == disk[Head(todo)].raw
                      IN  Len(entries') = Len(raw.files) /\ \A i \in DOMAIN raw.files : IsMeant(raw, raw.files[i], entries'[i])
    OBVIOUS
  <2>1. PICK n, m : n = Head(todo) /\ m = disk[n]
    OBVIOUS
  <2>2. n \in Name /\ OnDisk(n) = m
    <3>1. n \in Name
      BY <2>1 DEF Read, FlowInv, IInv, ProgInv
    <3>2. rest => disk[Out].form = "jrman"
      BY DEF FlowInv, IInv, ProgInv, Opened
    <3>3. m.form = "rman"
      BY <2>1 DEF IsRman
    <3> QED BY <2>1, <3>1, <3>2, <3>3 DEF OnDisk
  <2>3. PICK f \in First : m \in ToSet(f.disk)
    BY <2>1, <2>2 DEF FlowInv, IInv, DiskInv, FileInv, IsRman
  <2>4. m.form = "rman" /\ HasTables(m.raw)
    BY <2>1, <2>3, FirstAssumption DEF IsRman
  <2>5. entries' = ReadRman(m).entries /\ ReadRman(m).ok
    BY <2>1, <2>2, <2>3, <2>4, RmanReads DEF Read, InputOf
  <2>6. PICK raw : raw = m.raw
    OBVIOUS
  <2>7. m.whole /\ Parse(raw) # Refused
    BY <2>5, <2>6 DEF ReadRman, Nothing, Refused
  <2>8. /\ Parse(raw).files = [i \in DOMAIN raw.files |-> FileOf(raw, raw.files[i])]
        /\ ParamsOk(raw) /\ BundlesOk(raw) /\ \A i \in DOMAIN raw.files : FileOk(raw, raw.files[i])
    BY <2>7 DEF Parse
  <2>9. entries' = [i \in DOMAIN Parse(raw).files |-> Entry(Parse(raw).files[i])]
    BY <2>5, <2>6, <2>7 DEF ReadRman
  <2>10. DOMAIN entries' = DOMAIN raw.files /\ \A i \in DOMAIN raw.files : entries'[i] = Entry(FileOf(raw, raw.files[i]))
    BY <2>8, <2>9
  <2>11. Len(entries') = Len(raw.files)
    <3>1. raw.files \in Seq(ToSet(raw.files))
      BY <2>4, <2>6 DEF HasTables
    <3>2. DOMAIN raw.files = 1 .. Len(raw.files) /\ Len(raw.files) \in Nat
      BY <3>1
    <3>3. IsSequence(entries')
      BY <2>3, <2>4, <2>5, RmanReads DEF AreSound
    <3>4. DOMAIN entries' = 1 .. Len(entries') /\ Len(entries') \in Nat
      BY <3>3, SequenceIs DEF IsSequence
    <3> QED BY <2>10, <3>2, <3>4
  <2>12. \A i \in DOMAIN raw.files : IsMeant(raw, raw.files[i], entries'[i])
    BY <2>4, <2>6, <2>8, <2>10, RowIsMeant
  <2> QED BY <2>1, <2>6, <2>11, <2>12
<1>2. [][Right]_vars => ParsedRight
  BY DEF ParsedRight
<1> QED BY <1>1, <1>2, Flow, PTL DEF Spec

\* What rman-rads writes, without --append and where no write failed, are the files
\* that the manifest of the release lists, found in the input in any case and under
\* the names of their folders; without a bundle, those of the directory.
THEOREM ReleasesAreRight == Spec => []ReleaseRight
<1>1. FlowInv /\ ReleaseInv /\ SplitInv => ReleaseRight
  <2>1. ASSUME ReleaseInv, Ended("rads"), prog.ended = "ok", ~missed, ~Cli.append, IsOf(Cli.release)
        PROVE  ToSet(log[Out]) = Promised
    BY <2>1 DEF ReleaseInv, Rads, Ended, Apart
  <2>2. ASSUME FlowInv, SplitInv, Ended("split"), prog.ended = "ok", ~missed, ~Cli.append
        PROVE  {Cli.release \o e.path : e \in ToSet(log[Out])} =
                   {e.path : e \in {e \in ToSet(EntriesOf(1)) : IsIn(Cli.release, e)}}
    <3>1. SplitTo(Len(EntriesOf(1)))
      BY <2>2 DEF SplitInv, Splits, Ended, Apart
    <3>2. DOMAIN EntriesOf(1) = 1 .. Len(EntriesOf(1))
      <4>1. Cli.ins \in Seq(Name) /\ Len(Cli.ins) = 1
        BY <2>2, CommandsAssumption DEF Ended, FlowInv, IInv, ProgInv
      <4>2. Cli.ins[1] \in Name
        BY <4>1
      <4> QED BY <2>2, <4>2, SequenceIs DEF FlowInv, IInv, DiskInv, FileInv, EntriesOf, IsSequence
    <3>3. {e.path : e \in {e \in ToSet(EntriesOf(1)) : IsIn(Cli.release, e)}} =
             {EntriesOf(1)[k].path : k \in {k \in 1 .. Len(EntriesOf(1)) : IsIn(Cli.release, EntriesOf(1)[k])}}
      BY <3>2 DEF ToSet
    <3> QED BY <2>2, <3>1, <3>3 DEF SplitTo
  <2> QED BY <2>1, <2>2 DEF ReleaseRight, Promised
<1> QED BY <1>1, Releasing, PTL
=============================================================================
