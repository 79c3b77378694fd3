----------------------------- MODULE BundlesProofs -----------------------------
(***************************************************************************)
(* The programs on bundle files, for all inputs, options, numbers of       *)
(* threads, runs, kills and failed writes: rbun-merge and rbun-ex give     *)
(* nothing but right chunks and all of a sound bundle, and rbun-chk tells  *)
(* a sound bundle from every other.                                        *)
(***************************************************************************)
EXTENDS Bundles, FiniteSetTheorems, TLAPS

\* A non-empty set of naturals has a least element.  It stands for induction:
\* the least counterexample of a claim about naturals is looked at.
LEMMA LeastNatural ==
    ASSUME NEW T, T \subseteq Nat, T # {}
    PROVE  \E m \in T : \A k \in T : m <= k
<1>1. PICK n \in T : TRUE
  OBVIOUS
<1>2. n \in Nat
  BY <1>1
<1> DEFINE W == {k \in T : k <= n}
           I == {1 .. k : k \in W}
           S == 1 .. n
<1>3. I \subseteq FiniteSubsetsOf(S)
  <2> SUFFICES ASSUME NEW k \in W PROVE 1 .. k \in FiniteSubsetsOf(S)
    OBVIOUS
  <2>1. k \in Nat /\ 1 .. k \subseteq S
    BY <1>2
  <2>2. IsFiniteSet(1 .. k)
    BY <2>1, FS_Interval
  <2> QED BY <2>1, <2>2 DEF FiniteSubsetsOf
<1>4. IsWellFoundedOn(StrictSubsetOrdering(S), FiniteSubsetsOf(S))
  BY FS_StrictSubsetOrderingWellFounded
<1>5. I # {}
  BY <1>2
<1> HIDE DEF I, S, W
<1>6. PICK x \in I : \A y \in I : ~(<<y, x>> \in StrictSubsetOrdering(S))
  BY <1>3, <1>4, <1>5, WFMin
<1>7. PICK m \in W : x = 1 .. m
  BY DEF I
<1>8. ASSUME NEW k \in T, k < m PROVE FALSE
  <2>1. k \in W /\ m \in Nat /\ k \in Nat
    BY <1>2, <1>8 DEF W
  <2>2. 1 .. k \in I
    BY <2>1 DEF I
  <2>3. m \in 1 .. m /\ m \notin 1 .. k
    BY <2>1, <1>8
  <2>4. 1 .. k \subseteq 1 .. m /\ 1 .. k # 1 .. m
    BY <2>1, <2>3, <1>8
  <2> QED BY <1>3, <1>6, <1>7, <2>2, <2>4 DEF StrictSubsetOrdering, FiniteSubsetsOf
<1> QED BY <1>7, <1>8 DEF W

-----------------------------------------------------------------------------
(***************************************************************************)
(* Offsets                                                                 *)
(***************************************************************************)

\* e gives the ends of the first n chunks of a table.
Ends(e, chunks, n) ==
    /\ e \in [0 .. n -> Nat]
    /\ e[0] = 0
    /\ \A i \in 1 .. n : e[i] = e[i - 1] + Size[chunks[i]]

\* The loop of RBUN::read has a result for every table.
LEMMA EndsExist ==
    ASSUME NEW chunks \in Seq(Chunk)
    PROVE  \E e : Ends(e, chunks, Len(chunks))
<1> DEFINE Wrong == {n \in 0 .. Len(chunks) : ~ \E e : Ends(e, chunks, n)}
<1>1. SUFFICES ASSUME Wrong # {} PROVE FALSE
  <2>1. Len(chunks) \in 0 .. Len(chunks)
    OBVIOUS
  <2> QED BY <2>1
<1>2. PICK m \in Wrong : \A k \in Wrong : m <= k
  <2>1. Wrong \subseteq Nat
    OBVIOUS
  <2> QED BY <1>1, <2>1, LeastNatural
<1>3. m \in 0 .. Len(chunks) /\ ~ \E e : Ends(e, chunks, m)
  BY <1>2
<1>4. m # 0
  <2>1. Ends([i \in 0 .. 0 |-> 0], chunks, 0)
    BY DEF Ends
  <2> QED BY <2>1, <1>3
<1>5. PICK e : Ends(e, chunks, m - 1)
  <2>1. m - 1 \in 0 .. Len(chunks) /\ m - 1 \notin Wrong
    BY <1>2, <1>3, <1>4
  <2> QED BY <2>1
<1> DEFINE f == [i \in 0 .. m |-> IF i = m THEN e[m - 1] + Size[chunks[m]] ELSE e[i]]
<1>6. Size[chunks[m]] \in Nat
  BY <1>3, <1>4, SizeAssumption
<1>7. f \in [0 .. m -> Nat]
  BY <1>3, <1>4, <1>5, <1>6 DEF Ends
<1>8. f[0] = 0
  BY <1>3, <1>4, <1>5 DEF Ends
<1>9. \A i \in 1 .. m : f[i] = f[i - 1] + Size[chunks[i]]
  BY <1>3, <1>4, <1>5 DEF Ends
<1> QED BY <1>3, <1>7, <1>8, <1>9 DEF Ends

\* The ends are determined by the table: two results agree as far as both go.
LEMMA EndsAgree ==
    ASSUME NEW chunks \in Seq(Chunk), NEW n \in Nat, n <= Len(chunks),
           NEW e, Ends(e, chunks, n),
           NEW f, DOMAIN f = 0 .. n, f[0] = 0,
           \A i \in 1 .. n : f[i] = f[i - 1] + Size[chunks[i]]
    PROVE  \A i \in 0 .. n : f[i] = e[i]
<1> DEFINE Wrong == {i \in 0 .. n : f[i] # e[i]}
<1>1. SUFFICES ASSUME Wrong # {} PROVE FALSE
  OBVIOUS
<1>2. PICK m \in Wrong : \A k \in Wrong : m <= k
  <2>1. Wrong \subseteq Nat
    OBVIOUS
  <2> QED BY <1>1, <2>1, LeastNatural
<1>3. m \in 1 .. n
  BY <1>2 DEF Ends
<1>4. m - 1 \in 0 .. n /\ f[m - 1] = e[m - 1]
  BY <1>2, <1>3
<1> QED BY <1>2, <1>3, <1>4 DEF Ends

\* The recursive definition of Offsets is one of ends.
LEMMA OffsetsAreEnds ==
    ASSUME NEW chunks \in Seq(Chunk)
    PROVE  Ends(Offsets(chunks), chunks, Len(chunks))
<1> DEFINE n == Len(chunks)
           F(g) == [i \in 0 .. n |-> IF i = 0 THEN 0 ELSE g[i - 1] + Size[chunks[i]]]
<1>1. PICK e : Ends(e, chunks, n)
  BY EndsExist
<1>2. e = F(e)
  BY <1>1 DEF Ends
<1>3. Offsets(chunks) = CHOOSE g : g = F(g)
  BY DEF Offsets
<1>4. Offsets(chunks) = F(Offsets(chunks))
  <2> HIDE DEF F
  <2> QED BY <1>2, <1>3
<1> DEFINE f == Offsets(chunks)
<1> HIDE DEF f
<1>5. f = F(f)
  BY <1>4 DEF f
<1>6. DOMAIN f = 0 .. n /\ f[0] = 0
  BY <1>5
<1>7. \A i \in 1 .. n : f[i] = f[i - 1] + Size[chunks[i]]
  BY <1>5
<1>8. \A i \in 0 .. n : f[i] = e[i]
  BY <1>1, <1>6, <1>7, EndsAgree
<1>9. f = e
  BY <1>1, <1>5, <1>6, <1>8 DEF Ends
<1> QED BY <1>1, <1>9 DEF f

\* A chunk starts where the chunks before it end, at or before every later end.
LEMMA OffsetsGrow ==
    ASSUME NEW chunks \in Seq(Chunk),
           NEW i \in 0 .. Len(chunks), NEW j \in i .. Len(chunks)
    PROVE  Offsets(chunks)[i] <= Offsets(chunks)[j]
<1> DEFINE e == Offsets(chunks)
           Wrong == {k \in i .. Len(chunks) : ~(e[i] <= e[k])}
<1>0. Len(chunks) \in Nat
  OBVIOUS
<1>1. Ends(e, chunks, Len(chunks))
  BY OffsetsAreEnds
<1> HIDE DEF e
<1>2. SUFFICES ASSUME Wrong # {} PROVE FALSE
  BY DEF e
<1>3. PICK m \in Wrong : \A k \in Wrong : m <= k
  <2>1. Wrong \subseteq Nat
    BY <1>0
  <2> HIDE DEF Wrong
  <2> QED BY <1>2, <2>1, LeastNatural
<1>4. m \in i .. Len(chunks) /\ ~(e[i] <= e[m])
  BY <1>3
<1>5. m # i
  BY <1>0, <1>1, <1>4 DEF Ends
<1>6. m - 1 \in i .. Len(chunks) /\ m - 1 \notin Wrong
  <2>1. m \in Int /\ m - 1 \in Int /\ ~(m <= m - 1)
    BY <1>4
  <2>2. m - 1 \in i .. Len(chunks)
    BY <1>0, <1>4, <1>5
  <2> HIDE DEF Wrong
  <2> QED BY <1>3, <2>1, <2>2
<1>7. e[i] <= e[m - 1]
  BY <1>6
<1>8. e[m] = e[m - 1] + Size[chunks[m]]
  BY <1>0, <1>1, <1>4, <1>5 DEF Ends
<1>9. Size[chunks[m]] \in Nat
  BY <1>0, <1>4, <1>5, SizeAssumption
<1>10. m \in 0 .. Len(chunks) /\ m - 1 \in 0 .. Len(chunks) /\ i \in 0 .. Len(chunks)
  BY <1>0, <1>4, <1>6
<1>11. e[m] \in Nat /\ e[m - 1] \in Nat /\ e[i] \in Nat
  BY <1>1, <1>10 DEF Ends
<1> QED BY <1>4, <1>7, <1>8, <1>9, <1>11

\* A file that RBUN::read accepts has the table of contents its footer was
\* computed from, right before it.
LEMMA AcceptsLayout ==
    ASSUME NEW file \in Seq(Cell), Accepts(file)
    PROVE  /\ file # <<>> /\ Len(file) \in Nat \ {0}
           /\ file[Len(file)] = FooterCell(Chunks(file))
           /\ Chunks(file) \in Seq(Chunk)
           /\ EntryCount(file) = Len(Chunks(file))
           /\ TocOffset(file) \in Nat
           /\ Len(file) = TocOffset(file) + Len(Chunks(file)) + 1
           /\ \A i \in 1 .. Len(Chunks(file)) :
                 file[TocOffset(file) + i] = [kind |-> "entry", id |-> Chunks(file)[i]]
<1> DEFINE last == file[Len(file)]
<1>1. file # <<>> /\ Len(file) \in Nat \ {0} /\ last \in Cell /\ last.kind = "footer"
  BY DEF Accepts
<1>2. PICK t \in Seq(Chunk) : last = FooterCell(t)
  BY <1>1 DEF Cell, FooterCell, TornCell
<1>3. last.toc = t /\ Len(t) \in Nat /\ DOMAIN t = 1 .. Len(t)
  BY <1>2 DEF FooterCell
<1>4. EntryCount(file) = Len(t)
  BY <1>1, <1>3 DEF EntryCount
<1>5. TocOffset(file) = Len(file) - 1 - Len(t) /\ TocOffset(file) >= 0
  BY <1>1, <1>4 DEF TocOffset, Accepts
<1>6. \A i \in 1 .. Len(t) : file[TocOffset(file) + i] = [kind |-> "entry", id |-> t[i]]
  <2>1. \A i \in 1 .. Len(t) : file[TocOffset(file) + i] = Toc(t)[i]
    BY <1>3, <1>4 DEF Accepts
  <2> QED BY <1>3, <2>1 DEF Toc
<1>7. Chunks(file) = t
  <2>1. ASSUME NEW i \in 1 .. Len(t) PROVE file[TocOffset(file) + i].id = t[i]
    <3>1. file[TocOffset(file) + i] = [kind |-> "entry", id |-> t[i]]
      BY <1>6
    <3> QED BY ONLY <3>1
  <2>2. Chunks(file) = [i \in 1 .. Len(t) |-> file[TocOffset(file) + i].id]
    BY <1>4 DEF Chunks
  <2>3. t = [i \in 1 .. Len(t) |-> t[i]]
    BY <1>3
  <2> QED BY <2>1, <2>2, <2>3
<1> QED BY <1>1, <1>2, <1>4, <1>5, <1>6, <1>7

-----------------------------------------------------------------------------
(***************************************************************************)
(* The inductive invariant                                                 *)
(***************************************************************************)

TableRow == [id : Chunk \cup {Junk}, size : Nat]
Content == Chunk \cup {Junk, Void, Bad}
ThreadState == [pc : {"none", "next", "rows", "write"}, i : Nat, toc : Seq(TableRow), k : Nat,
                offset : Nat, found : Content]

Typed ==
    /\ disk \in [Path -> Seq(Cell)]
    /\ prog \in [command : Commands, ended : {"never", "no", "ok", "killed"}, fails : Nat]
    /\ thread \in [Thread -> ThreadState]
    /\ told \in Seq(Seq({"OK", "FAIL"}))
    /\ fails \in Nat

\* Input j is one of those that thread t takes.
Mine(t, j) == \E n \in 0 .. j : j = t + n * Stride

Input(j) == disk[Cli.ins[j]]
InFile(t) == thread[t].pc \in {"rows", "write"}

\* Each thread is at one of its inputs, and in a table that this input may be read as.
WorkOf(t) ==
    /\ thread[t].pc = "none" <=> t > Stride
    /\ thread[t].pc # "none" => Mine(t, thread[t].i)
    /\ thread[t].pc = "next" => thread[t].offset = 0
    /\ InFile(t) =>
         /\ thread[t].i <= Len(Cli.ins) /\ Cli.is # "ls"
         /\ thread[t].toc \in Tables(File(t))
         /\ thread[t].k \in 1 .. Len(thread[t].toc) + 1
    /\ thread[t].pc = "write" => Cli.is = "ex" /\ thread[t].k <= Len(thread[t].toc)

AtWork == Running => \A t \in Thread : WorkOf(t)

\* Of the inputs of a thread, those that it has left behind have one verdict.
ToldOnce ==
    /\ Running =>
         /\ Len(told) = Len(Cli.ins)
         /\ \A t \in 1 .. Stride : \A j \in 1 .. Len(Cli.ins) : Mine(t, j) =>
              IF j < thread[t].i THEN Len(told[j]) = 1 ELSE told[j] = <<>>
    /\ prog.ended = "ok" => Len(told) = Len(Cli.ins) /\ \A j \in 1 .. Len(Cli.ins) : Len(told[j]) = 1

\* In a sound bundle a thread is where the table says, and what it passed is there.
SoundOf(t) ==
    InFile(t) /\ Sound(File(t)) =>
        LET table == Chunks(File(t))
        IN  /\ thread[t].offset = Offsets(table)[thread[t].k - 1]
            /\ Cli.is = "merge" => \A m \in 1 .. thread[t].k - 1 : table[m] \in DOMAIN output
            /\ Cli.is = "ex" => \A m \in 1 .. thread[t].k - 1 : NameOf(table, m) \in seen

AtSound == Running => \A t \in Thread : SoundOf(t)

\* The first n entries of the table are entries, and their chunks are there, as e says.
SoundUpTo(file, n, e) ==
    /\ e[0] = 0
    /\ \A m \in 1 .. n :
         LET cell == file[TocOffset(file) + m]
         IN  /\ cell.kind = "entry"
             /\ e[m] = e[m - 1] + Size[cell.id]
             /\ SubSeq(file, e[m - 1] + 1, e[m]) = Data(cell.id)

\* A thread of rbun-chk, without flags, passed nothing else.
CheckedOf(t) ==
    InFile(t) => \E e \in [0 .. thread[t].k - 1 -> 0 .. Len(File(t))] :
        e[thread[t].k - 1] = thread[t].offset /\ SoundUpTo(File(t), thread[t].k - 1, e)

AtChecked == Running /\ Cli.is = "chk" /\ Cli.flags = {} => \A t \in Thread : CheckedOf(t)

Entries(file) == \A k \in 1 .. EntryCount(file) : file[TocOffset(file) + k].kind = "entry"

\* A write failed since the program was started.
WriteFailed == fails > prog.fails

\* A verdict is right, and what an OK! of rbun-merge and rbun-ex promises is there.
RightVerdict(j) ==
    /\ Cli.is \notin {"ls", "merge"} /\ Sound(Input(j)) => told[j] = <<"OK">>
    /\ Cli.is = "ls" /\ told[j] = <<"OK">> => Entries(Input(j))
    /\ Cli.is = "chk" /\ Cli.flags = {} /\ told[j] = <<"OK">> => Sound(Input(j))
    /\ Cli.is = "merge" /\ Sound(Input(j)) =>
         \/ told[j] = <<"OK">> /\ Ids(Input(j)) \subseteq DOMAIN output
         \/ told[j] = <<"FAIL">> /\ WriteFailed
    /\ Cli.is = "ex" /\ Sound(Input(j)) =>
         \A k \in DOMAIN Chunks(Input(j)) : NameOf(Chunks(Input(j)), k) \in seen

Verdicts ==
    prog.ended \in {"no", "ok"} => \A j \in DOMAIN told : told[j] # <<>> => RightVerdict(j)

ProgressInv == AtWork /\ ToldOnce /\ AtSound /\ AtChecked /\ Verdicts

\* A cache has under each id that chunk, or what lies behind a left table.
RightIn(contents) ==
    \A id \in DOMAIN contents : contents[id] = id \/ (contents[id] = Shifted /\ gap # "none")

\* The output of rbun-merge, and what is found of it after a kill.
MergeInv ==
    /\ ~blind => RightIn(output) /\ RightIn(kept)
    /\ Running /\ Cli.is = "merge" /\ "no-extract" \in Cli.flags => blind
    /\ Ended("merge") => kept = output /\ ~damaged

\* The chunk in the name of a file.
IdOf(name) == name[Len(name)]

\* The files of rbun-ex, by what is known of their content.
ExtractInv ==
    /\ \A name \in DOMAIN dir \ unsure : dir[name] = IdOf(name)
    /\ prog.ended \in {"no", "ok"} /\ Cli.is = "ex" => seen \subseteq DOMAIN dir
    /\ Running /\ Cli.is = "ex" => \A t \in Thread : thread[t].pc = "write" =>
         /\ Name(t) \in DOMAIN dir /\ Name(t) \in unsure /\ Name(t) \notin seen
         /\ ~NoHash => thread[t].found = Row(t).id
         /\ thread[t].found = Void => NoHash
    /\ Running => prog.fails <= fails
    /\ prog.ended \in {"no", "ok"} /\ Cli.is = "ex" /\ fails = prog.fails /\ Flag("force") /\ ~NoHash =>
         seen \cap unsure = {}

IInv == Typed /\ ProgressInv /\ MergeInv /\ ExtractInv


-----------------------------------------------------------------------------
(***************************************************************************)
(* The inputs of a thread                                                  *)
(***************************************************************************)

LEMMA TimesGrows ==
    ASSUME NEW S \in Nat \ {0}, NEW a \in Nat, NEW b \in Nat, a < b
    PROVE  a * S + S <= b * S
<1> DEFINE d == b - a - 1
<1>1. d \in Nat /\ b = a + 1 + d
  OBVIOUS
<1>2. b * S = a * S + S + d * S
  BY <1>1
<1>3. d * S \in Nat
  BY <1>1
<1> HIDE DEF d
<1> QED BY <1>2, <1>3

\* Two threads have no input in common.
LEMMA MineAlone ==
    ASSUME NEW S \in Nat \ {0}, NEW t \in 1 .. S, NEW u \in 1 .. S,
           NEW n \in Nat, NEW m \in Nat, t + n * S = u + m * S
    PROVE  t = u
<1>1. n * S \in Nat /\ m * S \in Nat
  OBVIOUS
<1>2. CASE n < m
  <2>1. n * S + S <= m * S
    BY <1>2, TimesGrows
  <2> QED BY <1>1, <2>1
<1>3. CASE m < n
  <2>1. m * S + S <= n * S
    BY <1>3, TimesGrows
  <2> QED BY <1>1, <2>1
<1>4. CASE m = n
  BY <1>1, <1>4
<1> QED BY <1>2, <1>3, <1>4

\* Every input is some thread's.
LEMMA MineSome ==
    ASSUME NEW S \in Nat \ {0}, NEW j \in Nat \ {0}
    PROVE  \E t \in 1 .. S : \E n \in 0 .. j : j = t + n * S
<1> DEFINE P(x) == \E t \in 1 .. S : \E n \in 0 .. x : x = t + n * S
           Left == {x \in Nat \ {0} : ~P(x)}
<1>1. SUFFICES ASSUME Left # {} PROVE FALSE
  OBVIOUS
<1>2. PICK x \in Left : \A y \in Left : x <= y
  <2>1. Left \subseteq Nat
    OBVIOUS
  <2> HIDE DEF Left
  <2> QED BY <1>1, <2>1, LeastNatural
<1>3. x \in Nat \ {0} /\ ~P(x)
  BY <1>2
<1>4. CASE x <= S
  <2>1. x \in 1 .. S /\ 0 \in 0 .. x /\ x = x + 0 * S
    BY <1>3, <1>4
  <2> QED BY <1>3, <2>1
<1>5. CASE x > S
  <2>1. x - S \in Nat \ {0} /\ x - S < x
    BY <1>3, <1>5
  <2>2. P(x - S)
    <3>1. x - S \notin Left
      <4> HIDE DEF Left
      <4> SUFFICES ASSUME x - S \in Left PROVE FALSE
        OBVIOUS
      <4>1. x <= x - S
        BY <1>2
      <4> QED BY <1>3, <2>1, <4>1
    <3> HIDE DEF P
    <3> QED BY <2>1, <3>1
  <2>3. PICK t \in 1 .. S : \E n \in 0 .. x - S : x - S = t + n * S
    BY <2>2
  <2>4. PICK n \in 0 .. x - S : x - S = t + n * S
    BY <2>3
  <2>5. n + 1 \in 0 .. x
    BY <1>3, <2>1, <2>4
  <2>6. (n + 1) * S = n * S + S /\ n * S \in Nat
    BY <2>4
  <2>7. x = t + (n + 1) * S
    BY <1>3, <2>4, <2>6
  <2> QED BY <1>3, <2>5, <2>7
<1> QED BY <1>3, <1>4, <1>5

-----------------------------------------------------------------------------
(***************************************************************************)
(* The command                                                             *)
(***************************************************************************)

LEMMA CliFacts ==
    ASSUME Typed
    PROVE  /\ Cli \in Commands /\ Cli.is \in {"merge", "ex", "chk", "ls"} /\ Cli.ins \in Seq(Path)
           /\ Len(Cli.ins) \in Nat /\ DOMAIN Cli.ins = 1 .. Len(Cli.ins)
           /\ Cli.flags \subseteq FlagsOf(Cli.is)
           /\ Stride \in 1 .. MaxThreads /\ Stride \in Nat \ {0} /\ 1 .. Stride \subseteq Thread
           /\ Cli.is # "chk" => Stride = 1
<1>1. Cli \in Commands
  BY DEF Typed, Cli
<1>2. /\ Cli.is \in {"merge", "ex", "chk", "ls"} /\ Cli.ins \in Seq(Path)
      /\ Cli.flags \subseteq FlagsOf(Cli.is) /\ Cli.parallel \in 0 .. MaxThreads
      /\ Cli.is # "chk" => Cli.parallel = 0
  BY <1>1, CommandsAssumption
<1>3. Len(Cli.ins) \in Nat /\ DOMAIN Cli.ins = 1 .. Len(Cli.ins)
  BY <1>2
<1>4. Stride \in 1 .. MaxThreads /\ (Cli.is # "chk" => Stride = 1) /\ MaxThreads \in Nat
  BY <1>2, BoundsAssumption DEF Stride
<1> QED BY <1>1, <1>2, <1>3, <1>4 DEF Thread

\* The input that a thread goes on with is its next.
LEMMA MineNext ==
    ASSUME Typed, NEW t \in 1 .. Stride, NEW i \in Nat, Mine(t, i)
    PROVE  /\ i \in Nat \ {0} /\ i + Stride \in Nat /\ Mine(t, i + Stride)
           /\ \A j \in Nat : Mine(t, j) => (j < i + Stride <=> j <= i)
           /\ \A u \in 1 .. Stride : Mine(u, i) => u = t
<1> DEFINE S == Stride
<1>1. S \in Nat \ {0}
  BY CliFacts
<1>2. PICK n \in 0 .. i : i = t + n * S
  BY DEF Mine
<1> HIDE DEF S
<1>3. n \in Nat /\ t \in 1 .. S /\ n * S \in Nat
  BY <1>1, <1>2 DEF S
<1>4. i \in Nat \ {0} /\ i + S \in Nat
  BY <1>1, <1>2, <1>3
<1>5. \E m \in 0 .. i + S : i + S = t + m * S
  <2>1. n + 1 \in 0 .. i + S
    BY <1>1, <1>2, <1>3
  <2>2. (n + 1) * S = n * S + S
    BY <1>1, <1>3
  <2>3. i + S = t + (n + 1) * S
    BY <1>1, <1>2, <1>3, <2>2
  <2> QED BY <2>1, <2>3
<1>6. ASSUME NEW j \in Nat, NEW m \in 0 .. j, j = t + m * S
      PROVE  j < i + S <=> j <= i
  <2>1. m * S \in Nat
    BY <1>1
  <2>2. CASE m <= n
    <3>1. m * S <= n * S
      <4>1. CASE m < n
        BY <1>1, <1>3, <2>1, <4>1, TimesGrows
      <4>2. CASE m = n
        BY <1>3, <4>2
      <4> QED BY <1>3, <2>2, <4>1, <4>2
    <3> QED BY <1>1, <1>2, <1>3, <1>6, <2>1, <3>1
  <2>3. CASE n < m
    <3>1. n * S + S <= m * S
      BY <1>1, <1>3, <2>3, TimesGrows
    <3> QED BY <1>1, <1>2, <1>3, <1>6, <2>1, <3>1
  <2> QED BY <1>3, <2>2, <2>3
<1>7. ASSUME NEW u \in 1 .. S, NEW m \in 0 .. i, i = u + m * S
      PROVE  u = t
  <2>1. m \in Nat /\ t + n * S = u + m * S
    BY <1>2, <1>7
  <2> QED BY <1>1, <1>3, <2>1, MineAlone
<1> QED BY <1>4, <1>5, <1>6, <1>7 DEF Mine, S


-----------------------------------------------------------------------------
(***************************************************************************)
(* What a file may be read as                                              *)
(***************************************************************************)

LEMMA ReadableFacts ==
    ASSUME NEW file \in Seq(Cell), Readable(file)
    PROVE  /\ file # <<>> /\ Len(file) \in Nat \ {0} /\ file[Len(file)].kind = "footer"
           /\ EntryCount(file) \in Nat /\ TocOffset(file) \in Nat
           /\ Len(file) = TocOffset(file) + EntryCount(file) + 1
           /\ \A i \in 1 .. EntryCount(file) :
                TocOffset(file) + i \in 1 .. Len(file) /\ file[TocOffset(file) + i] \in Cell
<1>1. file # <<>> /\ Len(file) \in Nat \ {0}
  BY DEF Readable
<1>2. file[Len(file)] \in Cell /\ file[Len(file)].kind = "footer"
  BY <1>1 DEF Readable, Last
<1>3. file[Len(file)].toc \in Seq(Chunk)
  <2>1. file[Len(file)] \in [kind : {"footer"}, toc : Seq(Chunk)]
    BY <1>2 DEF Cell, TornCell
  <2> QED BY <2>1
<1>4. EntryCount(file) \in Nat
  BY <1>1, <1>3 DEF EntryCount
<1>5. TocOffset(file) = Len(file) - 1 - EntryCount(file) /\ TocOffset(file) >= 0
  BY <1>1 DEF TocOffset, Readable
<1> DEFINE n == EntryCount(file)
           o == TocOffset(file)
           L == Len(file)
<1> HIDE DEF n, o, L
<1>6. n \in Nat /\ o \in Nat /\ L \in Nat \ {0} /\ L = o + n + 1
  BY <1>1, <1>4, <1>5 DEF n, o, L
<1>7. \A i \in 1 .. n : o + i \in 1 .. L
  BY <1>6
<1>8. \A i \in 1 .. L : file[i] \in Cell
  BY DEF L
<1> QED BY <1>1, <1>2, <1>6, <1>7, <1>8 DEF n, o, L

LEMMA RowType ==
    ASSUME NEW cell \in Cell
    PROVE  /\ RowsAt(cell) \subseteq TableRow
           /\ cell.kind = "entry" => cell.id \in Chunk
           /\ cell.kind # "entry" => \A row \in RowsAt(cell) : row.id = Junk
<1>1. CASE cell.kind = "entry"
  <2>1. cell \in [kind : {"entry"}, id : Chunk]
    BY <1>1 DEF Cell, TornCell
  <2>2. Size[cell.id] \in Nat
    BY <2>1, SizeAssumption
  <2> QED BY <1>1, <2>1, <2>2 DEF RowsAt, TableRow
<1>2. CASE cell.kind # "entry"
  BY <1>2, BoundsAssumption DEF RowsAt, TableRow
<1> QED BY <1>1, <1>2

LEMMA TableFacts ==
    ASSUME NEW file \in Seq(Cell), NEW toc \in Tables(file)
    PROVE  /\ Readable(file) /\ toc \in Seq(TableRow) /\ Len(toc) = EntryCount(file)
           /\ Len(toc) \in Nat
           /\ \A i \in 1 .. Len(toc) : toc[i] \in RowsAt(file[TocOffset(file) + i]) /\ toc[i] \in TableRow
<1> DEFINE n == EntryCount(file)
           rows == UNION {RowsAt(file[TocOffset(file) + i]) : i \in 1 .. n}
<1>1. Readable(file)
  BY DEF Tables
<1>2. n \in Nat /\ \A i \in 1 .. n : file[TocOffset(file) + i] \in Cell
  BY <1>1, ReadableFacts
<1>3. toc \in [1 .. n -> rows] /\ \A i \in 1 .. n : toc[i] \in RowsAt(file[TocOffset(file) + i])
  BY <1>1 DEF Tables
<1>4. \A i \in 1 .. n : toc[i] \in TableRow
  BY <1>2, <1>3, RowType
<1> HIDE DEF n, rows
<1>5. toc \in [1 .. n -> TableRow]
  BY <1>3, <1>4
<1> DEFINE R == TableRow
<1> HIDE DEF R
<1>6. toc \in Seq(R) /\ Len(toc) = n
  BY <1>2, <1>5 DEF R
<1> QED BY <1>1, <1>2, <1>3, <1>4, <1>6 DEF n, R

\* What the checks let through.
LEMMA FoundType ==
    ASSUME NEW file, NEW offset, NEW row \in TableRow
    PROVE  /\ Plain(file, offset, row) \subseteq Chunk \cup {Void, Bad}
           /\ Found(file, offset, row) \subseteq Content
<1>1. Plain(file, offset, row) \subseteq Chunk \cup {Void, Bad}
  BY DEF Plain
<1>2. row.id \in Chunk \cup {Junk}
  BY DEF TableRow
<1> QED BY <1>1, <1>2 DEF Found, Content

\* An entry that was overwritten never gives a chunk that is right.
LEMMA FoundHashed ==
    ASSUME NEW file, NEW offset, NEW row \in TableRow, ~NoExtract, ~NoHash,
           NEW c \in Found(file, offset, row), c # Bad
    PROVE  /\ c = row.id /\ c \in Chunk /\ c # Void
           /\ Whole(file, offset, row) /\ SubSeq(file, offset + 1, offset + row.size) = Data(c)
<1>1. Whole(file, offset, row)
  BY DEF Found
<1>2. PICK d \in Plain(file, offset, row) : c = IF NoHash \/ d = row.id THEN d ELSE Bad
  BY <1>1 DEF Found
<1>3. c = d /\ d = row.id
  BY <1>2
<1>4. row.id # Junk
  BY <1>2, <1>3, JunkAssumption DEF Plain
<1>5. row.id \in Chunk
  BY <1>4 DEF TableRow
<1>6. SubSeq(file, offset + 1, offset + row.size) = Data(c)
  BY <1>2, <1>3, <1>4, <1>5, JunkAssumption DEF Plain
<1> QED BY <1>1, <1>3, <1>5, <1>6, JunkAssumption

-----------------------------------------------------------------------------
(***************************************************************************)
(* Sound bundles                                                           *)
(***************************************************************************)

\* A chunk is not told from another by less than its data.
LEMMA DataAlone ==
    ASSUME NEW c \in Chunk, NEW d \in Chunk, Data(c) = Data(d)
    PROVE  c = d
<1>1. 1 \in 1 .. Size[c] /\ 1 \in 1 .. Size[d]
  BY SizeAssumption
<1>2. Data(c)[1].id = c /\ Data(d)[1].id = d
  BY <1>1 DEF Data
<1> QED BY <1>2

LEMMA SoundLayout ==
    ASSUME NEW file \in Seq(Cell), Sound(file)
    PROVE  /\ Readable(file) /\ EntryCount(file) \in Nat /\ TocOffset(file) \in Nat
           /\ Chunks(file) \in Seq(Chunk) /\ Len(Chunks(file)) = EntryCount(file)
           /\ DOMAIN Chunks(file) = 1 .. EntryCount(file)
           /\ Ends(Offsets(Chunks(file)), Chunks(file), EntryCount(file))
           /\ \A i \in 0 .. EntryCount(file) : Offsets(Chunks(file))[i] \in 0 .. TocOffset(file)
           /\ \A i \in 1 .. EntryCount(file) :
                RowsAt(file[TocOffset(file) + i]) = {[id |-> Chunks(file)[i], size |-> Size[Chunks(file)[i]]]}
<1> DEFINE n == EntryCount(file)
           o == TocOffset(file)
           table == Chunks(file)
           e == Offsets(table)
<1>1. Readable(file) /\ n \in Nat /\ o \in Nat
  BY ReadableFacts DEF Sound
<1>2. \A i \in 1 .. n : file[o + i] \in Cell /\ file[o + i].kind = "entry"
  BY <1>1, ReadableFacts DEF Sound
<1>3. \A i \in 1 .. n : file[o + i].id \in Chunk
  BY <1>2, RowType
<1>4. table = [i \in 1 .. n |-> file[o + i].id]
  BY DEF Chunks
<1>5. \A i \in 1 .. n : RowsAt(file[o + i]) = {[id |-> table[i], size |-> Size[table[i]]]}
  BY <1>2, <1>4 DEF RowsAt
<1>6. e[n] <= o
  BY DEF Sound
<1> HIDE DEF n, o, table
<1>7. table \in Seq(Chunk) /\ Len(table) = n /\ DOMAIN table = 1 .. n
  BY <1>1, <1>3, <1>4
<1>8. Ends(e, table, n)
  BY <1>7, OffsetsAreEnds
<1>9. \A i \in 0 .. n : e[i] <= e[n]
  BY <1>1, <1>7, OffsetsGrow
<1> HIDE DEF e
<1>10. \A i \in 0 .. n : e[i] \in 0 .. o
  <2>1. \A i \in 0 .. n : e[i] \in Nat
    BY <1>8 DEF Ends
  <2>2. n \in 0 .. n
    BY <1>1
  <2>3. e[n] \in Nat
    BY <2>1, <2>2
  <2> QED BY <1>1, <1>6, <1>9, <2>1, <2>3
<1> QED BY <1>1, <1>5, <1>7, <1>8, <1>10 DEF n, o, table, e

\* A sound bundle is opened, as the table that it has.
LEMMA SoundTable ==
    ASSUME NEW file \in Seq(Cell), Sound(file), NEW toc \in Tables(file)
    PROVE  /\ Len(toc) = EntryCount(file)
           /\ \A i \in 1 .. Len(toc) : toc[i].id = Chunks(file)[i] /\ toc[i].size = Size[Chunks(file)[i]]
<1>1. Len(toc) = EntryCount(file) /\ \A i \in 1 .. Len(toc) : toc[i] \in RowsAt(file[TocOffset(file) + i])
  BY TableFacts
<1>2. \A i \in 1 .. EntryCount(file) :
        RowsAt(file[TocOffset(file) + i]) = {[id |-> Chunks(file)[i], size |-> Size[Chunks(file)[i]]]}
  BY SoundLayout
<1>3. \A i \in 1 .. Len(toc) : toc[i] = [id |-> Chunks(file)[i], size |-> Size[Chunks(file)[i]]]
  BY <1>1, <1>2
<1> QED BY <1>1, <1>3

LEMMA SoundOpens ==
    ASSUME NEW file \in Seq(Cell), Sound(file)
    PROVE  Readable(file) /\ ~Oversized(file)
<1> DEFINE n == EntryCount(file)
           o == TocOffset(file)
           table == Chunks(file)
           e == Offsets(table)
<1>1. /\ Readable(file) /\ n \in Nat /\ o \in Nat /\ table \in Seq(Chunk) /\ Len(table) = n
      /\ Ends(e, table, n) /\ \A i \in 0 .. n : e[i] \in 0 .. o
  BY SoundLayout
<1>2. \A i \in 1 .. n : RowsAt(file[o + i]) = {[id |-> table[i], size |-> Size[table[i]]]}
  BY SoundLayout
<1> HIDE DEF n, o, table, e
<1>3. ASSUME NEW i \in 1 .. n PROVE ~(Size[table[i]] > o)
  <2>1. table[i] \in Chunk /\ i - 1 \in 0 .. n /\ i \in 0 .. n
    BY <1>1
  <2>2. Size[table[i]] \in Nat
    BY <2>1, SizeAssumption
  <2>3. e[i] = e[i - 1] + Size[table[i]]
    BY <1>1 DEF Ends
  <2>4. e[i] \in 0 .. o /\ e[i - 1] \in 0 .. o
    BY <1>1, <2>1
  <2> QED BY <1>1, <2>2, <2>3, <2>4
<1>4. \A i \in 1 .. n : \A row \in RowsAt(file[o + i]) : ~(row.size > o)
  BY <1>2, <1>3
<1> QED BY <1>1, <1>4 DEF Oversized, n, o, table

\* The checks let the chunk of an entry through and nothing else, whatever they are.
LEMMA SoundFound ==
    ASSUME NEW file \in Seq(Cell), Sound(file), NEW toc \in Tables(file), NEW k \in 1 .. Len(toc)
    PROVE  Found(file, Offsets(Chunks(file))[k - 1], toc[k]) = {Chunks(file)[k]}
<1> DEFINE n == EntryCount(file)
           o == TocOffset(file)
           table == Chunks(file)
           e == Offsets(table)
           c == table[k]
           row == toc[k]
           p == e[k - 1]
<1>1. /\ Readable(file) /\ n \in Nat /\ o \in Nat /\ table \in Seq(Chunk) /\ Len(table) = n
      /\ Ends(e, table, n) /\ \A i \in 0 .. n : e[i] \in 0 .. o
  BY SoundLayout
<1>2. Len(file) \in Nat /\ Len(file) = o + n + 1
  BY <1>1, ReadableFacts
<1>3. k \in 1 .. n /\ row.id = c /\ row.size = Size[c]
  BY SoundTable
<1>4. SubSeq(file, p + 1, e[k]) = Data(c)
  <2>1. \A i \in DOMAIN table : SubSeq(file, e[i - 1] + 1, e[i]) = Data(table[i])
    BY DEF Sound
  <2>2. k \in DOMAIN table
    BY <1>1, <1>3
  <2> QED BY <2>1, <2>2
<1> HIDE DEF n, o, table, e
<1>5. c \in Chunk /\ Size[c] \in Nat \ {0} /\ c # Junk
  BY <1>1, <1>3, SizeAssumption, JunkAssumption
<1>6. p \in 0 .. o /\ e[k] \in 0 .. o /\ e[k] = p + Size[c]
  BY <1>1, <1>3 DEF Ends
<1> HIDE DEF c, row, p
<1>7. p \in Nat /\ p + Size[c] \in Nat /\ p + Size[c] <= o /\ p < Len(file)
  BY <1>1, <1>2, <1>3, <1>5, <1>6
<1>8. Whole(file, p, row)
  BY <1>1, <1>2, <1>3, <1>7 DEF Whole
<1>9. Plain(file, p, row) = {c}
  <2>1. SubSeq(file, p + 1, p + row.size) = Data(c)
    BY <1>3, <1>4, <1>6
  <2>2. {d \in Chunk : SubSeq(file, p + 1, p + row.size) = Data(d)} = {c}
    BY <1>5, <2>1, DataAlone
  <2> QED BY <1>3, <1>5, <2>2 DEF Plain
<1>10. Framed(file, p, row) = {TRUE}
  <2>1. file[p + 1] = Data(c)[1]
    <3>1. Len(SubSeq(file, p + 1, p + Size[c])) = Size[c] /\ SubSeq(file, p + 1, p + Size[c])[1] = file[p + 1]
      BY <1>5, <1>7
    <3>2. SubSeq(file, p + 1, p + Size[c]) = Data(c)
      BY <1>4, <1>6
    <3> QED BY <3>1, <3>2
  <2>2. Data(c)[1] = [kind |-> "data", id |-> c, at |-> 1]
    BY <1>5 DEF Data
  <2>3. file[p + 1].kind = "data" /\ file[p + 1].id = c
    BY <2>1, <2>2
  <2>4. row.size # 0 /\ ~(p >= Len(file)) /\ row.id # Junk
    BY <1>2, <1>3, <1>5, <1>7
  <2> QED BY <2>1, <2>3, <2>4 DEF Framed
<1>11. Found(file, p, row) = {c}
  <2>1. CASE NoExtract
    BY <1>3, <1>8, <1>10, <2>1 DEF Found
  <2>2. CASE ~NoExtract
    BY <1>3, <1>8, <1>9, <2>2 DEF Found
  <2> QED BY <2>1, <2>2
<1> QED BY <1>11 DEF p, e, table, c, row

-----------------------------------------------------------------------------
(***************************************************************************)
(* Threads                                                                 *)
(***************************************************************************)

\* The threads that go on with an input.
LEMMA NextState ==
    ASSUME NEW i \in Nat
    PROVE  LET s == [Idle EXCEPT !.pc = "next", !.i = i]
           IN  s \in ThreadState /\ s.pc = "next" /\ s.i = i /\ s.offset = 0
<1>1. <<>> \in Seq(TableRow) /\ Void \in Content
  BY DEF Content
<1> QED BY <1>1 DEF Idle, ThreadState

LEMMA IdleState == Idle \in ThreadState /\ Idle.pc = "none"
<1>1. <<>> \in Seq(TableRow) /\ Void \in Content
  BY DEF Content
<1> QED BY <1>1 DEF Idle, ThreadState

LEMMA OpenState ==
    ASSUME NEW r \in ThreadState, NEW toc \in Seq(TableRow)
    PROVE  LET s == [r EXCEPT !.pc = "rows", !.toc = toc, !.k = 1]
           IN  /\ s \in ThreadState /\ s.pc = "rows" /\ s.i = r.i /\ s.toc = toc
               /\ s.k = 1 /\ s.offset = r.offset
BY DEF ThreadState

LEMMA PastState ==
    ASSUME NEW r \in ThreadState, NEW size \in Nat
    PROVE  LET s == [r EXCEPT !.pc = "rows", !.k = @ + 1, !.offset = @ + size]
           IN  /\ s \in ThreadState /\ s.pc = "rows" /\ s.i = r.i /\ s.toc = r.toc
               /\ s.k = r.k + 1 /\ s.offset = r.offset + size
<1> DEFINE s == [r EXCEPT !.pc = "rows", !.k = @ + 1, !.offset = @ + size]
           R == TableRow
           k == r.k + 1
           o == r.offset + size
<1> HIDE DEF R
<1>1. r \in [pc : {"none", "next", "rows", "write"}, i : Nat, toc : Seq(R), k : Nat, offset : Nat, found : Content]
  BY DEF ThreadState, R
<1>2. k \in Nat /\ o \in Nat
  BY <1>1
<1>3. s = [r EXCEPT !.pc = "rows", !.k = k, !.offset = o]
  OBVIOUS
<1> HIDE DEF k, o, s
<1>4. /\ s \in [pc : {"none", "next", "rows", "write"}, i : Nat, toc : Seq(R), k : Nat, offset : Nat, found : Content]
      /\ s.pc = "rows" /\ s.i = r.i /\ s.toc = r.toc /\ s.k = k /\ s.offset = o
  BY <1>1, <1>2, <1>3
<1> QED BY <1>4 DEF ThreadState, R, k, o, s

LEMMA PastFields ==
    ASSUME NEW t, thread[t] \in ThreadState, Row(t).size \in Nat, NEW skipped
    PROVE  /\ Past(t, skipped) \in ThreadState /\ Past(t, skipped).pc = "rows" /\ Past(t, skipped).i = thread[t].i
           /\ Past(t, skipped).toc = thread[t].toc /\ Past(t, skipped).k = thread[t].k + 1
           /\ Past(t, skipped).offset = thread[t].offset + Row(t).size
<1>1. thread[t] \in ThreadState /\ Row(t).size \in Nat
  OBVIOUS
<1> QED BY ONLY <1>1, PastState DEF Past

LEMMA WriteState ==
    ASSUME NEW r \in ThreadState, NEW c \in Content
    PROVE  LET s == [r EXCEPT !.pc = "write", !.found = c]
           IN  /\ s \in ThreadState /\ s.pc = "write" /\ s.i = r.i /\ s.toc = r.toc
               /\ s.k = r.k /\ s.offset = r.offset /\ s.found = c
BY DEF ThreadState

\* Where a thread is that does something.
LEMMA ThreadFacts ==
    ASSUME Typed, AtWork, Running, NEW t \in Thread
    PROVE  /\ thread[t] \in ThreadState /\ thread[t].i \in Nat /\ thread[t].k \in Nat /\ thread[t].offset \in Nat
           /\ thread[t].pc \in {"none", "next", "rows", "write"}
           /\ t \in Nat \ {0}
           /\ thread[t].pc # "none" =>
                t \in 1 .. Stride /\ Mine(t, thread[t].i) /\ thread[t].i \in Nat \ {0}
           /\ AtBundle(t) \/ InFile(t) =>
                /\ thread[t].i \in 1 .. Len(Cli.ins)
                /\ File(t) \in Seq(Cell) /\ File(t) = Input(thread[t].i)
           /\ InFile(t) =>
                /\ Cli.is # "ls"
                /\ thread[t].toc \in Tables(File(t)) /\ thread[t].toc \in Seq(TableRow)
                /\ Len(thread[t].toc) \in Nat /\ Len(thread[t].toc) = EntryCount(File(t))
                /\ thread[t].k \in 1 .. Len(thread[t].toc) + 1
                /\ thread[t].k <= Len(thread[t].toc) =>
                     /\ thread[t].k \in 1 .. Len(thread[t].toc)
                     /\ Row(t) \in TableRow /\ Row(t).size \in Nat /\ Row(t).id \in Chunk \cup {Junk}
<1>1. thread[t] \in ThreadState
  BY DEF Typed
<1>2. /\ thread[t].i \in Nat /\ thread[t].k \in Nat /\ thread[t].offset \in Nat
      /\ thread[t].pc \in {"none", "next", "rows", "write"}
  BY <1>1 DEF ThreadState
<1>3. Stride \in Nat \ {0} /\ Cli.ins \in Seq(Path) /\ Len(Cli.ins) \in Nat
  BY CliFacts
<1>4. t \in Nat \ {0}
  BY DEF Thread
<1>5. ASSUME thread[t].pc # "none"
      PROVE  t \in 1 .. Stride /\ Mine(t, thread[t].i) /\ thread[t].i \in Nat \ {0}
  <2>1. t \in 1 .. Stride /\ Mine(t, thread[t].i)
    BY <1>3, <1>4, <1>5 DEF AtWork, WorkOf
  <2> QED BY <1>2, <2>1, MineNext
<1>6. ASSUME AtBundle(t) \/ InFile(t)
      PROVE  /\ thread[t].i \in 1 .. Len(Cli.ins)
             /\ File(t) \in Seq(Cell) /\ File(t) = Input(thread[t].i)
  <2>1. thread[t].pc # "none"
    BY <1>6 DEF AtBundle, InFile
  <2>2. thread[t].i <= Len(Cli.ins)
    BY <1>6 DEF AtBundle, AtWork, WorkOf
  <2>3. thread[t].i \in 1 .. Len(Cli.ins)
    BY <1>3, <1>5, <2>1, <2>2
  <2>4. Cli.ins[thread[t].i] \in Path
    BY <1>3, <2>3
  <2> QED BY <2>3, <2>4 DEF File, Input, Typed
<1>7. ASSUME InFile(t)
      PROVE  /\ Cli.is # "ls"
             /\ thread[t].toc \in Tables(File(t)) /\ thread[t].toc \in Seq(TableRow)
             /\ Len(thread[t].toc) \in Nat /\ Len(thread[t].toc) = EntryCount(File(t))
             /\ thread[t].k \in 1 .. Len(thread[t].toc) + 1
             /\ thread[t].k <= Len(thread[t].toc) =>
                  /\ thread[t].k \in 1 .. Len(thread[t].toc)
                  /\ Row(t) \in TableRow /\ Row(t).size \in Nat /\ Row(t).id \in Chunk \cup {Junk}
  <2>1. Cli.is # "ls" /\ thread[t].toc \in Tables(File(t)) /\ thread[t].k \in 1 .. Len(thread[t].toc) + 1
    BY <1>7 DEF AtWork, WorkOf
  <2>2. File(t) \in Seq(Cell)
    BY <1>6, <1>7
  <2>3. /\ thread[t].toc \in Seq(TableRow) /\ Len(thread[t].toc) \in Nat
        /\ Len(thread[t].toc) = EntryCount(File(t))
        /\ \A i \in 1 .. Len(thread[t].toc) : thread[t].toc[i] \in TableRow
    BY <2>1, <2>2, TableFacts
  <2>4. ASSUME thread[t].k <= Len(thread[t].toc)
        PROVE  /\ thread[t].k \in 1 .. Len(thread[t].toc)
               /\ Row(t) \in TableRow /\ Row(t).size \in Nat /\ Row(t).id \in Chunk \cup {Junk}
    <3>1. thread[t].k \in 1 .. Len(thread[t].toc)
      BY <1>2, <2>1, <2>3, <2>4
    <3>2. Row(t) \in TableRow
      BY <2>3, <3>1 DEF Row
    <3> QED BY <3>1, <3>2 DEF TableRow
  <2> QED BY <2>1, <2>3, <2>4
<1> QED BY <1>1, <1>2, <1>4, <1>5, <1>6, <1>7


\* A thread is not concerned by what another does.
LEMMA OthersStay ==
    ASSUME NEW u \in Thread, thread'[u] = thread[u], disk' = disk, prog' = prog,
           DOMAIN output \subseteq DOMAIN output', seen \subseteq seen'
    PROVE  /\ WorkOf(u) => WorkOf(u)'
           /\ SoundOf(u) => SoundOf(u)'
           /\ CheckedOf(u) => CheckedOf(u)'
<1>1. Cli' = Cli
  BY DEF Cli
<1>2. Stride' = Stride
  BY <1>1 DEF Stride
<1>3. File(u)' = File(u) /\ InFile(u)' = InFile(u)
  BY <1>1 DEF File, InFile
<1>4. WorkOf(u) => WorkOf(u)'
  BY <1>1, <1>2, <1>3 DEF WorkOf, Mine
<1>5. CheckedOf(u) => CheckedOf(u)'
  BY <1>3 DEF CheckedOf
<1>6. SoundOf(u) => SoundOf(u)'
  BY <1>1, <1>3 DEF SoundOf, NameOf, Flag
<1> QED BY <1>4, <1>5, <1>6


Verdict == {"OK", "FAIL"}

\* A verdict is the only one on its input, and its thread goes on with its next.
LEMMA TellFacts ==
    ASSUME Typed, AtWork, ToldOnce, Running, NEW t \in Thread, AtBundle(t) \/ InFile(t),
           NEW said \in Verdict, Tell(t, said)
    PROVE  /\ told' \in Seq(Seq(Verdict)) /\ Len(told') = Len(told) /\ DOMAIN told = 1 .. Len(Cli.ins)
           /\ DOMAIN told' = DOMAIN told
           /\ told[thread[t].i] = <<>> /\ told'[thread[t].i] = <<said>>
           /\ \A j \in DOMAIN told : j # thread[t].i => told'[j] = told[j]
           /\ thread' \in [Thread -> ThreadState]
           /\ thread'[t].pc = "next" /\ thread'[t].i = thread[t].i + Stride /\ thread'[t].offset = 0
           /\ \A u \in Thread : u # t => thread'[u] = thread[u]
<1> DEFINE i == thread[t].i
           s == [Idle EXCEPT !.pc = "next", !.i = i + Stride]
<1>1. /\ i \in 1 .. Len(Cli.ins) /\ t \in 1 .. Stride /\ Mine(t, i)
  BY ThreadFacts DEF AtBundle, InFile
<1>2. Stride \in Nat \ {0} /\ Len(Cli.ins) \in Nat
  BY CliFacts
<1>3. told \in Seq(Seq(Verdict)) /\ Len(told) = Len(Cli.ins)
  BY DEF Typed, ToldOnce, Verdict
<1>4. told[i] = <<>>
  <2>1. ~(i < thread[t].i)
    BY <1>1
  <2> QED BY <1>1, <2>1 DEF ToldOnce
<1>5. told' = [told EXCEPT ![i] = Append(@, said)] /\ thread' = [thread EXCEPT ![t] = s]
  BY DEF Tell
<1>6. i + Stride \in Nat
  BY <1>1, <1>2
<1>7. s \in ThreadState /\ s.pc = "next" /\ s.i = i + Stride /\ s.offset = 0
  BY <1>6, NextState
<1>8. thread \in [Thread -> ThreadState]
  BY DEF Typed
<1> HIDE DEF s, i
<1>9. /\ thread' \in [Thread -> ThreadState] /\ thread'[t] = s
      /\ \A u \in Thread : u # t => thread'[u] = thread[u]
  BY <1>5, <1>7, <1>8
<1>10. Append(<<>>, said) = <<said>> /\ <<said>> \in Seq(Verdict)
  OBVIOUS
<1> DEFINE V == Seq(Verdict)
           w == Append(<<>>, said)
<1>11. told \in Seq(V) /\ w \in V /\ told' = [told EXCEPT ![i] = w]
  BY <1>3, <1>4, <1>5, <1>10
<1> HIDE DEF V, w
<1>12. DOMAIN told = 1 .. Len(told) /\ Len(told) \in Nat
  BY <1>11
<1>13. /\ told' \in Seq(V) /\ Len(told') = Len(told) /\ DOMAIN told' = DOMAIN told
       /\ told'[i] = w /\ \A j \in DOMAIN told : j # i => told'[j] = told[j]
  BY <1>1, <1>3, <1>11, <1>12
<1> QED BY <1>3, <1>4, <1>7, <1>9, <1>10, <1>12, <1>13 DEF V, w, i

LEMMA TellStep ==
    ASSUME Typed, AtWork, ToldOnce, AtSound, AtChecked, Running, NEW t \in Thread, AtBundle(t) \/ InFile(t),
           NEW said \in Verdict, Tell(t, said), disk' = disk, prog' = prog, fails' \in Nat,
           DOMAIN output \subseteq DOMAIN output', seen \subseteq seen'
    PROVE  Typed' /\ AtWork' /\ ToldOnce' /\ AtSound' /\ AtChecked'
<1> DEFINE i == thread[t].i
<1>1. /\ i \in 1 .. Len(Cli.ins) /\ i \in Nat /\ t \in 1 .. Stride /\ Mine(t, i)
  BY ThreadFacts DEF AtBundle, InFile
<1>2. /\ told' \in Seq(Seq(Verdict)) /\ Len(told') = Len(told) /\ DOMAIN told = 1 .. Len(Cli.ins)
      /\ told[i] = <<>> /\ told'[i] = <<said>>
      /\ \A j \in DOMAIN told : j # i => told'[j] = told[j]
      /\ thread' \in [Thread -> ThreadState]
      /\ thread'[t].pc = "next" /\ thread'[t].i = i + Stride /\ thread'[t].offset = 0
      /\ \A u \in Thread : u # t => thread'[u] = thread[u]
  BY TellFacts
<1>3. Cli' = Cli /\ Running' = Running
  BY DEF Cli, Running
<1>4. Stride' = Stride
  BY <1>3 DEF Stride
<1>5. Stride \in Nat \ {0} /\ 1 .. Stride \subseteq Thread
  BY CliFacts
<1>6. /\ Mine(t, i + Stride)
      /\ \A j \in Nat : Mine(t, j) => (j < i + Stride <=> j <= i)
      /\ \A u \in 1 .. Stride : Mine(u, i) => u = t
  BY <1>1, MineNext
<1> HIDE DEF i
<1>7. Typed'
  BY <1>2, <1>3 DEF Typed, Verdict
<1>8. ASSUME NEW u \in Thread PROVE WorkOf(u)' /\ SoundOf(u)' /\ (Cli.is = "chk" /\ Cli.flags = {} => CheckedOf(u)')
  <2>1. CASE u # t
    <3>1. WorkOf(u) /\ SoundOf(u) /\ (Cli.is = "chk" /\ Cli.flags = {} => CheckedOf(u))
      BY DEF AtWork, AtSound, AtChecked
    <3>2. thread'[u] = thread[u]
      BY <1>2, <2>1
    <3> QED BY <1>3, <3>1, <3>2, OthersStay
  <2>2. CASE u = t
    <3>1. thread'[u].pc = "next" /\ thread'[u].i = i + Stride /\ thread'[u].offset = 0
      BY <1>2, <2>2
    <3>2. ~InFile(u)' /\ thread'[u].pc # "none" /\ thread'[u].pc # "write"
      BY <3>1 DEF InFile
    <3>3. Mine(u, i + Stride) /\ u <= Stride /\ ~(u > Stride)
      BY <1>1, <1>5, <1>6, <2>2
    <3>4. Mine(u, thread[u].i)'
      BY <1>4, <3>1, <3>3 DEF Mine
    <3>5. WorkOf(u)'
      BY <1>4, <3>1, <3>2, <3>3, <3>4 DEF WorkOf
    <3> QED BY <3>2, <3>5 DEF SoundOf, CheckedOf
  <2> QED BY <2>1, <2>2
<1>9. AtWork' /\ AtSound' /\ AtChecked'
  BY <1>3, <1>8 DEF AtWork, AtSound, AtChecked
<1>10. ASSUME NEW u \in 1 .. Stride, NEW j \in 1 .. Len(Cli.ins), Mine(u, j)
       PROVE  IF j < thread'[u].i THEN Len(told'[j]) = 1 ELSE told'[j] = <<>>
  <2>1. IF j < thread[u].i THEN Len(told[j]) = 1 ELSE told[j] = <<>>
    BY <1>10 DEF ToldOnce
  <2>2. CASE u # t
    <3>1. j # i /\ thread'[u] = thread[u]
      BY <1>2, <1>5, <1>6, <1>10, <2>2
    <3>2. told'[j] = told[j]
      BY <1>2, <3>1
    <3> QED BY <2>1, <3>1, <3>2
  <2>3. CASE u = t /\ j # i
    <3>1. told'[j] = told[j] /\ thread'[u].i = i + Stride
      BY <1>2, <2>3
    <3>2. j < thread[u].i <=> j < i + Stride
      <4>1. j \in Nat /\ thread[u].i = i
        BY <1>1, <1>10, <2>3 DEF i
      <4>2. j < i + Stride <=> j <= i
        BY <1>6, <1>10, <2>3, <4>1
      <4> QED BY <1>1, <2>3, <4>1, <4>2
    <3> QED BY <2>1, <3>1, <3>2
  <2>4. CASE u = t /\ j = i
    <3>1. told'[j] = <<said>> /\ thread'[u].i = i + Stride /\ j < i + Stride
      BY <1>1, <1>2, <1>5, <2>4
    <3>2. Len(<<said>>) = 1
      OBVIOUS
    <3> QED BY <3>1, <3>2
  <2> QED BY <2>2, <2>3, <2>4
<1>11. Len(told') = Len(Cli.ins) /\ prog.ended # "ok"
  BY <1>2 DEF ToldOnce, Running
<1>12. ToldOnce'
  BY <1>3, <1>4, <1>10, <1>11 DEF ToldOnce, Mine
<1> QED BY <1>7, <1>9, <1>12


\* What was promised of an input stays so.
LEMMA RightStays ==
    ASSUME NEW j, disk' = disk, Cli' = Cli, told'[j] = told[j],
           DOMAIN output \subseteq DOMAIN output', seen \subseteq seen', WriteFailed => WriteFailed',
           RightVerdict(j)
    PROVE  RightVerdict(j)'
<1>1. Input(j)' = Input(j)
  BY DEF Input
<1> QED BY <1>1 DEF RightVerdict, NameOf, Flag

LEMMA TellVerdicts ==
    ASSUME Typed, AtWork, ToldOnce, Verdicts, Running, NEW t \in Thread, AtBundle(t) \/ InFile(t),
           NEW said \in Verdict, Tell(t, said), disk' = disk, prog' = prog, WriteFailed => WriteFailed',
           DOMAIN output \subseteq DOMAIN output', seen \subseteq seen',
           NEW i \in Nat, i = thread[t].i, told'[i] = <<said>> => RightVerdict(i)'
    PROVE  Verdicts'
<1>1. /\ DOMAIN told' = DOMAIN told /\ told[i] = <<>> /\ \A j \in DOMAIN told : j # i => told'[j] = told[j]
  BY TellFacts
<1>2. Cli' = Cli
  BY DEF Cli
<1>3. told'[i] = <<said>>
  BY TellFacts
<1>4. RightVerdict(i)'
  BY <1>3
<1>5. ASSUME NEW j \in DOMAIN told, j # i, told'[j] # <<>> PROVE RightVerdict(j)'
  <2>1. told'[j] = told[j]
    BY <1>1, <1>5
  <2>2. RightVerdict(j)
    BY <1>5, <2>1 DEF Verdicts, Running
  <2> QED BY <1>2, <2>1, <2>2, RightStays
<1> QED BY <1>1, <1>4, <1>5 DEF Verdicts

-----------------------------------------------------------------------------
(***************************************************************************)
(* The checks of rbun-chk                                                  *)
(***************************************************************************)

\* A table that was passed to its end is one of a sound bundle: the data that was
\* found is none of the table.
LEMMA CheckedSound ==
    ASSUME NEW file \in Seq(Cell), Readable(file),
           NEW e \in [0 .. EntryCount(file) -> 0 .. Len(file)], SoundUpTo(file, EntryCount(file), e)
    PROVE  Sound(file)
<1> DEFINE n == EntryCount(file)
           o == TocOffset(file)
           L == Len(file)
           table == Chunks(file)
<1>1. /\ n \in Nat /\ o \in Nat /\ L \in Nat /\ L = o + n + 1 /\ file[L].kind = "footer"
      /\ \A i \in 1 .. n : o + i \in 1 .. L /\ file[o + i] \in Cell
  BY ReadableFacts
<1>2. \A m \in 1 .. n : file[o + m].kind = "entry" /\ file[o + m].id \in Chunk
  BY <1>1, RowType DEF SoundUpTo
<1>3. table = [i \in 1 .. n |-> file[o + i].id]
  BY DEF Chunks
<1>4. \A m \in 1 .. n : table[m] = file[o + m].id
  BY <1>3
<1>5. e[0] = 0 /\ \A m \in 1 .. n :
        e[m] = e[m - 1] + Size[table[m]] /\ SubSeq(file, e[m - 1] + 1, e[m]) = Data(table[m])
  BY <1>4 DEF SoundUpTo
<1> HIDE DEF n, o, L, table
<1>6. table \in Seq(Chunk) /\ Len(table) = n /\ DOMAIN table = 1 .. n
  <2>1. \A m \in 1 .. n : file[o + m].id \in Chunk
    BY <1>2
  <2>2. n \in Nat
    BY <1>1
  <2> QED BY <1>3, <2>1, <2>2
<1>7. e \in [0 .. n -> 0 .. L]
  BY DEF n, L
<1>8. \A i \in 0 .. n : Offsets(table)[i] = e[i]
  <2>1. Ends(Offsets(table), table, n)
    BY <1>6, OffsetsAreEnds
  <2>2. DOMAIN e = 0 .. n /\ n <= Len(table)
    BY <1>1, <1>6, <1>7
  <2>3. \A i \in 0 .. n : e[i] = Offsets(table)[i]
    BY <1>1, <1>5, <1>6, <2>1, <2>2, EndsAgree
  <2> QED BY <2>3
<1>9. \A i \in DOMAIN table : SubSeq(file, Offsets(table)[i - 1] + 1, Offsets(table)[i]) = Data(table[i])
  <2>1. \A i \in 1 .. n : i - 1 \in 0 .. n /\ i \in 0 .. n
    BY <1>1
  <2> QED BY <1>5, <1>6, <1>8, <2>1
<1>10. e[n] <= o
  <2>1. CASE n = 0
    BY <1>1, <1>5, <2>1
  <2>2. CASE n # 0
    <3> SUFFICES ASSUME ~(e[n] <= o) PROVE FALSE
      OBVIOUS
    <3> DEFINE c == table[n]
               z == Size[c]
               a == e[n - 1]
    <3>1. n \in 1 .. n /\ n - 1 \in 0 .. n /\ n \in 0 .. n
      BY <1>1, <2>2
    <3>2. c \in Chunk /\ z \in Nat \ {0}
      BY <1>6, <3>1, SizeAssumption
    <3>3. a \in Nat /\ e[n] = a + z /\ e[n] \in Nat /\ e[n] <= L /\ SubSeq(file, a + 1, e[n]) = Data(c)
      <4>1. a \in 0 .. L /\ e[n] \in 0 .. L
        BY <1>7, <3>1
      <4>2. e[n] = a + z /\ SubSeq(file, a + 1, e[n]) = Data(c)
        BY <1>5, <3>1
      <4> QED BY <1>1, <4>1, <4>2
    <3> HIDE DEF a, c, z
    <3>4. Len(SubSeq(file, a + 1, a + z)) = z /\ SubSeq(file, a + 1, a + z)[z] = file[a + z]
      BY <3>2, <3>3 DEF L
    <3>5. file[a + z] = Data(c)[z]
      BY <3>3, <3>4
    <3>6. Data(c)[z] = [kind |-> "data", id |-> c, at |-> z]
      BY <3>2 DEF Data, z
    <3>7. file[e[n]].kind = "data"
      BY <3>3, <3>5, <3>6
    <3>8. e[n] # L
      BY <1>1, <3>7
    <3>9. e[n] - o \in 1 .. n
      BY <1>1, <3>3, <3>8
    <3>10. file[o + (e[n] - o)].kind = "entry"
      BY <1>2, <3>9
    <3>11. o + (e[n] - o) = e[n]
      BY <1>1, <3>3
    <3> QED BY <3>7, <3>10, <3>11
  <2> QED BY <2>1, <2>2
<1>11. Offsets(table)[n] <= o
  <2>1. n \in 0 .. n
    BY <1>1
  <2> QED BY <1>8, <1>10, <2>1
<1>12. \A i \in 1 .. n : file[o + i].kind = "entry"
  BY <1>2
<1> QED BY <1>9, <1>11, <1>12 DEF Sound, n, o, table


-----------------------------------------------------------------------------
(***************************************************************************)
(* The steps that end a bundle                                             *)
(***************************************************************************)

\* In a sound bundle a thread finds the chunk of the table, whatever it checks.
LEMMA SoundRow ==
    ASSUME Typed, AtWork, AtSound, Running, NEW t \in Thread, InFile(t),
           thread[t].k <= Len(thread[t].toc), Sound(File(t))
    PROVE  LET table == Chunks(File(t))
               k == thread[t].k
           IN  /\ FoundBy(t) = {table[k]} /\ table[k] \in Chunk
               /\ Row(t).id = table[k] /\ Row(t).size = Size[table[k]]
               /\ thread[t].offset = Offsets(table)[k - 1]
               /\ Offsets(table)[k] = thread[t].offset + Row(t).size
<1> DEFINE file == File(t)
           toc == thread[t].toc
           k == thread[t].k
           table == Chunks(file)
<1>1. file \in Seq(Cell) /\ toc \in Tables(file) /\ k \in 1 .. Len(toc) /\ Len(toc) = EntryCount(file)
  BY ThreadFacts
<1>2. thread[t].offset = Offsets(table)[k - 1]
  BY DEF AtSound, SoundOf
<1>3. FoundBy(t) = Found(file, Offsets(table)[k - 1], toc[k]) /\ Row(t) = toc[k]
  BY <1>2 DEF FoundBy, Row
<1>4. Sound(file)
  OBVIOUS
<1> HIDE DEF file, toc, k, table
<1>5. Found(file, Offsets(table)[k - 1], toc[k]) = {table[k]}
  BY <1>1, <1>4, SoundFound DEF table
<1>6. toc[k].id = table[k] /\ toc[k].size = Size[table[k]]
  BY <1>1, <1>4, SoundTable DEF table
<1>7. table \in Seq(Chunk) /\ Len(table) = Len(toc) /\ Ends(Offsets(table), table, Len(toc))
  BY <1>1, <1>4, SoundLayout DEF table
<1>8. table[k] \in Chunk
  BY <1>1, <1>7
<1>9. Offsets(table)[k] = Offsets(table)[k - 1] + Size[table[k]]
  BY <1>1, <1>7 DEF Ends
<1> QED BY <1>2, <1>3, <1>5, <1>6, <1>8, <1>9 DEF file, toc, k, table

\* A program that fails is not at a sound bundle.
\* A verdict alone changes nothing else.
LEMMA QuietTell ==
    ASSUME Typed, UNCHANGED <<disk, cache, files, prog, bounds>>
    PROVE  /\ disk' = disk /\ prog' = prog /\ output' = output /\ seen' = seen
           /\ fails' = fails /\ fails' \in Nat /\ (WriteFailed => WriteFailed')
BY DEF cache, files, bounds, Typed, WriteFailed

LEMMA ThrowStep ==
    ASSUME Typed, ProgressInv, Running, NEW t \in Thread, AtBundle(t) \/ InFile(t),
           Cli.is # "ls", ~Sound(File(t)), Throw(t)
    PROVE  Typed' /\ ProgressInv'
<1>1. AtWork /\ ToldOnce /\ AtSound /\ AtChecked /\ Verdicts
  BY DEF ProgressInv
<1>2. Tell(t, "FAIL") /\ UNCHANGED <<disk, cache, files, prog, bounds>>
  BY DEF Throw
<1>3. "FAIL" \in Verdict
  BY DEF Verdict
<1>4. /\ disk' = disk /\ prog' = prog /\ output' = output /\ seen' = seen
      /\ fails' \in Nat /\ (WriteFailed => WriteFailed')
  BY <1>2, QuietTell
<1>5. Typed' /\ AtWork' /\ ToldOnce' /\ AtSound' /\ AtChecked'
  BY <1>1, <1>2, <1>3, <1>4, TellStep
<1>6. PICK i \in Nat : i = thread[t].i
  BY <1>1, ThreadFacts
<1>7. ~Sound(Input(i)) /\ Cli' = Cli /\ Input(i)' = Input(i)
  <2>1. Cli' = Cli /\ disk' = disk
    BY <1>2 DEF Cli
  <2>2. File(t) = Input(i)
    BY <1>1, <1>6, ThreadFacts
  <2> QED BY <2>1, <2>2 DEF Input
<1>8. told'[i] = <<"FAIL">> => RightVerdict(i)'
  <2>1. <<"FAIL">> # <<"OK">>
    OBVIOUS
  <2> QED BY <1>7, <2>1 DEF RightVerdict
<1>9. Verdicts'
  BY <1>1, <1>2, <1>3, <1>6, <1>8, <1>4, TellVerdicts
<1> QED BY <1>5, <1>9 DEF ProgressInv

LEMMA OpenThrowsStep ==
    ASSUME Typed, ProgressInv, NEW t \in Thread, OpenThrows(t)
    PROVE  Typed' /\ ProgressInv'
<1>1. Running /\ AtBundle(t) /\ Cli.is # "ls" /\ Throw(t) /\ (~Readable(File(t)) \/ Oversized(File(t)))
  BY DEF OpenThrows, AtBundle
<1>2. File(t) \in Seq(Cell)
  BY <1>1, ThreadFacts DEF ProgressInv
<1>3. ~Sound(File(t))
  BY <1>1, <1>2, SoundOpens
<1> QED BY <1>1, <1>3, ThrowStep

LEMMA RowThrowsStep ==
    ASSUME Typed, ProgressInv, NEW t \in Thread, RowThrows(t)
    PROVE  Typed' /\ ProgressInv'
<1>1. Running /\ InFile(t) /\ Cli.is # "ls" /\ thread[t].k <= Len(thread[t].toc) /\ Bad \in FoundBy(t) /\ Throw(t)
  BY DEF RowThrows, AtRow, InFile
<1>2. ~Sound(File(t))
  <2> SUFFICES ASSUME Sound(File(t)) PROVE FALSE
    OBVIOUS
  <2>1. FoundBy(t) = {Chunks(File(t))[thread[t].k]} /\ Chunks(File(t))[thread[t].k] \in Chunk
    BY <1>1, SoundRow DEF ProgressInv
  <2> QED BY <1>1, <2>1, JunkAssumption
<1> QED BY <1>1, <1>2, ThrowStep

LEMMA ListStep ==
    ASSUME Typed, ProgressInv, NEW t \in Thread, List(t)
    PROVE  Typed' /\ ProgressInv'
<1> DEFINE said == IF Accepts(File(t)) THEN "OK" ELSE "FAIL"
<1>1. AtWork /\ ToldOnce /\ AtSound /\ AtChecked /\ Verdicts /\ Running
  BY DEF ProgressInv, List, AtBundle
<1>2. AtBundle(t) /\ Cli.is = "ls" /\ Tell(t, said) /\ UNCHANGED <<disk, cache, files, prog, bounds>>
  BY DEF List
<1>3. said \in Verdict
  BY DEF Verdict
<1>4. PICK i \in Nat : i = thread[t].i
  BY <1>1, ThreadFacts
<1>5. Cli' = Cli /\ Input(i)' = Input(i) /\ Cli'.is = "ls"
  BY <1>2 DEF Cli, Input
<1>6. said = "OK" => Entries(Input(i))
  <2> SUFFICES ASSUME Accepts(File(t)) PROVE Entries(File(t))
    BY <1>1, <1>2, <1>4, ThreadFacts
  <2>1. File(t) \in Seq(Cell)
    BY <1>1, <1>2, ThreadFacts
  <2>2. /\ EntryCount(File(t)) = Len(Chunks(File(t)))
        /\ \A k \in 1 .. Len(Chunks(File(t))) :
             File(t)[TocOffset(File(t)) + k] = [kind |-> "entry", id |-> Chunks(File(t))[k]]
    BY <2>1, AcceptsLayout
  <2>3. ASSUME NEW k \in 1 .. EntryCount(File(t)) PROVE File(t)[TocOffset(File(t)) + k].kind = "entry"
    <3>1. File(t)[TocOffset(File(t)) + k] = [kind |-> "entry", id |-> Chunks(File(t))[k]]
      BY <2>2
    <3> QED BY <3>1
  <2> QED BY <2>3 DEF Entries
<1> HIDE DEF said
<1>7. /\ disk' = disk /\ prog' = prog /\ output' = output /\ seen' = seen
      /\ fails' \in Nat /\ (WriteFailed => WriteFailed')
  BY <1>2, QuietTell
<1>8. Typed' /\ AtWork' /\ ToldOnce' /\ AtSound' /\ AtChecked'
  BY <1>1, <1>2, <1>3, <1>7, TellStep
<1>9. told'[i] = <<said>> => RightVerdict(i)'
  BY <1>5, <1>6 DEF RightVerdict
<1>10. Verdicts'
  BY <1>1, <1>2, <1>3, <1>4, <1>9, <1>7, TellVerdicts
<1> QED BY <1>8, <1>10 DEF ProgressInv

LEMMA FinishStep ==
    ASSUME Typed, ProgressInv, NEW t \in Thread, Finish(t)
    PROVE  Typed' /\ ProgressInv'
<1>1. AtWork /\ ToldOnce /\ AtSound /\ AtChecked /\ Verdicts /\ Running /\ InFile(t)
  BY DEF ProgressInv, Finish, InFile
<1>2. thread[t].k > Len(thread[t].toc) /\ Tell(t, "OK") /\ UNCHANGED <<disk, cache, files, prog, bounds>>
  BY DEF Finish
<1>3. "OK" \in Verdict
  BY DEF Verdict
<1>4. PICK i \in Nat : i = thread[t].i
  BY <1>1, ThreadFacts
<1>5. Cli' = Cli /\ Input(i)' = Input(i) /\ output' = output /\ seen' = seen
  BY <1>2 DEF Cli, Input, cache, files
<1> DEFINE file == File(t)
           n == EntryCount(file)
<1>6. /\ file \in Seq(Cell) /\ file = Input(i) /\ Cli.is # "ls" /\ n \in Nat /\ thread[t].k = n + 1
      /\ Readable(file)
  <2>1. /\ file \in Seq(Cell) /\ file = Input(i) /\ Cli.is # "ls" /\ Len(thread[t].toc) = n
        /\ thread[t].k \in 1 .. Len(thread[t].toc) + 1 /\ Len(thread[t].toc) \in Nat
        /\ thread[t].toc \in Tables(file)
    BY <1>1, <1>4, ThreadFacts
  <2>2. Readable(file)
    BY <2>1, TableFacts
  <2>3. thread[t].k = n + 1
    BY <1>2, <2>1
  <2> QED BY <2>1, <2>2, <2>3
<1>7. n + 1 - 1 = n
  BY <1>6
<1>8. ASSUME Sound(file)
      PROVE  /\ Cli.is = "merge" => Ids(file) \subseteq DOMAIN output
             /\ Cli.is = "ex" => \A k \in DOMAIN Chunks(file) : NameOf(Chunks(file), k) \in seen
  <2>1. DOMAIN Chunks(file) = 1 .. n
    BY <1>6, <1>8, SoundLayout
  <2>2. /\ Cli.is = "merge" => \A m \in 1 .. n : Chunks(file)[m] \in DOMAIN output
        /\ Cli.is = "ex" => \A m \in 1 .. n : NameOf(Chunks(file), m) \in seen
    BY <1>1, <1>6, <1>7, <1>8 DEF AtSound, SoundOf
  <2> QED BY <2>1, <2>2 DEF Ids
<1>9. ASSUME Cli.is = "chk", Cli.flags = {} PROVE Sound(file)
  <2>1. PICK e \in [0 .. n -> 0 .. Len(file)] : SoundUpTo(file, n, e)
    BY <1>1, <1>6, <1>7, <1>9 DEF AtChecked, CheckedOf
  <2> QED BY <1>6, <2>1, CheckedSound
<1> HIDE DEF file, n
<1>10. /\ disk' = disk /\ prog' = prog /\ output' = output /\ seen' = seen
      /\ fails' \in Nat /\ (WriteFailed => WriteFailed')
  BY <1>2, QuietTell
<1>11. Typed' /\ AtWork' /\ ToldOnce' /\ AtSound' /\ AtChecked'
  BY <1>1, <1>2, <1>3, <1>10, TellStep
<1>12. told'[i] = <<"OK">> => RightVerdict(i)'
  <2> SUFFICES ASSUME told'[i] = <<"OK">> PROVE RightVerdict(i)'
    OBVIOUS
  <2>1. \A table, k : NameOf(table, k)' = NameOf(table, k)
    BY <1>5 DEF NameOf, Flag
  <2> QED BY <1>5, <1>6, <1>8, <1>9, <2>1 DEF RightVerdict
<1>13. Verdicts'
  BY <1>1, <1>2, <1>3, <1>4, <1>12, <1>10, TellVerdicts
<1> QED BY <1>11, <1>13 DEF ProgressInv


-----------------------------------------------------------------------------
(***************************************************************************)
(* The steps inside a bundle                                               *)
(***************************************************************************)

LEMMA MoveStep ==
    ASSUME Typed, ProgressInv, Running, NEW t \in Thread, AtBundle(t) \/ InFile(t), Cli.is # "ls",
           disk' = disk, prog' = prog, told' = told, fails' \in Nat, WriteFailed => WriteFailed',
           DOMAIN output \subseteq DOMAIN output', seen \subseteq seen',
           NEW s \in ThreadState, thread' = [thread EXCEPT ![t] = s],
           s.i = thread[t].i, s.pc \in {"rows", "write"}, s.pc = "write" => Cli.is = "ex" /\ s.k <= Len(s.toc),
           s.toc \in Tables(File(t)), s.k \in 1 .. Len(s.toc) + 1,
           SoundOf(t)', Cli.is = "chk" /\ Cli.flags = {} => CheckedOf(t)'
    PROVE  Typed' /\ ProgressInv'
<1>1. AtWork /\ ToldOnce /\ AtSound /\ AtChecked /\ Verdicts
  BY DEF ProgressInv
<1>2. thread \in [Thread -> ThreadState]
  BY DEF Typed
<1>3. /\ thread' \in [Thread -> ThreadState] /\ thread'[t] = s
      /\ \A u \in Thread : u # t => thread'[u] = thread[u]
  BY <1>2
<1>4. Typed'
  BY <1>3 DEF Typed
<1>5. Cli' = Cli /\ Running' = Running
  BY DEF Cli, Running
<1>6. Stride' = Stride
  BY <1>5 DEF Stride
<1>7. /\ thread[t].i \in 1 .. Len(Cli.ins) /\ Mine(t, thread[t].i) /\ t \in 1 .. Stride
  BY <1>1, ThreadFacts DEF AtBundle, InFile
<1>8. Stride \in Nat \ {0} /\ Len(Cli.ins) \in Nat
  BY CliFacts
<1>9. File(t)' = File(t)
  BY <1>3, <1>5 DEF File
<1>10. WorkOf(t)'
  <2>1. Mine(t, thread[t].i)'
    BY <1>3, <1>6, <1>7 DEF Mine
  <2>2. thread'[t].i <= Len(Cli'.ins) /\ ~(t > Stride')
    BY <1>3, <1>5, <1>6, <1>7, <1>8
  <2> QED BY <1>3, <1>5, <1>9, <2>1, <2>2 DEF WorkOf
<1>11. ASSUME NEW u \in Thread, u # t
       PROVE  WorkOf(u)' /\ SoundOf(u)' /\ (Cli.is = "chk" /\ Cli.flags = {} => CheckedOf(u)')
  <2>1. WorkOf(u) /\ SoundOf(u) /\ (Cli.is = "chk" /\ Cli.flags = {} => CheckedOf(u))
    BY <1>1 DEF AtWork, AtSound, AtChecked
  <2>2. thread'[u] = thread[u]
    BY <1>3, <1>11
  <2> QED BY <2>1, <2>2, OthersStay
<1>12. \A u \in Thread : WorkOf(u)' /\ SoundOf(u)' /\ (Cli.is = "chk" /\ Cli.flags = {} => CheckedOf(u)')
  BY <1>10, <1>11
<1>13. AtWork' /\ AtSound' /\ AtChecked'
  BY <1>5, <1>12 DEF AtWork, AtSound, AtChecked
<1>14. ToldOnce'
  <2>1. \A u \in Thread : thread'[u].i = thread[u].i
    BY <1>3
  <2>2. 1 .. Stride \subseteq Thread
    BY CliFacts
  <2> QED BY <1>1, <1>5, <1>6, <2>1, <2>2 DEF ToldOnce, Mine
<1>15. Verdicts'
  <2>1. ASSUME NEW j \in DOMAIN told, told[j] # <<>> PROVE RightVerdict(j)'
    <3>1. RightVerdict(j)
      BY <1>1, <2>1 DEF Verdicts, Running
    <3> QED BY <1>5, <3>1, RightStays
  <2> QED BY <2>1 DEF Verdicts
<1> QED BY <1>4, <1>13, <1>14, <1>15 DEF ProgressInv

LEMMA OpenStep ==
    ASSUME Typed, ProgressInv, NEW t \in Thread, Open(t)
    PROVE  Typed' /\ ProgressInv'
<1>1. AtBundle(t) /\ Cli.is # "ls" /\ Running /\ UNCHANGED <<disk, cache, files, prog, told, bounds>>
  BY DEF Open, AtBundle
<1>2. /\ thread[t] \in ThreadState /\ File(t) \in Seq(Cell) /\ thread[t].pc = "next" /\ thread[t].offset = 0
  BY <1>1, ThreadFacts DEF ProgressInv, AtBundle, AtWork, WorkOf
<1>3. PICK toc \in Tables(File(t)) : thread' = [thread EXCEPT ![t] = [@ EXCEPT !.pc = "rows", !.toc = toc, !.k = 1]]
  BY DEF Open
<1>4. toc \in Seq(TableRow) /\ Len(toc) \in Nat
  BY <1>2, TableFacts
<1> DEFINE s == [thread[t] EXCEPT !.pc = "rows", !.toc = toc, !.k = 1]
<1>5. /\ s \in ThreadState /\ s.pc = "rows" /\ s.i = thread[t].i /\ s.toc = toc
      /\ s.k = 1 /\ s.offset = thread[t].offset
  <2>1. thread[t] \in ThreadState /\ toc \in Seq(TableRow)
    BY <1>2, <1>4
  <2> QED BY ONLY <2>1, OpenState
<1>6. thread \in [Thread -> ThreadState]
  BY DEF Typed
<1>7. thread' = [thread EXCEPT ![t] = s]
  BY <1>3, <1>6
<1> HIDE DEF s
<1>8. thread'[t] = s /\ Cli' = Cli /\ File(t)' = File(t)
  <2>1. thread'[t] = s
    BY <1>6, <1>7
  <2> QED BY <1>1, <1>5, <2>1 DEF Cli, File
<1>9. thread'[t].k - 1 = 0 /\ thread'[t].offset = 0
  BY <1>2, <1>5, <1>8
<1>10. SoundOf(t)'
  <2>1. Sound(File(t)) => Offsets(Chunks(File(t)))[0] = 0
    BY <1>2, SoundLayout DEF Ends
  <2> QED BY <1>8, <1>9, <2>1 DEF SoundOf
<1>11. CheckedOf(t)'
  <2> DEFINE e == [m \in 0 .. 0 |-> 0]
  <2>1. Len(File(t)) \in Nat
    BY <1>2
  <2>2. e \in [0 .. 0 -> 0 .. Len(File(t))]
    BY <2>1
  <2>3. e[0] = 0 /\ SoundUpTo(File(t), 0, e)
    BY DEF SoundUpTo
  <2> HIDE DEF e
  <2> QED BY <1>8, <1>9, <2>2, <2>3 DEF CheckedOf
<1>12. s.k \in 1 .. Len(s.toc) + 1
  BY <1>4, <1>5
<1>13. output' = output /\ seen' = seen /\ fails' \in Nat /\ (WriteFailed => WriteFailed')
  BY <1>1 DEF cache, files, bounds, Typed, WriteFailed
<1>14. /\ disk' = disk /\ prog' = prog /\ told' = told /\ DOMAIN output \subseteq DOMAIN output' /\ seen \subseteq seen'
       /\ s.pc \in {"rows", "write"} /\ (s.pc = "write" => Cli.is = "ex" /\ s.k <= Len(s.toc))
       /\ s.toc \in Tables(File(t)) /\ (Cli.is = "chk" /\ Cli.flags = {} => CheckedOf(t)')
  BY <1>1, <1>3, <1>5, <1>11, <1>13
<1> QED BY <1>1, <1>5, <1>7, <1>10, <1>12, <1>13, <1>14, MoveStep

\* Past an entry.
LEMMA PastStep ==
    ASSUME Typed, ProgressInv, Running, NEW t \in Thread, InFile(t), thread[t].k <= Len(thread[t].toc),
           disk' = disk, prog' = prog, told' = told, fails' \in Nat, WriteFailed => WriteFailed',
           DOMAIN output \subseteq DOMAIN output', seen \subseteq seen',
           NEW skipped, thread' = [thread EXCEPT ![t] = Past(t, skipped)],
           Cli.is = "merge" => Row(t).id \in DOMAIN output',
           Cli.is = "ex" => Name(t) \in seen',
           Cli.is = "chk" /\ Cli.flags = {} => CheckedOf(t)'
    PROVE  Typed' /\ ProgressInv'
<1>1. AtWork /\ AtSound
  BY DEF ProgressInv
<1> DEFINE s == Past(t, skipped)
           k == thread[t].k
           toc == thread[t].toc
           file == File(t)
           table == Chunks(file)
<1>2. /\ thread[t] \in ThreadState /\ Row(t).size \in Nat /\ k \in 1 .. Len(toc) /\ Len(toc) \in Nat
      /\ toc \in Tables(file) /\ Cli.is # "ls"
  BY <1>1, ThreadFacts
<1>3. /\ s \in ThreadState /\ s.pc = "rows" /\ s.i = thread[t].i /\ s.toc = toc
      /\ s.k = k + 1 /\ s.offset = thread[t].offset + Row(t).size
  BY <1>2, PastFields
<1>4. thread \in [Thread -> ThreadState]
  BY DEF Typed
<1> HIDE DEF s
<1>5. thread'[t] = s /\ Cli' = Cli /\ File(t)' = file
  <2>1. thread'[t] = s
    BY <1>4 DEF s
  <2> QED BY <1>3, <2>1 DEF Cli, File
<1>6. s.k - 1 = k /\ s.k \in 1 .. Len(s.toc) + 1
  BY <1>2, <1>3
<1>7. SoundOf(t)'
  <2> SUFFICES ASSUME Sound(file)
               PROVE  /\ s.offset = Offsets(table)[k]
                      /\ Cli.is = "merge" => \A m \in 1 .. k : table[m] \in DOMAIN output'
                      /\ Cli.is = "ex" => \A m \in 1 .. k : NameOf(table, m)' \in seen'
    BY <1>5, <1>6 DEF SoundOf
  <2>1. /\ Row(t).id = table[k]
        /\ thread[t].offset = Offsets(table)[k - 1]
        /\ Offsets(table)[k] = thread[t].offset + Row(t).size
    BY <1>1, SoundRow
  <2>2. /\ Cli.is = "merge" => \A m \in 1 .. k - 1 : table[m] \in DOMAIN output
        /\ Cli.is = "ex" => \A m \in 1 .. k - 1 : NameOf(table, m) \in seen
    BY <1>1 DEF AtSound, SoundOf
  <2>3. NameOf(table, k) = Name(t)
    BY <2>1 DEF NameOf, Name, Row
  <2>4. \A m : NameOf(table, m)' = NameOf(table, m)
    BY <1>5 DEF NameOf, Flag
  <2>5. k \in Nat /\ \A m \in 1 .. k : m = k \/ m \in 1 .. k - 1
    BY <1>2
  <2> HIDE DEF table, k
  <2> QED BY <1>3, <2>1, <2>2, <2>3, <2>4, <2>5
<1>8. thread' = [thread EXCEPT ![t] = s] /\ s.pc \in {"rows", "write"} /\ (s.pc = "write" => Cli.is = "ex" /\ s.k <= Len(s.toc)) /\ s.toc \in Tables(File(t))
  BY <1>2, <1>3 DEF s
<1> QED BY <1>2, <1>3, <1>6, <1>7, <1>8, MoveStep


\* rbun-chk without flags passes nothing but an entry whose chunk is there.
LEMMA CheckedMore ==
    ASSUME Typed, AtWork, AtChecked, NEW t \in Thread, Check(t), Cli.flags = {}
    PROVE  CheckedOf(t)'
<1> DEFINE file == File(t)
           toc == thread[t].toc
           k == thread[t].k
           row == Row(t)
           o == TocOffset(file)
           L == Len(file)
           p == thread[t].offset
           s == Past(t, FALSE)
<1>1. Running /\ InFile(t) /\ Cli.is = "chk" /\ k <= Len(toc) /\ FoundBy(t) # {Bad}
  BY DEF Check, AtRow, InFile
<1>2. /\ file \in Seq(Cell) /\ toc \in Tables(file) /\ Len(toc) \in Nat /\ k \in 1 .. Len(toc)
      /\ Len(toc) = EntryCount(file) /\ row \in TableRow /\ row.size \in Nat /\ p \in Nat
      /\ thread[t] \in ThreadState /\ row = toc[k]
  BY <1>1, ThreadFacts DEF Row
<1>3. ~NoExtract /\ ~NoHash
  BY <1>1 DEF NoExtract, NoHash, Flag
<1>4. Found(file, p, row) = FoundBy(t)
  BY DEF FoundBy
<1>5. PICK c \in Found(file, p, row) : c # Bad
  <2>1. Found(file, p, row) # {}
    <3>1. Plain(file, p, row) # {}
      BY DEF Plain
    <3> QED BY <1>3, <3>1 DEF Found
  <2> QED BY <1>1, <1>4, <2>1
<1>6. /\ c = row.id /\ c \in Chunk /\ Whole(file, p, row)
      /\ SubSeq(file, p + 1, p + row.size) = Data(c)
  <2>1. row \in TableRow /\ ~NoExtract /\ ~NoHash /\ c \in Found(file, p, row) /\ c # Bad
    BY <1>2, <1>3, <1>5
  <2> HIDE DEF file, row, p
  <2> QED BY ONLY <2>1, FoundHashed
<1>7. Readable(file) /\ toc[k] \in RowsAt(file[o + k])
  BY <1>2, TableFacts
<1>8. file[o + k] \in Cell /\ L \in Nat
  BY <1>2, <1>7, ReadableFacts
<1>9. file[o + k].kind = "entry" /\ row.size = Size[file[o + k].id] /\ row.id = file[o + k].id
  <2>1. row.id # Junk
    BY <1>6, JunkAssumption
  <2>2. file[o + k].kind = "entry"
    BY <1>2, <1>7, <1>8, <2>1, RowType
  <2>3. row = [id |-> file[o + k].id, size |-> Size[file[o + k].id]]
    BY <1>2, <1>7, <2>2 DEF RowsAt
  <2> QED BY <2>2, <2>3
<1>10. PICK e \in [0 .. k - 1 -> 0 .. L] : e[k - 1] = p /\ SoundUpTo(file, k - 1, e)
  BY <1>1 DEF AtChecked, CheckedOf
<1>11. p + row.size \in 0 .. L
  <2>1. p + row.size <= L
    BY <1>6 DEF Whole
  <2>2. p \in Nat /\ row.size \in Nat /\ L \in Nat
    BY <1>2, <1>8
  <2> HIDE DEF p, row, L
  <2> QED BY <2>1, <2>2
<1>12. /\ s.k = k + 1 /\ s.offset = p + row.size /\ s.pc = "rows" /\ s.i = thread[t].i
  <2>1. thread[t] \in ThreadState /\ Row(t).size \in Nat
    BY <1>2
  <2> QED BY <2>1, PastFields
<1>13. thread'[t] = s /\ File(t)' = file
  <2>1. thread \in [Thread -> ThreadState] /\ thread' = [thread EXCEPT ![t] = s] /\ disk' = disk /\ prog' = prog
    BY DEF Typed, Check
  <2>2. thread'[t] = s
    BY <2>1
  <2> QED BY <1>12, <2>1, <2>2 DEF File, Cli
<1> HIDE DEF file, toc, row, o, L, p, s
<1> DEFINE z == p + row.size
           f == [m \in 0 .. k |-> IF m = k THEN z ELSE e[m]]
<1>14. k \in Nat \ {0} /\ k + 1 - 1 = k /\ 0 \in 0 .. k - 1 /\ k - 1 \in 0 .. k - 1
  BY <1>2
<1> HIDE DEF k
<1>15. \A m \in 0 .. k : m = k \/ m \in 0 .. k - 1
  BY <1>14
<1>16. f \in [0 .. k -> 0 .. L] /\ f[k] = z
  <2>1. k \in 0 .. k
    BY <1>14
  <2> HIDE DEF z
  <2>2. z \in 0 .. L
    BY <1>11 DEF z
  <2> QED BY <1>10, <1>14, <1>15, <2>1, <2>2
<1>17. \A m \in 0 .. k - 1 : f[m] = e[m]
  BY <1>14
<1>18. SoundUpTo(file, k, f)
  <2>1. f[0] = 0
    BY <1>10, <1>14, <1>17 DEF SoundUpTo
  <2>2. ASSUME NEW m \in 1 .. k
        PROVE  /\ file[o + m].kind = "entry"
               /\ f[m] = f[m - 1] + Size[file[o + m].id]
               /\ SubSeq(file, f[m - 1] + 1, f[m]) = Data(file[o + m].id)
    <3>1. CASE m = k
      <4>1. f[m - 1] = p /\ f[m] = z
        BY <1>10, <1>14, <1>16, <1>17, <3>1
      <4> HIDE DEF f
      <4> QED BY <1>6, <1>9, <3>1, <4>1 DEF z
    <3>2. CASE m # k
      <4>1. m \in 1 .. k - 1 /\ m \in 0 .. k - 1 /\ m - 1 \in 0 .. k - 1
        BY <1>14, <3>2
      <4>2. f[m] = e[m] /\ f[m - 1] = e[m - 1]
        BY <1>17, <4>1
      <4> HIDE DEF f
      <4> QED BY <1>10, <4>1, <4>2 DEF SoundUpTo, o
    <3> QED BY <3>1, <3>2
  <2> HIDE DEF f
  <2> QED BY <2>1, <2>2 DEF SoundUpTo, o
<1> HIDE DEF f
<1>19. \E g \in [0 .. k -> 0 .. Len(file)] : g[k] = s.offset /\ SoundUpTo(file, k, g)
  BY <1>12, <1>16, <1>18 DEF z, L
<1>20. s.k - 1 = k
  BY <1>12, <1>14
<1> QED BY <1>13, <1>19, <1>20 DEF CheckedOf


LEMMA CheckStep ==
    ASSUME Typed, ProgressInv, NEW t \in Thread, Check(t)
    PROVE  Typed' /\ ProgressInv'
<1>1. Running /\ InFile(t) /\ Cli.is = "chk" /\ thread[t].k <= Len(thread[t].toc)
  BY DEF Check, AtRow, InFile
<1>2. /\ disk' = disk /\ prog' = prog /\ told' = told /\ output' = output /\ seen' = seen /\ fails' = fails
      /\ thread' = [thread EXCEPT ![t] = Past(t, FALSE)]
  BY DEF Check, cache, files, bounds
<1>3. Cli.flags = {} => CheckedOf(t)'
  BY CheckedMore DEF ProgressInv
<1>4. fails' \in Nat /\ (WriteFailed => WriteFailed')
  BY <1>2 DEF Typed, WriteFailed
<1> QED BY <1>1, <1>2, <1>3, <1>4, PastStep

LEMMA WithGrows ==
    ASSUME NEW t, NEW d, NEW part
    PROVE  DOMAIN With(t, d, part) = DOMAIN output \cup {Row(t).id}
BY DEF With, Put

LEMMA AddStep ==
    ASSUME Typed, ProgressInv, NEW t \in Thread, Add(t)
    PROVE  Typed' /\ ProgressInv'
<1>1. Running /\ InFile(t) /\ Cli.is = "merge" /\ thread[t].k <= Len(thread[t].toc)
  BY DEF Add, AtRow, InFile
<1>2. /\ disk' = disk /\ prog' = prog /\ told' = told /\ seen' = seen /\ fails' = fails
      /\ thread' = [thread EXCEPT ![t] = Past(t, FALSE)]
      /\ \E d, part : output' = With(t, d, part)
  BY DEF Add, files, bounds
<1>3. DOMAIN output' = DOMAIN output \cup {Row(t).id}
  BY <1>2, WithGrows
<1>4. fails' \in Nat /\ (WriteFailed => WriteFailed')
  BY <1>2 DEF Typed, WriteFailed
<1> QED BY <1>1, <1>2, <1>3, <1>4, PastStep

LEMMA AddThrowsStep ==
    ASSUME Typed, ProgressInv, prog.fails <= fails, NEW t \in Thread, AddThrows(t)
    PROVE  Typed' /\ ProgressInv'
<1>1. /\ AtWork /\ ToldOnce /\ AtSound /\ AtChecked /\ Verdicts
      /\ Running /\ InFile(t) /\ Cli.is = "merge"
  BY DEF ProgressInv, AddThrows, AtRow, InFile
<1>2. /\ Tell(t, "FAIL") /\ disk' = disk /\ prog' = prog /\ seen' = seen
      /\ fails' \in Nat /\ WriteFailed'
  <2>1. prog.fails \in Nat /\ fails \in Nat /\ fails' = fails + 1 /\ prog' = prog
    BY DEF Typed, AddThrows
  <2>2. fails' \in Nat /\ WriteFailed'
    BY <2>1 DEF WriteFailed
  <2> QED BY <2>2 DEF AddThrows, files
<1>3. DOMAIN output \subseteq DOMAIN output'
  <2>1. \E d, part : output' \in {output, With(t, d, part)}
    BY DEF AddThrows
  <2> QED BY <2>1, WithGrows
<1>4. "FAIL" \in Verdict
  BY DEF Verdict
<1>5. PICK i \in Nat : i = thread[t].i
  BY <1>1, ThreadFacts
<1>6. Typed' /\ AtWork' /\ ToldOnce' /\ AtSound' /\ AtChecked'
  BY <1>1, <1>2, <1>3, <1>4, TellStep
<1>7. Cli'.is = "merge"
  BY <1>1, <1>2 DEF Cli
<1>8. told'[i] = <<"FAIL">> => RightVerdict(i)'
  BY <1>2, <1>7 DEF RightVerdict
<1>9. Verdicts'
  BY <1>1, <1>2, <1>3, <1>4, <1>5, <1>8, TellVerdicts
<1> QED BY <1>6, <1>9 DEF ProgressInv

LEMMA ContainedStep ==
    ASSUME Typed, ProgressInv, NEW t \in Thread, Contained(t)
    PROVE  Typed' /\ ProgressInv'
<1>1. Running /\ InFile(t) /\ Cli.is = "merge" /\ thread[t].k <= Len(thread[t].toc) /\ Row(t).id \in DOMAIN output
  BY DEF Contained, AtRow, InFile
<1>2. /\ disk' = disk /\ prog' = prog /\ told' = told /\ output' = output /\ seen' = seen /\ fails' = fails
      /\ thread' = [thread EXCEPT ![t] = Past(t, TRUE)]
  BY DEF Contained, cache, files, bounds
<1>3. fails' \in Nat /\ (WriteFailed => WriteFailed')
  BY <1>2 DEF Typed, WriteFailed
<1> QED BY <1>1, <1>2, <1>3, PastStep

LEMMA SeenStep ==
    ASSUME Typed, ProgressInv, NEW t \in Thread, Seen(t)
    PROVE  Typed' /\ ProgressInv'
<1>1. Running /\ InFile(t) /\ Cli.is = "ex" /\ thread[t].k <= Len(thread[t].toc) /\ Name(t) \in seen
  BY DEF Seen, AtRow, InFile
<1>2. /\ disk' = disk /\ prog' = prog /\ told' = told /\ output' = output /\ seen' = seen /\ fails' = fails
      /\ thread' = [thread EXCEPT ![t] = Past(t, TRUE)]
  BY DEF Seen, cache, files, bounds
<1>3. fails' \in Nat /\ (WriteFailed => WriteFailed')
  BY <1>2 DEF Typed, WriteFailed
<1> QED BY <1>1, <1>2, <1>3, PastStep

LEMMA WriteChunkStep ==
    ASSUME Typed, ProgressInv, NEW t \in Thread, NEW works \in BOOLEAN, WriteChunk(t, works)
    PROVE  Typed' /\ ProgressInv'
<1>1. Running /\ InFile(t) /\ Cli.is = "ex" /\ thread[t].k <= Len(thread[t].toc)
  BY DEF WriteChunk, InFile, ProgressInv, AtWork, WorkOf
<1>2. /\ disk' = disk /\ prog' = prog /\ told' = told /\ output' = output /\ seen' = seen \cup {Name(t)}
      /\ thread' = [thread EXCEPT ![t] = Past(t, FALSE)]
  BY DEF WriteChunk, cache
<1>3. fails' \in Nat /\ (WriteFailed => WriteFailed')
  <2>1. fails \in Nat /\ prog.fails \in Nat
    BY DEF Typed
  <2>2. fails' = fails \/ fails' = fails + 1
    BY DEF WriteChunk
  <2> QED BY <1>2, <2>1, <2>2 DEF WriteFailed
<1> QED BY <1>1, <1>2, <1>3, PastStep

LEMMA OpenChunkStep ==
    ASSUME Typed, ProgressInv, NEW t \in Thread, OpenChunk(t)
    PROVE  Typed' /\ ProgressInv'
<1>1. Running /\ InFile(t) /\ Cli.is = "ex" /\ thread[t].k <= Len(thread[t].toc)
  BY DEF OpenChunk, AtRow, InFile
<1>2. disk' = disk /\ prog' = prog /\ told' = told /\ output' = output /\ seen' = seen /\ fails' = fails
  BY DEF OpenChunk, cache, bounds
<1>3. AtWork /\ AtSound
  BY DEF ProgressInv
<1>4. /\ thread[t] \in ThreadState /\ Row(t) \in TableRow /\ thread[t].toc \in Tables(File(t))
      /\ thread[t].k \in 1 .. Len(thread[t].toc) + 1
  BY <1>1, <1>3, ThreadFacts
<1>5. PICK c \in FoundBy(t) \ {Bad} : thread' = [thread EXCEPT ![t].pc = "write", ![t].found = c]
  BY DEF OpenChunk
<1>6. c \in Content
  BY <1>4, <1>5, FoundType DEF FoundBy
<1> DEFINE s == [thread[t] EXCEPT !.pc = "write", !.found = c]
<1>7. /\ s \in ThreadState /\ s.pc = "write" /\ s.i = thread[t].i /\ s.toc = thread[t].toc
      /\ s.k = thread[t].k /\ s.offset = thread[t].offset
  <2>1. thread[t] \in ThreadState /\ c \in Content
    BY <1>4, <1>6
  <2> QED BY ONLY <2>1, WriteState
<1>8. thread \in [Thread -> ThreadState]
  BY DEF Typed
<1>9. thread' = [thread EXCEPT ![t] = s]
  BY <1>5, <1>8
<1> HIDE DEF s
<1>10. thread'[t] = s /\ Cli' = Cli /\ File(t)' = File(t)
  <2>1. thread'[t] = s
    BY <1>8, <1>9
  <2> QED BY <1>2, <1>7, <2>1 DEF Cli, File
<1>11. SoundOf(t)'
  <2>1. SoundOf(t)
    BY <1>1, <1>3 DEF AtSound
  <2>2. \A table, m : NameOf(table, m)' = NameOf(table, m)
    BY <1>10 DEF NameOf, Flag
  <2> QED BY <1>1, <1>2, <1>7, <1>10, <2>1, <2>2 DEF SoundOf
<1>12. fails' \in Nat /\ (WriteFailed => WriteFailed') /\ DOMAIN output \subseteq DOMAIN output' /\ seen \subseteq seen' /\ Cli.is # "ls" /\ ~(Cli.is = "chk")
  BY <1>1, <1>2 DEF Typed, WriteFailed
<1>13. /\ s.pc \in {"rows", "write"} /\ (s.pc = "write" => Cli.is = "ex" /\ s.k <= Len(s.toc))
       /\ s.toc \in Tables(File(t)) /\ s.k \in 1 .. Len(s.toc) + 1
  BY <1>1, <1>4, <1>7
<1> QED BY <1>1, <1>2, <1>7, <1>9, <1>11, <1>12, <1>13, MoveStep


-----------------------------------------------------------------------------
(***************************************************************************)
(* The start and the end of a program                                      *)
(***************************************************************************)

LEMMA StartStep ==
    ASSUME Typed, NEW command \in Commands, Start(command)
    PROVE  Typed' /\ ProgressInv'
<1> DEFINE S == IF command.parallel = 0 THEN 1 ELSE command.parallel
           n == Len(command.ins)
<1>1. /\ command.ins \in Seq(Path) /\ command.parallel \in 0 .. MaxThreads /\ MaxThreads \in Nat \ {0}
  BY CommandsAssumption, BoundsAssumption
<1>2. /\ S \in Nat \ {0} /\ n \in Nat /\ DOMAIN command.ins = 1 .. n
  BY <1>1
<1>3. /\ prog' = [command |-> command, ended |-> "no", fails |-> fails]
      /\ thread' = [t \in Thread |-> IF t <= S THEN [Idle EXCEPT !.pc = "next", !.i = t] ELSE Idle]
      /\ told' = [i \in DOMAIN command.ins |-> <<>>]
      /\ disk' = disk /\ fails' = fails
  BY DEF Start
<1>4. Cli' = command /\ prog'.ended = "no"
  BY <1>3 DEF Cli
<1>5. Stride' = S
  BY <1>4 DEF Stride
<1>6. \A t \in Thread : t \in Nat \ {0}
  BY DEF Thread
<1> HIDE DEF S, n
<1>7. ASSUME NEW t \in Thread
      PROVE  /\ thread'[t] \in ThreadState
             /\ t <= S => thread'[t].pc = "next" /\ thread'[t].i = t /\ thread'[t].offset = 0
             /\ ~(t <= S) => thread'[t].pc = "none"
  <2>1. CASE t <= S
    <3>1. thread'[t] = [Idle EXCEPT !.pc = "next", !.i = t]
      BY <1>3, <2>1
    <3>2. t \in Nat
      BY <1>6
    <3>3. LET s == [Idle EXCEPT !.pc = "next", !.i = t]
          IN  s \in ThreadState /\ s.pc = "next" /\ s.i = t /\ s.offset = 0
      BY ONLY <3>2, NextState
    <3> QED BY <2>1, <3>1, <3>3
  <2>2. CASE ~(t <= S)
    <3>1. thread'[t] = Idle
      BY <1>3, <2>2
    <3> QED BY <2>2, <3>1, IdleState
  <2> QED BY <2>1, <2>2
<1>8. told' \in Seq(Seq(Verdict)) /\ Len(told') = n /\ DOMAIN told' = 1 .. n /\ \A j \in 1 .. n : told'[j] = <<>>
  <2> DEFINE V == Seq(Verdict)
  <2>1. <<>> \in V
    OBVIOUS
  <2>2. told' = [i \in 1 .. n |-> <<>>]
    BY <1>2, <1>3
  <2> HIDE DEF V
  <2>3. told' \in Seq(V) /\ Len(told') = n /\ DOMAIN told' = 1 .. n /\ \A j \in 1 .. n : told'[j] = <<>>
    BY <1>2, <2>1, <2>2
  <2> QED BY <2>3 DEF V
<1>9. Typed'
  <2>1. thread' \in [Thread -> ThreadState]
    BY <1>3, <1>7
  <2>2. prog' \in [command : Commands, ended : {"never", "no", "ok", "killed"}, fails : Nat]
    BY <1>3 DEF Typed
  <2> QED BY <1>3, <1>8, <2>1, <2>2 DEF Typed, Verdict
<1>10. ASSUME NEW t \in Thread PROVE WorkOf(t)' /\ SoundOf(t)' /\ CheckedOf(t)'
  <2>1. ~InFile(t)' /\ thread'[t].pc # "write"
    BY <1>7 DEF InFile
  <2>2. thread'[t].pc = "none" <=> t > S
    BY <1>2, <1>6, <1>7
  <2>3. thread'[t].pc # "none" => \E m \in 0 .. thread'[t].i : thread'[t].i = t + m * S
    <3> SUFFICES ASSUME thread'[t].pc # "none" PROVE \E m \in 0 .. t : t = t + m * S
      BY <1>7
    <3>1. 0 \in 0 .. t /\ t = t + 0 * S
      BY <1>2, <1>6
    <3> QED BY <3>1
  <2>4. thread'[t].pc = "next" => thread'[t].offset = 0
    BY <1>7
  <2> QED BY <1>5, <2>1, <2>2, <2>3, <2>4 DEF WorkOf, SoundOf, CheckedOf, Mine
<1>11. AtWork' /\ AtSound' /\ AtChecked'
  BY <1>10 DEF AtWork, AtSound, AtChecked
<1>12. ToldOnce'
  <2>1. ASSUME NEW t \in 1 .. S, NEW j \in 1 .. n, Mine(t, j)'
        PROVE  IF j < thread'[t].i THEN Len(told'[j]) = 1 ELSE told'[j] = <<>>
    <3>1. PICK m \in 0 .. j : j = t + m * S
      BY <1>5, <2>1 DEF Mine
    <3>2. m * S \in Nat
      BY <1>2, <3>1
    <3>3. t \in Thread /\ t <= S
      BY <1>1, <1>2 DEF S, Thread
    <3>4. thread'[t].i = t
      BY <1>7, <3>3
    <3>5. ~(j < t)
      BY <1>2, <3>1, <3>2
    <3> QED BY <1>8, <3>4, <3>5
  <2> QED BY <1>4, <1>5, <1>8, <2>1 DEF ToldOnce, n
<1>13. Verdicts'
  BY <1>8 DEF Verdicts
<1> QED BY <1>9, <1>11, <1>12, <1>13 DEF ProgressInv

LEMMA IdleThreads == [t \in Thread |-> Idle] \in [Thread -> ThreadState]
BY IdleState

LEMMA EndStep ==
    ASSUME Typed, ProgressInv, End
    PROVE  Typed' /\ ProgressInv'
<1>1. AtWork /\ ToldOnce /\ AtSound /\ AtChecked /\ Verdicts /\ Running
  BY DEF ProgressInv, End
<1>2. /\ prog' = [prog EXCEPT !.ended = "ok"] /\ thread' = [t \in Thread |-> Idle]
      /\ disk' = disk /\ told' = told /\ output' = output /\ seen' = seen /\ fails' = fails
  BY DEF End, files, bounds
<1>3. /\ prog' \in [command : Commands, ended : {"never", "no", "ok", "killed"}, fails : Nat]
      /\ prog'.ended = "ok" /\ prog'.command = prog.command /\ (WriteFailed => WriteFailed')
  BY <1>2 DEF Typed, WriteFailed
<1>4. Cli' = Cli /\ ~Running'
  BY <1>3 DEF Cli, Running
<1>5. Typed'
  BY <1>2, <1>3, IdleThreads DEF Typed
<1>6. AtWork' /\ AtSound' /\ AtChecked'
  BY <1>4 DEF AtWork, AtSound, AtChecked
<1>7. Stride \in Nat \ {0} /\ 1 .. Stride \subseteq Thread /\ Len(Cli.ins) \in Nat
  BY CliFacts
<1>8. ASSUME NEW j \in 1 .. Len(Cli.ins) PROVE Len(told[j]) = 1
  <2>1. j \in Nat \ {0}
    OBVIOUS
  <2>2. PICK t \in 1 .. Stride : \E m \in 0 .. j : j = t + m * Stride
    BY <1>7, <2>1, MineSome
  <2>3. Mine(t, j) /\ t \in Thread /\ ~(t > Stride)
    BY <1>7, <2>2 DEF Mine
  <2>4. thread[t].pc # "none"
    BY <1>1, <2>3 DEF AtWork, WorkOf
  <2>5. thread[t].i > Len(Cli.ins) /\ thread[t].i \in Nat
    BY <1>1, <2>3, <2>4, ThreadFacts DEF End
  <2>6. j < thread[t].i
    BY <1>7, <2>5
  <2> QED BY <1>1, <2>3, <2>6 DEF ToldOnce
<1>9. ToldOnce'
  BY <1>1, <1>2, <1>4, <1>8 DEF ToldOnce
<1>10. Verdicts'
  <2>1. ASSUME NEW j \in DOMAIN told, told[j] # <<>> PROVE RightVerdict(j)'
    <3>1. RightVerdict(j)
      BY <1>1, <2>1 DEF Verdicts, Running
    <3> QED BY <1>2, <1>3, <1>4, <3>1, RightStays
  <2> QED BY <1>2, <2>1 DEF Verdicts
<1> QED BY <1>5, <1>6, <1>9, <1>10 DEF ProgressInv

LEMMA KillStep ==
    ASSUME Typed, Kill
    PROVE  Typed' /\ ProgressInv'
<1>1. /\ prog' = [prog EXCEPT !.ended = "killed"] /\ thread' = [t \in Thread |-> Idle] /\ told' = <<>>
      /\ disk' = disk /\ fails' = fails
  BY DEF Kill
<1>2. /\ prog' \in [command : Commands, ended : {"never", "no", "ok", "killed"}, fails : Nat]
      /\ prog'.ended = "killed"
  BY <1>1 DEF Typed
<1>3. Typed'
  BY <1>1, <1>2, IdleThreads DEF Typed
<1>4. ~Running'
  BY <1>2 DEF Running
<1>5. AtWork' /\ AtSound' /\ AtChecked'
  BY <1>4 DEF AtWork, AtSound, AtChecked
<1>6. ToldOnce' /\ Verdicts'
  BY <1>2, <1>4 DEF ToldOnce, Verdicts
<1> QED BY <1>3, <1>5, <1>6 DEF ProgressInv


-----------------------------------------------------------------------------
(***************************************************************************)
(* All steps                                                               *)
(***************************************************************************)

LEMMA ProgressInit == Init => Typed /\ ProgressInv
<1> SUFFICES ASSUME Init PROVE Typed /\ ProgressInv
  OBVIOUS
<1>1. Typed
  <2>1. disk \in [Path -> Seq(Cell)]
    BY InputsAssumption DEF Init
  <2>2. prog \in [command : Commands, ended : {"never", "no", "ok", "killed"}, fails : Nat]
    BY CommandsAssumption DEF Init
  <2>3. thread \in [Thread -> ThreadState]
    BY IdleThreads DEF Init
  <2>4. told \in Seq(Seq({"OK", "FAIL"})) /\ fails \in Nat
    BY DEF Init
  <2> QED BY <2>1, <2>2, <2>3, <2>4 DEF Typed
<1>2. prog.ended = "never"
  BY DEF Init
<1>3. AtWork /\ ToldOnce /\ AtSound /\ AtChecked /\ Verdicts
  BY <1>2 DEF Running, AtWork, ToldOnce, AtSound, AtChecked, Verdicts
<1> QED BY <1>1, <1>3 DEF ProgressInv

LEMMA ProgressStays ==
    ASSUME Typed, ProgressInv, UNCHANGED vars
    PROVE  Typed' /\ ProgressInv'
<1>1. /\ disk' = disk /\ prog' = prog /\ thread' = thread /\ told' = told /\ fails' = fails
      /\ output' = output /\ seen' = seen
  BY DEF vars, cache, files, bounds
<1>2. Cli' = Cli /\ Running' = Running
  BY <1>1 DEF Cli, Running
<1>3. Stride' = Stride
  BY <1>2 DEF Stride
<1>4. Typed'
  BY <1>1 DEF Typed
<1>5. \A u \in Thread : /\ WorkOf(u) => WorkOf(u)'
                        /\ SoundOf(u) => SoundOf(u)'
                        /\ CheckedOf(u) => CheckedOf(u)'
  BY <1>1, OthersStay
<1>6. AtWork' /\ AtSound' /\ AtChecked'
  BY <1>2, <1>5 DEF ProgressInv, AtWork, AtSound, AtChecked
<1>7. ToldOnce'
  BY <1>1, <1>2, <1>3 DEF ProgressInv, ToldOnce, Mine
<1>8. Verdicts'
  <2>1. ASSUME NEW j, RightVerdict(j) PROVE RightVerdict(j)'
    <3>1. WriteFailed => WriteFailed'
      BY <1>1 DEF WriteFailed
    <3> QED BY <1>1, <1>2, <2>1, <3>1, RightStays
  <2> QED BY <1>1, <2>1 DEF ProgressInv, Verdicts
<1> QED BY <1>4, <1>6, <1>7, <1>8 DEF ProgressInv

LEMMA ProgressStep ==
    ASSUME Typed, ProgressInv, ExtractInv, [Next]_vars
    PROVE  Typed' /\ ProgressInv'
<1>1. ASSUME NEW command \in Commands, Start(command) PROVE Typed' /\ ProgressInv'
  BY <1>1, StartStep
<1>2. ASSUME NEW t \in Thread, Open(t) \/ OpenThrows(t) \/ List(t) \/ RowThrows(t) \/ Check(t) \/ Add(t)
                                 \/ Contained(t) \/ OpenChunk(t) \/ Seen(t) \/ Finish(t)
      PROVE  Typed' /\ ProgressInv'
  BY <1>2, OpenStep, OpenThrowsStep, ListStep, RowThrowsStep, CheckStep, AddStep, ContainedStep,
     OpenChunkStep, SeenStep, FinishStep
<1>3. ASSUME NEW t \in Thread, NEW works \in BOOLEAN, WriteChunk(t, works) PROVE Typed' /\ ProgressInv'
  BY <1>3, WriteChunkStep
<1>4. ASSUME NEW t \in Thread, AddThrows(t) PROVE Typed' /\ ProgressInv'
  <2>1. prog.fails <= fails
    BY <1>4 DEF ExtractInv, AddThrows, AtRow
  <2> QED BY <1>4, <2>1, AddThrowsStep
<1>5. CASE End
  BY <1>5, EndStep
<1>6. CASE Kill
  BY <1>6, KillStep
<1>7. CASE UNCHANGED vars
  BY <1>7, ProgressStays
<1> QED BY <1>1, <1>2, <1>3, <1>4, <1>5, <1>6, <1>7 DEF Next

-----------------------------------------------------------------------------
(***************************************************************************)
(* The cache of rbun-merge                                                 *)
(***************************************************************************)

\* Where it extracts, rbun-merge adds nothing under the id of another chunk.
LEMMA CopiedRight ==
    ASSUME Typed, ProgressInv, MergeInv, ~blind, NEW t \in Thread, AtRow(t, "merge"), NEW d \in Copied(t)
    PROVE  d = Row(t).id
<1>1. Running /\ InFile(t) /\ Cli.is = "merge" /\ thread[t].k <= Len(thread[t].toc)
  BY DEF AtRow, InFile
<1>2. "no-extract" \notin Cli.flags
  BY <1>1 DEF MergeInv
<1>3. Cli.flags \subseteq FlagsOf("merge")
  BY <1>1, CliFacts
<1>4. "no-hash" \notin Cli.flags
  BY <1>3 DEF FlagsOf
<1>5. ~NoExtract /\ ~NoHash
  BY <1>1, <1>2, <1>4 DEF NoExtract, NoHash, Flag
<1>6. Row(t) \in TableRow
  BY <1>1, ThreadFacts DEF ProgressInv
<1>7. d \in FoundBy(t) \ {Bad}
  BY <1>5 DEF Copied
<1> QED BY <1>5, <1>6, <1>7, FoundHashed DEF FoundBy

\* A chunk that is added is right, or behind a left table.
LEMMA WithRight ==
    ASSUME NEW t, NEW part \in APart, RightIn(output),
           gap' = part \/ gap' = "here"
    PROVE  \A id \in DOMAIN With(t, Row(t).id, part) :
                \/ With(t, Row(t).id, part)[id] = id
                \/ With(t, Row(t).id, part)[id] = Shifted /\ gap' # "none"
<1>1. gap # "none" => gap' # "none"
  BY DEF APart, NextPart
<1>2. part = "here" => gap' # "none"
  OBVIOUS
<1> QED BY <1>1, <1>2 DEF With, Put, RightIn

\* What is on the disk is what was there, what the cache has, or nothing.
LEMMA KeptRight ==
    ASSUME RightIn(kept), RightIn(output), gap # "none" => gap' # "none",
           kept' = kept \/ kept' = output \/ kept' = <<>>
    PROVE  RightIn(kept)'
<1>1. DOMAIN <<>> = {}
  OBVIOUS
<1> QED BY <1>1 DEF RightIn

LEMMA MergeStep ==
    ASSUME Typed, ProgressInv, MergeInv, [Next]_vars
    PROVE  MergeInv'
<1>1. ASSUME UNCHANGED <<cache, prog>> PROVE MergeInv'
  <2>1. UNCHANGED <<output, kept, damaged, gap, blind, prog>>
    BY <1>1 DEF cache
  <2>2. Cli' = Cli /\ Running' = Running /\ Ended("merge")' = Ended("merge")
    BY <2>1 DEF Cli, Running, Ended
  <2> QED BY <2>1, <2>2 DEF MergeInv, RightIn
<1>2. ASSUME NEW command \in Commands, Start(command) PROVE MergeInv'
  <2>1. /\ prog' = [command |-> command, ended |-> "no", fails |-> fails]
        /\ blind' = (blind \/ (command.is = "merge" /\ "no-extract" \in command.flags))
        /\ output' = output /\ kept' = kept /\ (gap # "none" => gap' # "none")
    BY <1>2 DEF Start, APart, NextPart
  <2>2. Cli' = command /\ ~Ended("merge")'
    BY <2>1 DEF Cli, Ended
  <2> QED BY <2>1, <2>2 DEF MergeInv, RightIn
<1>3. ASSUME NEW t \in Thread, Add(t) \/ AddThrows(t) PROVE MergeInv'
  <2>1. /\ blind' = blind /\ prog' = prog /\ AtRow(t, "merge") /\ Running
    BY <1>3 DEF Add, AddThrows, AtRow
  <2>2. Cli' = Cli /\ Running' = Running /\ ~Ended("merge")'
    BY <2>1 DEF Cli, Running, Ended
  <2>3. ASSUME ~blind PROVE RightIn(output)' /\ RightIn(kept)'
    <3>1. RightIn(output) /\ RightIn(kept)
      BY <2>3 DEF MergeInv
    <3>2. \A d \in Copied(t) : d = Row(t).id
      BY <2>1, <2>3, CopiedRight
    <3>3. CASE UNCHANGED <<output, gap>> /\ Flushed(output)
      BY <3>1, <3>3 DEF Flushed, RightIn
    <3>4. ASSUME NEW d \in Copied(t), NEW part \in APart, output' \in {output, With(t, d, part)},
                 gap' = part \/ gap' = "here",
                 kept' = kept \/ kept' = output \/ kept' = output' \/ kept' = <<>>
          PROVE  RightIn(output)' /\ RightIn(kept)'
      <4>1. output' \in {output, With(t, Row(t).id, part)}
        BY <3>2, <3>4
      <4>2. gap # "none" => gap' # "none"
        BY <3>4 DEF APart, NextPart
      <4>3. RightIn(output)'
        <5>1. CASE output' = output
          BY <3>1, <4>2, <5>1 DEF RightIn
        <5>2. CASE output' = With(t, Row(t).id, part)
          BY <3>1, <3>4, <5>2, WithRight DEF RightIn
        <5> QED BY <4>1, <5>1, <5>2
      <4>4. kept' = output' => RightIn(kept)'
        BY <4>3 DEF RightIn
      <4> QED BY <3>1, <3>4, <4>2, <4>3, <4>4, KeptRight
    <3> QED BY <1>3, <3>3, <3>4 DEF Add, AddThrows, Flushed, Broken
  <2> QED BY <2>1, <2>2, <2>3 DEF MergeInv
<1>4. CASE End
  <2>1. /\ prog' = [prog EXCEPT !.ended = "ok"] /\ output' = output /\ blind' = blind /\ gap' = gap
        /\ IF Cli.is = "merge" THEN kept' = output /\ damaged' = FALSE ELSE kept' = kept
    BY <1>4 DEF End, Flushed
  <2>2. prog'.command = prog.command /\ prog'.ended = "ok"
    BY <2>1 DEF Typed
  <2>3. Cli' = Cli /\ ~Running'
    BY <2>2 DEF Cli, Running
  <2>4. Ended("merge")' => Cli.is = "merge"
    BY <2>3 DEF Ended
  <2> QED BY <2>1, <2>3, <2>4 DEF MergeInv, RightIn
<1>5. CASE Kill
  <2>1. prog' = [prog EXCEPT !.ended = "killed"] /\ blind' = blind /\ gap' = gap
    BY <1>5 DEF Kill
  <2>2. prog'.ended = "killed"
    BY <2>1 DEF Typed
  <2>3. ~Running' /\ ~Ended("merge")'
    BY <2>2 DEF Ended, Running
  <2>4. ASSUME ~blind PROVE RightIn(output)' /\ RightIn(kept)'
    <3>1. RightIn(output) /\ RightIn(kept)
      BY <2>4 DEF MergeInv
    <3>2. kept' = kept \/ kept' = output \/ kept' = <<>>
      BY <1>5 DEF Kill, Flushed, Broken
    <3>3. RightIn(kept)'
      BY <2>1, <3>1, <3>2, KeptRight
    <3>4. output' = kept' \/ output' = output
      BY <1>5 DEF Kill
    <3> QED BY <2>1, <3>1, <3>3, <3>4 DEF RightIn
  <2> QED BY <2>1, <2>3, <2>4 DEF MergeInv
<1>6. ASSUME NEW t \in Thread, Open(t) \/ OpenThrows(t) \/ List(t) \/ RowThrows(t) \/ Check(t)
                                 \/ Contained(t) \/ OpenChunk(t) \/ Seen(t) \/ Finish(t)
      PROVE  MergeInv'
  BY <1>1, <1>6 DEF Open, OpenThrows, Throw, List, RowThrows, Check, Contained, OpenChunk, Seen, Finish
<1>7. ASSUME NEW t \in Thread, NEW works \in BOOLEAN, WriteChunk(t, works) PROVE MergeInv'
  BY <1>1, <1>7 DEF WriteChunk
<1>8. CASE UNCHANGED vars
  BY <1>1, <1>8 DEF vars
<1> QED BY <1>2, <1>3, <1>4, <1>5, <1>6, <1>7, <1>8 DEF Next


-----------------------------------------------------------------------------
(***************************************************************************)
(* The files of rbun-ex                                                    *)
(***************************************************************************)

LEMMA NameFacts ==
    ASSUME NEW t \in Thread
    PROVE  IdOf(Name(t)) = Row(t).id
BY DEF IdOf, Name, Row

\* rbun-ex has one thread.
LEMMA OneThread ==
    ASSUME Typed, AtWork, Running, Cli.is = "ex", NEW t \in Thread, NEW u \in Thread,
           thread[t].pc # "none", thread[u].pc # "none"
    PROVE  t = u
<1>1. Stride = 1
  BY CliFacts
<1>2. t \in 1 .. 1 /\ u \in 1 .. 1
  BY <1>1, ThreadFacts
<1> QED BY <1>2

\* What concerns the files of a program that does nothing to them.
LEMMA FilesStay ==
    ASSUME Typed, ExtractInv, Running,
           dir' = dir, unsure' = unsure, seen' = seen, prog' = prog, fails' = fails,
           \A u \in Thread : thread'[u].pc = "write" => thread'[u] = thread[u]
    PROVE  ExtractInv'
<1>1. Cli' = Cli /\ Running' = Running
  BY DEF Cli, Running
<1>2. /\ NoHash' = NoHash /\ Flag("force")' = Flag("force")
  BY <1>1 DEF NoHash, Flag
<1>3. ASSUME NEW u \in Thread, thread'[u].pc = "write", Cli.is = "ex"
      PROVE  /\ Name(u)' \in DOMAIN dir /\ Name(u)' \in unsure /\ Name(u)' \notin seen
             /\ ~NoHash => thread'[u].found = Row(u)'.id
             /\ thread'[u].found = Void => NoHash
  <2>1. thread'[u] = thread[u]
    BY <1>3
  <2>2. Name(u)' = Name(u) /\ Row(u)' = Row(u)
    BY <1>1, <2>1 DEF Name, Row, Flag
  <2> QED BY <1>3, <2>1, <2>2 DEF ExtractInv
<1> QED BY <1>1, <1>2, <1>3 DEF ExtractInv

LEMMA OpenChunkFiles ==
    ASSUME Typed, ProgressInv, ExtractInv, NEW t \in Thread, OpenChunk(t)
    PROVE  ExtractInv'
<1>1. Running /\ InFile(t) /\ Cli.is = "ex" /\ thread[t].k <= Len(thread[t].toc) /\ Name(t) \notin seen
  BY DEF OpenChunk, AtRow, InFile
<1>2. /\ prog' = prog /\ seen' = seen /\ fails' = fails /\ unsure' = unsure \cup {Name(t)}
      /\ dir' = IF Name(t) \in DOMAIN dir THEN dir ELSE Put(dir, Name(t), Void)
  BY DEF OpenChunk, bounds
<1>3. Cli' = Cli /\ Running' = Running
  BY <1>2 DEF Cli, Running
<1>4. NoHash' = NoHash /\ Flag("force")' = Flag("force")
  BY <1>3 DEF NoHash, Flag
<1>5. AtWork /\ thread[t] \in ThreadState /\ Row(t) \in TableRow
  BY <1>1, ThreadFacts DEF ProgressInv
<1>6. PICK c \in FoundBy(t) \ {Bad} : thread' = [thread EXCEPT ![t].pc = "write", ![t].found = c]
  BY DEF OpenChunk
<1>7. thread \in [Thread -> ThreadState]
  BY DEF Typed
<1>8. /\ thread'[t].toc = thread[t].toc /\ thread'[t].k = thread[t].k /\ thread'[t].offset = thread[t].offset
      /\ thread'[t].found = c /\ \A u \in Thread : u # t => thread'[u] = thread[u]
  <2>1. thread' = [thread EXCEPT ![t] = [thread[t] EXCEPT !.pc = "write", !.found = c]]
    BY <1>6, <1>7
  <2>2. thread'[t] = [thread[t] EXCEPT !.pc = "write", !.found = c] /\ \A u \in Thread : u # t => thread'[u] = thread[u]
    BY <1>7, <2>1
  <2> QED BY <1>5, <2>2 DEF ThreadState
<1>9. Name(t)' = Name(t) /\ Row(t)' = Row(t)
  BY <1>3, <1>8 DEF Name, Row, Flag
<1>10. ~NoHash => c = Row(t).id /\ c # Void
  <2>1. Cli.flags \subseteq FlagsOf("ex")
    BY <1>1, CliFacts
  <2>2. ~NoExtract
    BY <1>1, <2>1 DEF NoExtract, Flag, FlagsOf
  <2> QED BY <1>5, <1>6, <2>2, FoundHashed DEF FoundBy
<1>11. ASSUME NEW u \in Thread, u # t PROVE thread'[u].pc # "write"
  <2>1. thread[t].pc # "none"
    BY <1>1 DEF InFile
  <2>2. thread[u].pc = "none"
    BY <1>1, <1>5, <1>11, <2>1, OneThread
  <2> QED BY <1>8, <1>11, <2>2
<1>12. DOMAIN dir' = DOMAIN dir \cup {Name(t)} /\ \A name \in DOMAIN dir : dir'[name] = dir[name]
  BY <1>2 DEF Put
<1>13. \A name \in DOMAIN dir' \ unsure' : dir'[name] = IdOf(name)
  BY <1>2, <1>12 DEF ExtractInv
<1>14. \A u \in Thread : thread'[u].pc = "write" =>
         /\ Name(u)' \in DOMAIN dir' /\ Name(u)' \in unsure' /\ Name(u)' \notin seen'
         /\ ~NoHash => thread'[u].found = Row(u)'.id
         /\ thread'[u].found = Void => NoHash
  <2>1. /\ Name(t)' \in DOMAIN dir' /\ Name(t)' \in unsure' /\ Name(t)' \notin seen'
        /\ ~NoHash => thread'[t].found = Row(t)'.id
        /\ thread'[t].found = Void => NoHash
    BY <1>1, <1>2, <1>8, <1>9, <1>10, <1>12
  <2> QED BY <1>11, <2>1
<1>15. seen' \subseteq DOMAIN dir' /\ (seen \cap unsure = {} => seen' \cap unsure' = {})
  BY <1>1, <1>2, <1>12 DEF ExtractInv, Running
<1> QED BY <1>1, <1>2, <1>3, <1>4, <1>13, <1>14, <1>15 DEF ExtractInv

LEMMA WriteChunkFiles ==
    ASSUME Typed, ProgressInv, ExtractInv, NEW t \in Thread, NEW works \in BOOLEAN, WriteChunk(t, works)
    PROVE  ExtractInv'
<1> DEFINE name == Name(t)
           c == thread[t].found
<1>1. Running /\ InFile(t) /\ Cli.is = "ex" /\ thread[t].k <= Len(thread[t].toc) /\ thread[t].pc = "write"
  BY DEF WriteChunk, InFile, ProgressInv, AtWork, WorkOf
<1>2. prog' = prog /\ seen' = seen \cup {name} /\ thread' = [thread EXCEPT ![t] = Past(t, FALSE)]
  BY DEF WriteChunk
<1>3. Cli' = Cli /\ Running' = Running
  BY <1>2 DEF Cli, Running
<1>4. NoHash' = NoHash /\ Flag("force")' = Flag("force")
  BY <1>3 DEF NoHash, Flag
<1>5. AtWork /\ thread[t] \in ThreadState /\ Row(t).size \in Nat
  BY <1>1, ThreadFacts DEF ProgressInv
<1>6. /\ name \in DOMAIN dir /\ name \in unsure /\ name \notin seen
      /\ ~NoHash => c = Row(t).id
      /\ c = Void => NoHash
  BY <1>1 DEF ExtractInv
<1>7. IdOf(name) = Row(t).id
  BY NameFacts
<1>8. prog.fails <= fails /\ fails \in Nat /\ prog.fails \in Nat
  BY <1>1 DEF ExtractInv, Typed
<1>9. \A u \in Thread : thread'[u].pc # "write"
  <2>1. Past(t, FALSE).pc = "rows"
    BY <1>5, PastFields
  <2>2. thread \in [Thread -> ThreadState]
    BY DEF Typed
  <2>3. thread'[t].pc = "rows" /\ \A u \in Thread : u # t => thread'[u] = thread[u]
    BY <1>2, <2>1, <2>2
  <2>4. ASSUME NEW u \in Thread, u # t PROVE thread'[u].pc # "write"
    <3>1. thread[u].pc = "none"
      BY <1>1, <1>5, <2>4, OneThread
    <3> QED BY <2>3, <2>4, <3>1
  <2> QED BY <2>3, <2>4
<1> HIDE DEF name, c
<1>10. CASE works
  <2>1. /\ dir' = IF c = Void THEN dir ELSE Put(dir, name, c)
        /\ unsure' = (IF NoHash THEN unsure ELSE unsure \ {name}) /\ fails' = fails
    BY <1>10 DEF WriteChunk, c, name
  <2>2. DOMAIN dir' = DOMAIN dir /\ \A other \in DOMAIN dir : other # name => dir'[other] = dir[other]
    BY <1>6, <2>1 DEF Put
  <2>3. ~NoHash => dir'[name] = IdOf(name)
    BY <1>6, <1>7, <2>1 DEF Put
  <2>4. \A other \in DOMAIN dir' \ unsure' : dir'[other] = IdOf(other)
    <3>1. ASSUME NEW other \in DOMAIN dir' \ unsure', other # name PROVE dir'[other] = IdOf(other)
      <4>1. other \in DOMAIN dir \ unsure
        BY <2>1, <2>2, <3>1
      <4> QED BY <2>2, <3>1, <4>1 DEF ExtractInv
    <3>2. name \notin unsure' => dir'[name] = IdOf(name)
      BY <1>6, <2>1, <2>3
    <3> QED BY <3>1, <3>2
  <2>5. seen' \subseteq DOMAIN dir'
    BY <1>1, <1>2, <1>6, <2>2 DEF ExtractInv, Running, name
  <2>6. ~NoHash /\ seen \cap unsure = {} => seen' \cap unsure' = {}
    BY <1>2, <2>1 DEF name
  <2> QED BY <1>1, <1>2, <1>3, <1>4, <1>8, <1>9, <2>1, <2>4, <2>5, <2>6 DEF ExtractInv, Running
<1>11. CASE ~works
  <2>1. dir' \in {dir, Put(dir, name, Part)} /\ unsure' = unsure /\ fails' = fails + 1
    BY <1>11 DEF WriteChunk, name
  <2>2. DOMAIN dir' = DOMAIN dir /\ \A other \in DOMAIN dir : other # name => dir'[other] = dir[other]
    BY <1>6, <2>1 DEF Put
  <2>3. \A other \in DOMAIN dir' \ unsure' : dir'[other] = IdOf(other)
    BY <1>6, <2>1, <2>2 DEF ExtractInv
  <2>4. seen' \subseteq DOMAIN dir'
    BY <1>1, <1>2, <1>6, <2>2 DEF ExtractInv, Running, name
  <2>5. prog'.fails <= fails' /\ fails' # prog'.fails
    BY <1>2, <1>8, <2>1
  <2> QED BY <1>1, <1>3, <1>9, <2>3, <2>4, <2>5 DEF ExtractInv
<1> QED BY <1>10, <1>11


LEMMA ExtractStep ==
    ASSUME Typed, ProgressInv, ExtractInv, [Next]_vars
    PROVE  ExtractInv'
<1>1. ASSUME NEW command \in Commands, Start(command) PROVE ExtractInv'
  <2>1. /\ prog' = [command |-> command, ended |-> "no", fails |-> fails]
        /\ dir' = dir /\ unsure' = unsure /\ fails' = fails /\ seen' = SeenBefore(command)
        /\ \A t \in Thread : thread'[t].pc # "write"
    <3>1. \A i : [Idle EXCEPT !.pc = "next", !.i = i].pc = "next" /\ Idle.pc = "none"
      BY DEF Idle
    <3> QED BY <1>1, <3>1 DEF Start
  <2>2. Cli' = command /\ prog'.ended = "no" /\ prog'.fails = fails /\ fails \in Nat
    BY <2>1 DEF Cli, Typed
  <2>3. seen' \subseteq DOMAIN dir' /\ (Flag("force")' => seen' = {})
    BY <2>1, <2>2 DEF SeenBefore, Flag
  <2> QED BY <2>1, <2>2, <2>3 DEF ExtractInv
<1>2. ASSUME NEW t \in Thread, NEW said, Running, Tell(t, said), UNCHANGED <<disk, cache, files, prog, bounds>>
      PROVE  ExtractInv'
  <2>1. thread \in [Thread -> ThreadState]
    BY DEF Typed
  <2>2. [Idle EXCEPT !.pc = "next", !.i = thread[t].i + Stride].pc = "next"
    BY DEF Idle
  <2>3. \A u \in Thread : thread'[u].pc = "write" => thread'[u] = thread[u]
    BY <1>2, <2>1, <2>2 DEF Tell
  <2>4. dir' = dir /\ unsure' = unsure /\ seen' = seen /\ prog' = prog /\ fails' = fails
    BY <1>2 DEF files, bounds
  <2> QED BY <1>2, <2>3, <2>4, FilesStay
<1>3. ASSUME NEW t \in Thread, Open(t) PROVE ExtractInv'
  <2>1. thread \in [Thread -> ThreadState] /\ Running
    BY <1>3 DEF Typed, Open, AtBundle
  <2>2. PICK toc : thread' = [thread EXCEPT ![t] = [@ EXCEPT !.pc = "rows", !.toc = toc, !.k = 1]]
    BY <1>3 DEF Open
  <2>3. [thread[t] EXCEPT !.pc = "rows", !.toc = toc, !.k = 1].pc = "rows"
    BY <2>1 DEF ThreadState
  <2>4. \A u \in Thread : thread'[u].pc = "write" => thread'[u] = thread[u]
    BY <2>1, <2>2, <2>3
  <2>5. dir' = dir /\ unsure' = unsure /\ seen' = seen /\ prog' = prog /\ fails' = fails
    BY <1>3 DEF Open, files, bounds
  <2> QED BY <2>1, <2>4, <2>5, FilesStay
<1>4. ASSUME NEW t \in Thread, NEW skipped, Running, InFile(t), thread[t].k <= Len(thread[t].toc),
             thread' = [thread EXCEPT ![t] = Past(t, skipped)],
             dir' = dir, unsure' = unsure, seen' = seen, prog' = prog, fails' = fails
      PROVE  ExtractInv'
  <2>1. thread \in [Thread -> ThreadState]
    BY DEF Typed
  <2>2. thread[t] \in ThreadState /\ Row(t).size \in Nat
    BY <1>4, ThreadFacts DEF ProgressInv
  <2>3. Past(t, skipped).pc = "rows"
    BY <2>2, PastFields
  <2>4. \A u \in Thread : thread'[u].pc = "write" => thread'[u] = thread[u]
    BY <1>4, <2>1, <2>3
  <2> QED BY <1>4, <2>4, FilesStay
<1>5. ASSUME NEW t \in Thread, OpenThrows(t) \/ List(t) \/ RowThrows(t) \/ Finish(t) PROVE ExtractInv'
  <2>1. PICK said : Running /\ Tell(t, said) /\ UNCHANGED <<disk, cache, files, prog, bounds>>
    BY <1>5 DEF OpenThrows, List, RowThrows, Finish, Throw, AtBundle, AtRow
  <2> QED BY <1>2, <2>1
<1>6. ASSUME NEW t \in Thread, Check(t) \/ Add(t) \/ Contained(t) \/ Seen(t) PROVE ExtractInv'
  <2>1. /\ Running /\ InFile(t) /\ thread[t].k <= Len(thread[t].toc)
        /\ dir' = dir /\ unsure' = unsure /\ seen' = seen /\ prog' = prog /\ fails' = fails
    BY <1>6 DEF Check, Add, Contained, Seen, AtRow, InFile, files, bounds
  <2>2. PICK skipped : thread' = [thread EXCEPT ![t] = Past(t, skipped)]
    BY <1>6 DEF Check, Add, Contained, Seen
  <2> QED BY <1>4, <2>1, <2>2
<1>7. ASSUME NEW t \in Thread, AddThrows(t) PROVE ExtractInv'
  <2>1. /\ Running /\ Tell(t, "FAIL") /\ Cli.is = "merge" /\ prog' = prog
        /\ dir' = dir /\ unsure' = unsure /\ seen' = seen /\ fails' = fails + 1
    BY <1>7 DEF AddThrows, AtRow, files
  <2>2. fails \in Nat /\ prog.fails \in Nat /\ prog.fails <= fails
    BY <2>1 DEF Typed, ExtractInv
  <2>3. Cli'.is = "merge" /\ prog'.fails <= fails'
    BY <2>1, <2>2 DEF Cli
  <2> QED BY <2>1, <2>3 DEF ExtractInv
<1>8. ASSUME NEW t \in Thread, OpenChunk(t) PROVE ExtractInv'
  BY <1>8, OpenChunkFiles
<1>9. ASSUME NEW t \in Thread, NEW works \in BOOLEAN, WriteChunk(t, works) PROVE ExtractInv'
  BY <1>9, WriteChunkFiles
<1>10. CASE End \/ Kill
  <2>1. /\ prog' \in {[prog EXCEPT !.ended = "ok"], [prog EXCEPT !.ended = "killed"]} /\ Running
        /\ dir' = dir /\ unsure' = unsure /\ seen' = seen /\ fails' = fails
    BY <1>10 DEF End, Kill, files, bounds
  <2>2. prog'.command = prog.command /\ prog'.fails = prog.fails /\ prog'.ended \in {"ok", "killed"}
    BY <2>1 DEF Typed
  <2>3. Cli' = Cli /\ ~Running'
    BY <2>2 DEF Cli, Running
  <2>4. NoHash' = NoHash /\ Flag("force")' = Flag("force")
    BY <2>3 DEF NoHash, Flag
  <2> QED BY <2>1, <2>2, <2>3, <2>4 DEF ExtractInv, Running
<1>11. CASE UNCHANGED vars
  <2>1. prog' = prog /\ dir' = dir /\ unsure' = unsure /\ seen' = seen /\ fails' = fails /\ thread' = thread
    BY <1>11 DEF vars, files, bounds
  <2>2. CASE Running
    BY <2>1, <2>2, FilesStay
  <2>3. CASE ~Running
    <3>1. Cli' = Cli /\ Running' = Running
      BY <2>1 DEF Cli, Running
    <3>2. NoHash' = NoHash /\ Flag("force")' = Flag("force")
      BY <3>1 DEF NoHash, Flag
    <3> QED BY <2>1, <2>3, <3>1, <3>2 DEF ExtractInv
  <2> QED BY <2>2, <2>3
<1> QED BY <1>1, <1>3, <1>5, <1>6, <1>7, <1>8, <1>9, <1>10, <1>11 DEF Next

-----------------------------------------------------------------------------
(***************************************************************************)
(* Theorems                                                                *)
(***************************************************************************)

LEMMA InvInit == Init => IInv
<1> SUFFICES ASSUME Init PROVE IInv
  OBVIOUS
<1>1. Typed /\ ProgressInv
  BY ProgressInit
<1>2. DOMAIN <<>> = {}
  OBVIOUS
<1>3. MergeInv
  BY <1>2 DEF Init, MergeInv, RightIn, Running, Ended
<1>4. ExtractInv
  BY <1>2 DEF Init, ExtractInv, Running
<1> QED BY <1>1, <1>3, <1>4 DEF IInv

LEMMA InvStep == IInv /\ [Next]_vars => IInv'
<1> SUFFICES ASSUME IInv, [Next]_vars PROVE IInv'
  OBVIOUS
<1>1. Typed /\ ProgressInv /\ MergeInv /\ ExtractInv
  BY DEF IInv
<1>2. Typed' /\ ProgressInv'
  BY <1>1, ProgressStep
<1>3. MergeInv' /\ ExtractInv'
  BY <1>1, MergeStep, ExtractStep
<1> QED BY <1>2, <1>3 DEF IInv

LEMMA Invariant == Spec => []IInv
BY InvInit, InvStep, PTL DEF Spec

\* Unless it was told not to extract, what rbun-merge makes, in however many runs, some
\* of them killed, and with failed writes, from whatever inputs, has under each id that
\* chunk, or was put behind the table that a failed write had left.
THEOREM MergesRight == Spec => []MergeRight
<1>1. IInv => MergeRight
  BY DEF IInv, MergeInv, RightIn, MergeRight
<1> QED BY <1>1, Invariant, PTL

\* The verdict on an input of a program that was not killed.
LEMMA VerdictAtEnd ==
    ASSUME IInv, prog.ended = "ok", NEW i \in DOMAIN Cli.ins
    PROVE  Len(told[i]) = 1 /\ RightVerdict(i)
<1>1. Typed /\ ToldOnce /\ Verdicts
  BY DEF IInv, ProgressInv
<1>2. i \in 1 .. Len(Cli.ins)
  BY <1>1, CliFacts
<1>3. Len(told[i]) = 1 /\ Len(told) = Len(Cli.ins)
  BY <1>1, <1>2 DEF ToldOnce
<1>4. i \in DOMAIN told
  BY <1>1, <1>2, <1>3 DEF Typed
<1>5. told[i] # <<>>
  <2> SUFFICES ASSUME told[i] = <<>> PROVE FALSE
    OBVIOUS
  <2>1. Len(<<>>) = 0 /\ Len(told[i]) = 1
    BY <1>3
  <2>2. Len(told[i]) = 0
    BY <2>1, Zenon
  <2> QED BY <2>1, <2>2
<1> QED BY <1>1, <1>3, <1>4, <1>5 DEF Verdicts

\* A merge that ran to its end leaves a cache that can be opened, and of each sound
\* input it said OK! and has an entry for every chunk, or said FAIL! and a write failed,
\* whatever became of the other inputs.
THEOREM MergesAll == Spec => []MergeComplete
<1>1. ASSUME IInv, Ended("merge"), NEW i \in DOMAIN Cli.ins, Sound(disk[Cli.ins[i]])
      PROVE  \/ told[i] = <<"OK">> /\ Ids(disk[Cli.ins[i]]) \subseteq DOMAIN kept
             \/ told[i] = <<"FAIL">> /\ fails > prog.fails
  <2>1. RightVerdict(i)
    BY <1>1, VerdictAtEnd DEF Ended
  <2>2. kept = output
    BY <1>1 DEF IInv, MergeInv
  <2> QED BY <1>1, <2>1, <2>2 DEF RightVerdict, WriteFailed, Input, Ended
<1>2. IInv /\ Ended("merge") => ~damaged
  BY DEF IInv, MergeInv
<1>3. IInv => MergeComplete
  BY <1>1, <1>2 DEF MergeComplete
<1> QED BY <1>3, Invariant, PTL

\* When rbun-ex ended each chunk of a sound bundle has its file, with its data unless it
\* was opened and not written with a checked hash, which --force leaves none of.
THEOREM ExtractsRight == Spec => []ExtractedRight
<1>1. ASSUME IInv, Ended("ex"), NEW i \in DOMAIN Cli.ins, Sound(Input(i))
      PROVE  /\ told[i] = <<"OK">>
             /\ \A k \in DOMAIN Chunks(Input(i)) :
                  /\ NameOf(Chunks(Input(i)), k) \in DOMAIN dir
                  /\ NameOf(Chunks(Input(i)), k) \notin unsure =>
                       dir[NameOf(Chunks(Input(i)), k)] = Chunks(Input(i))[k]
                  /\ (fails = prog.fails /\ Flag("force") /\ ~NoHash) => NameOf(Chunks(Input(i)), k) \notin unsure
  <2> DEFINE table == Chunks(Input(i))
  <2>1. RightVerdict(i)
    BY <1>1, VerdictAtEnd DEF Ended
  <2>2. told[i] = <<"OK">> /\ \A k \in DOMAIN table : NameOf(table, k) \in seen
    BY <1>1, <2>1 DEF RightVerdict, Ended
  <2>3. /\ seen \subseteq DOMAIN dir /\ \A name \in DOMAIN dir \ unsure : dir[name] = IdOf(name)
        /\ (fails = prog.fails /\ Flag("force") /\ ~NoHash) => seen \cap unsure = {}
    BY <1>1 DEF IInv, ExtractInv, Ended
  <2>4. \A k : IdOf(NameOf(table, k)) = table[k]
    BY DEF IdOf, NameOf
  <2> HIDE DEF table
  <2>5. ASSUME NEW k \in DOMAIN table
        PROVE  /\ NameOf(table, k) \in DOMAIN dir
               /\ NameOf(table, k) \notin unsure => dir[NameOf(table, k)] = table[k]
               /\ (fails = prog.fails /\ Flag("force") /\ ~NoHash) => NameOf(table, k) \notin unsure
    BY <2>2, <2>3, <2>4
  <2> QED BY <2>2, <2>5 DEF table
<1>2. IInv => ExtractedRight
  <2> SUFFICES ASSUME IInv PROVE ExtractedRight
    OBVIOUS
  <2> QED BY <1>1 DEF ExtractedRight, Input
<1> QED BY <1>2, Invariant, PTL

\* Whatever the number of its threads, rbun-chk gives each input one verdict, OK! to a
\* sound bundle and, without flags, to no other; rbun-ls lists no bundle with an entry
\* that was overwritten.
THEOREM ChecksRight == Spec => []CheckRight
<1>1. ASSUME IInv, prog.ended = "ok", NEW i \in DOMAIN Cli.ins
      PROVE  /\ Len(told[i]) = 1
             /\ Cli.is = "chk" => /\ Sound(disk[Cli.ins[i]]) => told[i] = <<"OK">>
                                  /\ Cli.flags = {} /\ told[i] = <<"OK">> => Sound(disk[Cli.ins[i]])
             /\ Cli.is = "ls" => (told[i] = <<"OK">> => Entries(disk[Cli.ins[i]]))
  BY <1>1, VerdictAtEnd DEF RightVerdict, Input
<1>2. IInv => CheckRight
  <2> SUFFICES ASSUME IInv PROVE CheckRight
    OBVIOUS
  <2> QED BY <1>1 DEF CheckRight, Entries, Ended
<1> QED BY <1>2, Invariant, PTL
=============================================================================
