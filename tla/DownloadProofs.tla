---------------------------- MODULE DownloadProofs ----------------------------
(***************************************************************************)
(* rman-dl in place, for every list of chunks that do not overlap, every   *)
(* old file and any order of runs, failures and kills: a chunk that is in  *)
(* its place stays there, and "OK!" means that the whole file is right.    *)
(***************************************************************************)
EXTENDS Download, TLAPS

\* What get was not asked for, or has delivered, is in the file; it is what the
\* report rests on, since it looks at nothing but what is still wanted.
WantedOrRight ==
    /\ pc = "verify" => wanted = Dst
    /\ pc = "open" \/ (pc = "get" /\ ~flags.noWrite) =>
         \A d \in Dst \ wanted : In(file, d)

\* A verdict is only there between two runs.
VerdictAtEnd == pc # "idle" => verdict = "none"

IInv == TypeOK /\ WantedOrRight /\ VerdictAtEnd /\ OkMeansRight

-----------------------------------------------------------------------------
(***************************************************************************)
(* Files                                                                   *)
(***************************************************************************)

LEMMA DstType ==
    ASSUME NEW d \in Dst
    PROVE  /\ d.id \in Chunk /\ d.at \in Nat /\ Size[d.id] \in Nat \ {0}
           /\ d.at + Size[d.id] <= Total
           /\ Total \in Nat
<1>1. PICK i \in DOMAIN List : d = List[i]
  BY DEF Dst
<1> DEFINE T == [id : Chunk, at : Nat]
<1>2. List[i] \in T
  <2>1. List \in Seq(T)
    BY ListAssumption
  <2> HIDE DEF T
  <2> QED BY <2>1
<1> QED BY <1>1, <1>2, ListAssumption, SizeAssumption

\* Two chunks of the list have no cell in common.
LEMMA Disjoint ==
    ASSUME NEW d \in Dst, NEW e \in Dst, d # e
    PROVE  d.at + Size[d.id] <= e.at \/ e.at + Size[e.id] <= d.at
<1>1. PICK i \in DOMAIN List : d = List[i]
  BY DEF Dst
<1>2. PICK j \in DOMAIN List : e = List[j]
  BY DEF Dst
<1>3. i \in Nat /\ j \in Nat /\ i # j
  BY <1>1, <1>2, ListAssumption
<1> QED BY <1>1, <1>2, <1>3, ListAssumption

\* The cells of a chunk that are as they were.
LEMMA InKept ==
    ASSUME NEW d \in Dst, NEW f, In(f, d),
           NEW g, g # NoFile, d.at + Size[d.id] <= Len(g),
           \A i \in d.at + 1 .. d.at + Size[d.id] : g[i] = f[i]
    PROVE  In(g, d)
<1>1. d.at \in Nat /\ Size[d.id] \in Nat
  BY DstType
<1>2. \A k \in 1 .. Size[d.id] : d.at + k \in d.at + 1 .. d.at + Size[d.id]
  BY <1>1
<1> QED BY <1>2 DEF In

\* ftruncate makes the file as long as it should be, and keeps what fits.
LEMMA ResizedRight ==
    ASSUME NEW f \in {NoFile} \cup Seq(Cell)
    PROVE  /\ Resized(f) \in Seq(Cell) /\ Len(Resized(f)) = Total
           /\ Resized(f) # NoFile
           /\ \A d \in Dst : In(f, d) => In(Resized(f), d)
<1> DEFINE g == Resized(f)
<1>0. Total \in Nat /\ Zero \in Cell
  BY ListAssumption DEF Cell
<1>1. \A i \in 1 .. Total : (IF f # NoFile /\ i \in DOMAIN f THEN f[i] ELSE Zero) \in Cell
  <2> SUFFICES ASSUME NEW i \in 1 .. Total, f # NoFile, i \in DOMAIN f PROVE f[i] \in Cell
    BY <1>0
  <2> QED OBVIOUS
<1>2. g \in Seq(Cell) /\ Len(g) = Total
  BY <1>0, <1>1 DEF Resized
<1>3. g # NoFile
  BY <1>2, FilesAssumption
<1>4. ASSUME NEW d \in Dst, In(f, d) PROVE In(g, d)
  <2>1. /\ d.at \in Nat /\ Size[d.id] \in Nat /\ d.at + Size[d.id] <= Total
        /\ d.at + Size[d.id] <= Len(f) /\ f \in Seq(Cell) /\ f # NoFile
    BY <1>4, DstType DEF In
  <2>2. \A i \in d.at + 1 .. d.at + Size[d.id] : i \in 1 .. Total /\ i \in DOMAIN f
    BY <1>0, <2>1
  <2>3. \A i \in d.at + 1 .. d.at + Size[d.id] : g[i] = f[i]
    BY <2>1, <2>2 DEF Resized
  <2> HIDE DEF g
  <2> QED BY <1>2, <1>3, <1>4, <2>1, <2>3, InKept
<1> QED BY <1>2, <1>3, <1>4

\* A write of a chunk, whole or cut short, harms none; a whole one puts it there.
LEMMA WriteRight ==
    ASSUME file \in Seq(Cell), Len(file) = Total,
           NEW d \in Dst, NEW n \in 0 .. Size[d.id]
    PROVE  /\ WriteTo(d, n) \in Seq(Cell) /\ Len(WriteTo(d, n)) = Total
           /\ WriteTo(d, n) # NoFile
           /\ \A e \in Dst : In(file, e) => In(WriteTo(d, n), e)
           /\ n = Size[d.id] => In(WriteTo(d, n), d)
<1> DEFINE g == WriteTo(d, n)
<1>0. /\ d.id \in Chunk /\ d.at \in Nat /\ Size[d.id] \in Nat /\ n \in Nat
      /\ d.at + Size[d.id] <= Total /\ Total \in Nat /\ DOMAIN file = 1 .. Total
  BY DstType
<1>1. \A k \in 1 .. Size[d.id] :
         Data(d.id)[k] = [id |-> d.id, at |-> k] /\ Data(d.id)[k] \in Cell
  BY <1>0 DEF Data, Cell
<1>2. \A i \in 1 .. Total :
         (IF i \in d.at + 1 .. d.at + n THEN Data(d.id)[i - d.at] ELSE file[i]) \in Cell
  <2> SUFFICES ASSUME NEW i \in 1 .. Total, i \in d.at + 1 .. d.at + n
               PROVE  Data(d.id)[i - d.at] \in Cell
    BY <1>0
  <2>1. i - d.at \in 1 .. Size[d.id]
    BY <1>0
  <2> QED BY <1>1, <2>1
<1>3. g \in Seq(Cell) /\ Len(g) = Total
  BY <1>0, <1>2 DEF WriteTo
<1>4. g # NoFile
  BY <1>3, FilesAssumption
<1>5. \A i \in 1 .. Total :
         g[i] = IF i \in d.at + 1 .. d.at + n THEN Data(d.id)[i - d.at] ELSE file[i]
  BY <1>0 DEF WriteTo
<1> HIDE DEF g
<1>6. ASSUME NEW e \in Dst, In(file, e) PROVE In(g, e)
  <2>1. e.at \in Nat /\ Size[e.id] \in Nat /\ e.at + Size[e.id] <= Total
    BY DstType
  <2>2. CASE e = d
    <3>1. \A k \in 1 .. Size[e.id] : file[e.at + k] = Data(e.id)[k]
      BY <1>6 DEF In
    <3>2. ASSUME NEW k \in 1 .. Size[d.id] PROVE g[d.at + k] = Data(d.id)[k]
      <4> DEFINE i == d.at + k
      <4>1. i \in 1 .. Total /\ i - d.at = k
        BY <1>0
      <4> HIDE DEF i
      <4>2. g[i] = Data(d.id)[k] \/ g[i] = file[i]
        BY <1>5, <4>1
      <4>3. file[i] = Data(d.id)[k]
        BY <2>2, <3>1 DEF i
      <4> QED BY <4>2, <4>3 DEF i
    <3> QED BY <1>3, <1>4, <2>1, <2>2, <3>2 DEF In
  <2>3. CASE e # d
    <3>1. \A i \in e.at + 1 .. e.at + Size[e.id] :
             i \in 1 .. Total /\ i \notin d.at + 1 .. d.at + n
      <4>1. d.at + Size[d.id] <= e.at \/ e.at + Size[e.id] <= d.at
        BY <2>3, Disjoint
      <4> QED BY <1>0, <2>1, <4>1
    <3>2. \A i \in e.at + 1 .. e.at + Size[e.id] : g[i] = file[i]
      BY <1>5, <3>1
    <3> QED BY <1>3, <1>4, <1>6, <2>1, <3>2, InKept
  <2> QED BY <2>2, <2>3
<1>7. ASSUME n = Size[d.id] PROVE In(g, d)
  <2>1. ASSUME NEW k \in 1 .. Size[d.id] PROVE g[d.at + k] = Data(d.id)[k]
    <3> DEFINE i == d.at + k
    <3>1. i \in 1 .. Total /\ i \in d.at + 1 .. d.at + n /\ i - d.at = k
      BY <1>0, <1>7
    <3> HIDE DEF i
    <3>2. g[i] = Data(d.id)[k]
      BY <1>5, <3>1
    <3> QED BY <3>2 DEF i
  <2> QED BY <1>0, <1>3, <1>4, <2>1 DEF In
<1> QED BY <1>3, <1>4, <1>6, <1>7 DEF g

-----------------------------------------------------------------------------
(***************************************************************************)
(* The invariant                                                           *)
(***************************************************************************)

LEMMA InitInv == Init => IInv
BY FilesAssumption
   DEF Init, IInv, TypeOK, WantedOrRight, VerdictAtEnd, OkMeansRight

\* The file that a step which writes leaves.
LEMMA Writes ==
    ASSUME TypeOK, pc = "get", ~flags.noWrite,
           NEW d \in Dst, NEW n \in 0 .. Size[d.id], file' = WriteTo(d, n)
    PROVE  /\ file' \in Seq(Cell) /\ Len(file') = Total /\ file' # NoFile
           /\ \A e \in Dst : In(file, e) => In(file', e)
           /\ n = Size[d.id] => In(file', d)
<1>1. file \in Seq(Cell) /\ Len(file) = Total
  BY DEF TypeOK
<1> QED BY <1>1, WriteRight

LEMMA NextInv == IInv /\ [Next]_vars => IInv'
<1> SUFFICES ASSUME IInv, [Next]_vars PROVE IInv'
  OBVIOUS
<1> USE DEF IInv
<1>0. ASSUME NEW d \in Dst PROVE Size[d.id] \in Nat /\ Size[d.id] \in 0 .. Size[d.id]
  BY DstType
<1>1. CASE Run
  BY <1>1 DEF Run, TypeOK, WantedOrRight, VerdictAtEnd, OkMeansRight
<1>2. CASE Verify
  <2>1. \A d \in Dst \ wanted' : In(file, d)
    BY <1>2 DEF Verify, WantedOrRight, Good
  <2> QED BY <1>2, <2>1 DEF Verify, TypeOK, WantedOrRight, VerdictAtEnd, OkMeansRight
<1>3. CASE Open
  <2>1. file \in {NoFile} \cup Seq(Cell)
    BY DEF TypeOK
  <2>2. CASE flags.noWrite
    BY <1>3, <2>2 DEF Open, TypeOK, WantedOrRight, VerdictAtEnd, OkMeansRight
  <2>3. CASE ~flags.noWrite
    <3>1. file' = Resized(file)
      BY <1>3, <2>3 DEF Open
    <3>2. /\ file' \in Seq(Cell) /\ Len(file') = Total /\ file' # NoFile
          /\ \A d \in Dst : In(file, d) => In(file', d)
      BY <2>1, <3>1, ResizedRight
    <3> QED BY <1>3, <3>2 DEF Open, TypeOK, WantedOrRight, VerdictAtEnd, OkMeansRight
  <2> QED BY <2>2, <2>3
<1>4. ASSUME NEW d \in Dst, Deliver(d) PROVE IInv'
  <2>1. /\ pc = "get" /\ pc' = pc /\ flags' = flags /\ verdict' = verdict
        /\ wanted' = wanted \ {d}
    BY <1>4 DEF Deliver
  <2>2. written' \subseteq Dst /\ returned' = returned
    BY <1>4 DEF Deliver, Get!Deliver, TypeOK
  <2>3. CASE flags.noWrite
    BY <1>4, <2>1, <2>2, <2>3 DEF Deliver, TypeOK, WantedOrRight, VerdictAtEnd, OkMeansRight
  <2>4. CASE ~flags.noWrite
    <3>1. file' = WriteTo(d, Size[d.id])
      BY <1>4, <2>4 DEF Deliver
    <3>2. /\ file' \in Seq(Cell) /\ Len(file') = Total /\ file' # NoFile
          /\ \A e \in Dst : In(file, e) => In(file', e)
          /\ In(file', d)
      BY <1>0, <2>1, <2>4, <3>1, Writes
    <3> QED BY <2>1, <2>2, <2>4, <3>2 DEF TypeOK, WantedOrRight, VerdictAtEnd, OkMeansRight
  <2> QED BY <2>3, <2>4
<1>5. ASSUME NEW d \in Dst, NEW n \in 0 .. Size[d.id], DeliverFails(d, n) PROVE IInv'
  <2>1. /\ file' \in Seq(Cell) /\ Len(file') = Total /\ file' # NoFile
        /\ \A e \in Dst : In(file, e) => In(file', e)
    BY <1>5, Writes DEF DeliverFails
  <2> QED BY <1>5, <2>1 DEF DeliverFails, TypeOK, WantedOrRight, VerdictAtEnd, OkMeansRight
<1>6. CASE GetReturns
  BY <1>6 DEF GetReturns, Get!Return, TypeOK, WantedOrRight, VerdictAtEnd, OkMeansRight
<1>7. CASE Report
  <2>1. wanted = {} => \A d \in Dst \ wanted : d \in Dst
    OBVIOUS
  <2> QED BY <1>7, <2>1 DEF Report, TypeOK, WantedOrRight, VerdictAtEnd, OkMeansRight
<1>8. CASE Kill
  <2>1. CASE UNCHANGED file
    BY <1>8, <2>1 DEF Kill, TypeOK, WantedOrRight, VerdictAtEnd, OkMeansRight
  <2>2. ASSUME pc = "get", ~flags.noWrite,
               NEW d \in wanted, NEW n \in 1 .. Size[d.id] - 1, file' = WriteTo(d, n)
        PROVE  IInv'
    <3>1. d \in Dst /\ n \in 0 .. Size[d.id]
      BY <1>0, <2>2 DEF TypeOK
    <3>2. file' \in Seq(Cell)
      BY <2>2, <3>1, Writes
    <3> QED BY <1>8, <3>2 DEF Kill, TypeOK, WantedOrRight, VerdictAtEnd, OkMeansRight
  <2> QED BY <1>8, <2>1, <2>2 DEF Kill
<1>9. CASE UNCHANGED vars
  BY <1>9 DEF vars, TypeOK, WantedOrRight, VerdictAtEnd, OkMeansRight
<1> QED BY <1>1, <1>2, <1>3, <1>4, <1>5, <1>6, <1>7, <1>8, <1>9 DEF Next

LEMMA Invariant == Spec => []IInv
BY InitInv, NextInv, PTL DEF Spec

\* "OK!" means that the file is the one of the manifest, although the report
\* looks at nothing but the chunks that are still wanted: whatever was on the
\* disk before, and wherever earlier runs failed or were killed.
THEOREM OkIsRight == Spec => []OkMeansRight
BY Invariant, PTL DEF IInv

-----------------------------------------------------------------------------
LEMMA StepKeeps ==
    ASSUME TypeOK, Next
    PROVE  \A d \in Dst : In(file, d) => In(file', d)
<1>0. ASSUME NEW d \in Dst PROVE Size[d.id] \in Nat /\ Size[d.id] \in 0 .. Size[d.id]
  BY DstType
<1>1. CASE file' = file
  BY <1>1
<1>2. ASSUME file' = Resized(file) PROVE \A d \in Dst : In(file, d) => In(file', d)
  BY <1>2, ResizedRight DEF TypeOK
<1>3. ASSUME pc = "get", ~flags.noWrite,
             NEW e \in Dst, NEW n \in 0 .. Size[e.id], file' = WriteTo(e, n)
      PROVE  \A d \in Dst : In(file, d) => In(file', d)
  BY <1>3, Writes
<1>4. CASE Open
  BY <1>1, <1>2, <1>4 DEF Open
<1>5. ASSUME NEW e \in Dst, Deliver(e) PROVE \A d \in Dst : In(file, d) => In(file', d)
  BY <1>0, <1>1, <1>3, <1>5 DEF Deliver
<1>6. ASSUME NEW e \in Dst, NEW n \in 0 .. Size[e.id], DeliverFails(e, n)
      PROVE  \A d \in Dst : In(file, d) => In(file', d)
  BY <1>3, <1>6 DEF DeliverFails
<1>7. CASE Kill
  <2>1. ASSUME NEW e \in wanted, NEW n \in 1 .. Size[e.id] - 1
        PROVE  e \in Dst /\ n \in 0 .. Size[e.id]
    BY <1>0, <2>1 DEF TypeOK
  <2> QED BY <1>1, <1>3, <1>7, <2>1 DEF Kill
<1>8. CASE Run \/ Verify \/ GetReturns \/ Report
  BY <1>1, <1>8 DEF Run, Verify, GetReturns, Report
<1> QED BY <1>4, <1>5, <1>6, <1>7, <1>8 DEF Next

\* No resize, no write of another chunk, no write cut short and no later run
\* destroys a chunk that is in its place, because the chunks of a file do not
\* overlap and a write never goes behind the end of its chunk.
THEOREM PlacedStays == Spec => RightStays
<1>1. IInv /\ [Next]_vars => [\A d \in Dst : In(file, d) => In(file, d)']_vars
  BY StepKeeps DEF IInv
<1> QED BY <1>1, Invariant, PTL DEF Spec, RightStays
=============================================================================
