-------------------------- MODULE ReportDiffProofs --------------------------
(***************************************************************************)
(* DiffReports on any files, edit scripts and reports, with any number of  *)
(* goroutines at a time.                                                   *)
(*                                                                         *)
(* First the lines: what comes before a gap, which old lines a hunk stands *)
(* for, that no line belongs to two hunks.  Then the walk of               *)
(* diffReportsList, one iteration at a time: InSync says that its two line *)
(* counters are at the same place of the edit script, that what it has     *)
(* reported is new, and, where nothing was deleted, that it has missed     *)
(* nothing.  An insertion before the first line, which git numbers as line *)
(* 0, puts the counters out of step for good: WalkSorted is what is left   *)
(* then.  Last the goroutines: IInv says whose reports the shared list     *)
(* holds.                                                                  *)
(***************************************************************************)
EXTENDS ReportDiff, FoldLemmas

-----------------------------------------------------------------------------
(* Line numbers.                                                           *)

(* Sums over the gaps before gap i, one gap after the other.               *)
LEMMA SumBeforeSteps ==
    ASSUME NEW K \in Nat, NEW g \in [0..K -> Nat]
    PROVE  /\ SumBefore(g, 0) = 0
           /\ \A i \in 0..K : SumBefore(g, i + 1) = SumBefore(g, i) + g[i]
           /\ \A i \in 0..(K + 1) : SumBefore(g, i) \in Nat
<1>1. SumBefore(g, 0) = 0
  <2>1. 0..(0 - 1) = {} /\ IsFiniteSet({})
    BY FS_EmptySet
  <2>2. SumFunctionOnSet(g, {}) = 0
    BY <2>1, SumTakeOut
  <2> QED BY <2>1, <2>2 DEF SumBefore
<1>2. ASSUME NEW i \in 0..K
      PROVE  /\ SumBefore(g, i + 1) = g[i] + SumBefore(g, i)
             /\ SumBefore(g, i + 1) \in Int
  <2>1. IsFiniteSet(0..i) /\ \A x \in 0..i : g[x] \in Int
    <3>1. 0 \in Int /\ i \in Int
      OBVIOUS
    <3>2. IsFiniteSet(0..i)
      BY <3>1, FS_Interval
    <3>3. ASSUME NEW x \in 0..i PROVE g[x] \in Int
      <4>1. x \in 0..K
        BY <3>3
      <4> QED BY <4>1
    <3> QED BY <3>2, <3>3
  <2>2. /\ SumFunctionOnSet(g, 0..i) = g[i] + SumFunctionOnSet(g, (0..i) \ {i})
        /\ SumFunctionOnSet(g, 0..i) \in Int
    <3> DEFINE T == 0..i
    <3>1. IsFiniteSet(T) /\ (\A x \in T : g[x] \in Int) /\ i \in T
      BY <2>1
    <3> HIDE DEF T
    <3>2. SumFunctionOnSet(g, T) = g[i] + SumFunctionOnSet(g, T \ {i}) /\ SumFunctionOnSet(g, T) \in Int
      BY <3>1, SumTakeOut
    <3> QED BY <3>2 DEF T
  <2>3. (0..i) \ {i} = 0..(i - 1)
    OBVIOUS
  <2>4. (i + 1) - 1 = i
    OBVIOUS
  <2> QED BY <2>2, <2>3, <2>4 DEF SumBefore
<1> DEFINE P == {n \in Nat : n <= K + 1 => SumBefore(g, n) \in Nat}
<1>3. 0 \in P
  BY <1>1
<1>4. ASSUME NEW n \in P PROVE n + 1 \in P
  <2>1. CASE n <= K
    <3>1. n \in 0..K /\ SumBefore(g, n) \in Nat /\ g[n] \in Nat
      BY <2>1
    <3>2. SumBefore(g, n + 1) \in Nat
      BY <3>1, <1>2
    <3> QED BY <3>2
  <2>2. CASE ~(n <= K)
    BY <2>2
  <2> QED BY <2>1, <2>2
<1>5. P = Nat
  <2>1. P \in SUBSET Nat
    OBVIOUS
  <2> HIDE DEF P
  <2> QED BY <1>3, <1>4, <2>1, SetInduction
<1>6. \A i \in 0..(K + 1) : SumBefore(g, i) \in Nat
  BY <1>5
<1>7. \A i \in 0..K : SumBefore(g, i + 1) = SumBefore(g, i) + g[i]
  BY <1>2, <1>6
<1> QED BY <1>1, <1>6, <1>7

(* Lines of one version before gap i, g of them in the gaps.               *)
LineBefore(g, i) == i + SumBefore(g, i)

(* The kept line after a gap, and that gaps do not overlap.                *)
LEMMA LinesBefore ==
    ASSUME NEW K \in Nat, NEW g \in [0..K -> Nat]
    PROVE  /\ LineBefore(g, 0) = 0
           /\ \A i \in 0..K : LineBefore(g, i + 1) = LineBefore(g, i) + g[i] + 1
           /\ \A i \in 0..(K + 1) : LineBefore(g, i) \in Nat
           /\ \A i \in 0..K, j \in 0..(K + 1) :
                 i < j => LineBefore(g, i) + g[i] + 1 <= LineBefore(g, j)
<1>1. LineBefore(g, 0) = 0
  BY SumBeforeSteps DEF LineBefore
<1>2. \A i \in 0..(K + 1) : LineBefore(g, i) \in Nat
  BY SumBeforeSteps DEF LineBefore
<1>3. ASSUME NEW i \in 0..K
      PROVE  LineBefore(g, i + 1) = LineBefore(g, i) + g[i] + 1
  <2>1. SumBefore(g, i + 1) = SumBefore(g, i) + g[i] /\ SumBefore(g, i) \in Nat /\ g[i] \in Nat
    BY SumBeforeSteps
  <2> QED BY <2>1 DEF LineBefore
<1>4. ASSUME NEW i \in 0..K
      PROVE  \A j \in 0..(K + 1) : i < j => LineBefore(g, i) + g[i] + 1 <= LineBefore(g, j)
  <2> DEFINE P == {n \in Nat : i + 1 + n <= K + 1 => LineBefore(g, i) + g[i] + 1 <= LineBefore(g, i + 1 + n)}
  <2>1. 0 \in P
    <3>1. LineBefore(g, i + 1 + 0) = LineBefore(g, i) + g[i] + 1
      BY <1>3
    <3>2. LineBefore(g, i) \in Nat /\ g[i] \in Nat
      BY <1>2
    <3> QED BY <3>1, <3>2
  <2>2. ASSUME NEW n \in P PROVE n + 1 \in P
    <3> SUFFICES ASSUME i + 1 + (n + 1) <= K + 1
                 PROVE  LineBefore(g, i) + g[i] + 1 <= LineBefore(g, i + 1 + (n + 1))
      OBVIOUS
    <3> DEFINE m == i + 1 + n
    <3>1. m \in 0..K /\ m + 1 = i + 1 + (n + 1) /\ m <= K + 1
      OBVIOUS
    <3>2. LineBefore(g, i) + g[i] + 1 <= LineBefore(g, m)
      BY <3>1
    <3> HIDE DEF m, P
    <3>3. LineBefore(g, m + 1) = LineBefore(g, m) + g[m] + 1
      BY <1>3, <3>1
    <3>4. LineBefore(g, m) \in Nat /\ g[m] \in Nat /\ LineBefore(g, i) \in Nat /\ g[i] \in Nat
      BY <1>2, <3>1
    <3>5. LineBefore(g, i) + g[i] + 1 <= LineBefore(g, m + 1)
      <4>1. \A u, v, w, x \in Nat : u + v + 1 <= w => u + v + 1 <= w + x + 1
        OBVIOUS
      <4>2. LineBefore(g, i) + g[i] + 1 <= LineBefore(g, m) + g[m] + 1
        BY <3>2, <3>4, <4>1
      <4> QED BY <3>3, <4>2
    <3> QED BY <3>1, <3>5
  <2>3. P = Nat
    <3>1. P \in SUBSET Nat
      OBVIOUS
    <3> HIDE DEF P
    <3> QED BY <2>1, <2>2, <3>1, SetInduction
  <2>4. ASSUME NEW j \in 0..(K + 1), i < j
        PROVE  LineBefore(g, i) + g[i] + 1 <= LineBefore(g, j)
    <3> DEFINE n == j - i - 1
    <3>1. n \in Nat /\ i + 1 + n = j
      BY <2>4
    <3>2. n \in P
      BY <2>3, <3>1
    <3> HIDE DEF n
    <3> QED BY <3>1, <3>2
  <2> QED BY <2>4
<1> QED BY <1>1, <1>2, <1>3, <1>4

(* The lines of the two versions.                                          *)
LEMMA FileLines ==
    ASSUME NEW s, InputType(s)
    PROVE  /\ OldBefore(s, 0) = 0 /\ NewBefore(s, 0) = 0
           /\ \A i \in 0..s.kept : /\ OldBefore(s, i + 1) = OldBefore(s, i) + s.del[i] + 1
                                   /\ NewBefore(s, i + 1) = NewBefore(s, i) + s.add[i] + 1
           /\ \A i \in 0..(s.kept + 1) : OldBefore(s, i) \in Nat /\ NewBefore(s, i) \in Nat
           /\ \A i \in 0..s.kept, j \in 0..(s.kept + 1) :
                 i < j => /\ OldBefore(s, i) + s.del[i] + 1 <= OldBefore(s, j)
                          /\ NewBefore(s, i) + s.add[i] + 1 <= NewBefore(s, j)
<1>1. s.kept \in Nat /\ s.del \in [0..s.kept -> Nat] /\ s.add \in [0..s.kept -> Nat]
  BY DEF InputType
<1>2. \A i : OldBefore(s, i) = LineBefore(s.del, i) /\ NewBefore(s, i) = LineBefore(s.add, i)
  BY DEF OldBefore, NewBefore, LineBefore
<1>3. /\ LineBefore(s.del, 0) = 0
      /\ \A i \in 0..s.kept : LineBefore(s.del, i + 1) = LineBefore(s.del, i) + s.del[i] + 1
      /\ \A i \in 0..(s.kept + 1) : LineBefore(s.del, i) \in Nat
      /\ \A i \in 0..s.kept, j \in 0..(s.kept + 1) :
            i < j => LineBefore(s.del, i) + s.del[i] + 1 <= LineBefore(s.del, j)
  BY <1>1, LinesBefore
<1>4. /\ LineBefore(s.add, 0) = 0
      /\ \A i \in 0..s.kept : LineBefore(s.add, i + 1) = LineBefore(s.add, i) + s.add[i] + 1
      /\ \A i \in 0..(s.kept + 1) : LineBefore(s.add, i) \in Nat
      /\ \A i \in 0..s.kept, j \in 0..(s.kept + 1) :
            i < j => LineBefore(s.add, i) + s.add[i] + 1 <= LineBefore(s.add, j)
  BY <1>1, LinesBefore
<1> QED BY <1>2, <1>3, <1>4

(* A kept line has one old line, the added lines of a gap have none.       *)
LEMMA KeptLine ==
    ASSUME NEW s, InputType(s), NEW k \in KeptLines(s)
    PROVE  OldLineOf(s, NewBefore(s, k)) = OldBefore(s, k)
<1>1. k \in 1..s.kept /\ s.kept \in Nat /\ s.add \in [0..s.kept -> Nat]
  BY DEF KeptLines, InputType
<1>2. \A j \in 1..s.kept : NewBefore(s, j) = NewBefore(s, k) => j = k
  <2> SUFFICES ASSUME NEW j \in 1..s.kept, NewBefore(s, j) = NewBefore(s, k), j # k PROVE FALSE
    OBVIOUS
  <2>1. /\ s.add[j] \in Nat /\ s.add[k] \in Nat /\ NewBefore(s, j) \in Nat /\ NewBefore(s, k) \in Nat
        /\ j < k => NewBefore(s, j) + s.add[j] + 1 <= NewBefore(s, k)
        /\ k < j => NewBefore(s, k) + s.add[k] + 1 <= NewBefore(s, j)
    <3>1. j \in 0..s.kept /\ k \in 0..s.kept /\ j \in 0..(s.kept + 1) /\ k \in 0..(s.kept + 1)
      BY <1>1
    <3> QED BY <1>1, <3>1, FileLines
  <2> QED BY <1>1, <2>1
<1>3. (CHOOSE j \in KeptLines(s) : NewBefore(s, j) = NewBefore(s, k)) = k
  BY <1>1, <1>2 DEF KeptLines
<1> QED BY <1>3 DEF OldLineOf

(* An added line has no old line, which DiffReports writes as 0.           *)
LEMMA AddedLine ==
    ASSUME NEW s, InputType(s), NEW i \in 0..s.kept, NEW l \in Nat,
           NewBefore(s, i) < l, l <= NewBefore(s, i) + s.add[i]
    PROVE  OldLineOf(s, l) = 0
<1>1. s.kept \in Nat /\ s.add \in [0..s.kept -> Nat]
  BY DEF InputType
<1>2. ASSUME NEW k \in 1..s.kept, NewBefore(s, k) = l PROVE FALSE
  <2>1. /\ s.add[i] \in Nat /\ s.add[k] \in Nat /\ NewBefore(s, i) \in Nat /\ NewBefore(s, k) \in Nat
        /\ i < k => NewBefore(s, i) + s.add[i] + 1 <= NewBefore(s, k)
        /\ k < i => NewBefore(s, k) + s.add[k] + 1 <= NewBefore(s, i)
    <3>1. i \in 0..s.kept /\ k \in 0..s.kept /\ i \in 0..(s.kept + 1) /\ k \in 0..(s.kept + 1)
      BY <1>1
    <3> QED BY <1>1, <3>1, FileLines
  <2> QED BY <1>1, <1>2, <2>1
<1> QED BY <1>2 DEF OldLineOf, KeptLines

-----------------------------------------------------------------------------
(* The hunks.  The old lines that a hunk stands for: those deleted, or the *)
(* kept line before an insertion.                                          *)
Covered(s, i) ==
    IF s.del[i] > 0 THEN (OldBefore(s, i) + 1)..(OldBefore(s, i) + s.del[i])
    ELSE {OldBefore(s, i)}

Edited(s) == {i \in 0..s.kept : s.del[i] + s.add[i] > 0}

(* The two ranges of a hunk as ParseLineRange reads them: the old one      *)
(* covers the hunk's old lines and ends with the gap, the new one has      *)
(* length 0 only for a pure deletion.                                      *)
LEMMA HunkSides ==
    ASSUME NEW s, InputType(s), NEW i \in Edited(s)
    PROVE  LET h == HunkOf(s, i) IN
           /\ h.old.From..h.old.To = Covered(s, i)
           /\ h.old.To = OldBefore(s, i) + s.del[i]
           /\ (h.new.HaveRange /\ h.new.Range = 0) <=> s.add[i] = 0
           /\ s.add[i] > 0 => h.new.To = NewBefore(s, i) + s.add[i]
<1> DEFINE h == HunkOf(s, i)
           d == s.del[i]
           n == s.add[i]
           o == OldBefore(s, i)
           w == NewBefore(s, i)
<1>1. d \in Nat /\ n \in Nat /\ d + n > 0 /\ o \in Nat /\ w \in Nat
  <2>1. i \in 0..s.kept /\ s.kept \in Nat /\ s.del[i] \in Nat /\ s.add[i] \in Nat /\ s.del[i] + s.add[i] > 0
    BY DEF InputType, Edited
  <2>2. i \in 0..(s.kept + 1)
    BY <2>1
  <2> QED BY <2>1, <2>2, FileLines
<1>2. /\ h.old.From = o + (IF d > 0 THEN 1 ELSE 0)
      /\ h.old.To = o + (IF d > 0 THEN 1 ELSE 0) + (IF d > 0 THEN d - 1 ELSE 0)
      /\ h.new.To = w + (IF n > 0 THEN 1 ELSE 0) + (IF n > 0 THEN n - 1 ELSE 0)
      /\ h.new.HaveRange <=> n # 1
      /\ h.new.Range = IF n > 0 THEN n - 1 ELSE 0
  BY DEF HunkOf, ParseLineRange
<1>3. Covered(s, i) = IF d > 0 THEN (o + 1)..(o + d) ELSE {o}
  BY DEF Covered
<1> HIDE DEF h, d, n, o, w
<1>4. h.old.From..h.old.To = Covered(s, i) /\ h.old.To = o + d
  <2>1. CASE d > 0
    <3>1. h.old.From = o + 1 /\ h.old.To = o + d
      BY <1>1, <1>2, <2>1
    <3> QED BY <3>1, <1>3, <2>1
  <2>2. CASE d = 0
    <3>1. h.old.From = o /\ h.old.To = o
      BY <1>1, <1>2, <2>2
    <3>2. Covered(s, i) = {o}
      BY <1>3, <2>2
    <3>3. o..o = {o}
      BY <1>1
    <3> QED BY <3>1, <3>2, <3>3, <2>2, <1>1
  <2> QED BY <2>1, <2>2, <1>1
<1>5. (h.new.HaveRange /\ h.new.Range = 0) <=> n = 0
  <2>1. CASE n = 0
    <3>1. n # 1 /\ h.new.Range = 0
      BY <1>2, <2>1
    <3> QED BY <1>2, <2>1, <3>1, Zenon
  <2>2. CASE n = 1
    <3>1. ~(n # 1) /\ n # 0
      BY <2>2
    <3> QED BY <1>2, <3>1, Zenon
  <2>3. CASE n > 1
    <3>1. h.new.Range = n - 1 /\ n - 1 # 0 /\ n # 0
      BY <1>1, <1>2, <2>3
    <3> QED BY <3>1
  <2> QED BY <1>1, <2>1, <2>2, <2>3
<1>6. n > 0 => h.new.To = w + n
  BY <1>1, <1>2
<1> QED BY <1>4, <1>5, <1>6 DEF h, d, n, o, w

(* Hunks of different gaps stand for different old lines.                  *)
LEMMA HunkEdges ==
    ASSUME NEW s, InputType(s), NEW i \in 0..s.kept, NEW x \in Covered(s, i)
    PROVE  /\ x \in Nat
           /\ OldBefore(s, i) <= x /\ x <= OldBefore(s, i) + s.del[i]
           /\ s.del[i] > 0 => OldBefore(s, i) < x
           /\ s.del[i] = 0 => x = OldBefore(s, i)
<1>1. s.del[i] \in Nat /\ OldBefore(s, i) \in Nat
  <2>1. i \in 0..(s.kept + 1) /\ s.del[i] \in Nat
    BY DEF InputType
  <2> QED BY <2>1, FileLines
<1> QED BY <1>1 DEF Covered

(* An old line belongs to one hunk at most.                                *)
LEMMA HunksApart ==
    ASSUME NEW s, InputType(s), NEW i \in 0..s.kept, NEW j \in 0..s.kept,
           NEW x \in Covered(s, i), x \in Covered(s, j)
    PROVE  i = j
<1>1. ASSUME NEW k \in 0..s.kept, NEW m \in 0..s.kept, x \in Covered(s, k), x \in Covered(s, m), k < m
      PROVE  FALSE
  <2>1. x \in Nat /\ x <= OldBefore(s, k) + s.del[k] /\ OldBefore(s, m) <= x
    BY <1>1, HunkEdges
  <2>2. m \in 0..(s.kept + 1) /\ k \in 0..(s.kept + 1) /\ s.del[k] \in Nat
    BY DEF InputType
  <2>3. OldBefore(s, k) \in Nat /\ OldBefore(s, m) \in Nat /\ OldBefore(s, k) + s.del[k] + 1 <= OldBefore(s, m)
    BY <1>1, <2>2, FileLines
  <2> QED BY <2>1, <2>2, <2>3
<1>2. i \in Int /\ j \in Int
  OBVIOUS
<1> QED BY <1>1, <1>2

(* The hunk an old line belongs to.                                        *)
ChangesAt(s, x) == {h \in Hunks(s) : x \in h.old.From..h.old.To}

(* The hunk that WalkLine finds is the one of the gap.                     *)
LEMMA ChangesOfEdited ==
    ASSUME NEW s, InputType(s), NEW i \in Edited(s), NEW x \in Covered(s, i)
    PROVE  ChangesAt(s, x) = {HunkOf(s, i)}
<1>1. \A j \in Edited(s) : HunkOf(s, j).old.From..HunkOf(s, j).old.To = Covered(s, j) /\ j \in 0..s.kept
  BY HunkSides DEF Edited
<1>2. Hunks(s) = {HunkOf(s, j) : j \in Edited(s)}
  BY DEF Hunks, Edited
<1>3. \A j \in Edited(s) : x \in Covered(s, j) => j = i
  BY <1>1, HunksApart
<1> QED BY <1>1, <1>2, <1>3 DEF ChangesAt

(* On an old line that no hunk covers WalkLine finds none.                 *)
LEMMA NoChanges ==
    ASSUME NEW s, InputType(s), NEW x, \A i \in Edited(s) : x \notin Covered(s, i)
    PROVE  ChangesAt(s, x) = {}
<1>1. \A j \in Edited(s) : HunkOf(s, j).old.From..HunkOf(s, j).old.To = Covered(s, j)
  BY HunkSides
<1>2. Hunks(s) = {HunkOf(s, j) : j \in Edited(s)}
  BY DEF Hunks, Edited
<1> QED BY <1>1, <1>2 DEF ChangesAt

-----------------------------------------------------------------------------
(* Sorted sequences of lines.                                              *)
Sorted(q) == \A i, j \in DOMAIN q : i < j => q[i] < q[j]

(* Sorted sequences one after the other.                                   *)
LEMMA SortedConcat ==
    ASSUME NEW q \in Seq(Nat), NEW r \in Seq(Nat), Sorted(q), Sorted(r),
           \A i \in DOMAIN q, j \in DOMAIN r : q[i] < r[j]
    PROVE  /\ q \o r \in Seq(Nat)
           /\ Sorted(q \o r)
           /\ Range(q \o r) = Range(q) \union Range(r)
<1> DEFINE c == q \o r
<1>1. /\ c \in Seq(Nat) /\ Len(q) \in Nat /\ Len(r) \in Nat /\ DOMAIN c = 1..(Len(q) + Len(r))
      /\ \A i \in 1..(Len(q) + Len(r)) : c[i] = IF i <= Len(q) THEN q[i] ELSE r[i - Len(q)]
  OBVIOUS
<1>0. DOMAIN q = 1..Len(q) /\ DOMAIN r = 1..Len(r)
  OBVIOUS
<1> HIDE DEF c
<1>2. Sorted(c)
  <2> SUFFICES ASSUME NEW i \in 1..(Len(q) + Len(r)), NEW j \in 1..(Len(q) + Len(r)), i < j
               PROVE  c[i] < c[j]
    BY <1>1 DEF Sorted
  <2>1. CASE j <= Len(q)
    <3>1. i \in DOMAIN q /\ j \in DOMAIN q /\ c[i] = q[i] /\ c[j] = q[j]
      BY <1>1, <1>0, <2>1
    <3> QED BY <3>1 DEF Sorted
  <2>2. CASE i <= Len(q) /\ Len(q) < j
    <3>1. i \in DOMAIN q /\ j - Len(q) \in DOMAIN r /\ c[i] = q[i] /\ c[j] = r[j - Len(q)]
      BY <1>1, <1>0, <2>2
    <3> QED BY <3>1
  <2>3. CASE Len(q) < i
    <3>1. i - Len(q) \in 1..Len(r) /\ j - Len(q) \in 1..Len(r) /\ i - Len(q) < j - Len(q)
      BY <1>1, <2>3
    <3>2. c[i] = r[i - Len(q)]
      BY <1>1, <2>3
    <3>3. Len(q) < j
      BY <1>1, <2>3
    <3>4. c[j] = r[j - Len(q)]
      BY <1>1, <3>3
    <3> QED BY <3>1, <3>2, <3>4, <1>0 DEF Sorted
  <2>4. i \in Int /\ j \in Int /\ Len(q) \in Int
    BY <1>1
  <2> QED BY <2>1, <2>2, <2>3, <2>4
<1>3. Range(c) = Range(q) \union Range(r)
  <2>1. ASSUME NEW i \in DOMAIN c PROVE c[i] \in Range(q) \union Range(r)
    <3>1. CASE i <= Len(q)
      BY <1>0, <1>1, <3>1 DEF Range
    <3>2. CASE Len(q) < i
      <4>1. i - Len(q) \in DOMAIN r /\ c[i] = r[i - Len(q)]
        BY <1>0, <1>1, <3>2
      <4> QED BY <4>1 DEF Range
    <3> QED BY <1>1, <3>1, <3>2
  <2>2. ASSUME NEW i \in DOMAIN q PROVE q[i] \in Range(c)
    <3>1. i \in DOMAIN c /\ c[i] = q[i]
      BY <1>0, <1>1
    <3> QED BY <3>1 DEF Range
  <2>3. ASSUME NEW j \in DOMAIN r PROVE r[j] \in Range(c)
    <3>1. /\ j \in 1..Len(r) /\ j + Len(q) \in 1..(Len(q) + Len(r))
          /\ ~(j + Len(q) <= Len(q)) /\ (j + Len(q)) - Len(q) = j
      BY <1>0, <1>1
    <3>2. c[j + Len(q)] = r[j]
      BY <1>1, <3>1
    <3>3. j + Len(q) \in DOMAIN c
      BY <1>1, <3>1
    <3> QED BY <3>2, <3>3 DEF Range
  <2> QED BY <2>1, <2>2, <2>3 DEF Range
<1> QED BY <1>1, <1>2, <1>3 DEF c

(* Indices of a concatenation.                                             *)
LEMMA Concat ==
    ASSUME NEW S, NEW q \in Seq(S), NEW r \in Seq(S)
    PROVE  /\ q \o r \in Seq(S)
           /\ DOMAIN (q \o r) = 1..(Len(q) + Len(r))
           /\ \A i \in 1..Len(q) : (q \o r)[i] = q[i]
           /\ \A i \in 1..Len(r) : (q \o r)[Len(q) + i] = r[i]
<1>1. q \o r \in Seq(S) /\ Len(q) \in Nat /\ Len(r) \in Nat
  OBVIOUS
<1>2. DOMAIN (q \o r) = 1..(Len(q) + Len(r))
  OBVIOUS
<1>3. ASSUME NEW i \in 1..Len(q) PROVE (q \o r)[i] = q[i]
  OBVIOUS
<1>4. ASSUME NEW i \in 1..Len(r) PROVE (q \o r)[Len(q) + i] = r[i]
  OBVIOUS
<1> QED BY <1>1, <1>2, <1>3, <1>4

(* A report of the line is appended, or none.                              *)
LEMMA AppendedLine ==
    ASSUME NEW s, NEW y \in Nat, NEW x
    PROVE  LET r == MaybeAppendReports(s, y, x) IN
           /\ r \in Seq(Nat) /\ Sorted(r)
           /\ Range(r) = IF y \in s.new \ s.ignored /\ x \notin s.old THEN {y} ELSE {}
<1>1. CASE y \in s.new \ s.ignored /\ x \notin s.old
  <2>1. MaybeAppendReports(s, y, x) = <<y>>
    BY <1>1 DEF MaybeAppendReports
  <2>2. <<y>> \in Seq(Nat) /\ DOMAIN <<y>> = {1} /\ <<y>>[1] = y
    OBVIOUS
  <2> QED BY <1>1, <2>1, <2>2 DEF Sorted, Range
<1>2. CASE ~(y \in s.new \ s.ignored /\ x \notin s.old)
  <2>1. MaybeAppendReports(s, y, x) = << >>
    BY <1>2 DEF MaybeAppendReports
  <2>2. << >> \in Seq(Nat) /\ DOMAIN << >> = {}
    OBVIOUS
  <2> QED BY <1>2, <2>1, <2>2 DEF Sorted, Range
<1> QED BY <1>1, <1>2

-----------------------------------------------------------------------------
(* The rest of a hunk: every line of it that has a report.                 *)
(* The iterations of the loop over the rest of a hunk.                     *)
AppendsLines(h, s, from, n) ==
    /\ h[0] = << >>
    /\ \A i \in 1..n : h[i] = h[i - 1] \o MaybeAppendReports(s, from + i, 0)

(* AppendAdditions is the result of that loop.                             *)
LEMMA AppendAdditionsSteps ==
    ASSUME NEW s, NEW from \in Nat, NEW to \in Nat, NEW x, NEW n \in Nat, 1..(to - from) = 1..n
    PROVE  \E h : AppendsLines(h, s, from, n) /\ AppendAdditions(s, from, to, x) = h[n]
<1> DEFINE D == [k \in 1..(to - from) |-> from + k]
           E == [i \in DOMAIN D |-> i]
           body(f) == [S \in SUBSET (DOMAIN E) |-> IF S = {} THEN << >>
                          ELSE LET y == Max(S) IN f[S \ {y}] \o MaybeAppendReports(s, from + E[y], 0)]
           it == CHOOSE f : f = body(f)
           q == [p \in (1..n) \X Seq(Nat) |-> p[2] \o MaybeAppendReports(s, from + p[1], 0)]
<1>1. DOMAIN E = 1..n /\ \A i \in 1..n : E[i] = i
  OBVIOUS
<1>2. AppendAdditions(s, from, to, x) = it[DOMAIN E]
  BY DEF AppendAdditions, FoldLeftDomain, FoldLeft, MapThenFoldSet
<1>3. PICK iter \in [SUBSET (1..n) -> Seq(Nat)] : LeftFolds(iter, n, << >>, q)
  <2>1. q \in [(1..n) \X Seq(Nat) -> Seq(Nat)]
    <3> SUFFICES ASSUME NEW i \in 1..n, NEW r \in Seq(Nat)
                 PROVE  r \o MaybeAppendReports(s, from + i, 0) \in Seq(Nat)
      OBVIOUS
    <3>1. from + i \in Nat
      OBVIOUS
    <3>2. MaybeAppendReports(s, from + i, 0) \in Seq(Nat)
      BY <3>1, AppendedLine
    <3> QED BY <3>2
  <2>2. << >> \in Seq(Nat)
    OBVIOUS
  <2> HIDE DEF q, D, E, it, body
  <2> QED BY <2>1, <2>2, LeftFoldExists
<1>4. iter = body(iter)
  <2>1. ASSUME NEW S \in SUBSET (1..n), S # {}
        PROVE iter[S] = iter[S \ {Max(S)}] \o MaybeAppendReports(s, from + Max(S), 0) /\ Max(S) \in 1..n
    <3>1. S \in SUBSET (0..n)
      OBVIOUS
    <3>2. Max(S) \in 1..n
      BY <2>1, <3>1, IntervalMax
    <3>3. iter[S \ {Max(S)}] \in Seq(Nat)
      BY <1>3
    <3> HIDE DEF q
    <3>4. iter[S] = q[<<Max(S), iter[S \ {Max(S)}]>>]
      BY <1>3, <2>1 DEF LeftFolds
    <3>5. iter[S] = iter[S \ {Max(S)}] \o MaybeAppendReports(s, from + Max(S), 0)
      BY <3>2, <3>3, <3>4 DEF q
    <3> QED BY <3>2, <3>5
  <2>2. iter[{}] = << >>
    <3>1. {} \in SUBSET (1..n)
      OBVIOUS
    <3> QED BY <1>3, <3>1 DEF LeftFolds
  <2>3. ASSUME NEW S \in SUBSET (1..n)
        PROVE iter[S] = IF S = {} THEN << >>
                        ELSE LET y == Max(S) IN iter[S \ {y}] \o MaybeAppendReports(s, from + E[y], 0)
    <3>1. CASE S = {}
      BY <2>2, <3>1
    <3>2. CASE S # {}
      <4>1. E[Max(S)] = Max(S)
        BY <1>1, <2>1, <3>2
      <4> HIDE DEF E
      <4> QED BY <2>1, <3>2, <4>1
    <3> QED BY <3>1, <3>2
  <2>4. iter = [S \in SUBSET (1..n) |-> iter[S]]
    BY <1>3
  <2> HIDE DEF q, E
  <2> QED BY <1>1, <2>3, <2>4
<1>5. it = body(it)
  <2> HIDE DEF body
  <2> QED BY <1>4
<1> DEFINE h == [i \in 0..n |-> it[1..i]]
<1> HIDE DEF it, q, D, E
<1>6. h[0] = << >>
  <2>1. 1..0 = {}
    OBVIOUS
  <2>2. it[{}] = << >>
    BY <1>5
  <2> QED BY <2>1, <2>2
<1>7. ASSUME NEW i \in 1..n
      PROVE  h[i] = h[i - 1] \o MaybeAppendReports(s, from + i, 0)
  <2>1. Max(1..i) = i /\ (1..i) \ {i} = 1..(i - 1)
    BY IntervalTop
  <2>2. (1..i) \in SUBSET (DOMAIN E) /\ 1..i # {}
    BY <1>1
  <2>3. it[1..i] = it[(1..i) \ {Max(1..i)}] \o MaybeAppendReports(s, from + E[Max(1..i)], 0)
    BY <1>5, <2>2
  <2>4. E[Max(1..i)] = i
    BY <1>1, <2>1
  <2>5. it[1..i] = it[1..(i - 1)] \o MaybeAppendReports(s, from + i, 0)
    BY <2>1, <2>3, <2>4
  <2>6. i \in 0..n /\ i - 1 \in 0..n
    OBVIOUS
  <2> QED BY <2>5, <2>6
<1>8. AppendAdditions(s, from, to, x) = h[n]
  BY <1>1, <1>2
<1> HIDE DEF h
<1> QED BY <1>6, <1>7, <1>8 DEF AppendsLines

(* It reports every line of the rest of the hunk that has a report, in     *)
(* order.                                                                  *)
LEMMA AdditionsAppended ==
    ASSUME NEW s, 0 \notin s.old, NEW from \in Nat, NEW to \in Nat, NEW x
    PROVE  LET r == AppendAdditions(s, from, to, x) IN
           /\ r \in Seq(Nat) /\ Sorted(r)
           /\ Range(r) = {l \in Nat : from < l /\ l <= to /\ l \in s.new \ s.ignored}
<1> DEFINE n == IF to > from THEN to - from ELSE 0
           Upto(i) == {l \in Nat : from < l /\ l <= from + i /\ l \in s.new \ s.ignored}
<1>1. n \in Nat /\ 1..(to - from) = 1..n
  OBVIOUS
<1>0. PICK h : AppendsLines(h, s, from, n) /\ AppendAdditions(s, from, to, x) = h[n]
  <2> HIDE DEF n, Upto
  <2> QED BY <1>1, AppendAdditionsSteps
<1>2. /\ h[0] = << >>
      /\ \A i \in 1..n : h[i] = h[i - 1] \o MaybeAppendReports(s, from + i, 0)
      /\ AppendAdditions(s, from, to, x) = h[n]
  BY <1>0 DEF AppendsLines
<1> DEFINE Good(i) == h[i] \in Seq(Nat) /\ Sorted(h[i]) /\ Range(h[i]) = Upto(i)
           P == {i \in Nat : i <= n => Good(i)}
<1>3. 0 \in P
  <2>1. << >> \in Seq(Nat) /\ DOMAIN << >> = {}
    OBVIOUS
  <2>2. Upto(0) = {}
    OBVIOUS
  <2>3. Range(<< >>) = {} /\ Sorted(<< >>)
    BY <2>1 DEF Range, Sorted
  <2> QED BY <1>2, <2>1, <2>2, <2>3
<1>4. ASSUME NEW i \in P PROVE i + 1 \in P
  <2> SUFFICES ASSUME i + 1 <= n PROVE Good(i + 1)
    OBVIOUS
  <2> DEFINE m == MaybeAppendReports(s, from + (i + 1), 0)
  <2>1. Good(i)
    BY <1>1
  <2>2. h[i + 1] = h[i] \o m
    <3>1. i + 1 \in 1..n /\ (i + 1) - 1 = i
      BY <1>1
    <3> HIDE DEF n
    <3> QED BY <3>1, <1>2
  <2>3. /\ m \in Seq(Nat) /\ Sorted(m)
        /\ Range(m) = IF from + (i + 1) \in s.new \ s.ignored THEN {from + (i + 1)} ELSE {}
    <3>1. from + (i + 1) \in Nat
      OBVIOUS
    <3> QED BY <3>1, AppendedLine
  <2> HIDE DEF n, m
  <2>4. \A j \in DOMAIN h[i], k \in DOMAIN m : h[i][j] < m[k]
    <3> SUFFICES ASSUME NEW j \in DOMAIN h[i], NEW k \in DOMAIN m PROVE h[i][j] < m[k]
      OBVIOUS
    <3>1. h[i][j] \in Upto(i) /\ m[k] \in Range(m)
      BY <2>1 DEF Range
    <3>2. m[k] = from + (i + 1)
      BY <3>1, <2>3
    <3> QED BY <3>1, <3>2
  <2>5. h[i + 1] \in Seq(Nat) /\ Sorted(h[i + 1]) /\ Range(h[i + 1]) = Range(h[i]) \union Range(m)
    BY <2>1, <2>2, <2>3, <2>4, SortedConcat
  <2>6. Upto(i + 1) = Upto(i) \union Range(m)
    <3>1. \A l \in Nat : l <= from + (i + 1) <=> l <= from + i \/ l = from + (i + 1)
      OBVIOUS
    <3>2. from < from + (i + 1) /\ from + (i + 1) \in Nat
      OBVIOUS
    <3> QED BY <3>1, <3>2, <2>3
  <2> QED BY <2>1, <2>5, <2>6
<1>5. P = Nat
  <2>1. P \in SUBSET Nat
    OBVIOUS
  <2> HIDE DEF P
  <2> QED BY <1>3, <1>4, <2>1, SetInduction
<1>6. Good(n)
  <2>1. n \in P
    <3> HIDE DEF P, n
    <3> QED BY <1>5, <1>1
  <2> HIDE DEF n, Good
  <2> QED BY <2>1, <1>1
<1>7. Upto(n) = {l \in Nat : from < l /\ l <= to /\ l \in s.new \ s.ignored}
  OBVIOUS
<1> HIDE DEF n, Upto
<1> QED BY <1>2, <1>6, <1>7

-----------------------------------------------------------------------------
(* One iteration of the walk.                                              *)
LEMMA LargestOf ==
    ASSUME NEW n \in Nat, NEW S \in SUBSET (0..n)
    PROVE  Largest(S) \in S \union {0} /\ \A k \in S : k <= Largest(S)
<1>1. \E m \in S \union {0} : \A k \in S : k <= m
  <2>1. CASE S = {}
    BY <2>1
  <2>2. CASE S # {}
    BY <2>2, IntervalMax
  <2> QED BY <2>1, <2>2
<1> QED BY <1>1 DEF Largest

WalkStates == [oldLine : Nat, newLine : Nat, res : Seq(Nat)]

(* What has been reported are lines with reports, up to the current one,   *)
(* in their order.                                                         *)
WalkSorted(s, st) ==
    /\ st \in WalkStates
    /\ Sorted(st.res)
    /\ \A l \in Range(st.res) : l <= st.newLine /\ l \in s.new \ s.ignored

Here(s, y, x) == IF y \in s.new \ s.ignored /\ x \notin s.old THEN {y} ELSE {}
Added(s, y, i) ==
    {l \in Nat : y < l /\ l <= NewBefore(s, i) + s.add[i] /\ l \in s.new \ s.ignored}

(* The three iterations: a line without a hunk, a hunk that only deletes,  *)
(* and one that adds.                                                      *)
KeptStep(s, st, next) ==
    /\ \A i \in Edited(s) : st.oldLine + 1 \notin Covered(s, i)
    /\ next.oldLine = st.oldLine + 1
    /\ next.newLine = st.newLine + 1
    /\ Range(next.res) = Range(st.res) \union Here(s, st.newLine + 1, st.oldLine + 1)

DeletionStep(s, st, next, i) ==
    /\ s.add[i] = 0
    /\ next.oldLine = OldBefore(s, i) + s.del[i]
    /\ next.newLine = st.newLine
    /\ Range(next.res) = Range(st.res)

ChangeStep(s, st, next, i) ==
    /\ s.add[i] > 0
    /\ next.oldLine = OldBefore(s, i) + s.del[i]
    /\ next.newLine = IF st.newLine + 1 > NewBefore(s, i) + s.add[i]
                        THEN st.newLine + 1 ELSE NewBefore(s, i) + s.add[i]
    /\ Range(next.res) = Range(st.res) \union Here(s, st.newLine + 1, st.oldLine + 1)
                            \union Added(s, st.newLine + 1, i)

(* A line that no hunk covers.                                             *)
LEMMA WalkKept ==
    ASSUME NEW s, InputType(s), NEW st, WalkSorted(s, st),
           \A i \in Edited(s) : st.oldLine + 1 \notin Covered(s, i)
    PROVE  LET next == WalkLine(s, Hunks(s), st) IN
           WalkSorted(s, next) /\ KeptStep(s, st, next)
<1> DEFINE x == st.oldLine + 1
           y == st.newLine + 1
           here == MaybeAppendReports(s, y, x)
           next == WalkLine(s, Hunks(s), st)
<1>1. ChangesAt(s, x) = {}
  BY NoChanges
<1>2. next = [oldLine |-> x, newLine |-> y, res |-> st.res \o here]
  BY <1>1 DEF WalkLine, ChangesAt
<1>3. st.oldLine \in Nat /\ st.newLine \in Nat /\ st.res \in Seq(Nat) /\ x \in Nat /\ y \in Nat
  BY DEF WalkSorted, WalkStates
<1>4. here \in Seq(Nat) /\ Sorted(here) /\ Range(here) = Here(s, y, x)
  BY <1>3, AppendedLine DEF Here
<1> HIDE DEF here, next, x
<1>5. \A i \in DOMAIN st.res, j \in DOMAIN here : st.res[i] < here[j]
  <2> SUFFICES ASSUME NEW i \in DOMAIN st.res, NEW j \in DOMAIN here PROVE st.res[i] < here[j]
    OBVIOUS
  <2>1. st.res[i] \in Range(st.res) /\ here[j] \in Range(here)
    BY DEF Range
  <2>2. st.res[i] \in Nat
    BY <1>3
  <2>3. st.res[i] <= st.newLine
    BY <2>1 DEF WalkSorted
  <2>4. here[j] = y
    BY <1>4, <2>1 DEF Here
  <2> QED BY <1>3, <2>2, <2>3, <2>4
<1>6. /\ st.res \o here \in Seq(Nat) /\ Sorted(st.res \o here)
      /\ Range(st.res \o here) = Range(st.res) \union Here(s, y, x)
  <2>1. Sorted(st.res)
    BY DEF WalkSorted
  <2> QED BY <1>3, <1>4, <1>5, <2>1, SortedConcat
<1>7. next.oldLine = x /\ next.newLine = y /\ next.res = st.res \o here /\ next \in WalkStates
  BY <1>2, <1>3, <1>6 DEF WalkStates
<1>8. \A l \in Range(next.res) : l <= y /\ l \in s.new \ s.ignored
  <2> SUFFICES ASSUME NEW l \in Range(st.res) \union Here(s, y, x) PROVE l <= y /\ l \in s.new \ s.ignored
    BY <1>6, <1>7
  <2>1. CASE l \in Range(st.res)
    <3>1. l \in Nat
      BY <1>3, <2>1 DEF Range
    <3> QED BY <1>3, <2>1, <3>1 DEF WalkSorted
  <2>2. CASE l \in Here(s, y, x)
    BY <1>3, <2>2 DEF Here
  <2> QED BY <2>1, <2>2
<1> QED BY <1>6, <1>7, <1>8 DEF WalkSorted, KeptStep, x, next

(* What WalkLine does at the hunk of gap i.                                *)
LEMMA WalkHunk ==
    ASSUME NEW s, InputType(s), NEW st \in WalkStates,
           NEW i \in Edited(s), st.oldLine + 1 \in Covered(s, i)
    PROVE  /\ s.add[i] = 0 =>
                WalkLine(s, Hunks(s), st) =
                  [oldLine |-> OldBefore(s, i) + s.del[i], newLine |-> st.newLine, res |-> st.res]
           /\ s.add[i] > 0 =>
                WalkLine(s, Hunks(s), st) =
                  [oldLine |-> OldBefore(s, i) + s.del[i],
                   newLine |-> Largest({st.newLine + 1, NewBefore(s, i) + s.add[i]}),
                   res |-> st.res \o MaybeAppendReports(s, st.newLine + 1, st.oldLine + 1)
                             \o AppendAdditions(s, st.newLine + 1, NewBefore(s, i) + s.add[i],
                                                st.oldLine + 1)]
<1> DEFINE changes == {h \in Hunks(s) : (st.oldLine + 1) \in h.old.From..h.old.To}
           ch == CHOOSE h \in changes : TRUE
           o == OldBefore(s, i) + s.del[i]
           n == NewBefore(s, i) + s.add[i]
           a == s.add[i]
<1>1. changes = {HunkOf(s, i)}
  BY ChangesOfEdited DEF ChangesAt
<1>2. ch = HunkOf(s, i) /\ changes # {}
  BY <1>1
<1>3. /\ HunkOf(s, i).old.To = o
      /\ (HunkOf(s, i).new.HaveRange /\ HunkOf(s, i).new.Range = 0) <=> a = 0
      /\ a > 0 => HunkOf(s, i).new.To = n
  BY HunkSides
<1>4. a \in Nat
  BY DEF InputType, Edited
<1>5. WalkLine(s, Hunks(s), st) =
        IF ch.new.HaveRange /\ ch.new.Range = 0
          THEN [st EXCEPT !.oldLine = ch.old.To]
          ELSE [oldLine |-> ch.old.To,
                newLine |-> Largest({st.newLine + 1, ch.new.To}),
                res |-> st.res \o MaybeAppendReports(s, st.newLine + 1, st.oldLine + 1)
                          \o AppendAdditions(s, st.newLine + 1, ch.new.To, st.oldLine + 1)]
  BY <1>2 DEF WalkLine
<1> HIDE DEF changes, ch, o, n, a
<1>6. CASE a = 0
  <2>1. WalkLine(s, Hunks(s), st) = [st EXCEPT !.oldLine = o]
    BY <1>2, <1>3, <1>5, <1>6
  <2>2. [st EXCEPT !.oldLine = o] = [oldLine |-> o, newLine |-> st.newLine, res |-> st.res]
    BY DEF WalkStates
  <2> QED BY <2>1, <2>2, <1>4, <1>6 DEF o, a
<1>7. CASE a > 0
  <2>1. ~(ch.new.HaveRange /\ ch.new.Range = 0) /\ ch.old.To = o /\ ch.new.To = n
    BY <1>2, <1>3, <1>4, <1>7
  <2>2. WalkLine(s, Hunks(s), st) =
          [oldLine |-> o, newLine |-> Largest({st.newLine + 1, n}),
           res |-> st.res \o MaybeAppendReports(s, st.newLine + 1, st.oldLine + 1)
                     \o AppendAdditions(s, st.newLine + 1, n, st.oldLine + 1)]
    BY <1>5, <2>1
  <2>3. ~(a = 0)
    BY <1>4, <1>7
  <2> QED BY <2>2, <2>3 DEF o, a, n
<1> QED BY <1>4, <1>6, <1>7 DEF a

(* A hunk that only deletes.                                               *)
LEMMA WalkDeletion ==
    ASSUME NEW s, InputType(s), NEW st, WalkSorted(s, st),
           NEW i \in Edited(s), st.oldLine + 1 \in Covered(s, i), s.add[i] = 0
    PROVE  LET next == WalkLine(s, Hunks(s), st) IN
           WalkSorted(s, next) /\ DeletionStep(s, st, next, i)
<1> DEFINE next == WalkLine(s, Hunks(s), st)
           o == OldBefore(s, i) + s.del[i]
<1>0. st \in WalkStates
  BY DEF WalkSorted
<1>1. next = [oldLine |-> o, newLine |-> st.newLine, res |-> st.res]
  BY <1>0, WalkHunk
<1>2. o \in Nat
  <2>1. i \in 0..(s.kept + 1) /\ s.del[i] \in Nat
    BY DEF InputType, Edited
  <2>2. OldBefore(s, i) \in Nat
    BY <2>1, FileLines
  <2> QED BY <2>1, <2>2
<1> HIDE DEF next, o
<1>3. next.oldLine = o /\ next.newLine = st.newLine /\ next.res = st.res /\ next \in WalkStates
  BY <1>0, <1>1, <1>2 DEF WalkStates
<1> QED BY <1>3 DEF WalkSorted, DeletionStep, next, o

(* A hunk that adds lines.                                                 *)
LEMMA WalkChange ==
    ASSUME NEW s, InputType(s), NEW st, WalkSorted(s, st),
           NEW i \in Edited(s), st.oldLine + 1 \in Covered(s, i), s.add[i] > 0
    PROVE  LET next == WalkLine(s, Hunks(s), st) IN
           WalkSorted(s, next) /\ ChangeStep(s, st, next, i)
<1> DEFINE x == st.oldLine + 1
           y == st.newLine + 1
           o == OldBefore(s, i) + s.del[i]
           n == NewBefore(s, i) + s.add[i]
           here == MaybeAppendReports(s, y, x)
           rest == AppendAdditions(s, y, n, x)
           next == WalkLine(s, Hunks(s), st)
           top == Largest({y, n})
<1>0. st \in WalkStates
  BY DEF WalkSorted
<1>1. next = [oldLine |-> o, newLine |-> top, res |-> st.res \o here \o rest]
  BY <1>0, WalkHunk
<1>2. o \in Nat /\ n \in Nat /\ y \in Nat /\ x \in Nat /\ st.res \in Seq(Nat) /\ st.newLine \in Nat
  <2>1. i \in 0..(s.kept + 1) /\ s.del[i] \in Nat /\ s.add[i] \in Nat
    BY DEF InputType, Edited
  <2>2. OldBefore(s, i) \in Nat /\ NewBefore(s, i) \in Nat
    BY <2>1, FileLines
  <2>3. st.oldLine \in Nat /\ st.newLine \in Nat /\ st.res \in Seq(Nat)
    BY <1>0 DEF WalkStates
  <2>4. o \in Nat /\ n \in Nat
    BY <2>1, <2>2
  <2>5. x \in Nat /\ y \in Nat
    BY <2>3
  <2> QED BY <2>3, <2>4, <2>5
<1>3. here \in Seq(Nat) /\ Sorted(here) /\ Range(here) = Here(s, y, x)
  BY <1>2, AppendedLine DEF Here
<1>4. rest \in Seq(Nat) /\ Sorted(rest) /\ Range(rest) = Added(s, y, i)
  <2>1. 0 \notin s.old
    BY DEF InputType
  <2> QED BY <1>2, <2>1, AdditionsAppended DEF Added
<1>5. top = IF y > n THEN y ELSE n
  <2>1. {y, n} \in SUBSET (0..(y + n)) /\ y + n \in Nat
    BY <1>2
  <2>2. top \in {y, n} \union {0} /\ \A k \in {y, n} : k <= top
    <3> HIDE DEF y, n
    <3> QED BY <2>1, LargestOf
  <2>3. y <= top /\ n <= top /\ y > 0 /\ top \in {y, n, 0}
    BY <1>2, <2>2
  <2> HIDE DEF n, top
  <2> QED BY <1>2, <2>3
<1> HIDE DEF here, rest, next, x, o, n, top
<1>6. /\ st.res \o here \in Seq(Nat) /\ Sorted(st.res \o here)
      /\ Range(st.res \o here) = Range(st.res) \union Here(s, y, x)
  <2>1. \A k \in DOMAIN st.res, j \in DOMAIN here : st.res[k] < here[j]
    <3> SUFFICES ASSUME NEW k \in DOMAIN st.res, NEW j \in DOMAIN here PROVE st.res[k] < here[j]
      OBVIOUS
    <3>1. st.res[k] \in Range(st.res) /\ here[j] \in Range(here)
      BY DEF Range
    <3>2. st.res[k] \in Nat
      BY <1>2
    <3>3. st.res[k] <= st.newLine
      BY <3>1 DEF WalkSorted
    <3>4. here[j] = y
      BY <1>3, <3>1 DEF Here
    <3> QED BY <1>2, <3>2, <3>3, <3>4
  <2>2. Sorted(st.res)
    BY DEF WalkSorted
  <2> QED BY <1>2, <1>3, <2>1, <2>2, SortedConcat
<1> DEFINE got == st.res \o here
<1>7. \A l \in Range(got) : l \in Nat /\ l <= y /\ l \in s.new \ s.ignored
  <2> SUFFICES ASSUME NEW l \in Range(st.res) \union Here(s, y, x) PROVE l \in Nat /\ l <= y /\ l \in s.new \ s.ignored
    BY <1>6
  <2>1. CASE l \in Range(st.res)
    <3>1. l \in Nat
      BY <1>2, <2>1 DEF Range
    <3> QED BY <1>2, <2>1, <3>1 DEF WalkSorted
  <2>2. CASE l \in Here(s, y, x)
    BY <1>2, <2>2 DEF Here
  <2> QED BY <2>1, <2>2
<1>8. /\ got \o rest \in Seq(Nat) /\ Sorted(got \o rest)
      /\ Range(got \o rest) = Range(got) \union Added(s, y, i)
  <2>1. \A k \in DOMAIN got, j \in DOMAIN rest : got[k] < rest[j]
    <3> SUFFICES ASSUME NEW k \in DOMAIN got, NEW j \in DOMAIN rest PROVE got[k] < rest[j]
      OBVIOUS
    <3>1. got[k] \in Range(got) /\ rest[j] \in Added(s, y, i)
      BY <1>4 DEF Range
    <3>2. got[k] \in Nat /\ got[k] <= y /\ rest[j] \in Nat /\ y < rest[j]
      BY <1>7, <3>1 DEF Added
    <3> HIDE DEF got
    <3> QED BY <1>2, <3>2
  <2> HIDE DEF got
  <2> QED BY <1>4, <1>6, <2>1, SortedConcat DEF got
<1>9. next.oldLine = o /\ next.newLine = top /\ next.res = got \o rest /\ next \in WalkStates
  <2>1. top \in Nat
    BY <1>2, <1>5
  <2> QED BY <1>1, <1>2, <1>8, <2>1 DEF WalkStates
<1>10. \A l \in Range(next.res) : l <= top /\ l \in s.new \ s.ignored
  <2> SUFFICES ASSUME NEW l \in Range(got) \union Added(s, y, i) PROVE l <= top /\ l \in s.new \ s.ignored
    BY <1>8, <1>9
  <2>1. CASE l \in Range(got)
    <3> HIDE DEF got, y
    <3>1. l \in Nat /\ l <= y /\ l \in s.new \ s.ignored
      BY <1>7, <2>1
    <3> QED BY <1>2, <1>5, <3>1
  <2>2. CASE l \in Added(s, y, i)
    <3>1. l \in Nat /\ l <= n /\ l \in s.new \ s.ignored
      BY <2>2 DEF Added, n
    <3> QED BY <1>2, <1>5, <3>1
  <2> QED BY <2>1, <2>2
<1>11. WalkSorted(s, next)
  BY <1>8, <1>9, <1>10 DEF WalkSorted
<1>12. ChangeStep(s, st, next, i)
  <2>1. Range(next.res) = Range(st.res) \union Here(s, y, x) \union Added(s, y, i)
    BY <1>6, <1>8, <1>9
  <2> QED BY <1>5, <1>9, <2>1 DEF ChangeStep, x, o, n
<1> QED BY <1>11, <1>12 DEF next

-----------------------------------------------------------------------------
(* The two line counters: before the deletions of a gap, after a gap, or   *)
(* past the last edit.                                                     *)
BeforeDeletion(s, st, i) ==
    s.del[i] > 0 /\ st.oldLine = OldBefore(s, i) /\ st.newLine = NewBefore(s, i)
AfterGap(s, st, i) ==
    st.oldLine = OldBefore(s, i) + s.del[i] /\ st.newLine = NewBefore(s, i) + s.add[i]
Beyond(s, st) ==
    st.oldLine >= OldBefore(s, s.kept) + s.del[s.kept] /\ st.newLine >= NewBefore(s, s.kept) + s.add[s.kept]

InStep(s, st) ==
    \/ \E i \in 0..s.kept : BeforeDeletion(s, st, i) \/ AfterGap(s, st, i)
    \/ Beyond(s, st)

OnlyNew(s, st) == \A l \in Range(st.res) : OldLineOf(s, l) \notin s.old

NoDeletions(s) == \A i \in 0..s.kept : s.del[i] = 0
NoneMissed(s, st) ==
    \A l \in 1..st.newLine : l \in s.new \ s.ignored /\ OldLineOf(s, l) \notin s.old => l \in Range(st.res)

(* What holds before each iteration unless lines were inserted on top.     *)
InSync(s, st) ==
    /\ WalkSorted(s, st)
    /\ InStep(s, st)
    /\ OnlyNew(s, st)
    /\ NoDeletions(s) => NoneMissed(s, st)

(* The numbers of a gap.                                                   *)
LEMMA GapNumbers ==
    ASSUME NEW s, InputType(s), NEW i \in 0..s.kept
    PROVE  /\ s.kept \in Nat /\ i \in Nat /\ s.del[i] \in Nat /\ s.add[i] \in Nat
           /\ OldBefore(s, i) \in Nat /\ NewBefore(s, i) \in Nat
           /\ OldBefore(s, i + 1) = OldBefore(s, i) + s.del[i] + 1
           /\ NewBefore(s, i + 1) = NewBefore(s, i) + s.add[i] + 1
<1>1. s.kept \in Nat /\ s.del[i] \in Nat /\ s.add[i] \in Nat
  BY DEF InputType
<1>2. i \in 0..(s.kept + 1)
  BY <1>1
<1> QED BY <1>1, <1>2, FileLines

(* At the first deleted line of a gap.                                     *)
LEMMA FromDeletion ==
    ASSUME NEW s, InputType(s), NEW st, InSync(s, st),
           NEW i \in 0..s.kept, BeforeDeletion(s, st, i)
    PROVE  InSync(s, WalkLine(s, Hunks(s), st))
<1> DEFINE next == WalkLine(s, Hunks(s), st)
           x == st.oldLine + 1
           y == st.newLine + 1
<1>1. /\ s.del[i] \in Nat /\ s.add[i] \in Nat /\ OldBefore(s, i) \in Nat /\ NewBefore(s, i) \in Nat
      /\ s.del[i] > 0 /\ st.oldLine = OldBefore(s, i) /\ st.newLine = NewBefore(s, i)
  BY GapNumbers DEF BeforeDeletion
<1>2. i \in Edited(s)
  BY <1>1 DEF Edited
<1>3. x \in Covered(s, i)
  BY <1>1 DEF Covered
<1>4. WalkSorted(s, st) /\ OnlyNew(s, st)
  BY DEF InSync
<1>5. ~NoDeletions(s)
  BY <1>1 DEF NoDeletions
<1> HIDE DEF next
<1>6. CASE s.add[i] = 0
  <2>1. WalkSorted(s, next) /\ DeletionStep(s, st, next, i)
    BY <1>2, <1>3, <1>4, <1>6, WalkDeletion DEF next
  <2>2. AfterGap(s, next, i)
    BY <2>1, <1>1, <1>6 DEF AfterGap, DeletionStep
  <2>3. OnlyNew(s, next)
    BY <2>1, <1>4 DEF OnlyNew, DeletionStep
  <2> QED BY <2>1, <2>2, <2>3, <1>5 DEF InSync, InStep, next
<1>7. CASE s.add[i] > 0
  <2>1. WalkSorted(s, next) /\ ChangeStep(s, st, next, i)
    BY <1>2, <1>3, <1>4, <1>7, WalkChange DEF next
  <2>2. AfterGap(s, next, i)
    <3>1. ~(NewBefore(s, i) + 1 > NewBefore(s, i) + s.add[i])
      BY <1>1, <1>7
    <3> QED BY <2>1, <1>1, <3>1 DEF AfterGap, ChangeStep
  <2>3. ASSUME NEW l \in Here(s, y, x) \union Added(s, y, i)
        PROVE  OldLineOf(s, l) \notin s.old
    <3>1. l \in Nat /\ NewBefore(s, i) < l /\ l <= NewBefore(s, i) + s.add[i]
      <4>1. CASE l \in Here(s, y, x)
        <5>1. l = y
          BY <4>1 DEF Here
        <5> QED BY <5>1, <1>1, <1>7
      <4>2. CASE l \in Added(s, y, i)
        <5>1. l \in Nat /\ y < l /\ l <= NewBefore(s, i) + s.add[i]
          BY <4>2 DEF Added
        <5> QED BY <5>1, <1>1
      <4> QED BY <4>1, <4>2
    <3>2. OldLineOf(s, l) = 0
      BY <3>1, AddedLine
    <3>3. 0 \notin s.old
      BY DEF InputType
    <3> QED BY <3>2, <3>3
  <2>4. OnlyNew(s, next)
    BY <2>1, <2>3, <1>4 DEF OnlyNew, ChangeStep
  <2> QED BY <2>1, <2>2, <2>4, <1>5 DEF InSync, InStep, next
<1> QED BY <1>1, <1>6, <1>7

(* Past the last edit there are neither hunks nor reports.                 *)
LEMMA FromBeyond ==
    ASSUME NEW s, InputType(s), NEW st, InSync(s, st), Beyond(s, st)
    PROVE  LET next == WalkLine(s, Hunks(s), st) IN
           InSync(s, next) /\ next.newLine > st.newLine
<1> DEFINE next == WalkLine(s, Hunks(s), st)
           x == st.oldLine + 1
           y == st.newLine + 1
           k == s.kept
<1>1. s.kept \in Nat /\ k \in 0..s.kept
  BY DEF InputType
<1>2. /\ s.del[k] \in Nat /\ s.add[k] \in Nat /\ OldBefore(s, k) \in Nat /\ NewBefore(s, k) \in Nat
      /\ NewBefore(s, k + 1) = NewBefore(s, k) + s.add[k] + 1
  BY <1>1, GapNumbers
<1>3. /\ WalkSorted(s, st) /\ OnlyNew(s, st) /\ (NoDeletions(s) => NoneMissed(s, st))
      /\ st.oldLine \in Nat /\ st.newLine \in Nat
  BY DEF InSync, WalkSorted, WalkStates
<1>4. st.oldLine >= OldBefore(s, k) + s.del[k] /\ st.newLine >= NewBefore(s, k) + s.add[k]
  BY DEF Beyond
<1>5. ASSUME NEW i \in Edited(s), x \in Covered(s, i) PROVE FALSE
  <2>1. i \in 0..s.kept
    BY DEF Edited
  <2>2. /\ x <= OldBefore(s, i) + s.del[i] /\ OldBefore(s, i) \in Nat /\ s.del[i] \in Nat /\ i \in Nat
    BY <2>1, <1>5, HunkEdges, GapNumbers
  <2>3. OldBefore(s, i) + s.del[i] <= OldBefore(s, k) + s.del[k]
    <3>1. CASE i = k
      BY <3>1, <1>2
    <3>2. CASE i < k
      <4>1. k \in 0..(s.kept + 1)
        BY <1>1
      <4>2. OldBefore(s, i) + s.del[i] + 1 <= OldBefore(s, k)
        BY <2>1, <3>2, <4>1, FileLines
      <4> QED BY <4>2, <1>2, <2>2
    <3> QED BY <2>1, <1>1, <3>1, <3>2
  <2> HIDE DEF k
  <2> QED BY <2>2, <2>3, <1>2, <1>3, <1>4
<1>6. y \notin s.new
  <2>1. s.new \subseteq 1..(NewBefore(s, k + 1) - 1)
    BY DEF InputType
  <2>2. ~(y <= NewBefore(s, k + 1) - 1)
    <3> HIDE DEF k
    <3> QED BY <1>2, <1>3, <1>4
  <2> QED BY <2>1, <2>2
<1> HIDE DEF next, k
<1>7. WalkSorted(s, next) /\ KeptStep(s, st, next)
  BY <1>3, <1>5, WalkKept DEF next
<1>8. Range(next.res) = Range(st.res) /\ next.oldLine = x /\ next.newLine = y
  BY <1>7, <1>6 DEF KeptStep, Here
<1>9. Beyond(s, next)
  BY <1>2, <1>3, <1>4, <1>8 DEF Beyond, k
<1>10. OnlyNew(s, next)
  BY <1>3, <1>8 DEF OnlyNew
<1>11. NoDeletions(s) => NoneMissed(s, next)
  <2> SUFFICES ASSUME NoDeletions(s), NEW l \in 1..y, l \in s.new \ s.ignored, OldLineOf(s, l) \notin s.old
               PROVE  l \in Range(st.res)
    BY <1>8 DEF NoneMissed
  <2>1. l # y
    BY <1>6
  <2>2. l \in 1..st.newLine
    BY <2>1, <1>3
  <2> QED BY <2>2, <1>3 DEF NoneMissed
<1>12. next.newLine > st.newLine
  BY <1>3, <1>8
<1> QED BY <1>7, <1>9, <1>10, <1>11, <1>12 DEF InSync, InStep, next

(* The next kept line, and what was added after it.                        *)
LEMMA FromGap ==
    ASSUME NEW s, InputType(s), NEW st, InSync(s, st),
           NEW i \in 0..s.kept, i < s.kept, AfterGap(s, st, i)
    PROVE  LET next == WalkLine(s, Hunks(s), st) IN
           InSync(s, next) /\ next.newLine > st.newLine
<1> DEFINE next == WalkLine(s, Hunks(s), st)
           x == st.oldLine + 1
           y == st.newLine + 1
           k == i + 1
<1>1. k \in 0..s.kept /\ k \in KeptLines(s) /\ s.kept \in Nat
  BY GapNumbers DEF KeptLines
<1>2. /\ s.del[k] \in Nat /\ s.add[k] \in Nat /\ OldBefore(s, k) \in Nat /\ NewBefore(s, k) \in Nat
      /\ k \in Nat
  BY <1>1, GapNumbers
<1>3. x = OldBefore(s, k) /\ y = NewBefore(s, k)
  BY GapNumbers DEF AfterGap
<1>4. /\ WalkSorted(s, st) /\ OnlyNew(s, st) /\ (NoDeletions(s) => NoneMissed(s, st))
      /\ st.oldLine \in Nat /\ st.newLine \in Nat
  BY DEF InSync, WalkSorted, WalkStates
<1>5. OldLineOf(s, y) = x
  BY <1>1, <1>3, KeptLine
<1>6. \A l \in Here(s, y, x) : OldLineOf(s, l) \notin s.old
  BY <1>5 DEF Here
<1>7. ASSUME NoDeletions(s), NEW l \in 1..y, l \in s.new \ s.ignored, OldLineOf(s, l) \notin s.old
      PROVE  l \in Range(st.res) \union Here(s, y, x)
  <2>1. CASE l = y
    BY <1>5, <1>7, <2>1 DEF Here
  <2>2. CASE l # y
    <3>1. l \in 1..st.newLine
      BY <1>4, <2>2
    <3> QED BY <3>1, <1>4, <1>7 DEF NoneMissed
  <2> QED BY <2>1, <2>2
<1> HIDE DEF next, k, x, y
<1>8. CASE s.del[k] = 0 /\ s.add[k] > 0
  <2>1. k \in Edited(s) /\ x \in Covered(s, k)
    BY <1>1, <1>2, <1>3, <1>8 DEF Edited, Covered
  <2>2. WalkSorted(s, next) /\ ChangeStep(s, st, next, k)
    BY <2>1, <1>4, <1>8, WalkChange DEF next, x
  <2>3. /\ next.oldLine = OldBefore(s, k) + s.del[k]
        /\ next.newLine = NewBefore(s, k) + s.add[k]
        /\ Range(next.res) = Range(st.res) \union Here(s, y, x) \union Added(s, y, k)
    <3>1. ~(NewBefore(s, k) > NewBefore(s, k) + s.add[k])
      BY <1>2
    <3> QED BY <2>2, <3>1, <1>3 DEF ChangeStep, x, y
  <2>4. AfterGap(s, next, k)
    BY <2>3 DEF AfterGap
  <2>5. ASSUME NEW l \in Nat, y < l, l <= NewBefore(s, k) + s.add[k]
        PROVE  OldLineOf(s, l) = 0
    BY <2>5, <1>1, <1>3, AddedLine
  <2>6. \A l \in Added(s, y, k) : OldLineOf(s, l) \notin s.old
    <3>1. 0 \notin s.old
      BY DEF InputType
    <3> QED BY <3>1, <2>5 DEF Added
  <2>7. OnlyNew(s, next)
    BY <2>3, <2>6, <1>4, <1>6 DEF OnlyNew
  <2>8. NoDeletions(s) => NoneMissed(s, next)
    <3> SUFFICES ASSUME NoDeletions(s), NEW l \in 1..next.newLine, l \in s.new \ s.ignored,
                        OldLineOf(s, l) \notin s.old
                 PROVE  l \in Range(next.res)
      BY DEF NoneMissed
    <3>1. y \in Nat /\ l \in Nat /\ l <= NewBefore(s, k) + s.add[k]
      BY <2>3, <1>2, <1>3
    <3>2. CASE l <= y
      <4>1. l \in 1..y
        BY <3>1, <3>2
      <4> QED BY <4>1, <1>7, <2>3
    <3>3. CASE l > y
      BY <3>1, <3>3, <2>3 DEF Added
    <3> QED BY <3>1, <3>2, <3>3
  <2>9. next.newLine > st.newLine
    BY <2>3, <1>2, <1>3, <1>4 DEF y
  <2> QED BY <2>2, <2>4, <2>7, <2>8, <2>9, <1>1 DEF InSync, InStep, next
<1>9. CASE s.del[k] > 0 \/ s.add[k] = 0
  <2>1. ASSUME NEW j \in Edited(s), x \in Covered(s, j) PROVE FALSE
    <3>1. j \in 0..s.kept /\ s.del[j] + s.add[j] > 0
      BY DEF Edited
    <3>2. /\ j \in Nat /\ s.del[j] \in Nat /\ s.add[j] \in Nat /\ OldBefore(s, j) \in Nat
          /\ OldBefore(s, j) <= x /\ x <= OldBefore(s, j) + s.del[j]
          /\ s.del[j] > 0 => OldBefore(s, j) < x
      BY <3>1, <2>1, HunkEdges, GapNumbers
    <3>3. CASE j = k
      BY <3>3, <3>1, <3>2, <1>3, <1>9, <1>2
    <3>4. CASE j < k
      <4>1. k \in 0..(s.kept + 1)
        BY <1>1
      <4>2. OldBefore(s, j) + s.del[j] + 1 <= OldBefore(s, k)
        BY <3>1, <3>4, <4>1, FileLines
      <4> QED BY <4>2, <3>2, <1>2, <1>3
    <3>5. CASE k < j
      <4>1. j \in 0..(s.kept + 1)
        BY <3>1, <1>1
      <4>2. OldBefore(s, k) + s.del[k] + 1 <= OldBefore(s, j)
        BY <1>1, <3>5, <4>1, FileLines
      <4> QED BY <4>2, <3>2, <1>2, <1>3
    <3> QED BY <3>2, <1>2, <3>3, <3>4, <3>5
  <2>2. WalkSorted(s, next) /\ KeptStep(s, st, next)
    BY <2>1, <1>4, WalkKept DEF next, x
  <2>3. next.oldLine = x /\ next.newLine = y /\ Range(next.res) = Range(st.res) \union Here(s, y, x)
    BY <2>2 DEF KeptStep, x, y
  <2>4. BeforeDeletion(s, next, k) \/ AfterGap(s, next, k)
    <3>1. CASE s.del[k] > 0
      BY <3>1, <2>3, <1>3 DEF BeforeDeletion
    <3>2. CASE s.del[k] = 0 /\ s.add[k] = 0
      BY <3>2, <2>3, <1>2, <1>3 DEF AfterGap
    <3> QED BY <3>1, <3>2, <1>2, <1>9
  <2>5. OnlyNew(s, next)
    BY <2>3, <1>4, <1>6 DEF OnlyNew
  <2>6. NoDeletions(s) => NoneMissed(s, next)
    BY <2>3, <1>7 DEF NoneMissed
  <2>7. next.newLine > st.newLine
    BY <2>3, <1>4 DEF y
  <2> QED BY <2>2, <2>4, <2>5, <2>6, <2>7, <1>1 DEF InSync, InStep, next
<1> QED BY <1>2, <1>8, <1>9

(* An iteration keeps the walk in step.                                    *)
LEMMA WalkSync ==
    ASSUME NEW s, InputType(s), NEW st, InSync(s, st)
    PROVE  LET next == WalkLine(s, Hunks(s), st) IN
           InSync(s, next) /\ (NoDeletions(s) => next.newLine > st.newLine)
<1>1. ASSUME NEW i \in 0..s.kept, BeforeDeletion(s, st, i)
      PROVE  InSync(s, WalkLine(s, Hunks(s), st)) /\ ~NoDeletions(s)
  <2>1. ~NoDeletions(s)
    <3>1. s.del[i] > 0 /\ s.del[i] \in Nat
      BY <1>1, GapNumbers DEF BeforeDeletion
    <3> QED BY <3>1 DEF NoDeletions
  <2> QED BY <1>1, <2>1, FromDeletion
<1>2. ASSUME NEW i \in 0..s.kept, AfterGap(s, st, i), i < s.kept
      PROVE  /\ InSync(s, WalkLine(s, Hunks(s), st))
             /\ WalkLine(s, Hunks(s), st).newLine > st.newLine
  BY <1>2, FromGap
<1>3. ASSUME Beyond(s, st)
      PROVE  /\ InSync(s, WalkLine(s, Hunks(s), st))
             /\ WalkLine(s, Hunks(s), st).newLine > st.newLine
  BY <1>3, FromBeyond
<1>4. ASSUME NEW i \in 0..s.kept, AfterGap(s, st, i), ~(i < s.kept)
      PROVE  Beyond(s, st)
  <2>1. i = s.kept
    BY <1>4, GapNumbers
  <2>2. s.del[i] \in Nat /\ s.add[i] \in Nat /\ OldBefore(s, i) \in Nat /\ NewBefore(s, i) \in Nat
    BY GapNumbers
  <2> QED BY <1>4, <2>1, <2>2 DEF AfterGap, Beyond
<1>5. InStep(s, st)
  BY DEF InSync
<1> QED BY <1>1, <1>2, <1>3, <1>4, <1>5 DEF InStep

(* With or without an insertion on top.                                    *)
LEMMA WalkSort ==
    ASSUME NEW s, InputType(s), NEW st, WalkSorted(s, st)
    PROVE  WalkSorted(s, WalkLine(s, Hunks(s), st))
<1>1. CASE \A i \in Edited(s) : st.oldLine + 1 \notin Covered(s, i)
  BY <1>1, WalkKept
<1>2. ASSUME NEW i \in Edited(s), st.oldLine + 1 \in Covered(s, i)
      PROVE  WalkSorted(s, WalkLine(s, Hunks(s), st))
  <2>1. s.add[i] \in Nat
    BY DEF InputType, Edited
  <2>2. CASE s.add[i] = 0
    BY <1>2, <2>2, WalkDeletion
  <2>3. CASE s.add[i] > 0
    BY <1>2, <2>3, WalkChange
  <2> QED BY <2>1, <2>2, <2>3
<1> QED BY <1>1, <1>2

-----------------------------------------------------------------------------
(* The walk as a whole.                                                    *)
WalkStart == [oldLine |-> 0, newLine |-> 0, res |-> << >>]

WalksLines(h, s, n) ==
    /\ h[0] = WalkStart
    /\ \A i \in 1..n : h[i] = WalkLine(s, Hunks(s), h[i - 1])

(* Nothing is reported at first.                                           *)
LEMMA WalkStartSorted ==
    ASSUME NEW s
    PROVE  WalkSorted(s, WalkStart) /\ Range(WalkStart.res) = {}
<1>1. << >> \in Seq(Nat) /\ DOMAIN << >> = {}
  OBVIOUS
<1>2. WalkStart.res = << >> /\ WalkStart \in WalkStates
  BY <1>1 DEF WalkStart, WalkStates
<1>3. Sorted(<< >>) /\ Range(<< >>) = {}
  BY <1>1 DEF Sorted, Range
<1> QED BY <1>2, <1>3 DEF WalkSorted

(* maxLine is not before any report of the new version.                    *)
LEMMA LastLine ==
    ASSUME NEW s, InputType(s)
    PROVE  Largest(s.old \union s.new) \in Nat /\ \A l \in s.new : l <= Largest(s.old \union s.new)
<1> DEFINE S == s.old \union s.new
           M == OldBefore(s, s.kept + 1) + NewBefore(s, s.kept + 1)
<1>1. OldBefore(s, s.kept + 1) \in Nat /\ NewBefore(s, s.kept + 1) \in Nat
  <2>1. s.kept + 1 \in 0..(s.kept + 1)
    BY DEF InputType
  <2> QED BY <2>1, FileLines
<1>2. M \in Nat
  BY <1>1
<1>3. S \in SUBSET (0..M)
  <2>1. s.old \subseteq 1..(OldBefore(s, s.kept + 1) - 1) /\ s.new \subseteq 1..(NewBefore(s, s.kept + 1) - 1)
    BY DEF InputType
  <2>2. 1..(OldBefore(s, s.kept + 1) - 1) \subseteq 0..M /\ 1..(NewBefore(s, s.kept + 1) - 1) \subseteq 0..M
    BY <1>1
  <2> QED BY <2>1, <2>2
<1> HIDE DEF M
<1>4. Largest(S) \in S \union {0} /\ \A k \in S : k <= Largest(S)
  <2> HIDE DEF S
  <2> QED BY <1>2, <1>3, LargestOf
<1>5. Largest(S) \in Nat
  <2> DEFINE m == Largest(S)
  <2>1. m \in S \/ m = 0
    BY <1>4
  <2>2. \A k \in S : k \in Nat
    <3> HIDE DEF S
    <3> QED BY <1>2, <1>3
  <2>3. m \in Nat
    <3> HIDE DEF S, m
    <3> QED BY <2>1, <2>2
  <2> QED BY <2>3
<1> QED BY <1>4, <1>5

(* DiffReportsList is the result of maxLine iterations.                    *)
LEMMA DiffReportsListSteps ==
    ASSUME NEW s, InputType(s), NEW n \in Nat, n = Largest(s.old \union s.new)
    PROVE  \E h : WalksLines(h, s, n) /\ DiffReportsList(s) = h[n].res
<1> DEFINE D == [i \in 1..n |-> i]
           E == [i \in DOMAIN D |-> i]
           body(f) == [S \in SUBSET (DOMAIN E) |-> IF S = {} THEN WalkStart
                          ELSE LET y == Max(S) IN
                               CHOOSE next \in {WalkLine(s, Hunks(s), x) : x \in {f[S \ {y}]}} : TRUE]
           it == CHOOSE f : f = body(f)
           V == {st \in WalkStates : WalkSorted(s, st)}
           q == [p \in (1..n) \X V |-> WalkLine(s, Hunks(s), p[2])]
<1>1. DOMAIN E = 1..n
  OBVIOUS
<1>2. DiffReportsList(s) = it[DOMAIN E].res
  BY DEF DiffReportsList, FoldLeftDomain, FoldLeft, MapThenFoldSet, WalkStart
<1>3. ASSUME NEW f, NEW S, NEW y
      PROVE  (CHOOSE next \in {WalkLine(s, Hunks(s), x) : x \in {f[S \ {y}]}} : TRUE)
                = WalkLine(s, Hunks(s), f[S \ {y}])
  OBVIOUS
<1>4. PICK iter \in [SUBSET (1..n) -> V] : LeftFolds(iter, n, WalkStart, q)
  <2>1. q \in [(1..n) \X V -> V]
    <3>1. ASSUME NEW st \in V PROVE WalkLine(s, Hunks(s), st) \in V
      <4>1. WalkSorted(s, WalkLine(s, Hunks(s), st))
        BY WalkSort
      <4> QED BY <4>1 DEF WalkSorted
    <3>2. \A p \in (1..n) \X V : p[2] \in V
      <4> HIDE DEF V
      <4> QED OBVIOUS
    <3> HIDE DEF V, D, E, it, body
    <3> QED BY <3>1, <3>2
  <2>2. WalkStart \in V
    BY WalkStartSorted DEF WalkSorted
  <2> HIDE DEF q, D, E, it, body, V
  <2> QED BY <2>1, <2>2, LeftFoldExists
<1>5. iter = body(iter)
  <2>1. ASSUME NEW S \in SUBSET (1..n), S # {}
        PROVE iter[S] = WalkLine(s, Hunks(s), iter[S \ {Max(S)}])
    <3>1. S \in SUBSET (0..n)
      <4>1. 1..n \subseteq 0..n
        OBVIOUS
      <4> HIDE DEF D, E, V, q, it
      <4> QED BY <4>1
    <3>2. Max(S) \in 1..n
      BY <2>1, <3>1, IntervalMax
    <3>3. iter[S \ {Max(S)}] \in V
      BY <1>4
    <3> HIDE DEF q, V
    <3>4. iter[S] = q[<<Max(S), iter[S \ {Max(S)}]>>]
      BY <1>4, <2>1 DEF LeftFolds
    <3> QED BY <3>2, <3>3, <3>4 DEF q
  <2>2. iter[{}] = WalkStart
    <3>1. {} \in SUBSET (1..n)
      OBVIOUS
    <3> QED BY <1>4, <3>1 DEF LeftFolds
  <2>3. ASSUME NEW S \in SUBSET (1..n)
        PROVE iter[S] = IF S = {} THEN WalkStart
                        ELSE LET y == Max(S) IN
                             CHOOSE next \in {WalkLine(s, Hunks(s), x) : x \in {iter[S \ {y}]}} : TRUE
    <3>1. CASE S = {}
      BY <2>2, <3>1
    <3>2. CASE S # {}
      <4> DEFINE y == Max(S)
                 c == CHOOSE next \in {WalkLine(s, Hunks(s), x) : x \in {iter[S \ {y}]}} : TRUE
      <4>1. c = WalkLine(s, Hunks(s), iter[S \ {y}])
        BY <1>3
      <4>2. iter[S] = c
        BY <2>1, <3>2, <4>1
      <4> QED BY <3>2, <4>2
    <3> QED BY <3>1, <3>2
  <2>4. iter = [S \in SUBSET (1..n) |-> iter[S]]
    BY <1>4
  <2> HIDE DEF q, E, V
  <2> QED BY <1>1, <2>3, <2>4
<1>6. it = body(it)
  <2> HIDE DEF body
  <2> QED BY <1>5
<1> DEFINE h == [i \in 0..n |-> it[1..i]]
<1> HIDE DEF it, q, D, E, V
<1>7. h[0] = WalkStart
  <2>1. 1..0 = {}
    OBVIOUS
  <2>2. it[{}] = WalkStart
    BY <1>6
  <2> QED BY <2>1, <2>2
<1>8. ASSUME NEW i \in 1..n
      PROVE  h[i] = WalkLine(s, Hunks(s), h[i - 1])
  <2>1. Max(1..i) = i /\ (1..i) \ {i} = 1..(i - 1)
    BY IntervalTop
  <2>2. (1..i) \in SUBSET (DOMAIN E) /\ 1..i # {}
    BY <1>1
  <2> DEFINE S == 1..i
             y == Max(S)
             c == CHOOSE next \in {WalkLine(s, Hunks(s), x) : x \in {it[S \ {y}]}} : TRUE
  <2>6. it[S] = c
    BY <1>6, <2>2
  <2>7. c = WalkLine(s, Hunks(s), it[S \ {y}])
    BY <1>3
  <2>3. it[1..i] = WalkLine(s, Hunks(s), it[(1..i) \ {Max(1..i)}])
    <3> HIDE DEF c
    <3> QED BY <2>6, <2>7
  <2>4. it[1..i] = WalkLine(s, Hunks(s), it[1..(i - 1)])
    BY <2>1, <2>3
  <2>5. i \in 0..n /\ i - 1 \in 0..n
    OBVIOUS
  <2> QED BY <2>4, <2>5
<1>9. DiffReportsList(s) = h[n].res
  BY <1>1, <1>2
<1> HIDE DEF h
<1> QED BY <1>7, <1>8, <1>9 DEF WalksLines

(* The walk starts in step unless lines were inserted on top.              *)
LEMMA StartSync ==
    ASSUME NEW s, InputType(s), ~InsertedOnTop(s)
    PROVE  InSync(s, WalkStart)
<1>1. /\ 0 \in 0..s.kept /\ s.del[0] \in Nat /\ s.add[0] \in Nat
      /\ OldBefore(s, 0) = 0 /\ NewBefore(s, 0) = 0
  <2>1. 0 \in 0..s.kept
    BY DEF InputType
  <2> QED BY <2>1, GapNumbers, FileLines
<1>2. WalkStart.oldLine = 0 /\ WalkStart.newLine = 0
  BY DEF WalkStart
<1>3. InStep(s, WalkStart)
  <2>1. CASE s.del[0] > 0
    <3>1. BeforeDeletion(s, WalkStart, 0)
      BY <1>1, <1>2, <2>1 DEF BeforeDeletion
    <3> QED BY <3>1, <1>1 DEF InStep
  <2>2. CASE s.del[0] = 0
    <3>1. s.add[0] = 0
      BY <1>1, <2>2 DEF InsertedOnTop
    <3>2. AfterGap(s, WalkStart, 0)
      BY <3>1, <1>1, <1>2, <2>2 DEF AfterGap
    <3> QED BY <3>2, <1>1 DEF InStep
  <2> QED BY <1>1, <2>1, <2>2
<1>4. NoneMissed(s, WalkStart)
  BY <1>2 DEF NoneMissed
<1>5. WalkSorted(s, WalkStart) /\ OnlyNew(s, WalkStart)
  BY WalkStartSorted DEF OnlyNew
<1> QED BY <1>3, <1>4, <1>5 DEF InSync

(* diffReportsList: its result is sorted, has reports of the new version   *)
(* only, and, unless lines were inserted on top, none on a kept line that  *)
(* had one before; where nothing was deleted either, it has all of them.   *)
LEMMA DiffReportsListRight ==
    ASSUME NEW s, InputType(s)
    PROVE  LET r == DiffReportsList(s) IN
           /\ r \in Seq(Nat) /\ Sorted(r)
           /\ Range(r) \subseteq s.new \ s.ignored
           /\ ~InsertedOnTop(s) => \A l \in Range(r) : OldLineOf(s, l) \notin s.old
           /\ ~InsertedOnTop(s) /\ NoDeletions(s) =>
                \A l \in s.new \ s.ignored : OldLineOf(s, l) \notin s.old => l \in Range(r)
<1> DEFINE n == Largest(s.old \union s.new)
<1>1. n \in Nat /\ \A l \in s.new : l <= n
  BY LastLine
<1>2. PICK h : WalksLines(h, s, n) /\ DiffReportsList(s) = h[n].res
  <2> HIDE DEF n
  <2>1. n = Largest(s.old \union s.new)
    BY DEF n
  <2> QED BY <1>1, <2>1, DiffReportsListSteps
<1> HIDE DEF n
<1> DEFINE Good(i) == /\ WalkSorted(s, h[i])
                      /\ ~InsertedOnTop(s) => InSync(s, h[i])
                      /\ ~InsertedOnTop(s) /\ NoDeletions(s) => h[i].newLine >= i
           P == {i \in Nat : i <= n => Good(i)}
<1>3. 0 \in P
  <2>1. h[0] = WalkStart /\ WalkStart.newLine = 0
    BY <1>2 DEF WalksLines, WalkStart
  <2>2. WalkSorted(s, h[0])
    BY <2>1, WalkStartSorted
  <2>3. ~InsertedOnTop(s) => InSync(s, h[0])
    BY <2>1, StartSync
  <2> QED BY <2>1, <2>2, <2>3
<1>4. ASSUME NEW i \in P PROVE i + 1 \in P
  <2> SUFFICES ASSUME i + 1 <= n PROVE Good(i + 1)
    OBVIOUS
  <2>1. Good(i)
    BY <1>1
  <2>2. h[i + 1] = WalkLine(s, Hunks(s), h[i])
    <3>1. i + 1 \in 1..n /\ (i + 1) - 1 = i
      BY <1>1
    <3> QED BY <3>1, <1>2 DEF WalksLines
  <2>3. WalkSorted(s, h[i + 1])
    BY <2>1, <2>2, WalkSort
  <2>4. ~InsertedOnTop(s) => /\ InSync(s, h[i + 1])
                             /\ NoDeletions(s) => h[i + 1].newLine > h[i].newLine
    BY <2>1, <2>2, WalkSync
  <2>5. h[i].newLine \in Nat /\ h[i + 1].newLine \in Nat
    BY <2>1, <2>3 DEF WalkSorted, WalkStates
  <2>6. ~InsertedOnTop(s) /\ NoDeletions(s) => h[i + 1].newLine >= i + 1
    BY <2>1, <2>4, <2>5
  <2> QED BY <2>3, <2>4, <2>6
<1>5. P = Nat
  <2>1. P \in SUBSET Nat
    OBVIOUS
  <2> HIDE DEF P
  <2> QED BY <1>3, <1>4, <2>1, SetInduction
<1>6. Good(n)
  <2>1. n \in P
    <3> HIDE DEF P
    <3> QED BY <1>1, <1>5
  <2> HIDE DEF Good
  <2> QED BY <1>1, <2>1
<1> DEFINE r == h[n].res
<1>7. r \in Seq(Nat) /\ Sorted(r) /\ Range(r) \subseteq s.new \ s.ignored /\ h[n].newLine \in Nat
  BY <1>6 DEF WalkSorted, WalkStates
<1>8. ~InsertedOnTop(s) => \A l \in Range(r) : OldLineOf(s, l) \notin s.old
  BY <1>6 DEF InSync, OnlyNew
<1>9. ASSUME ~InsertedOnTop(s), NoDeletions(s), NEW l \in s.new \ s.ignored, OldLineOf(s, l) \notin s.old
      PROVE  l \in Range(r)
  <2>1. NoneMissed(s, h[n]) /\ h[n].newLine >= n
    BY <1>6, <1>9 DEF InSync
  <2>2. l \in Nat \ {0}
    BY DEF InputType
  <2>3. l \in 1..h[n].newLine
    BY <2>1, <2>2, <1>1, <1>7
  <2> QED BY <2>1, <2>3, <1>9 DEF NoneMissed
<1> HIDE DEF r, Good, P
<1> QED BY <1>2, <1>7, <1>8, <1>9 DEF r

(* A file the diff does not mention has the same lines in both versions.   *)
LEMMA UnchangedLines ==
    ASSUME NEW s, InputType(s), s.unchanged
    PROVE  /\ ~InsertedOnTop(s) /\ NoDeletions(s)
           /\ \A l \in s.new : OldLineOf(s, l) = l
<1>1. /\ s.kept \in Nat
      /\ \A i \in 0..s.kept : s.del[i] = 0 /\ s.add[i] = 0
  BY DEF InputType
<1>2. ~InsertedOnTop(s) /\ NoDeletions(s)
  BY <1>1 DEF InsertedOnTop, NoDeletions
<1> DEFINE P == {i \in Nat : i <= s.kept + 1 => OldBefore(s, i) = i /\ NewBefore(s, i) = i}
<1>3. 0 \in P
  BY FileLines
<1>4. ASSUME NEW i \in P PROVE i + 1 \in P
  <2> SUFFICES ASSUME i + 1 <= s.kept + 1 PROVE OldBefore(s, i + 1) = i + 1 /\ NewBefore(s, i + 1) = i + 1
    OBVIOUS
  <2>1. i \in 0..s.kept /\ OldBefore(s, i) = i /\ NewBefore(s, i) = i
    BY <1>1
  <2>2. /\ OldBefore(s, i + 1) = OldBefore(s, i) + s.del[i] + 1
        /\ NewBefore(s, i + 1) = NewBefore(s, i) + s.add[i] + 1
    BY <2>1, GapNumbers
  <2> QED BY <2>1, <2>2, <1>1
<1>5. P = Nat
  <2>1. P \in SUBSET Nat
    OBVIOUS
  <2> HIDE DEF P
  <2> QED BY <1>3, <1>4, <2>1, SetInduction
<1>6. ASSUME NEW l \in s.new PROVE OldLineOf(s, l) = l
  <2>1. NewBefore(s, s.kept + 1) = s.kept + 1
    <3>1. s.kept + 1 \in P /\ s.kept + 1 <= s.kept + 1
      <4> HIDE DEF P
      <4> QED BY <1>1, <1>5
    <3> QED BY <3>1
  <2>2. l \in 1..s.kept
    <3>1. l \in 1..((s.kept + 1) - 1)
      BY <2>1 DEF InputType
    <3> QED BY <3>1, <1>1
  <2>3. OldBefore(s, l) = l /\ NewBefore(s, l) = l
    <3>1. l \in P /\ l <= s.kept + 1
      <4> HIDE DEF P
      <4> QED BY <1>1, <1>5, <2>2
    <3> QED BY <3>1
  <2>4. l \in KeptLines(s)
    BY <2>2 DEF KeptLines
  <2> QED BY <2>3, <2>4, KeptLine
<1> QED BY <1>2, <1>6

-----------------------------------------------------------------------------
(* The goroutines.                                                         *)
FileReports(f) == DiffReportsList(input[f])
Fails(f) == ~input[f].unchanged /\ input[f].blameFails
Past == {"wgDone", "release", "exit"}

(* The slots of the semaphore that are taken.                              *)
Holders == {f \in Files : pc[f] \in {"diff", "wgDone", "release"}}
SlotsTaken == slots = Cardinality(Holders) /\ slots <= MaxConcurrency

(* Only a goroutine that is through with its file has reports in res, and  *)
(* they are its own.                                                       *)
OwnReports ==
    /\ res \in Seq(Files \X Nat)
    /\ \A i \in DOMAIN res : pc[res[i][1]] \in Past /\ res[i][2] \in Range(FileReports(res[i][1]))

InOrder == \A i, j \in DOMAIN res : i < j /\ res[i][1] = res[j][1] => res[i][2] < res[j][2]

(* All of its reports, unless the error has emptied the list.              *)
Delivered ==
    \A f \in Files : pc[f] \in Past /\ ~Fails(f) /\ ~(returned # "no" /\ resErr) =>
        Range(FileReports(f)) \subseteq ResultOf(f)

ErrorKept == \A f \in Files : pc[f] \in Past /\ Fails(f) => resErr

Waited == returned # "no" => \A f \in Files : pc[f] \in {"release", "exit"}

Types ==
    /\ input \in Inputs
    /\ pc \in [Files -> {"start", "diff", "wgDone", "release", "exit"}]
    /\ slots \in Nat
    /\ resErr \in BOOLEAN
    /\ returned \in {"no", "reports", "error"}

(* The inductive invariant.                                                *)
IInv ==
    /\ Types
    /\ SlotsTaken
    /\ OwnReports
    /\ InOrder
    /\ Delivered
    /\ ErrorKept
    /\ Waited

(* The files are as InputType says.                                        *)
LEMMA GoroutineInputs ==
    ASSUME input \in Inputs, NEW f \in Files
    PROVE  InputType(input[f])
BY ReportDiffAssumption

(* No goroutine has started.                                               *)
LEMMA Initially == Init => IInv
<1> SUFFICES ASSUME Init PROVE IInv
  OBVIOUS
<1>1. pc = [f \in Files |-> "start"] /\ slots = 0 /\ res = << >> /\ resErr = FALSE /\ returned = "no"
  BY DEF Init
<1>2. Types
  <2>1. pc \in [Files -> {"start", "diff", "wgDone", "release", "exit"}]
    BY <1>1
  <2>2. input \in Inputs /\ slots \in Nat /\ returned \in {"no", "reports", "error"}
    BY <1>1 DEF Init
  <2>3. resErr \in BOOLEAN
    BY <1>1, Zenon
  <2> QED BY <2>1, <2>2, <2>3 DEF Types
<1>3. SlotsTaken
  <2>1. Holders = {}
    BY <1>1 DEF Holders
  <2> QED BY <1>1, <2>1, FS_EmptySet, ReportDiffAssumption DEF SlotsTaken
<1>4. res \in Seq(Files \X Nat) /\ DOMAIN res = {}
  BY <1>1
<1>5. \A f \in Files : pc[f] \notin Past
  BY <1>1 DEF Past
<1> QED BY <1>1, <1>2, <1>3, <1>4, <1>5 DEF IInv, OwnReports, InOrder, Delivered, ErrorKept, Waited

(* A step of one goroutine and the slots.                                  *)
LEMMA HoldersStep ==
    ASSUME Types, SlotsTaken, NEW f \in Files, NEW l, Goto(f, l),
           \/ /\ (pc[f] \in {"diff", "wgDone", "release"}) <=> (l \in {"diff", "wgDone", "release"})
              /\ slots' = slots
           \/ /\ pc[f] \notin {"diff", "wgDone", "release"} /\ l \in {"diff", "wgDone", "release"}
              /\ slots' = slots + 1 /\ slots < MaxConcurrency
           \/ /\ pc[f] \in {"diff", "wgDone", "release"} /\ l \notin {"diff", "wgDone", "release"}
              /\ slots' = slots - 1
    PROVE  SlotsTaken' /\ slots' \in Nat
<1> DEFINE Held == {"diff", "wgDone", "release"}
<1>1. \A g \in Files : pc'[g] = IF g = f THEN l ELSE pc[g]
  BY DEF Goto, Types
<1>2. IsFiniteSet(Holders) /\ Cardinality(Holders) \in Nat
  BY FS_Subset, FS_CardinalityType, ReportDiffAssumption DEF Holders
<1>3. slots \in Nat /\ MaxConcurrency \in Nat /\ slots = Cardinality(Holders) /\ slots <= MaxConcurrency
  BY ReportDiffAssumption DEF Types, SlotsTaken
<1>4. Holders = {g \in Files : pc[g] \in Held} /\ Holders' = {g \in Files : pc'[g] \in Held}
  BY DEF Holders
<1> HIDE DEF Held
<1>5. CASE (pc[f] \in Held <=> l \in Held) /\ slots' = slots
  <2>1. Holders' = Holders
    BY <1>1, <1>4, <1>5
  <2> QED BY <2>1, <1>3, <1>5 DEF SlotsTaken
<1>6. CASE pc[f] \notin Held /\ l \in Held /\ slots' = slots + 1 /\ slots < MaxConcurrency
  <2>1. Holders' = Holders \union {f} /\ f \notin Holders
    BY <1>1, <1>4, <1>6
  <2>2. Cardinality(Holders \union {f}) = Cardinality(Holders) + 1
    BY <2>1, <1>2, FS_AddElement
  <2>3. slots' = Cardinality(Holders') /\ slots' <= MaxConcurrency /\ slots' \in Nat
    BY <2>1, <2>2, <1>3, <1>6
  <2> QED BY <2>3 DEF SlotsTaken
<1>7. CASE pc[f] \in Held /\ l \notin Held /\ slots' = slots - 1
  <2>1. Holders' = Holders \ {f} /\ f \in Holders
    BY <1>1, <1>4, <1>7
  <2>2. Cardinality(Holders \ {f}) = Cardinality(Holders) - 1 /\ Cardinality(Holders \ {f}) \in Nat
    <3>1. IsFiniteSet(Holders \ {f})
      BY <1>2, FS_Subset
    <3> QED BY <2>1, <1>2, <3>1, FS_RemoveElement, FS_CardinalityType
  <2>3. slots' = Cardinality(Holders') /\ slots' <= MaxConcurrency /\ slots' \in Nat
    BY <2>1, <2>2, <1>3, <1>7
  <2> QED BY <2>3 DEF SlotsTaken
<1> QED BY <1>5, <1>6, <1>7 DEF Held

(* A step that neither touches the results nor ends a file.                *)
LEMMA ResultsKept ==
    ASSUME IInv, UNCHANGED <<input, res, resErr, returned>>,
           \A g \in Files : pc'[g] \in Past <=> pc[g] \in Past
    PROVE  OwnReports' /\ InOrder' /\ Delivered' /\ ErrorKept'
<1>1. \A g : FileReports(g)' = FileReports(g) /\ ResultOf(g)' = ResultOf(g) /\ Fails(g)' = Fails(g)
  BY DEF FileReports, ResultOf, Fails
<1>2. OwnReports'
  <2>1. res \in Seq(Files \X Nat)
    BY DEF IInv, OwnReports
  <2>2. \A i \in DOMAIN res : res[i][1] \in Files
    BY <2>1
  <2> QED BY <1>1, <2>1, <2>2 DEF IInv, OwnReports
<1>3. InOrder'
  BY DEF IInv, InOrder
<1>4. Delivered'
  BY <1>1 DEF IInv, Delivered
<1>5. ErrorKept'
  BY <1>1 DEF IInv, ErrorKept
<1> QED BY <1>2, <1>3, <1>4, <1>5

(* A goroutine takes a slot.                                               *)
LEMMA AcquireStep == ASSUME IInv, NEW f \in Files, Acquire(f) PROVE IInv'
<1>1. /\ pc[f] = "start" /\ slots < MaxConcurrency /\ slots' = slots + 1 /\ Goto(f, "diff")
      /\ UNCHANGED <<input, res, resErr, returned>>
  BY DEF Acquire
<1>2. Types /\ SlotsTaken /\ Waited
  BY DEF IInv
<1>3. SlotsTaken' /\ slots' \in Nat
  BY <1>1, <1>2, HoldersStep
<1>4. Types'
  BY <1>1, <1>2, <1>3 DEF Types, Goto
<1>5. \A g \in Files : pc'[g] = IF g = f THEN "diff" ELSE pc[g]
  BY <1>1, <1>2 DEF Types, Goto
<1>6. OwnReports' /\ InOrder' /\ Delivered' /\ ErrorKept'
  <2>1. \A g \in Files : pc'[g] \in Past <=> pc[g] \in Past
    BY <1>1, <1>5 DEF Past
  <2> QED BY <1>1, <2>1, ResultsKept
<1>7. Waited'
  BY <1>1, <1>2, <1>5 DEF Waited
<1> QED BY <1>3, <1>4, <1>6, <1>7 DEF IInv

(* wg.Done comes after the append, so that the results are there when the  *)
(* caller goes on.                                                         *)
LEMMA WgDoneStep == ASSUME IInv, NEW f \in Files, WgDone(f) PROVE IInv'
<1>1. /\ pc[f] = "wgDone" /\ slots' = slots /\ Goto(f, "release")
      /\ UNCHANGED <<input, res, resErr, returned>>
  BY DEF WgDone
<1>2. Types /\ SlotsTaken /\ Waited
  BY DEF IInv
<1>3. SlotsTaken' /\ slots' \in Nat
  BY <1>1, <1>2, HoldersStep
<1>4. Types'
  BY <1>1, <1>2, <1>3 DEF Types, Goto
<1>5. \A g \in Files : pc'[g] = IF g = f THEN "release" ELSE pc[g]
  BY <1>1, <1>2 DEF Types, Goto
<1>6. OwnReports' /\ InOrder' /\ Delivered' /\ ErrorKept'
  <2>1. \A g \in Files : pc'[g] \in Past <=> pc[g] \in Past
    BY <1>1, <1>5 DEF Past
  <2> QED BY <1>1, <2>1, ResultsKept
<1>7. Waited'
  BY <1>1, <1>2, <1>5 DEF Waited
<1> QED BY <1>3, <1>4, <1>6, <1>7 DEF IInv

(* A goroutine gives its slot back.                                        *)
LEMMA ReleaseStep == ASSUME IInv, NEW f \in Files, Release(f) PROVE IInv'
<1>1. /\ pc[f] = "release" /\ slots' = slots - 1 /\ Goto(f, "exit")
      /\ UNCHANGED <<input, res, resErr, returned>>
  BY DEF Release
<1>2. Types /\ SlotsTaken /\ Waited
  BY DEF IInv
<1>3. SlotsTaken' /\ slots' \in Nat
  BY <1>1, <1>2, HoldersStep
<1>4. Types'
  BY <1>1, <1>2, <1>3 DEF Types, Goto
<1>5. \A g \in Files : pc'[g] = IF g = f THEN "exit" ELSE pc[g]
  BY <1>1, <1>2 DEF Types, Goto
<1>6. OwnReports' /\ InOrder' /\ Delivered' /\ ErrorKept'
  <2>1. \A g \in Files : pc'[g] \in Past <=> pc[g] \in Past
    BY <1>1, <1>5 DEF Past
  <2> QED BY <1>1, <2>1, ResultsKept
<1>7. Waited'
  BY <1>1, <1>2, <1>5 DEF Waited
<1> QED BY <1>3, <1>4, <1>6, <1>7 DEF IInv

(* A failed blame leaves the error and no reports.                         *)
LEMMA BlameFailsStep == ASSUME IInv, NEW f \in Files, BlameFails(f) PROVE IInv'
<1>1. /\ pc[f] = "diff" /\ Fails(f) /\ slots' = slots /\ resErr' = TRUE /\ Goto(f, "wgDone")
      /\ UNCHANGED <<input, res, returned>>
  BY DEF BlameFails, Fails
<1>2. Types /\ SlotsTaken /\ Waited /\ OwnReports /\ InOrder /\ Delivered
  BY DEF IInv
<1>3. SlotsTaken' /\ slots' \in Nat
  BY <1>1, <1>2, HoldersStep
<1>4. Types'
  BY <1>1, <1>2, <1>3 DEF Types, Goto
<1>5. \A g \in Files : pc'[g] = IF g = f THEN "wgDone" ELSE pc[g]
  BY <1>1, <1>2 DEF Types, Goto
<1>6. \A g : FileReports(g)' = FileReports(g) /\ ResultOf(g)' = ResultOf(g) /\ Fails(g)' = Fails(g)
  BY <1>1 DEF FileReports, ResultOf, Fails
<1>7. OwnReports'
  <2>1. \A i \in DOMAIN res : res[i][1] \in Files /\ res[i][1] # f
    BY <1>1, <1>2 DEF OwnReports, Past
  <2> QED BY <1>1, <1>2, <1>5, <1>6, <2>1 DEF OwnReports
<1>8. InOrder'
  BY <1>1, <1>2 DEF InOrder
<1>9. Delivered'
  <2>1. returned = "no"
    BY <1>1, <1>2 DEF Waited, Types
  <2>2. ASSUME NEW g \in Files, pc'[g] \in Past, ~Fails(g)
        PROVE  Range(FileReports(g)) \subseteq ResultOf(g)
    <3>1. g # f /\ pc[g] \in Past
      BY <1>1, <1>5, <2>2
    <3> QED BY <1>2, <2>1, <2>2, <3>1 DEF Delivered
  <2> QED BY <1>6, <2>2 DEF Delivered
<1>10. ErrorKept'
  BY <1>1 DEF ErrorKept
<1>11. Waited'
  BY <1>1, <1>2, <1>5 DEF Waited
<1> QED BY <1>3, <1>4, <1>7, <1>8, <1>9, <1>10, <1>11 DEF IInv

(* The reports of a file come after all that is in the list, which has     *)
(* none of this file.                                                      *)
LEMMA AppendReportsStep == ASSUME IInv, NEW f \in Files, AppendReports(f) PROVE IInv'
<1> DEFINE lines == FileReports(f)
           mine == [i \in DOMAIN lines |-> <<f, lines[i]>>]
<1>1. /\ pc[f] = "diff" /\ ~Fails(f) /\ slots' = slots /\ Goto(f, "wgDone")
      /\ res' = res \o mine
      /\ UNCHANGED <<input, resErr, returned>>
  <2>1. input[f].unchanged \/ ~input[f].blameFails
    BY DEF AppendReports
  <2> QED BY <2>1 DEF AppendReports, Fails, FileReports
<1>2. Types /\ SlotsTaken /\ Waited /\ OwnReports /\ InOrder /\ Delivered /\ ErrorKept
  BY DEF IInv
<1>3. SlotsTaken' /\ slots' \in Nat
  BY <1>1, <1>2, HoldersStep
<1>4. Types'
  BY <1>1, <1>2, <1>3 DEF Types, Goto
<1>5. \A g \in Files : pc'[g] = IF g = f THEN "wgDone" ELSE pc[g]
  BY <1>1, <1>2 DEF Types, Goto
<1>6. \A g : FileReports(g)' = FileReports(g) /\ Fails(g)' = Fails(g)
  BY <1>1 DEF FileReports, Fails
<1>7. returned = "no"
  BY <1>1, <1>2 DEF Waited, Types
<1>8. lines \in Seq(Nat) /\ Sorted(lines)
  <2>1. InputType(input[f])
    BY <1>2, GoroutineInputs DEF Types
  <2> QED BY <2>1, DiffReportsListRight DEF FileReports
<1>9. \A i \in DOMAIN res : res[i][1] \in Files /\ res[i][1] # f /\ pc[res[i][1]] \in Past
  BY <1>1, <1>2 DEF OwnReports, Past
<1> HIDE DEF lines
<1>10. mine \in Seq(Files \X Nat) /\ Len(mine) = Len(lines) /\ \A i \in 1..Len(lines) : mine[i] = <<f, lines[i]>>
  BY <1>8
<1> DEFINE n == Len(res)
           m == Len(lines)
<1> HIDE DEF mine
<1>11. res \in Seq(Files \X Nat) /\ n \in Nat /\ m \in Nat /\ DOMAIN res = 1..n /\ DOMAIN lines = 1..m
  BY <1>2, <1>8 DEF OwnReports
<1>12. /\ res' \in Seq(Files \X Nat)
       /\ DOMAIN res' = 1..(n + m)
       /\ \A i \in 1..n : res'[i] = res[i]
       /\ \A i \in 1..m : res'[n + i] = <<f, lines[i]>>
  <2>1. /\ res \o mine \in Seq(Files \X Nat)
        /\ DOMAIN (res \o mine) = 1..(Len(res) + Len(mine))
        /\ \A i \in 1..Len(res) : (res \o mine)[i] = res[i]
        /\ \A i \in 1..Len(mine) : (res \o mine)[Len(res) + i] = mine[i]
    <3> DEFINE S == Files \X Nat
    <3>1. res \in Seq(S) /\ mine \in Seq(S)
      BY <1>10, <1>11
    <3> HIDE DEF S
    <3>2. res \o mine \in Seq(S)
      BY <3>1, Concat
    <3>3. /\ DOMAIN (res \o mine) = 1..(Len(res) + Len(mine))
          /\ \A i \in 1..Len(res) : (res \o mine)[i] = res[i]
          /\ \A i \in 1..Len(mine) : (res \o mine)[Len(res) + i] = mine[i]
      BY <3>1, Concat
    <3> QED BY <3>2, <3>3 DEF S
  <2> QED BY <1>1, <1>10, <2>1
<1>13. ASSUME NEW i \in DOMAIN res' PROVE i \in 1..n \/ \E k \in 1..m : i = n + k
  <2>1. i \in 1..(n + m)
    BY <1>12
  <2>2. CASE i <= n
    BY <2>1, <2>2
  <2>3. CASE i > n
    <3>1. i - n \in 1..m /\ i = n + (i - n)
      BY <2>1, <2>3, <1>11
    <3> QED BY <3>1
  <2> QED BY <2>1, <2>2, <2>3, <1>11
<1> HIDE DEF n, m
<1>14. OwnReports'
  <2>1. ASSUME NEW i \in DOMAIN res'
        PROVE  pc'[res'[i][1]] \in Past /\ res'[i][2] \in Range(FileReports(res'[i][1]))
    <3>1. CASE i \in 1..n
      <4>1. /\ res'[i] = res[i] /\ pc[res[i][1]] \in Past /\ pc'[res[i][1]] = pc[res[i][1]]
            /\ res[i][2] \in Range(FileReports(res[i][1]))
        BY <3>1, <1>2, <1>5, <1>9, <1>11, <1>12 DEF OwnReports
      <4> QED BY <4>1
    <3>2. ASSUME NEW k \in 1..m, i = n + k
          PROVE  pc'[res'[i][1]] \in Past /\ res'[i][2] \in Range(FileReports(res'[i][1]))
      <4>1. res'[i] = <<f, lines[k]>> /\ lines[k] \in Range(lines) /\ pc'[f] \in Past
        BY <3>2, <1>5, <1>11, <1>12 DEF Range, Past
      <4> QED BY <4>1 DEF lines
    <3> QED BY <1>13, <3>1, <3>2
  <2> QED BY <2>1, <1>6, <1>12 DEF OwnReports
<1>15. InOrder'
  <2> SUFFICES ASSUME NEW i \in DOMAIN res', NEW j \in DOMAIN res', i < j, res'[i][1] = res'[j][1]
               PROVE  res'[i][2] < res'[j][2]
    BY DEF InOrder
  <2>0. i \in 1..(n + m) /\ j \in 1..(n + m) /\ n \in Nat /\ m \in Nat
    BY <1>11, <1>12 DEF n, m
  <2>1. CASE i \in 1..n /\ j \in 1..n
    <3>1. res'[i] = res[i] /\ res'[j] = res[j] /\ i \in DOMAIN res /\ j \in DOMAIN res
      BY <2>1, <1>11, <1>12
    <3> QED BY <3>1, <1>2 DEF InOrder
  <2>2. ASSUME i \in 1..n, NEW k \in 1..m, j = n + k PROVE FALSE
    <3>1. res'[i] = res[i] /\ res[i][1] # f /\ res'[j] = <<f, lines[k]>>
      BY <2>2, <1>9, <1>11, <1>12
    <3> QED BY <3>1
  <2>3. ASSUME NEW h \in 1..m, i = n + h, NEW k \in 1..m, j = n + k PROVE res'[i][2] < res'[j][2]
    <3>1. res'[i] = <<f, lines[h]>> /\ res'[j] = <<f, lines[k]>>
      BY <2>3, <1>12
    <3>2. h < k
      BY <2>3, <2>0
    <3>3. lines[h] < lines[k]
      BY <3>2, <1>8, <1>11 DEF Sorted
    <3> QED BY <3>1, <3>3
  <2>4. ASSUME NEW h \in 1..m, i = n + h, j \in 1..n PROVE FALSE
    BY <2>0, <2>4
  <2> QED BY <1>13, <2>1, <2>2, <2>3, <2>4
<1>16. Delivered'
  <2>1. ASSUME NEW g \in Files, pc'[g] \in Past, ~Fails(g)
        PROVE  Range(FileReports(g)) \subseteq ResultOf(g)'
    <3>1. CASE g = f
      <4> SUFFICES ASSUME NEW k \in 1..m PROVE lines[k] \in ResultOf(f)'
        BY <3>1, <1>11 DEF Range, lines
      <4>1. n + k \in DOMAIN res' /\ res'[n + k] = <<f, lines[k]>>
        BY <1>11, <1>12 DEF n, m
      <4> QED BY <4>1 DEF ResultOf
    <3>2. CASE g # f
      <4>1. Range(FileReports(g)) \subseteq ResultOf(g)
        BY <1>2, <1>5, <1>7, <2>1, <3>2 DEF Delivered
      <4>2. \A i \in DOMAIN res : i \in DOMAIN res' /\ res'[i] = res[i]
        BY <1>11, <1>12 DEF n, m
      <4>3. ResultOf(g) \subseteq ResultOf(g)'
        BY <4>2 DEF ResultOf
      <4> QED BY <4>1, <4>3
    <3> QED BY <3>1, <3>2
  <2> QED BY <2>1, <1>6 DEF Delivered
<1>17. ErrorKept'
  <2>1. ASSUME NEW g \in Files, pc'[g] \in Past, Fails(g) PROVE resErr
    <3>1. g # f
      BY <1>1, <2>1
    <3> QED BY <3>1, <2>1, <1>2, <1>5 DEF ErrorKept
  <2> QED BY <2>1, <1>1, <1>6 DEF ErrorKept
<1>18. Waited'
  BY <1>1, <1>7 DEF Waited
<1> QED BY <1>3, <1>4, <1>14, <1>15, <1>16, <1>17, <1>18 DEF IInv

(* The caller gets the list, or nothing when there was an error.           *)
LEMMA ReturnStep == ASSUME IInv, Return PROVE IInv'
<1>1. /\ \A f \in Files : pc[f] \in {"release", "exit"}
      /\ returned' = "reports"
      /\ res' = IF resErr THEN << >> ELSE res
      /\ UNCHANGED <<input, pc, slots, resErr>>
      /\ returned = "no"
  BY DEF Return
<1>2. Types /\ SlotsTaken /\ Waited /\ OwnReports /\ InOrder /\ Delivered /\ ErrorKept
  BY DEF IInv
<1>3. Types'
  BY <1>1, <1>2 DEF Types
<1>4. SlotsTaken'
  BY <1>1, <1>2 DEF SlotsTaken, Holders
<1>5. \A g : FileReports(g)' = FileReports(g) /\ Fails(g)' = Fails(g)
  BY <1>1 DEF FileReports, Fails
<1>6. Waited'
  BY <1>1 DEF Waited
<1>7. ErrorKept'
  BY <1>1, <1>2, <1>5 DEF ErrorKept
<1>8. CASE resErr
  <2>1. res' = << >> /\ res' \in Seq(Files \X Nat) /\ DOMAIN res' = {}
    BY <1>1, <1>8
  <2>2. OwnReports' /\ InOrder'
    BY <2>1 DEF OwnReports, InOrder
  <2>3. Delivered'
    BY <1>1, <1>8 DEF Delivered
  <2> QED BY <2>2, <2>3, <1>3, <1>4, <1>6, <1>7 DEF IInv
<1>9. CASE ~resErr
  <2>1. res' = res
    BY <1>1, <1>9
  <2>2. OwnReports'
    <3>1. res \in Seq(Files \X Nat)
      BY <1>2 DEF OwnReports
    <3> QED BY <3>1, <2>1, <1>1, <1>2, <1>5 DEF OwnReports
  <2>3. InOrder'
    BY <2>1, <1>2 DEF InOrder
  <2>4. \A g : ResultOf(g)' = ResultOf(g)
    BY <2>1 DEF ResultOf
  <2>5. Delivered'
    BY <2>4, <1>1, <1>2, <1>5, <1>9 DEF Delivered
  <2> QED BY <2>2, <2>3, <2>5, <1>3, <1>4, <1>6, <1>7 DEF IInv
<1> QED BY <1>8, <1>9

(* Every step preserves the invariant.                                     *)
LEMMA Preserved == IInv /\ [Next]_vars => IInv'
<1> SUFFICES ASSUME IInv, [Next]_vars PROVE IInv'
  OBVIOUS
<1>1. CASE UNCHANGED vars
  <2>1. UNCHANGED <<input, pc, slots, res, resErr, returned>>
    BY <1>1 DEF vars
  <2>2. OwnReports' /\ InOrder' /\ Delivered' /\ ErrorKept'
    BY <2>1, ResultsKept
  <2>3. Types' /\ SlotsTaken' /\ Waited'
    BY <2>1 DEF IInv, Types, SlotsTaken, Holders, Waited
  <2> QED BY <2>2, <2>3 DEF IInv
<1>2. ASSUME NEW f \in Files, Goroutine(f) PROVE IInv'
  BY <1>2, AcquireStep, BlameFailsStep, AppendReportsStep, WgDoneStep, ReleaseStep DEF Goroutine
<1>3. CASE Return
  BY <1>3, ReturnStep
<1>4. CASE Stopped
  BY <1>1, <1>4 DEF Stopped
<1> QED BY <1>1, <1>2, <1>3, <1>4 DEF Next

(* The invariant holds of DiffReports on any input.                        *)
THEOREM Invariant == Spec => []IInv
BY Initially, Preserved, PTL DEF Spec

-----------------------------------------------------------------------------
(* Type correctness; the slots taken are those of the goroutines between   *)
(* Acquire and Release, so that limitCh never holds more than              *)
(* maxConcurrency.                                                         *)
THEOREM TypesRight == Spec => []TypeOK
<1>1. IInv => TypeOK
  <2> SUFFICES ASSUME IInv PROVE TypeOK
    OBVIOUS
  <2>1. Types /\ SlotsTaken /\ OwnReports
    BY DEF IInv
  <2>2. DOMAIN input = Files
    BY <2>1, ReportDiffAssumption DEF Types
  <2>3. slots \in 0..MaxConcurrency
    BY <2>1, ReportDiffAssumption DEF Types, SlotsTaken
  <2>4. ASSUME NEW i \in DOMAIN res PROVE res[i][1] \in Files /\ res[i][2] \in Nat \ {0}
    <3>1. res[i] \in Files \X Nat
      BY <2>1 DEF OwnReports
    <3> DEFINE f == res[i][1]
    <3>2. f \in Files
      BY <3>1
    <3>3. res[i][2] \in Range(FileReports(f))
      BY <2>1 DEF OwnReports
    <3>4. InputType(input[f])
      BY <2>1, <3>2, GoroutineInputs DEF Types
    <3>5. Range(FileReports(f)) \subseteq input[f].new
      BY <3>4, DiffReportsListRight DEF FileReports
    <3>6. input[f].new \subseteq Nat \ {0}
      <4>1. input[f].new \subseteq 1..(NewBefore(input[f], input[f].kept + 1) - 1)
        BY <3>4 DEF InputType
      <4> QED BY <4>1
    <3> QED BY <3>2, <3>3, <3>5, <3>6
  <2> QED BY <2>1, <2>2, <2>3, <2>4 DEF TypeOK, Types
<1> QED BY <1>1, Invariant, PTL

(* Reports of a file, as far as the caller sees them.                      *)
LEMMA ReportsOfFile ==
    ASSUME IInv, NEW f \in Files
    PROVE  /\ InputType(input[f])
           /\ ResultOf(f) \subseteq Range(FileReports(f))
           /\ returned = "reports" /\ ~resErr => ResultOf(f) = Range(FileReports(f))
<1>1. Types /\ OwnReports /\ Delivered /\ ErrorKept /\ Waited
  BY DEF IInv
<1>2. InputType(input[f])
  BY <1>1, GoroutineInputs DEF Types
<1>3. ResultOf(f) \subseteq Range(FileReports(f))
  BY <1>1 DEF ResultOf, OwnReports
<1>4. ASSUME returned = "reports", ~resErr PROVE Range(FileReports(f)) \subseteq ResultOf(f)
  <2>1. pc[f] \in Past
    BY <1>1, <1>4 DEF Waited, Past
  <2>2. ~Fails(f)
    BY <1>1, <1>4, <2>1 DEF ErrorKept
  <2> QED BY <1>1, <1>4, <2>1, <2>2 DEF Delivered
<1> QED BY <1>2, <1>3, <1>4

(* DiffReports returns only reports that are new: none of a kept line      *)
(* that had one before, wherever it has moved to, unless lines were        *)
(* inserted before the first one.                                          *)
THEOREM OnlyNewReportsHolds == Spec => []OnlyNewReports
<1>1. IInv => OnlyNewReports
  <2> SUFFICES ASSUME IInv, NEW f \in Files, NEW l \in ResultOf(f)
               PROVE  /\ l \in (input[f].new \ input[f].ignored)
                      /\ InsertedOnTop(input[f]) \/ OldLineOf(input[f], l) \notin input[f].old
    BY DEF OnlyNewReports
  <2>1. InputType(input[f]) /\ l \in Range(DiffReportsList(input[f]))
    BY ReportsOfFile DEF FileReports
  <2> QED BY <2>1, DiffReportsListRight
<1> QED BY <1>1, Invariant, PTL

(* As long as nothing was deleted or inserted on top, every new report is  *)
(* returned when no blame failed.                                          *)
THEOREM AdditionsReportedHolds == Spec => []AdditionsReported
<1>1. IInv => AdditionsReported
  <2> SUFFICES ASSUME IInv, returned = "reports", ~resErr, NEW f \in Files,
                      \A i \in 0..input[f].kept : input[f].del[i] = 0, ~InsertedOnTop(input[f]),
                      NEW l \in (input[f].new \ input[f].ignored), OldLineOf(input[f], l) \notin input[f].old
               PROVE  l \in ResultOf(f)
    BY DEF AdditionsReported
  <2>1. InputType(input[f]) /\ ResultOf(f) = Range(DiffReportsList(input[f]))
    BY ReportsOfFile DEF FileReports
  <2>2. NoDeletions(input[f])
    BY DEF NoDeletions
  <2> QED BY <2>1, <2>2, DiffReportsListRight
<1> QED BY <1>1, Invariant, PTL

(* Without an error the caller gets the reports of every file, each once   *)
(* and sorted by line, whatever the order the goroutines run in; of a      *)
(* file that the diff does not mention exactly the reports on lines that   *)
(* had none.                                                               *)
THEOREM EveryFileOnceHolds == Spec => []EveryFileOnce
<1>1. IInv => EveryFileOnce
  <2> SUFFICES ASSUME IInv, returned = "reports", ~resErr PROVE
        /\ \A i, j \in DOMAIN res : i < j /\ res[i][1] = res[j][1] => res[i][2] < res[j][2]
        /\ \A f \in Files : input[f].unchanged => ResultOf(f) = (input[f].new \ input[f].old) \ input[f].ignored
    BY DEF EveryFileOnce
  <2>1. InOrder
    BY DEF IInv
  <2>2. ASSUME NEW f \in Files, input[f].unchanged
        PROVE  ResultOf(f) = (input[f].new \ input[f].old) \ input[f].ignored
    <3> DEFINE s == input[f]
    <3>1. InputType(s) /\ ResultOf(f) = Range(DiffReportsList(s))
      BY ReportsOfFile DEF FileReports
    <3>2. ~InsertedOnTop(s) /\ NoDeletions(s) /\ \A l \in s.new : OldLineOf(s, l) = l
      BY <2>2, <3>1, UnchangedLines
    <3> HIDE DEF s
    <3>3. /\ Range(DiffReportsList(s)) \subseteq s.new \ s.ignored
          /\ \A l \in Range(DiffReportsList(s)) : OldLineOf(s, l) \notin s.old
          /\ \A l \in s.new \ s.ignored : OldLineOf(s, l) \notin s.old => l \in Range(DiffReportsList(s))
      BY <3>1, <3>2, DiffReportsListRight
    <3> QED BY <3>1, <3>2, <3>3 DEF s
  <2> QED BY <2>1, <2>2 DEF InOrder
<1> QED BY <1>1, Invariant, PTL

-----------------------------------------------------------------------------
(* What can be said here of its end: until the caller has its answer and   *)
(* every goroutine has exited someone can go on, and each of them only     *)
(* ever goes forward.                                                      *)
GoroutineCanGoOn(f) ==
    \/ pc[f] = "start" /\ slots < MaxConcurrency
    \/ pc[f] \in {"diff", "wgDone", "release"}

CallerCanGoOn == returned = "no" /\ \A f \in Files : pc[f] \in {"release", "exit"}

NobodyWaitsForNobody ==
    \/ returned # "no" /\ \A f \in Files : pc[f] = "exit"
    \/ CallerCanGoOn
    \/ \E f \in Files : GoroutineCanGoOn(f)

PcWeight == [start |-> 4, diff |-> 3, wgDone |-> 2, release |-> 1, exit |-> 0]
Turn == [f \in Files |-> PcWeight[pc[f]]]
CallerWeight == IF returned = "no" THEN 1 ELSE 0

(* The steps that are left to all of them.                                 *)
StepsLeft == SumFunctionOnSet(Turn, Files) + CallerWeight

LEMMA SomeoneCanGoOn == IInv => NobodyWaitsForNobody
<1> SUFFICES ASSUME IInv, ~CallerCanGoOn, \A f \in Files : ~GoroutineCanGoOn(f)
             PROVE  returned # "no" /\ \A f \in Files : pc[f] = "exit"
  BY DEF NobodyWaitsForNobody
<1>1. Holders = {}
  BY DEF Holders, GoroutineCanGoOn
<1>2. slots = 0
  BY <1>1, FS_EmptySet DEF IInv, SlotsTaken
<1>3. \A f \in Files : pc[f] = "exit"
  BY <1>2, ReportDiffAssumption DEF IInv, Types, GoroutineCanGoOn
<1> QED BY <1>3 DEF CallerCanGoOn

LEMMA TurnType == Types => \A f \in Files : Turn[f] \in Nat
BY DEF Types, Turn, PcWeight

LEMMA StepsNatural == Types => SumFunctionOnSet(Turn, Files) \in Nat /\ CallerWeight \in Nat
<1> SUFFICES ASSUME Types PROVE SumFunctionOnSet(Turn, Files) \in Nat /\ CallerWeight \in Nat
  OBVIOUS
<1>1. SumFunctionOnSet(Turn, Files) \in Nat
  BY TurnType, SumNat, ReportDiffAssumption
<1> QED BY <1>1 DEF CallerWeight

LEMMA StepCounts ==
    ASSUME Types, Types', Next
    PROVE  StepsLeft' < StepsLeft \/ UNCHANGED vars
<1>1. ASSUME NEW f \in Files, Goroutine(f)
      PROVE  StepsLeft' < StepsLeft
  <2> USE DEF Goto
  <2>1. \A g \in Files \ {f} : pc'[g] = pc[g]
    BY <1>1 DEF Goroutine, Acquire, BlameFails, AppendReports, WgDone, Release, Types
  <2>2. <<pc[f], pc'[f]>> \in {<<"start", "diff">>, <<"diff", "wgDone">>, <<"wgDone", "release">>, <<"release", "exit">>}
    BY <1>1 DEF Goroutine, Acquire, BlameFails, AppendReports, WgDone, Release, Types
  <2>3. Turn[f] \in Nat /\ Turn'[f] = Turn[f] - 1
    BY <2>2 DEF Turn, PcWeight
  <2>4. (\A g \in Files : Turn[g] \in Nat) /\ (\A g \in Files : Turn'[g] \in Nat)
    <3>1. \A g \in Files : Turn'[g] \in Nat
      BY DEF Types, Turn, PcWeight
    <3> QED BY <3>1, TurnType
  <2>5. \A g \in Files \ {f} : Turn'[g] = Turn[g]
    BY <2>1 DEF Turn
  <2>6. IsFiniteSet(Files) /\ \A g \in Files : Turn[g] \in Int /\ Turn'[g] \in Int
    BY <2>4, ReportDiffAssumption
  <2>7. SumFunctionOnSet(Turn', Files) = (SumFunctionOnSet(Turn, Files) - Turn[f]) + Turn'[f]
    BY <2>5, <2>6, SumChange
  <2>8. CallerWeight' = CallerWeight
    BY <1>1 DEF Goroutine, Acquire, BlameFails, AppendReports, WgDone, Release, CallerWeight
  <2>9. SumFunctionOnSet(Turn, Files) \in Nat /\ CallerWeight \in Nat
    BY StepsNatural
  <2>10. SumFunctionOnSet(Turn', Files) = SumFunctionOnSet(Turn, Files) - 1
    BY <2>3, <2>7, <2>9
  <2>11. StepsLeft' = SumFunctionOnSet(Turn', Files) + CallerWeight'
    BY DEF StepsLeft
  <2>12. StepsLeft = SumFunctionOnSet(Turn, Files) + CallerWeight
    BY DEF StepsLeft
  <2> QED BY <2>8, <2>9, <2>10, <2>11, <2>12
<1>2. CASE Return
  <2>1. Turn' = Turn /\ CallerWeight = 1 /\ CallerWeight' = 0
    BY <1>2 DEF Return, Turn, CallerWeight
  <2> QED BY <2>1, StepsNatural DEF StepsLeft
<1> QED BY <1>1, <1>2 DEF Next, Stopped

(* Any number of goroutines share any number of slots without waiting for  *)
(* each other for good, blame failing or not, and no step is made twice:   *)
(* a call is at most four steps for each file and the caller's own.        *)
THEOREM DiffReportsRunsOut ==
    Spec => []NobodyWaitsForNobody /\ [](StepsLeft \in Nat) /\ [][StepsLeft' < StepsLeft]_vars
<1>1. IInv => NobodyWaitsForNobody
  BY SomeoneCanGoOn
<1>2. IInv => StepsLeft \in Nat
  BY StepsNatural DEF IInv, StepsLeft
<1>3. IInv /\ IInv' /\ [Next]_vars => [StepsLeft' < StepsLeft]_vars
  BY StepCounts DEF IInv
<1> QED BY <1>1, <1>2, <1>3, Invariant, PTL DEF Spec
=============================================================================
