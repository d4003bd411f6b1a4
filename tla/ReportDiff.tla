----------------------------- MODULE ReportDiff -----------------------------
(***************************************************************************)
(* linter.DiffReports (linter/report.go): which reports of the new         *)
(* versions of the files are new, given the reports of the old versions    *)
(* and the hunks of "git diff -U0" as git/diff.go reads them.              *)
(*                                                                         *)
(* How a file was edited is an edit script: it keeps kept lines and, in    *)
(* the gap before, between and after them, deletes del[i] and adds add[i]  *)
(* lines.  git prints one hunk per gap where something happened.  The      *)
(* reports of a line are told apart by nothing but the line they are on.   *)
(* One goroutine per file with new reports runs git blame and walks the    *)
(* lines, MaxConcurrency of them at a time.                                *)
(***************************************************************************)
EXTENDS Integers, Sequences, FiniteSets, SequencesExt

CONSTANTS
    Files,              \* files with reports in their new version
    MaxConcurrency,
    Inputs              \* what the files may look like: see InputType

-----------------------------------------------------------------------------
(* git diff -U0 (external) and its reading by git.Change.                  *)

SumBefore(g, i) == SumFunctionOnSet(g, 0..(i - 1))

(* Lines of either version before gap i.                                   *)
OldBefore(s, i) == i + SumBefore(s.del, i)
NewBefore(s, i) == i + SumBefore(s.add, i)

(* unchanged: no entry for the file in the list of changes.  A report is   *)
(* on a line of its version.                                               *)
InputType(s) ==
    /\ s.kept \in Nat
    /\ s.del \in [0..s.kept -> Nat]
    /\ s.add \in [0..s.kept -> Nat]
    /\ s.old \subseteq 1..(OldBefore(s, s.kept + 1) - 1)
    /\ s.new \subseteq 1..(NewBefore(s, s.kept + 1) - 1) /\ s.new # {}
    /\ s.ignored \subseteq Nat
    /\ s.unchanged \in BOOLEAN
    /\ s.unchanged => \A i \in 0..s.kept : s.del[i] = 0 /\ s.add[i] = 0
    /\ s.blameFails \in BOOLEAN

ASSUME ReportDiffAssumption ==
    /\ IsFiniteSet(Files)
    /\ MaxConcurrency \in Nat \ {0}
    /\ \A i \in Inputs : DOMAIN i = Files /\ \A f \in Files : InputType(i[f])

(* "start,len", or "start" alone when len is 1.  "+1357,2 means two lines, *)
(* 1357 and 1358, not 1357-1359".  -U0 gives an empty side the number of   *)
(* the line before it.                                                     *)
ParseLineRange(start, len) ==
    LET rangeLen == IF len > 0 THEN len - 1 ELSE 0 IN
    [From |-> start, To |-> start + rangeLen, HaveRange |-> len # 1, Range |-> rangeLen]

HunkOf(s, i) ==
    [old |-> ParseLineRange(OldBefore(s, i) + (IF s.del[i] > 0 THEN 1 ELSE 0), s.del[i]),
     new |-> ParseLineRange(NewBefore(s, i) + (IF s.add[i] > 0 THEN 1 ELSE 0), s.add[i])]

Hunks(s) == {HunkOf(s, i) : i \in {j \in 0..s.kept : s.del[j] + s.add[j] > 0}}

-----------------------------------------------------------------------------
(* diffReportsList.                                                        *)

Largest(S) == CHOOSE m \in S \union {0} : \A n \in S : n <= m

(* Mutant: the reports of the old version are not looked at.               *)
MaybeAppendReportsAlways(s, newLine, oldLine) ==
    IF newLine \in s.new \ s.ignored THEN <<newLine>> ELSE <<>>

MaybeAppendReports(s, newLine, oldLine) ==
    IF newLine \in s.new \ s.ignored /\ oldLine \notin s.old THEN <<newLine>> ELSE <<>>

(* Mutant: an addition leaves oldLine alone, so that every added line is   *)
(* compared with the old line before it.                                   *)
AppendAdditionsCompared(s, from, to, oldLine) ==
    FoldLeftDomain(LAMBDA lines, k : lines \o MaybeAppendReports(s, from + k, oldLine), <<>>,
                   [k \in 1..(to - from) |-> from + k])

(* The inner loop over the rest of a hunk: the old line is 0, which has no *)
(* reports, so that "all changes and additions" are checked.               *)
AppendAdditions(s, from, to, oldLine) ==
    FoldLeftDomain(LAMBDA lines, k : lines \o MaybeAppendReports(s, from + k, 0), <<>>,
                   [k \in 1..(to - from) |-> from + k])

(* One iteration of the walk over the lines of both versions; changesMap   *)
(* is the hunk oldLine belongs to.                                         *)
WalkLine(s, hunks, st) ==
    LET oldLine == st.oldLine + 1
        newLine == st.newLine + 1
        changes == {h \in hunks : oldLine \in h.old.From..h.old.To}
        here == MaybeAppendReports(s, newLine, oldLine)
    IN  IF changes = {}
          THEN [oldLine |-> oldLine, newLine |-> newLine, res |-> st.res \o here]
          ELSE LET ch == CHOOSE h \in changes : TRUE IN
               IF ch.new.HaveRange /\ ch.new.Range = 0
                 THEN [st EXCEPT !.oldLine = ch.old.To]
                 ELSE [oldLine |-> ch.old.To,
                       newLine |-> Largest({newLine, ch.new.To}),
                       res |-> st.res \o here \o AppendAdditions(s, newLine, ch.new.To, oldLine)]

DiffReportsList(s) ==
    LET hunks == Hunks(s)
        maxLine == Largest(s.old \union s.new)
        Walk(st, i) == CHOOSE next \in {WalkLine(s, hunks, x) : x \in {st}} : TRUE
    IN  FoldLeftDomain(Walk, [oldLine |-> 0, newLine |-> 0, res |-> <<>>], [i \in 1..maxLine |-> i]).res

-----------------------------------------------------------------------------
(* DiffReports and its goroutines.                                         *)

VARIABLES
    input,      \* the files' edit scripts and reports
    pc,         \* each file's goroutine
    slots,      \* the semaphore limitCh: how many goroutines are in it
    res,        \* reports collected so far, as pairs <<file, line>>
    resErr,     \* the error a goroutine left
    returned    \* "no", "reports" or "error", what the caller sees

vars == <<input, pc, slots, res, resErr, returned>>

TypeOK ==
    /\ DOMAIN input = Files
    /\ pc \in [Files -> {"start", "diff", "wgDone", "release", "exit"}]
    /\ slots \in 0..MaxConcurrency
    /\ \A i \in DOMAIN res : res[i][1] \in Files /\ res[i][2] \in Nat \ {0}
    /\ resErr \in BOOLEAN
    /\ returned \in {"no", "reports", "error"}

Init ==
    /\ input \in Inputs
    /\ pc = [f \in Files |-> "start"]
    /\ slots = 0
    /\ res = <<>>
    /\ resErr = FALSE
    /\ returned = "no"

Goto(f, l) == pc' = [pc EXCEPT ![f] = l]

Acquire(f) ==
    /\ pc[f] = "start"
    /\ slots < MaxConcurrency
    /\ slots' = slots + 1
    /\ Goto(f, "diff")
    /\ UNCHANGED <<input, res, resErr, returned>>

(* Only a changed file is blamed; the error is kept under mu.              *)
BlameFails(f) ==
    /\ pc[f] = "diff"
    /\ ~input[f].unchanged
    /\ input[f].blameFails
    /\ resErr' = TRUE
    /\ Goto(f, "wgDone")
    /\ UNCHANGED <<input, slots, res, returned>>

(* res = append(res, reports...), under mu.                                *)
AppendReports(f) ==
    /\ pc[f] = "diff"
    /\ input[f].unchanged \/ ~input[f].blameFails
    /\ LET lines == DiffReportsList(input[f]) IN
         res' = res \o [i \in DOMAIN lines |-> <<f, lines[i]>>]
    /\ Goto(f, "wgDone")
    /\ UNCHANGED <<input, slots, resErr, returned>>

(* The two deferred calls, the last one first.                             *)
WgDone(f) ==
    /\ pc[f] = "wgDone"
    /\ Goto(f, "release")
    /\ UNCHANGED <<input, slots, res, resErr, returned>>

(* Mutant: the slot is not given back.                                     *)
ReleaseForgotten(f) ==
    /\ pc[f] = "release"
    /\ Goto(f, "exit")
    /\ UNCHANGED <<input, slots, res, resErr, returned>>

Release(f) ==
    /\ pc[f] = "release"
    /\ slots' = slots - 1
    /\ Goto(f, "exit")
    /\ UNCHANGED <<input, res, resErr, returned>>

(* Mutant: the caller does not wait for the wait group.                    *)
ReturnEarly ==
    /\ returned = "no"
    /\ \E f \in Files : pc[f] \in {"release", "exit"}
    /\ returned' = "reports"
    /\ res' = IF resErr THEN <<>> ELSE res
    /\ UNCHANGED <<input, pc, slots, resErr>>

(* After wg.Wait.  With resErr set the code returns (nil, err), and err is *)
(* the named result, which nobody has assigned: an empty list, no error.   *)
Return ==
    /\ returned = "no"
    /\ \A f \in Files : pc[f] \in {"release", "exit"}
    /\ returned' = "reports"
    /\ res' = IF resErr THEN <<>> ELSE res
    /\ UNCHANGED <<input, pc, slots, resErr>>

Goroutine(f) ==
    \/ Acquire(f)
    \/ BlameFails(f)
    \/ AppendReports(f)
    \/ WgDone(f)
    \/ Release(f)

Stopped ==
    /\ returned # "no"
    /\ \A f \in Files : pc[f] = "exit"
    /\ UNCHANGED vars

Next ==
    \/ \E f \in Files : Goroutine(f)
    \/ Return
    \/ Stopped

Spec == Init /\ [][Next]_vars

(* Each goroutine runs when it can; one that waits for a slot gets it, for *)
(* those that hold one are fewer than the files.                           *)
FairSpec ==
    /\ Spec
    /\ \A f \in Files : WF_vars(Goroutine(f))
    /\ WF_vars(Return)

-----------------------------------------------------------------------------
(* Correctness, against the edit script.                                   *)

KeptLines(s) == 1..s.kept
OldLineOf(s, l) ==
    IF \E k \in KeptLines(s) : NewBefore(s, k) = l
      THEN OldBefore(s, CHOOSE k \in KeptLines(s) : NewBefore(s, k) = l)
      ELSE 0
AddedLines(s) == (1..(NewBefore(s, s.kept + 1) - 1)) \ {NewBefore(s, k) : k \in KeptLines(s)}

ResultOf(f) == {res[i][2] : i \in {j \in DOMAIN res : res[j][1] = f}}

(* git numbers an insertion before the first line as line 0 of the old     *)
(* version, a line the walk never visits.                                  *)
InsertedOnTop(s) == s.del[0] = 0 /\ s.add[0] > 0

(* report.go: "DiffReports returns only reports that are new".  A report   *)
(* on a line that was kept, where the old version had reports, is not      *)
(* returned, wherever hunks before it have moved it to; nor is one of a    *)
(* commit that asked for it ("@linter disable").                           *)
OnlyNewReports ==
    returned = "reports" => \A f \in Files : \A l \in ResultOf(f) :
        /\ l \in (input[f].new \ input[f].ignored)
        /\ InsertedOnTop(input[f]) \/ OldLineOf(input[f], l) \notin input[f].old

(* Without an error every file delivers its own reports, each once and     *)
(* sorted by line, whatever the order its goroutine comes to run in, and   *)
(* the caller gets all of them.                                            *)
EveryFileOnce ==
    returned = "reports" /\ ~resErr =>
        /\ \A i, j \in DOMAIN res : i < j /\ res[i][1] = res[j][1] => res[i][2] < res[j][2]
        /\ \A f \in Files :
            input[f].unchanged => ResultOf(f) = (input[f].new \ input[f].old) \ input[f].ignored

(* A new problem is not missed as long as nothing was deleted or inserted  *)
(* on top: reports on added lines, and on kept lines that had none.        *)
AdditionsReported ==
    returned = "reports" /\ ~resErr =>
        \A f \in Files :
            LET s == input[f] IN
            (\A i \in 0..s.kept : s.del[i] = 0) /\ ~InsertedOnTop(s) =>
                \A l \in (s.new \ s.ignored) : OldLineOf(s, l) \notin s.old => l \in ResultOf(f)

(* DiffReports returns, also when blame fails.                             *)
Returns == <>(returned # "no")

(* report.go, in the walk: "all changes and additions must be checked".    *)
(* Even where the old version had no reports at all, and nothing was       *)
(* inserted on top: a report on an added or changed line is returned.      *)
AllChangesChecked ==
    returned = "reports" /\ ~resErr =>
        \A f \in Files :
            LET s == input[f] IN
            s.old = {} /\ ~InsertedOnTop(s) =>
                (AddedLines(s) \intersect s.new) \ s.ignored \subseteq ResultOf(f)
=============================================================================
