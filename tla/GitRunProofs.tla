---------------------------- MODULE GitRunProofs ----------------------------
(***************************************************************************)
(* What the index holds when the new versions have been analysed, and when *)
(* the exit code is 2, for any set of files and versions, any renames that *)
(* git finds and any command lines.                                        *)
(*                                                                         *)
(* Phases says what each phase of a mode may rely on: no name of the       *)
(* repository is indexed before the last commit is, from then on the index *)
(* agrees with it, and the batch that comes next is in the index when it   *)
(* is analysed.  Exact adds what the reports are from phase to phase.      *)
(***************************************************************************)
EXTENDS GitRun, TLAPS

Fresh(i) == \A f \in Files : RepoName(f) \notin DOMAIN i
Agrees(i) ==
    \A f \in Files : IF to[f] = Absent THEN RepoName(f) \notin DOMAIN i
                     ELSE RepoName(f) \in DOMAIN i /\ i[RepoName(f)] = to[f]
Holds(i, batch) == \A n \in DOMAIN batch : n \in DOMAIN i /\ i[n] = batch[n]

Phases ==
    /\ pc \in {"initStubs", "gitMain", "commitIndex"} => Fresh(info)
    /\ pc \in {"initStubs", "gitMain"} => analysed = <<>>
    /\ pc \in {"gitMain", "localIndex", "localOld", "localIndexNew", "localNew",
               "commitIndex", "commitOld", "commitIndexNew", "commitNew",
               "fullIndexOld", "fullOld", "fullIndexNew", "fullNew"} => config.git
    /\ pc \in {"commitOld", "commitIndexNew", "commitNew", "fullNew"} => Agrees(info)
    /\ pc \in {"index", "lint"} => ~config.git
    /\ pc \in {"localIndex", "localOld", "localIndexNew", "localNew"} => HasLocalChanges
    /\ pc = "lint" => Holds(info, ReadFilenames(Files))
    /\ pc = "localNew" => Holds(info, LocalNewFiles)
    /\ pc = "commitNew" => Holds(info, ReadFilesFromGitWithChanges(CommitChanges))
    /\ pc = "fullNew" => Holds(info, ReadFilesFromGit(to))
    /\ pc \in {"diff", "exit", "done"} =>
         /\ Holds(info, analysed)
         /\ CommitMode => Agrees(info)

-----------------------------------------------------------------------------
(* A batch that is indexed is in the index, before what was there.         *)
LEMMA Overlay ==
    ASSUME NEW b, NEW i
    PROVE  /\ DOMAIN Over(b, i) = DOMAIN b \union DOMAIN i
           /\ \A n \in DOMAIN b : Over(b, i)[n] = b[n]
           /\ \A n \in DOMAIN i \ DOMAIN b : Over(b, i)[n] = i[n]
  BY DEF Over

LEMMA OverlayHolds == ASSUME NEW b, NEW i PROVE Holds(Over(b, i), b)
  BY Overlay DEF Holds

(* The names of a batch.                                                   *)
LEMMA NamedRepo ==
    ASSUME NEW tree, NEW fs
    PROVE  /\ DOMAIN Named(RepoName, tree, fs) = {RepoName(f) : f \in {g \in fs : tree[g] # Absent}}
           /\ \A f \in fs : tree[f] # Absent => Named(RepoName, tree, fs)[RepoName(f)] = tree[f]
  BY DEF Named, RepoName

LEMMA NamedAbs ==
    ASSUME NEW tree, NEW fs
    PROVE  DOMAIN Named(AbsName, tree, fs) = {AbsName(f) : f \in {g \in fs : tree[g] # Absent}}
  BY DEF Named

LEMMA NamesApart ==
    ASSUME NEW f, NEW g
    PROVE  /\ RepoName(f) # AbsName(g) /\ RepoName(f) # StubName /\ RepoName(f) # LibName
           /\ RepoName(f) = RepoName(g) => f = g
  BY DEF RepoName, AbsName, StubName, LibName

(* No stub and no index-only file has a name of the repository.            *)
LEMMA StubsFresh == Fresh(Stubs) /\ Fresh(IndexOnly) /\ Fresh(InitStubs)
<1>1. Fresh(Stubs)
  BY NamesApart DEF Fresh, Stubs, Single
<1>2. Fresh(IndexOnly)
  BY NamesApart DEF Fresh, IndexOnly, Empty, Single
<1>3. Fresh(InitStubs)
  <2>1. Fresh(ReadFilenames(Files))
    <3>1. DOMAIN ReadFilenames(Files) = {AbsName(g) : g \in {h \in Files : work[h] # Absent}}
      BY NamedAbs DEF ReadFilenames
    <3> QED
      BY <3>1, NamesApart DEF Fresh
  <2> QED
    BY <1>1, <2>1 DEF InitStubs
<1> QED
  BY <1>1, <1>2, <1>3

(* The tree of the last commit, over an index that has no other names of   *)
(* the repository; and a part of it over an index that agrees with it.     *)
LEMMA PartAgrees ==
    ASSUME NEW i, NEW fs, fs \subseteq Files,
           \A f \in Files \ fs : IF to[f] = Absent THEN RepoName(f) \notin DOMAIN i
                                 ELSE RepoName(f) \in DOMAIN i /\ i[RepoName(f)] = to[f],
           \A f \in fs : to[f] = Absent => RepoName(f) \notin DOMAIN i
    PROVE  Agrees(Over(Named(RepoName, to, fs), i))
<1> DEFINE batch == Named(RepoName, to, fs)
<1>1. /\ DOMAIN batch = {RepoName(g) : g \in {h \in fs : to[h] # Absent}}
      /\ \A f \in fs : to[f] # Absent => batch[RepoName(f)] = to[f]
  BY NamedRepo
<1>2. \A f \in Files : RepoName(f) \in DOMAIN batch <=> f \in fs /\ to[f] # Absent
  BY <1>1, NamesApart
<1>3. /\ DOMAIN Over(batch, i) = DOMAIN batch \union DOMAIN i
      /\ \A n \in DOMAIN batch : Over(batch, i)[n] = batch[n]
      /\ \A n \in DOMAIN i \ DOMAIN batch : Over(batch, i)[n] = i[n]
  BY Overlay
<1> HIDE DEF batch
<1>4. ASSUME NEW f \in Files
      PROVE  IF to[f] = Absent THEN RepoName(f) \notin DOMAIN Over(batch, i)
             ELSE RepoName(f) \in DOMAIN Over(batch, i) /\ Over(batch, i)[RepoName(f)] = to[f]
  <2>1. CASE f \in fs
    BY <1>1, <1>2, <1>3, <2>1
  <2>2. CASE f \notin fs
    BY <1>2, <1>3, <2>2
  <2> QED
    BY <2>1, <2>2
<1> QED
  BY <1>4 DEF Agrees, batch

LEMMA TreeAgrees ==
    ASSUME NEW i, Fresh(i)
    PROVE  /\ Agrees(Over(ReadFilesFromGit(to), i))
           /\ Agrees(Over(Over(IndexOnly, ReadFilesFromGit(to)), i))
<1>1. Agrees(Over(ReadFilesFromGit(to), i))
  BY PartAgrees DEF Fresh, ReadFilesFromGit
<1>2. ASSUME NEW f \in Files
      PROVE  LET name == RepoName(f)
                 left == Over(ReadFilesFromGit(to), i)
                 right == Over(Over(IndexOnly, ReadFilesFromGit(to)), i)
             IN  /\ name \in DOMAIN left <=> name \in DOMAIN right
                 /\ name \in DOMAIN left => left[name] = right[name]
  <2>1. RepoName(f) \notin DOMAIN IndexOnly
    BY StubsFresh DEF Fresh
  <2> QED
    BY <2>1 DEF Over
<1> QED
  BY <1>1, <1>2 DEF Agrees

-----------------------------------------------------------------------------
(* git pairs each file that is gone with one new file at most, and each     *)
(* new file with one that is gone.                                         *)
LEMMA RenamesPaired ==
    ASSUME NEW old, NEW new
    PROVE  /\ Renames(old, new) \subseteq MayBeRenamed(old, new)
           /\ OneToOne(Renames(old, new))
<1> DEFINE may == MayBeRenamed(old, new)
           Pairing(r) == OneToOne(r) /\ (r = {} => may = {})
<1>1. \E r \in SUBSET may : Pairing(r)
  <2>1. CASE may = {}
    BY <2>1 DEF OneToOne
  <2>2. CASE may # {}
    <3>1. PICK p \in may : TRUE
      BY <2>2
    <3>2. {p} \in SUBSET may /\ Pairing({p})
      BY <3>1 DEF OneToOne
    <3> QED BY <3>2
  <2> QED BY <2>1, <2>2
<1>2. CASE config.findsRenames
  <2>1. Renames(old, new) = CHOOSE r \in SUBSET may : Pairing(r)
    BY <1>2 DEF Renames
  <2> HIDE DEF may, Pairing
  <2>2. Renames(old, new) \in SUBSET may /\ Pairing(Renames(old, new))
    BY <1>1, <2>1
  <2> QED BY <2>2 DEF may, Pairing
<1>3. CASE ~config.findsRenames
  BY <1>3 DEF Renames, OneToOne
<1> QED BY <1>2, <1>3

LEMMA PhasesInit == Init => Phases
<1>1. DOMAIN <<>> = {}
  OBVIOUS
<1>2. Fresh(<<>>)
  BY <1>1 DEF Fresh
<1> QED
  BY <1>2 DEF Init, Phases

(* What a mode is about does not change.                                   *)
LEMMA InputFixed ==
    ASSUME UNCHANGED input
    PROVE  /\ (config.git)' = config.git /\ to' = to
           /\ HasLocalChanges' = HasLocalChanges /\ CommitMode' = CommitMode
           /\ ReadFilenames(Files)' = ReadFilenames(Files)
           /\ LocalNewFiles' = LocalNewFiles
           /\ ReadFilesFromGitWithChanges(CommitChanges)' = ReadFilesFromGitWithChanges(CommitChanges)
           /\ ReadFilesFromGit(to)' = ReadFilesFromGit(to)
<1> USE DEF config, to, from, work
<1>1. LocalChanges' = LocalChanges /\ CommitChanges' = CommitChanges
  BY DEF LocalChanges, CommitChanges, Tracked, Diff, Renames, MayBeRenamed
<1>2. HasLocalChanges' = HasLocalChanges
  BY <1>1 DEF HasLocalChanges
<1>3. ReadFilenames(Files)' = ReadFilenames(Files) /\ ReadFilesFromGit(to)' = ReadFilesFromGit(to)
  BY DEF ReadFilenames, ReadFilesFromGit, Named
<1>4. LocalNewFiles' = LocalNewFiles
  BY <1>1 DEF LocalNewFiles, GitUntracked, ReadFilenames, ReadChangesFromWorkTree, WorkName,
              Named, Over
<1>5. ReadFilesFromGitWithChanges(CommitChanges)' = ReadFilesFromGitWithChanges(CommitChanges)
  BY <1>1 DEF ReadFilesFromGitWithChanges, Named
<1> QED
  BY <1>2, <1>3, <1>4, <1>5 DEF CommitMode

LEMMA PhasesPrimed ==
    ASSUME UNCHANGED input,
           pc' \in {"initStubs", "gitMain", "commitIndex"} => Fresh(info'),
           pc' \in {"initStubs", "gitMain"} => analysed' = <<>>,
           pc' \in {"gitMain", "localIndex", "localOld", "localIndexNew", "localNew",
                    "commitIndex", "commitOld", "commitIndexNew", "commitNew",
                    "fullIndexOld", "fullOld", "fullIndexNew", "fullNew"} => config.git,
           pc' \in {"commitOld", "commitIndexNew", "commitNew", "fullNew"} => Agrees(info'),
           pc' \in {"index", "lint"} => ~config.git,
           pc' \in {"localIndex", "localOld", "localIndexNew", "localNew"} => HasLocalChanges,
           pc' = "lint" => Holds(info', ReadFilenames(Files)),
           pc' = "localNew" => Holds(info', LocalNewFiles),
           pc' = "commitNew" => Holds(info', ReadFilesFromGitWithChanges(CommitChanges)),
           pc' = "fullNew" => Holds(info', ReadFilesFromGit(to)),
           pc' \in {"diff", "exit", "done"} => Holds(info', analysed'),
           pc' \in {"diff", "exit", "done"} => (CommitMode => Agrees(info'))
    PROVE  Phases'
<1>1. /\ (config.git)' = config.git /\ to' = to
      /\ HasLocalChanges' = HasLocalChanges /\ CommitMode' = CommitMode
      /\ ReadFilenames(Files)' = ReadFilenames(Files)
      /\ LocalNewFiles' = LocalNewFiles
      /\ ReadFilesFromGitWithChanges(CommitChanges)' = ReadFilesFromGitWithChanges(CommitChanges)
      /\ ReadFilesFromGit(to)' = ReadFilesFromGit(to)
  BY InputFixed
<1> HIDE DEF config, to
<1> QED
  BY <1>1 DEF Phases, Fresh, Agrees, Holds

LEMMA PhasesStep == Phases /\ [Next]_vars => Phases'
<1> SUFFICES ASSUME Phases, [Next]_vars PROVE Phases'
  OBVIOUS
<1> USE DEF Phases, Goto, Index, AnalyseOld, Analyse, ParseFilenames
<1>1. CASE MainInitStubs
  <2>1. Fresh(Over(Stubs, <<>>))
    <3>1. DOMAIN <<>> = {}
      OBVIOUS
    <3>2. DOMAIN Over(Stubs, <<>>) = DOMAIN Stubs \union DOMAIN <<>>
      BY Overlay
    <3> QED
      BY <3>1, <3>2, StubsFresh DEF Fresh
  <2> QED
    BY <1>1, <2>1, PhasesPrimed DEF MainInitStubs, Empty
<1>2. CASE IndexArguments
  BY <1>2, OverlayHolds, PhasesPrimed DEF IndexArguments
<1>3. CASE LintArguments
  BY <1>3, PhasesPrimed DEF LintArguments, CommitMode
<1>4. CASE GitMain
  <2>1. CASE HasLocalChanges
    BY <1>4, <2>1, PhasesPrimed DEF GitMain
  <2>2. CASE ~HasLocalChanges /\ config.authorAllowed
    BY <1>4, <2>2, PhasesPrimed DEF GitMain
  <2>3. CASE ~HasLocalChanges /\ ~config.authorAllowed
    <3>1. pc' = "done" /\ analysed' = <<>> /\ UNCHANGED input /\ ~CommitMode
      BY <1>4, <2>3 DEF GitMain, CommitMode
    <3>2. \A i : Holds(i, <<>>)
      BY DEF Holds
    <3> QED
      BY <3>1, <3>2, PhasesPrimed
  <2> QED
    BY <2>1, <2>2, <2>3
<1>5. CASE LocalIndex \/ LocalOld
  BY <1>5, PhasesPrimed DEF LocalIndex, LocalOld
<1>6. CASE LocalIndexNew
  BY <1>6, OverlayHolds, PhasesPrimed DEF LocalIndexNew
<1>7. CASE LocalNew
  BY <1>7, PhasesPrimed DEF LocalNew, CommitMode
<1>8. CASE CommitIndex
  BY <1>8, TreeAgrees, PhasesPrimed DEF CommitIndex
<1>9. CASE CommitOld
  BY <1>9, PhasesPrimed DEF CommitOld
<1>10. CASE CommitIndexNew
  <2> DEFINE fs == {c.NewName : c \in {d \in CommitChanges : d.Type # "Deleted"}}
  <2>1. Agrees(Over(ReadFilesFromGitWithChanges(CommitChanges), info))
    <3>1. fs \subseteq Files
      BY RenamesPaired DEF CommitChanges, Diff, MayBeRenamed
    <3>2. Agrees(info)
      BY <1>10 DEF CommitIndexNew
    <3>3. Agrees(Over(Named(RepoName, to, fs), info))
      BY <3>1, <3>2, PartAgrees DEF Agrees
    <3> QED
      BY <3>3 DEF ReadFilesFromGitWithChanges
  <2> QED
    BY <1>10, <2>1, OverlayHolds, PhasesPrimed DEF CommitIndexNew
<1>11. CASE CommitNew
  BY <1>11, PhasesPrimed DEF CommitNew
<1>12. CASE FullIndexOld \/ FullOld
  BY <1>12, PhasesPrimed DEF FullIndexOld, FullOld
<1>13. CASE FullIndexNew
  BY <1>13, StubsFresh, TreeAgrees, OverlayHolds, PhasesPrimed DEF FullIndexNew
<1>14. CASE FullNew
  BY <1>14, PhasesPrimed DEF FullNew
<1>15. CASE DiffReports \/ AnalyzeReports
  BY <1>15, PhasesPrimed DEF DiffReports, AnalyzeReports
<1>16. CASE UNCHANGED vars
  BY <1>16, PhasesPrimed DEF vars
<1> QED
  BY <1>1, <1>2, <1>3, <1>4, <1>5, <1>6, <1>7, <1>8, <1>9, <1>10, <1>11, <1>12, <1>13, <1>14,
     <1>15, <1>16 DEF Next, Done

(* The versions that are analysed last are those the index holds; and when *)
(* commits are compared, it holds no symbol that the last one has not.     *)
THEOREM AnalysedAgainstNewTree == Spec => []IndexIsTheNewTree
<1>1. Phases => IndexIsTheNewTree
  BY DEF Phases, Holds, Agrees, IndexIsTheNewTree
<1> QED
  BY <1>1, PhasesInit, PhasesStep, PTL DEF Spec

-----------------------------------------------------------------------------
(* The exit code.  Exact follows the reports through the phases of the     *)
(* modes RunExact is about: the stubs and the index-only files are indexed *)
(* by the time anything is analysed, so that the reports on a batch are    *)
(* the problems of its own versions; and what DiffReports keeps of them is *)
(* there if and only if a problem is new.                                  *)

OwnReports(batch) == {<<n, "own">> : n \in {m \in DOMAIN batch : batch[m] \in Bad}}

(* What is compared with the first commit, and how.                        *)
Target == IF HasLocalChanges THEN Tracked ELSE to
Changes == IF HasLocalChanges THEN LocalChanges ELSE CommitChanges
Whole == ~HasLocalChanges /\ config.fullDiff
OldBatch == IF Whole THEN ReadFilesFromGit(from) ELSE ReadOldFilesFromGit(Changes)
NewBatch ==
    IF HasLocalChanges THEN LocalNewFiles
    ELSE IF config.fullDiff THEN ReadFilesFromGit(to) ELSE ReadFilesFromGitWithChanges(Changes)

Compares ==
    /\ config.git
    /\ IF HasLocalChanges THEN LocalKnows ELSE config.authorAllowed /\ FullDiffKnows
Lints == ~config.git /\ ~config.indexOnly
NewProblems == NewProblem(from, Target) \/ (HasLocalChanges /\ UntrackedProblem)
BadArguments == \E f \in Files : work[f] \in Bad
Reporting(problem) == (reports # {} <=> problem) /\ \A r \in reports : analysed[r[1]] \in Bad

LocalPhases == {"localIndex", "localOld", "localIndexNew", "localNew"}
CommitPhases == {"commitIndex", "commitOld", "commitIndexNew", "commitNew"}
FullPhases == {"fullIndexOld", "fullOld", "fullIndexNew", "fullNew"}

InputOK ==
    /\ from \in Trees /\ to \in Trees /\ work \in Trees
    /\ \A f \in input.untracked : f \in Files /\ work[f] # Absent

(* Everything that the versions use is indexed when they are analysed.     *)
StubsIn ==
    /\ pc \in {"gitMain", "index", "lint"} \union LocalPhases \union CommitPhases
         => StubName \in DOMAIN info
    /\ pc \in {"fullOld", "fullNew"} /\ config.stubsDir => StubName \in DOMAIN info
    /\ pc \in (LocalPhases \union CommitPhases) \ {"localIndex", "commitIndex"} /\ config.indexOnly
         => LibName \in DOMAIN info

Exact ==
    /\ InputOK
    /\ StubsIn
    /\ pc \in CommitPhases \union FullPhases => ~HasLocalChanges
    /\ pc \in CommitPhases => ~config.fullDiff
    /\ pc \in FullPhases => config.fullDiff
    /\ pc \in {"localIndexNew", "localNew", "commitIndexNew", "commitNew", "fullIndexNew", "fullNew", "diff"}
          /\ Compares => oldReports = OwnReports(OldBatch)
    /\ pc = "diff" => config.git
    /\ pc = "diff" /\ Compares => reports = OwnReports(NewBatch) /\ analysed = NewBatch
    /\ pc = "exit" /\ Compares => Reporting(NewProblems)
    /\ pc = "exit" /\ Lints => Reporting(BadArguments)
    /\ status # Running => pc = "done" /\ RunExact

(* What the diff says of a file: nothing, its own change, or the rename    *)
(* that made it, which is one at most.                                     *)
LEMMA DiffEntries ==
    ASSUME NEW old \in Trees, NEW new \in Trees, NEW f \in Files,
           NEW c, c.NewName = f
    PROVE  c \in Diff(old, new) <=>
             \/ /\ old[f] # new[f] /\ new[f] # Absent
                /\ \A p \in Renames(old, new) : p[2] # f
                /\ c = [Type |-> IF old[f] = Absent THEN "Added" ELSE "Changed",
                        OldName |-> IF old[f] = Absent THEN DevNull ELSE f, NewName |-> f]
             \/ \E p \in Renames(old, new) :
                   p[2] = f /\ old[p[1]] # new[f]
                   /\ c = [Type |-> "Changed", OldName |-> p[1], NewName |-> f]
<1> USE GitRunAssumption
<1> DEFINE renames == Renames(old, new)
           Entry(g) == [Type |-> IF old[g] = Absent THEN "Added"
                                 ELSE IF new[g] = Absent THEN "Deleted" ELSE "Changed",
                        OldName |-> IF old[g] = Absent THEN DevNull ELSE g,
                        NewName |-> IF new[g] = Absent THEN DevNull ELSE g]
           Moved(p) == [Type |-> "Changed", OldName |-> p[1], NewName |-> p[2]]
           edited == {g \in Files : old[g] # new[g] /\ \A p \in renames : g \notin {p[1], p[2]}}
<1>1. Diff(old, new) = {Entry(g) : g \in edited}
                       \union {Moved(p) : p \in {q \in renames : old[q[1]] # new[q[2]]}}
  BY DEF Diff
<1>2. \A p \in renames : /\ p[1] \in Files /\ p[2] \in Files
                         /\ old[p[1]] # Absent /\ new[p[1]] = Absent /\ new[p[2]] # Absent
  BY RenamesPaired DEF MayBeRenamed
<1>3. f # DevNull
  OBVIOUS
<1>4. c \in {Entry(g) : g \in edited} <=> f \in edited /\ new[f] # Absent /\ c = Entry(f)
  BY <1>3
<1>5. c \in {Moved(p) : p \in {q \in renames : old[q[1]] # new[q[2]]}}
        <=> \E p \in renames : p[2] = f /\ old[p[1]] # new[f] /\ c = Moved(p)
  OBVIOUS
<1>6. f \in edited /\ new[f] # Absent
        <=> old[f] # new[f] /\ new[f] # Absent /\ \A p \in renames : p[2] # f
  BY <1>2
<1> HIDE DEF renames
<1> QED BY <1>1, <1>4, <1>5, <1>6 DEF renames

LEMMA OneEntry ==
    ASSUME NEW old \in Trees, NEW new \in Trees, NEW f \in Files,
           NEW c \in Diff(old, new), NEW d \in Diff(old, new), c.NewName = f, d.NewName = f
    PROVE  c = d
<1>1. \A p, q \in Renames(old, new) : p[2] = f /\ q[2] = f => p = q
  BY RenamesPaired DEF OneToOne
<1>2. CASE \A p \in Renames(old, new) : p[2] # f
  BY <1>2, DiffEntries
<1>3. CASE \E p \in Renames(old, new) : p[2] = f
  <2>1. PICK p \in Renames(old, new) : p[2] = f
    BY <1>3
  <2>2. c = [Type |-> "Changed", OldName |-> p[1], NewName |-> f]
    BY <1>1, <2>1, DiffEntries
  <2>3. d = [Type |-> "Changed", OldName |-> p[1], NewName |-> f]
    BY <1>1, <2>1, DiffEntries
  <2> QED BY <2>2, <2>3
<1> QED BY <1>2, <1>3

(* What is read of the old versions: the files the diff names that the     *)
(* tree has.                                                               *)
LEMMA OldNames ==
    ASSUME NEW old \in Trees, NEW new \in Trees, NEW c \in Diff(old, new)
    PROVE  IF c.Type = "Added" THEN c.OldName = DevNull
           ELSE c.OldName \in Files /\ old[c.OldName] # Absent
  BY RenamesPaired DEF Diff, MayBeRenamed

(* The batches of a comparison.                                            *)
LEMMA TargetTree ==
    ASSUME InputOK
    PROVE  /\ Target \in Trees /\ Changes = Diff(from, Target)
           /\ HasLocalChanges => \A f \in Files : Target[f] # Absent => Target[f] = work[f]
  BY DEF InputOK, Target, Changes, LocalChanges, CommitChanges, Tracked, Trees

(* The problems the old versions had: of a file that the diff names under  *)
(* its old name; of another, if the whole trees are compared.              *)
LEMMA OldProblem ==
    ASSUME InputOK
    PROVE  /\ \A c \in Changes :
                <<RepoName(c.OldName), "own">> \in OwnReports(OldBatch)
                  <=> c.Type # "Added" /\ from[c.OldName] \in Bad
           /\ Whole => \A f \in Files : <<RepoName(f), "own">> \in OwnReports(OldBatch) <=> from[f] \in Bad
           /\ \A f : <<AbsName(f), "own">> \notin OwnReports(OldBatch)
<1> USE GitRunAssumption
<1> DEFINE fs == IF Whole THEN Files ELSE {d.OldName : d \in {e \in Changes : e.Type # "Added"}}
<1>1. /\ DOMAIN OldBatch = {RepoName(f) : f \in {g \in fs : from[g] # Absent}}
      /\ \A f \in fs : from[f] # Absent => OldBatch[RepoName(f)] = from[f]
  BY NamedRepo DEF OldBatch, ReadOldFilesFromGit, ReadFilesFromGit
<1>2. from \in Trees /\ Target \in Trees /\ Changes = Diff(from, Target)
  BY TargetTree DEF InputOK
<1>3. \A d \in Changes : IF d.Type = "Added" THEN d.OldName = DevNull
                         ELSE d.OldName \in Files /\ from[d.OldName] # Absent
  BY <1>2, OldNames
<1>4. \A c \in Changes : c.OldName \in fs <=> c.Type # "Added"
  BY <1>3
<1>5. Whole => fs = Files
  OBVIOUS
<1> HIDE DEF fs
<1>6. \A f : RepoName(f) \in DOMAIN OldBatch <=> f \in fs /\ from[f] # Absent
  BY <1>1, NamesApart
<1>7. \A n : <<n, "own">> \in OwnReports(OldBatch) <=> n \in DOMAIN OldBatch /\ OldBatch[n] \in Bad
  BY DEF OwnReports
<1>8. \A f : <<RepoName(f), "own">> \in OwnReports(OldBatch)
                <=> f \in fs /\ from[f] # Absent /\ from[f] \in Bad
  BY <1>1, <1>6, <1>7
<1>9. \A f : AbsName(f) \notin DOMAIN OldBatch
  BY <1>1, NamesApart
<1> QED BY <1>3, <1>4, <1>5, <1>7, <1>8, <1>9

(* What is analysed of the new versions: files that the diff names, all    *)
(* files of the last commit, or the untracked ones besides.                *)
LEMMA NewNames ==
    ASSUME InputOK, Compares
    PROVE  /\ \A n \in DOMAIN NewBatch :
                \/ \E f \in Files : n = RepoName(f)
                \/ \E f \in input.untracked : n = AbsName(f) /\ HasLocalChanges /\ config.includeUntracked
           /\ \A f \in Files : RepoName(f) \in DOMAIN NewBatch <=>
                Target[f] # Absent /\ (Whole \/ \E c \in Changes : c.NewName = f)
           /\ \A f \in Files : RepoName(f) \in DOMAIN NewBatch => NewBatch[RepoName(f)] = Target[f]
           /\ HasLocalChanges /\ config.includeUntracked =>
                \A f \in input.untracked : AbsName(f) \in DOMAIN NewBatch /\ NewBatch[AbsName(f)] = work[f]
<1> USE GitRunAssumption
<1> DEFINE fs == IF Whole THEN Files ELSE {d.NewName : d \in {e \in Changes : e.Type # "Deleted"}}
           tree == IF HasLocalChanges THEN work ELSE to
           named == Named(RepoName, tree, fs)
           others == IF HasLocalChanges THEN GitUntracked ELSE Empty
<1>1. from \in Trees /\ Target \in Trees /\ Changes = Diff(from, Target)
  BY TargetTree DEF InputOK
<1>2. /\ DOMAIN named = {RepoName(f) : f \in {g \in fs : tree[g] # Absent}}
      /\ \A f \in fs : tree[f] # Absent => named[RepoName(f)] = tree[f]
  <2> HIDE DEF fs, tree
  <2> QED BY NamedRepo
<1>3. \A c \in Changes : c.NewName \in Files => c.Type # "Deleted" /\ Target[c.NewName] # Absent
  BY <1>1, DiffEntries, RenamesPaired DEF MayBeRenamed
<1>4. fs \subseteq Files
  BY <1>1, RenamesPaired DEF Diff, MayBeRenamed
<1>5. \A f \in Files : f \in fs <=> Whole \/ \E c \in Changes : c.NewName = f
  BY <1>3
<1>6. \A f \in fs : ~Whole => Target[f] # Absent
  BY <1>3, <1>4, <1>5
<1>7. \A f \in Files : Target[f] # Absent => Target[f] = tree[f]
  BY TargetTree DEF Target
<1>8. ~HasLocalChanges => tree = Target
  BY DEF Target
<1>9. /\ HasLocalChanges => NewBatch = Over(GitUntracked, named)
      /\ ~HasLocalChanges => NewBatch = named
  <2>1. CASE HasLocalChanges
    <3>1. config.workTree = "." /\ ~Whole
      BY <2>1 DEF Compares, LocalKnows, Whole
    <3>2. ReadChangesFromWorkTree(LocalChanges) = named
      BY <2>1, <3>1 DEF ReadChangesFromWorkTree, WorkName, Named, RepoName, Changes
    <3> HIDE DEF named
    <3> QED BY <2>1, <3>2 DEF NewBatch, LocalNewFiles
  <2>2. CASE ~HasLocalChanges /\ config.fullDiff
    BY <2>2 DEF NewBatch, ReadFilesFromGit, Whole
  <2>3. CASE ~HasLocalChanges /\ ~config.fullDiff
    BY <2>3 DEF NewBatch, ReadFilesFromGitWithChanges, Whole
  <2> QED BY <2>1, <2>2, <2>3
<1>10. HasLocalChanges =>
         /\ DOMAIN GitUntracked = IF config.includeUntracked THEN {AbsName(f) : f \in input.untracked} ELSE {}
         /\ config.includeUntracked => \A f \in input.untracked : GitUntracked[AbsName(f)] = work[f]
  <2>1. CASE ~config.includeUntracked
    <3>1. DOMAIN <<>> = {}
      OBVIOUS
    <3> QED BY <2>1, <3>1 DEF GitUntracked, Empty
  <2>2. CASE HasLocalChanges /\ config.includeUntracked
    <3>1. GitUntracked = ReadFilenames(input.untracked)
      BY <2>2 DEF GitUntracked, Compares, LocalKnows
    <3>2. \A f \in input.untracked : work[f] # Absent
      BY DEF InputOK
    <3> QED BY <2>2, <3>1, <3>2 DEF ReadFilenames, Named, AbsName
  <2> QED BY <2>1, <2>2
<1> HIDE DEF fs, tree, named, others
<1>11. /\ DOMAIN NewBatch = DOMAIN named \union
             (IF HasLocalChanges /\ config.includeUntracked THEN {AbsName(f) : f \in input.untracked} ELSE {})
       /\ \A f \in Files : RepoName(f) \in DOMAIN named => NewBatch[RepoName(f)] = named[RepoName(f)]
       /\ HasLocalChanges /\ config.includeUntracked =>
            \A f \in input.untracked : NewBatch[AbsName(f)] = work[f]
  <2>1. CASE HasLocalChanges
    <3>1. /\ DOMAIN NewBatch = DOMAIN GitUntracked \union DOMAIN named
          /\ \A n \in DOMAIN GitUntracked : NewBatch[n] = GitUntracked[n]
          /\ \A n \in DOMAIN named \ DOMAIN GitUntracked : NewBatch[n] = named[n]
      <4>1. NewBatch = Over(GitUntracked, named)
        BY <1>9, <2>1
      <4> QED BY <4>1 DEF Over
    <3>2. \A f \in Files : RepoName(f) \notin DOMAIN GitUntracked
      BY <1>10, <2>1, NamesApart
    <3> QED BY <1>10, <2>1, <3>1, <3>2
  <2>2. CASE ~HasLocalChanges
    BY <1>9, <2>2
  <2> QED BY <2>1, <2>2
<1>12. \A f \in Files : RepoName(f) \in DOMAIN named <=> f \in fs /\ tree[f] # Absent
  BY <1>2, NamesApart
<1>13. \A f \in Files : RepoName(f) \in DOMAIN named <=>
                Target[f] # Absent /\ (Whole \/ \E c \in Changes : c.NewName = f)
  <2> TAKE f \in Files
  <2>1. Target[f] # Absent => tree[f] # Absent
    BY <1>7
  <2>2. f \in fs /\ tree[f] # Absent => Target[f] # Absent
    BY <1>6, <1>8 DEF Whole
  <2> QED BY <1>5, <1>12, <2>1, <2>2
<1>14. \A f \in Files : RepoName(f) \in DOMAIN NewBatch <=> RepoName(f) \in DOMAIN named
  BY <1>11, NamesApart
<1>15. \A f \in Files : RepoName(f) \in DOMAIN NewBatch => NewBatch[RepoName(f)] = Target[f]
  BY <1>2, <1>7, <1>11, <1>12, <1>13, <1>14
<1>16. \A n \in DOMAIN NewBatch :
          \/ \E f \in Files : n = RepoName(f)
          \/ \E f \in input.untracked : n = AbsName(f) /\ HasLocalChanges /\ config.includeUntracked
  BY <1>2, <1>4, <1>11
<1> QED BY <1>11, <1>13, <1>14, <1>15, <1>16

(* A problem of the last version of a file is new if and only if the file  *)
(* had none under the name it had before; and that is what the comparison  *)
(* of the reports goes by.                                                 *)
NewIn(f) == from[f] \notin Bad /\ \A p \in Renames(from, Target) : p[2] = f => from[p[1]] \notin Bad
Kept(f) ==
    \/ \E c \in Changes : c.NewName = f /\ <<RepoName(c.OldName), "own">> \notin OwnReports(OldBatch)
    \/ /\ \A c \in Changes : c.NewName # f
       /\ Whole /\ <<RepoName(f), "own">> \notin OwnReports(OldBatch)

LEMMA NewByDiff ==
    ASSUME InputOK, Compares, NEW f \in Files, Target[f] \in Bad
    PROVE  NewIn(f) <=> Kept(f)
<1> USE GitRunAssumption
<1>1. Target[f] # Absent
  OBVIOUS
<1>2. from \in Trees /\ Target \in Trees /\ Changes = Diff(from, Target)
  BY TargetTree DEF InputOK
<1>3. CASE \A p \in Renames(from, Target) : p[2] # f
  <2> DEFINE c == [Type |-> IF from[f] = Absent THEN "Added" ELSE "Changed",
                   OldName |-> IF from[f] = Absent THEN DevNull ELSE f, NewName |-> f]
  <2>1. \A d : d.NewName = f => (d \in Changes <=> from[f] # Target[f] /\ d = c)
    BY <1>1, <1>2, <1>3, DiffEntries
  <2>2. c.NewName = f /\ (c.Type # "Added" /\ from[c.OldName] \in Bad <=> from[f] \in Bad)
    OBVIOUS
  <2> HIDE DEF c
  <2>3. from[f] # Target[f] => (<<RepoName(c.OldName), "own">> \in OwnReports(OldBatch) <=> from[f] \in Bad)
    BY <2>1, <2>2, OldProblem
  <2>4. from[f] = Target[f] =>
          (\A d \in Changes : d.NewName # f) /\ (Whole => <<RepoName(f), "own">> \in OwnReports(OldBatch))
    BY <2>1, OldProblem
  <2> QED BY <1>3, <2>1, <2>2, <2>3, <2>4 DEF NewIn, Kept
<1>4. CASE \E p \in Renames(from, Target) : p[2] = f
  <2>1. PICK p \in Renames(from, Target) : p[2] = f
    BY <1>4
  <2>2. \A q \in Renames(from, Target) : q[2] = f => q = p
    BY <2>1, RenamesPaired DEF OneToOne
  <2>3. from[f] \notin Bad
    BY <2>1, RenamesPaired DEF MayBeRenamed
  <2> DEFINE c == [Type |-> "Changed", OldName |-> p[1], NewName |-> f]
  <2>4. \A d : d.NewName = f => (d \in Changes <=> from[p[1]] # Target[f] /\ d = c)
    BY <1>2, <2>1, <2>2, DiffEntries
  <2>5. c.NewName = f /\ c.Type # "Added" /\ c.OldName = p[1]
    OBVIOUS
  <2> HIDE DEF c
  <2>6. from[p[1]] # Target[f] =>
          (<<RepoName(c.OldName), "own">> \in OwnReports(OldBatch) <=> from[p[1]] \in Bad)
    BY <2>4, <2>5, OldProblem
  <2>7. Whole => from[p[1]] # Target[f]
    BY <2>1 DEF Whole, Compares, FullDiffKnows, Target
  <2> QED BY <2>1, <2>2, <2>3, <2>4, <2>5, <2>6, <2>7 DEF NewIn, Kept
<1> QED BY <1>3, <1>4

LEMMA DiffReportsExact ==
    ASSUME InputOK, Compares, DiffReports,
           reports = OwnReports(NewBatch), oldReports = OwnReports(OldBatch), analysed = NewBatch
    PROVE  /\ reports' # {} <=> NewProblems
           /\ \A r \in reports' : analysed[r[1]] \in Bad
<1> USE GitRunAssumption
<1> DEFINE Change(n) == {c \in Changes : RepoName(c.NewName) = n}
           OldName(n) == IF Change(n) = {} THEN n ELSE RepoName((CHOOSE c \in Change(n) : TRUE).OldName)
           blameFails == \E r \in reports : Change(r[1]) # {} /\ to[r[1][2]] = Absent
           repo(f) == <<RepoName(f), "own">>
           abs(f) == <<AbsName(f), "own">>
<1>1. from \in Trees /\ Target \in Trees /\ Changes = Diff(from, Target)
  BY TargetTree DEF InputOK
<1>2. reports' = IF blameFails THEN {} ELSE {r \in reports : <<OldName(r[1]), r[2]>> \notin oldReports}
  BY DEF DiffReports, Changes
<1>3. \A f \in Files : repo(f) \in reports <=>
         Target[f] \in Bad /\ (Whole \/ \E c \in Changes : c.NewName = f)
  <2> TAKE f \in Files
  <2>1. repo(f) \in reports <=> RepoName(f) \in DOMAIN NewBatch /\ NewBatch[RepoName(f)] \in Bad
    BY DEF OwnReports
  <2> QED BY <2>1, NewNames
<1>4. \A f \in input.untracked : HasLocalChanges /\ config.includeUntracked =>
         (abs(f) \in reports <=> work[f] \in Bad)
  <2> TAKE f \in input.untracked
  <2>1. abs(f) \in reports <=> AbsName(f) \in DOMAIN NewBatch /\ NewBatch[AbsName(f)] \in Bad
    BY DEF OwnReports
  <2> QED BY <2>1, NewNames
<1>5. \A r \in reports :
         \/ \E f \in Files : r = repo(f)
         \/ \E f \in input.untracked : r = abs(f) /\ HasLocalChanges /\ config.includeUntracked
  BY NewNames DEF OwnReports
<1>6. \A f : Change(AbsName(f)) = {}
  BY NamesApart
<1>7. \A f \in Files : \/ Change(RepoName(f)) = {} /\ \A c \in Changes : c.NewName # f
                       \/ \E c \in Changes : c.NewName = f /\ Change(RepoName(f)) = {c}
  BY <1>1, OneEntry, NamesApart
<1>8. ~blameFails
  <2> SUFFICES ASSUME NEW f \in Files, repo(f) \in reports, to[f] = Absent PROVE FALSE
    BY <1>5, <1>6 DEF RepoName
  <2>1. Target[f] # Absent
    BY <1>3
  <2>2. CASE HasLocalChanges
    BY <2>1, <2>2 DEF Target, Compares, LocalKnows
  <2>3. CASE ~HasLocalChanges
    BY <2>1, <2>3 DEF Target
  <2> QED BY <2>2, <2>3
<1>9. \A f : OldName(AbsName(f)) = AbsName(f)
  BY <1>6
<1>10. \A f \in Files : /\ (\A c \in Changes : c.NewName # f) => OldName(RepoName(f)) = RepoName(f)
                        /\ \A c \in Changes : c.NewName = f => OldName(RepoName(f)) = RepoName(c.OldName)
  <2> TAKE f \in Files
  <2>1. CASE Change(RepoName(f)) = {} /\ \A c \in Changes : c.NewName # f
    BY <2>1
  <2>2. ASSUME NEW c \in Changes, c.NewName = f, Change(RepoName(f)) = {c}
        PROVE  /\ OldName(RepoName(f)) = RepoName(c.OldName)
               /\ \A d \in Changes : d.NewName = f => d = c
    <3>1. \A d \in Changes : d.NewName = f => d \in Change(RepoName(f))
      OBVIOUS
    <3> HIDE DEF Change
    <3> QED BY <2>2, <3>1
  <2> HIDE DEF OldName, Change
  <2> QED BY <1>7, <2>1, <2>2
<1> HIDE DEF OldName, blameFails, Change
<1>11. \A r : r \in reports' <=> r \in reports /\ <<OldName(r[1]), r[2]>> \notin OwnReports(OldBatch)
  BY <1>2, <1>8
<1>12. \A f \in Files : repo(f) \in reports' <=> Target[f] \in Bad /\ NewIn(f)
  <2> TAKE f \in Files
  <2>1. repo(f) \in reports' <=>
          repo(f) \in reports /\ <<OldName(RepoName(f)), "own">> \notin OwnReports(OldBatch)
    BY <1>11
  <2> HIDE DEF repo
  <2>2. repo(f) \in reports' <=> Target[f] \in Bad /\ Kept(f)
    BY <1>3, <1>10, <2>1 DEF Kept
  <2> QED BY <2>2, NewByDiff
<1>13. \A f \in input.untracked : HasLocalChanges /\ config.includeUntracked =>
          (abs(f) \in reports' <=> work[f] \in Bad)
  BY <1>4, <1>9, <1>11, OldProblem
<1>14. \A r \in reports' :
         \/ \E f \in Files : r = repo(f)
         \/ \E f \in input.untracked : r = abs(f) /\ HasLocalChanges /\ config.includeUntracked
  BY <1>5, <1>11
<1> HIDE DEF repo, abs
<1>15. NewProblem(from, Target) <=> \E f \in Files : repo(f) \in reports'
  <2>1. \A f \in Files :
          (\A g \in {q[1] : q \in {p \in Renames(from, Target) : p[2] = f}} : from[g] \notin Bad)
            <=> \A p \in Renames(from, Target) : p[2] = f => from[p[1]] \notin Bad
    OBVIOUS
  <2>2. NewProblem(from, Target) <=>
          \E f \in Files : /\ Target[f] \in Bad /\ from[f] \notin Bad
                           /\ \A g \in {q[1] : q \in {p \in Renames(from, Target) : p[2] = f}} :
                                from[g] \notin Bad
    BY DEF NewProblem
  <2> QED BY <1>12, <2>1, <2>2 DEF NewIn
<1>16. HasLocalChanges /\ UntrackedProblem <=>
          HasLocalChanges /\ config.includeUntracked /\ \E f \in input.untracked : abs(f) \in reports'
  BY <1>13 DEF UntrackedProblem
<1>17. reports' # {} <=> NewProblems
  BY <1>14, <1>15, <1>16 DEF NewProblems
<1>18. \A r \in reports' : analysed[r[1]] \in Bad
  BY <1>11 DEF OwnReports
<1> QED BY <1>17, <1>18

(* Only problems of a batch's own are reported when the stubs and, if      *)
(* there are any, the index-only files are indexed.                        *)
LEMMA ReportsAreOwn ==
    ASSUME NEW batch, StubName \in DOMAIN info, config.indexOnly => LibName \in DOMAIN info
    PROVE  ReportsOf(batch) = OwnReports(batch)
  BY DEF ReportsOf, OwnReports

LEMMA ArgumentReports ==
    ASSUME work \in Trees, NEW batch, batch = ReadFilenames(Files)
    PROVE  /\ OwnReports(batch) # {} <=> BadArguments
           /\ \A r \in OwnReports(batch) : batch[r[1]] \in Bad
<1> USE GitRunAssumption
<1>1. /\ DOMAIN batch = {AbsName(f) : f \in {g \in Files : work[g] # Absent}}
      /\ \A f \in Files : work[f] # Absent => batch[AbsName(f)] = work[f]
  BY DEF ReadFilenames, Named, AbsName
<1>2. \A f \in Files : work[f] \in Bad => work[f] # Absent
  OBVIOUS
<1>3. BadArguments => OwnReports(batch) # {}
  <2> SUFFICES ASSUME NEW f \in Files, work[f] \in Bad PROVE OwnReports(batch) # {}
    BY DEF BadArguments
  <2>1. AbsName(f) \in DOMAIN batch /\ batch[AbsName(f)] \in Bad
    BY <1>1, <1>2
  <2>2. <<AbsName(f), "own">> \in OwnReports(batch)
    BY <2>1 DEF OwnReports
  <2> QED BY <2>2
<1>4. OwnReports(batch) # {} => BadArguments
  BY <1>1 DEF OwnReports, BadArguments
<1>5. \A r \in OwnReports(batch) : batch[r[1]] \in Bad
  BY DEF OwnReports
<1> QED BY <1>3, <1>4, <1>5

LEMMA ExactInit == Init => Exact
<1> SUFFICES ASSUME Init PROVE Exact
  OBVIOUS
<1>1. InputOK
  <2>1. PICK c \in Configs, old \in Trees, new \in Trees :
          \E now \in IF c.git /\ c.workTree # "" THEN Trees ELSE {new} :
             input \in Inputs(c, IF c.git THEN old ELSE new, new, now)
    BY DEF Init
  <2>2. PICK now \in Trees : input \in Inputs(c, IF c.git THEN old ELSE new, new, now)
    BY <2>1
  <2>3. /\ input.from \in Trees /\ input.to \in Trees /\ input.work \in Trees
        /\ \A f \in input.untracked : f \in Files /\ input.work[f] # Absent
    BY <2>2 DEF Inputs
  <2> QED BY <2>3 DEF from, to, work, InputOK
<1> QED BY <1>1 DEF Init, Exact, StubsIn, Running, LocalPhases, CommitPhases, FullPhases

(* What RunExact is about does not change either.                          *)
LEMMA ModeFixed ==
    ASSUME UNCHANGED input
    PROVE  /\ from' = from /\ to' = to /\ work' = work /\ config' = config
           /\ HasLocalChanges' = HasLocalChanges /\ InputOK' = InputOK
           /\ Compares' = Compares /\ Lints' = Lints /\ Silenced' = Silenced
           /\ BadArguments' = BadArguments /\ OldBatch' = OldBatch /\ NewBatch' = NewBatch
           /\ NewProblems' = NewProblems
<1> USE DEF config, to, from, work
<1>1. LocalChanges' = LocalChanges /\ CommitChanges' = CommitChanges /\ Tracked' = Tracked
  BY DEF LocalChanges, CommitChanges, Tracked, Diff, Renames, MayBeRenamed
<1>2. HasLocalChanges' = HasLocalChanges /\ LocalNewFiles' = LocalNewFiles
  BY InputFixed
<1>3. Target' = Target /\ Changes' = Changes /\ Whole' = Whole
  BY <1>1, <1>2 DEF Target, Changes, Whole
<1>4. OldBatch' = OldBatch /\ NewBatch' = NewBatch
  <2>1. ReadOldFilesFromGit(Changes)' = ReadOldFilesFromGit(Changes)
        /\ ReadFilesFromGitWithChanges(Changes)' = ReadFilesFromGitWithChanges(Changes)
        /\ ReadFilesFromGit(from)' = ReadFilesFromGit(from) /\ ReadFilesFromGit(to)' = ReadFilesFromGit(to)
    BY <1>3 DEF ReadOldFilesFromGit, ReadFilesFromGitWithChanges, ReadFilesFromGit, Named
  <2> QED BY <1>2, <1>3, <2>1 DEF OldBatch, NewBatch
<1>5. NewProblem(from, Target)' = NewProblem(from, Target)
  BY <1>3 DEF NewProblem, Renames, MayBeRenamed
<1>6. UntrackedProblem' = UntrackedProblem
  BY DEF UntrackedProblem
<1>7. LocalKnows' = LocalKnows /\ FullDiffKnows' = FullDiffKnows
  BY <1>1 DEF LocalKnows, FullDiffKnows, Renames, MayBeRenamed
<1> QED
  BY <1>2, <1>4, <1>5, <1>6, <1>7 DEF Compares, Lints, Silenced, BadArguments, NewProblems, InputOK

(* RunExact in the terms of Exact.                                         *)
LEMMA RunExactModes ==
    RunExact <=> (status # Running =>
                    /\ Compares => (status = 2 <=> NewProblems /\ ~Silenced)
                    /\ Lints => (status = 2 <=> BadArguments /\ ~Silenced))
<1>1. CASE config.git /\ HasLocalChanges
  BY <1>1 DEF RunExact, Compares, NewProblems, Target, Lints, BadArguments, CommitMode
<1>2. CASE config.git /\ ~HasLocalChanges
  BY <1>2 DEF RunExact, Compares, NewProblems, Target, Lints, BadArguments, CommitMode
<1>3. CASE ~config.git
  BY <1>3 DEF RunExact, Compares, Lints, BadArguments, CommitMode
<1> QED BY <1>1, <1>2, <1>3

LEMMA ExactPrimed ==
    ASSUME Exact, UNCHANGED input,
           StubsIn',
           pc' \in CommitPhases \union FullPhases => ~HasLocalChanges,
           pc' \in CommitPhases => ~config.fullDiff,
           pc' \in FullPhases => config.fullDiff,
           pc' \in {"localIndexNew", "localNew", "commitIndexNew", "commitNew",
                    "fullIndexNew", "fullNew", "diff"}
             /\ Compares => oldReports' = OwnReports(OldBatch),
           pc' = "diff" => config.git,
           pc' = "diff" /\ Compares => reports' = OwnReports(NewBatch) /\ analysed' = NewBatch,
           pc' = "exit" /\ Compares =>
             (reports' # {} <=> NewProblems) /\ \A r \in reports' : analysed'[r[1]] \in Bad,
           pc' = "exit" /\ Lints =>
             (reports' # {} <=> BadArguments) /\ \A r \in reports' : analysed'[r[1]] \in Bad,
           status' # Running => pc' = "done",
           status' # Running /\ Compares => (status' = 2 <=> NewProblems /\ ~Silenced),
           status' # Running /\ Lints => (status' = 2 <=> BadArguments /\ ~Silenced)
    PROVE  Exact'
<1>1. /\ from' = from /\ to' = to /\ work' = work /\ config' = config
      /\ HasLocalChanges' = HasLocalChanges /\ InputOK' = InputOK
      /\ Compares' = Compares /\ Lints' = Lints /\ Silenced' = Silenced
      /\ BadArguments' = BadArguments /\ OldBatch' = OldBatch /\ NewBatch' = NewBatch
      /\ NewProblems' = NewProblems
  BY ModeFixed
<1>2. status' # Running => RunExact'
  <2>1. (RunExact <=> (status # Running =>
                         /\ Compares => (status = 2 <=> NewProblems /\ ~Silenced)
                         /\ Lints => (status = 2 <=> BadArguments /\ ~Silenced)))'
    BY RunExactModes, PTL
  <2> HIDE DEF config, to, from, work
  <2> QED BY <1>1, <2>1 DEF Running
<1>3. OwnReports(OldBatch)' = OwnReports(OldBatch) /\ OwnReports(NewBatch)' = OwnReports(NewBatch)
  BY <1>1 DEF OwnReports
<1>4. InputOK'
  BY <1>1 DEF Exact
<1> HIDE DEF config, to, from, work
<1> QED BY <1>1, <1>2, <1>3, <1>4 DEF Exact, Reporting

LEMMA ExactStep == Phases /\ Exact /\ [Next]_vars => Exact'
<1> SUFFICES ASSUME Phases, Exact, [Next]_vars PROVE Exact'
  OBVIOUS
<1> USE DEF Goto, Index, AnalyseOld, Analyse, ParseFilenames
<1>0. /\ status # Running => pc = "done"
      /\ \A b, i : DOMAIN Over(b, i) = DOMAIN b \union DOMAIN i
  BY Overlay DEF Exact
<1>a. ASSUME UNCHANGED input
      PROVE  config' = config /\ from' = from /\ to' = to /\ work' = work
  BY <1>a DEF config, from, to, work
<1>b. ASSUME pc \in (LocalPhases \union CommitPhases) \ {"localIndex", "commitIndex"}
             \/ (pc \in {"fullOld", "fullNew"} /\ Compares)
      PROVE  StubName \in DOMAIN info /\ (config.indexOnly => LibName \in DOMAIN info)
  <2>1. CASE pc \in (LocalPhases \union CommitPhases) \ {"localIndex", "commitIndex"}
    BY <2>1 DEF Exact, StubsIn
  <2>2. CASE pc \in {"fullOld", "fullNew"} /\ Compares
    <3>1. ~HasLocalChanges /\ config.fullDiff
      BY <2>2 DEF Exact, FullPhases
    <3>2. config.stubsDir /\ ~config.indexOnly
      BY <2>2, <3>1 DEF Compares, FullDiffKnows
    <3> QED BY <2>2, <3>2 DEF Exact, StubsIn
  <2> QED BY <1>b, <2>1, <2>2
<1>1. CASE MainInitStubs
  <2>1. StubName \in DOMAIN info'
    BY <1>0, <1>1 DEF MainInitStubs, Stubs, Single
  <2>2. pc' \in {"gitMain", "index"} /\ UNCHANGED input
    BY <1>1 DEF MainInitStubs
  <2>3. StubsIn'
    BY <2>1, <2>2 DEF StubsIn, LocalPhases, CommitPhases
  <2> QED
    BY <1>0, <1>1, <2>2, <2>3, ExactPrimed DEF MainInitStubs, CommitPhases, FullPhases
<1>2. CASE IndexArguments
  <2>1. StubName \in DOMAIN info'
    BY <1>0, <1>2 DEF IndexArguments, Exact, StubsIn
  <2>2. pc' = "lint" /\ UNCHANGED <<input, status>> /\ pc = "index"
    BY <1>2 DEF IndexArguments
  <2>3. StubsIn'
    BY <2>1, <2>2 DEF StubsIn, LocalPhases, CommitPhases
  <2> QED
    BY <1>0, <2>2, <2>3, ExactPrimed DEF CommitPhases, FullPhases
<1>3. CASE LintArguments
  <2>1. ~config.git
    BY <1>3 DEF LintArguments, Phases
  <2>2. ~Compares
    BY <2>1 DEF Compares
  <2>3. ASSUME Lints
        PROVE  (reports' # {} <=> BadArguments) /\ \A r \in reports' : analysed'[r[1]] \in Bad
    <3>1. StubName \in DOMAIN info /\ ~config.indexOnly
      BY <1>3, <2>3 DEF LintArguments, Exact, StubsIn, Lints
    <3>2. reports' = OwnReports(ReadFilenames(Files)) /\ analysed' = ReadFilenames(Files)
      BY <1>3, <3>1, ReportsAreOwn DEF LintArguments
    <3>3. work \in Trees
      BY DEF Exact, InputOK
    <3> QED
      BY <3>2, <3>3, ArgumentReports
  <2>4. pc = "lint" /\ pc' = "exit" /\ UNCHANGED <<input, status>>
    BY <1>3 DEF LintArguments
  <2>5. StubsIn'
    BY <2>4 DEF StubsIn, LocalPhases, CommitPhases
  <2> QED
    BY <1>0, <2>2, <2>3, <2>4, <2>5, ExactPrimed DEF CommitPhases, FullPhases
<1>4. CASE GitMain
  <2>1. config.git /\ StubName \in DOMAIN info
    BY <1>4 DEF GitMain, Phases, Exact, StubsIn
  <2>2. UNCHANGED <<input, info>> /\ pc = "gitMain"
    BY <1>4 DEF GitMain
  <2>3. ASSUME pc' \in {"localIndex", "commitIndex", "fullIndexOld", "done"}
        PROVE  StubsIn'
    BY <2>1, <2>2, <2>3 DEF StubsIn, LocalPhases, CommitPhases
  <2>4. CASE HasLocalChanges
    <3>1. pc' = "localIndex" /\ status' = status
      BY <1>4, <2>4 DEF GitMain
    <3> QED
      BY <1>0, <2>2, <2>3, <3>1, ExactPrimed DEF CommitPhases, FullPhases
  <2>5. CASE ~HasLocalChanges /\ ~config.authorAllowed
    <3>1. ~Compares /\ ~Lints
      BY <2>1, <2>5 DEF Compares, Lints
    <3>2. pc' = "done"
      BY <1>4, <2>5 DEF GitMain
    <3> QED
      BY <2>2, <2>3, <3>1, <3>2, ExactPrimed DEF CommitPhases, FullPhases
  <2>6. CASE ~HasLocalChanges /\ config.authorAllowed
    <3>1. pc' = (IF config.fullDiff THEN "fullIndexOld" ELSE "commitIndex") /\ status' = status
      BY <1>4, <2>6 DEF GitMain
    <3> QED
      BY <1>0, <2>2, <2>3, <2>6, <3>1, ExactPrimed DEF CommitPhases, FullPhases
  <2> QED
    BY <2>4, <2>5, <2>6
<1>5. CASE LocalIndex
  <2>1. /\ pc = "localIndex" /\ pc' = "localOld" /\ UNCHANGED <<input, status>>
        /\ info' = Over(Over(IndexOnly, ReadFilesFromGit(from)), info)
    BY <1>5 DEF LocalIndex
  <2>2. DOMAIN info' = (DOMAIN IndexOnly \union DOMAIN ReadFilesFromGit(from)) \union DOMAIN info
    <3> DEFINE both == Over(IndexOnly, ReadFilesFromGit(from))
    <3>1. DOMAIN both = DOMAIN IndexOnly \union DOMAIN ReadFilesFromGit(from)
      BY <1>0
    <3>2. info' = Over(both, info)
      BY <2>1
    <3> HIDE DEF both
    <3>3. DOMAIN info' = DOMAIN both \union DOMAIN info
      BY <1>0, <3>2
    <3> QED BY <3>1, <3>3
  <2>3. config.indexOnly => LibName \in DOMAIN IndexOnly
    BY DEF IndexOnly, Single
  <2>4. StubName \in DOMAIN info
    BY <2>1 DEF Exact, StubsIn, LocalPhases, CommitPhases
  <2>5. StubsIn'
    BY <1>a, <2>1, <2>2, <2>3, <2>4 DEF StubsIn, LocalPhases, CommitPhases
  <2> QED
    BY <1>0, <2>1, <2>5, ExactPrimed DEF CommitPhases, FullPhases
<1>6. CASE LocalOld
  <2>1. /\ pc = "localOld" /\ pc' = "localIndexNew" /\ UNCHANGED <<input, info, status>>
        /\ oldReports' = ReportsOf(ReadOldFilesFromGit(LocalChanges))
    BY <1>6 DEF LocalOld
  <2>2. HasLocalChanges
    BY <2>1 DEF Phases
  <2>3. Compares => oldReports' = OwnReports(OldBatch)
    BY <1>b, <2>1, <2>2, ReportsAreOwn DEF OldBatch, Whole, Changes, LocalPhases
  <2>4. StubsIn'
    BY <1>a, <2>1 DEF Exact, StubsIn, LocalPhases, CommitPhases
  <2> QED
    BY <1>0, <2>1, <2>2, <2>3, <2>4, ExactPrimed DEF CommitPhases, FullPhases
<1>7. CASE LocalIndexNew
  <2>1. /\ pc = "localIndexNew" /\ pc' = "localNew" /\ UNCHANGED <<input, oldReports, status>>
        /\ \E batch : info' = Over(batch, info)
    BY <1>7 DEF LocalIndexNew
  <2>2. HasLocalChanges
    BY <2>1 DEF Phases
  <2>3. Compares => oldReports' = OwnReports(OldBatch)
    BY <2>1 DEF Exact
  <2>4. StubName \in DOMAIN info' /\ (config.indexOnly => LibName \in DOMAIN info')
    <3>1. PICK batch : info' = Over(batch, info)
      BY <2>1
    <3>2. DOMAIN info' = DOMAIN batch \union DOMAIN info
      BY <1>0, <3>1
    <3> QED BY <1>b, <2>1, <3>2 DEF LocalPhases, CommitPhases
  <2>5. StubsIn'
    BY <1>a, <2>1, <2>4 DEF StubsIn, LocalPhases, CommitPhases
  <2> QED
    BY <1>0, <2>1, <2>2, <2>3, <2>5, ExactPrimed DEF CommitPhases, FullPhases
<1>8. CASE LocalNew
  <2>1. /\ pc = "localNew" /\ pc' = "diff" /\ UNCHANGED <<input, info, oldReports, status>>
        /\ reports' = ReportsOf(LocalNewFiles) /\ analysed' = LocalNewFiles
    BY <1>8 DEF LocalNew
  <2>2. HasLocalChanges
    BY <2>1 DEF Phases
  <2>3. Compares => reports' = OwnReports(NewBatch) /\ analysed' = NewBatch
    BY <1>b, <2>1, <2>2, ReportsAreOwn DEF NewBatch, Changes, LocalPhases, CommitPhases
  <2>4. (Compares => oldReports' = OwnReports(OldBatch)) /\ config.git
    BY <2>1 DEF Exact, Phases
  <2>5. StubsIn'
    BY <2>1 DEF StubsIn, LocalPhases, CommitPhases
  <2> QED
    BY <1>0, <2>1, <2>3, <2>4, <2>5, ExactPrimed DEF CommitPhases, FullPhases
<1>9. CASE CommitIndex
  <2>1. /\ pc = "commitIndex" /\ pc' = "commitOld" /\ UNCHANGED <<input, status>>
        /\ info' = Over(Over(IndexOnly, ReadFilesFromGit(to)), info)
    BY <1>9 DEF CommitIndex
  <2>2. DOMAIN info' = (DOMAIN IndexOnly \union DOMAIN ReadFilesFromGit(to)) \union DOMAIN info
    <3> DEFINE both == Over(IndexOnly, ReadFilesFromGit(to))
    <3>1. DOMAIN both = DOMAIN IndexOnly \union DOMAIN ReadFilesFromGit(to)
      BY <1>0
    <3>2. info' = Over(both, info)
      BY <2>1
    <3> HIDE DEF both
    <3>3. DOMAIN info' = DOMAIN both \union DOMAIN info
      BY <1>0, <3>2
    <3> QED BY <3>1, <3>3
  <2>3. config.indexOnly => LibName \in DOMAIN IndexOnly
    BY DEF IndexOnly, Single
  <2>4. StubName \in DOMAIN info
    BY <2>1 DEF Exact, StubsIn, LocalPhases, CommitPhases
  <2>5. StubsIn'
    BY <1>a, <2>1, <2>2, <2>3, <2>4 DEF StubsIn, LocalPhases, CommitPhases
  <2>6. ~HasLocalChanges /\ ~config.fullDiff
    BY <2>1 DEF Exact, CommitPhases
  <2> QED
    BY <1>0, <2>1, <2>5, <2>6, ExactPrimed DEF CommitPhases, FullPhases
<1>10. CASE CommitOld
  <2>1. /\ pc = "commitOld" /\ pc' = "commitIndexNew" /\ UNCHANGED <<input, info, status>>
        /\ oldReports' = ReportsOf(ReadOldFilesFromGit(CommitChanges))
    BY <1>10 DEF CommitOld
  <2>2. ~HasLocalChanges /\ ~config.fullDiff
    BY <2>1 DEF Exact, CommitPhases
  <2>3. Compares => oldReports' = OwnReports(OldBatch)
    BY <1>b, <2>1, <2>2, ReportsAreOwn DEF OldBatch, Whole, Changes, CommitPhases
  <2>4. StubsIn'
    BY <1>a, <2>1 DEF Exact, StubsIn, LocalPhases, CommitPhases
  <2> QED
    BY <1>0, <2>1, <2>2, <2>3, <2>4, ExactPrimed DEF CommitPhases, FullPhases
<1>11. CASE CommitIndexNew
  <2>1. /\ pc = "commitIndexNew" /\ pc' = "commitNew" /\ UNCHANGED <<input, oldReports, status>>
        /\ \E batch : info' = Over(batch, info)
    BY <1>11 DEF CommitIndexNew
  <2>2. ~HasLocalChanges /\ ~config.fullDiff
    BY <2>1 DEF Exact, CommitPhases
  <2>3. Compares => oldReports' = OwnReports(OldBatch)
    BY <2>1 DEF Exact
  <2>4. StubName \in DOMAIN info' /\ (config.indexOnly => LibName \in DOMAIN info')
    <3>1. PICK batch : info' = Over(batch, info)
      BY <2>1
    <3>2. DOMAIN info' = DOMAIN batch \union DOMAIN info
      BY <1>0, <3>1
    <3> QED BY <1>b, <2>1, <3>2 DEF LocalPhases, CommitPhases
  <2>5. StubsIn'
    BY <1>a, <2>1, <2>4 DEF StubsIn, LocalPhases, CommitPhases
  <2> QED
    BY <1>0, <2>1, <2>2, <2>3, <2>5, ExactPrimed DEF CommitPhases, FullPhases
<1>12. CASE CommitNew
  <2>1. /\ pc = "commitNew" /\ pc' = "diff" /\ UNCHANGED <<input, info, oldReports, status>>
        /\ reports' = ReportsOf(ReadFilesFromGitWithChanges(CommitChanges))
        /\ analysed' = ReadFilesFromGitWithChanges(CommitChanges)
    BY <1>12 DEF CommitNew
  <2>2. ~HasLocalChanges /\ ~config.fullDiff
    BY <2>1 DEF Exact, CommitPhases
  <2>3. Compares => reports' = OwnReports(NewBatch) /\ analysed' = NewBatch
    BY <1>b, <2>1, <2>2, ReportsAreOwn DEF NewBatch, Changes, LocalPhases, CommitPhases
  <2>4. (Compares => oldReports' = OwnReports(OldBatch)) /\ config.git
    BY <2>1 DEF Exact, Phases
  <2>5. StubsIn'
    BY <2>1 DEF StubsIn, LocalPhases, CommitPhases
  <2> QED
    BY <1>0, <2>1, <2>3, <2>4, <2>5, ExactPrimed DEF CommitPhases, FullPhases
<1>13. CASE FullIndexOld
  <2>1. /\ pc = "fullIndexOld" /\ pc' = "fullOld" /\ UNCHANGED <<input, status>>
        /\ \E batch : info' = Over(batch, InitStubs)
    BY <1>13 DEF FullIndexOld
  <2>2. ~HasLocalChanges /\ config.fullDiff
    BY <2>1 DEF Exact, FullPhases
  <2>3. config.stubsDir => StubName \in DOMAIN info'
    <3>1. PICK batch : info' = Over(batch, InitStubs)
      BY <2>1
    <3>2. DOMAIN info' = DOMAIN batch \union DOMAIN InitStubs
      BY <1>0, <3>1
    <3> QED BY <3>2 DEF InitStubs, Stubs, Single
  <2>4. StubsIn'
    BY <1>a, <2>1, <2>3 DEF StubsIn, LocalPhases, CommitPhases
  <2> QED
    BY <1>0, <2>1, <2>2, <2>4, ExactPrimed DEF CommitPhases, FullPhases
<1>14. CASE FullOld
  <2>1. /\ pc = "fullOld" /\ pc' = "fullIndexNew" /\ UNCHANGED <<input, info, status>>
        /\ oldReports' = ReportsOf(ReadFilesFromGit(from))
    BY <1>14 DEF FullOld
  <2>2. ~HasLocalChanges /\ config.fullDiff
    BY <2>1 DEF Exact, FullPhases
  <2>3. Compares => oldReports' = OwnReports(OldBatch)
    BY <1>b, <2>1, <2>2, ReportsAreOwn DEF OldBatch, Whole, Changes, FullPhases
  <2>4. StubsIn'
    BY <1>a, <2>1 DEF Exact, StubsIn, LocalPhases, CommitPhases
  <2> QED
    BY <1>0, <2>1, <2>2, <2>3, <2>4, ExactPrimed DEF CommitPhases, FullPhases
<1>15. CASE FullIndexNew
  <2>1. /\ pc = "fullIndexNew" /\ pc' = "fullNew" /\ UNCHANGED <<input, oldReports, status>>
        /\ \E batch : info' = Over(batch, InitStubs)
    BY <1>15 DEF FullIndexNew
  <2>2. ~HasLocalChanges /\ config.fullDiff
    BY <2>1 DEF Exact, FullPhases
  <2>3. Compares => oldReports' = OwnReports(OldBatch)
    BY <2>1 DEF Exact
  <2>4. config.stubsDir => StubName \in DOMAIN info'
    <3>1. PICK batch : info' = Over(batch, InitStubs)
      BY <2>1
    <3>2. DOMAIN info' = DOMAIN batch \union DOMAIN InitStubs
      BY <1>0, <3>1
    <3> QED BY <3>2 DEF InitStubs, Stubs, Single
  <2>5. StubsIn'
    BY <1>a, <2>1, <2>4 DEF StubsIn, LocalPhases, CommitPhases
  <2> QED
    BY <1>0, <2>1, <2>2, <2>3, <2>5, ExactPrimed DEF CommitPhases, FullPhases
<1>16. CASE FullNew
  <2>1. /\ pc = "fullNew" /\ pc' = "diff" /\ UNCHANGED <<input, info, oldReports, status>>
        /\ reports' = ReportsOf(ReadFilesFromGit(to)) /\ analysed' = ReadFilesFromGit(to)
    BY <1>16 DEF FullNew
  <2>2. ~HasLocalChanges /\ config.fullDiff
    BY <2>1 DEF Exact, FullPhases
  <2>3. Compares => reports' = OwnReports(NewBatch) /\ analysed' = NewBatch
    BY <1>b, <2>1, <2>2, ReportsAreOwn DEF NewBatch, Changes, LocalPhases, CommitPhases
  <2>4. (Compares => oldReports' = OwnReports(OldBatch)) /\ config.git
    BY <2>1 DEF Exact, Phases
  <2>5. StubsIn'
    BY <2>1 DEF StubsIn, LocalPhases, CommitPhases
  <2> QED
    BY <1>0, <2>1, <2>3, <2>4, <2>5, ExactPrimed DEF CommitPhases, FullPhases
<1>17. CASE DiffReports
  <2>1. config.git /\ InputOK
    BY <1>17 DEF DiffReports, Exact
  <2>2. ~Lints
    BY <2>1 DEF Lints
  <2>3. pc = "diff" /\ pc' = "exit" /\ UNCHANGED <<input, info, oldReports, analysed, status>>
    BY <1>17 DEF DiffReports
  <2>4. ASSUME Compares
        PROVE  (reports' # {} <=> NewProblems) /\ \A r \in reports' : analysed'[r[1]] \in Bad
    <3>1. reports = OwnReports(NewBatch) /\ oldReports = OwnReports(OldBatch) /\ analysed = NewBatch
      BY <2>3, <2>4 DEF Exact
    <3> QED
      BY <1>17, <2>1, <2>3, <2>4, <3>1, DiffReportsExact
  <2>5. StubsIn'
    BY <2>3 DEF StubsIn, LocalPhases, CommitPhases
  <2> QED
    BY <1>0, <2>2, <2>3, <2>4, <2>5, ExactPrimed DEF CommitPhases, FullPhases
<1>18. CASE AnalyzeReports
  <2>1. ASSUME NEW problem \in BOOLEAN, Reporting(problem)
        PROVE  status' = 2 <=> problem /\ ~Silenced
    BY <1>18, <2>1 DEF AnalyzeReports, Reporting, Disabled, Silenced
  <2>2. Compares => Reporting(NewProblems)
    BY <1>18 DEF AnalyzeReports, Exact
  <2>3. Lints => Reporting(BadArguments)
    BY <1>18 DEF AnalyzeReports, Exact
  <2>4. pc' = "done" /\ UNCHANGED input
    BY <1>18 DEF AnalyzeReports
  <2>5. NewProblems \in BOOLEAN /\ BadArguments \in BOOLEAN
    BY DEF NewProblems, BadArguments
  <2>6. StubsIn'
    BY <2>4 DEF StubsIn, LocalPhases, CommitPhases
  <2> QED
    BY <2>1, <2>2, <2>3, <2>4, <2>5, <2>6, ExactPrimed DEF CommitPhases, FullPhases
<1>19. CASE UNCHANGED vars
  <2>1. UNCHANGED <<input, pc, info, oldReports, reports, analysed, status>>
    BY <1>19 DEF vars
  <2>2. StubsIn'
    BY <1>a, <2>1 DEF Exact, StubsIn
  <2>3. status # Running =>
          /\ Compares => (status = 2 <=> NewProblems /\ ~Silenced)
          /\ Lints => (status = 2 <=> BadArguments /\ ~Silenced)
    BY RunExactModes DEF Exact
  <2> QED
    BY <2>1, <2>2, <2>3, ExactPrimed DEF Exact, Reporting
<1> QED
  BY <1>1, <1>2, <1>3, <1>4, <1>5, <1>6, <1>7, <1>8, <1>9, <1>10, <1>11, <1>12, <1>13, <1>14,
     <1>15, <1>16, <1>17, <1>18, <1>19 DEF Next, Done

(* The exit code is 2 exactly when it should be, for any files, versions   *)
(* and command lines, in every mode, and whatever renames git finds; where *)
(* FullDiffKnows or LocalKnows is false, RunExact claims nothing.          *)
THEOREM ExitCodeExact == Spec => []RunExact
<1>1. Init => Phases /\ Exact
  BY PhasesInit, ExactInit
<1>2. Phases /\ Exact /\ [Next]_vars => (Phases /\ Exact)'
  BY PhasesStep, ExactStep
<1>3. Exact => RunExact
  BY DEF Exact, RunExact
<1> QED
  BY <1>1, <1>2, <1>3, PTL DEF Spec
=============================================================================
