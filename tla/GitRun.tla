------------------------------- MODULE GitRun -------------------------------
(***************************************************************************)
(* One run of the command-line linter: mainNoExit (cmd/main.go) and, with  *)
(* -git, gitMain (cmd/git_main.go).  It loads the stubs, indexes some      *)
(* files with ParseFilenames while the flag indexingComplete is FALSE,     *)
(* sets the flag, analyses some files with the same ParseFilenames, and    *)
(* turns the reports, or the new ones among them, into an exit code.       *)
(*                                                                         *)
(* A tree (a commit, or the work tree) gives each file a version.  A       *)
(* version may have a critical problem of its own (Bad); besides, every    *)
(* version uses a PHP function and a function of the index-only files, and *)
(* is reported when the index does not hold them.  The reports of one      *)
(* version differ in kind and lie on lines of their own, which the edits   *)
(* leave in place: what the line numbers do is in module ReportDiff.  A    *)
(* call of ParseFilenames (module ParseBatch) is one step.                 *)
(***************************************************************************)
EXTENDS Integers, FiniteSets

CONSTANTS
    Files,
    Versions,
    Bad,        \* the versions with a problem
    Absent,     \* a file that is not in a tree
    DevNull,    \* /dev/null in a diff
    Configs     \* the command lines: see ConfigType

Trees == [Files -> Versions \union {Absent}]

(* The options of the command line.  workTree: "" when -git-work-tree is   *)
(* not given; the linter runs in the directory of the work tree.           *)
(* stubsDir, indexOnly: was the option given.  muted: the bad versions say *)
(* '@linter disable', and allowDisable: -allow-disable matches their names.*)
(* authorAllowed: -git-author-whitelist admits the commits.  findsRenames: *)
(* git diff takes a new file for a renamed one.                            *)
ConfigType(c) ==
    /\ {c.git, c.fullDiff, c.stubsDir, c.indexOnly, c.includeUntracked, c.authorAllowed,
        c.muted, c.allowDisable, c.findsRenames} \subseteq BOOLEAN
    /\ c.workTree \in {"", ".", "absolute"}

ASSUME GitRunAssumption ==
    /\ IsFiniteSet(Files) /\ Bad \subseteq Versions
    /\ Absent \notin Versions /\ DevNull \notin Files \union Versions
    /\ \A c \in Configs : ConfigType(c)

VARIABLES
    input,              \* config; the trees of -git-commit-from and -git-commit-to; the
                        \* work tree, and its files that git does not know
    pc,
    complete,           \* meta.indexingComplete
    info,               \* meta.Info: the names indexed and the version each is from
    oldReports,         \* reports, as pairs <<name, kind>>
    reports,
    analysed,           \* the batch analysed last
    status              \* the exit code, or Running

vars == <<input, pc, complete, info, oldReports, reports, analysed, status>>

Running == -1

config == input.config
from == input.from
to == input.to
work == input.work

(* Names a file is known under: of the repository and absolute; and the    *)
(* names of the stubs and of the index-only files.                         *)
RepoName(f) == <<"repo", f>>
AbsName(f) == <<"abs", f>>
StubName == <<"stub", DevNull>>
LibName == <<"lib", DevNull>>
Names == ({"repo", "abs"} \X Files) \union {StubName, LibName}
Kinds == {"own", "stub", "lib"}

Labels ==
    {"initStubs", "index", "lint", "gitMain", "diff", "exit", "done",
     "localIndex", "localOld", "localIndexNew", "localNew",
     "commitIndex", "commitOld", "commitIndexNew", "commitNew",
     "fullIndexOld", "fullOld", "fullIndexNew", "fullNew"}

TypeOK ==
    /\ pc \in Labels
    /\ complete \in BOOLEAN
    /\ DOMAIN info \subseteq Names
    /\ \A n \in DOMAIN info : info[n] \in Versions \union {DevNull}
    /\ oldReports \subseteq Names \X Kinds /\ reports \subseteq Names \X Kinds
    /\ DOMAIN analysed \subseteq Names
    /\ status \in {Running, 0, 2}

(* The work tree is the last commit's, unless the run looks at it.         *)
Inputs(c, old, new, now) ==
    {[config |-> c, from |-> old, to |-> new, work |-> now, untracked |-> u] :
        u \in SUBSET {f \in Files : old[f] = Absent /\ new[f] = Absent /\ now[f] # Absent}}

Init ==
    /\ \E c \in Configs, old \in Trees, new \in Trees :
          \E now \in IF c.git /\ c.workTree # "" THEN Trees ELSE {new} :
             input \in Inputs(c, IF c.git THEN old ELSE new, new, now)
    /\ pc = "initStubs"
    /\ complete = FALSE
    /\ info = <<>>
    /\ oldReports = {}
    /\ reports = {}
    /\ analysed = <<>>
    /\ status = Running

-----------------------------------------------------------------------------
(* git diff (external).  A file moved without a change has no hunk and so  *)
(* no entry; one moved and changed is one entry when git sees the rename.  *)
(* It pairs files that are gone with new ones, each with one at most.      *)
MayBeRenamed(old, new) ==
    {p \in Files \X Files : /\ old[p[1]] # Absent /\ new[p[1]] = Absent
                            /\ old[p[2]] = Absent /\ new[p[2]] # Absent}

OneToOne(pairs) == \A p, q \in pairs : p[1] = q[1] \/ p[2] = q[2] => p = q

Renames(old, new) ==
    IF config.findsRenames
    THEN CHOOSE pairs \in SUBSET MayBeRenamed(old, new) :
            OneToOne(pairs) /\ (pairs = {} => MayBeRenamed(old, new) = {})
    ELSE {}

Diff(old, new) ==
    LET renames == Renames(old, new)
        edited == {f \in Files : old[f] # new[f] /\ \A p \in renames : f \notin {p[1], p[2]}}
    IN  {[Type |-> IF old[f] = Absent THEN "Added" ELSE IF new[f] = Absent THEN "Deleted" ELSE "Changed",
          OldName |-> IF old[f] = Absent THEN DevNull ELSE f,
          NewName |-> IF new[f] = Absent THEN DevNull ELSE f] : f \in edited}
        \union {[Type |-> "Changed", OldName |-> p[1], NewName |-> p[2]] :
                   p \in {q \in renames : old[q[1]] # new[q[2]]}}

Tracked == [f \in Files |-> IF f \in input.untracked THEN Absent ELSE work[f]]
LocalChanges == Diff(from, Tracked)
CommitChanges == Diff(from, to)

(* What the readers of linter/parser.go send: functions from names to      *)
(* versions.                                                               *)
Named(Name(_), tree, fs) ==
    LET present == {f \in fs : tree[f] # Absent}
    IN  [n \in {Name(f) : f \in present} |-> tree[n[2]]]

Empty == <<>>
Single(name) == [n \in {name} |-> DevNull]
Stubs == Single(StubName)

(* The files of a batch, and of another those that have other names.       *)
Over(batch, other) ==
    [n \in DOMAIN batch \union DOMAIN other |->
       IF n \in DOMAIN batch THEN batch[n] ELSE other[n]]

ReadFilesFromGit(tree) == Named(RepoName, tree, Files)

(* Mutant: the old version of a renamed file is looked for under its new   *)
(* name.                                                                   *)
ReadOldFilesFromGitByNewName(changes) ==
    Named(RepoName, from, {c.NewName : c \in {d \in changes : d.Type # "Added"}} \ {DevNull})

ReadOldFilesFromGit(changes) ==
    Named(RepoName, from, {c.OldName : c \in {d \in changes : d.Type # "Added"}})

ReadFilesFromGitWithChanges(changes) ==
    Named(RepoName, to, {c.NewName : c \in {d \in changes : d.Type # "Deleted"}})

(* filepath.Join of the work tree's directory and the name.                *)
WorkName(f) == IF config.workTree = "." THEN RepoName(f) ELSE AbsName(f)

ReadChangesFromWorkTree(changes) ==
    Named(WorkName, work, {c.NewName : c \in {d \in changes : d.Type # "Deleted"}})

ReadFilenames(fs) == Named(AbsName, work, fs)

(* UntrackedFiles.  git ls-files prints nothing when no file is untracked; *)
(* splitting that into lines gives one empty name, which filepath.Abs      *)
(* turns into the current directory, and ReadFilenames walks it.           *)
GitUntracked ==
    IF ~config.includeUntracked THEN Empty
    ELSE ReadFilenames(IF input.untracked = {} THEN Files ELSE input.untracked)

IndexOnly == IF config.indexOnly THEN Single(LibName) ELSE Empty

(* linter.InitStubs reads the directory StubsDir; when the embedded stubs  *)
(* are in use its name is empty, which again is the current directory.     *)
InitStubs == IF config.stubsDir THEN Stubs ELSE ReadFilenames(Files)

(* The reports on a batch.  Every version uses a PHP function and, if      *)
(* there are index-only files, a function of theirs.                       *)
ReportsOf(batch) ==
    {<<n, "own">> : n \in {m \in DOMAIN batch : batch[m] \in Bad}}
        \union (IF StubName \in DOMAIN info THEN {} ELSE (DOMAIN batch) \X {"stub"})
        \union (IF config.indexOnly /\ LibName \notin DOMAIN info THEN (DOMAIN batch) \X {"lib"} ELSE {})

-----------------------------------------------------------------------------
(* A phase is the calls of ParseFilenames between two assignments of the   *)
(* flag, which these begin with.                                           *)
Goto(l, next) == pc = l /\ pc' = next /\ UNCHANGED input

(* meta.SetIndexingComplete(flag) and ParseFilenames(batch): with the flag *)
(* FALSE the batch replaces what index holds of its files.                 *)
ParseFilenames(flag, batch, index) ==
    /\ complete' = flag
    /\ info' = IF flag THEN index ELSE Over(batch, index)

Index(batch, index) ==
    /\ ParseFilenames(FALSE, batch, index)
    /\ UNCHANGED <<oldReports, reports, analysed, status>>

AnalyseOld(batch) ==
    /\ ParseFilenames(TRUE, batch, info)
    /\ oldReports' = ReportsOf(batch)
    /\ UNCHANGED <<reports, analysed, status>>

Analyse(batch) ==
    /\ ParseFilenames(TRUE, batch, info)
    /\ reports' = ReportsOf(batch)
    /\ analysed' = batch
    /\ UNCHANGED <<oldReports, status>>

(* initStubs: a stubs directory, or the embedded stubs.                    *)
MainInitStubs ==
    /\ Goto("initStubs", IF config.git THEN "gitMain" ELSE "index")
    /\ Index(Stubs, Empty)

(* Without -git: index the arguments, then lint them.                      *)
IndexArguments == Goto("index", "lint") /\ Index(ReadFilenames(Files), info)
LintArguments == Goto("lint", "exit") /\ Analyse(ReadFilenames(Files))

(* gitMain: the local changes, and the commits when there are none.        *)
HasLocalChanges == config.workTree # "" /\ LocalChanges # {}

GitMain ==
    LET mode == IF HasLocalChanges THEN "localIndex"
                ELSE IF ~config.authorAllowed THEN "done"
                ELSE IF config.fullDiff THEN "fullIndexOld" ELSE "commitIndex"
    IN  /\ Goto("gitMain", mode)
        /\ status' = IF mode = "done" THEN 0 ELSE status
        /\ UNCHANGED <<complete, info, oldReports, reports, analysed>>

LocalIndex == Goto("localIndex", "localOld") /\ Index(Over(IndexOnly, ReadFilesFromGit(from)), info)
LocalOld == Goto("localOld", "localIndexNew") /\ AnalyseOld(ReadOldFilesFromGit(LocalChanges))
LocalNewFiles == Over(GitUntracked, ReadChangesFromWorkTree(LocalChanges))

LocalIndexNew == Goto("localIndexNew", "localNew") /\ Index(LocalNewFiles, info)
LocalNew == Goto("localNew", "diff") /\ Analyse(LocalNewFiles)

CommitIndex == Goto("commitIndex", "commitOld") /\ Index(Over(IndexOnly, ReadFilesFromGit(to)), info)
CommitOld == Goto("commitOld", "commitIndexNew") /\ AnalyseOld(ReadOldFilesFromGit(CommitChanges))
CommitIndexNew ==
    Goto("commitIndexNew", "commitNew") /\ Index(ReadFilesFromGitWithChanges(CommitChanges), info)
CommitNew == Goto("commitNew", "diff") /\ Analyse(ReadFilesFromGitWithChanges(CommitChanges))

(* meta.ResetInfo, InitStubs and the tree, for either commit;              *)
(* parseIndexOnlyFiles for the old one only.                               *)
FullIndexOld ==
    Goto("fullIndexOld", "fullOld") /\ Index(Over(IndexOnly, ReadFilesFromGit(from)), InitStubs)
FullOld == Goto("fullOld", "fullIndexNew") /\ AnalyseOld(ReadFilesFromGit(from))

(* Mutant: meta.ResetInfo() before the new commit is missing.              *)
FullIndexNewWithoutReset ==
    Goto("fullIndexNew", "fullNew") /\ Index(ReadFilesFromGit(to), Over(InitStubs, info))

FullIndexNew == Goto("fullIndexNew", "fullNew") /\ Index(ReadFilesFromGit(to), InitStubs)
FullNew == Goto("fullNew", "diff") /\ Analyse(ReadFilesFromGit(to))

(* DiffReports, after which reports holds the new ones.  For every file    *)
(* that the diff names, git blame runs on the range of commits, in local   *)
(* mode too; it fails for a file the last commit does not have, and then   *)
(* DiffReports returns an empty list and no error.                         *)
DiffReports ==
    LET changes == IF HasLocalChanges THEN LocalChanges ELSE CommitChanges
        Change(n) == {c \in changes : RepoName(c.NewName) = n}
        OldName(n) == IF Change(n) = {} THEN n ELSE RepoName((CHOOSE c \in Change(n) : TRUE).OldName)
        blameFails == \E r \in reports : Change(r[1]) # {} /\ to[r[1][2]] = Absent
    IN  /\ Goto("diff", "exit")
        /\ reports' = IF blameFails THEN {}
                      ELSE {r \in reports : <<OldName(r[1]), r[2]>> \notin oldReports}
        /\ UNCHANGED <<complete, info, oldReports, analysed, status>>

Disabled(n) == config.muted /\ analysed[n] \in Bad

(* analyzeReports: the reports of a file that says '@linter disable' count *)
(* unless -allow-disable lets the file do so.                              *)
AnalyzeReports ==
    /\ Goto("exit", "done")
    /\ status' = IF \A r \in reports : Disabled(r[1]) /\ config.allowDisable THEN 0 ELSE 2
    /\ UNCHANGED <<complete, info, oldReports, reports, analysed>>

Done == pc = "done" /\ UNCHANGED vars

Next ==
    \/ MainInitStubs
    \/ IndexArguments \/ LintArguments
    \/ GitMain
    \/ LocalIndex \/ LocalOld \/ LocalIndexNew \/ LocalNew
    \/ CommitIndex \/ CommitOld \/ CommitIndexNew \/ CommitNew
    \/ FullIndexOld \/ FullOld \/ FullIndexNew \/ FullNew
    \/ DiffReports
    \/ AnalyzeReports
    \/ Done

Spec == Init /\ [][Next]_vars

-----------------------------------------------------------------------------
(* Properties.                                                             *)

CommitMode == config.git /\ ~HasLocalChanges /\ config.authorAllowed
Silenced == config.muted /\ config.allowDisable

(* A problem is new when the version of its file before, under the name it *)
(* had before, did not have it.                                            *)
NewProblem(old, new) ==
    LET Before(f) == {p[1] : p \in {q \in Renames(old, new) : q[2] = f}}
    IN  \E f \in Files : /\ new[f] \in Bad
                         /\ old[f] \notin Bad
                         /\ \A g \in Before(f) : old[g] \notin Bad

(* When the versions that are new have been analysed, the index held just  *)
(* these: a function moved between two of them is found in its new place.  *)
(* The flag and the calls around it alternate three times for this, and    *)
(* the two calls read the files or the diff a second time.  A comparison   *)
(* of commits analyses them against the tree of the last commit alone: no  *)
(* symbol of a file that it deleted is left in the index, in full-diff     *)
(* mode neither, where the tree of the first commit was indexed before it. *)
IndexIsTheNewTree ==
    pc \in {"diff", "exit", "done"} =>
        /\ \A n \in DOMAIN analysed : n \in DOMAIN info /\ info[n] = analysed[n]
        /\ CommitMode =>
             \A f \in Files : LET n == RepoName(f) IN
                 IF to[f] = Absent THEN n \notin DOMAIN info
                 ELSE n \in DOMAIN info /\ info[n] = to[f]

(* Where a comparison of whole trees tells new problems from old ones: the *)
(* stubs are a directory, which is read again after meta.ResetInfo; there  *)
(* are no index-only files, which are read for the first commit alone; and *)
(* no file moved without a change, which git diff does not list.           *)
FullDiffKnows ==
    config.fullDiff =>
        /\ config.stubsDir /\ ~config.indexOnly
        /\ \A p \in Renames(from, to) : from[p[1]] # to[p[2]]

(* And where one with the work tree does: its names are those of the       *)
(* repository; untracked files, if asked for, are there; and the last      *)
(* commit has every file that git knows, for git blame.                    *)
LocalKnows ==
    /\ config.workTree = "."
    /\ config.includeUntracked => input.untracked # {}
    /\ \A f \in Files : Tracked[f] # Absent => to[f] # Absent

UntrackedProblem == config.includeUntracked /\ \E f \in input.untracked : work[f] \in Bad

(* Comparing two commits, the linter exits with 2 if and only if the last  *)
(* commit has a problem that is new and not silenced: one that a renamed   *)
(* file brings along is not new.  Comparing a commit with the work tree,   *)
(* if and only if this has such a problem.  Linting its arguments, if and  *)
(* only if there is a problem that is not silenced by the file and the     *)
(* command line both.                                                      *)
RunExact ==
    status # Running =>
        /\ CommitMode /\ FullDiffKnows =>
             (status = 2 <=> NewProblem(from, to) /\ ~Silenced)
        /\ config.git /\ HasLocalChanges /\ LocalKnows =>
             (status = 2 <=> (NewProblem(from, Tracked) \/ UntrackedProblem) /\ ~Silenced)
        /\ ~config.git /\ ~config.indexOnly =>
             (status = 2 <=> (\E f \in Files : work[f] \in Bad) /\ ~Silenced)

(* docs/linter-usage.md: "Command exit code will be 2 if there are reports *)
(* found with non-MAYBE level."  Here: comparing a commit with the work    *)
(* tree, a run that analysed a file with a new problem exits with 2.       *)
ExitCodeHonest ==
    config.git /\ HasLocalChanges /\ status # Running =>
        (NewProblem(from, Tracked) /\ ~Silenced => status = 2)
=============================================================================
