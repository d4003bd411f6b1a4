# NoVerify in TLA+

[NoVerify](../src/README.md) is a linter for PHP. This directory holds TLA+ models of
the parts of it where control is hard: the goroutines of a batch, the language
server, the comparison of two versions of a project, the index of symbols and
its cache on disk, the scanner, parser and printer of PHP, the walk over a
function's branches and loops, and the lookups in the class graph. TLC
checks them on small instances; TLAPS proves the theorems listed below for every
value of the constants. Paths below are relative to `../src/src`.

## 1. Inventory

### What the program does

`cmd/main.go` reads the command line, loads PHP stubs, **indexes** all files (each
file's classes, functions and constants go to the global `meta.Info`), sets the flag
`meta.indexingComplete`, and **analyses** files against that index. The same
function, `linter.ParseFilenames`, does both: the flag says which. With `-git` the
driver does it several times, for old and new versions, and reports only what is
new. The language server does it once for the project and then keeps index,
opened files and diagnostics up to date as the editor sends messages.

### Components, their state and their operations

| component (source) | state | operations | hard behaviour | what makes it correct |
|---|---|---|---|---|
| Batch parsing (`linter/parser.go` `ParseFilenames`, `doParseFile`, `ParseContents`) | `filenamesCh`, `reportsCh`, wait group, each worker's `rep` | list a file, take one, parse, index or keep reports, deliver, collect | N workers over two channels; panics that are recovered | no file lost or taken twice; the call ends; it returns all reports |
| Memory limiter (`linter/limits.go`) | bytes in use | `BeforeParse`, `Finish` | may block every worker | overshoots by one file at most; no bytes leak |
| PHP syntax (`php/parser/`: `scanner`, `php7`, `node`, `printer`, `position_builder.go`) | stack of start conditions, token pool, parse stack, `PhpDocComment`, free floating text on nodes | read a token, shift, one action per production, walk a node, print a node | text and tokens change hands in some 500 actions; start conditions are pushed and popped by different rules | what is parsed can be printed back; positions nest; no token is read after it went back to the pool |
| Meta cache (`linter/cache.go` `IndexFile`) | cache file and temporary file per hash, open handles | hash, open, restore, remove, parse, create, write, rename, clean up | several writers of one temporary path, in one process and in others; crashes; an edit between two reads | an entry is the symbols of the contents it is named after |
| Symbol index (`meta/metainfo.go`, `linter/cache.go` `updateMetaInfo`) | maps by name, maps by file | add a file's symbols, take them out, reset | files arrive in any order; entries are found again by name and length only | no stale entry; nothing lost |
| Language server (`langsrv/langsrv.go`, `state.go`) | `openMap`, `changingMutex`, the flag and its callbacks | initialize, didOpen/didChange/didClose, queries, didChangeWatchedFiles | one mutex, several goroutines, a global flag that any of them may flip | no panic in a goroutine, no deadlock, answers from one version |
| Report diff (`linter/report.go` `DiffReports`) | list of results, semaphore | one goroutine per file; a walk over both versions' lines | line arithmetic over hunks; an error that ends all | a new problem is reported, an old one is not |
| Command-line driver (`cmd/main.go`, `cmd/git_main.go`) | the flag, `meta.Info`, reports, exit code | phases of plain, local, commit and full-diff mode | the order of phases, what is left in the index by the phase before | the exit code says whether there is a new problem |
| Block walker (`linter/block.go`, `block_context.go`, `meta/scope.go`) | contexts, exit flags, scope, unused variables | one handler per kind of statement | merging contexts over nested branches, loops, switches, try | unreachable code is unreachable; undefined and unused variables are |
| Class lookup (`solver/solver.go`) | `visitedMap` | `FindMethod`, `FindProperty`, `FindConstant`, `Implements` | cyclic, partial, diamond-shaped class graphs; Go's random map order | finds the inherited member if and only if there is one; ends |

The other parts, with the reason why they are not modelled, are listed under
`components` in `PROJECT.json`: the root walker, type inference, phpgrep, PHPDoc and
rules (sequential functions of their input), git processes, flags and I/O,
generated data, the test harness.

### How they interact

    main / gitMain --calls--> ParseFilenames --Admit/Release--> memory limiter
         |                        |  workers
         |                        |-- scanner -> parser -> syntax tree
         | sets indexingComplete  |-- indexing: IndexFile (cache on disk) -> updateMetaInfo --> meta.Info
         v                        |-- analysing: RootWalker -> BlockWalker -> solver (reads meta.Info)
    DiffReports <-- reports ------'
    language server: ParseFilenames once; then openFile/changeFile under changingMutex,
                     each of which clears indexingComplete, updates meta.Info, sets it, analyses

Shared state: `meta.Info` (its own lock, but readers of the analysis take none and
rely on the flag), `meta.indexingComplete` (a plain variable), `openMap` (under
`changingMutex`), the two channels of the limiter, the files of the cache directory
(no lock at all).

## 2. Modules

| module | models | composed with |
|---|---|---|
| `MemoryLimiter` | `linter/limits.go` | joint steps in `ParsePipeline` |
| `ParseBatch` | abstract: what one `ParseFilenames` promises | refined by `ParsePipeline` |
| `ParsePipeline` | one call of `ParseFilenames`, goroutine by goroutine | |
| `LangServer` | the language server's goroutines, mutex, flag | |
| `ReportDiff` | `DiffReports`, `diffReportsList` and the goroutines around it | |
| `GitRun` | one run of the command-line linter | uses batches as `ParseBatch` promises them |
| `MetaIndex` | `meta.Info` | |
| `MetaCache` | `IndexFile` and its cache file, several callers, crashes | ends in `UpdateMetaInfo` of `MetaIndex` |
| `SyntaxTerms` | the notation in which an action of the grammar is written down | |
| `PhpStatements`, `PhpExpressions` | the productions of `php7.y` with what their actions in `php7.go` build | used by `Syntax` |
| `PhpTokens` | the terminals and the start conditions of `scanner.go` | used by `Syntax` |
| `SyntaxActions` | evaluates actions: nodes, positions, free floating text | used by `Syntax` |
| `NodeTypes` | fields and `Walk` of the 159 types of nodes | used by `Syntax` |
| `PrinterPrograms`, `SyntaxPrinter` | `printer.go` | used by `Syntax` |
| `TokenPool` | the token objects of one parser: pool, scanner, stack; any grammar | its actions are parts of the steps of `Syntax` |
| `Syntax` | scanner, token pool, parser and doc comments, on one file | composes the modules above |
| `PhpFlow` | reference: what executing a PHP body may do (not the repository's code) | used by `BlockFlow` |
| `BlockFlow` | `BlockWalker` | compared with `PhpFlow` |
| `ClassLookup` | the lookups of `solver.go` | |
| `FoldLemmas` | what the folds of the community modules compute: sums, a fold from the left, the intervals of `MayBeRenamed`; induction over a set or a subset, stated with a set in the place of a predicate | cited by the proofs of `ParsePipeline`, `ReportDiff` and `LangServer` |
| `...Proofs` | theorems and proofs of the module named; `ParsePipelineProofs` also those of `TokenPool` | |
| `MC...` | the constants' values for TLC | |

The exact lines that each definition stands for are under `map` in `PROJECT.json`.
Definitions whose comment begins with "Mutant:" or whose name extends that of
another definition (`VisitAgain`, `LockMissing`, ...) are variants with a plausible
bug; each is substituted once for the definition it varies to make sure that the
property named in `mutants` notices.

### Batch parsing (`ParsePipeline`, `MemoryLimiter`, `ParseBatch`)

State: the reader's remaining files, the buffered `filenamesCh`, each worker's
program counter, its file and its `rep`, `reportsCh`, the wait group, the limiter's
`used`, the caller. One action per blocking or visible step of a goroutine:
`SendFilename`/`CloseFilenames` (the reader), `Receive`, `OpenSource`/`OpenFails`/
`CacheHit`, `BeforeParse` (a rendezvous with the limiter: `Admit`), `ParseSucceeds`/
`ParseFails` (with the deferred `Finish`: `Release`), `UpdateMeta`, `NoMoreFiles`,
`SendReports`, `WorkerDone`; `WaitReturns`, `Collect`, `ReturnReports` (the caller).
A file is a model value; whether it opens, parses, hits the cache is a choice.
`ReaderFatal` is the `log.Fatal` of a reader. `ParsePipeline` implements `ParseBatch`
under the mapping "todo is whatever is with the reader, in the channel or with a
worker; effect is what is indexed or in some `rep` on its way".

### Language server (`LangServer`)

Goroutines: `Main` (one message at a time, panics recovered), the indexing goroutine,
and the `openFile` goroutines it starts for files that were opened meanwhile. A
version stands for a text; index, open map and diagnostics hold the version they
were computed from. Every assignment of the flag, every lock and unlock, and every
read of shared state between them is a step of its own, so the stretch between
clearing and setting the flag can be interrupted wherever the code can. A panic
of `updateMetaInfo` outside `Main` clears `alive`. Other programs change the disk between any
two steps (`ChangeOnDisk`; a file that cannot be read is `None`), so both reads of
`externalChanges`, `IndexFile`'s and `getFileContents`', find what is there by then, or fail; when
the second fails the file stays open as it is (`WatchRefresh`). `behind` is history: the files whose
last change was dropped because the flag was cleared, and those that became unreadable or
unparsable between the two reads. Answers of queries are not
modelled, only the state they are computed from.

### Report diff (`ReportDiff`)

The input is an edit script (kept lines, and how many are deleted and added in each
gap) with reports on lines of either version. `Hunks` is what `git diff -U0` prints of
it (external), `ParseLineRange` what `git/diff.go` makes of that, `WalkLine` one
iteration of `diffReportsList`'s loop, bounded by the largest line with a report as
in the code. Around it, one goroutine per file with the semaphore, the mutex and
the error of `DiffReports`. Report texts are left out: reports differ by line only. A
report lies on a line of its version (`InputType`): the linter makes it while it reads that version.

### Command-line driver (`GitRun`)

One action per phase of `mainNoExit` and `gitMain`, with the readers of
`linter/parser.go` as functions from names to versions, so that a file known under
its repository name and under its absolute name are two names, as in the index.
Options are a record; trees, work tree and untracked files are chosen in `Init`. Which deleted
file git pairs with which added one as a rename is git's choice, each at most once (external).

### Symbol index (`MetaIndex`)

`UpdateMetaInfo(f, v)` is the critical section of `updateMetaInfo`, with the taking out
of the old symbols and the adding in the code's order; `DeleteMetaForFile` and
`ResetInfo` the other writers. Classes stand for traits and constants too. A
function is its `Pos.Length`, because that is how the code recognises it.

### Meta cache (`MetaCache`)

As in a file system, names and files are apart: `entry` and `tmp` say which inode a
name stands for, `content` what is in an inode, `fd` which one a caller has open. One
action per system call or read of the file: `HashContents`, `OpenCacheFile`,
`RestoreMetaFromCache`, `RemoveCacheFile`, `ParseContents` (the second read), `CreateTmpFile`
(truncates whatever inode the name has), `WriteMetaCache` (one flush of the buffer),
`RenameTmpFile`, `UpdateMetaInfo`, `RemoveTmpFile` (deferred: on every path). Around them
`Edit` of the file, `WriteFails`, `Crash`. An encoding is a sequence of writes that
remember who made them, so that a mix of two can be told from a whole one. History
variables: `contended` (hashes that two callers wrote at a time), `stale` (under which
another text was parsed), `crashed`.

### PHP syntax (`Syntax` and its tables)

Which production goyacc's tables reduce is not computed: `Syntax` derives a file from
the grammar while it is read (`Expand`), and the parser follows that derivation, which
is what the tables make it do for a file without syntax errors. `Lex` reads the next
terminal into an object of the pool, with the free floating text before it, and moves
the start conditions; `Shift` and `Reduce` are the parse loop, with goyacc's copy of $1 into
$$ and with `returnTokenToPool`. What an action computes is a term (`PhpStatements`, `PhpExpressions`):
the node, from which symbol to which its position runs, which text goes to which
slot of it. `PrinterPrograms` says of each type of node what the printer writes, and
`NodeTypes` what `Walk` visits. A token's characters are one atom, so the text of a file is a
sequence of atoms and two files are the same if every token and comment is.

Who refers to which token object is a module of its own, `TokenPool`: `ReadToken` (a `Get` and `createToken`), `ShiftToken`,
`ReduceTokens` (`yyVAL`'s copy of $1, `returnTokenToPool`), and what goyacc does to the stack after a syntax error, `RecoverTokens` and
`DiscardToken`. It leaves the grammar open: a reduction may replace any number of symbols and return their tokens or, with one symbol at most, keep
the token. That the productions are so is `ProductionsAssumption` of `Syntax`, whose `Lex`, `Shift` and `Reduce` contain these actions and
whose other steps leave the four variables alone. Only states behind a list of statements shift `error` (the generated tables), hence the guard of `RecoverTokens`.

### Block walker (`PhpFlow`, `BlockFlow`)

A body is a sequence of statements (`if`, loops, `switch`, `try`, jumps, calls that
exit, and reads and writes of one variable `$x`). `BlockFlow.Walk` is the walker: one
operator per handler (`handleIf`, `handleTry`, `handleSwitch`, ...), with contexts copied and
merged as in the code (`propagateFlags...`, `maybeAddAllVars`, ...). `PhpFlow.Run` is the meaning of
the same body by PHP's rules: the statements that may run, the assignments that
may reach each read, the ways to leave. `BlockFlow` appends one statement at a time
to a body and runs both beside each other. `RECURSIVE` operators over the tree of
statements keep these two modules out of TLAPS' reach.

### Class lookup (`ClassLookup`)

The recursion is a stack `todo` of what is left: classes to enter (a set where the
code ranges over a Go map, so every order is tried), a class whose own members are
looked at, the class `Implements`' loop has come to. `MethodItems`, `PropertyItems`,
`ConstantItems`, `InterfaceItems` are the bodies of the four walks in the order of the
code; `Visit` is entering a class: once, and only if `meta.Info` has it. The graph is a
constant: any classes, traits and interfaces, tied in any way.

## 3. What the runs check

Runs that pass:

| run | instance | properties and what they say |
|---|---|---|
| `ParsePipeline` | 3 workers, 3 files of sizes 3, 2, 1, limit 2, channel of 1 | `PipelineTypeOK`; `SoftLimit`, `LimiterAccounting`: the limit is passed by one file only and no path leaks bytes. `NoFileTwice`, `ReturnsEverything`: no file is lost, doubled, or left out of the result. `Terminates`: limiter, channels and wait group never wait for each other. `ImplementsBatch`: refinement of `ParseBatch`. |
| `LangServer` | 2 files, 2 texts that parse and one that does not, 3 messages or changes on disk, 1 pending request | `MutexOwned` (with the types), `NeverUpdatesWhenComplete` (no goroutine dies of the panic), `QuerySeesOneVersion` (but for `behind` files, see below), `DiagnosticsUseNewIndex`, `Responsive`. didChangeWatchedFiles comes only after indexing (`WatchDuringIndexing`): before that, `NeverUpdatesWhenComplete` fails, see `LangServerWatch`. |
| `ReportDiff` | every edit that keeps 2 lines and deletes and adds up to 2, one old and one or two new reports; a second file unchanged or whose blame fails; one slot | `OnlyNewReports`, `AdditionsReported`, `EveryFileOnce`, `Returns` |
| `GitRun` | every pair of trees of 2 files with 3 versions, every work tree, every relevant combination of options | `IndexIsTheNewTree`: what is analysed is in the index, and comparing commits nothing else of the repository. `RunExact`: in every mode the exit code is 2 if and only if there is a (new) problem; for full-diff mode and the work tree under conditions that it names (`FullDiffKnows`, `LocalKnows`). |
| `MetaIndex` | 3 files, 5 versions that share a class, a function of two lengths and a constant | `SymbolsAreDeclared`: no stale entry after any history. `BatchIndexComplete`: after a first batch, in any order, nothing is missing. `NamesLeaveWithADeclaration` (action property). |
| `BlockFlow` | about 80 000 bodies: a simple statement, a compound one up to three deep, a simple one | `DeadCodeNeverRuns` (also: a function marked as exiting never returns), `UndefinedUseReported`, `UnusedNeverRead`, `ContinueEndsSwitch`, each against `PhpFlow` |
| `ClassLookup` | 15 586 graphs over 3 classes, 2 traits, interfaces; loops, diamonds, missing declarations | `TypeOK`, `FoundIsInherited`, `NotFoundMeansNowhere`, `NearestWins`, `ImplementsRight`, `LookupEnds` |
| `Syntax` | files derived from 13 kinds of phrases with any one production that is not the plainest, and from 11 kinds with two to five; each with white space and comments everywhere or only where needed | `RoundTrip`: printing the tree gives the file back. `PositionsNest`, `WalkReachesAll`, `NoTokenAliased`, `ScannerFollows`, `DocGoesOnce` |
| `MetaCache` | two callers of linters with different cache versions, two texts, one edit and one crash or failed write at any moment | `EntriesRight`: an entry is one whole encoding of its own text, and what is restored are its symbols. `LostOnlyWhenContended`: only contention makes `IndexFile` skip `updateMetaInfo`. `TmpIsRemoved` |

Runs that show a disagreement between the code and what the repository says of it
(each of one property, expected to be violated):

| run | what happens |
|---|---|
| `LangServerWatch` | didChangeWatchedFiles during indexing sets the flag under the indexing workers; the next `updateMetaInfo` panics in a goroutine and the server dies. |
| `ReportDiffMissed` | a pure deletion uses up an iteration of a loop that is bounded by line numbers: the last changed lines are not compared. |
| `GitExit` | comparing with the work tree, a failing `git blame` empties the result and loses the error: exit code 0 with a new problem. |

### Shapes of code that the block walker misreads

The block walker is heuristic, and some properties hold only outside named shapes.
`MisreadExits`: a `break` that leaves a `do` body; a `break` under an `if` or `try` of a case; an
empty last case in a switch with a default; `&& die`. `MisreadVariables`: besides, `unset` in
a branch, `isset` with an else, assignments among the loop expressions of a `for`.
`MisreadReads`: reads in a catch or finally, and in the step of a `for`. Each disjunct is
necessary: without it the run finds a body that the walker gets wrong. They are
listed as hazards at their lines.

### What the syntax tree loses, and other exemptions

Wherever a property has an exemption, the code really does the wrong thing there, and the
run fails without it.

- `LosesText` (exempt from `RoundTrip`): `new A::$b` and `instanceof A::$b` keep the text before
  `::` in slot `Var` (`php7/php7.go:7698`, `:7713`), the printer writes slot `Name` (`printer.go:1748`);
  the text before `b` in the trait adaptation `A::b` is kept nowhere; `use function \A\{b}`
  is printed without its first backslash; a `for` whose parts are separated by closing tags is printed with
  semicolons; `` `${a[0]}` `` is printed with another dollar sign; a closing tag before inline
  HTML is printed twice after `if ($a) echo 1 ?>`; the text before a comma takes the place of the
  `)` that ends the item before it.
- `PositionsNest`: an empty list has no position, so that a `try` without `catch`, an empty `case` or
  `default`, an empty alternative `else`, and what ends with one, end at -1; `use A\{function f}` has
  its `Use` node start behind the word `function`.
- `WalkReachesAll`: the walks of classes and methods visit the name before the modifiers.
- `NearestWins`: graphs in which a class is used as a trait, or extends an interface (`OnlyTraitsUsed`): PHP does
  not run them, but the index holds them, and `findMethod` walks all that a trait extends before the
  parent of the class that uses it (`solver/solver.go:259`).
- `DocGoesOnce` says once, not where: `l.PhpDocComment = ""` at a closing brace follows a `return`
  (`scanner/scanner.go:8536`), so a comment waits for the next declaration, however far.
- `EntriesRight`, `LostOnlyWhenContended`: `contended` and `stale` hashes. The temporary path is the
  same for all writers, and nothing compares the second read of the file with the hash of the first.
- `QuerySeesOneVersion`: a text that does not parse leaves the flag cleared (`langsrv/state.go:75`
  returns before `state.go:77`); until something sets it again every change of an
  open file is dropped, the index of a watched file goes on and its open tree does not. And
  `externalChanges` reads an opened file twice: when it vanishes, becomes unreadable or stops to parse after
  `IndexFile` has indexed it, `langsrv/state.go:163-167` (or the parse error) leaves the old tree
  open beside the new index, for queries to see until the next edit. Both are in `behind`, marked
  where they happen and not by their effect; without either mark TLC finds a query that sees two versions.
  No line of the repository promises otherwise, so it is an exemption and not a finding.
  A file deleted by a message stays open while the index has nothing of it.

Seen while modelling, but outside the models: a cache version of exactly 256 bytes passes the
check `len(ver) > 256` (`linter/cache.go:224`) and is written as length 0; `heredocLabel` is one
field of the lexer, so a heredoc inside a heredoc overwrites the outer label; callbacks
of the indexing flag are never taken out (`meta/metainfo.go:415`).

### Bounds

- *Pipeline*: three workers are the least with two others to race with one that is
  blocked; file sizes are one above, one at, one below the limit; a channel of one slot makes the
  reader block. The proofs remove the bound.
- *LangServer*: three messages or changes on disk suffice for open-edit-watch, open-query-edit and
  open-watch-delete (the failing second read), and for the violation, which needs two; two files are needed for one to be indexed while
  another is edited. Queries change nothing and do not count as messages.
  406 917 states.
- *ReportDiff*: with two kept lines there are three gaps: every order of two hunks
  and one after them. The safety is unbounded by proof: any edit script, any reports, any number of files.
- *GitRun*: two files for a rename; two bad versions, so that an edit can keep a problem. 875 260 states.
  `RunExact` and `IndexIsTheNewTree` are unbounded by proof. Each condition of `FullDiffKnows` and `LocalKnows` is
  needed: without it TLC finds a run that exits with 2 for an old problem, or with 0 for a new one. They are what the code's
  handling of stubs, index-only files, moved files, absolute work trees, empty lists of untracked files and failed git blames costs.
- *MetaIndex*: three files, so that a third declares what two others fight over. Unbounded by proof.
- *MetaCache*: two callers suffice for contention and a third only adds one of the two roles; their linters have
  different cache versions, so that each finds entries of the other; one text takes two writes, so that
  encodings can be mixed, the other one; one of them may be given as contents of a commit. Six inodes are enough for each
  name and handle to have its own; `View` forgets which. `MaxEdits` and `MaxFaults` are 1 each,
  at any step. 2 391 317 states; callers, edits, faults are unbounded by proof.
- *Syntax*: of the productions of a nonterminal that have nonterminals in the same places, `OneOfEachShape` takes
  the first (the rest differ by a keyword or an operator); budget 1 gives each of these
  in the plainest surroundings, `Deep1`, `Deep2` and `News` combine those between which text moves (statements
  and inline HTML, strings, members, trait adaptations, branches, arguments, arrays, parameters, closures,
  variables, `new`). 239 526 states.
- *BlockFlow*: the walker merges a context into the one around it, so a statement before, a compound with a
  nested compound with a jump in it, and a statement after is what each rule needs;
  `MCBlockFlow` lists which combinations are nested.
- *ClassLookup*: a cycle of three, a diamond and a trait of a trait need three classes and two traits. The
  safety of all four lookups is unbounded by proof.

### Deadlock

Where a run says `CHECK_DEADLOCK FALSE` the system may stop: the client of the language
server may stay silent, a body or a file may be complete, a lookup is over. `ParsePipeline`,
`ReportDiff` and `GitRun` check for deadlock with an explicit `Stopped` or `Done` step for the
regular end. `MetaIndex` and `MetaCache` never stop.

### Fairness

Go's scheduler runs every runnable goroutine, so each goroutine is weakly fair; no
strong fairness is assumed. `ParsePipeline`: a worker waiting for the limiter can be overtaken
only by finitely many files. `LangServer`: `Main` waiting for the mutex can be overtaken only by
goroutines that take it once each; neither the client nor the disk is fair. `ReportDiff`: each goroutine and the
caller. `ClassLookup`: the one walk goes on. The other modules state no liveness.

## 4. What is proved

All proofs are checked by `tlapm`, to the last leaf; the only assumptions are the
named `ASSUME`s of the modules, which TLC evaluates on every run.

**`ParsePipelineProofs`** (any finite set of files, any workers, sizes, limit, channel capacity).
`PipelineTypeCorrect`: the type invariant is not inductive alone; `TypeInv` adds that the wait group
counts the workers that have not exited, without which it might become negative, and
that a worker between `Receive` and the end of its turn holds a file.
`SoftLimitHolds`: `SoftLimit` is inductive on top of it; when the limiter is closed off, the file
admitted last is the witness until any file is released. `ReturnsEverythingHolds`:
`ReturnInv` says that a worker leaves its loop only when the channel is closed and drained, that
the lists in `reportsCh` and those received are together those of the workers
that have sent (`Delivery`), and that the caller goes on only after all workers have exited.

`LimiterAccountingHolds`: what the limiter believes to be in use is the sum of the sizes of the files in its hands, and so never
negative: `Admit` and `Release` each move one file, and `SumTakeOut` of `FoldLemmas` says what that does to a sum.
`NoFileTwiceHolds` by `OnePlace` (a file is unread, in the
channel, or with one worker) and `OneEffect` (it takes effect when it has left all three, and in one
`rep`). `PipelineImplementsBatch`: under `TypeInv`, `ReturnInv` and these, each step of a goroutine is a `Handle` of one file, the `Return`,
the `Fatal` or a stutter of `ParseBatch`. The first lemmas say of each step which file it moves.

`NoDeadlock` and `StepsRunOut` are what can be proved of `Terminates`, for any numbers and sizes where the run has three files and three
workers. As long as the call is neither over nor aborted the guard of some goroutine's step holds: a full `filenamesCh` means that a worker can receive,
a refusal of the limiter that another worker is parsing (`SoftLimit`), and `reportsCh` has room for every worker that has not
sent (`Delivery`). And `StepsLeft`, a natural number, falls with every step, whoever makes it: a listed file is worth more
unread than in the channel, there more than with a worker, and so on to the worker's exit. A call thus makes finitely many steps and
stops only where it should; that the scheduler does not leave it alone before is all that is left to fairness. The guards are written out (`WorkerCanGoOn`,
`ProducerCanGoOn`, `MainCanGoOn`), since `ENABLED` is out of the prover's reach.

Its last section is about `TokenPool` (any grammar within `ProductionsAssumption`, any input, any syntax errors). `TokensApart`: with the types
(`PoolOK`), `NoTokenAliased` is inductive. What has to be shown is that an action gives back each token of its symbols once (`ReturnedObjects`, an
induction over the fold of `returnTokenToPool`), and that the copy of yyVAL that a recovery pushes is the only one left of its object, since it cuts off the slot it was
made from (`CutStack`). `TokensKept`: so an object is never filled while somebody refers to it. `DroppedInErrors`: objects are lost to the pool in
recoveries only.

**`MetaIndexProofs`** (any files, versions, names). `SymbolsDeclared` is inductive with the type
invariant; two lemmas say that taking a file's symbols out removes all and only
entries that it declared or shares by name. `BatchComplete` and `NamesLeave`
follow per action from it.

**`ClassLookupProofs`** (any finite set of names and any class graphs). `TypeCorrect`: `Implements`' loop is the
last item of `todo`, always. `FoundInherited`: by `Sound`, all that `todo` mentions is reachable by
inheritance. `NothingMissed`: by `Complete`, every edge out of a visited class leads to a visited
class or to one awaited in `todo`, and each visited class that declares the member
is still to be looked at; when `todo` is empty the visited classes are closed and
contain the start, so they contain all that is reachable. This is why
one `visitedMap` shared by all branches is right.

`NearestIsFound`: at any time the walk is at one class y (`Turn`): `todo` is what is left of y's traits (`Within`), and last the parent of y; nothing of what
was visited is forgotten in the former (`TraitsComing`), and the classes passed do not have the member (`NoneNearer`). The parent is
entered only when no trait is left, so that y has nothing to offer then. It takes an index as PHP allows it (`OnlyTraitsUsed`): a class
that names another class with a parent in `use` gets that parent's methods before its own parent's.
`ImplementsIsRight`: `Implements` is a loop over parents that marks nothing as visited, with a
marked walk over interfaces inside. `ImplementsSound`: all that is in `todo` is an ancestor of the class or one of its
interfaces. `ImplementsComplete`: there is a set of classes the loop has come past (`Past`) whose
parents are in it or come next and whose interfaces are visited or awaited and do not
match, and each visited interface has had what it extends compared (`Entered`) — or the match is
already in `todo` (`HitComing`). At the end both sets are closed, and `AncestorsLeast` and `InterfacesLeast` put them around the
sets of the definition: `ImplementsIsRight`. The assumption on the graphs that it needs is that a class names at
most one parent.

`LookupRunsOut` is the same for `LookupEnds`: the walk stops only when it is over, and each step lowers `StepsLeft` lexicographically (`LessLeft`, well-founded by the library's theorem):
entering a class takes one of `Names \ visited`, a visited one shortens the range or the list of open calls, and a turn of `Implements`' loop, which marks nothing, goes to a parent with
fewer ancestors (`ComingLess`). Only the last fails when parents run in a circle: there the code does not stop.

**`LangServerProofs`** (any files, texts, requests, number of messages). `Control` gives the mutex to the goroutine between lock and
unlock (`MutexHasOneOwner`). The other theorems assume `~WatchDuringIndexing`, without which
the first of them is false (run `LangServerWatch`): `Calm` says which goroutine may have cleared the flag — so that whoever
updates finds it cleared (`NobodyPanics`); `OneVersion` says of each open file that its tree and the index agree, or that someone who has the mutex is
about to make them (`Refreshed`), or that the file is `behind` (`QueriesSeeOneVersion`): while `externalChanges` is
between its two reads of a file (`BetweenReads`) what the second will find must be there and parse, and the step that takes it from the disk marks the file. `DiagnosticsFromNewIndex` follows per action.
`ServerRunsOut` is for `Responsive` what `NoDeadlock` and `StepsRunOut` are for a batch, without the assumption and for any client: who waits for the mutex waits for
its owner, who by `Control` never waits for anything, so that while someone is busy someone can go on (`NobodyWaitsForNobody`); and `StepsLeft` — what each goroutine has
before it (`Turn`), a whole turn for each file to refresh and each one that `AnalyseOpened` has yet to start — falls with every step that is neither a message of the client
nor a change on disk. `Loops` is needed for it: the loops of `externalChanges` end only with an empty set.

**`GitRunProofs`** (any trees, names, versions, options). `Phases` says for each value of `pc` what the index holds of the
repository: nothing (`Fresh`) or exactly the new tree (`Agrees`), and that the batch of the last analysis is in
it (`Holds`): `AnalysedAgainstNewTree`. `ExitCodeExact` (`RunExact`) goes on from there, for all three git modes at once:
`Target`, `Changes`, `OldBatch` and `NewBatch` are what a mode compares with the first commit and what it reads of either. `Exact` says that
stubs and index-only files are indexed when anything is analysed (`StubsIn`), so that the reports before the comparison are the
problems of these batches' own versions, the old ones under their old names; and that what the comparison leaves is not empty exactly
when a problem is new (`DiffReportsExact`). That git pairs a file at most once (`OneToOne`) is what makes the old name of a file
unambiguous (`DiffEntries`); a file without an entry is compared under its own name, and only in full-diff mode (`NewByDiff`).

**`MetaCacheProofs`** (any callers, versions, sizes, inodes, any number of edits and faults), in three layers, each inductive given
those below. `Control`: types, and what each label means for handle and position. `Apart`: different hashes never share an inode, by
name or by handle. `WritersAlone`: outside contention, the caller between create and rename is the only one at its temporary file, which is
where it left it (`LossNeedsContention`; `TemporaryFilesRemoved` is beside it). `Texts`: what an uncontended caller has written so far is its own, the entry is whole, and what a
caller opened stays right even when the name is removed (`CacheFilesRight`).

**`FoldLemmas`**. The library's induction takes a predicate as a parameter, which the provers cannot instantiate. Here the
predicate is a set: a set of numbers with 0 and with n + 1 when n is in it is all of `Nat`, and so for the subsets of a finite set
(`SetInduction`, `SubsetInduction`). Whoever needs an induction gives the set of those for which the claim holds. From them: `FoldExists`
and `LeftFoldExists` (the recursive functions that the folds of the community modules choose do exist, so that their equations may be used), `SumIsFold`,
`SumTakeOut`, `SumAgree`, `SumChange`, `SumNat` (sums over finite sets), `IntervalMax`.

**`ReportDiffProofs`** (any finite set of files, any edit scripts and reports, any number of goroutines at a time), in three layers.
*The lines*: `LinesBefore` gives the numbers a line has in the two versions, `HunkSides` and `HunksApart` the old lines a hunk stands for, and that no line
belongs to two hunks. *The walk*: each state of `diffReportsList`'s loop is at the same place of the edit script in both versions — before the deletions of a gap,
behind a gap, or past the last edit (`InStep`) —, has reported only what is new, and where nothing was deleted has
missed nothing; together `InSync`, which `WalkLine` preserves in each of its cases (kept line, deletion, change or insertion). After an insertion above the first
line the walk is out of step for good: what is left then, and enough to deliver each line once, is that the lines reported are ascending and
below the next one (`WalkSorted`). `DiffReportsListRight` puts this together by an induction over the loop's fold. *The goroutines*:
by `IInv` the slots taken are counted by those that hold one, the list holds for each file that has
appended exactly what the walk returns for it, in order, and nothing of the others, and the caller has waited. Then
`OnlyNewReportsHolds`, `AdditionsReportedHolds`, `EveryFileOnceHolds`, and `TypesRight` for the types. `DiffReportsRunsOut` is for `Returns` what `NoDeadlock`
and `StepsRunOut` are for a batch: a goroutine waits for a slot only while another one holds it and can go on, also when blame fails, and four steps for each
file and one of the caller are all there are.

**Only model-checked.** Liveness (`Terminates`, `Responsive`, `Returns`, `LookupEnds`): under
fairness, out of the prover's reach; of all four the absence of deadlock and a measure that every step (of the language server: but the client's messages and changes on disk) lowers are proved. `BlockFlow`, `PhpFlow` and `Syntax`, which recurse over statements and terms (`RECURSIVE`
operators: the provers do not reason in modules that declare one); of `Syntax` only the tokens, in `TokenPool`, are in reach. That a step of `Syntax`
is one of `TokenPool` can be read off its text and is not a theorem.

## 5. What is not modelled

- Syntax errors: which tree goyacc's recovery and the `error` productions give; the parser without a
  syntax error is `Syntax`, and `TokenPool` has what a recovery does to tokens. Characters: how the scanner recognises a token within a start
  condition. The pretty printer (`FmtNode`: debugging output).
- Contents: report texts, types of expressions, levels of reports. A problem is a model value on a line or in a version.
- Of the cache, the bytes of the encoding (their writes are modelled) and collisions of hashes.
- Data races on the plain variable `indexingComplete`: reads and writes are atomic here.
- Of the language server, the answers to queries and the rest of the protocol.
- Git: the processes it runs are external; what they print is modelled where the
  code depends on it (`Hunks`, `Diff`, the empty line of `git ls-files`).
- Of the block walker: closures, references, globals, `list()`, `goto`, multi-level `break`, types.
- Of the class lookup: `Implements` on classes that extend each other in a circle
  runs for ever in the code; `LookupEnds` leaves that case out (`ParentLoop`) and it is
  listed as a hazard.

## 6. Plan

Done, in the order of importance: the pipeline with its limiter and its abstract
specification, and the proof of the refinement; the language server; the report diff; the driver; the index and
its cache; scanner, parser, tree and printer; the block walker with its reference semantics; class lookup.

What could come next:

1. `solver.resolveType` and `meta.TypesMap` as an algorithm over lazy types with its visited
   map, against a least fixed point; `side_effects_finder.go` on top of it and of `ClassLookup`.
2. The matcher of phpgrep on the trees of `SyntaxActions`: named captures and greedy `...`, against a reference definition.
3. `GitRun` composed with `MetaIndex` (names and declarations instead of versions), for
   declarations that move between files across phases.

## 7. Running

    tlc -workers 2 -config ParsePipeline.cfg MCParsePipeline     # each run: module and cfg in PROJECT.json
    tlapm ParsePipelineProofs.tla
