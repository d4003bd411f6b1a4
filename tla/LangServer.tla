----------------------------- MODULE LangServer -----------------------------
(***************************************************************************)
(* The language server (langsrv/langsrv.go, langsrv/state.go) with the     *)
(* flag and the callbacks it shares with meta/metainfo.go.                 *)
(*                                                                         *)
(* Its goroutines:                                                         *)
(*   - Main reads one message after another and runs its handler; a panic  *)
(*     of a handler is recovered in handleMessage;                         *)
(*   - the indexing goroutine of handleInitialize, with ParseFilenames'    *)
(*     workers, indexes the project, sets indexingComplete, and starts     *)
(*     one goroutine openFile(filename, contents) per opened file;         *)
(*   - those goroutines, one per file here, named after their file.        *)
(* A panic in any goroutine but Main ends the process.                     *)
(*                                                                         *)
(* changingMutex serialises openFile, changeFile, the read-only handlers   *)
(* and the first half of externalChanges.  indexingComplete is a plain     *)
(* variable that says which phase the process is in; updateMetaInfo panics *)
(* when it is TRUE.  A version of a file stands for its contents; what the *)
(* index, the open map and the diagnostics hold of a file is the version   *)
(* they were computed from.                                                *)
(***************************************************************************)
EXTENDS Integers, FiniteSets

CONSTANTS
    Files,
    Versions,       \* contents a file can have, on disk or in the editor
    Broken,         \* the versions ParseContents returns an error for
    Requests,       \* documentSymbol requests the client may send
    Main,           \* the goroutine of langsrv.Start
    None,           \* no version, no file, no owner
    InitialDisk,    \* the project on disk when the server starts
    MaxMessages,    \* bound on the messages the client sends, without queries,
                    \* and the changes on disk that come between them
    WatchDuringIndexing  \* may didChangeWatchedFiles come before indexing ends

ASSUME LangServerAssumption ==
    /\ Broken \subseteq Versions
    /\ Main \notin Files
    /\ None \notin Files \union Versions \union {Main}
    /\ InitialDisk \in [Files -> Versions \union {None}]
    /\ MaxMessages \in Nat
    /\ WatchDuringIndexing \in BOOLEAN

VARIABLES
    complete,       \* meta.indexingComplete
    callbacks,      \* meta.onCompleteCallbacks: requests waiting in it
    replies,        \* how often a documentSymbol request was answered (0, 1, 2 or more)
    owner,          \* who holds changingMutex
    pc,             \* where each goroutine is
    job,            \* the file and the contents it works on
    phase,          \* the indexing goroutine
    unindexed,      \* files it has yet to index
    index,          \* meta.Info: the version of each file its symbols are from
    openMap,        \* opened files: their text, and whether it was fully analysed
    diagnostics,    \* version the last publishDiagnostics of a file was about
    disk,           \* what is on disk
    editor,         \* what the editor shows, None for a file it has not opened
    toIndex,        \* externalChanges: files its workers have yet to index
    toRefresh,      \* externalChanges: changed files it has yet to look up in openMap
    behind,         \* opened files whose text may be behind the index: a change was
                    \* dropped while the flag was cleared, or the second read of
                    \* externalChanges does not find what the first one indexed
    sent,           \* messages the client has sent, and changes on disk between them
    alive           \* the process has not died of a panic

flagVars == <<complete, callbacks, replies>>
mutexVars == <<owner, pc, job>>
indexingVars == <<phase, unindexed>>
viewVars == <<openMap, diagnostics, behind>>
clientVars == <<disk, editor, sent>>
watchVars == <<toIndex, toRefresh>>
vars == <<complete, callbacks, replies, owner, pc, job, phase, unindexed, index,
          openMap, diagnostics, disk, editor, toIndex, toRefresh, behind, sent, alive>>

Procs == Files \union {Main}
Idle == [file |-> None, text |-> None]
NotOpen == [text |-> None, full |-> FALSE]

(* Waiting for changingMutex, and holding it.                              *)
Waiting == {"openLock", "changeLock", "refreshLock", "queryLock", "watchLock"}
Critical == {"open", "parseOnly", "change", "update", "setTrue", "analyse", "query",
             "watch", "watchIndex"}
PcState == Waiting \union Critical \union {"idle", "register", "watchSet", "refresh"}

TypeOK ==
    /\ complete \in BOOLEAN
    /\ callbacks \in SUBSET Requests
    /\ replies \in [Requests -> 0..2]
    /\ owner \in Procs \union {None}
    /\ pc \in [Procs -> PcState]
    /\ job \in [Procs -> [file : Files \union Requests \union {None}, text : Versions \union {None}]]
    /\ \A p \in Procs : pc[p] \in {"parseOnly", "update", "setTrue", "analyse"} =>
           job[p].file \in Files /\ job[p].text \in Versions \ Broken
    /\ phase \in {"off", "indexing", "spawning", "done"}
    /\ unindexed \in SUBSET Files
    /\ index \in [Files -> Versions \union {None}]
    /\ openMap \in [Files -> [text : Versions \union {None}, full : BOOLEAN]]
    /\ diagnostics \in [Files -> Versions \union {None}]
    /\ disk \in [Files -> Versions \union {None}]
    /\ editor \in [Files -> Versions \union {None}]
    /\ toIndex \in SUBSET Files
    /\ toRefresh \in SUBSET Files
    /\ behind \in SUBSET Files
    /\ sent \in 0..MaxMessages
    /\ alive \in BOOLEAN

Init ==
    /\ complete = FALSE
    /\ callbacks = {}
    /\ replies = [r \in Requests |-> 0]
    /\ owner = None
    /\ pc = [p \in Procs |-> "idle"]
    /\ job = [p \in Procs |-> Idle]
    /\ phase = "off"
    /\ unindexed = {}
    /\ index = [f \in Files |-> None]
    /\ openMap = [f \in Files |-> NotOpen]
    /\ diagnostics = [f \in Files |-> None]
    /\ disk = InitialDisk
    /\ editor = [f \in Files |-> None]
    /\ toIndex = {}
    /\ toRefresh = {}
    /\ behind = {}
    /\ sent = 0
    /\ alive = TRUE

-----------------------------------------------------------------------------
(* meta.SetIndexingComplete and meta.OnIndexingComplete.                   *)

Answer(rs) ==
    replies' = [r \in Requests |-> IF r \in rs /\ replies[r] < 2 THEN replies[r] + 1 ELSE replies[r]]

(* Setting the flag runs every callback ever registered: the list is never *)
(* emptied.                                                                *)
SetComplete ==
    /\ complete' = TRUE
    /\ Answer(callbacks)
    /\ UNCHANGED callbacks

ClearComplete ==
    /\ complete' = FALSE
    /\ UNCHANGED <<callbacks, replies>>

-----------------------------------------------------------------------------
(* changingMutex.                                                          *)

At(p, s) == pc[p] = s /\ alive

Goto(p, s) == pc' = [pc EXCEPT ![p] = s] /\ UNCHANGED <<owner, job>>

(* Lock: the state that waits for the mutex names the one that holds it.   *)
AfterLock == [openLock |-> "open", changeLock |-> "change", refreshLock |-> "change",
              queryLock |-> "query", watchLock |-> "watch"]

(* Mutant: changingMutex.Lock() is missing.                                *)
LockMissing(p) ==
    /\ alive
    /\ pc[p] \in Waiting
    /\ owner' = p
    /\ pc' = [pc EXCEPT ![p] = AfterLock[pc[p]]]
    /\ UNCHANGED <<job, flagVars, indexingVars, index, viewVars, clientVars, watchVars, alive>>

Lock(p) ==
    /\ alive
    /\ pc[p] \in Waiting
    /\ owner = None
    /\ owner' = p
    /\ pc' = [pc EXCEPT ![p] = AfterLock[pc[p]]]
    /\ UNCHANGED <<job, flagVars, indexingVars, index, viewVars, clientVars, watchVars, alive>>

(* A deferred Unlock and the end of the call.  externalChanges calls       *)
(* changeFile in a loop and goes on with it.                               *)
Unlock(p) ==
    /\ owner' = None
    /\ pc' = [pc EXCEPT ![p] = IF p = Main /\ toRefresh # {} THEN "refresh" ELSE "idle"]
    /\ job' = [job EXCEPT ![p] = Idle]

-----------------------------------------------------------------------------
(* openFile and changeFileNonLocked, run by Main and by the goroutines the *)
(* indexing one starts.                                                    *)

(* Mutant: the early return after a parse error keeps the mutex.           *)
OpenFileReturnsLocked(p) ==
    /\ At(p, "open")
    /\ IF complete
         THEN Goto(p, "change")
         ELSE Goto(p, IF job[p].text \in Broken THEN "idle" ELSE "parseOnly")
    /\ UNCHANGED <<flagVars, indexingVars, index, viewVars, clientVars, watchVars, alive>>

(* openFile decides by the flag, once.                                     *)
OpenFile(p) ==
    /\ At(p, "open")
    /\ IF complete
         THEN Goto(p, "change")
         ELSE IF job[p].text \in Broken THEN Unlock(p) ELSE Goto(p, "parseOnly")
    /\ UNCHANGED <<flagVars, indexingVars, index, viewVars, clientVars, watchVars, alive>>

(* Indexing was not done when it looked: keep the tree only.               *)
StoreParsed(p) ==
    /\ At(p, "parseOnly")
    /\ openMap' = [openMap EXCEPT ![job[p].file] = [text |-> job[p].text, full |-> FALSE]]
    /\ Unlock(p)
    /\ UNCHANGED <<flagVars, indexingVars, index, diagnostics, behind, clientVars, watchVars, alive>>

(* changeFileNonLocked drops the change while indexing, else clears the    *)
(* flag and parses; after a parse error it returns with the flag cleared.  *)
BeginChange(p) ==
    /\ At(p, "change")
    /\ IF complete
         THEN /\ ClearComplete
              /\ UNCHANGED behind
              /\ IF job[p].text \in Broken THEN Unlock(p) ELSE Goto(p, "update")
         ELSE /\ behind' = behind \union {job[p].file}
              /\ Unlock(p)
              /\ UNCHANGED flagVars
    /\ UNCHANGED <<indexingVars, index, openMap, diagnostics, clientVars, watchVars, alive>>

(* Mutant: the call of w.UpdateMetaInfo() is missing.                      *)
UpdateMetaInfoMissing(p) ==
    /\ At(p, "update")
    /\ Goto(p, "setTrue")
    /\ UNCHANGED <<flagVars, index, indexingVars, viewVars, clientVars, watchVars, alive>>

(* w.UpdateMetaInfo().  Its panic is recovered in Main, where the deferred *)
(* Unlock runs; anywhere else it is the end of the process.                *)
UpdateMetaInfo(p) ==
    /\ At(p, "update")
    /\ IF complete
         THEN /\ UNCHANGED index
              /\ IF p = Main
                   THEN /\ owner' = None
                        /\ pc' = [pc EXCEPT ![p] = "idle"]
                        /\ job' = [job EXCEPT ![p] = Idle]
                        /\ toRefresh' = {}
                        /\ UNCHANGED <<toIndex, alive>>
                   ELSE alive' = FALSE /\ UNCHANGED <<mutexVars, watchVars>>
         ELSE /\ index' = [index EXCEPT ![job[p].file] = job[p].text]
              /\ Goto(p, "setTrue")
              /\ UNCHANGED <<watchVars, alive>>
    /\ UNCHANGED <<flagVars, indexingVars, viewVars, clientVars>>

EndChange(p) ==
    /\ At(p, "setTrue")
    /\ SetComplete
    /\ Goto(p, "analyse")
    /\ UNCHANGED <<indexingVars, index, viewVars, clientVars, watchVars, alive>>

(* The full analysis, the open map and flushReports.                       *)
Publish(p) ==
    /\ At(p, "analyse")
    /\ openMap' = [openMap EXCEPT ![job[p].file] = [text |-> job[p].text, full |-> TRUE]]
    /\ diagnostics' = [diagnostics EXCEPT ![job[p].file] = job[p].text]
    /\ behind' = behind \ {job[p].file}
    /\ Unlock(p)
    /\ UNCHANGED <<flagVars, indexingVars, index, clientVars, watchVars, alive>>

-----------------------------------------------------------------------------
(* The indexing goroutine of handleInitialize.                             *)

(* A worker of ParseFilenames puts one file into the index (IndexFile).    *)
IndexProjectFile(f) ==
    /\ alive
    /\ phase = "indexing"
    /\ f \in unindexed
    /\ unindexed' = unindexed \ {f}
    /\ IF disk[f] = None \/ disk[f] \in Broken
         THEN UNCHANGED <<index, alive>>
         ELSE IF complete
           THEN alive' = FALSE /\ UNCHANGED index
           ELSE index' = [index EXCEPT ![f] = disk[f]] /\ UNCHANGED alive
    /\ UNCHANGED <<flagVars, mutexVars, phase, viewVars, clientVars, watchVars>>

IndexingDone ==
    /\ alive
    /\ phase = "indexing"
    /\ unindexed = {}
    /\ SetComplete
    /\ phase' = "spawning"
    /\ UNCHANGED <<mutexVars, unindexed, index, viewVars, clientVars, watchVars, alive>>

(* for filename, op := range openMap { go openFile(filename, op.contents) } *)
AnalyseOpened ==
    /\ alive
    /\ phase = "spawning"
    /\ phase' = "done"
    /\ LET opened == {f \in Files : openMap[f] # NotOpen} IN
         /\ pc' = [p \in Procs |-> IF p \in opened THEN "openLock" ELSE pc[p]]
         /\ job' = [p \in Procs |->
                      IF p \in opened THEN [file |-> p, text |-> openMap[p].text] ELSE job[p]]
    /\ UNCHANGED <<owner, flagVars, unindexed, index, viewVars, clientVars, watchVars, alive>>

-----------------------------------------------------------------------------
(* Main: one message at a time.                                            *)

ReadMessage == At(Main, "idle") /\ sent < MaxMessages /\ sent' = sent + 1

StartJob(s, f, v) ==
    /\ pc' = [pc EXCEPT ![Main] = s]
    /\ job' = [job EXCEPT ![Main] = [file |-> f, text |-> v]]
    /\ UNCHANGED owner

Initialize ==
    /\ At(Main, "idle")
    /\ phase = "off"
    /\ phase' = "indexing"
    /\ unindexed' = {f \in Files : disk[f] # None}
    /\ UNCHANGED <<flagVars, mutexVars, index, viewVars, clientVars, watchVars, alive>>

DidOpen(f, v) ==
    /\ ReadMessage
    /\ phase # "off"
    /\ editor[f] = None
    /\ editor' = [editor EXCEPT ![f] = v]
    /\ StartJob("openLock", f, v)
    /\ UNCHANGED <<disk, flagVars, indexingVars, index, viewVars, watchVars, alive>>

DidChange(f, v) ==
    /\ ReadMessage
    /\ editor[f] # None
    /\ editor[f] # v
    /\ editor' = [editor EXCEPT ![f] = v]
    /\ StartJob("changeLock", f, v)
    /\ UNCHANGED <<disk, flagVars, indexingVars, index, viewVars, watchVars, alive>>

(* closeFile takes openMapMutex only.                                      *)
DidClose(f) ==
    /\ ReadMessage
    /\ editor[f] # None
    /\ editor' = [editor EXCEPT ![f] = None]
    /\ openMap' = [openMap EXCEPT ![f] = NotOpen]
    /\ UNCHANGED <<disk, flagVars, mutexVars, indexingVars, index, diagnostics, behind, watchVars, alive>>

(* definition, references, hover and completion on an opened file: they    *)
(* hold the mutex while they read the open map and the index.  They change *)
(* nothing, and so do not count as messages.                               *)
Query(f) ==
    /\ At(Main, "idle")
    /\ editor[f] # None
    /\ StartJob("queryLock", f, None)
    /\ UNCHANGED <<flagVars, indexingVars, index, viewVars, clientVars, watchVars, alive>>

AnswerQuery ==
    /\ At(Main, "query")
    /\ Unlock(Main)
    /\ UNCHANGED <<flagVars, indexingVars, index, viewVars, clientVars, watchVars, alive>>

(* documentSymbol: OnIndexingComplete runs the callback at once or appends *)
(* it, and holds nothing between its look at the flag and the append.      *)
DocumentSymbol(r) ==
    /\ ReadMessage
    /\ phase # "off"
    /\ r \notin callbacks
    /\ replies[r] = 0
    /\ IF complete
         THEN Answer({r}) /\ UNCHANGED mutexVars
         ELSE StartJob("register", r, None) /\ UNCHANGED replies
    /\ UNCHANGED <<complete, callbacks, disk, editor, indexingVars, index, viewVars, watchVars, alive>>

RegisterCallback ==
    /\ At(Main, "register")
    /\ callbacks' = callbacks \union {job[Main].file}
    /\ pc' = [pc EXCEPT ![Main] = "idle"]
    /\ job' = [job EXCEPT ![Main] = Idle]
    /\ UNCHANGED <<complete, replies, owner, indexingVars, index, viewVars, clientVars, watchVars, alive>>

-----------------------------------------------------------------------------
(* externalChanges, for files that changed on disk and files that were     *)
(* deleted (the disk is like that when the message is read, and may change *)
(* again before the server looks at it).                                   *)

DidChangeWatchedFiles(news) ==
    /\ ReadMessage
    /\ phase # "off"
    /\ WatchDuringIndexing \/ phase = "done"
    /\ disk' = [f \in Files |-> IF f \in DOMAIN news THEN news[f] ELSE disk[f]]
    /\ toIndex' = {f \in DOMAIN news : news[f] # None}
    /\ toRefresh' = DOMAIN news
    /\ pc' = [pc EXCEPT ![Main] = "watchLock"]
    /\ UNCHANGED <<owner, job, editor, flagVars, indexingVars, index, viewVars, alive>>

(* Under the mutex: clear the flag and delete what was deleted.            *)
WatchDelete ==
    /\ At(Main, "watch")
    /\ ClearComplete
    /\ index' = [f \in Files |-> IF f \in toRefresh \ toIndex THEN None ELSE index[f]]
    /\ toRefresh' = toIndex
    /\ Goto(Main, "watchIndex")
    /\ UNCHANGED <<indexingVars, viewVars, clientVars, toIndex, alive>>

(* A worker of concurrentParseChanges: like the project's indexing, and a  *)
(* panic of updateMetaInfo is not recovered here either.  IndexFile reads  *)
(* what is on disk by then; a file that cannot be read or parsed leaves    *)
(* the index as it was.                                                    *)
WatchIndexFile(f) ==
    /\ At(Main, "watchIndex")
    /\ f \in toIndex
    /\ toIndex' = toIndex \ {f}
    /\ IF disk[f] = None \/ disk[f] \in Broken
         THEN UNCHANGED <<index, alive>>
         ELSE IF complete
           THEN alive' = FALSE /\ UNCHANGED index
           ELSE index' = [index EXCEPT ![f] = disk[f]] /\ UNCHANGED alive
    /\ UNCHANGED <<flagVars, mutexVars, indexingVars, viewVars, clientVars, toRefresh>>

(* Mutant: the Unlock is deferred, as it is everywhere else.               *)
WatchUnlockDeferred ==
    /\ At(Main, "watchIndex")
    /\ toIndex = {}
    /\ pc' = [pc EXCEPT ![Main] = "watchSet"]
    /\ UNCHANGED <<owner, job, flagVars, indexingVars, index, viewVars, clientVars, watchVars, alive>>

WatchUnlock ==
    /\ At(Main, "watchIndex")
    /\ toIndex = {}
    /\ owner' = None
    /\ pc' = [pc EXCEPT ![Main] = "watchSet"]
    /\ UNCHANGED <<job, flagVars, indexingVars, index, viewVars, clientVars, watchVars, alive>>

(* The flag is set after the mutex has been given up.                      *)
WatchSetComplete ==
    /\ At(Main, "watchSet")
    /\ SetComplete
    /\ Goto(Main, IF toRefresh = {} THEN "idle" ELSE "refresh")
    /\ UNCHANGED <<indexingVars, index, viewVars, clientVars, watchVars, alive>>

(* Mutant: opened files are not changed to what is on disk.                *)
WatchRefreshSkipsOpened(f) ==
    /\ At(Main, "refresh")
    /\ f \in toRefresh
    /\ toRefresh' = toRefresh \ {f}
    /\ Goto(Main, IF toRefresh = {f} THEN "idle" ELSE "refresh")
    /\ UNCHANGED <<flagVars, indexingVars, index, viewVars, clientVars, toIndex, alive>>

(* The loop over the changed files: getFileContents reads an opened one    *)
(* for a second time, and changeFile changes it to that.  A file that can  *)
(* no longer be read is logged: it stays open as it is, while the index    *)
(* keeps what IndexFile has read of it, and the loop goes on.              *)
WatchRefresh(f) ==
    /\ At(Main, "refresh")
    /\ f \in toRefresh
    /\ toRefresh' = toRefresh \ {f}
    /\ IF openMap[f] # NotOpen /\ disk[f] # None
         THEN StartJob("refreshLock", f, disk[f])
         ELSE Goto(Main, IF toRefresh = {f} THEN "idle" ELSE "refresh")
    /\ UNCHANGED <<flagVars, indexingVars, index, viewVars, clientVars, toIndex, alive>>

-----------------------------------------------------------------------------
(* Other programs write, delete and create files at any moment, whether    *)
(* the client has sent its message about that or not.  None on disk is a   *)
(* file that is not there or cannot be read.                               *)

(* externalChanges is through with the first read of f (IndexFile), and    *)
(* the second (getFileContents) is to come.                                *)
BetweenReads(f) ==
    /\ pc[Main] \notin {"watchLock", "watch"}
    /\ f \in toRefresh \ toIndex

ChangeOnDisk(f, v) ==
    /\ alive
    /\ phase # "off"
    /\ sent < MaxMessages
    /\ sent' = sent + 1
    /\ disk[f] # v
    /\ disk' = [disk EXCEPT ![f] = v]
    /\ behind' = IF BetweenReads(f) /\ v \in Broken \union {None} THEN behind \union {f} ELSE behind
    /\ UNCHANGED <<editor, flagVars, mutexVars, indexingVars, index, openMap, diagnostics, watchVars, alive>>

-----------------------------------------------------------------------------
ProcStep(p) ==
    \/ Lock(p)
    \/ OpenFile(p)
    \/ StoreParsed(p)
    \/ BeginChange(p)
    \/ UpdateMetaInfo(p)
    \/ EndChange(p)
    \/ Publish(p)

MainOnlyStep ==
    \/ AnswerQuery
    \/ RegisterCallback
    \/ WatchDelete
    \/ \E f \in Files : WatchIndexFile(f)
    \/ WatchUnlock
    \/ WatchSetComplete
    \/ \E f \in Files : WatchRefresh(f)

IndexingStep ==
    \/ \E f \in Files : IndexProjectFile(f)
    \/ IndexingDone
    \/ AnalyseOpened

News == UNION {[S -> Versions \union {None}] : S \in SUBSET Files \ {{}}}

ClientStep ==
    \/ Initialize
    \/ \E f \in Files, v \in Versions : DidOpen(f, v) \/ DidChange(f, v)
    \/ \E f \in Files : DidClose(f) \/ Query(f)
    \/ \E r \in Requests : DocumentSymbol(r)
    \/ \E news \in News : DidChangeWatchedFiles(news)

DiskStep == \E f \in Files, v \in Versions \union {None} : ChangeOnDisk(f, v)

Next ==
    \/ \E p \in Procs : ProcStep(p)
    \/ MainOnlyStep
    \/ IndexingStep
    \/ ClientStep
    \/ DiskStep

Spec == Init /\ [][Next]_vars

(***************************************************************************)
(* Every goroutine runs when it can, so each is weakly fair.  Main may be  *)
(* overtaken at the mutex, but only by the goroutines AnalyseOpened        *)
(* started, each of which takes it once.  The client owes nobody a         *)
(* message, nor the disk a change.                                         *)
(***************************************************************************)
Fairness ==
    /\ \A p \in Procs : WF_vars(ProcStep(p))
    /\ WF_vars(MainOnlyStep)
    /\ WF_vars(IndexingStep)

FairSpec == Spec /\ Fairness

-----------------------------------------------------------------------------
(* Correctness.                                                            *)

(* The goroutine that runs the critical section is the one that owns the   *)
(* mutex: no path through open, change, query or watch leaves it locked,   *)
(* unlocks it twice or works without it.                                   *)
(* Together with TypeOK this is inductive.                                 *)
MutexOwned ==
    /\ TypeOK
    /\ \A p \in Procs : pc[p] \in Critical <=> owner = p

(* No goroutine other than Main dies of updateMetaInfo's panic "Trying to  *)
(* update meta info when not indexing" (linter/cache.go).                  *)
NeverUpdatesWhenComplete == alive

(* A query reads the open map and the index of the same moment: a fully    *)
(* analysed file is indexed with the very text that is open.  Three ways   *)
(* lead the code away from that, and the files that went one are exempt:   *)
(*   - deleted on disk, a file is not in the index while it stays open;    *)
(*   - its change was dropped at state.go:64, after an earlier text that   *)
(*     did not parse left the flag cleared (in behind);                    *)
(*   - it became unreadable, or stopped to parse, after externalChanges    *)
(*     had indexed it and before getFileContents read it again: then       *)
(*     state.go:163 or state.go:72 gives up on the open text (in behind).  *)
QuerySeesOneVersion ==
    pc[Main] = "query" =>
        \A f \in Files \ behind :
            openMap[f].full => index[f] \in {openMap[f].text, None}

(* state.go: "update index for it, and then generate diagnostics based on  *)
(* new index".  The diagnostics of a file are about the text the index has *)
(* of it, and the index does not move between update and publication, nor  *)
(* under a query once the project is indexed.                              *)
DiagnosticsUseNewIndex ==
    [][/\ \A f \in Files : diagnostics'[f] # diagnostics[f] => index[f] = diagnostics'[f]
       /\ index' # index => \A p \in Procs :
              /\ pc[p] \notin {"setTrue", "analyse"}
              /\ pc[p] = "query" => phase = "indexing"]_vars

(* Every message is handled to its end: Main never waits for a mutex that  *)
(* nobody will give up, itself included.                                   *)
Responsive == pc[Main] # "idle" ~> (pc[Main] = "idle" \/ ~alive)
=============================================================================
