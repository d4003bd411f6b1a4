-------------------------- MODULE LangServerProofs --------------------------
(***************************************************************************)
(* The safety properties of module LangServer for any set of files,        *)
(* versions and requests, and any number of messages.                      *)
(*                                                                         *)
(* Control says that the mutex has one owner, that the goroutines are      *)
(* where their kind can be, and that what they work on is there.  On top   *)
(* of it, Calm says which phase the flag indexingComplete announces, and   *)
(* OneVersion follows the text of an open file from the index to the open  *)
(* map, past the changes that other programs make on disk.  Both need the  *)
(* client to keep didChangeWatchedFiles until the project is indexed.  The *)
(* last section needs Control alone: nobody waits for good, and until the  *)
(* next message or change on disk the server runs out of steps.            *)
(***************************************************************************)
EXTENDS LangServer, FoldLemmas

WatchPc == {"watchLock", "watch", "watchIndex", "watchSet", "refresh", "refreshLock"}
ChangePc == {"change", "update", "setTrue", "analyse"}
FilePc == {"idle", "openLock", "open", "parseOnly"} \union ChangePc

(* What the goroutines work on: files and texts while they open or change. *)
(* The goroutines of the files begin when indexing has ended.              *)
JobsOK ==
    /\ \A p \in Procs :
         pc[p] \in {"openLock", "open", "changeLock", "refreshLock", "change"}
           => job[p].file \in Files /\ job[p].text \in Versions
    /\ pc[Main] = "register" => job[Main].file \in Requests
    /\ \A f \in Files : pc[f] \in FilePc /\ (phase # "done" => pc[f] = "idle")
    /\ \A f \in Files : openMap[f] # NotOpen => openMap[f].text \in Versions
    /\ toRefresh # {} => pc[Main] \in WatchPc \union ChangePc
    /\ pc[Main] = "watchIndex" => toIndex \subseteq toRefresh

Owned == \A p \in Procs : pc[p] \in Critical <=> owner = p
Control == TypeOK /\ Owned /\ JobsOK

LEMMA ControlInit == Init => Control
<1> SUFFICES ASSUME Init PROVE Control
  OBVIOUS
<1> USE LangServerAssumption DEF Init, Procs, Idle, NotOpen
<1>1. TypeOK
  <2>1. /\ job \in [Procs -> [file : Files \union Requests \union {None},
                              text : Versions \union {None}]]
        /\ openMap \in [Files -> [text : Versions \union {None}, full : BOOLEAN]]
    OBVIOUS
  <2>2. \A p \in Procs : pc[p] = "idle"
    OBVIOUS
  <2>3. /\ replies \in [Requests -> 0..2] /\ sent \in 0..MaxMessages
        /\ index \in [Files -> Versions \union {None}]
        /\ diagnostics \in [Files -> Versions \union {None}]
        /\ disk \in [Files -> Versions \union {None}]
        /\ editor \in [Files -> Versions \union {None}]
        /\ pc \in [Procs -> PcState]
    BY DEF PcState
  <2> QED
    BY <2>1, <2>2, <2>3 DEF TypeOK
<1>2. Owned
  BY DEF Owned, Critical
<1>3. JobsOK
  BY DEF JobsOK, FilePc, WatchPc
<1> QED
  BY <1>1, <1>2, <1>3 DEF Control

(* The end of a critical section.                                          *)
LEMMA UnlockTypes ==
    ASSUME Control, NEW p \in Procs, Unlock(p)
    PROVE  /\ owner' \in Procs \union {None}
           /\ pc' \in [Procs -> PcState]
           /\ job' \in [Procs -> [file : Files \union Requests \union {None},
                                  text : Versions \union {None}]]
           /\ pc'[p] \in {"idle", "refresh"} /\ job'[p] = Idle
           /\ \A q \in Procs \ {p} : pc'[q] = pc[q] /\ job'[q] = job[q]
  BY DEF Unlock, Control, TypeOK, PcState, Idle

LEMMA GotoTypes ==
    ASSUME Control, NEW p \in Procs, NEW s \in PcState, pc' = [pc EXCEPT ![p] = s]
    PROVE  /\ pc' \in [Procs -> PcState]
           /\ pc'[p] = s
           /\ \A q \in Procs \ {p} : pc'[q] = pc[q]
  BY DEF Control, TypeOK

(* A worker of ParseFilenames puts a file of the disk into the index.      *)
LEMMA IndexType ==
    ASSUME Control, NEW f \in Files, index' \in {index, [index EXCEPT ![f] = disk[f]]}
    PROVE  index' \in [Files -> Versions \union {None}]
  BY DEF Control, TypeOK

LEMMA ControlStep == Control /\ [Next]_vars => Control'
<1> SUFFICES ASSUME Control, [Next]_vars PROVE Control'
  OBVIOUS
<1> USE LangServerAssumption
<1> USE DEF Control, TypeOK, Owned, JobsOK, Procs, Idle, NotOpen, PcState, Waiting,
            Critical, WatchPc, ChangePc, FilePc
<1>1. ASSUME NEW p \in Procs, Lock(p) PROVE Control'
  <2>1. TypeOK'
    BY <1>1 DEF Lock, AfterLock, Waiting, flagVars, indexingVars, viewVars, clientVars, watchVars
  <2>2. Owned'
    BY <1>1 DEF Lock, AfterLock, Waiting, flagVars, indexingVars, viewVars, clientVars, watchVars
  <2>3. JobsOK'
    BY <1>1 DEF Lock, AfterLock, Waiting, flagVars, indexingVars, viewVars, clientVars, watchVars
  <2> QED
    BY <2>1, <2>2, <2>3
<1>2. ASSUME NEW p \in Procs, OpenFile(p) PROVE Control'
  <2>1. TypeOK'
    <3>1. UNCHANGED <<flagVars, indexingVars, index, viewVars, clientVars, watchVars, alive>> /\ pc[p] = "open"
      BY <1>2 DEF OpenFile, At
    <3>2. CASE Unlock(p)
      BY <3>1, <3>2, UnlockTypes DEF flagVars, indexingVars, viewVars, clientVars, watchVars
    <3>3. CASE Goto(p, "change")
      BY <3>1, <3>3 DEF Goto, flagVars, indexingVars, viewVars, clientVars, watchVars
    <3>4. CASE Goto(p, "parseOnly") /\ job[p].text \notin Broken
      BY <3>1, <3>4 DEF Goto, flagVars, indexingVars, viewVars, clientVars, watchVars
    <3> QED
      BY <1>2, <3>2, <3>3, <3>4 DEF OpenFile
  <2>2. Owned'
    BY <1>2 DEF OpenFile, Goto, Unlock, flagVars, indexingVars, viewVars, clientVars, watchVars, At
  <2>3. JobsOK'
    BY <1>2 DEF OpenFile, Goto, Unlock, flagVars, indexingVars, viewVars, clientVars, watchVars, At
  <2> QED
    BY <2>1, <2>2, <2>3
<1>3. ASSUME NEW p \in Procs, StoreParsed(p) PROVE Control'
  <2>1. TypeOK'
    <3>1. openMap' \in [Files -> [text : Versions \union {None}, full : BOOLEAN]]
      BY <1>3 DEF StoreParsed, At
    <3> QED
      BY <1>3, <3>1, UnlockTypes
      DEF StoreParsed, flagVars, indexingVars, clientVars, watchVars, At
  <2>2. Owned'
    BY <1>3 DEF StoreParsed, Unlock, flagVars, indexingVars, clientVars, watchVars, At
  <2>3. JobsOK'
    <3>1. job[p].text \in Versions /\ pc[p] = "parseOnly"
      BY <1>3 DEF StoreParsed, At
    <3>2. \A f \in Files : openMap'[f] \in {openMap[f], [text |-> job[p].text, full |-> FALSE]}
      BY <1>3 DEF StoreParsed
    <3>3. ASSUME NEW f \in Files, openMap'[f] # NotOpen
          PROVE  openMap'[f].text \in Versions
      <4>1. CASE openMap'[f] = openMap[f]
        BY <3>3, <4>1
      <4>2. CASE openMap'[f] = [text |-> job[p].text, full |-> FALSE]
        <5>1. openMap'[f].text = job[p].text
          BY <4>2
        <5> QED
          BY <3>1, <5>1
      <4> QED
        BY <3>2, <4>1, <4>2
    <3>4. UNCHANGED <<indexingVars, clientVars, watchVars>> /\ Unlock(p)
      BY <1>3 DEF StoreParsed
    <3> QED
      BY <3>1, <3>3, <3>4 DEF Unlock, indexingVars, clientVars, watchVars
  <2> QED
    BY <2>1, <2>2, <2>3
<1>4. ASSUME NEW p \in Procs, BeginChange(p) PROVE Control'
  <2>1. /\ pc[p] = "change" /\ owner = p /\ job[p].file \in Files /\ job[p].text \in Versions
        /\ UNCHANGED <<callbacks, replies, indexingVars, index, openMap, diagnostics,
                       clientVars, watchVars, alive>>
    BY <1>4 DEF BeginChange, ClearComplete, At, flagVars
  <2>2. behind' \in {behind, behind \union {job[p].file}} /\ complete' \in {complete, FALSE}
    BY <1>4 DEF BeginChange, ClearComplete, flagVars
  <2>3. CASE Unlock(p)
    <3>1. TypeOK'
      <4>1. behind' \subseteq Files
        BY <2>1, <2>2
      <4> QED
        BY <2>1, <2>2, <2>3, <4>1, UnlockTypes DEF indexingVars, clientVars, watchVars
    <3>2. Owned'
      BY <2>1, <2>3 DEF Unlock
    <3>3. JobsOK'
      BY <2>1, <2>3 DEF Unlock, indexingVars, clientVars, watchVars
    <3> QED
      BY <3>1, <3>2, <3>3
  <2>4. CASE Goto(p, "update") /\ job[p].text \notin Broken
    <3>1. TypeOK'
      <4>1. /\ pc' \in [Procs -> PcState] /\ pc'[p] = "update"
            /\ \A q \in Procs \ {p} : pc'[q] = pc[q]
        BY <2>4, GotoTypes DEF Goto
      <4>2. UNCHANGED <<owner, job>>
        BY <2>4 DEF Goto
      <4>3. behind' \subseteq Files
        BY <2>1, <2>2
      <4>4. complete' \in BOOLEAN
        BY <2>2
      <4> HIDE DEF PcState
      <4> QED
        BY <2>1, <2>4, <4>1, <4>2, <4>3, <4>4 DEF indexingVars, clientVars, watchVars
    <3>2. Owned'
      BY <2>1, <2>4 DEF Goto
    <3>3. JobsOK'
      BY <2>1, <2>4 DEF Goto, indexingVars, clientVars, watchVars
    <3> QED
      BY <3>1, <3>2, <3>3
  <2> QED
    BY <1>4, <2>3, <2>4 DEF BeginChange
<1>5. ASSUME NEW p \in Procs, UpdateMetaInfo(p) PROVE Control'
  <2>1. /\ pc[p] = "update" /\ owner = p
        /\ job[p].file \in Files /\ job[p].text \in Versions \ Broken
        /\ UNCHANGED <<flagVars, indexingVars, viewVars, clientVars, toIndex>>
    BY <1>5 DEF UpdateMetaInfo, At, watchVars
  <2>2. CASE complete /\ p = Main
    <3>1. /\ owner' = None
          /\ pc' = [pc EXCEPT ![p] = "idle"]
          /\ job' = [job EXCEPT ![p] = Idle]
          /\ toRefresh' = {}
          /\ UNCHANGED <<alive, index>>
      BY <1>5, <2>2 DEF UpdateMetaInfo
    <3>2. TypeOK'
      BY <2>1, <3>1 DEF flagVars, indexingVars, viewVars, clientVars
    <3>3. Owned'
      BY <2>1, <3>1
    <3>4. JobsOK'
      BY <2>1, <3>1 DEF indexingVars, viewVars, clientVars
    <3> QED
      BY <3>2, <3>3, <3>4
  <2>3. CASE complete /\ p # Main
    <3>1. alive' = FALSE /\ UNCHANGED <<mutexVars, toRefresh, index>>
      BY <1>5, <2>3 DEF UpdateMetaInfo, watchVars
    <3>2. TypeOK'
      BY <2>1, <3>1 DEF flagVars, mutexVars, indexingVars, viewVars, clientVars
    <3>3. Owned'
      BY <2>1, <3>1 DEF mutexVars
    <3>4. JobsOK'
      BY <2>1, <3>1 DEF mutexVars, indexingVars, viewVars, clientVars
    <3> QED
      BY <3>2, <3>3, <3>4
  <2>4. CASE ~complete
    <3>1. /\ index' = [index EXCEPT ![job[p].file] = job[p].text]
          /\ pc' = [pc EXCEPT ![p] = "setTrue"]
          /\ UNCHANGED <<owner, job, toRefresh, alive>>
      BY <1>5, <2>4 DEF UpdateMetaInfo, Goto, watchVars
    <3>2. TypeOK'
      BY <2>1, <3>1 DEF flagVars, indexingVars, viewVars, clientVars
    <3>3. Owned'
      BY <2>1, <3>1
    <3>4. JobsOK'
      BY <2>1, <3>1 DEF indexingVars, viewVars, clientVars
    <3> QED
      BY <3>2, <3>3, <3>4
  <2> QED
    BY <2>2, <2>3, <2>4
<1>6. ASSUME NEW p \in Procs, EndChange(p) PROVE Control'
  <2>1. TypeOK'
    BY <1>6 DEF EndChange, Goto, SetComplete, Answer, indexingVars, viewVars, clientVars, watchVars, At
  <2>2. Owned'
    BY <1>6 DEF EndChange, Goto, SetComplete, Answer, indexingVars, viewVars, clientVars, watchVars, At
  <2>3. JobsOK'
    BY <1>6 DEF EndChange, Goto, SetComplete, Answer, indexingVars, viewVars, clientVars, watchVars, At
  <2> QED
    BY <2>1, <2>2, <2>3
<1>7. ASSUME NEW p \in Procs, Publish(p) PROVE Control'
  <2>1. TypeOK'
    <3>1. /\ openMap' \in [Files -> [text : Versions \union {None}, full : BOOLEAN]]
          /\ diagnostics' \in [Files -> Versions \union {None}]
          /\ behind' \subseteq Files
      BY <1>7 DEF Publish, At
    <3> QED
      BY <1>7, <3>1, UnlockTypes
      DEF Publish, flagVars, indexingVars, clientVars, watchVars, At
  <2>2. Owned'
    BY <1>7 DEF Publish, Unlock, flagVars, indexingVars, clientVars, watchVars, At
  <2>3. JobsOK'
    <3>1. job[p].text \in Versions /\ pc[p] = "analyse"
      BY <1>7 DEF Publish, At
    <3>2. \A f \in Files : openMap'[f] \in {openMap[f], [text |-> job[p].text, full |-> TRUE]}
      BY <1>7 DEF Publish
    <3>3. ASSUME NEW f \in Files, openMap'[f] # NotOpen
          PROVE  openMap'[f].text \in Versions
      <4>1. CASE openMap'[f] = openMap[f]
        BY <3>3, <4>1
      <4>2. CASE openMap'[f] = [text |-> job[p].text, full |-> TRUE]
        <5>1. openMap'[f].text = job[p].text
          BY <4>2
        <5> QED
          BY <3>1, <5>1
      <4> QED
        BY <3>2, <4>1, <4>2
    <3>4. UNCHANGED <<indexingVars, clientVars, watchVars>> /\ Unlock(p)
      BY <1>7 DEF Publish
    <3>5. /\ \A q \in Procs : pc'[q] # "idle" => pc'[q] = pc[q] \/ q = Main
          /\ \A q \in Procs : pc'[q] \notin {"idle", "refresh"} => job'[q] = job[q] /\ pc'[q] = pc[q]
          /\ pc'[Main] \in {"idle", "refresh", pc[Main]}
          /\ pc'[Main] = "idle" => toRefresh = {} \/ pc[Main] = "idle"
      BY <3>1, <3>4 DEF Unlock
    <3>6. \A q \in Procs :
            pc'[q] \in {"openLock", "open", "changeLock", "refreshLock", "change"}
              => job'[q].file \in Files /\ job'[q].text \in Versions
      BY <3>5
    <3>7. pc'[Main] = "register" => job'[Main].file \in Requests
      BY <3>5
    <3>8. \A f \in Files : pc'[f] \in FilePc /\ (phase # "done" => pc'[f] = "idle")
      BY <3>5
    <3>9. /\ toRefresh # {} => pc'[Main] \in WatchPc \union ChangePc
          /\ pc'[Main] = "watchIndex" => toIndex \subseteq toRefresh
      BY <3>1, <3>4, <3>5 DEF Unlock
    <3> QED
      BY <3>3, <3>4, <3>6, <3>7, <3>8, <3>9 DEF indexingVars, clientVars, watchVars
  <2> QED
    BY <2>1, <2>2, <2>3
<1>8. ASSUME AnswerQuery PROVE Control'
  <2>1. TypeOK'
    BY <1>8 DEF AnswerQuery, Unlock, flagVars, indexingVars, viewVars, clientVars, watchVars, At
  <2>2. Owned'
    BY <1>8 DEF AnswerQuery, Unlock, flagVars, indexingVars, viewVars, clientVars, watchVars, At
  <2>3. JobsOK'
    BY <1>8 DEF AnswerQuery, Unlock, flagVars, indexingVars, viewVars, clientVars, watchVars, At
  <2> QED
    BY <2>1, <2>2, <2>3
<1>9. ASSUME RegisterCallback PROVE Control'
  <2>1. TypeOK'
    BY <1>9 DEF RegisterCallback, indexingVars, viewVars, clientVars, watchVars, At
  <2>2. Owned'
    BY <1>9 DEF RegisterCallback, indexingVars, viewVars, clientVars, watchVars, At
  <2>3. JobsOK'
    BY <1>9 DEF RegisterCallback, indexingVars, viewVars, clientVars, watchVars, At
  <2> QED
    BY <2>1, <2>2, <2>3
<1>10. ASSUME WatchDelete PROVE Control'
  <2>1. TypeOK'
    BY <1>10 DEF WatchDelete, Goto, ClearComplete, indexingVars, viewVars, clientVars, At
  <2>2. Owned'
    BY <1>10 DEF WatchDelete, Goto, ClearComplete, indexingVars, viewVars, clientVars, At
  <2>3. JobsOK'
    BY <1>10 DEF WatchDelete, Goto, ClearComplete, indexingVars, viewVars, clientVars, At
  <2> QED
    BY <2>1, <2>2, <2>3
<1>11. ASSUME NEW f \in Files, WatchIndexFile(f) PROVE Control'
  <2>1. TypeOK'
    <3>1. /\ index' \in [Files -> Versions \union {None}]
          /\ toIndex' \subseteq Files /\ alive' \in BOOLEAN
      <4>1. /\ index' \in {index, [index EXCEPT ![f] = disk[f]]}
            /\ toIndex' = toIndex \ {f} /\ alive' \in {alive, FALSE}
        BY <1>11 DEF WatchIndexFile
      <4>2. index' \in [Files -> Versions \union {None}]
        BY <4>1, IndexType
      <4>3. toIndex' \subseteq Files /\ alive' \in BOOLEAN
        BY <4>1
      <4> QED
        BY <4>2, <4>3
    <3> QED
      BY <1>11, <3>1
      DEF WatchIndexFile, flagVars, mutexVars, indexingVars, viewVars, clientVars
  <2>2. Owned'
    BY <1>11 DEF WatchIndexFile, flagVars, mutexVars, indexingVars, viewVars, clientVars, At
  <2>3. JobsOK'
    BY <1>11 DEF WatchIndexFile, flagVars, mutexVars, indexingVars, viewVars, clientVars, At
  <2> QED
    BY <2>1, <2>2, <2>3
<1>12. ASSUME WatchUnlock PROVE Control'
  <2>1. TypeOK'
    BY <1>12 DEF WatchUnlock, flagVars, indexingVars, viewVars, clientVars, watchVars, At
  <2>2. Owned'
    BY <1>12 DEF WatchUnlock, flagVars, indexingVars, viewVars, clientVars, watchVars, At
  <2>3. JobsOK'
    BY <1>12 DEF WatchUnlock, flagVars, indexingVars, viewVars, clientVars, watchVars, At
  <2> QED
    BY <2>1, <2>2, <2>3
<1>13. ASSUME WatchSetComplete PROVE Control'
  <2>1. TypeOK'
    BY <1>13 DEF WatchSetComplete, Goto, SetComplete, Answer, indexingVars, viewVars, clientVars, watchVars, At
  <2>2. Owned'
    BY <1>13 DEF WatchSetComplete, Goto, SetComplete, Answer, indexingVars, viewVars, clientVars, watchVars, At
  <2>3. JobsOK'
    BY <1>13 DEF WatchSetComplete, Goto, SetComplete, Answer, indexingVars, viewVars, clientVars, watchVars, At
  <2> QED
    BY <2>1, <2>2, <2>3
<1>14. ASSUME NEW f \in Files, WatchRefresh(f) PROVE Control'
  <2>1. TypeOK'
    BY <1>14 DEF WatchRefresh, Goto, StartJob, flagVars, indexingVars, viewVars, clientVars, At
  <2>2. Owned'
    BY <1>14 DEF WatchRefresh, Goto, StartJob, flagVars, indexingVars, viewVars, clientVars, At
  <2>3. JobsOK'
    BY <1>14 DEF WatchRefresh, Goto, StartJob, flagVars, indexingVars, viewVars, clientVars, At
  <2> QED
    BY <2>1, <2>2, <2>3
<1>15. ASSUME NEW f \in Files, IndexProjectFile(f) PROVE Control'
  <2>1. TypeOK'
    <3>1. /\ index' \in [Files -> Versions \union {None}]
          /\ unindexed' \subseteq Files /\ alive' \in BOOLEAN
      <4>1. /\ index' \in {index, [index EXCEPT ![f] = disk[f]]}
            /\ unindexed' = unindexed \ {f} /\ alive' \in {alive, FALSE}
        BY <1>15 DEF IndexProjectFile
      <4>2. index' \in [Files -> Versions \union {None}]
        BY <4>1, IndexType
      <4>3. unindexed' \subseteq Files /\ alive' \in BOOLEAN
        BY <4>1
      <4> QED
        BY <4>2, <4>3
    <3> QED
      BY <1>15, <3>1 DEF IndexProjectFile, flagVars, mutexVars, viewVars, clientVars, watchVars
  <2>2. Owned'
    BY <1>15 DEF IndexProjectFile, flagVars, mutexVars, viewVars, clientVars, watchVars
  <2>3. JobsOK'
    BY <1>15 DEF IndexProjectFile, flagVars, mutexVars, viewVars, clientVars, watchVars
  <2> QED
    BY <2>1, <2>2, <2>3
<1>16. ASSUME IndexingDone PROVE Control'
  <2>1. TypeOK'
    BY <1>16 DEF IndexingDone, SetComplete, Answer, mutexVars, viewVars, clientVars, watchVars
  <2>2. Owned'
    BY <1>16 DEF IndexingDone, SetComplete, Answer, mutexVars, viewVars, clientVars, watchVars
  <2>3. JobsOK'
    BY <1>16 DEF IndexingDone, SetComplete, Answer, mutexVars, viewVars, clientVars, watchVars
  <2> QED
    BY <2>1, <2>2, <2>3
<1>17. ASSUME AnalyseOpened PROVE Control'
  <2>1. TypeOK'
    BY <1>17 DEF AnalyseOpened, flagVars, viewVars, clientVars, watchVars
  <2>2. Owned'
    BY <1>17 DEF AnalyseOpened, flagVars, viewVars, clientVars, watchVars
  <2>3. JobsOK'
    BY <1>17 DEF AnalyseOpened, flagVars, viewVars, clientVars, watchVars
  <2> QED
    BY <2>1, <2>2, <2>3
<1>18. ASSUME Initialize PROVE Control'
  <2>1. TypeOK'
    BY <1>18 DEF Initialize, flagVars, mutexVars, viewVars, clientVars, watchVars, At
  <2>2. Owned'
    BY <1>18 DEF Initialize, flagVars, mutexVars, viewVars, clientVars, watchVars, At
  <2>3. JobsOK'
    BY <1>18 DEF Initialize, flagVars, mutexVars, viewVars, clientVars, watchVars, At
  <2> QED
    BY <2>1, <2>2, <2>3
<1>19. ASSUME NEW f \in Files, NEW v \in Versions, DidOpen(f, v) PROVE Control'
  <2>1. TypeOK'
    BY <1>19 DEF DidOpen, ReadMessage, StartJob, flagVars, indexingVars, viewVars, watchVars, At
  <2>2. Owned'
    BY <1>19 DEF DidOpen, ReadMessage, StartJob, flagVars, indexingVars, viewVars, watchVars, At
  <2>3. JobsOK'
    BY <1>19 DEF DidOpen, ReadMessage, StartJob, flagVars, indexingVars, viewVars, watchVars, At
  <2> QED
    BY <2>1, <2>2, <2>3
<1>20. ASSUME NEW f \in Files, NEW v \in Versions, DidChange(f, v) PROVE Control'
  <2>1. TypeOK'
    BY <1>20 DEF DidChange, ReadMessage, StartJob, flagVars, indexingVars, viewVars, watchVars, At
  <2>2. Owned'
    BY <1>20 DEF DidChange, ReadMessage, StartJob, flagVars, indexingVars, viewVars, watchVars, At
  <2>3. JobsOK'
    BY <1>20 DEF DidChange, ReadMessage, StartJob, flagVars, indexingVars, viewVars, watchVars, At
  <2> QED
    BY <2>1, <2>2, <2>3
<1>21. ASSUME NEW f \in Files, DidClose(f) PROVE Control'
  <2>1. TypeOK'
    <3>1. /\ openMap' \in [Files -> [text : Versions \union {None}, full : BOOLEAN]]
          /\ editor' \in [Files -> Versions \union {None}]
          /\ sent' \in 0..MaxMessages
      BY <1>21 DEF DidClose, ReadMessage
    <3> QED
      BY <1>21, <3>1 DEF DidClose, flagVars, mutexVars, indexingVars, watchVars
  <2>2. Owned'
    BY <1>21 DEF DidClose, ReadMessage, flagVars, mutexVars, indexingVars, watchVars, At
  <2>3. JobsOK'
    <3>1. \A g \in Files : openMap'[g] \in {openMap[g], NotOpen}
      BY <1>21 DEF DidClose
    <3>2. UNCHANGED <<disk, mutexVars, indexingVars, watchVars>>
      BY <1>21 DEF DidClose
    <3> HIDE DEF NotOpen
    <3> QED
      BY <3>1, <3>2 DEF mutexVars, indexingVars, watchVars
  <2> QED
    BY <2>1, <2>2, <2>3
<1>22. ASSUME NEW f \in Files, Query(f) PROVE Control'
  <2>1. TypeOK'
    BY <1>22 DEF Query, StartJob, flagVars, indexingVars, viewVars, clientVars, watchVars, At
  <2>2. Owned'
    BY <1>22 DEF Query, StartJob, flagVars, indexingVars, viewVars, clientVars, watchVars, At
  <2>3. JobsOK'
    BY <1>22 DEF Query, StartJob, flagVars, indexingVars, viewVars, clientVars, watchVars, At
  <2> QED
    BY <2>1, <2>2, <2>3
<1>23. ASSUME NEW r \in Requests, DocumentSymbol(r) PROVE Control'
  <2>1. TypeOK'
    BY <1>23 DEF DocumentSymbol, ReadMessage, StartJob, Answer, mutexVars, indexingVars, viewVars, watchVars, At
  <2>2. Owned'
    BY <1>23 DEF DocumentSymbol, ReadMessage, StartJob, Answer, mutexVars, indexingVars, viewVars, watchVars, At
  <2>3. JobsOK'
    BY <1>23 DEF DocumentSymbol, ReadMessage, StartJob, Answer, mutexVars, indexingVars, viewVars, watchVars, At
  <2> QED
    BY <2>1, <2>2, <2>3
<1>24. ASSUME NEW news \in News, DidChangeWatchedFiles(news) PROVE Control'
  <2>1. TypeOK'
    BY <1>24 DEF DidChangeWatchedFiles, ReadMessage, News, flagVars, indexingVars, viewVars, At
  <2>2. Owned'
    BY <1>24 DEF DidChangeWatchedFiles, ReadMessage, News, flagVars, indexingVars, viewVars, At
  <2>3. JobsOK'
    BY <1>24 DEF DidChangeWatchedFiles, ReadMessage, News, flagVars, indexingVars, viewVars, At
  <2> QED
    BY <2>1, <2>2, <2>3
<1>25. ASSUME NEW f \in Files, NEW v \in Versions \union {None}, ChangeOnDisk(f, v) PROVE Control'
  <2>1. TypeOK'
    BY <1>25 DEF ChangeOnDisk, flagVars, mutexVars, indexingVars, watchVars
  <2>2. Owned'
    BY <1>25 DEF ChangeOnDisk, mutexVars
  <2>3. JobsOK'
    BY <1>25 DEF ChangeOnDisk, mutexVars, indexingVars, watchVars
  <2> QED
    BY <2>1, <2>2, <2>3
<1>26. CASE UNCHANGED vars
  BY <1>26 DEF vars
<1> QED
  BY <1>1, <1>2, <1>3, <1>4, <1>5, <1>6, <1>7, <1>8, <1>9, <1>10, <1>11, <1>12, <1>13, <1>14, <1>15, <1>16, <1>17, <1>18, <1>19, <1>20, <1>21, <1>22, <1>23, <1>24, <1>25, <1>26
  DEF Next, ProcStep, MainOnlyStep, IndexingStep, ClientStep, DiskStep

(* The goroutine that runs the critical section is the one that owns       *)
(* changingMutex, and every variable keeps its type.                       *)
THEOREM MutexHasOneOwner == Spec => []MutexOwned
<1>1. Control => MutexOwned
  BY DEF Control, Owned, MutexOwned
<1> QED
  BY <1>1, ControlInit, ControlStep, PTL DEF Spec

-----------------------------------------------------------------------------
(* The phases: until the project is indexed the flag is cleared and nobody *)
(* updates; then it is cleared by the one that updates, under the mutex,   *)
(* and by externalChanges, which gives up the mutex before it sets it.     *)
Calm ==
    /\ alive
    /\ phase \in {"off", "indexing"} =>
         /\ ~complete
         /\ \A p \in Procs : pc[p] \notin {"update", "setTrue", "analyse"}
         /\ \A f \in Files : ~openMap[f].full
    /\ phase # "done" => pc[Main] \notin WatchPc /\ toRefresh = {}
    /\ \A p \in Procs : pc[p] \in {"update", "setTrue"} => ~complete
    /\ pc[Main] \in {"watchIndex", "watchSet"} =>
         ~complete /\ \A f \in Files : pc[f] \notin {"change", "update", "setTrue"}

LEMMA CalmStep ==
    ASSUME ~WatchDuringIndexing, Control, Calm, [Next]_vars
    PROVE  Calm'
<1> USE LangServerAssumption
<1> USE DEF Control, TypeOK, Owned, JobsOK, Calm, Procs, Waiting, Critical, WatchPc, NotOpen
<1>1. ASSUME NEW p \in Procs, Lock(p) PROVE Calm'
  <2>1. /\ pc[p] \in Waiting /\ pc' = [pc EXCEPT ![p] = AfterLock[pc[p]]]
        /\ UNCHANGED <<complete, phase, openMap, toRefresh, alive>>
    BY <1>1 DEF Lock, flagVars, indexingVars, viewVars, watchVars
  <2>2. /\ AfterLock[pc[p]] \in {"open", "change", "query", "watch"}
        /\ AfterLock[pc[p]] = "watch" => pc[p] = "watchLock"
        /\ AfterLock[pc[p]] = "change" => pc[p] \in {"changeLock", "refreshLock"}
    BY <2>1 DEF AfterLock
  <2> QED
    BY <2>1, <2>2 DEF FilePc, ChangePc
<1>2. ASSUME NEW p \in Procs, OpenFile(p) PROVE Calm'
  BY <1>2 DEF OpenFile, Goto, Unlock, flagVars, indexingVars, viewVars, clientVars, watchVars, At
<1>3. ASSUME NEW p \in Procs, StoreParsed(p) PROVE Calm'
  BY <1>3 DEF StoreParsed, Unlock, flagVars, indexingVars, clientVars, watchVars, At
<1>4. ASSUME NEW p \in Procs, BeginChange(p) PROVE Calm'
  BY <1>4 DEF BeginChange, Goto, Unlock, ClearComplete, flagVars, indexingVars, clientVars, watchVars, At
<1>5. ASSUME NEW p \in Procs, UpdateMetaInfo(p) PROVE Calm'
  <2>1. pc[p] = "update" /\ ~complete
    BY <1>5 DEF UpdateMetaInfo, At
  <2>2. /\ pc' = [pc EXCEPT ![p] = "setTrue"]
        /\ UNCHANGED <<complete, phase, openMap, toRefresh, alive>>
    BY <1>5, <2>1 DEF UpdateMetaInfo, Goto, flagVars, indexingVars, viewVars, watchVars
  <2> QED
    BY <2>1, <2>2
<1>6. ASSUME NEW p \in Procs, EndChange(p) PROVE Calm'
  BY <1>6 DEF EndChange, Goto, SetComplete, Answer, indexingVars, viewVars, clientVars, watchVars, At
<1>7. ASSUME NEW p \in Procs, Publish(p) PROVE Calm'
  BY <1>7 DEF Publish, Unlock, flagVars, indexingVars, clientVars, watchVars, At
<1>8. ASSUME AnswerQuery PROVE Calm'
  BY <1>8 DEF AnswerQuery, Unlock, flagVars, indexingVars, viewVars, clientVars, watchVars, At
<1>9. ASSUME RegisterCallback PROVE Calm'
  BY <1>9 DEF RegisterCallback, indexingVars, viewVars, clientVars, watchVars, At
<1>10. ASSUME WatchDelete PROVE Calm'
  BY <1>10 DEF WatchDelete, Goto, ClearComplete, indexingVars, viewVars, clientVars, At
<1>11. ASSUME NEW f \in Files, WatchIndexFile(f) PROVE Calm'
  BY <1>11 DEF WatchIndexFile, flagVars, mutexVars, indexingVars, viewVars, clientVars, At
<1>12. ASSUME WatchUnlock PROVE Calm'
  BY <1>12 DEF WatchUnlock, flagVars, indexingVars, viewVars, clientVars, watchVars, At
<1>13. ASSUME WatchSetComplete PROVE Calm'
  BY <1>13 DEF WatchSetComplete, Goto, SetComplete, Answer, indexingVars, viewVars, clientVars, watchVars, At
<1>14. ASSUME NEW f \in Files, WatchRefresh(f) PROVE Calm'
  BY <1>14 DEF WatchRefresh, Goto, StartJob, flagVars, indexingVars, viewVars, clientVars, At
<1>15. ASSUME NEW f \in Files, IndexProjectFile(f) PROVE Calm'
  BY <1>15 DEF IndexProjectFile, flagVars, mutexVars, viewVars, clientVars, watchVars
<1>16. ASSUME IndexingDone PROVE Calm'
  BY <1>16 DEF IndexingDone, SetComplete, Answer, mutexVars, viewVars, clientVars, watchVars
<1>17. ASSUME AnalyseOpened PROVE Calm'
  BY <1>17 DEF AnalyseOpened, flagVars, viewVars, clientVars, watchVars
<1>18. ASSUME Initialize PROVE Calm'
  BY <1>18 DEF Initialize, flagVars, mutexVars, viewVars, clientVars, watchVars, At
<1>19. ASSUME NEW f \in Files, NEW v \in Versions, DidOpen(f, v) PROVE Calm'
  BY <1>19 DEF DidOpen, ReadMessage, StartJob, flagVars, indexingVars, viewVars, watchVars, At
<1>20. ASSUME NEW f \in Files, NEW v \in Versions, DidChange(f, v) PROVE Calm'
  BY <1>20 DEF DidChange, ReadMessage, StartJob, flagVars, indexingVars, viewVars, watchVars, At
<1>21. ASSUME NEW f \in Files, DidClose(f) PROVE Calm'
  BY <1>21 DEF DidClose, ReadMessage, flagVars, mutexVars, indexingVars, watchVars, At
<1>22. ASSUME NEW f \in Files, Query(f) PROVE Calm'
  BY <1>22 DEF Query, StartJob, flagVars, indexingVars, viewVars, clientVars, watchVars, At
<1>23. ASSUME NEW r \in Requests, DocumentSymbol(r) PROVE Calm'
  BY <1>23 DEF DocumentSymbol, ReadMessage, StartJob, Answer, mutexVars, indexingVars, viewVars, watchVars, At
<1>24. ASSUME NEW news \in News, DidChangeWatchedFiles(news) PROVE Calm'
  BY <1>24 DEF DidChangeWatchedFiles, ReadMessage, News, flagVars, indexingVars, viewVars, At
<1>25. ASSUME NEW f \in Files, NEW v \in Versions \union {None}, ChangeOnDisk(f, v) PROVE Calm'
  BY <1>25 DEF ChangeOnDisk, flagVars, mutexVars, indexingVars, watchVars
<1>26. CASE UNCHANGED vars
  BY <1>26 DEF vars
<1> QED
  BY <1>1, <1>2, <1>3, <1>4, <1>5, <1>6, <1>7, <1>8, <1>9, <1>10, <1>11, <1>12, <1>13, <1>14, <1>15, <1>16, <1>17, <1>18, <1>19, <1>20, <1>21, <1>22, <1>23, <1>24, <1>25, <1>26
  DEF Next, ProcStep, MainOnlyStep, IndexingStep, ClientStep, DiskStep

(* Nobody dies of the panic of updateMetaInfo, when the client waits with  *)
(* didChangeWatchedFiles.                                                  *)
THEOREM NobodyPanics ==
    ASSUME ~WatchDuringIndexing PROVE Spec => []NeverUpdatesWhenComplete
<1> DEFINE Inv == Control /\ Calm
<1>1. Init => Inv
  <2>1. Init => Calm
    BY LangServerAssumption DEF Init, Calm, Procs, NotOpen, WatchPc
  <2> QED
    BY <2>1, ControlInit
<1>2. Inv /\ [Next]_vars => Inv'
  BY ControlStep, CalmStep
<1>3. Inv => NeverUpdatesWhenComplete
  BY DEF Calm, NeverUpdatesWhenComplete
<1> QED
  BY <1>1, <1>2, <1>3, PTL DEF Spec

-----------------------------------------------------------------------------
(* A file whose text the index has, but not the open map yet: it is        *)
(* changed now, or externalChanges will come to it and find something it   *)
(* can read and parse.                                                     *)
Refreshed(f) ==
    \/ BetweenReads(f) /\ disk[f] \notin Broken \union {None}
    \/ /\ pc[Main] \in {"refreshLock", "change", "update"}
       /\ job[Main].file = f /\ job[Main].text \notin Broken
    \/ \E p \in Procs : pc[p] \in {"setTrue", "analyse"} /\ job[p].file = f

OneVersion ==
    /\ \A p \in Procs :
         pc[p] \in {"setTrue", "analyse"} => index[job[p].file] = job[p].text
    /\ \A f \in Files \ behind :
         openMap[f].full => index[f] \in {openMap[f].text, None} \/ Refreshed(f)

LEMMA OneVersionStep ==
    ASSUME ~WatchDuringIndexing, Control, Calm, OneVersion, [Next]_vars
    PROVE  OneVersion'
<1> USE LangServerAssumption
<1> USE DEF Control, TypeOK, Owned, JobsOK, Calm, OneVersion, Refreshed, BetweenReads, Procs,
            Waiting, Critical, WatchPc, NotOpen
<1>1. ASSUME NEW p \in Procs, Lock(p) PROVE OneVersion'
  BY <1>1 DEF Lock, AfterLock, Waiting, flagVars, indexingVars, viewVars, clientVars, watchVars
<1>2. ASSUME NEW p \in Procs, OpenFile(p) PROVE OneVersion'
  <2>1. /\ pc[p] = "open" /\ pc'[p] \notin {"setTrue", "analyse", "watchLock", "watch"}
        /\ \A q \in Procs \ {p} : pc'[q] = pc[q] /\ job'[q] = job[q]
        /\ UNCHANGED <<index, openMap, disk, toRefresh, toIndex, behind>>
    BY <1>2 DEF OpenFile, Goto, Unlock, viewVars, clientVars, watchVars, At
  <2>2. ASSUME NEW f \in Files, Refreshed(f) PROVE Refreshed(f)'
    BY <2>1, <2>2
  <2>3. \A q \in Procs : pc'[q] \in {"setTrue", "analyse"} => pc[q] = pc'[q] /\ job'[q] = job[q]
    BY <2>1
  <2>4. \A q \in Procs : pc'[q] \in {"setTrue", "analyse"} => index'[job'[q].file] = job'[q].text
    BY <2>1, <2>3
  <2>5. ASSUME NEW f \in Files \ behind', openMap'[f].full
        PROVE  index'[f] \in {openMap'[f].text, None} \/ Refreshed(f)'
    <3> HIDE DEF Refreshed
    <3> QED
      BY <2>1, <2>2, <2>5
  <2> QED
    BY <2>4, <2>5
<1>3. ASSUME NEW p \in Procs, StoreParsed(p) PROVE OneVersion'
  BY <1>3 DEF StoreParsed, Unlock, flagVars, indexingVars, clientVars, watchVars, At
<1>4. ASSUME NEW p \in Procs, BeginChange(p) PROVE OneVersion'
  <2>1. /\ pc[p] = "change" /\ owner = p /\ pc'[p] \notin {"setTrue", "analyse", "watchLock", "watch"}
        /\ \A q \in Procs \ {p} : pc'[q] = pc[q] /\ job'[q] = job[q]
        /\ UNCHANGED <<index, openMap, disk, toRefresh, toIndex>>
    BY <1>4 DEF BeginChange, Goto, Unlock, clientVars, watchVars, At
  <2>2. \/ job[p].text \in Broken /\ behind' = behind
        \/ pc'[p] = "update" /\ job'[p] = job[p] /\ behind' = behind
        \/ behind' = behind \union {job[p].file}
    BY <1>4 DEF BeginChange, Goto
  <2>3. ASSUME NEW f \in Files \ behind', Refreshed(f) PROVE Refreshed(f)'
    BY <2>1, <2>2, <2>3
  <2>4. behind \subseteq behind'
    BY <2>2
  <2>5. \A q \in Procs : pc'[q] \in {"setTrue", "analyse"} => pc[q] = pc'[q] /\ job'[q] = job[q]
    BY <2>1
  <2>6. ASSUME NEW q \in Procs, pc'[q] \in {"setTrue", "analyse"} PROVE index'[job'[q].file] = job'[q].text
    BY <2>1, <2>5, <2>6
  <2>7. ASSUME NEW f \in Files \ behind', openMap'[f].full
        PROVE  index'[f] \in {openMap'[f].text, None} \/ Refreshed(f)'
    <3> HIDE DEF Refreshed
    <3> QED
      BY <2>1, <2>3, <2>4, <2>7
  <2> QED
    BY <2>6, <2>7
<1>5. ASSUME NEW p \in Procs, UpdateMetaInfo(p) PROVE OneVersion'
  <2>1. pc[p] = "update" /\ ~complete /\ job[p].file \in Files
    BY <1>5 DEF UpdateMetaInfo, At
  <2>2. /\ pc' = [pc EXCEPT ![p] = "setTrue"]
        /\ index' = [index EXCEPT ![job[p].file] = job[p].text]
        /\ UNCHANGED <<job, openMap, disk, toRefresh, toIndex, behind>>
    BY <1>5, <2>1 DEF UpdateMetaInfo, Goto, viewVars, clientVars, watchVars
  <2>3. \A q \in Procs : pc'[q] \in {"setTrue", "analyse"} => q = p
    BY <2>1, <2>2
  <2>4. ASSUME NEW f \in Files \ behind, f # job[p].file, Refreshed(f) PROVE Refreshed(f)'
    BY <2>1, <2>2, <2>4
  <2>5. Refreshed(job[p].file)'
    BY <2>1, <2>2
  <2> QED
    BY <2>1, <2>2, <2>3, <2>4, <2>5
<1>6. ASSUME NEW p \in Procs, EndChange(p) PROVE OneVersion'
  BY <1>6 DEF EndChange, Goto, SetComplete, Answer, indexingVars, viewVars, clientVars, watchVars, At
<1>7. ASSUME NEW p \in Procs, Publish(p) PROVE OneVersion'
  BY <1>7 DEF Publish, Unlock, flagVars, indexingVars, clientVars, watchVars, At
<1>8. ASSUME AnswerQuery PROVE OneVersion'
  BY <1>8 DEF AnswerQuery, Unlock, flagVars, indexingVars, viewVars, clientVars, watchVars, At
<1>9. ASSUME RegisterCallback PROVE OneVersion'
  BY <1>9 DEF RegisterCallback, indexingVars, viewVars, clientVars, watchVars, At
<1>10. ASSUME WatchDelete PROVE OneVersion'
  BY <1>10 DEF WatchDelete, Goto, ClearComplete, indexingVars, viewVars, clientVars, At
<1>11. ASSUME NEW f \in Files, WatchIndexFile(f) PROVE OneVersion'
  <2>1. /\ pc[Main] = "watchIndex" /\ owner = Main /\ f \in toRefresh
        /\ toIndex' = toIndex \ {f}
        /\ UNCHANGED <<pc, job, openMap, disk, toRefresh, behind>>
    BY <1>11 DEF WatchIndexFile, mutexVars, viewVars, clientVars, At
  <2>2. \/ index' = index
        \/ index' = [index EXCEPT ![f] = disk[f]] /\ Refreshed(f)'
    BY <1>11, <2>1 DEF WatchIndexFile
  <2>3. \A p \in Procs : pc[p] \notin {"setTrue", "analyse"}
    BY <2>1
  <2>4. \A g \in Files : Refreshed(g) => Refreshed(g)'
    BY <2>1
  <2> QED
    BY <2>1, <2>2, <2>3, <2>4, SMTT(30)
<1>12. ASSUME WatchUnlock PROVE OneVersion'
  BY <1>12 DEF WatchUnlock, flagVars, indexingVars, viewVars, clientVars, watchVars, At
<1>13. ASSUME WatchSetComplete PROVE OneVersion'
  BY <1>13 DEF WatchSetComplete, Goto, SetComplete, Answer, indexingVars, viewVars, clientVars, watchVars, At
<1>14. ASSUME NEW f \in Files, WatchRefresh(f) PROVE OneVersion'
  <2>1. /\ pc[Main] = "refresh" /\ toRefresh' = toRefresh \ {f}
        /\ UNCHANGED <<index, openMap, disk, toIndex, behind>>
        /\ \A q \in Files : pc'[q] = pc[q] /\ job'[q] = job[q]
    BY <1>14 DEF WatchRefresh, Goto, StartJob, viewVars, clientVars, At
  <2>2. \/ pc'[Main] \in {"idle", "refresh"} /\ (openMap[f] = NotOpen \/ disk[f] = None)
        \/ pc'[Main] = "refreshLock" /\ job'[Main] = [file |-> f, text |-> disk[f]]
    BY <1>14 DEF WatchRefresh, Goto, StartJob, At
  <2>3. ASSUME NEW g \in Files, Refreshed(g), openMap[g].full PROVE Refreshed(g)'
    <3>1. CASE \E q \in Procs : pc[q] \in {"setTrue", "analyse"} /\ job[q].file = g
      <4>1. PICK q \in Files : pc[q] \in {"setTrue", "analyse"} /\ job[q].file = g
        BY <2>1, <3>1
      <4>2. pc'[q] \in {"setTrue", "analyse"} /\ job'[q].file = g
        BY <2>1, <4>1
      <4> QED
        BY <4>2
    <3>2. CASE g # f /\ BetweenReads(g) /\ disk[g] \notin Broken \union {None}
      BY <2>1, <2>2, <3>2
    <3>3. CASE g = f /\ disk[g] \notin Broken \union {None}
      BY <2>1, <2>2, <2>3, <3>3
    <3> QED
      BY <2>1, <2>3, <3>1, <3>2, <3>3
  <2>4. \A q \in Procs : pc'[q] \in {"setTrue", "analyse"} => pc[q] = pc'[q] /\ job'[q] = job[q]
    BY <2>1, <2>2
  <2> QED
    BY <2>1, <2>3, <2>4
<1>15. ASSUME NEW f \in Files, IndexProjectFile(f) PROVE OneVersion'
  BY <1>15 DEF IndexProjectFile, flagVars, mutexVars, viewVars, clientVars, watchVars
<1>16. ASSUME IndexingDone PROVE OneVersion'
  BY <1>16 DEF IndexingDone, SetComplete, Answer, mutexVars, viewVars, clientVars, watchVars
<1>17. ASSUME AnalyseOpened PROVE OneVersion'
  <2>1. /\ phase = "spawning" /\ pc'[Main] = pc[Main] /\ job'[Main] = job[Main]
        /\ \A f \in Files : pc'[f] \in {"idle", "openLock"}
        /\ UNCHANGED <<index, openMap, disk, toRefresh, toIndex, behind>>
    BY <1>17 DEF AnalyseOpened, viewVars, clientVars, watchVars
  <2>2. \A f \in Files : pc[f] = "idle"
    BY <2>1
  <2>3. ASSUME NEW f \in Files, Refreshed(f) PROVE Refreshed(f)'
    BY <2>1, <2>2, <2>3
  <2>4. \A q \in Procs : pc'[q] \in {"setTrue", "analyse"} => pc[q] = pc'[q] /\ job'[q] = job[q]
    BY <2>1, <2>2
  <2>5. \A q \in Procs : pc'[q] \in {"setTrue", "analyse"} => index'[job'[q].file] = job'[q].text
    BY <2>1, <2>4
  <2>6. ASSUME NEW f \in Files \ behind', openMap'[f].full
        PROVE  index'[f] \in {openMap'[f].text, None} \/ Refreshed(f)'
    <3> HIDE DEF Refreshed
    <3> QED
      BY <2>1, <2>3, <2>6
  <2> QED
    BY <2>5, <2>6
<1>18. ASSUME Initialize PROVE OneVersion'
  BY <1>18 DEF Initialize, flagVars, mutexVars, viewVars, clientVars, watchVars, At
<1>19. ASSUME NEW f \in Files, NEW v \in Versions, DidOpen(f, v) PROVE OneVersion'
  BY <1>19 DEF DidOpen, ReadMessage, StartJob, flagVars, indexingVars, viewVars, watchVars, At
<1>20. ASSUME NEW f \in Files, NEW v \in Versions, DidChange(f, v) PROVE OneVersion'
  BY <1>20 DEF DidChange, ReadMessage, StartJob, flagVars, indexingVars, viewVars, watchVars, At
<1>21. ASSUME NEW f \in Files, DidClose(f) PROVE OneVersion'
  BY <1>21 DEF DidClose, ReadMessage, flagVars, mutexVars, indexingVars, watchVars, At
<1>22. ASSUME NEW f \in Files, Query(f) PROVE OneVersion'
  BY <1>22 DEF Query, StartJob, flagVars, indexingVars, viewVars, clientVars, watchVars, At
<1>23. ASSUME NEW r \in Requests, DocumentSymbol(r) PROVE OneVersion'
  BY <1>23, SMTT(30) DEF DocumentSymbol, ReadMessage, StartJob, Answer, mutexVars, indexingVars, viewVars, watchVars, At
<1>24. ASSUME NEW news \in News, DidChangeWatchedFiles(news) PROVE OneVersion'
  <2>1. /\ pc[Main] = "idle" /\ pc' = [pc EXCEPT ![Main] = "watchLock"]
        /\ UNCHANGED <<index, openMap, job, behind>>
    BY <1>24 DEF DidChangeWatchedFiles, ReadMessage, viewVars, At
  <2>2. toRefresh = {}
    BY <2>1 DEF ChangePc
  <2>3. ASSUME NEW f \in Files, Refreshed(f) PROVE Refreshed(f)'
    BY <2>1, <2>2, <2>3
  <2> QED
    BY <2>1, <2>3
<1>25. ASSUME NEW f \in Files, NEW v \in Versions \union {None}, ChangeOnDisk(f, v) PROVE OneVersion'
  <2>1. /\ UNCHANGED <<pc, job, index, openMap, toRefresh, toIndex>>
        /\ disk' = [disk EXCEPT ![f] = v]
        /\ behind \subseteq behind'
        /\ BetweenReads(f) /\ v \in Broken \union {None} => f \in behind'
    BY <1>25 DEF ChangeOnDisk, mutexVars, watchVars
  <2>2. ASSUME NEW g \in Files \ behind', Refreshed(g) PROVE Refreshed(g)'
    BY <2>1, <2>2
  <2> QED
    BY <2>1, <2>2
<1>26. CASE UNCHANGED vars
  BY <1>26 DEF vars
<1> HIDE DEF Control, TypeOK, Owned, JobsOK, Calm, OneVersion, Refreshed
<1> QED
  BY <1>1, <1>2, <1>3, <1>4, <1>5, <1>6, <1>7, <1>8, <1>9, <1>10, <1>11, <1>12, <1>13, <1>14, <1>15, <1>16, <1>17, <1>18, <1>19, <1>20, <1>21, <1>22, <1>23, <1>24, <1>25, <1>26
  DEF Next, ProcStep, MainOnlyStep, IndexingStep, ClientStep, DiskStep

LEMMA AllInit == Init => Control /\ Calm /\ OneVersion
<1>1. Init => Calm
  BY LangServerAssumption DEF Init, Calm, Procs, NotOpen, WatchPc
<1>2. Init => OneVersion
  BY LangServerAssumption DEF Init, OneVersion, Procs, NotOpen
<1> QED
  BY <1>1, <1>2, ControlInit

(* A query under the mutex sees the index and the open map of one version  *)
(* of a file, whatever happens to the files on disk meanwhile; but for the *)
(* files whose change was dropped, and those that externalChanges indexed  *)
(* and could not read or parse again for the open map.                     *)
THEOREM QueriesSeeOneVersion ==
    ASSUME ~WatchDuringIndexing PROVE Spec => []QuerySeesOneVersion
<1> DEFINE Inv == Control /\ Calm /\ OneVersion
<1>1. Init => Inv
  BY AllInit
<1>2. Inv /\ [Next]_vars => Inv'
  BY ControlStep, CalmStep, OneVersionStep
<1>3. Inv => QuerySeesOneVersion
  <2> SUFFICES ASSUME Inv, pc[Main] = "query", NEW f \in Files \ behind, openMap[f].full
               PROVE  index[f] \in {openMap[f].text, None}
    BY DEF QuerySeesOneVersion
  <2>1. toRefresh = {}
    BY DEF Control, JobsOK, WatchPc, ChangePc
  <2>2. \A p \in Procs : pc[p] \notin {"setTrue", "analyse"}
    BY DEF Control, TypeOK, Owned, Critical, Procs
  <2> QED
    BY <2>1, <2>2 DEF OneVersion, Refreshed, BetweenReads
<1> QED
  BY <1>1, <1>2, <1>3, PTL DEF Spec

(* What a step publishes is about the index, and nobody moves the index    *)
(* under one who is about to publish or to answer.                         *)
LEMMA PublishStep ==
    ASSUME ~WatchDuringIndexing, Control, Calm, OneVersion, [Next]_vars,
           NEW f \in Files, diagnostics'[f] # diagnostics[f]
    PROVE  index[f] = diagnostics'[f]
<1>1. PICK p \in Procs : Publish(p)
  BY DEF Next, ProcStep, MainOnlyStep, IndexingStep, ClientStep, DiskStep, vars, viewVars,
     Lock, OpenFile, StoreParsed, BeginChange, UpdateMetaInfo, EndChange,
     AnswerQuery, RegisterCallback, WatchDelete, WatchIndexFile, WatchUnlock,
     WatchSetComplete, WatchRefresh, IndexProjectFile, IndexingDone, AnalyseOpened,
     Initialize, DidOpen, DidChange, DidClose, Query, DocumentSymbol, DidChangeWatchedFiles,
     ChangeOnDisk
<1>2. pc[p] = "analyse" /\ f = job[p].file /\ diagnostics'[f] = job[p].text
  BY <1>1 DEF Publish, At, Control, TypeOK
<1> QED
  BY <1>2 DEF OneVersion

LEMMA IndexStep ==
    ASSUME ~WatchDuringIndexing, Control, Calm, [Next]_vars,
           index' # index, NEW p \in Procs
    PROVE  /\ pc[p] \notin {"setTrue", "analyse"}
           /\ pc[p] = "query" => phase = "indexing"
<1> USE DEF Control, TypeOK, Owned, Critical, Procs
<1>1. ASSUME NEW q \in Procs, UpdateMetaInfo(q)
      PROVE  pc[p] \notin {"setTrue", "analyse", "query"}
  BY <1>1 DEF UpdateMetaInfo, At
<1>2. ASSUME WatchDelete PROVE pc[p] \notin {"setTrue", "analyse", "query"}
  BY <1>2 DEF WatchDelete, At
<1>3. ASSUME NEW f \in Files, WatchIndexFile(f)
      PROVE  pc[p] \notin {"setTrue", "analyse", "query"}
  BY <1>3 DEF WatchIndexFile, At
<1>4. ASSUME NEW f \in Files, IndexProjectFile(f)
      PROVE  /\ pc[p] \notin {"setTrue", "analyse"}
             /\ phase = "indexing"
  BY <1>4 DEF IndexProjectFile, Calm
<1>5. \/ \E q \in Procs : UpdateMetaInfo(q)
      \/ WatchDelete
      \/ \E f \in Files : WatchIndexFile(f) \/ IndexProjectFile(f)
  BY DEF Next, ProcStep, MainOnlyStep, IndexingStep, ClientStep, DiskStep, vars,
     Lock, OpenFile, StoreParsed, BeginChange, Publish, EndChange,
     AnswerQuery, RegisterCallback, WatchUnlock, WatchSetComplete, WatchRefresh,
     IndexingDone, AnalyseOpened, Initialize, DidOpen, DidChange, DidClose, Query,
     DocumentSymbol, DidChangeWatchedFiles, ChangeOnDisk
<1> QED
  BY <1>1, <1>2, <1>3, <1>4, <1>5

(* Diagnostics are computed from the index that has the text they are      *)
(* about.                                                                  *)
THEOREM DiagnosticsFromNewIndex ==
    ASSUME ~WatchDuringIndexing PROVE Spec => DiagnosticsUseNewIndex
<1> DEFINE Inv == Control /\ Calm /\ OneVersion
<1> DEFINE Good ==
      /\ \A f \in Files : diagnostics'[f] # diagnostics[f] => index[f] = diagnostics'[f]
      /\ index' # index => \A p \in Procs :
             /\ pc[p] \notin {"setTrue", "analyse"}
             /\ pc[p] = "query" => phase = "indexing"
<1>1. Init => Inv
  BY AllInit
<1>2. Inv /\ [Next]_vars => Inv'
  BY ControlStep, CalmStep, OneVersionStep
<1>3. Inv /\ [Next]_vars => [Good]_vars
  BY PublishStep, IndexStep
<1> QED
  BY <1>1, <1>2, <1>3, PTL DEF Spec, DiagnosticsUseNewIndex
-----------------------------------------------------------------------------
(* What can be said here of the end of a message: someone can always go on *)
(* while a goroutine is busy, and each of them only ever goes forward.     *)
ProcCanGoOn(p) ==
    \/ pc[p] \in Waiting /\ owner = None
    \/ pc[p] \in ChangePc \union {"open", "parseOnly"}

MainCanGoOn ==
    \/ pc[Main] \in {"query", "register", "watch", "watchIndex", "watchSet"}
    \/ pc[Main] = "refresh" /\ toRefresh # {}

IndexingCanGoOn == phase \in {"indexing", "spawning"}

(* While a goroutine is busy, or files wait to be indexed, someone can go on. *)
NobodyWaitsForNobody ==
    \/ ~alive
    \/ phase \in {"off", "done"} /\ \A p \in Procs : pc[p] = "idle"
    \/ (\E p \in Procs : ProcCanGoOn(p)) \/ MainCanGoOn \/ IndexingCanGoOn

(* The longest way from each place to the end of the call.                 *)
PcWeight == [idle |-> 0, refresh |-> 0,
             parseOnly |-> 1, analyse |-> 1, setTrue |-> 2, update |-> 3, change |-> 4,
             open |-> 5, openLock |-> 6, changeLock |-> 5, refreshLock |-> 5,
             query |-> 1, queryLock |-> 2, register |-> 1,
             watchSet |-> 1, watchIndex |-> 2, watch |-> 3, watchLock |-> 4]
Turn == [p \in Procs |-> PcWeight[pc[p]]]

(* The goroutines that AnalyseOpened has yet to start are counted before.  *)
IndexingWeight ==
    Cardinality(unindexed)
      + (IF phase = "indexing" THEN 6 * Cardinality(Files) + 2
         ELSE IF phase = "spawning" THEN 6 * Cardinality(Files) + 1 ELSE 0)

(* The steps that are left until the server has nothing to do.             *)
TurnsLeft == SumFunctionOnSet(Turn, Procs)

StepsLeft ==
    TurnsLeft + 6 * Cardinality(toRefresh) + Cardinality(toIndex)
      + IndexingWeight + (IF alive THEN 1 ELSE 0)

(* A loop of externalChanges is left when it has no file left.             *)
Loops ==
    /\ pc[Main] = "refresh" => toRefresh # {}
    /\ pc[Main] \in {"watchLock", "watch"} => toIndex \subseteq toRefresh

LEMMA LoopsStep == Control /\ Loops /\ [Next]_vars => Loops'
<1> SUFFICES ASSUME Control, Loops, [Next]_vars PROVE Loops'
  OBVIOUS
<1> USE LangServerAssumption
<1> USE DEF Control, TypeOK, Owned, JobsOK, Loops, Procs, Waiting, Critical, WatchPc
<1>1. ASSUME NEW p \in Procs, Lock(p) PROVE Loops'
  <2>1. /\ pc[p] \in Waiting /\ pc' = [pc EXCEPT ![p] = AfterLock[pc[p]]]
        /\ UNCHANGED <<toIndex, toRefresh>>
    BY <1>1 DEF Lock, watchVars
  <2>2. /\ AfterLock[pc[p]] \in {"open", "change", "query", "watch"}
        /\ AfterLock[pc[p]] = "watch" => pc[p] = "watchLock"
    BY <2>1 DEF AfterLock
  <2> QED
    BY <2>1, <2>2
<1>2. ASSUME NEW p \in Procs, OpenFile(p) PROVE Loops'
  BY <1>2 DEF OpenFile, Goto, Unlock, watchVars, At
<1>3. ASSUME NEW p \in Procs, StoreParsed(p) PROVE Loops'
  BY <1>3 DEF StoreParsed, Unlock, watchVars, At
<1>4. ASSUME NEW p \in Procs, BeginChange(p) PROVE Loops'
  BY <1>4 DEF BeginChange, Goto, Unlock, watchVars, At
<1>5. ASSUME NEW p \in Procs, UpdateMetaInfo(p) PROVE Loops'
  <2>1. CASE complete /\ p = Main
    BY <1>5, <2>1 DEF UpdateMetaInfo, At
  <2>2. CASE complete /\ p # Main
    BY <1>5, <2>2 DEF UpdateMetaInfo, mutexVars, watchVars, At
  <2>3. CASE ~complete
    BY <1>5, <2>3 DEF UpdateMetaInfo, Goto, watchVars, At
  <2> QED
    BY <2>1, <2>2, <2>3
<1>6. ASSUME NEW p \in Procs, EndChange(p) PROVE Loops'
  BY <1>6 DEF EndChange, Goto, watchVars, At
<1>7. ASSUME NEW p \in Procs, Publish(p) PROVE Loops'
  BY <1>7 DEF Publish, Unlock, watchVars, At
<1>8. ASSUME AnswerQuery PROVE Loops'
  BY <1>8 DEF AnswerQuery, Unlock, watchVars, At
<1>9. ASSUME RegisterCallback PROVE Loops'
  BY <1>9 DEF RegisterCallback, watchVars, At
<1>10. ASSUME WatchDelete PROVE Loops'
  BY <1>10 DEF WatchDelete, Goto, At
<1>11. ASSUME NEW f \in Files, WatchIndexFile(f) PROVE Loops'
  BY <1>11 DEF WatchIndexFile, mutexVars, At
<1>12. ASSUME WatchUnlock PROVE Loops'
  BY <1>12 DEF WatchUnlock, watchVars, At
<1>13. ASSUME WatchSetComplete PROVE Loops'
  BY <1>13 DEF WatchSetComplete, Goto, watchVars, At
<1>14. ASSUME NEW f \in Files, WatchRefresh(f) PROVE Loops'
  BY <1>14 DEF WatchRefresh, Goto, StartJob, At
<1>15. ASSUME NEW f \in Files, IndexProjectFile(f) PROVE Loops'
  BY <1>15 DEF IndexProjectFile, mutexVars, watchVars
<1>16. ASSUME IndexingDone PROVE Loops'
  BY <1>16 DEF IndexingDone, mutexVars, watchVars
<1>17. ASSUME AnalyseOpened PROVE Loops'
  BY <1>17 DEF AnalyseOpened, watchVars
<1>18. ASSUME Initialize PROVE Loops'
  BY <1>18 DEF Initialize, mutexVars, watchVars
<1>19. ASSUME NEW f \in Files, NEW v \in Versions, DidOpen(f, v) \/ DidChange(f, v) PROVE Loops'
  BY <1>19 DEF DidOpen, DidChange, StartJob, watchVars
<1>20. ASSUME NEW f \in Files, DidClose(f) \/ Query(f) PROVE Loops'
  BY <1>20 DEF DidClose, Query, StartJob, mutexVars, watchVars
<1>21. ASSUME NEW r \in Requests, DocumentSymbol(r) PROVE Loops'
  BY <1>21 DEF DocumentSymbol, StartJob, mutexVars, watchVars
<1>22. ASSUME NEW news \in News, DidChangeWatchedFiles(news) PROVE Loops'
  BY <1>22 DEF DidChangeWatchedFiles
<1>23. ASSUME NEW f \in Files, NEW v \in Versions \union {None}, ChangeOnDisk(f, v) PROVE Loops'
  BY <1>23 DEF ChangeOnDisk, mutexVars, watchVars
<1>24. CASE UNCHANGED vars
  BY <1>24 DEF vars
<1> QED
  BY <1>1, <1>2, <1>3, <1>4, <1>5, <1>6, <1>7, <1>8, <1>9, <1>10, <1>11, <1>12, <1>13, <1>14, <1>15, <1>16, <1>17, <1>18, <1>19, <1>20, <1>21, <1>22, <1>23, <1>24
  DEF Next, ProcStep, MainOnlyStep, IndexingStep, ClientStep, DiskStep

(* Whoever owns the mutex can go on, and if nobody does whoever waits can  *)
(* take it.                                                                *)
LEMMA SomeoneCanGoOn == Control /\ Loops => NobodyWaitsForNobody
<1> SUFFICES ASSUME Control, Loops, alive, ~MainCanGoOn, ~IndexingCanGoOn,
                    \A p \in Procs : ~ProcCanGoOn(p)
             PROVE  phase \in {"off", "done"} /\ \A p \in Procs : pc[p] = "idle"
  BY DEF NobodyWaitsForNobody
<1>1. \A f \in Files : f \in Procs /\ pc[f] \in FilePc
  BY DEF Control, JobsOK, Procs
<1>2. owner = None
  <2> SUFFICES ASSUME owner \in Procs PROVE FALSE
    BY DEF Control, TypeOK
  <2>1. pc[owner] \in Critical
    BY DEF Control, Owned
  <2>2. CASE owner = Main
    BY <2>1, <2>2 DEF Critical, MainCanGoOn, ProcCanGoOn, ChangePc
  <2>3. CASE owner \in Files
    BY <1>1, <2>1, <2>3 DEF Critical, FilePc, ProcCanGoOn, ChangePc
  <2> QED BY <2>2, <2>3 DEF Procs
<1>3. \A p \in Procs : pc[p] \in PcState /\ pc[p] \notin Waiting
  BY <1>2 DEF ProcCanGoOn, Control, TypeOK
<1>4. pc[Main] = "idle"
  <2>1. Main \in Procs
    BY DEF Procs
  <2> QED BY <1>3, <2>1 DEF PcState, Critical, MainCanGoOn, ProcCanGoOn, ChangePc, Loops
<1>5. \A f \in Files : pc[f] = "idle"
  BY <1>1, <1>3 DEF FilePc, ProcCanGoOn, ChangePc, Waiting
<1> QED BY <1>4, <1>5 DEF Procs, IndexingCanGoOn, Control, TypeOK

-----------------------------------------------------------------------------
LEMMA TurnType == Control => \A p \in Procs : Turn[p] = PcWeight[pc[p]] /\ Turn[p] \in 0..6
BY DEF Control, TypeOK, PcState, Waiting, Critical, Turn, PcWeight

LEMMA StepsNatural ==
    ASSUME IsFiniteSet(Files), Control
    PROVE  /\ IsFiniteSet(Procs) /\ IsFiniteSet(toRefresh) /\ IsFiniteSet(toIndex) /\ IsFiniteSet(unindexed)
           /\ TurnsLeft \in Nat /\ Cardinality(toRefresh) \in Nat /\ Cardinality(toIndex) \in Nat
           /\ Cardinality(unindexed) \in Nat /\ Cardinality(Files) \in Nat
           /\ IndexingWeight \in Nat /\ StepsLeft \in Nat
<1>1. IsFiniteSet(Procs)
  BY FS_AddElement DEF Procs
<1>2. IsFiniteSet(toRefresh) /\ IsFiniteSet(toIndex) /\ IsFiniteSet(unindexed)
  BY FS_Subset DEF Control, TypeOK
<1>3. /\ Cardinality(toRefresh) \in Nat /\ Cardinality(toIndex) \in Nat
      /\ Cardinality(unindexed) \in Nat /\ Cardinality(Files) \in Nat
  BY <1>2, FS_CardinalityType
<1>4. TurnsLeft \in Nat
  <2>1. \A p \in Procs : Turn[p] \in Nat
    BY TurnType
  <2> QED BY <1>1, <2>1, SumNat DEF TurnsLeft
<1>5. IndexingWeight \in Nat
  BY <1>3 DEF IndexingWeight
<1> QED BY <1>1, <1>2, <1>3, <1>4, <1>5 DEF StepsLeft

(* One goroutine takes a step, or none.                                    *)
LEMMA OneTurn ==
    ASSUME IsFiniteSet(Files), Control, Control',
           NEW p \in Procs, \A q \in Procs \ {p} : pc'[q] = pc[q]
    PROVE  /\ TurnsLeft' = (TurnsLeft - PcWeight[pc[p]]) + PcWeight[pc'[p]]
           /\ PcWeight[pc[p]] \in 0..6 /\ PcWeight[pc'[p]] \in 0..6
           /\ TurnsLeft \in Nat /\ TurnsLeft' \in Int
<1>1. \A q \in Procs : Turn[q] = PcWeight[pc[q]] /\ Turn[q] \in 0..6
  BY TurnType
<1>2. \A q \in Procs : Turn'[q] = PcWeight[pc'[q]] /\ Turn'[q] \in 0..6
  BY TurnType DEF Control, TypeOK, PcState, Waiting, Critical, Turn, PcWeight
<1>3. /\ \A q \in Procs : Turn[q] \in Int /\ Turn'[q] \in Int
      /\ \A q \in Procs \ {p} : Turn'[q] = Turn[q]
  BY <1>1, <1>2
<1>4. SumFunctionOnSet(Turn', Procs) = (SumFunctionOnSet(Turn, Procs) - Turn[p]) + Turn'[p]
  BY <1>3, StepsNatural, SumChange
<1>5. TurnsLeft' = SumFunctionOnSet(Turn', Procs) /\ TurnsLeft = SumFunctionOnSet(Turn, Procs)
  BY DEF TurnsLeft
<1> QED BY <1>1, <1>2, <1>4, <1>5, StepsNatural

(* StepsLeft with its parts as numbers, to add them up once.               *)
SumOf(t, r, i, u, w, l) == t + 6 * r + i + (u + w) + l

LEMMA SumsFall ==
    ASSUME NEW t \in Int, NEW r \in Int, NEW i \in Int, NEW u \in Int, NEW w \in Int, NEW l \in Int,
           NEW t1 \in Int, NEW r1 \in Int, NEW i1 \in Int, NEW u1 \in Int, NEW l1 \in Int,
           t1 <= t, r1 <= r, i1 <= i, u1 <= u, l1 <= l,
           t1 < t \/ i1 < i \/ u1 < u \/ l1 < l
    PROVE  SumOf(t1, r1, i1, u1, w, l1) < SumOf(t, r, i, u, w, l)
BY DEF SumOf

(* What is left to all of them, of those who have less left and those who  *)
(* have as much.                                                           *)
LEMMA Fewer ==
    ASSUME IsFiniteSet(Files), Control,
           UNCHANGED phase, unindexed' \subseteq unindexed,
           toRefresh' \subseteq toRefresh, toIndex' \subseteq toIndex, alive' => alive,
           TurnsLeft' \in Int, TurnsLeft' <= TurnsLeft,
           \/ TurnsLeft' < TurnsLeft
           \/ unindexed' # unindexed \/ toIndex' # toIndex
           \/ alive /\ ~alive'
    PROVE  StepsLeft' < StepsLeft
<1> DEFINE r == Cardinality(toRefresh)
           i == Cardinality(toIndex)
           u == Cardinality(unindexed)
           n == Cardinality(Files)
           w == IF phase = "indexing" THEN 6 * n + 2 ELSE IF phase = "spawning" THEN 6 * n + 1 ELSE 0
           l == IF alive THEN 1 ELSE 0
           t == TurnsLeft
           x == IndexingWeight
           s == StepsLeft
<1>1. /\ t \in Nat /\ r \in Nat /\ i \in Nat /\ u \in Nat /\ n \in Nat
      /\ IsFiniteSet(toRefresh) /\ IsFiniteSet(toIndex) /\ IsFiniteSet(unindexed)
  BY StepsNatural
<1>2. /\ r' \in Nat /\ i' \in Nat /\ u' \in Nat
      /\ r' <= r /\ i' <= i /\ u' <= u
      /\ toIndex' # toIndex => i' < i
      /\ unindexed' # unindexed => u' < u
  <2>1. r' <= r /\ i' <= i /\ u' <= u
    BY <1>1, FS_Subset
  <2>2. toIndex' # toIndex => i' # i
    BY <1>1, FS_Subset
  <2>3. unindexed' # unindexed => u' # u
    BY <1>1, FS_Subset
  <2>4. IsFiniteSet(toRefresh') /\ IsFiniteSet(toIndex') /\ IsFiniteSet(unindexed')
    BY <1>1, FS_Subset
  <2>5. r' \in Nat /\ i' \in Nat /\ u' \in Nat
    BY <2>4, FS_CardinalityType
  <2> HIDE DEF r, i, u
  <2> QED BY <1>1, <2>1, <2>2, <2>3, <2>5
<1>3. w' = w /\ w \in Nat
  BY <1>1
<1>4. l \in Nat /\ l' \in Nat /\ l' <= l /\ (alive /\ ~alive' => l' < l)
  OBVIOUS
<1>5. s = SumOf(t, r, i, u, w, l)
  BY DEF StepsLeft, IndexingWeight, SumOf
<1>6. s' = SumOf(t', r', i', u', w', l')
  BY DEF StepsLeft, IndexingWeight, SumOf
<1>7. t' \in Int /\ t' <= t
  OBVIOUS
<1> HIDE DEF r, i, u, n, w, l, t, x, s
<1>8. t' < t \/ i' < i \/ u' < u \/ l' < l
  BY <1>2, <1>4 DEF t
<1>9. s' < s
  <2>1. /\ t \in Int /\ r \in Int /\ i \in Int /\ u \in Int /\ w \in Int /\ l \in Int
        /\ t' \in Int /\ r' \in Int /\ i' \in Int /\ u' \in Int /\ l' \in Int
        /\ t' <= t /\ r' <= r /\ i' <= i /\ u' <= u /\ l' <= l
    BY <1>1, <1>2, <1>3, <1>4, <1>7
  <2>2. SumOf(t', r', i', u', w, l') < SumOf(t, r, i, u, w, l)
    BY <1>8, <2>1, SumsFall
  <2> QED BY <1>3, <1>5, <1>6, <2>2, Zenon
<1> QED BY <1>9 DEF s

LEMMA ProcCounts ==
    ASSUME IsFiniteSet(Files), Control, Control', NEW p \in Procs, ProcStep(p)
    PROVE  StepsLeft' < StepsLeft
<1>1. /\ alive /\ pc \in [Procs -> PcState]
      /\ UNCHANGED <<unindexed, phase, toIndex>> /\ toRefresh' \subseteq toRefresh
      /\ \A q \in Procs \ {p} : pc'[q] = pc[q]
      /\ PcWeight[pc'[p]] < PcWeight[pc[p]] \/ (pc' = pc /\ ~alive')
  <2> USE DEF Control, TypeOK, At
  <2>1. CASE Lock(p)
    <3>1. pc[p] \in Waiting /\ pc' = [pc EXCEPT ![p] = AfterLock[pc[p]]]
      BY <2>1 DEF Lock
    <3>2. PcWeight[AfterLock[pc[p]]] < PcWeight[pc[p]]
      BY <3>1 DEF AfterLock, PcWeight, Waiting
    <3> QED BY <2>1, <3>1, <3>2 DEF Lock, indexingVars, watchVars
  <2>2. CASE OpenFile(p)
    BY <2>2 DEF OpenFile, Goto, Unlock, PcWeight, indexingVars, watchVars
  <2>3. CASE StoreParsed(p)
    BY <2>3 DEF StoreParsed, Unlock, PcWeight, indexingVars, watchVars
  <2>4. CASE BeginChange(p)
    BY <2>4 DEF BeginChange, Goto, Unlock, PcWeight, indexingVars, watchVars
  <2>5. CASE UpdateMetaInfo(p)
    <3>1. CASE complete /\ p = Main
      BY <2>5, <3>1 DEF UpdateMetaInfo, PcWeight, indexingVars
    <3>2. CASE complete /\ p # Main
      BY <2>5, <3>2 DEF UpdateMetaInfo, mutexVars, indexingVars, watchVars
    <3>3. CASE ~complete
      BY <2>5, <3>3 DEF UpdateMetaInfo, Goto, PcWeight, indexingVars, watchVars
    <3> QED BY <3>1, <3>2, <3>3
  <2>6. CASE EndChange(p)
    BY <2>6 DEF EndChange, Goto, PcWeight, indexingVars, watchVars
  <2>7. CASE Publish(p)
    BY <2>7 DEF Publish, Unlock, PcWeight, indexingVars, watchVars
  <2> QED BY <2>1, <2>2, <2>3, <2>4, <2>5, <2>6, <2>7 DEF ProcStep
<1>2. /\ TurnsLeft' = (TurnsLeft - PcWeight[pc[p]]) + PcWeight[pc'[p]]
      /\ PcWeight[pc[p]] \in 0..6 /\ PcWeight[pc'[p]] \in 0..6
      /\ TurnsLeft \in Nat /\ TurnsLeft' \in Int
  BY <1>1, OneTurn
<1>3. TurnsLeft' < TurnsLeft \/ (TurnsLeft' = TurnsLeft /\ ~alive')
  <2>1. CASE PcWeight[pc'[p]] < PcWeight[pc[p]]
    BY <1>2, <2>1
  <2>2. CASE pc' = pc /\ ~alive'
    BY <1>2, <2>2
  <2> QED BY <1>1, <2>1, <2>2
<1>4. TurnsLeft' <= TurnsLeft
  BY <1>2, <1>3
<1> QED BY <1>1, <1>2, <1>3, <1>4, Fewer

LEMMA MainCounts ==
    ASSUME IsFiniteSet(Files), Control, Control', Loops, MainOnlyStep
    PROVE  StepsLeft' < StepsLeft
<1>1. /\ Main \in Procs /\ pc \in [Procs -> PcState] /\ \A q \in Procs \ {Main} : q # Main
  BY DEF Procs, Control, TypeOK
<1> USE DEF At
<1>2. CASE \/ AnswerQuery \/ RegisterCallback \/ WatchDelete
           \/ WatchUnlock \/ WatchSetComplete
  <2>1. /\ alive' = alive /\ UNCHANGED <<unindexed, phase, toIndex>> /\ toRefresh' \subseteq toRefresh
        /\ \A q \in Procs \ {Main} : pc'[q] = pc[q]
        /\ PcWeight[pc'[Main]] < PcWeight[pc[Main]]
    <3>1. CASE AnswerQuery
      BY <1>1, <3>1 DEF AnswerQuery, Unlock, PcWeight, indexingVars, watchVars
    <3>2. CASE RegisterCallback
      BY <1>1, <3>2 DEF RegisterCallback, PcWeight, indexingVars, watchVars
    <3>3. CASE WatchDelete
      BY <1>1, <3>3 DEF WatchDelete, Goto, PcWeight, indexingVars, Loops
    <3>4. CASE WatchUnlock
      BY <1>1, <3>4 DEF WatchUnlock, PcWeight, indexingVars, watchVars
    <3>5. CASE WatchSetComplete
      BY <1>1, <3>5 DEF WatchSetComplete, Goto, PcWeight, indexingVars, watchVars
    <3> QED BY <1>2, <3>1, <3>2, <3>3, <3>4, <3>5
  <2>2. /\ TurnsLeft' = (TurnsLeft - PcWeight[pc[Main]]) + PcWeight[pc'[Main]]
        /\ PcWeight[pc[Main]] \in 0..6 /\ PcWeight[pc'[Main]] \in 0..6
        /\ TurnsLeft \in Nat /\ TurnsLeft' \in Int
    BY <1>1, <2>1, OneTurn
  <2>3. TurnsLeft' < TurnsLeft /\ TurnsLeft' <= TurnsLeft
    BY <2>1, <2>2
  <2> QED BY <2>1, <2>2, <2>3, Fewer
<1>3. ASSUME NEW f \in Files, WatchIndexFile(f) PROVE StepsLeft' < StepsLeft
  <2>1. /\ UNCHANGED <<pc, unindexed, phase, toRefresh>> /\ alive
        /\ toIndex' \subseteq toIndex /\ toIndex' # toIndex
    BY <1>3 DEF WatchIndexFile, mutexVars, indexingVars
  <2>2. TurnsLeft' = TurnsLeft /\ TurnsLeft \in Nat
    BY <2>1, StepsNatural DEF TurnsLeft, Turn
  <2>3. TurnsLeft' <= TurnsLeft /\ TurnsLeft' \in Int
    BY <2>2
  <2> QED BY <2>1, <2>3, Fewer
<1>4. ASSUME NEW f \in Files, WatchRefresh(f) PROVE StepsLeft' < StepsLeft
  <2>1. /\ UNCHANGED <<phase, unindexed, toIndex, alive>>
        /\ f \in toRefresh /\ toRefresh' = toRefresh \ {f}
        /\ \A q \in Procs \ {Main} : pc'[q] = pc[q]
        /\ pc[Main] = "refresh" /\ pc'[Main] \in {"idle", "refresh", "refreshLock"}
    BY <1>1, <1>4 DEF WatchRefresh, StartJob, Goto, indexingVars
  <2>2. /\ TurnsLeft' = (TurnsLeft - PcWeight[pc[Main]]) + PcWeight[pc'[Main]]
        /\ TurnsLeft \in Nat
    BY <1>1, <2>1, OneTurn
  <2>3. PcWeight[pc[Main]] = 0 /\ PcWeight[pc'[Main]] \in {0, 5}
    BY <2>1 DEF PcWeight
  <2>4. /\ Cardinality(toRefresh') = Cardinality(toRefresh) - 1
        /\ Cardinality(toRefresh) \in Nat /\ Cardinality(toIndex) \in Nat /\ IndexingWeight \in Nat
    BY <2>1, StepsNatural, FS_RemoveElement
  <2>5. IndexingWeight' = IndexingWeight
    BY <2>1 DEF IndexingWeight
  <2>6. StepsLeft' = TurnsLeft' + 6 * Cardinality(toRefresh') + Cardinality(toIndex)
                       + IndexingWeight + (IF alive THEN 1 ELSE 0)
    BY <2>1, <2>5 DEF StepsLeft
  <2>7. StepsLeft = TurnsLeft + 6 * Cardinality(toRefresh) + Cardinality(toIndex)
                       + IndexingWeight + (IF alive THEN 1 ELSE 0)
    BY DEF StepsLeft
  <2> QED BY <2>2, <2>3, <2>4, <2>6, <2>7
<1> QED BY <1>2, <1>3, <1>4 DEF MainOnlyStep

(* AnalyseOpened starts one goroutine for a file at most.                  *)
LEMMA StartedTurns ==
    ASSUME NEW T, IsFiniteSet(T), NEW k \in Nat, NEW g, NEW h,
           \A x \in T : g[x] \in Int /\ h[x] \in Int /\ h[x] <= g[x] + k
    PROVE  SumFunctionOnSet(h, T) <= SumFunctionOnSet(g, T) + k * Cardinality(T)
<1> DEFINE G(s) == SumFunctionOnSet(g, s)
           H(s) == SumFunctionOnSet(h, s)
           P == {s \in SUBSET T : H(s) <= G(s) + k * Cardinality(s)}
<1>1. ASSUME NEW s \in SUBSET T
      PROVE  /\ IsFiniteSet(s) /\ G({}) = 0 /\ H({}) = 0 /\ G(s) \in Int /\ H(s) \in Int
             /\ \A x \in s : G(s) = g[x] + G(s \ {x}) /\ H(s) = h[x] + H(s \ {x})
  <2>1. IsFiniteSet(s) /\ (\A x \in s : g[x] \in Int) /\ (\A x \in s : h[x] \in Int)
    BY FS_Subset
  <2> QED BY <2>1, SumTakeOut
<1> HIDE DEF G, H
<1>2. {} \in P
  BY <1>1, FS_EmptySet
<1>3. ASSUME NEW s \in SUBSET T, s # {}, \A x \in s : s \ {x} \in P
      PROVE  s \in P
  <2>1. PICK x \in s : TRUE
    BY <1>3
  <2> DEFINE r == s \ {x}
             c == Cardinality(r)
  <2>2. r \in SUBSET T /\ r \in P
    BY <1>3, <2>1
  <2>3. /\ G(s) = g[x] + G(r) /\ H(s) = h[x] + H(r)
        /\ g[x] \in Int /\ h[x] \in Int /\ h[x] <= g[x] + k
        /\ G(r) \in Int /\ H(r) \in Int /\ H(r) <= G(r) + k * c
    BY <1>1, <2>1, <2>2
  <2>4. Cardinality(s) = c + 1 /\ c \in Nat
    <3>1. IsFiniteSet(s) /\ IsFiniteSet(r)
      BY <1>1, <2>2
    <3>2. Cardinality(r) = Cardinality(s) - 1 /\ Cardinality(s) \in Nat /\ Cardinality(r) \in Nat
      BY <2>1, <3>1, FS_RemoveElement, FS_CardinalityType
    <3> QED BY <3>2
  <2> HIDE DEF r, c, P
  <2>5. k * (c + 1) = k * c + k /\ k * c \in Nat
    BY <2>4
  <2>6. H(s) <= G(s) + k * (c + 1)
    BY <2>3, <2>5
  <2> QED BY <2>4, <2>6 DEF P
<1>4. P \in SUBSET (SUBSET T)
  OBVIOUS
<1>5. P = SUBSET T
  <2> HIDE DEF P
  <2> QED BY <1>2, <1>3, <1>4, SubsetInduction
<1>6. T \in P
  BY <1>5
<1> QED BY <1>6 DEF G, H

LEMMA IndexingCounts ==
    ASSUME IsFiniteSet(Files), Control, Control', IndexingStep
    PROVE  StepsLeft' < StepsLeft
<1>1. ASSUME NEW f \in Files, IndexProjectFile(f) PROVE StepsLeft' < StepsLeft
  <2>1. /\ UNCHANGED <<pc, phase, toRefresh, toIndex>> /\ alive
        /\ unindexed' \subseteq unindexed /\ unindexed' # unindexed
    BY <1>1 DEF IndexProjectFile, mutexVars, watchVars
  <2>2. TurnsLeft' = TurnsLeft /\ TurnsLeft \in Nat
    BY <2>1, StepsNatural DEF TurnsLeft, Turn
  <2>3. TurnsLeft' <= TurnsLeft /\ TurnsLeft' \in Int
    BY <2>2
  <2> QED BY <2>1, <2>3, Fewer
<1>2. CASE IndexingDone
  <2>1. /\ UNCHANGED <<pc, unindexed, toRefresh, toIndex, alive>>
        /\ phase = "indexing" /\ phase' = "spawning"
    BY <1>2 DEF IndexingDone, mutexVars, watchVars
  <2>2. TurnsLeft' = TurnsLeft
    BY <2>1 DEF TurnsLeft, Turn
  <2>3. IndexingWeight' = IndexingWeight - 1
    BY <2>1, StepsNatural DEF IndexingWeight
  <2> QED BY <2>1, <2>2, <2>3, StepsNatural DEF StepsLeft
<1>3. CASE AnalyseOpened
  <2> DEFINE n == Cardinality(Files)
  <2>1. /\ UNCHANGED <<unindexed, toRefresh, toIndex, alive>>
        /\ phase = "spawning" /\ phase' = "done"
        /\ pc' \in [Procs -> PcState] /\ pc'[Main] = pc[Main]
    BY LangServerAssumption, <1>3 DEF AnalyseOpened, watchVars, Control, TypeOK, Procs
  <2>2. IndexingWeight = IndexingWeight' + 6 * n + 1 /\ n \in Nat /\ IndexingWeight' \in Nat
    BY <2>1, StepsNatural DEF IndexingWeight
  <2>3. TurnsLeft' <= TurnsLeft + 6 * n /\ TurnsLeft' \in Int
    <3> DEFINE g == Turn
               h == [p \in Procs |-> PcWeight[pc'[p]]]
    <3>1. h = Turn'
      BY DEF Turn
    <3>2. \A p \in Procs : g[p] \in 0..6 /\ h[p] \in 0..6
      BY <2>1, TurnType DEF PcState, Waiting, Critical, PcWeight
    <3>3. g[Main] = h[Main] /\ Main \in Procs /\ Files = Procs \ {Main}
      BY <2>1, LangServerAssumption DEF Turn, Procs
    <3> HIDE DEF g, h
    <3>4. /\ SumFunctionOnSet(g, Procs) = g[Main] + SumFunctionOnSet(g, Files)
          /\ SumFunctionOnSet(h, Procs) = h[Main] + SumFunctionOnSet(h, Files)
          /\ SumFunctionOnSet(h, Procs) \in Int
      <4>1. (\A x \in Procs : g[x] \in Int) /\ (\A x \in Procs : h[x] \in Int)
        BY <3>2
      <4> QED BY <3>3, <4>1, StepsNatural, SumTakeOut
    <3>5. SumFunctionOnSet(h, Files) <= SumFunctionOnSet(g, Files) + 6 * n
      <4>1. \A x \in Files : g[x] \in Int /\ h[x] \in Int /\ h[x] <= g[x] + 6
        BY <3>2, <3>3
      <4> QED BY <4>1, StartedTurns
    <3>6. SumFunctionOnSet(g, Files) \in Int /\ SumFunctionOnSet(h, Files) \in Int
      <4>1. (\A x \in Files : g[x] \in Int) /\ (\A x \in Files : h[x] \in Int)
        BY <3>2, <3>3
      <4> QED BY <4>1, SumTakeOut
    <3>7. TurnsLeft = SumFunctionOnSet(g, Procs) /\ TurnsLeft' = SumFunctionOnSet(h, Procs)
      BY <3>1 DEF TurnsLeft, g
    <3>8. g[Main] \in Int
      BY <3>2, <3>3
    <3> QED BY <2>2, <3>3, <3>4, <3>5, <3>6, <3>7, <3>8
  <2> HIDE DEF n
  <2>4. StepsLeft = TurnsLeft + 6 * Cardinality(toRefresh) + Cardinality(toIndex)
                      + IndexingWeight + (IF alive THEN 1 ELSE 0)
    BY DEF StepsLeft
  <2>5. StepsLeft' = TurnsLeft' + 6 * Cardinality(toRefresh) + Cardinality(toIndex)
                       + IndexingWeight' + (IF alive THEN 1 ELSE 0)
    BY <2>1 DEF StepsLeft
  <2>6. TurnsLeft \in Nat /\ Cardinality(toRefresh) \in Nat /\ Cardinality(toIndex) \in Nat
    BY StepsNatural
  <2> QED BY <2>2, <2>3, <2>4, <2>5, <2>6
<1> QED BY <1>1, <1>2, <1>3 DEF IndexingStep

(* The goroutines share one mutex without waiting for each other for good, *)
(* whatever the client sends and whenever: as long as one of them is busy  *)
(* one of them can go on. And what they can do before the client sends     *)
(* something more or the disk changes is finite, however the scheduler     *)
(* orders it.                                                              *)
THEOREM ServerRunsOut ==
    ASSUME IsFiniteSet(Files)
    PROVE  Spec => /\ []NobodyWaitsForNobody
                   /\ [](StepsLeft \in Nat)
                   /\ [][ClientStep \/ DiskStep \/ StepsLeft' < StepsLeft]_vars
<1> DEFINE Inv == Control /\ Loops
<1>1. Init => Inv
  <2>1. Init => Loops
    BY DEF Init, Loops, Procs
  <2> QED BY <2>1, ControlInit
<1>2. Inv /\ [Next]_vars => Inv'
  BY ControlStep, LoopsStep
<1>3. Inv => NobodyWaitsForNobody /\ StepsLeft \in Nat
  BY SomeoneCanGoOn, StepsNatural
<1>4. Inv /\ Inv' /\ [Next]_vars => [ClientStep \/ DiskStep \/ StepsLeft' < StepsLeft]_vars
  <2> SUFFICES ASSUME Control, Control', Loops, Next PROVE ClientStep \/ DiskStep \/ StepsLeft' < StepsLeft
    OBVIOUS
  <2>1. ASSUME NEW p \in Procs, ProcStep(p) PROVE StepsLeft' < StepsLeft
    BY <2>1, ProcCounts
  <2>2. CASE MainOnlyStep
    BY <2>2, MainCounts
  <2>3. CASE IndexingStep
    BY <2>3, IndexingCounts
  <2> QED BY <2>1, <2>2, <2>3 DEF Next
<1> QED BY <1>1, <1>2, <1>3, <1>4, PTL DEF Spec
=============================================================================
