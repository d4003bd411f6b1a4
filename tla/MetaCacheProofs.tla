-------------------------- MODULE MetaCacheProofs --------------------------
(***************************************************************************)
(* The properties of module MetaCache for any set of callers, versions and *)
(* inodes, any sizes and any number of edits and faults.                   *)
(*                                                                         *)
(* The inductive invariant has three layers: where a caller is says what   *)
(* it has (CallersOK), no two names or callers of different hashes share   *)
(* an inode (NamesApart, FilesApart), and a caller that writes uncontended *)
(* is alone at its temporary file, which holds what it wrote               *)
(* (WritersAlone, SymbolsRight, TextsRight).                               *)
(***************************************************************************)
EXTENDS MetaCache, TLAPS

CallersOK ==
    \A c \in Callers :
      /\ pc[c] \notin {"idle", "hash"} => hash[c] \in Versions
      /\ fd[c] = None <=> pc[c] \in {"idle", "hash", "open", "parse", "create"}
      /\ pc[c] \in {"create", "write", "rename", "update", "cleanup"}
           => symbols[c] \in Versions
      /\ pc[c] \notin Writing => pos[c] = 0
      /\ pc[c] = "write" => pos[c] < Size[symbols[c]]
      /\ pc[c] = "rename" => pos[c] = Size[symbols[c]]

Control == TypeOK /\ CallersOK

(* Init and every step keep the variables in their types, and what each    *)
(* caller has in step with the place in IndexFile where it is.             *)
LEMMA ControlInit == Init => Control
  BY MetaCacheAssumption
  DEF Init, Control, TypeOK, CallersOK, Empty, Labels, Writing, Sources

(* A caller that has returned has nothing.                                 *)
LEMMA ReturnControl ==
    ASSUME Control, NEW c \in Callers, Return(c)
    PROVE  /\ pc' \in [Callers -> Labels]
           /\ given' \in [Callers -> Committed \cup {None}]
           /\ hash' \in [Callers -> Versions \cup {None}]
           /\ symbols' \in [Callers -> Versions \cup {None, Garbled}]
           /\ fd' \in [Callers -> Inodes \cup {None}]
           /\ pos' \in [Callers -> Nat]
           /\ CallersOK'
<1> USE DEF Control, TypeOK, Return, Goto, Labels
<1>1. CallersOK'
  BY MetaCacheAssumption DEF CallersOK, Writing
<1> QED
  BY <1>1

LEMMA ControlStep == Control /\ [Next]_vars => Control'
<1> SUFFICES ASSUME Control, [Next]_vars PROVE Control'
  OBVIOUS
<1> USE MetaCacheAssumption
<1> USE DEF Control, TypeOK, CallersOK, Labels, Writing, Sources
<1>1. ASSUME NEW c \in Callers, NEW contents \in Committed \cup {None},
             IndexFile(c, contents)
      PROVE  Control'
  BY <1>1 DEF IndexFile, Goto, diskVars, historyVars
<1>2. ASSUME NEW c \in Callers, HashContents(c) PROVE Control'
  <2>1. Contents(c) \in Sources
    BY DEF Contents
  <2>2. CASE Contents(c) = Absent
    <3>1. Return(c)
      BY <1>2, <2>2 DEF HashContents
    <3> QED
      BY <1>2, <3>1, ReturnControl DEF HashContents, diskVars, historyVars
  <2>3. CASE Contents(c) # Absent
    BY <1>2, <2>1, <2>3 DEF HashContents, Goto, diskVars, historyVars
  <2> QED
    BY <2>2, <2>3
<1>3. ASSUME NEW c \in Callers, OpenCacheFile(c) PROVE Control'
  BY <1>3 DEF OpenCacheFile, Goto, diskVars, historyVars
<1>4. ASSUME NEW c \in Callers, RestoreMetaFromCache(c) PROVE Control'
  <2>1. pc[c] = "restore" /\ fd[c] \in Inodes
    BY <1>4 DEF RestoreMetaFromCache
  <2>2. content[fd[c]][1] \in Writes \cup {None}
    BY <2>1 DEF Places
  <2>3. Decoded(c, content[fd[c]]) \subseteq Versions \cup {None, Garbled}
    BY <2>2 DEF Decoded, Writes
  <2>4. PICK v \in Versions \cup {None, Garbled} :
          IF v = None
          THEN Goto(c, "remove") /\ UNCHANGED callVars
          ELSE /\ symbols' = [symbols EXCEPT ![c] = v]
               /\ Goto(c, "updateHit")
               /\ UNCHANGED <<given, hash, fd, pos>>
    BY <1>4, <2>3 DEF RestoreMetaFromCache
  <2>5. TypeOK'
    BY <1>4, <2>4 DEF RestoreMetaFromCache, Goto, callVars, diskVars, historyVars
  <2>6. CallersOK'
    BY <1>4, <2>1, <2>4 DEF RestoreMetaFromCache, Goto, callVars
  <2> QED
    BY <2>5, <2>6
<1>5. ASSUME NEW c \in Callers, RemoveCacheFile(c) PROVE Control'
  BY <1>5 DEF RemoveCacheFile, Goto, historyVars
<1>6. ASSUME NEW c \in Callers, ParseContents(c) PROVE Control'
  <2>1. Contents(c) \in Sources
    BY DEF Contents
  <2>2. CASE Contents(c) \in Broken \cup {Absent}
    <3>1. Return(c) /\ UNCHANGED historyVars
      BY <1>6, <2>2 DEF ParseContents
    <3> QED
      BY <1>6, <3>1, ReturnControl DEF ParseContents, diskVars, historyVars
  <2>3. CASE Contents(c) \notin Broken \cup {Absent}
    <3>1. stale' \subseteq Versions
      BY <1>6, <2>3 DEF ParseContents
    <3>2. TypeOK'
      BY <1>6, <2>1, <2>3, <3>1 DEF ParseContents, Goto, diskVars
    <3>3. CallersOK'
      BY <1>6, <2>1, <2>3 DEF ParseContents, Goto
    <3> QED
      BY <3>2, <3>3
  <2> QED
    BY <2>2, <2>3
<1>7. ASSUME NEW c \in Callers, CreateTmpFile(c) PROVE Control'
  <2>1. pc[c] = "create" /\ hash[c] \in Versions
    BY <1>7 DEF CreateTmpFile
  <2>2. PICK i \in Inodes :
          /\ fd' = [fd EXCEPT ![c] = i]
          /\ tmp' = [tmp EXCEPT ![hash[c]] = i]
          /\ content' = [content EXCEPT ![i] = Empty]
    <3>1. (IF tmp[hash[c]] # None THEN {tmp[hash[c]]} ELSE Unused) \subseteq Inodes
      BY <2>1 DEF Unused
    <3> QED
      BY <1>7, <3>1 DEF CreateTmpFile
  <2>3. contended' \subseteq Versions /\ crashed' \subseteq Versions
    BY <1>7, <2>1 DEF CreateTmpFile
  <2>4. TypeOK'
    <3>1. content' \in [Inodes -> [Places -> Writes \cup {None}]]
      BY <2>2 DEF Empty
    <3>2. /\ fd' \in [Callers -> Inodes \cup {None}]
          /\ tmp' \in [Versions -> Inodes \cup {None}]
      BY <2>1, <2>2
    <3> QED
      BY <1>7, <2>3, <3>1, <3>2 DEF CreateTmpFile, Goto
  <2>5. CallersOK'
    BY <1>7, <2>1, <2>2 DEF CreateTmpFile, Goto
  <2> QED
    BY <2>4, <2>5
<1>8. ASSUME NEW c \in Callers, WriteMetaCache(c) PROVE Control'
  <2>1. pc[c] = "write" /\ fd[c] \in Inodes /\ symbols[c] \in Versions
    BY <1>8 DEF WriteMetaCache
  <2>2. [by |-> c, build |-> Build[c], of |-> symbols[c]] \in Writes
    BY <2>1 DEF Writes
  <2>3. content' \in [Inodes -> [Places -> Writes \cup {None}]]
    BY <1>8, <2>1, <2>2 DEF WriteMetaCache
  <2>4. TypeOK'
    BY <1>8, <2>3 DEF WriteMetaCache, Goto, historyVars
  <2>5. pos[c] + 1 \in Nat /\ pos[c] + 1 <= Size[symbols[c]]
    BY <2>1
  <2>6. CallersOK'
    <3>1. CASE pos[c] + 1 = Size[symbols[c]]
      BY <1>8, <2>1, <3>1 DEF WriteMetaCache, Goto
    <3>2. CASE pos[c] + 1 < Size[symbols[c]]
      BY <1>8, <2>1, <3>2 DEF WriteMetaCache, Goto
    <3> QED
      BY <2>1, <2>5, <3>1, <3>2
  <2> QED
    BY <2>4, <2>6
<1>9. ASSUME NEW c \in Callers, WriteFails(c) PROVE Control'
  BY <1>9 DEF WriteFails, Goto, callVars, diskVars, historyVars
<1>10. ASSUME NEW c \in Callers, RenameTmpFile(c) PROVE Control'
  <2>1. pc[c] = "rename" /\ hash[c] \in Versions
    BY <1>10 DEF RenameTmpFile
  <2>2. /\ entry' \in [Versions -> Inodes \cup {None}]
        /\ tmp' \in [Versions -> Inodes \cup {None}]
        /\ pc' \in [Callers -> Labels]
    <3>1. CASE tmp[hash[c]] = None
      BY <1>10, <3>1 DEF RenameTmpFile, Goto
    <3>2. CASE tmp[hash[c]] # None
      <4>1. /\ entry' = [entry EXCEPT ![hash[c]] = tmp[hash[c]]]
            /\ tmp' = [tmp EXCEPT ![hash[c]] = None]
            /\ pc' = [pc EXCEPT ![c] = "update"]
        BY <1>10, <3>2 DEF RenameTmpFile, Goto
      <4> QED
        BY <2>1, <4>1
    <3> QED
      BY <3>1, <3>2
  <2>3. TypeOK'
    BY <1>10, <2>2 DEF RenameTmpFile, callVars, historyVars
  <2>4. CallersOK'
    BY <1>10, <2>1 DEF RenameTmpFile, Goto, callVars
  <2> QED
    BY <2>3, <2>4
<1>11. ASSUME NEW c \in Callers, UpdateMetaInfo(c) PROVE Control'
  <2>1. CASE pc[c] = "update"
    BY <1>11, <2>1 DEF UpdateMetaInfo, Goto, callVars, diskVars, historyVars
  <2>2. CASE pc[c] = "updateHit"
    BY <1>11, <2>2, ReturnControl DEF UpdateMetaInfo, diskVars, historyVars
  <2> QED
    BY <1>11, <2>1, <2>2 DEF UpdateMetaInfo
<1>12. ASSUME NEW c \in Callers, RemoveTmpFile(c) PROVE Control'
  BY <1>12, ReturnControl DEF RemoveTmpFile, historyVars
<1>13. ASSUME NEW c \in Callers, Crash(c) PROVE Control'
  <2>1. crashed' \subseteq Versions
    BY <1>13 DEF Crash
  <2>2. faults' \in 0..MaxFaults
    BY <1>13 DEF Crash
  <2> QED
    BY <1>13, <2>1, <2>2, ReturnControl DEF Crash, diskVars
<1>14. ASSUME NEW v \in Sources, Edit(v) PROVE Control'
  BY <1>14 DEF Edit, callVars, diskVars, historyVars
<1>15. CASE UNCHANGED vars
  BY <1>15 DEF vars
<1> QED
  BY <1>1, <1>2, <1>3, <1>4, <1>5, <1>6, <1>7, <1>8, <1>9, <1>10, <1>11,
     <1>12, <1>13, <1>14, <1>15 DEF Next, CallerStep

(* Every variable keeps its type.                                          *)
THEOREM CacheTypeCorrect == Spec => []TypeOK
<1>1. Control => TypeOK
  BY DEF Control
<1> QED
  BY <1>1, ControlInit, ControlStep, PTL DEF Spec

-----------------------------------------------------------------------------
(* Names of different hashes stand for different inodes, and so do callers *)
(* at different hashes; a caller that reads has another inode than the     *)
(* temporary file.                                                         *)
NamesApart ==
    /\ \A h \in Versions : entry[h] # None => entry[h] # tmp[h]
    /\ \A g, h \in Versions : g # h =>
         /\ entry[g] # None => entry[g] # entry[h] /\ entry[g] # tmp[h]
         /\ tmp[g] # None => tmp[g] # tmp[h]
FilesApart ==
    /\ \A c \in Callers, h \in Versions :
         fd[c] # None /\ hash[c] # h => fd[c] # entry[h] /\ fd[c] # tmp[h]
    /\ \A c, d \in Callers :
         fd[c] # None /\ fd[c] = fd[d] => hash[c] = hash[d]
    /\ \A c \in Callers : pc[c] = "restore" => fd[c] # tmp[hash[c]]
Apart == NamesApart /\ FilesApart

LEMMA ApartInit == Init => Apart
  BY DEF Init, Apart, NamesApart, FilesApart

(* Nothing comes together when callers give up their inodes and names are  *)
(* removed.                                                                *)
LEMMA ApartLess ==
    ASSUME Control, Apart,
           \A h \in Versions :
             /\ entry'[h] \in {entry[h], None}
             /\ tmp'[h] \in {tmp[h], None},
           \A c \in Callers :
             /\ fd'[c] # None => fd'[c] = fd[c] /\ hash'[c] = hash[c]
             /\ pc'[c] = "restore" => pc[c] = "restore" /\ fd'[c] # None
    PROVE  Apart'
<1>1. NamesApart'
  BY DEF Apart, NamesApart
<1>2. ASSUME NEW c \in Callers, NEW h \in Versions, fd'[c] # None, hash'[c] # h
      PROVE  fd'[c] # entry'[h] /\ fd'[c] # tmp'[h]
  <2>1. fd[c] # None /\ hash[c] # h /\ fd'[c] = fd[c]
    BY <1>2
  <2>2. fd[c] # entry[h] /\ fd[c] # tmp[h]
    BY <2>1 DEF Apart, FilesApart
  <2> QED
    BY <2>1, <2>2
<1>3. ASSUME NEW c \in Callers, NEW d \in Callers, fd'[c] # None, fd'[c] = fd'[d]
      PROVE  hash'[c] = hash'[d]
  <2>1. fd[c] # None /\ fd[c] = fd[d] /\ hash'[c] = hash[c] /\ hash'[d] = hash[d]
    BY <1>3
  <2> QED
    BY <2>1 DEF Apart, FilesApart
<1>4. ASSUME NEW c \in Callers, pc'[c] = "restore"
      PROVE  fd'[c] # tmp'[hash'[c]]
  <2>1. pc[c] = "restore" /\ fd'[c] # None /\ fd'[c] = fd[c] /\ hash'[c] = hash[c]
    BY <1>4
  <2>2. hash[c] \in Versions /\ fd[c] # tmp[hash[c]]
    BY <2>1 DEF Control, CallersOK, Apart, FilesApart
  <2> QED
    BY <2>1, <2>2
<1> QED
  BY <1>1, <1>2, <1>3, <1>4 DEF Apart, FilesApart

LEMMA ApartStep == Control /\ Apart /\ [Next]_vars => Apart'
<1> SUFFICES ASSUME Control, Apart, [Next]_vars PROVE Apart'
  OBVIOUS
<1> USE DEF Control, TypeOK, CallersOK
<1>1. ASSUME NEW c \in Callers, NEW contents \in Committed \cup {None},
             IndexFile(c, contents)
      PROVE  Apart'
  BY <1>1, ApartLess DEF IndexFile, Goto, diskVars
<1>2. ASSUME NEW c \in Callers, HashContents(c) PROVE Apart'
  <2>1. pc[c] = "hash" /\ fd[c] = None
    BY <1>2 DEF HashContents
  <2> QED
    BY <1>2, <2>1, ApartLess DEF HashContents, Return, Goto, diskVars
<1>3. ASSUME NEW c \in Callers, OpenCacheFile(c) PROVE Apart'
  <2>1. hash[c] \in Versions
    BY <1>3 DEF OpenCacheFile
  <2>2. FilesApart'
    BY <1>3, <2>1 DEF OpenCacheFile, Goto, diskVars, Apart, NamesApart, FilesApart
  <2> QED
    BY <1>3, <2>2 DEF OpenCacheFile, diskVars, Apart, NamesApart
<1>4. ASSUME NEW c \in Callers, RestoreMetaFromCache(c) PROVE Apart'
  <2>1. /\ UNCHANGED <<entry, tmp, fd, hash>>
        /\ \/ pc' = [pc EXCEPT ![c] = "remove"]
           \/ pc' = [pc EXCEPT ![c] = "updateHit"]
    BY <1>4 DEF RestoreMetaFromCache, Goto, callVars, diskVars
  <2> QED
    BY <2>1, ApartLess DEF Labels
<1>5. ASSUME NEW c \in Callers, RemoveCacheFile(c) PROVE Apart'
  BY <1>5, ApartLess DEF RemoveCacheFile, Goto
<1>6. ASSUME NEW c \in Callers, ParseContents(c) PROVE Apart'
  <2>1. UNCHANGED <<entry, tmp>>
    BY <1>6 DEF ParseContents, diskVars
  <2>2. CASE Return(c)
    <3>1. \A d \in Callers : pc'[d] = "restore" => pc[d] = "restore" /\ d # c
      BY <1>6, <2>2 DEF Return, Goto
    <3> QED
      BY <2>1, <2>2, <3>1, ApartLess DEF Return
  <2>3. CASE Goto(c, "create") /\ UNCHANGED <<hash, fd>>
    BY <2>1, <2>3, ApartLess DEF Goto
  <2> QED
    BY <1>6, <2>2, <2>3 DEF ParseContents
<1>7. ASSUME NEW c \in Callers, CreateTmpFile(c) PROVE Apart'
  <2>1. pc[c] = "create" /\ hash[c] \in Versions
    BY <1>7 DEF CreateTmpFile
  <2>2. (IF tmp[hash[c]] # None THEN {tmp[hash[c]]} ELSE Unused) \subseteq Inodes
    BY <2>1 DEF Unused
  <2>3. PICK i \in Inodes :
          /\ tmp[hash[c]] # None => i = tmp[hash[c]]
          /\ tmp[hash[c]] = None => i \in Unused
          /\ fd' = [fd EXCEPT ![c] = i]
          /\ tmp' = [tmp EXCEPT ![hash[c]] = i]
    BY <1>7, <2>2 DEF CreateTmpFile
  <2>4. /\ pc' = [pc EXCEPT ![c] = "write"]
        /\ UNCHANGED <<entry, hash>>
    BY <1>7 DEF CreateTmpFile, Goto
  <2>5. /\ \A h \in Versions : i # entry[h] /\ (h # hash[c] => i # tmp[h])
        /\ \A d \in Callers : i = fd[d] => hash[d] = hash[c] /\ pc[d] # "restore"
    BY <2>1, <2>3 DEF Unused, InUse, Apart, NamesApart, FilesApart
  <2>6. NamesApart'
    BY <2>1, <2>3, <2>4, <2>5 DEF Apart, NamesApart
  <2>7. FilesApart'
    BY <2>1, <2>3, <2>4, <2>5 DEF Apart, FilesApart
  <2> QED
    BY <2>6, <2>7 DEF Apart
<1>8. ASSUME NEW c \in Callers, WriteMetaCache(c) PROVE Apart'
  BY <1>8, ApartLess DEF WriteMetaCache, Goto
<1>9. ASSUME NEW c \in Callers, WriteFails(c) PROVE Apart'
  BY <1>9, ApartLess DEF WriteFails, Goto, callVars, diskVars
<1>10. ASSUME NEW c \in Callers, RenameTmpFile(c) PROVE Apart'
  <2>1. hash[c] \in Versions
    BY <1>10 DEF RenameTmpFile
  <2>2. CASE tmp[hash[c]] = None
    BY <1>10, <2>2, ApartLess DEF RenameTmpFile, Goto, callVars
  <2>3. CASE tmp[hash[c]] # None
    <3>1. /\ entry' = [entry EXCEPT ![hash[c]] = tmp[hash[c]]]
          /\ tmp' = [tmp EXCEPT ![hash[c]] = None]
          /\ pc' = [pc EXCEPT ![c] = "update"]
          /\ UNCHANGED <<fd, hash>>
      BY <1>10, <2>3 DEF RenameTmpFile, Goto, callVars
    <3>2. NamesApart'
      BY <2>1, <3>1 DEF Apart, NamesApart
    <3>3. FilesApart'
      BY <2>1, <3>1 DEF Apart, FilesApart
    <3> QED
      BY <3>2, <3>3 DEF Apart
  <2> QED
    BY <2>2, <2>3
<1>11. ASSUME NEW c \in Callers, UpdateMetaInfo(c) PROVE Apart'
  BY <1>11, ApartLess DEF UpdateMetaInfo, Return, Goto, callVars, diskVars
<1>12. ASSUME NEW c \in Callers, RemoveTmpFile(c) PROVE Apart'
  BY <1>12, ApartLess DEF RemoveTmpFile, Return, Goto
<1>13. ASSUME NEW c \in Callers, Crash(c) PROVE Apart'
  BY <1>13, ApartLess DEF Crash, Return, Goto, diskVars
<1>14. ASSUME NEW v \in Sources, Edit(v) PROVE Apart'
  BY <1>14, ApartLess DEF Edit, callVars, diskVars
<1>15. CASE UNCHANGED vars
  BY <1>15, ApartLess DEF vars
<1> QED
  BY <1>1, <1>2, <1>3, <1>4, <1>5, <1>6, <1>7, <1>8, <1>9, <1>10, <1>11,
     <1>12, <1>13, <1>14, <1>15 DEF Next, CallerStep

-----------------------------------------------------------------------------
(* A temporary file has a caller, unless one died: this needs no more than *)
(* the control.                                                            *)
LEMMA RemovedStep == Control /\ TmpIsRemoved /\ [Next]_vars => TmpIsRemoved'
<1> SUFFICES ASSUME Control, TmpIsRemoved, [Next]_vars,
                    NEW h \in Versions, tmp'[h] # None, h \notin crashed'
             PROVE  \E c \in Callers : pc'[c] \in Writing /\ hash'[c] = h
  BY DEF TmpIsRemoved, Writers
<1> USE DEF Control, TypeOK
<1>1. ASSUME tmp[h] # None, h \notin crashed
      PROVE  \E c \in Callers : pc[c] \in Writing /\ hash[c] = h
  BY <1>1 DEF TmpIsRemoved, Writers
<1>2. ASSUME tmp' = tmp, crashed' = crashed,
             \A c \in Callers : pc[c] \in Writing => pc'[c] \in Writing /\ hash'[c] = hash[c]
      PROVE  \E c \in Callers : pc'[c] \in Writing /\ hash'[c] = h
  BY <1>1, <1>2
<1>3. ASSUME NEW c \in Callers, NEW contents \in Committed \cup {None},
             IndexFile(c, contents)
      PROVE  \E d \in Callers : pc'[d] \in Writing /\ hash'[d] = h
  BY <1>2, <1>3 DEF IndexFile, Goto, diskVars, historyVars, Writing
<1>4. ASSUME NEW c \in Callers, HashContents(c)
      PROVE  \E d \in Callers : pc'[d] \in Writing /\ hash'[d] = h
  BY <1>2, <1>4 DEF HashContents, Return, Goto, diskVars, historyVars, Writing
<1>5. ASSUME NEW c \in Callers,
             OpenCacheFile(c) \/ RestoreMetaFromCache(c) \/ RemoveCacheFile(c)
      PROVE  \E d \in Callers : pc'[d] \in Writing /\ hash'[d] = h
  BY <1>2, <1>5 DEF OpenCacheFile, RestoreMetaFromCache, RemoveCacheFile, Goto,
                    callVars, diskVars, historyVars, Writing
<1>6. ASSUME NEW c \in Callers, ParseContents(c)
      PROVE  \E d \in Callers : pc'[d] \in Writing /\ hash'[d] = h
  BY <1>2, <1>6 DEF ParseContents, Return, Goto, diskVars, historyVars, Writing
<1>7. ASSUME NEW c \in Callers, CreateTmpFile(c)
      PROVE  \E d \in Callers : pc'[d] \in Writing /\ hash'[d] = h
  <2>1. CASE hash[c] = h
    BY <1>7, <2>1 DEF CreateTmpFile, Goto, Writing
  <2>2. CASE hash[c] # h
    <3>1. tmp'[h] = tmp[h] /\ h \notin crashed
      BY <1>7, <2>2 DEF CreateTmpFile
    <3> QED
      BY <1>1, <1>7, <3>1 DEF CreateTmpFile, Goto, Writing
  <2> QED
    BY <2>1, <2>2
<1>8. ASSUME NEW c \in Callers, WriteMetaCache(c) \/ WriteFails(c)
      PROVE  \E d \in Callers : pc'[d] \in Writing /\ hash'[d] = h
  BY <1>2, <1>8 DEF WriteMetaCache, WriteFails, Goto, callVars, diskVars,
                    historyVars, Writing
<1>9. ASSUME NEW c \in Callers, RenameTmpFile(c)
      PROVE  \E d \in Callers : pc'[d] \in Writing /\ hash'[d] = h
  <2>1. tmp[h] # None /\ crashed' = crashed /\ hash' = hash
    BY <1>9 DEF RenameTmpFile, callVars, historyVars
  <2>2. /\ pc[c] \in Writing
        /\ \/ pc' = [pc EXCEPT ![c] = "cleanup"]
           \/ pc' = [pc EXCEPT ![c] = "update"]
    BY <1>9 DEF RenameTmpFile, Goto, Writing
  <2> QED
    BY <1>1, <2>1, <2>2 DEF Writing
<1>10. ASSUME NEW c \in Callers, UpdateMetaInfo(c)
       PROVE  \E d \in Callers : pc'[d] \in Writing /\ hash'[d] = h
  BY <1>2, <1>10 DEF UpdateMetaInfo, Return, Goto, callVars, diskVars,
                     historyVars, Writing
<1>11. ASSUME NEW c \in Callers, RemoveTmpFile(c)
       PROVE  \E d \in Callers : pc'[d] \in Writing /\ hash'[d] = h
  <2>1. hash[c] # h /\ tmp[h] # None /\ crashed' = crashed
    BY <1>11 DEF RemoveTmpFile, historyVars
  <2>2. PICK d \in Callers : pc[d] \in Writing /\ hash[d] = h
    BY <1>1, <2>1
  <2>3. d # c /\ pc'[d] = pc[d] /\ hash'[d] = hash[d]
    BY <1>11, <2>1, <2>2 DEF RemoveTmpFile, Return, Goto
  <2> QED
    BY <2>2, <2>3
<1>12. ASSUME NEW c \in Callers, Crash(c)
       PROVE  \E d \in Callers : pc'[d] \in Writing /\ hash'[d] = h
  <2>1. /\ tmp' = tmp /\ crashed \subseteq crashed'
        /\ pc[c] \in Writing => hash[c] \in crashed'
    BY <1>12 DEF Crash, diskVars
  <2>2. PICK d \in Callers : pc[d] \in Writing /\ hash[d] = h
    BY <1>1, <2>1
  <2>3. d # c /\ pc'[d] = pc[d] /\ hash'[d] = hash[d]
    BY <1>12, <2>1, <2>2 DEF Crash, Return, Goto
  <2> QED
    BY <2>2, <2>3
<1>13. ASSUME NEW v \in Sources, Edit(v)
       PROVE  \E d \in Callers : pc'[d] \in Writing /\ hash'[d] = h
  BY <1>2, <1>13 DEF Edit, callVars, diskVars, historyVars
<1>14. ASSUME UNCHANGED vars
       PROVE  \E d \in Callers : pc'[d] \in Writing /\ hash'[d] = h
  BY <1>2, <1>14 DEF vars
<1> QED
  BY <1>3, <1>4, <1>5, <1>6, <1>7, <1>8, <1>9, <1>10, <1>11, <1>12, <1>13,
     <1>14 DEF Next, CallerStep

(* The cache directory does not fill up with temporary files.              *)
THEOREM TemporaryFilesRemoved == Spec => []TmpIsRemoved
<1>1. Init => TmpIsRemoved
  BY DEF Init, TmpIsRemoved
<1> QED
  BY <1>1, ControlInit, ControlStep, RemovedStep, PTL DEF Spec

-----------------------------------------------------------------------------
(* A caller between the creation of the temporary file and its renaming,   *)
(* whose hash is not contended, has it to itself.                          *)
WritersAlone ==
    \A c \in Callers :
      pc[c] \in {"write", "rename"} /\ hash[c] \notin contended =>
        /\ tmp[hash[c]] = fd[c]
        /\ \A d \in Callers \ {c} : ~(pc[d] \in Writing /\ hash[d] = hash[c])

LEMMA AloneLess ==
    ASSUME Control, WritersAlone, tmp' = tmp, contended' = contended,
           \A c \in Callers :
             /\ pc'[c] \in {"write", "rename"}
                  => pc[c] \in {"write", "rename"} /\ fd'[c] = fd[c]
             /\ pc'[c] \in Writing => pc[c] \in Writing /\ hash'[c] = hash[c]
    PROVE  WritersAlone'
<1> SUFFICES ASSUME NEW c \in Callers,
                    pc'[c] \in {"write", "rename"}, hash'[c] \notin contended'
             PROVE  /\ tmp'[hash'[c]] = fd'[c]
                    /\ \A d \in Callers \ {c} :
                         ~(pc'[d] \in Writing /\ hash'[d] = hash'[c])
  BY DEF WritersAlone
<1>1. pc[c] \in {"write", "rename"} /\ fd'[c] = fd[c] /\ hash'[c] = hash[c]
  BY DEF Writing
<1>2. tmp[hash[c]] = fd[c]
  BY <1>1 DEF WritersAlone
<1>3. ASSUME NEW d \in Callers \ {c}
      PROVE  ~(pc'[d] \in Writing /\ hash'[d] = hash'[c])
  BY <1>1 DEF WritersAlone
<1> QED
  BY <1>1, <1>2, <1>3

LEMMA AloneStep == Control /\ WritersAlone /\ [Next]_vars => WritersAlone'
<1> SUFFICES ASSUME Control, WritersAlone, [Next]_vars PROVE WritersAlone'
  OBVIOUS
<1> USE DEF Control, TypeOK
<1>1. ASSUME NEW c \in Callers, NEW contents \in Committed \cup {None},
             IndexFile(c, contents)
      PROVE  WritersAlone'
  BY <1>1, AloneLess DEF IndexFile, Goto, diskVars, historyVars, Writing
<1>2. ASSUME NEW c \in Callers, HashContents(c) PROVE WritersAlone'
  BY <1>2, AloneLess DEF HashContents, Return, Goto, diskVars, historyVars, Writing
<1>3. ASSUME NEW c \in Callers,
             OpenCacheFile(c) \/ RestoreMetaFromCache(c) \/ RemoveCacheFile(c)
      PROVE  WritersAlone'
  BY <1>3, AloneLess DEF OpenCacheFile, RestoreMetaFromCache, RemoveCacheFile, Goto,
                    callVars, diskVars, historyVars, Writing
<1>4. ASSUME NEW c \in Callers, ParseContents(c) PROVE WritersAlone'
  BY <1>4, AloneLess DEF ParseContents, Return, Goto, diskVars, historyVars, Writing
<1>5. ASSUME NEW c \in Callers, CreateTmpFile(c) PROVE WritersAlone'
  <2>1. /\ pc[c] = "create" /\ hash[c] \in Versions
        /\ pc' = [pc EXCEPT ![c] = "write"] /\ hash' = hash
    BY <1>5 DEF CreateTmpFile, Goto, CallersOK
  <2>2. PICK i : /\ fd' = [fd EXCEPT ![c] = i]
                 /\ tmp' = [tmp EXCEPT ![hash[c]] = i]
    BY <1>5 DEF CreateTmpFile
  <2>3. /\ contended \subseteq contended'
        /\ hash[c] \notin contended' => Writers(hash[c]) = {}
    BY <1>5 DEF CreateTmpFile
  <2>4. ASSUME NEW d \in Callers, hash[d] = hash[c], hash[d] \notin contended',
               pc'[d] \in Writing
        PROVE  d = c
    BY <2>1, <2>3, <2>4 DEF Writers
  <2>5. ASSUME NEW d \in Callers, hash[d] # hash[c], hash[d] \notin contended',
               pc'[d] \in {"write", "rename"}
        PROVE  /\ tmp'[hash[d]] = fd'[d]
               /\ \A e \in Callers \ {d} :
                    ~(pc'[e] \in Writing /\ hash[e] = hash[d])
    <3>1. /\ pc[d] \in {"write", "rename"} /\ fd'[d] = fd[d]
          /\ hash[d] \notin contended /\ hash[d] \in Versions
      BY <2>1, <2>2, <2>3, <2>5 DEF CallersOK
    <3>2. /\ tmp[hash[d]] = fd[d]
          /\ \A e \in Callers \ {d} : ~(pc[e] \in Writing /\ hash[e] = hash[d])
      BY <3>1 DEF WritersAlone
    <3> QED
      BY <2>1, <2>2, <2>5, <3>1, <3>2
  <2>6. tmp'[hash[c]] = fd'[c]
    BY <2>1, <2>2
  <2> QED
    BY <2>1, <2>4, <2>5, <2>6 DEF WritersAlone, Writing
<1>6. ASSUME NEW c \in Callers, WriteMetaCache(c) \/ WriteFails(c)
      PROVE  WritersAlone'
  BY <1>6, AloneLess DEF WriteMetaCache, WriteFails, Goto, callVars, diskVars,
                    historyVars, Writing
<1>7. ASSUME NEW c \in Callers, RenameTmpFile(c) \/ RemoveTmpFile(c)
      PROVE  WritersAlone'
  <2>1. /\ pc[c] \in Writing /\ pc'[c] \notin {"write", "rename"}
        /\ \A d \in Callers \ {c} :
             pc'[d] = pc[d] /\ fd'[d] = fd[d] /\ hash'[d] = hash[d]
        /\ pc'[c] \in Writing => hash'[c] = hash[c]
        /\ contended' = contended
    BY <1>7 DEF RenameTmpFile, RemoveTmpFile, Return, Goto, callVars, historyVars, Writing
  <2>2. \A h \in Versions : h # hash[c] => tmp'[h] = tmp[h]
    BY <1>7 DEF RenameTmpFile, RemoveTmpFile
  <2> SUFFICES ASSUME NEW d \in Callers,
                      pc'[d] \in {"write", "rename"}, hash'[d] \notin contended'
               PROVE  /\ tmp'[hash'[d]] = fd'[d]
                      /\ \A e \in Callers \ {d} :
                           ~(pc'[e] \in Writing /\ hash'[e] = hash'[d])
    BY DEF WritersAlone
  <2>3. d # c /\ pc[d] \in {"write", "rename"} /\ hash'[d] = hash[d] /\ fd'[d] = fd[d]
    BY <2>1
  <2>4. /\ tmp[hash[d]] = fd[d]
        /\ \A e \in Callers \ {d} : ~(pc[e] \in Writing /\ hash[e] = hash[d])
    BY <2>1, <2>3 DEF WritersAlone
  <2>5. hash[d] \in Versions /\ hash[d] # hash[c]
    BY <2>1, <2>3, <2>4 DEF CallersOK
  <2> QED
    BY <2>1, <2>2, <2>3, <2>4, <2>5
<1>8. ASSUME NEW c \in Callers, UpdateMetaInfo(c) PROVE WritersAlone'
  BY <1>8, AloneLess DEF UpdateMetaInfo, Return, Goto, callVars, diskVars,
                     historyVars, Writing
<1>9. ASSUME NEW c \in Callers, Crash(c) PROVE WritersAlone'
  BY <1>9, AloneLess DEF Crash, Return, Goto, diskVars, Writing
<1>10. ASSUME NEW v \in Sources, Edit(v) PROVE WritersAlone'
  BY <1>10, AloneLess DEF Edit, callVars, diskVars, historyVars
<1>11. CASE UNCHANGED vars
  BY <1>11, AloneLess DEF vars
<1> QED
  BY <1>1, <1>2, <1>3, <1>4, <1>5, <1>6, <1>7, <1>8, <1>9, <1>10, <1>11
  DEF Next, CallerStep

(* updateMetaInfo is left out only when another caller took the temporary  *)
(* file away.                                                              *)
THEOREM LossNeedsContention == Spec => []LostOnlyWhenContended
<1>1. Init => WritersAlone
  BY DEF Init, WritersAlone
<1>2. Control /\ WritersAlone => LostOnlyWhenContended
  BY DEF Control, CallersOK, WritersAlone, LostOnlyWhenContended
<1> QED
  BY <1>1, <1>2, ControlInit, ControlStep, AloneStep, PTL DEF Spec

-----------------------------------------------------------------------------
(* A caller has the symbols of its hash, unless the file was edited        *)
(* between the two reads; an uncontended temporary file holds what its     *)
(* caller wrote; and what is in a cache file, or was when a caller opened  *)
(* it, is a whole encoding.                                                *)
SymbolsRight ==
    \A c \in Callers :
      pc[c] \in {"create", "write", "rename"} /\ hash[c] \notin stale
        => symbols[c] = hash[c]
WrittenRight ==
    \A c \in Callers :
      pc[c] \in {"write", "rename"} /\ hash[c] \notin contended =>
        \A k \in 1..pos[c] :
          content[fd[c]][k] = [by |-> c, build |-> Build[c], of |-> symbols[c]]
FilesRight ==
    \A h \in Versions \ (contended \cup stale) :
      entry[h] # None => Right(h, content[entry[h]])
ReadRight ==
    \A c \in Callers :
      hash[c] \notin contended \cup stale =>
        /\ pc[c] = "restore" => Right(hash[c], content[fd[c]])
        /\ pc[c] = "updateHit" => symbols[c] = hash[c]
Texts == SymbolsRight /\ WrittenRight /\ FilesRight /\ ReadRight

(* Texts stay right while nobody writes, creates, opens or renames.        *)
LEMMA TextsLess ==
    ASSUME Control, Texts, content' = content,
           contended' = contended, stale \subseteq stale',
           \A h \in Versions : entry'[h] \in {entry[h], None},
           \A c \in Callers :
             /\ pc'[c] \in {"restore", "updateHit", "create", "write", "rename"}
                  => UNCHANGED <<pc[c], hash[c], symbols[c], fd[c], pos[c]>>
    PROVE  Texts'
<1>1. SymbolsRight'
  BY DEF Texts, SymbolsRight
<1>2. WrittenRight'
  BY DEF Texts, WrittenRight
<1>3. FilesRight'
  BY DEF Texts, FilesRight, Right, Whole
<1>4. ReadRight'
  BY DEF Texts, ReadRight, Right, Whole
<1> QED
  BY <1>1, <1>2, <1>3, <1>4 DEF Texts

LEMMA TextsStep ==
    Control /\ Apart /\ WritersAlone /\ Texts /\ [Next]_vars => Texts'
<1> SUFFICES ASSUME Control, Apart, WritersAlone, Texts, [Next]_vars PROVE Texts'
  OBVIOUS
<1> USE DEF Control, TypeOK
<1>1. ASSUME NEW c \in Callers, NEW contents \in Committed \cup {None},
             IndexFile(c, contents)
      PROVE  Texts'
  BY <1>1, TextsLess DEF IndexFile, Goto, diskVars, historyVars
<1>2. ASSUME NEW c \in Callers, HashContents(c) PROVE Texts'
  BY <1>2, TextsLess DEF HashContents, Return, Goto, diskVars, historyVars
<1>3. ASSUME NEW c \in Callers, OpenCacheFile(c) PROVE Texts'
  <2>1. /\ pc[c] = "open" /\ hash[c] \in Versions
        /\ fd' = [fd EXCEPT ![c] = entry[hash[c]]]
        /\ pc' = [pc EXCEPT ![c] = IF entry[hash[c]] = None THEN "parse" ELSE "restore"]
        /\ UNCHANGED <<entry, content, hash, symbols, pos, contended, stale>>
    BY <1>3 DEF OpenCacheFile, Goto, CallersOK, diskVars, historyVars
  <2>2. SymbolsRight' /\ WrittenRight'
    BY <2>1 DEF Texts, SymbolsRight, WrittenRight
  <2>3. FilesRight'
    BY <2>1 DEF Texts, FilesRight, Right, Whole
  <2>4. ASSUME NEW d \in Callers, hash'[d] \notin contended' \cup stale'
        PROVE  /\ pc'[d] = "restore" => Right(hash'[d], content'[fd'[d]])
               /\ pc'[d] = "updateHit" => symbols'[d] = hash'[d]
    <3>1. CASE d # c
      BY <2>1, <2>4, <3>1 DEF Texts, ReadRight, Right, Whole
    <3>2. CASE d = c
      BY <2>1, <2>4, <3>2 DEF Texts, FilesRight, Right, Whole
    <3> QED
      BY <3>1, <3>2
  <2>5. ReadRight'
    BY <2>4 DEF ReadRight, Right, Whole
  <2> QED
    BY <2>2, <2>3, <2>5 DEF Texts
<1>4. ASSUME NEW c \in Callers, RestoreMetaFromCache(c) PROVE Texts'
  <2>1. PICK v \in Decoded(c, content[fd[c]]) :
          IF v = None
          THEN Goto(c, "remove") /\ UNCHANGED callVars
          ELSE /\ symbols' = [symbols EXCEPT ![c] = v]
               /\ Goto(c, "updateHit")
               /\ UNCHANGED <<given, hash, fd, pos>>
    BY <1>4 DEF RestoreMetaFromCache
  <2>2. CASE v = None
    BY <1>4, <2>1, <2>2, TextsLess
    DEF RestoreMetaFromCache, Goto, callVars, diskVars, historyVars
  <2>3. CASE v # None
    <3>1. /\ pc[c] = "restore" /\ pc' = [pc EXCEPT ![c] = "updateHit"]
          /\ symbols' = [symbols EXCEPT ![c] = v]
          /\ UNCHANGED <<entry, content, hash, fd, pos, contended, stale>>
      BY <1>4, <2>1, <2>3 DEF RestoreMetaFromCache, Goto, diskVars, historyVars
    <3>2. SymbolsRight' /\ WrittenRight'
      BY <3>1 DEF Texts, SymbolsRight, WrittenRight
    <3>3. FilesRight'
      BY <3>1 DEF Texts, FilesRight, Right, Whole
    <3>4. hash[c] \notin contended \cup stale => v = hash[c]
      BY <2>1, <2>3, <3>1 DEF Texts, ReadRight, Right, Decoded
    <3>5. ReadRight'
      BY <3>1, <3>4 DEF Texts, ReadRight, Right, Whole
    <3> QED
      BY <3>2, <3>3, <3>5 DEF Texts
  <2> QED
    BY <2>2, <2>3
<1>5. ASSUME NEW c \in Callers, RemoveCacheFile(c) PROVE Texts'
  BY <1>5, TextsLess DEF RemoveCacheFile, Goto, historyVars
<1>6. ASSUME NEW c \in Callers, ParseContents(c) PROVE Texts'
  <2>1. CASE Contents(c) \in Broken \cup {Absent}
    BY <1>6, <2>1, TextsLess DEF ParseContents, Return, Goto, diskVars, historyVars
  <2>2. CASE Contents(c) \notin Broken \cup {Absent}
    <3>1. /\ pc' = [pc EXCEPT ![c] = "create"]
          /\ symbols' = [symbols EXCEPT ![c] = Contents(c)]
          /\ stale \subseteq stale'
          /\ hash[c] \notin stale' => Contents(c) = hash[c]
          /\ UNCHANGED <<entry, content, hash, fd, pos, contended>>
      BY <1>6, <2>2 DEF ParseContents, Goto, diskVars
    <3>2. SymbolsRight'
      BY <3>1 DEF Texts, SymbolsRight
    <3>3. WrittenRight'
      BY <3>1 DEF Texts, WrittenRight
    <3>4. FilesRight'
      BY <3>1 DEF Texts, FilesRight, Right, Whole
    <3>5. ReadRight'
      BY <3>1 DEF Texts, ReadRight, Right, Whole
    <3> QED
      BY <3>2, <3>3, <3>4, <3>5 DEF Texts
  <2> QED
    BY <2>1, <2>2
<1>7. ASSUME NEW c \in Callers, CreateTmpFile(c) PROVE Texts'
  <2>1. /\ pc[c] = "create" /\ hash[c] \in Versions
        /\ pc' = [pc EXCEPT ![c] = "write"] /\ pos[c] = 0
        /\ UNCHANGED <<entry, hash, symbols, pos, stale>>
    BY <1>7 DEF CreateTmpFile, Goto, CallersOK, Writing
  <2>2. (IF tmp[hash[c]] # None THEN {tmp[hash[c]]} ELSE Unused) \subseteq Inodes
    BY <2>1 DEF Unused
  <2>3. PICK i \in Inodes :
          /\ tmp[hash[c]] # None => i = tmp[hash[c]]
          /\ tmp[hash[c]] = None => i \in Unused
          /\ fd' = [fd EXCEPT ![c] = i]
          /\ content' = [content EXCEPT ![i] = Empty]
    BY <1>7, <2>2 DEF CreateTmpFile
  <2>4. /\ \A h \in Versions : i # entry[h]
        /\ \A d \in Callers : i = fd[d] => hash[d] = hash[c] /\ pc[d] # "restore"
    BY <2>1, <2>3, MetaCacheAssumption
    DEF Unused, InUse, Apart, NamesApart, FilesApart
  <2>5. /\ contended \subseteq contended'
        /\ hash[c] \notin contended' => Writers(hash[c]) = {}
    BY <1>7 DEF CreateTmpFile
  <2>6. SymbolsRight'
    BY <2>1 DEF Texts, SymbolsRight
  <2>7. ASSUME NEW d \in Callers, pc'[d] \in {"write", "rename"},
               hash[d] \notin contended', NEW k \in 1..pos[d]
        PROVE  content'[fd'[d]][k] = [by |-> d, build |-> Build[d], of |-> symbols[d]]
    <3>1. d # c
      BY <2>1, <2>7
    <3>2. pc[d] \in {"write", "rename"} /\ fd'[d] = fd[d] /\ hash[d] \notin contended
      BY <2>1, <2>3, <2>5, <2>7, <3>1
    <3>3. fd[d] # i
      BY <2>4, <2>5, <2>7, <3>2 DEF Writers, Writing
    <3>4. content'[fd[d]] = content[fd[d]]
      BY <2>3, <3>2, <3>3 DEF CallersOK
    <3> QED
      BY <2>7, <3>2, <3>4 DEF Texts, WrittenRight
  <2>8. WrittenRight'
    BY <2>1, <2>7 DEF WrittenRight
  <2>9. FilesRight'
    BY <2>1, <2>3, <2>4, <2>5 DEF Texts, FilesRight, Right, Whole
  <2>10. ReadRight'
    BY <2>1, <2>3, <2>4, <2>5 DEF Texts, ReadRight, Right, Whole
  <2> QED
    BY <2>6, <2>8, <2>9, <2>10 DEF Texts
<1>8. ASSUME NEW c \in Callers, WriteMetaCache(c) PROVE Texts'
  <2> DEFINE write == [by |-> c, build |-> Build[c], of |-> symbols[c]]
  <2>1. /\ pc[c] = "write" /\ hash[c] \in Versions
        /\ fd[c] \in Inodes /\ pos[c] + 1 \in Places
    <3>1. /\ pc[c] = "write" /\ hash[c] \in Versions /\ symbols[c] \in Versions
          /\ fd[c] \in Inodes /\ pos[c] \in Nat /\ pos[c] < Size[symbols[c]]
      BY <1>8 DEF WriteMetaCache, CallersOK, Writing
    <3>2. Size[symbols[c]] \in 1..MaxSize /\ MaxSize \in Nat
      BY <3>1, MetaCacheAssumption
    <3> QED
      BY <3>1, <3>2 DEF Places
  <2>2. /\ content' = [content EXCEPT ![fd[c]][pos[c] + 1] = write]
        /\ pos' = [pos EXCEPT ![c] = @ + 1]
        /\ \E label \in {"write", "rename"} : pc' = [pc EXCEPT ![c] = label]
        /\ UNCHANGED <<entry, tmp, hash, symbols, fd, contended, stale>>
    BY <1>8 DEF WriteMetaCache, Goto, historyVars
  <2>3. \A i \in Inodes \ {fd[c]} : content'[i] = content[i]
    BY <2>2
  <2>4. ASSUME hash[c] \notin contended
        PROVE  /\ \A h \in Versions : entry[h] # fd[c]
               /\ \A d \in Callers \ {c} : fd[d] = fd[c] => pc[d] \notin Writing \cup {"restore"}
    BY <2>1, <2>4 DEF WritersAlone, Apart, NamesApart, FilesApart, CallersOK, Writing
  <2>5. /\ \A h \in Versions \ {hash[c]} : entry[h] # fd[c]
        /\ \A d \in Callers : fd[d] = fd[c] => hash[d] = hash[c]
    BY <2>1, MetaCacheAssumption DEF Apart, FilesApart
  <2>6. SymbolsRight'
    BY <2>1, <2>2 DEF Texts, SymbolsRight
  <2>7. ASSUME NEW d \in Callers, pc'[d] \in {"write", "rename"},
               hash[d] \notin contended, NEW k \in 1..pos'[d]
        PROVE  content'[fd[d]][k] = [by |-> d, build |-> Build[d], of |-> symbols[d]]
    <3>1. CASE d # c
      <4>1. pc[d] \in {"write", "rename"} /\ pos'[d] = pos[d] /\ fd[d] \in Inodes
        BY <2>2, <2>7, <3>1 DEF CallersOK
      <4>2. fd[d] # fd[c]
        BY <2>4, <2>5, <2>7, <3>1, <4>1 DEF Writing
      <4> QED
        BY <2>3, <2>7, <4>1, <4>2 DEF Texts, WrittenRight
    <3>2. CASE d = c
      <4>1. pos'[c] = pos[c] + 1 /\ pos[c] \in Nat
        BY <2>2
      <4>2. content'[fd[c]] = [content[fd[c]] EXCEPT ![pos[c] + 1] = write]
        BY <2>1, <2>2
      <4>3. CASE k = pos[c] + 1
        BY <2>1, <3>2, <4>2, <4>3
      <4>4. CASE k # pos[c] + 1
        <5>1. k \in 1..pos[c]
          BY <2>7, <3>2, <4>1, <4>4
        <5>2. content'[fd[c]][k] = content[fd[c]][k]
          BY <4>2, <4>4
        <5> QED
          BY <2>1, <2>7, <3>2, <5>1, <5>2 DEF Texts, WrittenRight
      <4> QED
        BY <4>3, <4>4
    <3> QED
      BY <3>1, <3>2
  <2>8. WrittenRight'
    BY <2>2, <2>7 DEF WrittenRight
  <2>9. FilesRight'
    BY <2>2, <2>3, <2>4, <2>5 DEF Texts, FilesRight, Right, Whole
  <2>10. ASSUME NEW d \in Callers, hash[d] \notin contended \cup stale
         PROVE  /\ pc'[d] = "restore" => Right(hash[d], content'[fd[d]])
                /\ pc'[d] = "updateHit" => symbols[d] = hash[d]
    <3>1. pc'[d] \in {"restore", "updateHit"} => d # c /\ pc[d] = pc'[d]
      BY <2>2
    <3>2. pc[d] = "restore" /\ d # c => fd[d] \in Inodes /\ fd[d] # fd[c]
      BY <2>4, <2>5, <2>10 DEF CallersOK
    <3> QED
      BY <2>3, <2>10, <3>1, <3>2 DEF Texts, ReadRight, Right, Whole
  <2>11. ReadRight'
    BY <2>2, <2>10 DEF ReadRight, Right, Whole
  <2> QED
    BY <2>6, <2>8, <2>9, <2>11 DEF Texts
<1>9. ASSUME NEW c \in Callers, WriteFails(c) PROVE Texts'
  BY <1>9, TextsLess DEF WriteFails, Goto, callVars, diskVars, historyVars
<1>10. ASSUME NEW c \in Callers, RenameTmpFile(c) PROVE Texts'
  <2>1. CASE tmp[hash[c]] = None
    BY <1>10, <2>1, TextsLess DEF RenameTmpFile, Goto, callVars, historyVars
  <2>2. CASE tmp[hash[c]] # None
    <3>1. /\ pc[c] = "rename" /\ hash[c] \in Versions
          /\ entry' = [entry EXCEPT ![hash[c]] = tmp[hash[c]]]
          /\ pc' = [pc EXCEPT ![c] = "update"]
          /\ UNCHANGED <<content, hash, symbols, fd, pos, contended, stale>>
      BY <1>10, <2>2 DEF RenameTmpFile, Goto, callVars, historyVars, CallersOK
    <3>2. SymbolsRight' /\ WrittenRight'
      BY <3>1 DEF Texts, SymbolsRight, WrittenRight
    <3>3. ASSUME hash[c] \notin contended \cup stale
          PROVE  Right(hash[c], content[tmp[hash[c]]])
      <4> DEFINE write == [by |-> c, build |-> Build[c], of |-> hash[c]]
      <4>1. /\ tmp[hash[c]] = fd[c] /\ symbols[c] = hash[c]
            /\ pos[c] = Size[hash[c]]
        BY <3>1, <3>3 DEF WritersAlone, Texts, SymbolsRight, CallersOK
      <4>2. \A k \in 1..Size[hash[c]] : content[tmp[hash[c]]][k] = write
        BY <3>1, <3>3, <4>1 DEF Texts, WrittenRight
      <4>3. Size[hash[c]] \in 1..MaxSize
        BY <3>1, MetaCacheAssumption
      <4>4. content[tmp[hash[c]]][1] = write
        BY <4>2, <4>3
      <4>5. write # None
        BY <3>1, MetaCacheAssumption DEF Writes
      <4>6. write.of = hash[c]
        OBVIOUS
      <4> HIDE DEF write
      <4> QED
        BY <4>2, <4>4, <4>5, <4>6 DEF Right, Whole
    <3>4. FilesRight'
      BY <3>1, <3>3 DEF Texts, FilesRight, Right, Whole
    <3>5. ReadRight'
      BY <3>1 DEF Texts, ReadRight, Right, Whole
    <3> QED
      BY <3>2, <3>4, <3>5 DEF Texts
  <2> QED
    BY <2>1, <2>2
<1>11. ASSUME NEW c \in Callers, UpdateMetaInfo(c) PROVE Texts'
  BY <1>11, TextsLess DEF UpdateMetaInfo, Return, Goto, callVars, diskVars, historyVars
<1>12. ASSUME NEW c \in Callers, RemoveTmpFile(c) PROVE Texts'
  BY <1>12, TextsLess DEF RemoveTmpFile, Return, Goto, historyVars
<1>13. ASSUME NEW c \in Callers, Crash(c) PROVE Texts'
  BY <1>13, TextsLess DEF Crash, Return, Goto, diskVars
<1>14. ASSUME NEW v \in Sources, Edit(v) PROVE Texts'
  BY <1>14, TextsLess DEF Edit, callVars, diskVars, historyVars
<1>15. CASE UNCHANGED vars
  BY <1>15, TextsLess DEF vars
<1> QED
  BY <1>1, <1>2, <1>3, <1>4, <1>5, <1>6, <1>7, <1>8, <1>9, <1>10, <1>11,
     <1>12, <1>13, <1>14, <1>15 DEF Next, CallerStep

(* A cache file is a whole encoding of the version it is named after, and  *)
(* what a caller takes from the cache are the symbols of what it hashed.   *)
THEOREM CacheFilesRight == Spec => []EntriesRight
<1> DEFINE Inv == Control /\ Apart /\ WritersAlone /\ Texts
<1>1. Init => Inv
  <2>1. Init => WritersAlone /\ Texts
    BY DEF Init, WritersAlone, Texts, SymbolsRight, WrittenRight, FilesRight, ReadRight
  <2> QED
    BY <2>1, ControlInit, ApartInit
<1>2. Inv /\ [Next]_vars => Inv'
  BY ControlStep, ApartStep, AloneStep, TextsStep
<1>3. Inv => EntriesRight
  BY DEF Texts, FilesRight, ReadRight, EntriesRight
<1> QED
  BY <1>1, <1>2, <1>3, PTL DEF Spec
=============================================================================
