----------------------------- MODULE MetaCache -----------------------------
(* IndexFile of linter/cache.go with -cache-dir: the symbols of a file are *)
(* kept in a cache file that is named after the file and the hash of its   *)
(* contents. Callers are goroutines of one linter, or of several that      *)
(* share the directory; each is at one file at a time. Files do not share  *)
(* cache files, so there is one file here, and its cache files are told    *)
(* apart by the hash, for which the version of the file stands.            *)
(*                                                                         *)
(* Disk and names are apart, as in the file system: entry and tmp say      *)
(* which inode a name stands for, content what is in it, and a caller that *)
(* has opened an inode goes on with it whatever becomes of the names.      *)
EXTENDS Integers

CONSTANTS
    Callers,
    Versions,       \* of the file
    Broken,         \* versions that do not parse
    Absent,         \* the file is not there
    Committed,      \* versions that git has, which are passed as contents
    MaxSize,
    Size,           \* how many writes the symbols of a version take
    Build,          \* the cache version of each caller's linter
    Inodes,
    None,
    Garbled,        \* symbols decoded from a mix of two encodings
    MaxEdits,       \* bound on the edits of the file
    MaxFaults       \* bound on crashes and failed writes

Sources == Versions \cup {Absent}
\* One write: gob goes through maps in random order, so the encodings that
\* two callers make of one version are not the same bytes.
Writes == [by : Callers, build : {Build[c] : c \in Callers}, of : Versions]

ASSUME MetaCacheAssumption ==
    /\ Broken \subseteq Versions /\ Committed \subseteq Versions
    /\ MaxSize \in Nat \ {0}
    /\ Size \in [Versions -> 1..MaxSize]
    /\ None \notin Inodes \cup Sources \cup {Garbled} \cup Writes
    /\ Garbled \notin Sources /\ Absent \notin Versions
    /\ MaxEdits \in Nat /\ MaxFaults \in Nat

VARIABLES
    source,     \* the file
    entry,      \* hash -> inode of cacheFile
    tmp,        \* hash -> inode of cacheFile + ".tmp"
    content,    \* inode -> its writes by place, None where nothing was written
    pc,
    given,      \* contents, None when IndexFile has to read the file
    hash,       \* contentsHash
    symbols,    \* the version whose symbols the caller has, for meta.Info
    fd,         \* the inode the caller has open
    pos,        \* how many writes it has made
    contended,  \* hashes whose temporary file two callers used at a time
    stale,      \* hashes under which another version was parsed
    crashed,    \* hashes whose temporary file a caller left by dying
    edits,
    faults

callVars == <<given, hash, symbols, fd, pos>>
historyVars == <<contended, stale, crashed>>
diskVars == <<entry, tmp, content>>
vars == <<source, entry, tmp, content, pc, given, hash, symbols, fd, pos,
          contended, stale, crashed, edits, faults>>

Places == 1..MaxSize

Labels == {"idle", "hash", "open", "restore", "updateHit", "remove", "parse", "create",
           "write", "rename", "update", "cleanup"}
\* between the creation of the temporary file and its deferred removal
Writing == {"write", "rename", "update", "cleanup"}
Writers(h) == {c \in Callers : pc[c] \in Writing /\ hash[c] = h}

TypeOK ==
    /\ source \in Sources
    /\ entry \in [Versions -> Inodes \cup {None}]
    /\ tmp \in [Versions -> Inodes \cup {None}]
    /\ content \in [Inodes -> [Places -> Writes \cup {None}]]
    /\ pc \in [Callers -> Labels]
    /\ given \in [Callers -> Committed \cup {None}]
    /\ hash \in [Callers -> Versions \cup {None}]
    /\ symbols \in [Callers -> Versions \cup {None, Garbled}]
    /\ fd \in [Callers -> Inodes \cup {None}]
    /\ pos \in [Callers -> Nat]
    /\ contended \subseteq Versions
    /\ stale \subseteq Versions
    /\ crashed \subseteq Versions
    /\ edits \in 0..MaxEdits
    /\ faults \in 0..MaxFaults

Empty == [k \in Places |-> None]

Init ==
    /\ source \in Versions
    /\ entry = [h \in Versions |-> None]
    /\ tmp = [h \in Versions |-> None]
    /\ content = [i \in Inodes |-> Empty]
    /\ pc = [c \in Callers |-> "idle"]
    /\ given = [c \in Callers |-> None]
    /\ hash = [c \in Callers |-> None]
    /\ symbols = [c \in Callers |-> None]
    /\ fd = [c \in Callers |-> None]
    /\ pos = [c \in Callers |-> 0]
    /\ contended = {}
    /\ stale = {}
    /\ crashed = {}
    /\ edits = 0
    /\ faults = 0

-----------------------------------------------------------------------------
(* IndexFile. *)

Goto(c, label) == pc' = [pc EXCEPT ![c] = label]

\* The end of a call, from wherever it returns.
Return(c) ==
    /\ Goto(c, "idle")
    /\ given' = [given EXCEPT ![c] = None]
    /\ hash' = [hash EXCEPT ![c] = None]
    /\ symbols' = [symbols EXCEPT ![c] = None]
    /\ fd' = [fd EXCEPT ![c] = None]
    /\ pos' = [pos EXCEPT ![c] = 0]

\* Called with the contents (of a commit) or for the file on disk.
IndexFile(c, contents) ==
    /\ pc[c] = "idle"
    /\ given' = [given EXCEPT ![c] = contents]
    /\ Goto(c, "hash")
    /\ UNCHANGED <<source, diskVars, hash, symbols, fd, pos, historyVars,
                   edits, faults>>

\* What a read of the file gives now.
Contents(c) == IF given[c] # None THEN given[c] ELSE source

HashContents(c) ==
    /\ pc[c] = "hash"
    /\ IF Contents(c) = Absent
         THEN Return(c)
         ELSE /\ hash' = [hash EXCEPT ![c] = Contents(c)]
              /\ Goto(c, "open")
              /\ UNCHANGED <<given, symbols, fd, pos>>
    /\ UNCHANGED <<source, diskVars, historyVars, edits, faults>>

\* Mutant of OpenCacheFile: what a dead caller left is removed first.
OpenRemovesLeftover(c) ==
    /\ pc[c] = "open"
    /\ tmp' = [tmp EXCEPT ![hash[c]] = None]
    /\ fd' = [fd EXCEPT ![c] = entry[hash[c]]]
    /\ Goto(c, IF entry[hash[c]] = None THEN "parse" ELSE "restore")
    /\ UNCHANGED <<source, entry, content, given, hash, symbols, pos,
                   historyVars, edits, faults>>

OpenCacheFile(c) ==
    /\ pc[c] = "open"
    /\ fd' = [fd EXCEPT ![c] = entry[hash[c]]]
    /\ Goto(c, IF entry[hash[c]] = None THEN "parse" ELSE "restore")
    /\ UNCHANGED <<source, diskVars, given, hash, symbols, pos,
                   historyVars, edits, faults>>

\* An encoding is whole when all the writes it takes are of one caller, and
\* made for one version: a decoder reads as many as the first one says.
Whole(text) ==
    /\ text[1] # None
    /\ \A k \in 1..Size[text[1].of] : text[k] = text[1]

\* What readMetaCache may make of a cache file: None is an error.
Decoded(c, text) ==
    IF text[1] = None \/ text[1].build # Build[c] THEN {None}
    ELSE IF Whole(text) THEN {text[1].of}
    ELSE {None, Garbled}

RestoreMetaFromCache(c) ==
    /\ pc[c] = "restore"
    /\ \E v \in Decoded(c, content[fd[c]]) :
         IF v = None
         THEN Goto(c, "remove") /\ UNCHANGED callVars
         ELSE /\ symbols' = [symbols EXCEPT ![c] = v]
              /\ Goto(c, "updateHit")
              /\ UNCHANGED <<given, hash, fd, pos>>
    /\ UNCHANGED <<source, diskVars, historyVars, edits, faults>>

\* "do not really care about why exactly reading from cache failed"
RemoveCacheFile(c) ==
    /\ pc[c] = "remove"
    /\ entry' = [entry EXCEPT ![hash[c]] = None]
    /\ fd' = [fd EXCEPT ![c] = None]
    /\ Goto(c, "parse")
    /\ UNCHANGED <<source, tmp, content, given, hash, symbols, pos,
                   historyVars, edits, faults>>

\* Reads the file a second time, unless the contents were given.
ParseContents(c) ==
    /\ pc[c] = "parse"
    /\ LET v == Contents(c)
       IN  IF v \in Broken \cup {Absent}
           THEN Return(c) /\ UNCHANGED historyVars
           ELSE /\ symbols' = [symbols EXCEPT ![c] = v]
                /\ Goto(c, "create")
                /\ stale' = IF v = hash[c] THEN stale ELSE stale \cup {hash[c]}
                /\ UNCHANGED <<given, hash, fd, pos, contended, crashed>>
    /\ UNCHANGED <<source, diskVars, edits, faults>>

-----------------------------------------------------------------------------
(* createMetaCacheFile. *)

Text(i) == IF i = None THEN Empty ELSE content[i]
InUse(i) == i \in {entry[h] : h \in Versions} \cup {tmp[h] : h \in Versions}
                    \cup {fd[c] : c \in Callers}

Unused == {i \in Inodes : ~InUse(i)}

\* O_CREATE|O_WRONLY|O_TRUNC: whoever has this temporary file open writes on
\* in the same inode.
CreateTmpFile(c) ==
    /\ pc[c] = "create"
    /\ LET h == hash[c]
       IN  \E i \in IF tmp[h] # None THEN {tmp[h]} ELSE Unused :
             /\ fd' = [fd EXCEPT ![c] = i]
             /\ tmp' = [tmp EXCEPT ![h] = i]
             /\ content' = [content EXCEPT ![i] = Empty]
             /\ contended' =
                  IF Writers(h) = {} THEN contended ELSE contended \cup {h}
             /\ crashed' = crashed \ {h}
    /\ Goto(c, "write")
    /\ UNCHANGED <<source, entry, given, hash, symbols, pos, stale,
                   edits, faults>>

\* Mutant of WriteMetaCache: without Flush.
WriteWithoutFlush(c) ==
    /\ pc[c] = "write"
    /\ content' = [content EXCEPT ![fd[c]][pos[c] + 1] =
                     [by |-> c, build |-> Build[c], of |-> symbols[c]]]
    /\ pos' = [pos EXCEPT ![c] = @ + 1]
    /\ Goto(c, IF pos[c] + 2 >= Size[symbols[c]] THEN "rename" ELSE "write")
    /\ UNCHANGED <<source, entry, tmp, given, hash, symbols, fd,
                   historyVars, edits, faults>>

\* The buffer goes to the file whenever it is full, and at last by Flush.
WriteMetaCache(c) ==
    /\ pc[c] = "write"
    /\ content' = [content EXCEPT ![fd[c]][pos[c] + 1] =
                     [by |-> c, build |-> Build[c], of |-> symbols[c]]]
    /\ pos' = [pos EXCEPT ![c] = @ + 1]
    /\ Goto(c, IF pos[c] + 1 = Size[symbols[c]] THEN "rename" ELSE "write")
    /\ UNCHANGED <<source, entry, tmp, given, hash, symbols, fd,
                   historyVars, edits, faults>>

\* Mutant of WriteFails: the removal is not deferred but comes last.
WriteFailsLeavesTmp(c) ==
    /\ pc[c] = "write"
    /\ faults < MaxFaults
    /\ faults' = faults + 1
    /\ Return(c)
    /\ UNCHANGED <<source, diskVars, historyVars, edits>>

\* A write that fails (the disk is full).
WriteFails(c) ==
    /\ pc[c] = "write"
    /\ faults < MaxFaults
    /\ faults' = faults + 1
    /\ Goto(c, "cleanup")
    /\ UNCHANGED <<source, diskVars, callVars, historyVars, edits>>

\* os.Rename takes the temporary file that has the name now; with none it
\* fails, and the call ends without updateMetaInfo.
RenameTmpFile(c) ==
    /\ pc[c] = "rename"
    /\ LET h == hash[c]
       IN  IF tmp[h] = None
           THEN Goto(c, "cleanup") /\ UNCHANGED <<entry, tmp>>
           ELSE /\ entry' = [entry EXCEPT ![h] = tmp[h]]
                /\ tmp' = [tmp EXCEPT ![h] = None]
                /\ Goto(c, "update")
    /\ UNCHANGED <<source, content, callVars, historyVars, edits, faults>>

\* updateMetaInfo puts the symbols into the index (module MetaIndex).
UpdateMetaInfo(c) ==
    \/ /\ pc[c] = "updateHit"
       /\ Return(c)
       /\ UNCHANGED <<source, diskVars, historyVars, edits, faults>>
    \/ /\ pc[c] = "update"
       /\ Goto(c, "cleanup")
       /\ UNCHANGED <<source, diskVars, callVars, historyVars, edits, faults>>

\* The deferred os.Remove(tmpPath) removes whatever has the name by now.
RemoveTmpFile(c) ==
    /\ pc[c] = "cleanup"
    /\ tmp' = [tmp EXCEPT ![hash[c]] = None]
    /\ Return(c)
    /\ UNCHANGED <<source, entry, content, historyVars, edits, faults>>

-----------------------------------------------------------------------------
(* The world around it. *)

\* The process dies where it is, and is started again.
Crash(c) ==
    /\ pc[c] # "idle"
    /\ faults < MaxFaults
    /\ faults' = faults + 1
    /\ crashed' = IF pc[c] \in Writing THEN crashed \cup {hash[c]} ELSE crashed
    /\ Return(c)
    /\ UNCHANGED <<source, diskVars, contended, stale, edits>>

Edit(v) ==
    /\ edits < MaxEdits
    /\ v # source
    /\ source' = v
    /\ edits' = edits + 1
    /\ UNCHANGED <<diskVars, pc, callVars, historyVars, faults>>

CallerStep(c) ==
    \/ \E contents \in Committed \cup {None} : IndexFile(c, contents)
    \/ HashContents(c)
    \/ OpenCacheFile(c)
    \/ RestoreMetaFromCache(c)
    \/ RemoveCacheFile(c)
    \/ ParseContents(c)
    \/ CreateTmpFile(c)
    \/ WriteMetaCache(c)
    \/ WriteFails(c)
    \/ RenameTmpFile(c)
    \/ UpdateMetaInfo(c)
    \/ RemoveTmpFile(c)
    \/ Crash(c)

Next ==
    \/ \E c \in Callers : CallerStep(c)
    \/ \E v \in Sources : Edit(v)

Spec == Init /\ [][Next]_vars

-----------------------------------------------------------------------------
(* Properties. *)

\* A cache file holds one whole encoding of the version it is named after,
\* through crashes, failed writes and linters of other versions, unless two
\* callers wrote it at a time (the TODO in createMetaCacheFile) or the file
\* was edited between the two reads of IndexFile: once such an entry is
\* there, every later run takes the symbols from it.
\* So what a caller takes from the cache are the symbols of the contents
\* whose hash it has computed.
Right(h, text) == Whole(text) /\ text[1].of = h
EntriesRight ==
    /\ \A h \in Versions \ (contended \cup stale) :
         entry[h] # None => Right(h, content[entry[h]])
    /\ \A c \in Callers :
         pc[c] = "updateHit" =>
             symbols[c] = hash[c] \/ hash[c] \in contended \cup stale

\* The symbols of a file that could be parsed are missing from the index
\* only after a failed write, or when another caller took the temporary file
\* away: updateMetaInfo waits for the cache file to be in its place.
LostOnlyWhenContended ==
    \A c \in Callers :
        pc[c] = "rename" /\ tmp[hash[c]] = None => hash[c] \in contended

\* A temporary file has a caller that will remove it, unless one died: the
\* cache directory does not fill up with them.
TmpIsRemoved ==
    \A h \in Versions :
        tmp[h] # None => h \in crashed \/ Writers(h) # {}
=============================================================================
