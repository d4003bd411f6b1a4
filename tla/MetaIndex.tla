----------------------------- MODULE MetaIndex -----------------------------
(***************************************************************************)
(* meta.Info (meta/metainfo.go): the symbols of all indexed files, kept    *)
(* by name for the analysis and by file for taking a file's symbols out    *)
(* again.  Many goroutines index files; each brings the symbols of one     *)
(* version of one file, under Info.Lock, in whatever order they finish.    *)
(* Later the language server indexes files again as they are edited and    *)
(* deletes them.                                                           *)
(*                                                                         *)
(* The maps by file hold what the last version of the file declares, so    *)
(* perFile is that version.  Classes stand for traits and constants too,   *)
(* which are treated like them.  Two declarations of one class: the last   *)
(* one indexed stays.  Of one function: the longest.                       *)
(***************************************************************************)
EXTENDS Naturals, FiniteSets

CONSTANTS
    Files,
    Versions,       \* what a file may contain
    ClassNames,
    FunctionNames,
    LastingNames,   \* function overrides and global variables
    Classes,        \* the classes a version declares
    Length,         \* the lengths of its functions: 0 for one it has not
    Lasting,        \* its overrides and global variables
    None

ASSUME VersionsAssumption ==
    /\ Classes \in [Versions -> SUBSET ClassNames]
    /\ Length \in [Versions -> [FunctionNames -> Nat]]
    /\ Lasting \in [Versions -> SUBSET LastingNames]

ASSUME NoneAssumption ==
    /\ None \notin Versions
    /\ None \notin [file : Files, version : Versions]

VARIABLES
    perFile,        \* perFileClasses, perFileFunctions, ... and allFiles
    allClasses,
    allFunctions,
    lasting,        \* allFunctionsOverrides and the global Scope
    reindexed       \* history: a file was indexed again or deleted

vars == <<perFile, allClasses, allFunctions, lasting, reindexed>>

(* A ClassInfo or FuncInfo: the declaration in that version of that file.  *)
Entry == [file : Files, version : Versions]

TypeOK ==
    /\ perFile \in [Files -> Versions \union {None}]
    /\ allClasses \in [ClassNames -> Entry \union {None}]
    /\ allFunctions \in [FunctionNames -> Entry \union {None}]
    /\ lasting \in SUBSET LastingNames
    /\ reindexed \in BOOLEAN

Init ==
    /\ perFile = [f \in Files |-> None]
    /\ allClasses = [c \in ClassNames |-> None]
    /\ allFunctions = [n \in FunctionNames |-> None]
    /\ lasting = {}
    /\ reindexed = FALSE

-----------------------------------------------------------------------------
HasClass(f, c) == perFile[f] # None /\ c \in Classes[perFile[f]]
HasFunction(f, n) == perFile[f] # None /\ Length[perFile[f]][n] > 0

(* FuncInfo.Pos.Length.                                                    *)
EntryLength(e, n) == Length[e.version][n]

(* DeleteMetaForFileNonLocked: the classes of the file, whichever file the *)
(* entries are from; its functions, unless the lengths tell that the entry *)
(* is from another file.                                                   *)
ClassesWithout(f) ==
    [c \in ClassNames |-> IF HasClass(f, c) THEN None ELSE allClasses[c]]

FunctionsWithout(f) ==
    [n \in FunctionNames |->
        IF /\ HasFunction(f, n)
           /\ allFunctions[n] # None
           /\ EntryLength(allFunctions[n], n) = Length[perFile[f]][n]
          THEN None ELSE allFunctions[n]]

AddClasses(f, v, classes) ==
    [c \in ClassNames |-> IF c \in Classes[v] THEN [file |-> f, version |-> v] ELSE classes[c]]

(* Mutant: the last declaration of a function stays, as with classes.      *)
AddFunctionsLast(f, v, functions) ==
    [n \in FunctionNames |->
        IF Length[v][n] > 0 THEN [file |-> f, version |-> v] ELSE functions[n]]

AddFunctions(f, v, functions) ==
    [n \in FunctionNames |->
        IF /\ Length[v][n] > 0
           /\ functions[n] # None => Length[v][n] > EntryLength(functions[n], n)
          THEN [file |-> f, version |-> v] ELSE functions[n]]

(* AddFunctionsOverridesNonLocked and AddToGlobalScopeNonLocked.           *)
AddLasting(f, v) == lasting \union Lasting[v]

(* Mutant: DeleteMetaForFileNonLocked is not called.                       *)
UpdateMetaInfoNoDelete(f, v) ==
    /\ perFile' = [perFile EXCEPT ![f] = v]
    /\ allClasses' = AddClasses(f, v, allClasses)
    /\ allFunctions' = AddFunctions(f, v, allFunctions)
    /\ lasting' = AddLasting(f, v)
    /\ reindexed' = (reindexed \/ perFile[f] # None)

(* Mutant: the old symbols are taken out after the new ones came in.       *)
UpdateMetaInfoDeleteLast(f, v) ==
    /\ perFile' = [perFile EXCEPT ![f] = v]
    /\ allClasses' = [c \in ClassNames |->
                         IF HasClass(f, c) THEN None ELSE AddClasses(f, v, allClasses)[c]]
    /\ allFunctions' = AddFunctions(f, v, FunctionsWithout(f))
    /\ lasting' = AddLasting(f, v)
    /\ reindexed' = (reindexed \/ perFile[f] # None)

(* updateMetaInfo of linter/cache.go, a critical section of Info.Lock.     *)
UpdateMetaInfo(f, v) ==
    /\ perFile' = [perFile EXCEPT ![f] = v]
    /\ allClasses' = AddClasses(f, v, ClassesWithout(f))
    /\ allFunctions' = AddFunctions(f, v, FunctionsWithout(f))
    /\ lasting' = AddLasting(f, v)
    /\ reindexed' = (reindexed \/ perFile[f] # None)

(* The language server hears that a file is gone.                          *)
DeleteMetaForFile(f) ==
    /\ perFile' = [perFile EXCEPT ![f] = None]
    /\ allClasses' = ClassesWithout(f)
    /\ allFunctions' = FunctionsWithout(f)
    /\ reindexed' = TRUE
    /\ UNCHANGED lasting

ResetInfo ==
    /\ perFile' = [f \in Files |-> None]
    /\ allClasses' = [c \in ClassNames |-> None]
    /\ allFunctions' = [n \in FunctionNames |-> None]
    /\ lasting' = {}
    /\ reindexed' = FALSE

Next ==
    \/ \E f \in Files, v \in Versions : UpdateMetaInfo(f, v)
    \/ \E f \in Files : DeleteMetaForFile(f)
    \/ ResetInfo

Spec == Init /\ [][Next]_vars

-----------------------------------------------------------------------------
(* Properties.                                                             *)

(* Every entry is a declaration in the version of its file that was        *)
(* indexed last: no symbol of an older version or of a deleted file is     *)
(* used.  The code finds the entries of a file by name and, for functions, *)
(* by length only, so this rests on an entry having its own file's length. *)
ClassIsDeclared(c) ==
    allClasses[c] # None =>
        /\ perFile[allClasses[c].file] = allClasses[c].version
        /\ c \in Classes[allClasses[c].version]

FunctionIsDeclared(n) ==
    allFunctions[n] # None =>
        /\ perFile[allFunctions[n].file] = allFunctions[n].version
        /\ EntryLength(allFunctions[n], n) > 0

SymbolsAreDeclared ==
    /\ \A c \in ClassNames : ClassIsDeclared(c)
    /\ \A n \in FunctionNames : FunctionIsDeclared(n)

(* Indexing the files once each, whatever the order of the goroutines,     *)
(* finds every name that some file declares, and of a function the longest *)
(* declaration: what the analysis that follows sees of functions does not  *)
(* depend on the order but in a tie.                                       *)
ClassIsFound(c) == \A f \in Files : HasClass(f, c) => allClasses[c] # None

LongestIsFound(n) ==
    \A f \in Files : HasFunction(f, n) =>
        /\ allFunctions[n] # None
        /\ EntryLength(allFunctions[n], n) >= Length[perFile[f]][n]

BatchIndexComplete ==
    ~reindexed =>
        /\ \A c \in ClassNames : ClassIsFound(c)
        /\ \A n \in FunctionNames : LongestIsFound(n)

(* A name leaves the index only in a step that takes a declaration of it   *)
(* out of some file: indexing a file never hides what it does not touch.   *)
NamesLeaveWithADeclaration ==
    [][/\ \A c \in ClassNames :
             allClasses[c] # None /\ allClasses'[c] = None =>
                 \E f \in Files : HasClass(f, c) /\ ~HasClass(f, c)'
       /\ \A n \in FunctionNames :
             allFunctions[n] # None /\ allFunctions'[n] = None =>
                 \E f \in Files : HasFunction(f, n) /\ ~HasFunction(f, n)']_vars
=============================================================================
