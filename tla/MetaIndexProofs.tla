-------------------------- MODULE MetaIndexProofs --------------------------
(***************************************************************************)
(* The properties of module MetaIndex for any set of files, versions and   *)
(* names.  SymbolsAreDeclared is inductive together with TypeOK: taking a  *)
(* file's functions out by length is enough because an entry of the file   *)
(* has the length of the file's own declaration.                           *)
(***************************************************************************)
EXTENDS MetaIndex, TLAPS

(* Init and every step of Next keep the variables in their types.          *)
THEOREM IndexTypeCorrect == Spec => []TypeOK
<1>1. Init => TypeOK
  BY DEF Init, TypeOK
<1>2. TypeOK /\ [Next]_vars => TypeOK'
  <2> SUFFICES ASSUME TypeOK, [Next]_vars PROVE TypeOK'
    OBVIOUS
  <2> USE DEF TypeOK, Entry
  <2>1. ASSUME NEW f \in Files, NEW v \in Versions, UpdateMetaInfo(f, v) PROVE TypeOK'
    <3>1. perFile' \in [Files -> Versions \union {None}]
      BY <2>1 DEF UpdateMetaInfo
    <3>2. allClasses' \in [ClassNames -> Entry \union {None}]
      BY <2>1 DEF UpdateMetaInfo, AddClasses, ClassesWithout
    <3>3. allFunctions' \in [FunctionNames -> Entry \union {None}]
      BY <2>1 DEF UpdateMetaInfo, AddFunctions, FunctionsWithout
    <3>4. lasting' \in SUBSET LastingNames
      BY <2>1, VersionsAssumption DEF UpdateMetaInfo, AddLasting
    <3>5. reindexed' \in BOOLEAN
      BY <2>1 DEF UpdateMetaInfo
    <3> QED
      BY <3>1, <3>2, <3>3, <3>4, <3>5
  <2>2. ASSUME NEW f \in Files, DeleteMetaForFile(f) PROVE TypeOK'
    BY <2>2 DEF DeleteMetaForFile, ClassesWithout, FunctionsWithout
  <2>3. CASE ResetInfo
    BY <2>3 DEF ResetInfo
  <2>4. CASE UNCHANGED vars
    BY <2>4 DEF vars
  <2> QED
    BY <2>1, <2>2, <2>3, <2>4 DEF Next
<1> QED
  BY <1>1, <1>2, PTL DEF Spec

-----------------------------------------------------------------------------
(* What is left when a file's symbols are out is declared by other files.  *)
LEMMA ClassesWithoutFile ==
    ASSUME TypeOK, SymbolsAreDeclared, NEW f \in Files, NEW c \in ClassNames,
           ClassesWithout(f)[c] # None
    PROVE  /\ ClassesWithout(f)[c] = allClasses[c]
           /\ allClasses[c] \in Entry
           /\ allClasses[c].file # f
           /\ perFile[allClasses[c].file] = allClasses[c].version
           /\ c \in Classes[allClasses[c].version]
<1>1. ~HasClass(f, c) /\ ClassesWithout(f)[c] = allClasses[c]
  BY DEF ClassesWithout
<1>2. allClasses[c] \in Entry
  BY <1>1 DEF TypeOK
<1>3. /\ perFile[allClasses[c].file] = allClasses[c].version
      /\ c \in Classes[allClasses[c].version]
  BY <1>1 DEF SymbolsAreDeclared, ClassIsDeclared
<1>4. allClasses[c].file # f
  BY <1>1, <1>2, <1>3, NoneAssumption DEF HasClass, Entry
<1> QED
  BY <1>1, <1>2, <1>3, <1>4

(* The same of functions, where the lengths decide.                        *)
LEMMA FunctionsWithoutFile ==
    ASSUME TypeOK, SymbolsAreDeclared, NEW f \in Files, NEW n \in FunctionNames,
           FunctionsWithout(f)[n] # None
    PROVE  /\ FunctionsWithout(f)[n] = allFunctions[n]
           /\ allFunctions[n] \in Entry
           /\ allFunctions[n].file # f
           /\ perFile[allFunctions[n].file] = allFunctions[n].version
           /\ EntryLength(allFunctions[n], n) > 0
<1>1. FunctionsWithout(f)[n] = allFunctions[n] /\ allFunctions[n] # None
  BY DEF FunctionsWithout
<1>2. ~(HasFunction(f, n) /\ EntryLength(allFunctions[n], n) = Length[perFile[f]][n])
  BY <1>1 DEF FunctionsWithout
<1>3. allFunctions[n] \in Entry
  BY <1>1 DEF TypeOK
<1>4. /\ perFile[allFunctions[n].file] = allFunctions[n].version
      /\ EntryLength(allFunctions[n], n) > 0
  BY <1>1 DEF SymbolsAreDeclared, FunctionIsDeclared
<1>5. allFunctions[n].file # f
  BY <1>2, <1>3, <1>4, NoneAssumption DEF HasFunction, Entry, EntryLength
<1> QED
  BY <1>1, <1>3, <1>4, <1>5

(* Every step keeps the entries declared.                                  *)
LEMMA DeclaredStep == TypeOK /\ SymbolsAreDeclared /\ [Next]_vars => SymbolsAreDeclared'
<1> SUFFICES ASSUME TypeOK, SymbolsAreDeclared, [Next]_vars PROVE SymbolsAreDeclared'
  OBVIOUS
<1>1. ASSUME NEW f \in Files, NEW v \in Versions, UpdateMetaInfo(f, v) PROVE SymbolsAreDeclared'
  <2>1. ASSUME NEW g \in Files PROVE perFile'[g] = IF g = f THEN v ELSE perFile[g]
    BY <1>1 DEF UpdateMetaInfo, TypeOK
  <2>2. ASSUME NEW c \in ClassNames, allClasses'[c] # None
        PROVE  /\ perFile'[allClasses'[c].file] = allClasses'[c].version
               /\ c \in Classes[allClasses'[c].version]
    <3>1. CASE c \in Classes[v]
      <4>1. allClasses'[c] = [file |-> f, version |-> v]
        BY <1>1, <3>1 DEF UpdateMetaInfo, AddClasses
      <4> QED
        BY <2>1, <3>1, <4>1
    <3>2. CASE c \notin Classes[v]
      <4>1. allClasses'[c] = ClassesWithout(f)[c]
        BY <1>1, <3>2 DEF UpdateMetaInfo, AddClasses
      <4>2. ClassesWithout(f)[c] # None
        BY <2>2, <4>1
      <4> QED
        BY <2>1, <4>1, <4>2, ClassesWithoutFile DEF Entry
    <3> QED
      BY <3>1, <3>2
  <2>3. ASSUME NEW n \in FunctionNames, allFunctions'[n] # None
        PROVE  /\ perFile'[allFunctions'[n].file] = allFunctions'[n].version
               /\ EntryLength(allFunctions'[n], n) > 0
    <3>1. CASE allFunctions'[n] = [file |-> f, version |-> v] /\ Length[v][n] > 0
      BY <2>1, <3>1 DEF EntryLength
    <3>2. CASE allFunctions'[n] = FunctionsWithout(f)[n]
      <4>1. FunctionsWithout(f)[n] # None
        BY <2>3, <3>2
      <4> QED
        BY <2>1, <3>2, <4>1, FunctionsWithoutFile DEF Entry
    <3> QED
      BY <1>1, <3>1, <3>2 DEF UpdateMetaInfo, AddFunctions
  <2> QED
    BY <2>2, <2>3 DEF SymbolsAreDeclared, ClassIsDeclared, FunctionIsDeclared, EntryLength
<1>2. ASSUME NEW f \in Files, DeleteMetaForFile(f) PROVE SymbolsAreDeclared'
  <2>1. ASSUME NEW g \in Files, g # f PROVE perFile'[g] = perFile[g]
    BY <1>2, <2>1 DEF DeleteMetaForFile, TypeOK
  <2>2. ASSUME NEW c \in ClassNames, allClasses'[c] # None
        PROVE  /\ perFile'[allClasses'[c].file] = allClasses'[c].version
               /\ c \in Classes[allClasses'[c].version]
    <3>1. allClasses' = ClassesWithout(f) /\ ClassesWithout(f)[c] # None
      BY <1>2, <2>2 DEF DeleteMetaForFile
    <3> QED
      BY <2>1, <3>1, ClassesWithoutFile DEF Entry
  <2>3. ASSUME NEW n \in FunctionNames, allFunctions'[n] # None
        PROVE  /\ perFile'[allFunctions'[n].file] = allFunctions'[n].version
               /\ EntryLength(allFunctions'[n], n) > 0
    <3>1. allFunctions' = FunctionsWithout(f) /\ FunctionsWithout(f)[n] # None
      BY <1>2, <2>3 DEF DeleteMetaForFile
    <3> QED
      BY <2>1, <3>1, FunctionsWithoutFile DEF Entry
  <2> QED
    BY <2>2, <2>3 DEF SymbolsAreDeclared, ClassIsDeclared, FunctionIsDeclared, EntryLength
<1>3. CASE ResetInfo
  BY <1>3 DEF ResetInfo, SymbolsAreDeclared, ClassIsDeclared, FunctionIsDeclared
<1>4. CASE UNCHANGED vars
  BY <1>4 DEF vars, SymbolsAreDeclared, ClassIsDeclared, FunctionIsDeclared, EntryLength
<1> QED
  BY <1>1, <1>2, <1>3, <1>4 DEF Next

(* Every entry is declared by the version of its file that was indexed     *)
(* last (DeleteMetaForFileNonLocked, metainfo.go).                         *)
THEOREM SymbolsDeclared == Spec => []SymbolsAreDeclared
<1>1. Init => SymbolsAreDeclared
  BY DEF Init, SymbolsAreDeclared, ClassIsDeclared, FunctionIsDeclared
<1> QED
  BY <1>1, DeclaredStep, IndexTypeCorrect, PTL DEF Spec

-----------------------------------------------------------------------------
(* Indexing a file for the first time takes nothing out.                   *)
LEMMA NothingToTakeOut ==
    ASSUME TypeOK, NEW f \in Files, perFile[f] = None
    PROVE  ClassesWithout(f) = allClasses /\ FunctionsWithout(f) = allFunctions
BY DEF TypeOK, ClassesWithout, FunctionsWithout, HasClass, HasFunction

(* Every step keeps the index of a batch complete.                         *)
LEMMA BatchStep ==
    TypeOK /\ BatchIndexComplete /\ [Next]_vars => BatchIndexComplete'
<1> SUFFICES ASSUME TypeOK, BatchIndexComplete, [Next]_vars, ~reindexed'
             PROVE  /\ \A c \in ClassNames : ClassIsFound(c)'
                    /\ \A n \in FunctionNames : LongestIsFound(n)'
  BY DEF BatchIndexComplete
<1>1. ASSUME NEW f \in Files, NEW v \in Versions, UpdateMetaInfo(f, v)
      PROVE  /\ \A c \in ClassNames : ClassIsFound(c)'
             /\ \A n \in FunctionNames : LongestIsFound(n)'
  <2>1. ~reindexed /\ perFile[f] = None
    BY <1>1 DEF UpdateMetaInfo
  <2>2. /\ allClasses' = AddClasses(f, v, allClasses)
        /\ allFunctions' = AddFunctions(f, v, allFunctions)
    BY <1>1, <2>1, NothingToTakeOut DEF UpdateMetaInfo
  <2>3. ASSUME NEW g \in Files PROVE perFile'[g] = IF g = f THEN v ELSE perFile[g]
    BY <1>1 DEF UpdateMetaInfo, TypeOK
  <2>4. ASSUME NEW c \in ClassNames, NEW g \in Files, HasClass(g, c)'
        PROVE  allClasses'[c] # None
    <3>1. CASE c \in Classes[v]
      BY <2>2, <3>1, NoneAssumption DEF AddClasses
    <3>2. CASE c \notin Classes[v]
      <4>1. HasClass(g, c)
        BY <2>3, <2>4, <3>2 DEF HasClass
      <4>2. allClasses[c] # None
        BY <2>1, <4>1 DEF BatchIndexComplete, ClassIsFound
      <4> QED
        BY <2>2, <3>2, <4>2 DEF AddClasses
    <3> QED
      BY <3>1, <3>2
  <2>5. ASSUME NEW n \in FunctionNames, NEW g \in Files, HasFunction(g, n)'
        PROVE  /\ allFunctions'[n] # None
               /\ EntryLength(allFunctions'[n], n) >= Length[perFile'[g]][n]
    <3>1. Length[v][n] \in Nat
      BY VersionsAssumption
    <3>2. ASSUME allFunctions[n] # None PROVE EntryLength(allFunctions[n], n) \in Nat
      BY <3>2, VersionsAssumption DEF TypeOK, Entry, EntryLength
    <3>3. CASE g = f
      <4>1. Length[perFile'[g]][n] = Length[v][n] /\ Length[v][n] > 0
        BY <2>3, <2>5, <3>3 DEF HasFunction
      <4>2. CASE allFunctions[n] # None => Length[v][n] > EntryLength(allFunctions[n], n)
        <5>1. allFunctions'[n] = [file |-> f, version |-> v]
          BY <2>2, <4>1, <4>2 DEF AddFunctions
        <5> QED
          BY <3>1, <4>1, <5>1, NoneAssumption DEF EntryLength
      <4>3. CASE ~(allFunctions[n] # None => Length[v][n] > EntryLength(allFunctions[n], n))
        <5>1. allFunctions'[n] = allFunctions[n]
          BY <2>2, <4>3 DEF AddFunctions
        <5> QED
          BY <3>1, <3>2, <4>1, <4>3, <5>1
      <4> QED
        BY <4>2, <4>3
    <3>4. CASE g # f
      <4>1. perFile'[g] = perFile[g] /\ HasFunction(g, n)
        BY <2>3, <2>5, <3>4 DEF HasFunction
      <4>2. /\ allFunctions[n] # None
            /\ EntryLength(allFunctions[n], n) >= Length[perFile[g]][n]
        BY <2>1, <4>1 DEF BatchIndexComplete, LongestIsFound
      <4>3. Length[perFile[g]][n] \in Nat
        BY <4>1, VersionsAssumption DEF HasFunction, TypeOK
      <4>4. CASE allFunctions'[n] = allFunctions[n]
        BY <4>1, <4>2, <4>4
      <4>5. CASE /\ allFunctions'[n] = [file |-> f, version |-> v]
                 /\ Length[v][n] > EntryLength(allFunctions[n], n)
        <5>1. EntryLength(allFunctions'[n], n) = Length[v][n]
          BY <4>5 DEF EntryLength
        <5> QED
          BY <3>1, <3>2, <4>1, <4>2, <4>3, <4>5, <5>1, NoneAssumption
      <4> QED
        BY <2>2, <4>2, <4>4, <4>5 DEF AddFunctions
    <3> QED
      BY <3>3, <3>4
  <2> QED
    BY <2>4, <2>5 DEF ClassIsFound, LongestIsFound, EntryLength
<1>2. ASSUME NEW f \in Files, DeleteMetaForFile(f) PROVE FALSE
  BY <1>2 DEF DeleteMetaForFile
<1>3. CASE ResetInfo
  BY <1>3 DEF ResetInfo, ClassIsFound, LongestIsFound, HasClass, HasFunction
<1>4. CASE UNCHANGED vars
  BY <1>4 DEF vars, BatchIndexComplete, ClassIsFound, LongestIsFound, HasClass, HasFunction, EntryLength
<1> QED
  BY <1>1, <1>2, <1>3, <1>4 DEF Next

(* Indexing the files once each, in any order, finds every declared name   *)
(* and the longest declaration of every function (AddFunctionsNonLocked,   *)
(* metainfo.go).                                                           *)
THEOREM BatchComplete == Spec => []BatchIndexComplete
<1>1. Init => BatchIndexComplete
  BY DEF Init, BatchIndexComplete, ClassIsFound, LongestIsFound, HasClass, HasFunction
<1> QED
  BY <1>1, BatchStep, IndexTypeCorrect, PTL DEF Spec

-----------------------------------------------------------------------------
(* A step in which a name leaves changes a file that declared it; ResetInfo*)
(* needs SymbolsAreDeclared to know of one.                                *)
LEMMA LeaveStep ==
    ASSUME TypeOK, SymbolsAreDeclared, [Next]_vars
    PROVE  /\ \A c \in ClassNames :
                 allClasses[c] # None /\ allClasses'[c] = None =>
                     \E f \in Files : HasClass(f, c) /\ ~HasClass(f, c)'
           /\ \A n \in FunctionNames :
                 allFunctions[n] # None /\ allFunctions'[n] = None =>
                     \E f \in Files : HasFunction(f, n) /\ ~HasFunction(f, n)'
<1>1. ASSUME NEW f \in Files, NEW v \in Versions, UpdateMetaInfo(f, v),
             NEW c \in ClassNames, allClasses[c] # None, allClasses'[c] = None
      PROVE  HasClass(f, c) /\ ~HasClass(f, c)'
  <2>1. perFile'[f] = v
    BY <1>1 DEF UpdateMetaInfo, TypeOK
  <2>2. c \notin Classes[v]
    BY <1>1, NoneAssumption DEF UpdateMetaInfo, AddClasses
  <2>3. ClassesWithout(f)[c] = None
    BY <1>1, <2>2 DEF UpdateMetaInfo, AddClasses
  <2> QED
    BY <1>1, <2>1, <2>2, <2>3 DEF ClassesWithout, HasClass
<1>2. ASSUME NEW f \in Files, NEW v \in Versions, UpdateMetaInfo(f, v),
             NEW n \in FunctionNames, allFunctions[n] # None, allFunctions'[n] = None
      PROVE  HasFunction(f, n) /\ ~HasFunction(f, n)'
  <2>1. perFile'[f] = v
    BY <1>2 DEF UpdateMetaInfo, TypeOK
  <2>2. allFunctions'[n] = AddFunctions(f, v, FunctionsWithout(f))[n]
    BY <1>2 DEF UpdateMetaInfo
  <2>3. FunctionsWithout(f)[n] = None /\ ~(Length[v][n] > 0)
    BY <1>2, <2>2, NoneAssumption DEF AddFunctions
  <2> QED
    BY <1>2, <2>1, <2>3 DEF FunctionsWithout, HasFunction
<1>3. ASSUME NEW f \in Files, DeleteMetaForFile(f),
             NEW c \in ClassNames, allClasses[c] # None, allClasses'[c] = None
      PROVE  HasClass(f, c) /\ ~HasClass(f, c)'
  BY <1>3 DEF DeleteMetaForFile, ClassesWithout, HasClass, TypeOK
<1>4. ASSUME NEW f \in Files, DeleteMetaForFile(f),
             NEW n \in FunctionNames, allFunctions[n] # None, allFunctions'[n] = None
      PROVE  HasFunction(f, n) /\ ~HasFunction(f, n)'
  BY <1>4 DEF DeleteMetaForFile, FunctionsWithout, HasFunction, TypeOK
<1>5. ASSUME ResetInfo, NEW c \in ClassNames, allClasses[c] # None
      PROVE  \E f \in Files : HasClass(f, c) /\ ~HasClass(f, c)'
  <2>1. HasClass(allClasses[c].file, c) /\ allClasses[c].file \in Files
    BY <1>5, NoneAssumption DEF SymbolsAreDeclared, ClassIsDeclared, HasClass, TypeOK, Entry
  <2> QED
    BY <1>5, <2>1 DEF ResetInfo, HasClass
<1>6. ASSUME ResetInfo, NEW n \in FunctionNames, allFunctions[n] # None
      PROVE  \E f \in Files : HasFunction(f, n) /\ ~HasFunction(f, n)'
  <2>1. HasFunction(allFunctions[n].file, n) /\ allFunctions[n].file \in Files
    BY <1>6, NoneAssumption
       DEF SymbolsAreDeclared, FunctionIsDeclared, HasFunction, EntryLength, TypeOK, Entry
  <2> QED
    BY <1>6, <2>1 DEF ResetInfo, HasFunction
<1>7. CASE UNCHANGED vars
  BY <1>7 DEF vars
<1> QED
  BY <1>1, <1>2, <1>3, <1>4, <1>5, <1>6, <1>7 DEF Next

(* A name leaves the index only with a declaration of it (updateMetaInfo,  *)
(* linter/cache.go), whichever file the entry was from.                   *)
THEOREM NamesLeave == Spec => NamesLeaveWithADeclaration
<1>1. TypeOK /\ SymbolsAreDeclared /\ [Next]_vars =>
        [/\ \A c \in ClassNames :
              allClasses[c] # None /\ allClasses'[c] = None =>
                  \E f \in Files : HasClass(f, c) /\ ~HasClass(f, c)'
         /\ \A n \in FunctionNames :
              allFunctions[n] # None /\ allFunctions'[n] = None =>
                  \E f \in Files : HasFunction(f, n) /\ ~HasFunction(f, n)']_vars
  BY LeaveStep
<1> QED
  BY <1>1, IndexTypeCorrect, SymbolsDeclared, PTL DEF Spec, NamesLeaveWithADeclaration
=============================================================================
