------------------------ MODULE ParsePipelineProofs ------------------------
(***************************************************************************)
(* Proofs about ParsePipeline, for every set of files and of workers,      *)
(* every size and every limit: type correctness, the memory limiter's      *)
(* soft limit and its accounting, that ParseFilenames returns everything   *)
(* and handles every file once, that it implements the batch of module     *)
(* ParseBatch, that it never deadlocks and how many steps it can make.     *)
(* At the end, proofs about TokenPool: the tokens of the parser of a file. *)
(***************************************************************************)
EXTENDS ParsePipeline, TokenPool, FoldLemmas, SequenceTheorems

(* The wait group counts the workers that have not called Done.            *)
WaitGroupInv == wg = Cardinality({w \in Workers : pc[w] # "exit"})

(* A worker between Receive and the next turn of its loop holds a file.    *)
FileHeld ==
    \A w \in Workers : pc[w] \in {"open", "wait", "parse", "update"} => file[w] \in Files

TypeInv == PipelineTypeOK /\ WaitGroupInv /\ FileHeld

LEMMA WorkersNotExitedFinite ==
    ASSUME NEW S \in SUBSET Workers
    PROVE  IsFiniteSet(S) /\ Cardinality(S) \in Nat
BY PipelineAssumption, FS_Subset, FS_CardinalityType

(* A step that leaves the set of exited workers alone leaves the count so. *)
LEMMA SameExits ==
    ASSUME WaitGroupInv, wg' = wg,
           {w \in Workers : pc'[w] # "exit"} = {w \in Workers : pc[w] # "exit"}
    PROVE  WaitGroupInv'
BY DEF WaitGroupInv

LEMMA TypeInvInit == PipelineInit => TypeInv
<1> SUFFICES ASSUME PipelineInit PROVE TypeInv
    OBVIOUS
<1>1. Cardinality(Workers) \in Nat
    BY WorkersNotExitedFinite
<1>2. PipelineTypeOK
    <2>1. filenamesCh \in Seq(Files) /\ reportsCh \in Seq(SUBSET Files)
        BY DEF PipelineInit
    <2>2. TypeOK
        BY DEF PipelineInit, Init, TypeOK
    <2>3. pc \in [Workers -> WorkerState] /\ file \in [Workers -> Files \union {NoFile}]
        BY DEF PipelineInit, WorkerState
    <2>4. rep \in [Workers -> SUBSET Files]
        BY DEF PipelineInit
    <2> QED
        BY <1>1, <2>1, <2>2, <2>3, <2>4 DEF PipelineInit, PipelineTypeOK
<1>3. {w \in Workers : pc[w] # "exit"} = Workers
    BY DEF PipelineInit
<1>4. WaitGroupInv
    BY <1>3 DEF WaitGroupInv, PipelineInit
<1>5. FileHeld
    BY DEF FileHeld, PipelineInit
<1> QED
    BY <1>2, <1>4, <1>5 DEF TypeInv

LEMMA TypeInvNext == TypeInv /\ [Next]_pipelineVars => TypeInv'
<1> SUFFICES ASSUME TypeInv, [Next]_pipelineVars
             PROVE  TypeInv'
    OBVIOUS
<1> USE PipelineAssumption, MaxFileSizeAssumption
    DEF TypeInv, limiterVars, producerVars, workerVars, mainVars
<1>1. ASSUME NEW f \in Files, SendFilename(f)
      PROVE  TypeInv'
    <2>1. PipelineTypeOK'
        BY <1>1 DEF SendFilename, PipelineTypeOK, TypeOK
    <2> QED BY <1>1, <2>1 DEF SendFilename, WaitGroupInv, FileHeld
<1>2. CASE CloseFilenames \/ ReaderFatal
    BY <1>2 DEF CloseFilenames, ReaderFatal, PipelineTypeOK, TypeOK, WaitGroupInv, FileHeld
<1>3. ASSUME NEW w \in Workers, WorkerStep(w)
      PROVE  TypeInv'
    <2>1. CASE Receive(w)
        <3>1. Head(filenamesCh) \in Files /\ Tail(filenamesCh) \in Seq(Files)
            BY <2>1 DEF Receive, PipelineTypeOK
        <3>2. PipelineTypeOK'
            BY <2>1, <3>1 DEF Receive, PipelineTypeOK, TypeOK, WorkerState
        <3>3. FileHeld'
            BY <2>1, <3>1 DEF Receive, PipelineTypeOK, FileHeld
        <3>4. WaitGroupInv'
            BY <2>1, SameExits DEF Receive, PipelineTypeOK
        <3> QED BY <3>2, <3>3, <3>4
    <2>2. CASE CacheHit(w) \/ OpenFails(w) \/ OpenSource(w) \/ NoMoreFiles(w)
        <3>1. PipelineTypeOK'
            BY <2>2 DEF CacheHit, OpenFails, OpenSource, NoMoreFiles, PipelineTypeOK, TypeOK, WorkerState
        <3>2. FileHeld'
            BY <2>2 DEF CacheHit, OpenFails, OpenSource, NoMoreFiles, PipelineTypeOK, FileHeld
        <3>3. WaitGroupInv'
            BY <2>2, SameExits DEF CacheHit, OpenFails, OpenSource, NoMoreFiles, PipelineTypeOK
        <3> QED BY <3>1, <3>2, <3>3
    <2>3. CASE BeforeParse(w)
        <3>1. Size[file[w]] \in Nat
            BY <2>3 DEF BeforeParse, FileHeld
        <3>2. PipelineTypeOK'
            BY <2>3, <3>1 DEF BeforeParse, Admit, PipelineTypeOK, TypeOK, WorkerState
        <3>3. FileHeld'
            BY <2>3 DEF BeforeParse, PipelineTypeOK, FileHeld
        <3>4. WaitGroupInv'
            BY <2>3, SameExits DEF BeforeParse, PipelineTypeOK
        <3> QED BY <3>2, <3>3, <3>4
    <2>4. CASE ParseSucceeds(w) \/ ParseFails(w)
        <3>1. Size[file[w]] \in Nat /\ file[w] \in Files
            BY <2>4 DEF ParseSucceeds, ParseFails, FileHeld
        <3>2. PipelineTypeOK'
            <4>1. TypeOK'
                <5>1. Release(Size[file[w]])
                    BY <2>4 DEF ParseSucceeds, ParseFails
                <5>2. used' \in Int
                    BY <3>1, <5>1 DEF Release, PipelineTypeOK, TypeOK
                <5>3. admitting' = TRUE \/ admitting' = admitting
                    BY <5>1 DEF Release
                <5> QED BY <5>2, <5>3 DEF PipelineTypeOK, TypeOK
            <4>2. pc' \in [Workers -> WorkerState]
                BY <2>4 DEF ParseSucceeds, ParseFails, PipelineTypeOK, WorkerState
            <4>3. file' \in [Workers -> Files \union {NoFile}]
                BY <2>4 DEF ParseSucceeds, ParseFails, PipelineTypeOK
            <4>4. rep' \in [Workers -> SUBSET Files]
                BY <2>4, <3>1 DEF ParseSucceeds, ParseFails, PipelineTypeOK
            <4> QED
                BY <2>4, <4>1, <4>2, <4>3, <4>4 DEF ParseSucceeds, ParseFails, PipelineTypeOK
        <3>3. FileHeld'
            BY <2>4 DEF ParseSucceeds, ParseFails, PipelineTypeOK, FileHeld
        <3>4. WaitGroupInv'
            BY <2>4, SameExits DEF ParseSucceeds, ParseFails, PipelineTypeOK
        <3> QED BY <3>2, <3>3, <3>4
    <2>5. CASE UpdateMeta(w)
        <3>1. file[w] \in Files
            BY <2>5 DEF UpdateMeta, FileHeld
        <3>2. PipelineTypeOK'
            BY <2>5, <3>1 DEF UpdateMeta, PipelineTypeOK, TypeOK, WorkerState
        <3>3. FileHeld'
            BY <2>5 DEF UpdateMeta, PipelineTypeOK, FileHeld
        <3>4. WaitGroupInv'
            BY <2>5, SameExits DEF UpdateMeta, PipelineTypeOK
        <3> QED BY <3>2, <3>3, <3>4
    <2>6. CASE SendReports(w)
        <3>1. PipelineTypeOK'
            BY <2>6 DEF SendReports, PipelineTypeOK, TypeOK, WorkerState
        <3>2. FileHeld'
            BY <2>6 DEF SendReports, PipelineTypeOK, FileHeld
        <3>3. WaitGroupInv'
            BY <2>6, SameExits DEF SendReports, PipelineTypeOK
        <3> QED BY <3>1, <3>2, <3>3
    <2>7. CASE WorkerDone(w)
        <3> DEFINE Running == {v \in Workers : pc[v] # "exit"}
        <3>1. w \in Running /\ IsFiniteSet(Running)
            BY <2>7, WorkersNotExitedFinite DEF WorkerDone
        <3>2. {v \in Workers : pc'[v] # "exit"} = Running \ {w}
            BY <2>7 DEF WorkerDone, PipelineTypeOK
        <3>3. Cardinality(Running \ {w}) = Cardinality(Running) - 1
            BY <3>1, FS_RemoveElement
        <3>4. WaitGroupInv'
            BY <2>7, <3>2, <3>3 DEF WorkerDone, WaitGroupInv
        <3>5. wg' \in Nat
            BY <3>2, <3>4, WorkersNotExitedFinite DEF WaitGroupInv
        <3>6. PipelineTypeOK'
            BY <2>7, <3>5 DEF WorkerDone, PipelineTypeOK, TypeOK, WorkerState
        <3>7. FileHeld'
            BY <2>7 DEF WorkerDone, PipelineTypeOK, FileHeld
        <3> QED BY <3>4, <3>6, <3>7
    <2> QED
        BY <1>3, <2>1, <2>2, <2>3, <2>4, <2>5, <2>6, <2>7 DEF WorkerStep
<1>4. CASE WaitReturns \/ ReturnReports
    BY <1>4 DEF WaitReturns, ReturnReports, PipelineTypeOK, TypeOK, WaitGroupInv, FileHeld
<1>5. CASE Collect
    <2>1. Head(reportsCh) \in SUBSET Files /\ Tail(reportsCh) \in Seq(SUBSET Files)
        BY <1>5 DEF Collect, PipelineTypeOK
    <2> QED
        BY <1>5, <2>1 DEF Collect, PipelineTypeOK, TypeOK, WaitGroupInv, FileHeld
<1>6. CASE UNCHANGED pipelineVars
    BY <1>6 DEF pipelineVars, PipelineTypeOK, TypeOK, WaitGroupInv, FileHeld
<1> QED
    BY <1>1, <1>2, <1>3, <1>4, <1>5, <1>6 DEF Next, ProducerStep, MainStep, Stopped

(* Every variable of the pipeline keeps its type; in particular the wait   *)
(* group's counter never goes below zero (which would be a panic).         *)
THEOREM PipelineTypeCorrect == PipelineSpec => []PipelineTypeOK
<1>1. PipelineSpec => []TypeInv
    BY TypeInvInit, TypeInvNext, PTL DEF PipelineSpec
<1>2. TypeInv => PipelineTypeOK
    BY DEF TypeInv
<1> QED BY <1>1, <1>2, PTL

-----------------------------------------------------------------------------
(* The soft limit.  SoftLimit is inductive over TypeInv: only Admit closes *)
(* the limiter, and the worker it admits is then the witness, until it is  *)
(* that worker's own Finish that brings the bytes back within the limit.   *)

LEMMA SoftLimitInit == PipelineInit => SoftLimit
BY MaxFileSizeAssumption DEF PipelineInit, Init, SoftLimit

LEMMA SoftLimitAdmit ==
    ASSUME TypeInv, SoftLimit, NEW w \in Workers, BeforeParse(w)
    PROVE  SoftLimit'
<1> USE MaxFileSizeAssumption, PipelineAssumption
<1>1. used \in Int /\ Size[file[w]] \in Nat
    BY DEF TypeInv, PipelineTypeOK, TypeOK, FileHeld, BeforeParse
<1>2. used <= MaxFileSize
    BY DEF SoftLimit, BeforeParse, Admit
<1>3. admitting' <=> used' <= MaxFileSize
    BY <1>1 DEF BeforeParse, Admit
<1>4. w \in Parsing' /\ file' = file
    BY DEF BeforeParse, Parsing, TypeInv, PipelineTypeOK, WorkerState
<1>5. used' - Size[file'[w]] <= MaxFileSize
    BY <1>1, <1>2, <1>4 DEF BeforeParse, Admit
<1> QED
    BY <1>3, <1>4, <1>5 DEF SoftLimit

LEMMA SoftLimitRelease ==
    ASSUME TypeInv, SoftLimit, NEW w \in Workers, ParseSucceeds(w) \/ ParseFails(w)
    PROVE  SoftLimit'
<1> USE MaxFileSizeAssumption, PipelineAssumption
<1>1. used \in Int /\ Size[file[w]] \in Nat /\ admitting \in BOOLEAN
    BY DEF TypeInv, PipelineTypeOK, TypeOK, FileHeld, ParseSucceeds, ParseFails
<1>2. /\ used' = used - Size[file[w]]
      /\ admitting' = IF used - Size[file[w]] <= MaxFileSize THEN TRUE ELSE admitting
    BY DEF ParseSucceeds, ParseFails, Release
<1>3. admitting' <=> used' <= MaxFileSize
    BY <1>1, <1>2 DEF SoftLimit
<1>4. ASSUME used' > MaxFileSize
      PROVE  \E v \in Parsing' : used' - Size[file'[v]] <= MaxFileSize
    <2>1. PICK v \in Parsing : used - Size[file[v]] <= MaxFileSize
        BY <1>1, <1>2, <1>4 DEF SoftLimit
    <2>2. Size[file[v]] \in Nat
        BY DEF Parsing, TypeInv, FileHeld
    <2>3. v # w
        BY <1>1, <1>2, <1>4, <2>1
    <2>4. v \in Parsing' /\ file'[v] = file[v]
        BY <2>1, <2>3 DEF Parsing, ParseSucceeds, ParseFails, TypeInv, PipelineTypeOK
    <2>5. used' - Size[file'[v]] <= MaxFileSize
        BY <1>1, <1>2, <2>1, <2>2, <2>4
    <2> QED BY <2>4, <2>5
<1> QED
    BY <1>3, <1>4 DEF SoftLimit

(* Every other step leaves the limiter, the files and the set of workers   *)
(* that are parsing as they are.                                           *)
LEMMA SoftLimitFrame ==
    ASSUME SoftLimit, UNCHANGED <<used, admitting>>,
           \A w \in Parsing : w \in Parsing' /\ file'[w] = file[w]
    PROVE  SoftLimit'
BY DEF SoftLimit

LEMMA SoftLimitNext == TypeInv /\ SoftLimit /\ [Next]_pipelineVars => SoftLimit'
<1> SUFFICES ASSUME TypeInv, SoftLimit, [Next]_pipelineVars
             PROVE  SoftLimit'
    OBVIOUS
<1> USE DEF limiterVars, producerVars, workerVars, mainVars
<1>1. CASE \/ ProducerStep \/ ReaderFatal \/ MainStep \/ UNCHANGED pipelineVars
    BY <1>1, SoftLimitFrame
    DEF ProducerStep, SendFilename, CloseFilenames, ReaderFatal, MainStep, WaitReturns,
        Collect, ReturnReports, pipelineVars, Parsing
<1>2. ASSUME NEW w \in Workers, WorkerStep(w)
      PROVE  SoftLimit'
    <2>1. CASE BeforeParse(w)
        BY <2>1, SoftLimitAdmit
    <2>2. CASE ParseSucceeds(w) \/ ParseFails(w)
        BY <2>2, SoftLimitRelease
    <2>3. CASE Receive(w) \/ CacheHit(w) \/ OpenFails(w) \/ OpenSource(w) \/ UpdateMeta(w)
        BY <2>3, SoftLimitFrame
        DEF Receive, CacheHit, OpenFails, OpenSource, UpdateMeta, Parsing, TypeInv, PipelineTypeOK
    <2>4. CASE NoMoreFiles(w) \/ SendReports(w) \/ WorkerDone(w)
        BY <2>4, SoftLimitFrame
        DEF NoMoreFiles, SendReports, WorkerDone, Parsing, TypeInv, PipelineTypeOK
    <2> QED
        BY <1>2, <2>1, <2>2, <2>3, <2>4 DEF WorkerStep
<1> QED
    BY <1>1, <1>2 DEF Next, Stopped

(* The limiter lets at most one file over the limit and is closed exactly  *)
(* while the bytes being parsed are above it, and then somebody is parsing *)
(* who will call Finish: BeforeParse never blocks for good on an idle      *)
(* limiter, whatever the sizes and the number of workers.                  *)
THEOREM SoftLimitHolds == PipelineSpec => []SoftLimit
<1>1. TypeInv /\ SoftLimit /\ [Next]_pipelineVars => (TypeInv /\ SoftLimit)'
    BY TypeInvNext, SoftLimitNext
<1>2. PipelineInit => TypeInv /\ SoftLimit
    BY TypeInvInit, SoftLimitInit
<1> QED BY <1>1, <1>2, PTL DEF PipelineSpec

-----------------------------------------------------------------------------
(* The limiter's accounting.  A worker is admitted when it begins to parse *)
(* and finishes when it stops, on every path, with the same file: a step   *)
(* puts one worker into the sum or takes it out, or leaves it alone.       *)

Load == [w \in Workers |-> IF file[w] = NoFile THEN 0 ELSE Size[file[w]]]

LEMMA LoadParsing ==
    ASSUME TypeInv
    PROVE  /\ IsFiniteSet(Parsing)
           /\ \A w \in Parsing : Load[w] = Size[file[w]] /\ Load[w] \in Int
<1>1. IsFiniteSet(Parsing)
    BY WorkersNotExitedFinite DEF Parsing
<1>2. \A w \in Parsing : Load[w] = Size[file[w]] /\ Load[w] \in Int
    BY PipelineAssumption DEF Parsing, Load, TypeInv, FileHeld
<1> QED BY <1>1, <1>2

LEMMA AccountingAdmit ==
    ASSUME TypeInv, LimiterAccounting, NEW w \in Workers, BeforeParse(w)
    PROVE  LimiterAccounting'
<1>1. Parsing' = Parsing \union {w} /\ w \notin Parsing
    BY DEF BeforeParse, Parsing, TypeInv, PipelineTypeOK, WorkerState
<1>2. Load' = Load
    BY DEF Load, BeforeParse
<1>3. used' = used + Size[file[w]]
    BY DEF BeforeParse, Admit
<1>4. Load[w] = Size[file[w]] /\ Load[w] \in Int
    BY PipelineAssumption DEF Load, BeforeParse, TypeInv, FileHeld
<1>5. IsFiniteSet(Parsing) /\ \A v \in Parsing : Load[v] \in Int
    BY LoadParsing
<1>6. IsFiniteSet(Parsing') /\ \A v \in Parsing' : Load[v] \in Int
    BY <1>1, <1>4, <1>5, FS_AddElement
<1>7. SumFunctionOnSet(Load, Parsing') = Load[w] + SumFunctionOnSet(Load, Parsing' \ {w})
    BY <1>1, <1>6, SumTakeOut
<1>8. Parsing' \ {w} = Parsing
    BY <1>1
<1>9. used = SumFunctionOnSet(Load, Parsing) /\ used \in Int
    BY DEF LimiterAccounting, Load, TypeInv, PipelineTypeOK, TypeOK
<1>10. used' = Load[w] + used
    BY <1>3, <1>4, <1>9
<1>11. used' = SumFunctionOnSet(Load', Parsing')
    BY <1>2, <1>7, <1>8, <1>9, <1>10
<1> QED BY <1>11 DEF LimiterAccounting, Load

LEMMA AccountingRelease ==
    ASSUME TypeInv, LimiterAccounting, NEW w \in Workers, ParseSucceeds(w) \/ ParseFails(w)
    PROVE  LimiterAccounting'
<1>1. Parsing' = Parsing \ {w} /\ w \in Parsing
    BY DEF ParseSucceeds, ParseFails, Parsing, TypeInv, PipelineTypeOK, WorkerState
<1>2. \A v \in Parsing' : Load'[v] = Load[v]
    BY <1>1 DEF Load, Parsing, ParseSucceeds, ParseFails, TypeInv, PipelineTypeOK
<1>3. used' = used - Size[file[w]]
    BY DEF ParseSucceeds, ParseFails, Release
<1>4. IsFiniteSet(Parsing) /\ \A v \in Parsing : Load[v] = Size[file[v]] /\ Load[v] \in Int
    BY LoadParsing
<1>5. SumFunctionOnSet(Load, Parsing) = Load[w] + SumFunctionOnSet(Load, Parsing')
    BY <1>1, <1>4, SumTakeOut
<1>6. IsFiniteSet(Parsing') /\ \A v \in Parsing' : Load[v] \in Int
    BY <1>1, <1>4, FS_Subset
<1>7. SumFunctionOnSet(Load', Parsing') = SumFunctionOnSet(Load, Parsing')
    BY <1>2, <1>6, SumAgree
<1>8. SumFunctionOnSet(Load, Parsing') \in Int
    BY <1>6, SumTakeOut
<1>9. used = SumFunctionOnSet(Load, Parsing)
    BY DEF LimiterAccounting, Load
<1>10. used' = SumFunctionOnSet(Load', Parsing')
    BY <1>1, <1>3, <1>4, <1>5, <1>7, <1>8, <1>9
<1> QED BY <1>10 DEF LimiterAccounting, Load

LEMMA AccountingFrame ==
    ASSUME TypeInv, LimiterAccounting, used' = used, Parsing' = Parsing,
           \A w \in Parsing : file'[w] = file[w]
    PROVE  LimiterAccounting'
<1>1. IsFiniteSet(Parsing) /\ \A w \in Parsing : Load[w] \in Int
    BY LoadParsing
<1>2. \A w \in Parsing : Load'[w] = Load[w]
    BY DEF Load, Parsing
<1>3. SumFunctionOnSet(Load', Parsing) = SumFunctionOnSet(Load, Parsing)
    BY <1>1, <1>2, SumAgree
<1>4. used = SumFunctionOnSet(Load, Parsing)
    BY DEF LimiterAccounting, Load
<1>5. used' = SumFunctionOnSet(Load', Parsing')
    BY <1>3, <1>4
<1> QED BY <1>5 DEF LimiterAccounting, Load

LEMMA AccountingInit == PipelineInit => LimiterAccounting
<1> SUFFICES ASSUME PipelineInit PROVE LimiterAccounting
    OBVIOUS
<1>1. Parsing = {}
    BY DEF PipelineInit, Parsing
<1>2. IsFiniteSet(Parsing) /\ \A w \in Parsing : Load[w] \in Int
    BY <1>1, FS_EmptySet
<1>3. SumFunctionOnSet(Load, {}) = 0
    BY <1>2, SumTakeOut
<1>4. used = SumFunctionOnSet(Load, Parsing)
    BY <1>1, <1>3 DEF PipelineInit, Init
<1> QED BY <1>4 DEF LimiterAccounting, Load

LEMMA AccountingNext == TypeInv /\ LimiterAccounting /\ [Next]_pipelineVars => LimiterAccounting'
<1> SUFFICES ASSUME TypeInv, LimiterAccounting, [Next]_pipelineVars
             PROVE  LimiterAccounting'
    OBVIOUS
<1> USE DEF limiterVars, producerVars, workerVars, mainVars
<1>1. CASE \/ ProducerStep \/ ReaderFatal \/ MainStep \/ UNCHANGED pipelineVars
    BY <1>1, AccountingFrame
    DEF ProducerStep, SendFilename, CloseFilenames, ReaderFatal, MainStep, WaitReturns,
        Collect, ReturnReports, pipelineVars, Parsing
<1>2. ASSUME NEW w \in Workers, WorkerStep(w)
      PROVE  LimiterAccounting'
    <2>1. CASE BeforeParse(w)
        BY <2>1, AccountingAdmit
    <2>2. CASE ParseSucceeds(w) \/ ParseFails(w)
        BY <2>2, AccountingRelease
    <2>3. CASE Receive(w) \/ CacheHit(w) \/ OpenFails(w) \/ OpenSource(w) \/ UpdateMeta(w)
        BY <2>3, AccountingFrame
        DEF Receive, CacheHit, OpenFails, OpenSource, UpdateMeta, Parsing, TypeInv, PipelineTypeOK
    <2>4. CASE NoMoreFiles(w) \/ SendReports(w) \/ WorkerDone(w)
        BY <2>4, AccountingFrame
        DEF NoMoreFiles, SendReports, WorkerDone, Parsing, TypeInv, PipelineTypeOK
    <2> QED
        BY <1>2, <2>1, <2>2, <2>3, <2>4 DEF WorkerStep
<1> QED
    BY <1>1, <1>2 DEF Next, Stopped

(* The bytes the limiter counts are those of the files being parsed, for   *)
(* any sizes and any number of workers: no way out of ParseContents, by a  *)
(* tree, an error or a panic, keeps bytes or gives them back twice.        *)
THEOREM LimiterAccountingHolds == PipelineSpec => []LimiterAccounting
<1>1. TypeInv /\ LimiterAccounting /\ [Next]_pipelineVars => (TypeInv /\ LimiterAccounting)'
    BY TypeInvNext, AccountingNext
<1>2. PipelineInit => TypeInv /\ LimiterAccounting
    BY TypeInvInit, AccountingInit
<1> QED BY <1>1, <1>2, PTL DEF PipelineSpec

-----------------------------------------------------------------------------
(* ParseFilenames returns everything.  The argument: a worker leaves its   *)
(* loop only when nothing is left to receive, ever (Drained); a worker     *)
(* that has sent its list is counted in received or in the channel, and    *)
(* its reports are in one or the other (Delivery); wg = 0 says that all of *)
(* them have sent.                                                         *)

Sent == {w \in Workers : pc[w] \in {"done", "exit"}}

Drained ==
    /\ closed => unread = {}
    /\ \A w \in Workers : pc[w] \in {"send", "done", "exit"} => closed /\ filenamesCh = <<>>
    /\ \A w \in Workers : pc[w] \in {"recv", "send", "done", "exit"} => file[w] = NoFile

Delivery ==
    /\ received + Len(reportsCh) = Cardinality(Sent)
    /\ allReports \union UNION Range(reportsCh) = UNION {rep[w] : w \in Sent}

Waited ==
    /\ main \in {"collect", "returned"} => \A w \in Workers : pc[w] = "exit"
    /\ main = "returned" => received = Cardinality(Workers)

ReturnInv == Drained /\ Delivery /\ Waited

LEMMA RangeAppend ==
    ASSUME NEW S, NEW s \in Seq(S), NEW x \in S
    PROVE  UNION Range(Append(s, x)) = x \union UNION Range(s)
<1>1. Range(Append(s, x)) = Range(s) \union {x}
    <2>1. \A i \in 1..Len(s) : Append(s, x)[i] = s[i]
        OBVIOUS
    <2>2. Append(s, x)[Len(s) + 1] = x /\ Len(Append(s, x)) = Len(s) + 1
        OBVIOUS
    <2>3. DOMAIN Append(s, x) = 1..(Len(s) + 1) /\ DOMAIN s = 1..Len(s) /\ Len(s) \in Nat
        OBVIOUS
    <2>4. 1..(Len(s) + 1) = 1..Len(s) \union {Len(s) + 1}
        BY <2>3
    <2> QED BY <2>1, <2>2, <2>3, <2>4 DEF Range
<1> QED BY <1>1

LEMMA RangeHeadTail ==
    ASSUME NEW S, NEW s \in Seq(S), s # <<>>
    PROVE  UNION Range(s) = Head(s) \union UNION Range(Tail(s))
<1>1. Len(s) \in Nat /\ Len(s) > 0 /\ DOMAIN s = 1..Len(s)
    OBVIOUS
<1>2. Head(s) = s[1] /\ Len(Tail(s)) = Len(s) - 1 /\ DOMAIN Tail(s) = 1..(Len(s) - 1)
    BY <1>1
<1>3. \A i \in 1..(Len(s) - 1) : Tail(s)[i] = s[i + 1]
    BY <1>1
<1>4. Range(s) = {Head(s)} \union Range(Tail(s))
    <2>1. ASSUME NEW i \in 1..Len(s) PROVE s[i] \in {Head(s)} \union Range(Tail(s))
        <3>1. CASE i = 1
            BY <3>1, <1>2
        <3>2. CASE i # 1
            <4>1. i - 1 \in 1..(Len(s) - 1)
                BY <1>1, <3>2
            <4>2. Tail(s)[i - 1] = s[i]
                BY <1>3, <4>1
            <4> QED BY <1>2, <4>1, <4>2 DEF Range
        <3> QED BY <3>1, <3>2
    <2>2. ASSUME NEW i \in 1..(Len(s) - 1) PROVE Tail(s)[i] \in Range(s)
        <3>1. i + 1 \in 1..Len(s)
            BY <1>1
        <3> QED BY <1>1, <1>3, <3>1 DEF Range
    <2>3. Head(s) \in Range(s)
        BY <1>1, <1>2 DEF Range
    <2> QED BY <1>1, <1>2, <2>1, <2>2, <2>3 DEF Range
<1> QED BY <1>4

LEMMA ReturnInvInit == PipelineInit => ReturnInv
<1> SUFFICES ASSUME PipelineInit PROVE ReturnInv
    OBVIOUS
<1>1. Sent = {}
    BY DEF Sent, PipelineInit
<1>2. Len(reportsCh) = 0 /\ Range(reportsCh) = {}
    BY DEF PipelineInit, Range
<1>3. Delivery
    BY <1>1, <1>2, FS_EmptySet DEF Delivery, PipelineInit
<1>4. Drained /\ Waited
    BY DEF Drained, Waited, PipelineInit
<1> QED BY <1>3, <1>4 DEF ReturnInv

(* A step of a worker that has not sent its list touches neither half of   *)
(* Delivery.                                                               *)
LEMMA DeliveryFrame ==
    ASSUME Delivery, UNCHANGED <<received, reportsCh, allReports>>,
           Sent' = Sent, \A w \in Sent : rep'[w] = rep[w]
    PROVE  Delivery'
BY DEF Delivery

LEMMA ReturnInvNext == TypeInv /\ ReturnInv /\ [Next]_pipelineVars => ReturnInv'
<1> SUFFICES ASSUME TypeInv, ReturnInv, [Next]_pipelineVars
             PROVE  ReturnInv'
    OBVIOUS
<1> USE DEF limiterVars, producerVars, workerVars, mainVars, ReturnInv
<1>t. /\ pc \in [Workers -> WorkerState]
      /\ file \in [Workers -> Files \union {NoFile}]
      /\ rep \in [Workers -> SUBSET Files]
      /\ reportsCh \in Seq(SUBSET Files)
      /\ filenamesCh \in Seq(Files)
      /\ received \in Nat
    BY DEF TypeInv, PipelineTypeOK
<1>1. ASSUME NEW f \in Files, SendFilename(f)
      PROVE  ReturnInv'
    <2>1. ~closed
        BY <1>1 DEF SendFilename, Drained
    <2>2. Drained'
        BY <1>1, <2>1 DEF SendFilename, Drained
    <2>3. Delivery'
        BY <1>1, DeliveryFrame DEF SendFilename, Sent
    <2>4. Waited'
        BY <1>1 DEF SendFilename, Waited
    <2> QED BY <2>2, <2>3, <2>4
<1>2. CASE CloseFilenames \/ ReaderFatal
    <2>1. Drained'
        BY <1>2 DEF CloseFilenames, ReaderFatal, Drained
    <2>2. Delivery'
        BY <1>2, DeliveryFrame DEF CloseFilenames, ReaderFatal, Sent
    <2>3. Waited'
        BY <1>2 DEF CloseFilenames, ReaderFatal, Waited
    <2> QED BY <2>1, <2>2, <2>3
<1>3. ASSUME NEW w \in Workers, WorkerStep(w)
      PROVE  ReturnInv'
    <2>1. CASE \/ CacheHit(w) \/ OpenFails(w) \/ OpenSource(w) \/ BeforeParse(w)
               \/ UpdateMeta(w) \/ ParseFails(w)
        <3>1. Sent' = Sent /\ rep' = rep
            BY <2>1, <1>t DEF CacheHit, OpenFails, OpenSource, BeforeParse, UpdateMeta, ParseFails, Sent
        <3>2. Delivery'
            BY <2>1, <3>1, DeliveryFrame
            DEF CacheHit, OpenFails, OpenSource, BeforeParse, UpdateMeta, ParseFails
        <3>3. Drained'
            BY <2>1, <1>t DEF CacheHit, OpenFails, OpenSource, BeforeParse, UpdateMeta, ParseFails, Drained
        <3>4. Waited'
            BY <2>1, <1>t DEF CacheHit, OpenFails, OpenSource, BeforeParse, UpdateMeta, ParseFails, Waited
        <3> QED BY <3>2, <3>3, <3>4
    <2>2. CASE ParseSucceeds(w)
        <3>1. Sent' = Sent /\ w \notin Sent
            BY <2>2, <1>t DEF ParseSucceeds, Sent
        <3>2. \A v \in Sent : rep'[v] = rep[v]
            BY <2>2, <1>t, <3>1 DEF ParseSucceeds, Sent
        <3>3. Delivery'
            BY <2>2, <3>1, <3>2, DeliveryFrame DEF ParseSucceeds
        <3>4. Drained'
            BY <2>2, <1>t DEF ParseSucceeds, Drained
        <3>5. Waited'
            BY <2>2, <1>t DEF ParseSucceeds, Waited
        <3> QED BY <3>3, <3>4, <3>5
    <2>3. CASE Receive(w) \/ NoMoreFiles(w)
        <3>1. Sent' = Sent /\ rep' = rep
            BY <2>3, <1>t DEF Receive, NoMoreFiles, Sent
        <3>2. Delivery'
            BY <2>3, <3>1, DeliveryFrame DEF Receive, NoMoreFiles
        <3>3. Drained'
            BY <2>3, <1>t DEF Receive, NoMoreFiles, Drained
        <3>4. Waited'
            BY <2>3, <1>t DEF Receive, NoMoreFiles, Waited
        <3> QED BY <3>2, <3>3, <3>4
    <2>4. CASE SendReports(w)
        <3>1. Sent' = Sent \union {w} /\ w \notin Sent /\ rep' = rep
            BY <2>4, <1>t DEF SendReports, Sent
        <3>2. Cardinality(Sent') = Cardinality(Sent) + 1
            <4>1. IsFiniteSet(Sent)
                BY WorkersNotExitedFinite DEF Sent
            <4> QED BY <3>1, <4>1, FS_AddElement
        <3>3. Len(reportsCh') = Len(reportsCh) + 1 /\ Len(reportsCh) \in Nat
            BY <2>4, <1>t DEF SendReports
        <3>4. UNION Range(reportsCh') = rep[w] \union UNION Range(reportsCh)
            BY <2>4, <1>t, RangeAppend DEF SendReports
        <3>5. UNION {rep'[v] : v \in Sent'} = rep[w] \union UNION {rep[v] : v \in Sent}
            BY <3>1
        <3>6. Cardinality(Sent) \in Nat
            BY WorkersNotExitedFinite DEF Sent
        <3>7. received' = received /\ allReports' = allReports
            BY <2>4 DEF SendReports
        <3>8. Delivery'
            <4>1. received' + Len(reportsCh') = Cardinality(Sent')
                BY <1>t, <3>2, <3>3, <3>6, <3>7 DEF Delivery
            <4>2. (allReports \union UNION Range(reportsCh))' = UNION {rep'[v] : v \in Sent'}
                BY <3>4, <3>5, <3>7 DEF Delivery
            <4> QED BY <4>1, <4>2 DEF Delivery
        <3>9. Drained' /\ Waited'
            BY <2>4, <1>t DEF SendReports, Drained, Waited
        <3> QED BY <3>8, <3>9
    <2>5. CASE WorkerDone(w)
        <3>1. Sent' = Sent /\ rep' = rep
            BY <2>5, <1>t DEF WorkerDone, Sent
        <3>2. Delivery'
            BY <2>5, <3>1, DeliveryFrame DEF WorkerDone
        <3>3. Drained' /\ Waited'
            BY <2>5, <1>t DEF WorkerDone, Drained, Waited
        <3> QED BY <3>2, <3>3
    <2> QED
        BY <1>3, <2>1, <2>2, <2>3, <2>4, <2>5 DEF WorkerStep
<1>4. CASE WaitReturns
    <2>1. \A w \in Workers : pc[w] = "exit"
        <3> DEFINE Running == {w \in Workers : pc[w] # "exit"}
        <3>1. IsFiniteSet(Running) /\ Cardinality(Running) = 0
            BY <1>4, WorkersNotExitedFinite DEF WaitReturns, TypeInv, WaitGroupInv
        <3>2. Running = {}
            BY <3>1, FS_EmptySet
        <3> QED BY <3>2
    <2>2. Drained' /\ Waited'
        BY <1>4, <2>1 DEF WaitReturns, Drained, Waited
    <2>3. Delivery'
        BY <1>4, DeliveryFrame DEF WaitReturns, Sent
    <2> QED BY <2>2, <2>3
<1>5. CASE Collect
    <2>1. UNION Range(reportsCh) = Head(reportsCh) \union UNION Range(Tail(reportsCh))
        BY <1>5, <1>t, RangeHeadTail DEF Collect
    <2>2. Len(Tail(reportsCh)) = Len(reportsCh) - 1 /\ Len(reportsCh) \in Nat
        BY <1>5, <1>t DEF Collect
    <2>3. Sent' = Sent /\ rep' = rep
        BY <1>5 DEF Collect, Sent
    <2>4. Delivery'
        <3>1. received' + Len(reportsCh') = Cardinality(Sent')
            BY <1>5, <1>t, <2>2, <2>3 DEF Collect, Delivery
        <3>2. (allReports \union UNION Range(reportsCh))' = UNION {rep[w] : w \in Sent}
            BY <1>5, <2>1 DEF Collect, Delivery
        <3> QED BY <2>3, <3>1, <3>2 DEF Delivery
    <2>5. Drained' /\ Waited'
        BY <1>5 DEF Collect, Drained, Waited
    <2> QED BY <2>4, <2>5
<1>6. CASE ReturnReports
    <2>1. Drained' /\ Waited'
        BY <1>6 DEF ReturnReports, Drained, Waited
    <2>2. Delivery'
        BY <1>6, DeliveryFrame DEF ReturnReports, Sent
    <2> QED BY <2>1, <2>2
<1>7. CASE UNCHANGED pipelineVars
    <2>1. Drained' /\ Waited'
        BY <1>7 DEF pipelineVars, Drained, Waited
    <2>2. Delivery'
        BY <1>7, DeliveryFrame DEF pipelineVars, Sent
    <2> QED BY <2>1, <2>2
<1> QED
    BY <1>1, <1>2, <1>3, <1>4, <1>5, <1>6, <1>7 DEF Next, ProducerStep, MainStep, Stopped

LEMMA ReturnInvReturns == TypeInv /\ ReturnInv => ReturnsEverything
<1> SUFFICES ASSUME TypeInv, ReturnInv, main = "returned"
             PROVE  InFlight = {} /\ allReports = UNION {rep[w] : w \in Workers}
    BY DEF ReturnsEverything
<1>1. Sent = Workers /\ received = Cardinality(Workers)
    BY DEF ReturnInv, Waited, Sent
<1>2. Len(reportsCh) = 0 /\ reportsCh \in Seq(SUBSET Files)
    <2>1. Cardinality(Workers) \in Nat /\ reportsCh \in Seq(SUBSET Files)
        BY WorkersNotExitedFinite DEF TypeInv, PipelineTypeOK
    <2> QED BY <1>1, <2>1 DEF ReturnInv, Delivery
<1>3. Range(reportsCh) = {}
    BY <1>2 DEF Range
<1>4. allReports = UNION {rep[w] : w \in Workers}
    BY <1>1, <1>3 DEF ReturnInv, Delivery
<1>5. PICK w \in Workers : TRUE
    BY PipelineAssumption
<1>6. closed /\ filenamesCh = <<>> /\ unread = {}
    BY <1>5 DEF ReturnInv, Waited, Drained
<1>7. Busy = {} /\ Range(filenamesCh) = {}
    BY <1>6 DEF Busy, Range, ReturnInv, Waited, Drained
<1>8. InFlight = {}
    BY <1>6, <1>7 DEF InFlight
<1> QED BY <1>4, <1>8

(* When ParseFilenames returns, nothing is left in the reader, in the      *)
(* channel or with a worker, and the caller has the reports of every       *)
(* worker: wg.Wait, the closing of the channel and the capacity of         *)
(* reportsCh fit together for every number of workers and files.           *)
THEOREM ReturnsEverythingHolds == PipelineSpec => []ReturnsEverything
<1>1. TypeInv /\ ReturnInv /\ [Next]_pipelineVars => (TypeInv /\ ReturnInv)'
    BY TypeInvNext, ReturnInvNext
<1>2. PipelineInit => TypeInv /\ ReturnInv
    BY TypeInvInit, ReturnInvInit
<1> QED BY <1>1, <1>2, ReturnInvReturns, PTL DEF PipelineSpec

-----------------------------------------------------------------------------
(* A call of ParseFilenames, with all its goroutines, handles every listed *)
(* file once and so implements the batch that ParseBatch promises.         *)

(* What has taken effect, by the worker that did it: the same as Effect as *)
(* long as no list of reports is lost or doubled (Delivery).               *)
Done == indexed \union {f \in Files : \E w \in Workers : f \in rep[w]}

(* A file is in one place at a time.                                       *)
OnePlace ==
    /\ \A i, j \in DOMAIN filenamesCh : filenamesCh[i] = filenamesCh[j] => i = j
    /\ \A v, w \in Busy : file[v] = file[w] => v = w
    /\ unread \intersect Range(filenamesCh) = {}
    /\ \A w \in Busy : file[w] \notin unread \union Range(filenamesCh)

(* It takes effect when it has left all of them, and once.                 *)
OneEffect ==
    /\ Done \intersect InFlight = {}
    /\ \A v, w \in Workers : v # w => rep[v] \intersect rep[w] = {}

BatchInv == TypeInv /\ ReturnInv /\ OnePlace /\ OneEffect

LEMMA EffectIsDone == TypeInv /\ ReturnInv => Effect = Done
<1> SUFFICES ASSUME TypeInv, ReturnInv PROVE Effect = Done
    OBVIOUS
<1> DEFINE Unsent == {v \in Workers : pc[v] \notin {"done", "exit"}}
           Delivered == UNION {rep[w] : w \in Sent}
           Kept == UNION {rep[w] : w \in Unsent}
<1>1. allReports \union UNION Range(reportsCh) = Delivered
    BY DEF ReturnInv, Delivery
<1>2. Effect = indexed \union Delivered \union Kept
    <2> DEFINE Arriving == UNION Range(reportsCh)
    <2>1. Effect = indexed \union allReports \union Arriving \union Kept
        BY DEF Effect
    <2>2. allReports \union Arriving = Delivered
        BY <1>1
    <2> HIDE DEF Arriving, Delivered, Kept
    <2> QED BY <2>1, <2>2
<1>3. Workers = Sent \union Unsent /\ rep \in [Workers -> SUBSET Files]
    BY DEF Sent, TypeInv, PipelineTypeOK
<1> HIDE DEF Unsent
<1>4. \A x : x \in Delivered <=> \E w \in Sent : x \in rep[w]
    OBVIOUS
<1>5. \A x : x \in Kept <=> \E w \in Unsent : x \in rep[w]
    OBVIOUS
<1> HIDE DEF Delivered, Kept
<1>6. \A x : x \in Effect <=> x \in indexed \/ \E w \in Workers : x \in rep[w]
    BY <1>2, <1>3, <1>4, <1>5
<1>7. \A x : x \in Done <=> x \in indexed \/ \E w \in Workers : x \in rep[w]
    BY <1>3 DEF Done
<1> QED BY <1>6, <1>7

LEMMA BatchInvGivesNoFileTwice == BatchInv => NoFileTwice
BY EffectIsDone DEF BatchInv, OnePlace, OneEffect, NoFileTwice

LEMMA ChannelAppend ==
    ASSUME NEW S, NEW s \in Seq(S), NEW x \in S, x \notin Range(s),
           \A i, j \in DOMAIN s : s[i] = s[j] => i = j
    PROVE  /\ Range(Append(s, x)) = Range(s) \union {x}
           /\ \A i, j \in DOMAIN Append(s, x) : Append(s, x)[i] = Append(s, x)[j] => i = j
<1> DEFINE t == Append(s, x)
<1>1. \A i \in 1..Len(s) : t[i] = s[i]
    OBVIOUS
<1>2. t[Len(s) + 1] = x /\ Len(s) \in Nat
    OBVIOUS
<1>3. DOMAIN t = 1..(Len(s) + 1) /\ DOMAIN s = 1..Len(s)
    OBVIOUS
<1>4. 1..(Len(s) + 1) = 1..Len(s) \union {Len(s) + 1}
    BY <1>2
<1>5. \A i \in 1..Len(s) : s[i] # x
    BY <1>3 DEF Range
<1> HIDE DEF t
<1>6. Range(t) = Range(s) \union {x}
    BY <1>1, <1>2, <1>3, <1>4 DEF Range
<1>7. \A i, j \in DOMAIN t : t[i] = t[j] => i = j
    BY <1>1, <1>2, <1>3, <1>4, <1>5
<1> QED BY <1>6, <1>7 DEF t

LEMMA ChannelTail ==
    ASSUME NEW S, NEW s \in Seq(S), s # <<>>,
           \A i, j \in DOMAIN s : s[i] = s[j] => i = j
    PROVE  /\ Head(s) \in Range(s)
           /\ Range(Tail(s)) = Range(s) \ {Head(s)}
           /\ \A i, j \in DOMAIN Tail(s) : Tail(s)[i] = Tail(s)[j] => i = j
<1> DEFINE t == Tail(s)
<1>1. Len(s) \in Nat /\ Len(s) > 0 /\ DOMAIN s = 1..Len(s)
    OBVIOUS
<1>2. Head(s) = s[1] /\ DOMAIN t = 1..(Len(s) - 1)
    BY <1>1
<1>3. \A i \in 1..(Len(s) - 1) : t[i] = s[i + 1]
    BY <1>1
<1> HIDE DEF t
<1>4. Head(s) \in Range(s)
    BY <1>1, <1>2 DEF Range
<1>5. ASSUME NEW i \in 1..Len(s), i # 1 PROVE s[i] \in Range(t)
    <2>1. i - 1 \in 1..(Len(s) - 1)
        BY <1>1, <1>5
    <2>2. t[i - 1] = s[i]
        BY <1>3, <2>1
    <2> QED BY <1>2, <2>1, <2>2 DEF Range
<1>6. ASSUME NEW i \in 1..(Len(s) - 1) PROVE t[i] \in Range(s) \ {Head(s)}
    <2>1. i + 1 \in 1..Len(s) /\ 1 \in 1..Len(s) /\ i + 1 # 1
        BY <1>1
    <2>2. s[i + 1] # s[1]
        BY <1>1, <2>1
    <2> QED BY <1>1, <1>2, <1>3, <2>1, <2>2 DEF Range
<1>7. Range(t) = Range(s) \ {Head(s)}
    BY <1>1, <1>2, <1>5, <1>6 DEF Range
<1>8. ASSUME NEW i \in DOMAIN t, NEW j \in DOMAIN t, t[i] = t[j] PROVE i = j
    <2>1. i + 1 \in 1..Len(s) /\ j + 1 \in 1..Len(s)
        BY <1>1, <1>2
    <2>2. s[i + 1] = s[j + 1]
        BY <1>2, <1>3, <1>8
    <2>3. i + 1 = j + 1
        BY <1>1, <2>1, <2>2
    <2> QED BY <1>2, <2>3
<1> QED BY <1>4, <1>7, <1>8 DEF t

LEMMA BatchInvInit == PipelineInit => BatchInv
<1> SUFFICES ASSUME PipelineInit PROVE BatchInv
    OBVIOUS
<1>1. Busy = {} /\ Range(filenamesCh) = {} /\ Done = {}
    BY DEF PipelineInit, Busy, Range, Done
<1>2. OnePlace
    BY <1>1 DEF PipelineInit, OnePlace
<1>3. OneEffect
    BY <1>1 DEF PipelineInit, OneEffect
<1> QED
    BY <1>2, <1>3, TypeInvInit, ReturnInvInit DEF BatchInv

-----------------------------------------------------------------------------
(* A step moves a file, or handles one, or does neither.                   *)

Rest == UNCHANGED <<InFlight, Done, indexed>> /\ OnePlace' /\ OneEffect'

Handles(f) ==
    /\ f \in InFlight
    /\ InFlight' = InFlight \ {f}
    /\ Done' \in {Done, Done \union {f}}
    /\ OnePlace' /\ OneEffect'

LEMMA UntouchedFiles ==
    ASSUME BatchInv, UNCHANGED <<unread, filenamesCh, file, rep, indexed>>
    PROVE  Rest
BY DEF BatchInv, Rest, OnePlace, OneEffect, InFlight, Busy, Done

(* A file that moves on is where it was not, and nowhere else.             *)
LEMMA SendMoves ==
    ASSUME BatchInv, NEW f \in Files, SendFilename(f)
    PROVE  Rest
<1> USE DEF workerVars, BatchInv
<1>1. filenamesCh \in Seq(Files) /\ f \in unread /\ f \notin Range(filenamesCh)
    BY DEF SendFilename, TypeInv, PipelineTypeOK, OnePlace
<1>2. /\ Range(filenamesCh') = Range(filenamesCh) \union {f}
      /\ \A i, j \in DOMAIN filenamesCh' : filenamesCh'[i] = filenamesCh'[j] => i = j
    BY <1>1, ChannelAppend DEF SendFilename, OnePlace
<1>3. unread' = unread \ {f} /\ UNCHANGED <<file, rep, indexed>>
    BY DEF SendFilename
<1>4. Busy' = Busy /\ Done' = Done
    BY <1>3 DEF Busy, Done
<1>5. InFlight' = InFlight
    BY <1>1, <1>2, <1>3, <1>4 DEF InFlight
<1>6. OnePlace'
    BY <1>1, <1>2, <1>3, <1>4 DEF OnePlace
<1>7. OneEffect'
    BY <1>3, <1>4, <1>5 DEF OneEffect
<1> QED BY <1>3, <1>4, <1>5, <1>6, <1>7 DEF Rest

LEMMA ReceiveMoves ==
    ASSUME BatchInv, NEW w \in Workers, Receive(w)
    PROVE  Rest
<1> USE DEF producerVars, BatchInv
<1> DEFINE f == Head(filenamesCh)
<1>1. filenamesCh \in Seq(Files) /\ filenamesCh # <<>> /\ file \in [Workers -> Files \union {NoFile}]
    BY DEF Receive, TypeInv, PipelineTypeOK
<1>2. /\ f \in Range(filenamesCh)
      /\ Range(filenamesCh') = Range(filenamesCh) \ {f}
      /\ \A i, j \in DOMAIN filenamesCh' : filenamesCh'[i] = filenamesCh'[j] => i = j
    BY <1>1, ChannelTail DEF Receive, OnePlace
<1>3. f \in Files /\ f # NoFile
    BY <1>1, PipelineAssumption
<1>4. w \notin Busy
    BY DEF Receive, ReturnInv, Drained, Busy
<1>5. UNCHANGED <<unread, rep, indexed>> /\ file' = [file EXCEPT ![w] = f]
    BY DEF Receive
<1> HIDE DEF f
<1>6. Busy' = Busy \union {w} /\ file'[w] = f /\ \A v \in Busy : file'[v] = file[v]
    BY <1>1, <1>3, <1>4, <1>5 DEF Busy
<1>7. Done' = Done
    BY <1>5 DEF Done
<1>8. InFlight' = InFlight
    BY <1>2, <1>5, <1>6 DEF InFlight
<1>9. OnePlace'
    BY <1>2, <1>4, <1>5, <1>6 DEF OnePlace
<1>10. OneEffect'
    BY <1>5, <1>7, <1>8 DEF OneEffect
<1> QED BY <1>5, <1>7, <1>8, <1>9, <1>10 DEF Rest

(* A worker that is through with its file lets go of it, and the file is   *)
(* nowhere else; it may have put it among its reports or into the index.   *)
LEMMA WorkerHandles ==
    ASSUME BatchInv, NEW w \in Workers, w \in Busy,
           UNCHANGED <<unread, filenamesCh>>,
           file' = [file EXCEPT ![w] = NoFile],
           \/ rep' = rep /\ indexed' \in {indexed, indexed \union {file[w]}}
           \/ rep' = [rep EXCEPT ![w] = @ \union {file[w]}] /\ indexed' = indexed
    PROVE  Handles(file[w])
<1> USE DEF BatchInv
<1> DEFINE f == file[w]
<1>1. f \in Files /\ file \in [Workers -> Files \union {NoFile}] /\ rep \in [Workers -> SUBSET Files]
    BY DEF TypeInv, PipelineTypeOK, Busy
<1>2. f \in InFlight /\ f \notin unread \union Range(filenamesCh) /\ \A v \in Busy \ {w} : file[v] # f
    BY DEF InFlight, OnePlace
<1>3. Busy' = Busy \ {w} /\ \A v \in Busy \ {w} : file'[v] = file[v]
    BY <1>1 DEF Busy
<1>4. InFlight' = InFlight \ {f}
    BY <1>2, <1>3 DEF InFlight
<1>5. OnePlace'
    BY <1>3 DEF OnePlace
<1>6. f \notin Done /\ \A v \in Workers : f \notin rep[v]
    BY <1>1, <1>2 DEF OneEffect, Done
<1>7. Done' \in {Done, Done \union {f}}
    <2>1. CASE rep' = rep /\ indexed' \in {indexed, indexed \union {f}}
        BY <2>1 DEF Done
    <2>2. CASE rep' = [rep EXCEPT ![w] = @ \union {f}] /\ indexed' = indexed
        <3>1. /\ rep'[w] = rep[w] \union {f}
              /\ \A v \in Workers \ {w} : rep'[v] = rep[v]
            BY <1>1, <2>2
        <3> QED BY <1>1, <2>2, <3>1 DEF Done
    <2> QED BY <2>1, <2>2
<1>8. \A u, v \in Workers : u # v => rep'[u] \intersect rep'[v] = {}
    <2>1. CASE rep' = rep
        BY <2>1 DEF OneEffect
    <2>2. CASE rep' = [rep EXCEPT ![w] = @ \union {f}]
        <3>1. /\ rep'[w] = rep[w] \union {f}
              /\ \A v \in Workers \ {w} : rep'[v] = rep[v]
            BY <1>1, <2>2
        <3> QED BY <1>6, <3>1 DEF OneEffect
    <2> QED BY <2>1, <2>2
<1>9. OneEffect'
    BY <1>4, <1>7, <1>8 DEF OneEffect
<1> QED BY <1>2, <1>4, <1>5, <1>7, <1>9 DEF Handles

(* Which steps of a worker handle its file.                                *)
LEMMA WorkerStepMoves ==
    ASSUME BatchInv, NEW w \in Workers, WorkerStep(w)
    PROVE  \/ Rest
           \/ /\ \E f \in Files : Handles(f)
              /\ main = "wait"
              /\ UNCHANGED mainVars
<1> USE DEF limiterVars, producerVars, workerVars, mainVars
<1>1. CASE Receive(w)
    <2>1. Rest
        BY <1>1, ReceiveMoves
    <2> QED BY <2>1
<1>2. CASE \/ CacheHit(w) \/ OpenSource(w) \/ BeforeParse(w) \/ NoMoreFiles(w)
           \/ SendReports(w) \/ WorkerDone(w)
           \/ (ParseSucceeds(w) /\ ~needReports)
    <2>1. UNCHANGED <<unread, filenamesCh, file, rep, indexed>>
        BY <1>2
        DEF CacheHit, OpenSource, BeforeParse, NoMoreFiles, SendReports, WorkerDone, ParseSucceeds
    <2>2. Rest
        BY <2>1, UntouchedFiles
    <2> QED BY <2>2
<1>3. CASE \/ OpenFails(w) \/ ParseFails(w) \/ UpdateMeta(w)
           \/ (ParseSucceeds(w) /\ needReports)
    <2>1. pc[w] \in {"open", "parse", "update"} /\ main # "fatal" /\ UNCHANGED mainVars
        BY <1>3 DEF OpenFails, ParseFails, UpdateMeta, ParseSucceeds, Alive
    <2>2. file[w] \in Files /\ w \in Busy
        BY <2>1, PipelineAssumption DEF BatchInv, TypeInv, FileHeld, Busy
    <2>3. main = "wait"
        BY <2>1 DEF BatchInv, ReturnInv, Waited, TypeInv, PipelineTypeOK
    <2>4. UNCHANGED <<unread, filenamesCh>> /\ file' = [file EXCEPT ![w] = NoFile]
        BY <1>3 DEF OpenFails, ParseFails, UpdateMeta, ParseSucceeds
    <2>5. \/ rep' = rep /\ indexed' \in {indexed, indexed \union {file[w]}}
          \/ rep' = [rep EXCEPT ![w] = @ \union {file[w]}] /\ indexed' = indexed
        BY <1>3 DEF OpenFails, ParseFails, UpdateMeta, ParseSucceeds
    <2>6. Handles(file[w])
        BY <2>2, <2>4, <2>5, WorkerHandles
    <2> QED BY <2>1, <2>2, <2>3, <2>6
<1>4. ParseSucceeds(w) => needReports \/ ~needReports
    OBVIOUS
<1> QED
    BY <1>1, <1>2, <1>3, <1>4 DEF WorkerStep

(* What every other goroutine does moves no file either, or sends one.     *)
LEMMA OtherStepMoves ==
    ASSUME BatchInv, ProducerStep \/ ReaderFatal \/ MainStep \/ UNCHANGED pipelineVars
    PROVE  Rest
<1> USE DEF workerVars, producerVars
<1>1. ASSUME NEW f \in Files, SendFilename(f) PROVE Rest
    BY <1>1, SendMoves
<1>2. CASE CloseFilenames \/ ReaderFatal \/ MainStep \/ UNCHANGED pipelineVars
    <2>1. UNCHANGED <<unread, filenamesCh, file, rep, indexed>>
        BY <1>2
        DEF CloseFilenames, ReaderFatal, MainStep, WaitReturns, Collect, ReturnReports, pipelineVars
    <2> QED BY <2>1, UntouchedFiles
<1> QED BY <1>1, <1>2 DEF ProducerStep

LEMMA BatchInvNext == BatchInv /\ [Next]_pipelineVars => BatchInv'
<1> SUFFICES ASSUME BatchInv, [Next]_pipelineVars PROVE BatchInv'
    OBVIOUS
<1>1. TypeInv' /\ ReturnInv'
    BY TypeInvNext, ReturnInvNext DEF BatchInv
<1>2. OnePlace' /\ OneEffect'
    <2>1. ASSUME NEW w \in Workers, WorkerStep(w) PROVE OnePlace' /\ OneEffect'
        BY <2>1, WorkerStepMoves DEF Rest, Handles
    <2>2. CASE ProducerStep \/ ReaderFatal \/ MainStep \/ UNCHANGED pipelineVars
        BY <2>2, OtherStepMoves DEF Rest
    <2> QED BY <2>1, <2>2 DEF Next, Stopped
<1> QED BY <1>1, <1>2 DEF BatchInv

(* No file is taken by two workers, analysed twice or counted twice, for   *)
(* any number of files and workers: a file is in one place at a time, and  *)
(* takes effect when it has left all of them.                              *)
THEOREM NoFileTwiceHolds == PipelineSpec => []NoFileTwice
BY BatchInvInit, BatchInvNext, BatchInvGivesNoFileTwice, PTL DEF PipelineSpec

-----------------------------------------------------------------------------
(* The refinement.                                                         *)

state == IF main \in {"wait", "collect"} THEN "running" ELSE main
returned == IF main = "returned" THEN allReports \union indexed ELSE {}

LEMMA BatchInit == PipelineInit => Batch!Init
<1> SUFFICES ASSUME PipelineInit PROVE Batch!Init
    OBVIOUS
<1>1. Busy = {} /\ Range(filenamesCh) = {} /\ Done = {} /\ main = "wait"
    BY DEF PipelineInit, Busy, Range, Done
<1>2. InFlight = Files
    BY <1>1 DEF PipelineInit, InFlight
<1>3. Effect = {}
    BY <1>1, BatchInvInit, EffectIsDone DEF BatchInv
<1> QED BY <1>1, <1>2, <1>3 DEF Batch!Init

(* A step that moves files about and leaves the caller where it is, or     *)
(* brings it from waiting to collecting, is a stutter of the batch.        *)
LEMMA RestStutters ==
    ASSUME BatchInv, BatchInv', Rest,
           \/ UNCHANGED mainVars
           \/ main \in {"wait", "collect"} /\ main' \in {"wait", "collect"}
    PROVE  UNCHANGED Batch!abstractVars
<1>1. (TypeInv /\ ReturnInv => Effect = Done)'
    BY EffectIsDone, PTL
<1>2. InFlight' = InFlight /\ Effect' = Effect
    BY <1>1, EffectIsDone DEF BatchInv, Rest
<1>3. state' = state /\ returned' = returned
    BY DEF state, returned, mainVars, Rest
<1> QED
    BY <1>2, <1>3 DEF Batch!abstractVars, state, returned

(* A worker that is through with a file is a step Handle of the batch.     *)
LEMMA HandlesIsHandle ==
    ASSUME BatchInv, BatchInv', NEW f \in Files, Handles(f),
           main = "wait", UNCHANGED mainVars
    PROVE  Batch!Handle(f)
<1>1. (TypeInv /\ ReturnInv => Effect = Done)'
    BY EffectIsDone, PTL
<1>2. Effect' \in {Effect, Effect \union {f}}
    BY <1>1, EffectIsDone DEF BatchInv, Handles
<1> QED
    BY <1>2 DEF Batch!Handle, Handles, mainVars

(* Returning the reports is the batch's Return: all workers have exited    *)
(* and their lists are received, so nothing is in flight.                  *)
LEMMA ReturnIsReturn ==
    ASSUME BatchInv, BatchInv', ReturnReports
    PROVE  Batch!Return
<1> USE DEF workerVars, producerVars
<1>1. Rest
    BY OtherStepMoves DEF MainStep
<1>2. (TypeInv /\ ReturnInv => ReturnsEverything)' /\ (TypeInv /\ ReturnInv => Effect = Done)'
    BY ReturnInvReturns, EffectIsDone, PTL
<1>3. main = "collect" /\ main' = "returned" /\ UNCHANGED <<allReports, indexed, rep>>
    BY DEF ReturnReports
<1>4. InFlight' = {} /\ allReports' = UNION {rep'[w] : w \in Workers}
    BY <1>2, <1>3 DEF BatchInv, ReturnsEverything
<1>5. InFlight = {} /\ Effect' = Effect
    BY <1>1, <1>2, <1>4, EffectIsDone DEF Rest, BatchInv
<1>6. allReports \union indexed = Effect
    <2>1. rep \in [Workers -> SUBSET Files]
        BY DEF BatchInv, TypeInv, PipelineTypeOK
    <2>2. \A x : x \in allReports <=> \E w \in Workers : x \in rep[w]
        BY <1>3, <1>4
    <2>3. \A x : x \in Done <=> x \in indexed \/ x \in allReports
        BY <2>1, <2>2 DEF Done
    <2> QED
        BY <2>3, EffectIsDone DEF BatchInv
<1> QED
    BY <1>3, <1>4, <1>5, <1>6 DEF Batch!Return

LEMMA FatalIsFatal ==
    ASSUME BatchInv, BatchInv', ReaderFatal
    PROVE  Batch!Fatal \/ UNCHANGED Batch!abstractVars
<1> USE DEF workerVars, producerVars
<1>1. Rest /\ unread # {} /\ main' = "fatal" /\ main # "fatal"
    BY OtherStepMoves DEF ReaderFatal, Alive
<1>2. InFlight # {} /\ main \in {"wait", "collect", "returned"}
    BY <1>1 DEF InFlight, BatchInv, TypeInv, PipelineTypeOK
<1>3. main # "returned"
    BY <1>2, ReturnInvReturns DEF BatchInv, ReturnsEverything
<1>4. (TypeInv /\ ReturnInv => Effect = Done)'
    BY EffectIsDone, PTL
<1>5. InFlight' = InFlight /\ Effect' = Effect
    BY <1>1, <1>4, EffectIsDone DEF BatchInv, Rest
<1> QED
    BY <1>1, <1>2, <1>3, <1>5 DEF Batch!Fatal

LEMMA BatchNext == BatchInv /\ BatchInv' /\ [Next]_pipelineVars => [Batch!Next]_(Batch!abstractVars)
<1> SUFFICES ASSUME BatchInv, BatchInv', [Next]_pipelineVars
             PROVE  Batch!Next \/ UNCHANGED Batch!abstractVars
    OBVIOUS
<1>1. ASSUME NEW w \in Workers, WorkerStep(w)
      PROVE  Batch!Next \/ UNCHANGED Batch!abstractVars
    <2>1. UNCHANGED mainVars
        BY <1>1
        DEF WorkerStep, Receive, CacheHit, OpenFails, OpenSource, BeforeParse, ParseSucceeds,
            ParseFails, UpdateMeta, NoMoreFiles, SendReports, WorkerDone
    <2>2. CASE Rest
        BY <2>1, <2>2, RestStutters
    <2>3. CASE (\E f \in Files : Handles(f)) /\ main = "wait"
        BY <2>1, <2>3, HandlesIsHandle DEF Batch!Next
    <2> QED BY <1>1, <2>2, <2>3, WorkerStepMoves
<1>2. CASE ProducerStep \/ UNCHANGED pipelineVars
    <2>1. UNCHANGED mainVars
        BY <1>2 DEF ProducerStep, SendFilename, CloseFilenames, pipelineVars, mainVars
    <2> QED BY <1>2, <2>1, OtherStepMoves, RestStutters
<1>3. CASE WaitReturns \/ Collect
    <2>1. main \in {"wait", "collect"} /\ main' \in {"wait", "collect"}
        BY <1>3 DEF WaitReturns, Collect
    <2> QED BY <1>3, <2>1, OtherStepMoves, RestStutters DEF MainStep
<1>4. CASE ReturnReports
    BY <1>4, ReturnIsReturn DEF Batch!Next
<1>5. CASE ReaderFatal
    BY <1>5, FatalIsFatal DEF Batch!Next
<1> QED
    BY <1>1, <1>2, <1>3, <1>4, <1>5 DEF Next, MainStep, Stopped

(* A call of ParseFilenames, for any files, workers, sizes and limit, is a *)
(* batch as ParseBatch promises it: every file is handled once, in some    *)
(* order, and the call returns when all are, with what they produced.      *)
THEOREM PipelineImplementsBatch == PipelineSpec => ImplementsBatch
<1>1. BatchInv /\ [Next]_pipelineVars => BatchInv' /\ [Batch!Next]_(Batch!abstractVars)
    BY BatchInvNext, BatchNext
<1> QED
    BY <1>1, BatchInvInit, BatchInit, PTL DEF PipelineSpec, ImplementsBatch, Batch!Spec

-----------------------------------------------------------------------------
(* That a call ends is a matter of fairness, and out of reach here.  What  *)
(* is not: as long as it has not ended some goroutine can go on, whatever  *)
(* the capacities of the channels, the sizes and the limit; and each step  *)
(* of a goroutine is one of a bounded number.  Fair goroutines can then    *)
(* only end.                                                               *)

(* The guards of the goroutines' steps, in the order of WorkerStep.        *)
WorkerCanGoOn(w) ==
    \/ pc[w] = "recv" /\ (filenamesCh # <<>> \/ closed)
    \/ pc[w] \in {"open", "parse", "update", "done"}
    \/ pc[w] = "wait" /\ admitting
    \/ pc[w] = "send" /\ Len(reportsCh) < ReportsCap

ProducerCanGoOn ==
    \/ unread # {} /\ Len(filenamesCh) < ChanCap
    \/ unread = {} /\ ~closed

MainCanGoOn ==
    \/ main = "wait" /\ wg = 0
    \/ main = "collect" /\ (received < Cardinality(Workers) => reportsCh # <<>>)

NobodyWaitsForNobody ==
    main \in {"wait", "collect"} =>
        ProducerCanGoOn \/ (\E w \in Workers : WorkerCanGoOn(w)) \/ MainCanGoOn

LEMMA SomeoneCanGoOn == TypeInv /\ SoftLimit /\ ReturnInv => NobodyWaitsForNobody
<1> SUFFICES ASSUME TypeInv, SoftLimit, ReturnInv, main \in {"wait", "collect"},
                    ~ProducerCanGoOn, \A w \in Workers : ~WorkerCanGoOn(w), ~MainCanGoOn
             PROVE  FALSE
    BY DEF NobodyWaitsForNobody
<1>1. Cardinality(Workers) \in Nat /\ Cardinality(Sent) \in Nat /\ IsFiniteSet(Sent)
    BY WorkersNotExitedFinite DEF Sent
<1>2. Len(reportsCh) \in Nat /\ received \in Nat /\ received + Len(reportsCh) = Cardinality(Sent)
    BY DEF TypeInv, PipelineTypeOK, ReturnInv, Delivery
<1>3. filenamesCh = <<>> => closed
    <2>1. CASE filenamesCh = <<>>
        <3>1. Len(filenamesCh) < ChanCap
            BY <2>1, PipelineAssumption
        <3> QED BY <3>1 DEF ProducerCanGoOn
    <2> QED BY <2>1
<1>4. \A w \in Workers : pc[w] # "recv"
    BY <1>3 DEF WorkerCanGoOn
<1>5. \A w \in Workers : pc[w] # "wait"
    <2> SUFFICES ASSUME NEW w \in Workers, pc[w] = "wait" PROVE FALSE
        OBVIOUS
    <2>1. ~admitting
        BY DEF WorkerCanGoOn
    <2>2. PICK v \in Parsing : TRUE
        BY <2>1, MaxFileSizeAssumption DEF SoftLimit, TypeInv, PipelineTypeOK, TypeOK
    <2> QED BY <2>2 DEF Parsing, WorkerCanGoOn
<1>6. \A w \in Workers : pc[w] # "send"
    <2> SUFFICES ASSUME NEW w \in Workers, pc[w] = "send" PROVE FALSE
        OBVIOUS
    <2>1. Sent \subseteq Workers /\ Sent # Workers
        BY DEF Sent
    <2>2. Cardinality(Sent) < Cardinality(Workers)
        <3>1. IsFiniteSet(Workers) /\ Sent \in SUBSET Workers
            BY <2>1, PipelineAssumption
        <3>2. Cardinality(Sent) <= Cardinality(Workers) /\ Cardinality(Sent) # Cardinality(Workers)
            BY <2>1, <3>1, FS_Subset
        <3> QED BY <1>1, <3>2
    <2> QED BY <1>1, <1>2, <2>2, PipelineAssumption DEF WorkerCanGoOn
<1>7. \A w \in Workers : pc[w] = "exit"
    BY <1>4, <1>5, <1>6 DEF WorkerCanGoOn, TypeInv, PipelineTypeOK, WorkerState
<1>8. CASE main = "wait"
    <2>1. {w \in Workers : pc[w] # "exit"} = {}
        BY <1>7
    <2>2. wg = 0
        BY <2>1, FS_EmptySet DEF TypeInv, WaitGroupInv
    <2> QED BY <1>8, <2>2 DEF MainCanGoOn
<1>9. CASE main = "collect"
    <2>1. Sent = Workers
        BY <1>7 DEF Sent
    <2>2. received < Cardinality(Workers) => Len(reportsCh) # 0
        BY <1>1, <1>2, <2>1
    <2>3. Len(reportsCh) # 0 => reportsCh # <<>>
        OBVIOUS
    <2> QED BY <1>9, <2>2, <2>3 DEF MainCanGoOn
<1> QED BY <1>8, <1>9

(* For any number of files and workers, any sizes, limit and capacity of   *)
(* filenamesCh: the reader, the limiter, the two channels and the wait     *)
(* group never leave everybody waiting.                                    *)
THEOREM NoDeadlock == PipelineSpec => []NobodyWaitsForNobody
<1>1. TypeInv /\ SoftLimit /\ ReturnInv /\ [Next]_pipelineVars => (TypeInv /\ SoftLimit /\ ReturnInv)'
    BY TypeInvNext, SoftLimitNext, ReturnInvNext
<1>2. PipelineInit => TypeInv /\ SoftLimit /\ ReturnInv
    BY TypeInvInit, SoftLimitInit, ReturnInvInit
<1> QED BY <1>1, <1>2, SomeoneCanGoOn, PTL DEF PipelineSpec

(* How much a worker has ahead of it before it takes its next file, with   *)
(* the way to its exit.                                                    *)
PcWeight ==
    [recv |-> 3, open |-> 7, wait |-> 6, parse |-> 5, update |-> 4, send |-> 2, done |-> 1, exit |-> 0]

Turn == [w \in Workers |-> PcWeight[pc[w]]]

MainWeight ==
    CASE main = "wait"    -> (Cardinality(Workers) - received) + 2
      [] main = "collect" -> (Cardinality(Workers) - received) + 1
      [] OTHER            -> 0

ClosingWeight == IF closed THEN 0 ELSE 1

(* A bound on the steps that all goroutines together have ahead of them.   *)
StepsLeft ==
    6 * Cardinality(unread) + ClosingWeight + 5 * Len(filenamesCh)
        + SumFunctionOnSet(Turn, Workers) + MainWeight

(* The arithmetic of the steps: one file, turn or phase more or less.      *)
LEMMA Fewer ==
    /\ \A u, o, l, t, m \in Nat : 6 * (u - 1) + o + 5 * (l + 1) + t + m < 6 * u + o + 5 * l + t + m
    /\ \A u, o, l, t, m \in Nat : 6 * u + o + 5 * (l - 1) + (t + 4) + m < 6 * u + o + 5 * l + t + m
    /\ \A u, o, l, t, m \in Nat, i \in Int : i < o => 6 * u + i + 5 * l + t + m < 6 * u + o + 5 * l + t + m
    /\ \A u, o, l, t, m \in Nat, i \in Int : i < t => 6 * u + o + 5 * l + i + m < 6 * u + o + 5 * l + t + m
    /\ \A u, o, l, t, m \in Nat, i \in Int : i < m => 6 * u + o + 5 * l + t + i < 6 * u + o + 5 * l + t + m
OBVIOUS

LEMMA TurnType == TypeInv => \A v \in Workers : Turn[v] \in Nat
BY DEF TypeInv, PipelineTypeOK, WorkerState, Turn, PcWeight

LEMMA ListedType == TypeInv => Cardinality(unread) \in Nat /\ Len(filenamesCh) \in Nat /\ IsFiniteSet(unread)
BY PipelineAssumption, FS_Subset, FS_CardinalityType DEF TypeInv, PipelineTypeOK

LEMMA ReceivedWithin == TypeInv /\ ReturnInv => received \in Nat /\ received <= Cardinality(Workers)
<1> SUFFICES ASSUME TypeInv, ReturnInv PROVE received \in Nat /\ received <= Cardinality(Workers)
    OBVIOUS
<1>1. IsFiniteSet(Workers) /\ Sent \in SUBSET Workers
    BY PipelineAssumption DEF Sent
<1>2. Cardinality(Workers) \in Nat /\ Cardinality(Sent) \in Nat /\ Cardinality(Sent) <= Cardinality(Workers)
    BY <1>1, FS_Subset, FS_CardinalityType
<1>3. received \in Nat /\ Len(reportsCh) \in Nat /\ received + Len(reportsCh) = Cardinality(Sent)
    BY DEF TypeInv, PipelineTypeOK, ReturnInv, Delivery
<1> QED BY <1>2, <1>3

LEMMA MainWeightType == TypeInv /\ ReturnInv => MainWeight \in Nat
<1> SUFFICES ASSUME TypeInv, ReturnInv PROVE MainWeight \in Nat
    OBVIOUS
<1>1. Cardinality(Workers) \in Nat
    BY WorkersNotExitedFinite
<1> QED BY <1>1, ReceivedWithin DEF MainWeight

LEMMA StepsNatural == TypeInv /\ ReturnInv => StepsLeft \in Nat
<1> SUFFICES ASSUME TypeInv, ReturnInv PROVE StepsLeft \in Nat
    OBVIOUS
<1>1. SumFunctionOnSet(Turn, Workers) \in Nat
    BY TurnType, SumNat, PipelineAssumption
<1> QED BY <1>1, ListedType, MainWeightType DEF StepsLeft, ClosingWeight

(* One worker moves on: the others' turns are as they were.                *)
LEMMA TurnChanges ==
    ASSUME TypeInv, TypeInv', NEW w \in Workers, \A v \in Workers \ {w} : pc'[v] = pc[v]
    PROVE  /\ SumFunctionOnSet(Turn', Workers)
                = (SumFunctionOnSet(Turn, Workers) - PcWeight[pc[w]]) + PcWeight[pc'[w]]
           /\ SumFunctionOnSet(Turn, Workers) \in Int
<1>1. \A v \in Workers : Turn[v] \in Nat /\ Turn'[v] \in Nat
    <2>1. \A v \in Workers : Turn'[v] \in Nat
        BY DEF TypeInv, PipelineTypeOK, WorkerState, Turn, PcWeight
    <2> QED BY <2>1, TurnType
<1>2. IsFiniteSet(Workers) /\ \A v \in Workers : Turn[v] \in Int /\ Turn'[v] \in Int
    BY <1>1, PipelineAssumption
<1>3. \A v \in Workers \ {w} : Turn'[v] = Turn[v]
    BY DEF Turn
<1>4. SumFunctionOnSet(Turn', Workers) = (SumFunctionOnSet(Turn, Workers) - Turn[w]) + Turn'[w]
    BY <1>2, <1>3, SumChange
<1>5. SumFunctionOnSet(Turn, Workers) \in Int
    BY <1>2, SumTakeOut
<1>6. Turn[w] = PcWeight[pc[w]] /\ Turn'[w] = PcWeight[pc'[w]]
    BY DEF Turn
<1> QED BY <1>4, <1>5, <1>6

LEMMA WorkerCounts ==
    ASSUME TypeInv, TypeInv', ReturnInv, NEW w \in Workers, WorkerStep(w)
    PROVE  StepsLeft' < StepsLeft
<1> USE DEF producerVars, mainVars
<1> DEFINE turns == SumFunctionOnSet(Turn, Workers)
           turns2 == SumFunctionOnSet(Turn', Workers)
<1>1. UNCHANGED <<unread, closed, main, received>> /\ \A v \in Workers \ {w} : pc'[v] = pc[v]
    BY DEF WorkerStep, Receive, CacheHit, OpenFails, OpenSource, BeforeParse, ParseSucceeds,
           ParseFails, UpdateMeta, NoMoreFiles, SendReports, WorkerDone, TypeInv, PipelineTypeOK
<1>2. turns2 = (turns - PcWeight[pc[w]]) + PcWeight[pc'[w]] /\ turns \in Nat
    BY <1>1, TurnChanges, TurnType, SumNat, PipelineAssumption
<1>3. Cardinality(unread) \in Nat /\ Len(filenamesCh) \in Nat /\ MainWeight \in Nat /\ ClosingWeight \in Nat
    BY ListedType, MainWeightType DEF ClosingWeight
<1>4. MainWeight' = MainWeight /\ ClosingWeight' = ClosingWeight
    BY <1>1 DEF MainWeight, ClosingWeight
<1>5. CASE Receive(w)
    <2>1. pc[w] = "recv" /\ pc'[w] = "open" /\ Len(filenamesCh') = Len(filenamesCh) - 1
        BY <1>5 DEF Receive, TypeInv, PipelineTypeOK
    <2>2. turns2 = turns + 4
        BY <1>2, <2>1 DEF PcWeight
    <2> HIDE DEF turns, turns2
    <2>3. StepsLeft = 6 * Cardinality(unread) + ClosingWeight + 5 * Len(filenamesCh) + turns + MainWeight
        BY DEF StepsLeft, turns
    <2>4. StepsLeft' = 6 * Cardinality(unread) + ClosingWeight + 5 * (Len(filenamesCh) - 1) + (turns + 4) + MainWeight
        BY <1>1, <1>4, <2>1, <2>2 DEF StepsLeft, turns2
    <2> QED BY <1>2, <1>3, <2>3, <2>4, Fewer
<1>6. CASE ~Receive(w)
    <2>1. filenamesCh' = filenamesCh
        BY <1>6 DEF WorkerStep, CacheHit, OpenFails, OpenSource, BeforeParse, ParseSucceeds,
                    ParseFails, UpdateMeta, NoMoreFiles, SendReports, WorkerDone
    <2>2. <<pc[w], pc'[w]>> \in {<<"open", "update">>, <<"open", "recv">>, <<"open", "wait">>, <<"wait", "parse">>,
                                 <<"parse", "recv">>, <<"parse", "update">>, <<"update", "recv">>,
                                 <<"recv", "send">>, <<"send", "done">>, <<"done", "exit">>}
        BY <1>6 DEF WorkerStep, CacheHit, OpenFails, OpenSource, BeforeParse, ParseSucceeds,
                    ParseFails, UpdateMeta, NoMoreFiles, SendReports, WorkerDone, TypeInv, PipelineTypeOK
    <2>3. PcWeight[pc[w]] \in Nat /\ PcWeight[pc'[w]] \in Nat /\ PcWeight[pc'[w]] < PcWeight[pc[w]]
        BY <2>2 DEF PcWeight
    <2>4. turns2 < turns /\ turns2 \in Int
        BY <1>2, <2>3
    <2> HIDE DEF turns, turns2
    <2>5. StepsLeft = 6 * Cardinality(unread) + ClosingWeight + 5 * Len(filenamesCh) + turns + MainWeight
        BY DEF StepsLeft, turns
    <2>6. StepsLeft' = 6 * Cardinality(unread) + ClosingWeight + 5 * Len(filenamesCh) + turns2 + MainWeight
        BY <1>1, <1>4, <2>1 DEF StepsLeft, turns2
    <2> QED BY <1>2, <1>3, <2>4, <2>5, <2>6, Fewer
<1> QED BY <1>5, <1>6

LEMMA OthersCount ==
    ASSUME TypeInv, TypeInv', ReturnInv, ReturnInv', ProducerStep \/ ReaderFatal \/ MainStep
    PROVE  StepsLeft' < StepsLeft
<1> USE DEF workerVars
<1> DEFINE turns == SumFunctionOnSet(Turn, Workers)
<1>1. pc' = pc
    BY DEF ProducerStep, SendFilename, CloseFilenames, ReaderFatal, MainStep, WaitReturns, Collect, ReturnReports
<1>2. Turn' = Turn /\ turns \in Nat
    BY <1>1, TurnType, SumNat, PipelineAssumption DEF Turn
<1>3. Cardinality(unread) \in Nat /\ Len(filenamesCh) \in Nat /\ MainWeight \in Nat /\ IsFiniteSet(unread)
      /\ ClosingWeight \in Nat
    BY ListedType, MainWeightType DEF ClosingWeight
<1>4. MainWeight' \in Nat
    <2>1. (TypeInv /\ ReturnInv => MainWeight \in Nat)'
        BY MainWeightType, PTL
    <2> QED BY <2>1
<1>5. Cardinality(Workers) \in Nat /\ received \in Nat
    BY WorkersNotExitedFinite DEF TypeInv, PipelineTypeOK
<1> HIDE DEF turns
<1>6. StepsLeft = 6 * Cardinality(unread) + ClosingWeight + 5 * Len(filenamesCh) + turns + MainWeight
    BY DEF StepsLeft, turns
<1>7. StepsLeft' = 6 * Cardinality(unread') + ClosingWeight' + 5 * Len(filenamesCh') + turns + MainWeight'
    BY <1>2 DEF StepsLeft, turns
<1>8. ASSUME NEW f \in Files, SendFilename(f)
      PROVE  StepsLeft' < StepsLeft
    <2>1. Cardinality(unread') = Cardinality(unread) - 1
        BY <1>3, <1>8, FS_RemoveElement DEF SendFilename
    <2>2. Len(filenamesCh') = Len(filenamesCh) + 1
        BY <1>8 DEF SendFilename, TypeInv, PipelineTypeOK
    <2>3. ClosingWeight' = ClosingWeight /\ MainWeight' = MainWeight
        BY <1>8 DEF SendFilename, mainVars, MainWeight, ClosingWeight
    <2>4. StepsLeft' = 6 * (Cardinality(unread) - 1) + ClosingWeight
                            + 5 * (Len(filenamesCh) + 1) + turns + MainWeight
        BY <1>7, <2>1, <2>2, <2>3
    <2> QED BY <1>2, <1>3, <1>6, <2>4, Fewer
<1>9. CASE CloseFilenames
    <2>1. UNCHANGED <<unread, filenamesCh>> /\ MainWeight' = MainWeight
        BY <1>9 DEF CloseFilenames, mainVars, MainWeight
    <2>2. ClosingWeight = 1 /\ ClosingWeight' = 0
        BY <1>9 DEF CloseFilenames, ClosingWeight
    <2>3. StepsLeft' = 6 * Cardinality(unread) + 0 + 5 * Len(filenamesCh) + turns + MainWeight
        BY <1>7, <2>1, <2>2
    <2> QED BY <1>2, <1>3, <1>6, <2>2, <2>3, Fewer
<1>10. CASE ReaderFatal
    <2>1. UNCHANGED <<unread, ClosingWeight, filenamesCh>> /\ MainWeight' = 0
        BY <1>10 DEF ReaderFatal, producerVars, MainWeight, ClosingWeight
    <2>2. unread # {} /\ main \in {"wait", "collect"}
        <3>1. unread # {} /\ main # "fatal"
            BY <1>10 DEF ReaderFatal, Alive
        <3>2. main # "returned"
            BY <3>1, ReturnInvReturns DEF ReturnsEverything, InFlight
        <3> QED BY <3>1, <3>2 DEF TypeInv, PipelineTypeOK
    <2>3. 0 < MainWeight
        <3>1. MainWeight = (Cardinality(Workers) - received) + 2 \/ MainWeight = (Cardinality(Workers) - received) + 1
            BY <2>2 DEF MainWeight
        <3>2. received <= Cardinality(Workers)
            BY ReceivedWithin
        <3> QED BY <1>5, <3>1, <3>2
    <2>4. StepsLeft' = 6 * Cardinality(unread) + ClosingWeight + 5 * Len(filenamesCh) + turns + 0
        BY <1>7, <2>1
    <2> QED BY <1>2, <1>3, <1>6, <2>3, <2>4, Fewer
<1>11. CASE MainStep
    <2>1. UNCHANGED <<unread, ClosingWeight, filenamesCh>>
        BY <1>11 DEF MainStep, WaitReturns, Collect, ReturnReports, producerVars, ClosingWeight
    <2>2. MainWeight' < MainWeight
        <3>1. received <= Cardinality(Workers)
            BY ReceivedWithin
        <3>2. CASE WaitReturns
            <4>1. main = "wait" /\ main' = "collect" /\ received' = received
                BY <3>2 DEF WaitReturns
            <4> QED BY <1>5, <4>1 DEF MainWeight
        <3>3. CASE Collect
            <4>1. main = "collect" /\ main' = "collect" /\ received' = received + 1
                BY <3>3 DEF Collect
            <4> QED BY <1>5, <4>1 DEF MainWeight
        <3>4. CASE ReturnReports
            <4>1. main = "collect" /\ main' = "returned"
                BY <3>4 DEF ReturnReports
            <4> QED BY <1>5, <3>1, <4>1 DEF MainWeight
        <3> QED BY <1>11, <3>2, <3>3, <3>4 DEF MainStep
    <2>3. StepsLeft' = 6 * Cardinality(unread) + ClosingWeight + 5 * Len(filenamesCh) + turns + MainWeight'
        BY <1>7, <2>1
    <2> QED BY <1>2, <1>3, <1>4, <1>6, <2>2, <2>3, Fewer
<1> QED BY <1>8, <1>9, <1>10, <1>11 DEF ProducerStep

(* Every step of every goroutine is one of a number that is known when the *)
(* call starts: no goroutine goes round in circles, so a call makes        *)
(* finitely many steps whatever their order, and by NoDeadlock it can only *)
(* run out of them when it has ended.                                      *)
THEOREM StepsRunOut == PipelineSpec => [](StepsLeft \in Nat) /\ [][StepsLeft' < StepsLeft]_pipelineVars
<1> DEFINE Inv == TypeInv /\ ReturnInv
<1>1. Inv /\ [Next]_pipelineVars => Inv'
    BY TypeInvNext, ReturnInvNext
<1>2. PipelineInit => Inv
    BY TypeInvInit, ReturnInvInit
<1>3. Inv /\ Inv' /\ [Next]_pipelineVars => [StepsLeft' < StepsLeft]_pipelineVars
    <2> SUFFICES ASSUME TypeInv, ReturnInv, TypeInv', ReturnInv', Next
                 PROVE  StepsLeft' < StepsLeft \/ UNCHANGED pipelineVars
        OBVIOUS
    <2>1. ASSUME NEW w \in Workers, WorkerStep(w) PROVE StepsLeft' < StepsLeft
        BY <2>1, WorkerCounts
    <2>2. CASE ProducerStep \/ ReaderFatal \/ MainStep
        BY <2>2, OthersCount
    <2> QED BY <2>1, <2>2 DEF Next, Stopped
<1>4. Inv => StepsLeft \in Nat
    BY StepsNatural
<1> QED BY <1>1, <1>2, <1>3, <1>4, PTL DEF PipelineSpec
-----------------------------------------------------------------------------
(* The parser that a worker makes for a file takes its tokens from a pool  *)
(* of its own, module TokenPool.                                           *)

(* Sequences of objects: what Append, Front and SubSeq do to the objects   *)
(* in them.                                                                *)
LEMMA AppendObjects ==
    ASSUME NEW S, NEW s \in Seq(S), NEW e \in S
    PROVE  /\ Append(s, e) \in Seq(S)
           /\ Range(Append(s, e)) = Range(s) \cup {e}
           /\ IsInjective(s) /\ e \notin Range(s) => IsInjective(Append(s, e))
<1> DEFINE a == Append(s, e)
<1>1. /\ a \in Seq(S)
      /\ Len(s) \in Nat /\ DOMAIN s = 1..Len(s)
      /\ Len(a) = Len(s) + 1 /\ DOMAIN a = 1..(Len(s) + 1)
      /\ \A i \in 1..Len(s) : a[i] = s[i]
      /\ a[Len(s) + 1] = e
  OBVIOUS
<1>2. \A i \in DOMAIN a : i \in 1..Len(s) \/ i = Len(s) + 1
  BY <1>1
<1>3. 1..Len(s) \subseteq DOMAIN a /\ Len(s) + 1 \in DOMAIN a
  BY <1>1
<1> HIDE DEF a
<1>4. Range(a) = Range(s) \cup {e}
  BY <1>1, <1>2, <1>3 DEF Range
<1>5. ASSUME IsInjective(s), e \notin Range(s) PROVE IsInjective(a)
  <2> SUFFICES ASSUME NEW i \in DOMAIN a, NEW j \in DOMAIN a, a[i] = a[j] PROVE i = j
    BY DEF IsInjective
  <2>1. \A k \in 1..Len(s) : s[k] # e
    BY <1>1, <1>5 DEF Range
  <2> QED BY <1>1, <1>2, <1>5, <2>1 DEF IsInjective
<1> QED BY <1>1, <1>4, <1>5 DEF a

LEMMA FrontObjects ==
    ASSUME NEW S, NEW s \in Seq(S), s # <<>>
    PROVE  /\ Front(s) \in Seq(S)
           /\ Last(s) \in Range(s) /\ Last(s) \in S
           /\ Range(s) = Range(Front(s)) \cup {Last(s)}
           /\ IsInjective(s) => IsInjective(Front(s)) /\ Last(s) \notin Range(Front(s))
<1> DEFINE f == Front(s)
<1>1. Len(s) \in Nat /\ Len(s) > 0 /\ DOMAIN s = 1..Len(s)
  OBVIOUS
<1>2. /\ f \in Seq(S) /\ DOMAIN f = 1..(Len(s) - 1)
      /\ \A i \in 1..(Len(s) - 1) : f[i] = s[i]
  BY <1>1 DEF Front
<1>3. Last(s) = s[Len(s)] /\ Len(s) \in DOMAIN s /\ Last(s) \in S
  BY <1>1 DEF Last
<1>4. /\ \A i \in DOMAIN s : i \in 1..(Len(s) - 1) \/ i = Len(s)
      /\ Len(s) \notin 1..(Len(s) - 1)
      /\ 1..(Len(s) - 1) \subseteq DOMAIN s
  BY <1>1
<1> HIDE DEF f
<1>5. Range(s) = Range(f) \cup {Last(s)} /\ Last(s) \in Range(s)
  BY <1>2, <1>3, <1>4 DEF Range
<1>6. ASSUME IsInjective(s) PROVE IsInjective(f) /\ Last(s) \notin Range(f)
  BY <1>2, <1>3, <1>4, <1>6 DEF IsInjective, Range
<1> QED BY <1>2, <1>3, <1>5, <1>6 DEF f

(* returnTokenToPool goes through $1, ..., $n: r[k] is the pool after $k.  *)
Returns(r, s, d, n) ==
    r[0] = s /\ \A k \in 0..(n - 1) : r[k + 1] = PutToken(r[k], d[k + 1])

LEMMA ReturnsSteps ==
    ASSUME NEW N \in Nat, NEW s \in Seq(1..N),
           NEW n \in Nat, NEW d \in [1..n -> 0..N]
    PROVE  \E r : Returns(r, s, d, n) /\ FoldLeft(PutToken, s, d) = r[n]
<1> DEFINE V == Seq(1..N)
           body(f) == [S \in SUBSET (DOMAIN d) |-> IF S = {} THEN s
                          ELSE LET y == Max(S) IN PutToken(f[S \ {y}], d[y])]
           it == CHOOSE f : f = body(f)
           q == [p \in (1..n) \X V |-> PutToken(p[2], d[p[1]])]
<1>1. DOMAIN d = 1..n
  OBVIOUS
<1>2. FoldLeft(PutToken, s, d) = it[DOMAIN d]
  BY DEF FoldLeft, MapThenFoldSet
<1>3. PICK iter \in [SUBSET (1..n) -> V] : LeftFolds(iter, n, s, q)
  <2>1. q \in [(1..n) \X V -> V]
    <3> SUFFICES ASSUME NEW i \in 1..n, NEW r \in V PROVE PutToken(r, d[i]) \in V
      OBVIOUS
    <3>1. d[i] = 0 \/ d[i] \in 1..N
      OBVIOUS
    <3>2. CASE d[i] = 0
      BY <3>2 DEF PutToken
    <3>3. CASE d[i] # 0
      <4>1. PutToken(r, d[i]) = Append(r, d[i])
        BY <3>3 DEF PutToken
      <4> QED BY <3>1, <3>3, <4>1, AppendObjects
    <3> QED BY <3>2, <3>3
  <2>2. s \in V
    OBVIOUS
  <2> HIDE DEF q, it, body, V
  <2> QED BY <2>1, <2>2, LeftFoldExists
<1>4. iter = body(iter)
  <2>1. ASSUME NEW S \in SUBSET (1..n), S # {}
        PROVE  iter[S] = PutToken(iter[S \ {Max(S)}], d[Max(S)])
    <3>1. S \in SUBSET (0..n)
      OBVIOUS
    <3>2. Max(S) \in 1..n
      BY <2>1, <3>1, IntervalMax
    <3>3. iter[S \ {Max(S)}] \in V
      BY <1>3
    <3> HIDE DEF q, V
    <3>4. iter[S] = q[<<Max(S), iter[S \ {Max(S)}]>>]
      BY <1>3, <2>1 DEF LeftFolds
    <3> QED BY <3>2, <3>3, <3>4 DEF q
  <2>2. iter[{}] = s
    BY <1>3 DEF LeftFolds
  <2>3. ASSUME NEW S \in SUBSET (1..n)
        PROVE  iter[S] = IF S = {} THEN s
                         ELSE LET y == Max(S) IN PutToken(iter[S \ {y}], d[y])
    <3>1. CASE S = {}
      BY <2>2, <3>1
    <3>2. CASE S # {}
      BY <2>1, <3>2
    <3> QED BY <3>1, <3>2
  <2> HIDE DEF q
  <2> QED BY <1>1, <1>3, <2>3
<1>5. it = body(it)
  <2> HIDE DEF body
  <2> QED BY <1>4
<1> DEFINE r == [k \in 0..n |-> it[1..k]]
<1>6. r[0] = s
  <2>1. 1..0 = {} /\ 0 \in 0..n /\ {} \in SUBSET (DOMAIN d)
    OBVIOUS
  <2>2. it[{}] = s
    BY <1>5, <2>1
  <2> HIDE DEF it
  <2> QED BY <2>1, <2>2
<1>7. ASSUME NEW k \in 0..(n - 1) PROVE r[k + 1] = PutToken(r[k], d[k + 1])
  <2>1. /\ k \in 0..n /\ k + 1 \in 0..n /\ k + 1 \in Nat /\ k + 1 > 0 /\ (k + 1) - 1 = k
        /\ k + 1 \in 1..(k + 1) /\ 1..(k + 1) \subseteq 1..n
    OBVIOUS
  <2>9. 1..(k + 1) \in SUBSET (DOMAIN d) /\ 1..(k + 1) # {}
    BY <1>1, <2>1
  <2>2. Max(1..(k + 1)) = k + 1 /\ (1..(k + 1)) \ {k + 1} = 1..k
    BY <2>1, IntervalTop
  <2>3. it[1..(k + 1)] = PutToken(it[(1..(k + 1)) \ {Max(1..(k + 1))}], d[Max(1..(k + 1))])
    BY <1>5, <2>9
  <2> HIDE DEF it
  <2> QED BY <2>1, <2>2, <2>3
<1>8. FoldLeft(PutToken, s, d) = r[n]
  <2>1. n \in 0..n
    OBVIOUS
  <2> HIDE DEF it
  <2> QED BY <1>1, <1>2, <2>1
<1> HIDE DEF r
<1> QED BY <1>6, <1>7, <1>8 DEF Returns
(* What the pool holds after them: what it held, and the tokens.           *)
LEMMA ReturnedObjects ==
    ASSUME NEW N \in Nat, NEW s \in Seq(1..N), IsInjective(s),
           NEW n \in Nat, NEW d \in [1..n -> 0..N],
           \A j, k \in 1..n : j # k /\ d[j] # 0 => d[j] # d[k],
           Range(s) \cap Range(d) = {}
    PROVE  LET t == FoldLeft(PutToken, s, d)
           IN  /\ t \in Seq(1..N)
               /\ IsInjective(t)
               /\ Range(t) = Range(s) \cup (Range(d) \ {0})
<1>1. PICK r : Returns(r, s, d, n) /\ FoldLeft(PutToken, s, d) = r[n]
  BY ReturnsSteps
<1> DEFINE Given(k) == {d[j] : j \in 1..k} \ {0}
           Right(k) == /\ r[k] \in Seq(1..N)
                       /\ IsInjective(r[k])
                       /\ Range(r[k]) = Range(s) \cup Given(k)
           T == {k \in Nat : k <= n => Right(k)}
<1>2. 0 \in T
  <2>1. r[0] = s /\ Given(0) = {}
    BY <1>1 DEF Returns
  <2> QED BY <2>1
<1>3. ASSUME NEW k \in T PROVE k + 1 \in T
  <2> SUFFICES ASSUME k + 1 <= n PROVE Right(k + 1)
    OBVIOUS
  <2>1. Right(k) /\ k \in 0..(n - 1) /\ k + 1 \in 1..n /\ k \in Nat
    OBVIOUS
  <2> DEFINE o == d[k + 1]
  <2>2. r[k + 1] = PutToken(r[k], o)
    BY <1>1, <2>1 DEF Returns
  <2>3. Given(k + 1) = Given(k) \cup ({o} \ {0})
    <3>1. \A j \in 1..(k + 1) : j \in 1..k \/ j = k + 1
      BY <2>1
    <3>2. 1..k \subseteq 1..(k + 1) /\ k + 1 \in 1..(k + 1)
      BY <2>1
    <3> QED BY <3>1, <3>2
  <2>4. CASE o = 0
    <3>1. r[k + 1] = r[k] /\ Given(k + 1) = Given(k)
      BY <2>2, <2>3, <2>4 DEF PutToken
    <3> HIDE DEF Given, T, o
    <3> QED BY <2>1, <3>1
  <2>5. CASE o # 0
    <3>1. r[k + 1] = Append(r[k], o)
      BY <2>2, <2>5 DEF PutToken
    <3>2. o \in 1..N
      BY <2>1, <2>5
    <3>3. o \notin Range(s)
      BY <2>1 DEF Range
    <3>4. o \notin Given(k)
      <4>1. \A j \in 1..k : j \in 1..n /\ j # k + 1
        BY <2>1
      <4> QED BY <2>1, <2>5, <4>1
    <3>5. Given(k + 1) = Given(k) \cup {o}
      BY <2>3, <2>5
    <3> HIDE DEF Given, T, o
    <3> QED BY <2>1, <3>1, <3>2, <3>3, <3>4, <3>5, AppendObjects
  <2> QED BY <2>4, <2>5
<1>4. T = Nat
  <2>1. T \in SUBSET Nat
    OBVIOUS
  <2> HIDE DEF T
  <2> QED BY <1>2, <1>3, <2>1, SetInduction
<1>5. Right(n)
  <2>1. n \in {k \in Nat : k <= n => Right(k)}
    <3> HIDE DEF Right
    <3> QED BY <1>4
  <2> HIDE DEF Right, T
  <2> QED BY <2>1
<1>6. Given(n) = Range(d) \ {0}
  BY DEF Range
<1> QED BY <1>1, <1>5, <1>6

(* Objects that the stack, the scanner and the pool have are there, and no *)
(* two of them have the same.                                              *)
PoolOK ==
    /\ \E S : heap \in Seq(S)
    /\ tokens \in Seq(0..Len(heap))
    /\ look \in 0..Len(heap)
    /\ pool \in Seq(1..Len(heap))

PoolInv == PoolOK /\ NoTokenAliased

LEMMA PoolInvInit == PoolInit => PoolInv
<1> SUFFICES ASSUME PoolInit PROVE PoolInv
  OBVIOUS
<1>1. heap = <<>> /\ heap \in Seq({}) /\ Len(heap) = 0 /\ look = 0 /\ tokens = <<>> /\ pool = <<>>
  BY DEF PoolInit
<1>2. Range(<<>>) = {} /\ IsInjective(<<>>) /\ DOMAIN <<>> = {}
  BY DEF Range, IsInjective
<1>3. PoolOK
  BY <1>1 DEF PoolOK
<1>4. NoTokenAliased
  BY <1>1, <1>2 DEF NoTokenAliased, Objects
<1> QED BY <1>3, <1>4 DEF PoolInv

(* The object of the next token is new or was free, and is not free now.   *)
LEMMA GetObject ==
    ASSUME PoolInv, NEW token
    PROVE  LET N == Len(heap)
               M == Len(Create(Get, token))
           IN  /\ M \in Nat /\ N \in Nat /\ N <= M
               /\ \E S : Create(Get, token) \in Seq(S)
               /\ Get \in 1..M
               /\ Get \notin InUse
               /\ \A o \in 1..N : o # Get => Create(Get, token)[o] = heap[o]
               /\ Poured \in Seq(1..N)
               /\ IsInjective(Poured)
               /\ Get \notin Range(Poured)
               /\ Range(Poured) \subseteq Range(pool)
               /\ 1..M = (1..N) \cup {Get}
               /\ Range(pool) \subseteq Range(Poured) \cup {Get}
               /\ Get \in 1..N => Get \in Range(pool)
<1>1. PICK S : heap \in Seq(S)
  BY DEF PoolInv, PoolOK
<1>2. /\ Len(heap) \in Nat /\ DOMAIN heap = 1..Len(heap)
      /\ pool \in Seq(1..Len(heap)) /\ IsInjective(pool)
      /\ Range(pool) \cap InUse = {}
  BY <1>1 DEF PoolInv, PoolOK, NoTokenAliased, InUse
<1>3. Objects \subseteq 0..Len(heap) /\ InUse \subseteq 0..Len(heap)
  <2>1. \A k \in DOMAIN tokens : tokens[k] \in 0..Len(heap)
    BY DEF PoolInv, PoolOK
  <2> QED BY <2>1 DEF PoolInv, PoolOK, InUse, Objects, Range
<1>4. CASE pool = <<>>
  <2>1. Get = Len(heap) + 1 /\ Poured = <<>> /\ Range(<<>>) = {} /\ IsInjective(<<>>)
    BY <1>4 DEF Get, Poured, Range, IsInjective
  <2>2. Create(Get, token) = Append(heap, token)
    <3>1. Get \notin DOMAIN heap
      BY <1>2, <2>1
    <3> QED BY <3>1 DEF Create
  <2>3. heap \in Seq(S \cup {token})
    BY <1>1, SeqMonotonic
  <2>4. /\ Append(heap, token) \in Seq(S \cup {token})
        /\ Len(Append(heap, token)) = Len(heap) + 1
        /\ \A o \in 1..Len(heap) : Append(heap, token)[o] = heap[o]
    BY <2>3
  <2>5. /\ Get \notin InUse /\ Get \in 1..(Len(heap) + 1) /\ Get \notin 1..Len(heap)
        /\ 1..(Len(heap) + 1) = (1..Len(heap)) \cup {Get}
    BY <1>2, <1>3, <2>1
  <2> QED BY <1>2, <1>4, <2>1, <2>2, <2>4, <2>5
<1>5. CASE pool # <<>>
  <2>1. Get = Last(pool) /\ Poured = Front(pool)
    BY <1>5 DEF Get, Poured
  <2>2. /\ Poured \in Seq(1..Len(heap)) /\ IsInjective(Poured)
        /\ Get \in 1..Len(heap) /\ Get \in Range(pool)
        /\ Range(pool) = Range(Poured) \cup {Get} /\ Get \notin Range(Poured)
    BY <1>2, <1>5, <2>1, FrontObjects
  <2>3. Create(Get, token) = [heap EXCEPT ![Get] = token]
    BY <1>2, <2>2 DEF Create
  <2>4. heap \in Seq(S \cup {token})
    BY <1>1, SeqMonotonic
  <2>5. /\ [heap EXCEPT ![Get] = token] \in Seq(S \cup {token})
        /\ Len([heap EXCEPT ![Get] = token]) = Len(heap)
        /\ \A o \in 1..Len(heap) : o # Get => [heap EXCEPT ![Get] = token][o] = heap[o]
    BY <1>2, <2>2, <2>4
  <2> QED BY <1>2, <2>2, <2>3, <2>5
<1> QED BY <1>4, <1>5

(* A parsed token leaves the other objects alone.                          *)
LEMMA ReadInv ==
    ASSUME PoolInv, NEW token, ReadToken(token)
    PROVE  /\ PoolInv'
           /\ \A o \in InUse \cap InUse' : heap'[o] = heap[o]
           /\ Dropped' = Dropped
<1> DEFINE N == Len(heap)
           h == Create(Get, token)
           M == Len(h)
           o == Get
           p == Poured
<1>1. /\ look = 0 /\ look' = o /\ pool' = p /\ heap' = h /\ tokens' = tokens
  BY DEF ReadToken
<1>2. /\ M \in Nat /\ N \in Nat /\ N <= M
      /\ \E S : h \in Seq(S)
      /\ o \in 1..M
      /\ o \notin InUse
      /\ \A x \in 1..N : x # o => h[x] = heap[x]
      /\ p \in Seq(1..N)
      /\ IsInjective(p)
      /\ o \notin Range(p)
      /\ Range(p) \subseteq Range(pool)
      /\ 1..M = (1..N) \cup {o}
      /\ Range(pool) \subseteq Range(p) \cup {o}
      /\ o \in 1..N => o \in Range(pool)
  BY GetObject
<1>3. Len(heap') = M /\ DOMAIN heap = 1..N /\ DOMAIN heap' = 1..M
  BY <1>1, <1>2 DEF PoolInv, PoolOK
<1>4. /\ tokens \in Seq(0..N) /\ InUse \subseteq 0..N
      /\ Range(pool) \cap (Objects \cup {look}) = {}
      /\ \A j, k \in DOMAIN tokens : j # k /\ tokens[j] # 0 => tokens[j] # tokens[k]
  <2>1. \A k \in DOMAIN tokens : tokens[k] \in 0..N
    BY DEF PoolInv, PoolOK
  <2> QED BY <2>1 DEF PoolInv, PoolOK, NoTokenAliased, InUse, Objects, Range
<1> HIDE DEF N, h, M, o, p
<1>5. 0..N \subseteq 0..M /\ 1..N \subseteq 1..M /\ o # 0 /\ o \in 0..M
  BY <1>2
<1>6. tokens \in Seq(0..M) /\ p \in Seq(1..M)
  BY <1>2, <1>4, <1>5
<1>7. PoolOK'
  BY <1>1, <1>2, <1>3, <1>5, <1>6 DEF PoolOK
<1>8. Objects' = Objects /\ InUse = Objects /\ InUse' = Objects \cup {o}
  BY <1>1, <1>5 DEF Objects, InUse
<1>9. NoTokenAliased'
  <2>1. Range(p) \subseteq 1..M
    BY <1>6, RangeOfSeq
  <2>2. Range(p) \cap (Objects \cup {o}) = {}
    BY <1>2, <1>4
  <2>3. o \notin Objects
    BY <1>2, <1>8
  <2> QED BY <1>1, <1>2, <1>3, <1>4, <1>5, <1>8, <2>1, <2>2, <2>3 DEF NoTokenAliased
<1>10. \A x \in InUse \cap InUse' : heap'[x] = heap[x]
  <2>1. \A x \in Objects : x \in 1..N /\ x # o
    BY <1>2, <1>4, <1>8 DEF Objects
  <2> QED BY <1>1, <1>2, <1>8, <2>1
<1>11. Dropped' = Dropped
  <2>1. Dropped' = (1..M) \ (Range(p) \cup Objects \cup {o})
    BY <1>1, <1>3, <1>8 DEF Dropped
  <2>2. Dropped = (1..N) \ (Range(pool) \cup Objects)
    BY <1>3, <1>8 DEF Dropped
  <2> QED BY <1>2, <2>1, <2>2
<1> QED BY <1>7, <1>9, <1>10, <1>11 DEF PoolInv

(* A token that is shifted goes from the scanner to the stack.             *)
LEMMA ShiftInv ==
    ASSUME PoolInv, ShiftToken
    PROVE  PoolInv' /\ heap' = heap /\ Dropped' = Dropped
<1>1. /\ look # 0 /\ look' = 0 /\ heap' = heap /\ pool' = pool
      /\ tokens' = Append(tokens, look)
  BY DEF ShiftToken
<1>2. /\ tokens \in Seq(0..Len(heap)) /\ look \in 0..Len(heap)
      /\ Len(heap) \in Nat /\ pool \in Seq(1..Len(heap))
      /\ look \notin Objects /\ look \notin Range(tokens)
  BY <1>1 DEF PoolInv, PoolOK, NoTokenAliased, Objects
<1>3. /\ tokens' \in Seq(0..Len(heap))
      /\ Range(tokens') = Range(tokens) \cup {look}
  BY <1>1, <1>2, AppendObjects
<1>4. 0 \in 0..Len(heap)
  BY <1>2
<1>5. PoolOK'
  BY <1>1, <1>3, <1>4 DEF PoolInv, PoolOK
<1>6. Objects' = Objects \cup {look} /\ InUse' = InUse
  BY <1>1, <1>3 DEF Objects, InUse
<1>7. 0 \notin Range(pool)
  <2>1. \A k \in DOMAIN pool : pool[k] \in 1..Len(heap)
    BY <1>2
  <2> QED BY <1>2, <2>1 DEF Range
<1>8. \A j, k \in DOMAIN tokens' : j # k /\ tokens'[j] # 0 => tokens'[j] # tokens'[k]
  <2>1. /\ Len(tokens) \in Nat /\ DOMAIN tokens = 1..Len(tokens)
        /\ DOMAIN tokens' = 1..(Len(tokens) + 1)
        /\ \A i \in 1..Len(tokens) : tokens'[i] = tokens[i]
        /\ tokens'[Len(tokens) + 1] = look
    BY <1>1, <1>2
  <2>2. \A i \in DOMAIN tokens' : i \in 1..Len(tokens) \/ i = Len(tokens) + 1
    BY <2>1
  <2>3. \A i \in 1..Len(tokens) : tokens[i] # look
    BY <1>2, <2>1 DEF Range
  <2>4. \A j, k \in 1..Len(tokens) : j # k /\ tokens[j] # 0 => tokens[j] # tokens[k]
    BY <2>1 DEF PoolInv, NoTokenAliased
  <2> QED BY <2>1, <2>2, <2>3, <2>4
<1>9. NoTokenAliased'
  <2>1. Range(pool) \cap (Objects \cup {look}) = {}
    BY DEF PoolInv, NoTokenAliased
  <2>2. 0 \notin Objects'
    BY DEF Objects
  <2> QED BY <1>1, <1>4, <1>6, <1>7, <1>8, <2>1, <2>2 DEF PoolInv, NoTokenAliased
<1> QED BY <1>1, <1>5, <1>6, <1>9 DEF PoolInv, Dropped

(* A stack cut back to m slots, with one more for the object of a slot     *)
(* that was cut off, or for none.                                          *)
Cut(stack, m) == SubSeq(stack, 1, m)
Push(stack, e) == Append(stack, e)
Apart(stack) ==
    \A j, k \in DOMAIN stack : j # k /\ stack[j] # 0 => stack[j] # stack[k]
Above(stack, m, e) == e = 0 \/ \E i \in (m + 1)..Len(stack) : stack[i] = e

LEMMA CutStack ==
    ASSUME NEW S, NEW stack \in Seq(S), NEW m \in 0..Len(stack), NEW e \in S,
           Apart(stack), Above(stack, m, e)
    PROVE  /\ DOMAIN Cut(stack, m) = 1..m
           /\ \A i \in 1..m : Cut(stack, m)[i] = stack[i] /\ i \in DOMAIN stack
           /\ Push(Cut(stack, m), e) \in Seq(S)
           /\ Range(Push(Cut(stack, m), e)) = Range(Cut(stack, m)) \cup {e}
           /\ Apart(Push(Cut(stack, m), e))
<1> DEFINE rest == Cut(stack, m)
           t == Push(rest, e)
<1>1. /\ Len(stack) \in Nat /\ DOMAIN stack = 1..Len(stack)
      /\ stack \in Seq(S) /\ e \in S /\ \A i \in DOMAIN stack : stack[i] \in S
  OBVIOUS
<1>2. /\ 1 \in Int /\ m \in Int /\ m - 1 + 1 = m /\ m \in Nat
      /\ \A i \in 1..m : i \in DOMAIN stack /\ 1 + i - 1 = i
      /\ \A i \in (m + 1)..Len(stack) : i \in DOMAIN stack /\ i \notin 1..m
  BY <1>1
<1>3. /\ rest \in Seq(S) /\ Len(rest) = IF 1 <= m THEN m - 1 + 1 ELSE 0
      /\ \A i \in 1..(m - 1 + 1) : rest[i] = stack[1 + i - 1]
  BY <1>1, <1>2, SubSeqProperties DEF Cut
<1> HIDE DEF rest
<1>4. /\ Len(rest) = m /\ DOMAIN rest = 1..m
      /\ \A i \in 1..m : rest[i] = stack[i] /\ i \in DOMAIN stack
  <2>1. Len(rest) = m
    BY <1>2, <1>3
  <2>2. DOMAIN rest = 1..Len(rest)
    BY <1>3
  <2> QED BY <1>2, <1>3, <2>1, <2>2
<1>5. t \in Seq(S) /\ Range(t) = Range(rest) \cup {e}
  BY <1>1, <1>3, AppendObjects DEF Push
<1>6. /\ DOMAIN t = 1..(m + 1)
      /\ \A i \in 1..m : t[i] = rest[i]
      /\ t[m + 1] = e
  <2>1. /\ Len(t) = Len(rest) + 1 /\ \A i \in 1..Len(rest) : t[i] = rest[i]
        /\ t[Len(rest) + 1] = e
    BY <1>1, <1>3, AppendProperties DEF Push
  <2>2. DOMAIN t = 1..Len(t)
    BY <1>5
  <2> HIDE DEF t
  <2> QED BY <1>4, <2>1, <2>2
<1> HIDE DEF t
<1>7. \A i \in DOMAIN t : i \in 1..m \/ i = m + 1
  BY <1>2, <1>6
<1>8. \A i \in 1..m : rest[i] # 0 => rest[i] # e
  BY <1>2, <1>4 DEF Above, Apart
<1>9. \A j, k \in 1..m : j # k /\ rest[j] # 0 => rest[j] # rest[k]
  BY <1>4 DEF Apart
<1>10. Apart(t)
  BY <1>6, <1>7, <1>8, <1>9 DEF Apart
<1> QED BY <1>4, <1>5, <1>10 DEF rest, t

(* A reduction moves objects from the stack to the pool, or leaves the one *)
(* it has where it is.                                                     *)
LEMMA ReduceInv ==
    ASSUME PoolInv, NEW n \in 0..Len(tokens), NEW pooled \in BOOLEAN,
           pooled \/ n <= 1, ReduceTokens(n, pooled)
    PROVE  PoolInv' /\ heap' = heap /\ Dropped' = Dropped
<1> DEFINE N == Len(heap)
           m == Len(tokens) - n
           d == Dollar(n)
           rest == Cut(tokens, m)
           e == TokenOfResult(n, pooled)
<1>1. /\ look' = look /\ heap' = heap
      /\ tokens' = Push(rest, e)
      /\ pool' = IF pooled THEN ReturnTokenToPool(n) ELSE pool
  BY DEF ReduceTokens, Cut, Push
<1>2. /\ N \in Nat /\ tokens \in Seq(0..N) /\ pool \in Seq(1..N) /\ look \in 0..N
      /\ IsInjective(pool)
      /\ Range(pool) \cap (Objects \cup {look}) = {}
      /\ look \notin Objects
      /\ \A j, k \in DOMAIN tokens : j # k /\ tokens[j] # 0 => tokens[j] # tokens[k]
  BY DEF PoolInv, PoolOK, NoTokenAliased
<1>3. /\ Len(tokens) \in Nat /\ DOMAIN tokens = 1..Len(tokens)
      /\ m \in 0..Len(tokens) /\ n \in Nat /\ m + n = Len(tokens)
  BY <1>2
<1>5. /\ d \in [1..n -> 0..N]
      /\ \A k \in 1..n : d[k] = tokens[m + k] /\ m + k \in DOMAIN tokens /\ m + k \notin 1..m
  <2>1. \A k \in 1..n : m + k = Len(tokens) - n + k /\ m + k \in DOMAIN tokens /\ m + k \notin 1..m
    BY <1>3
  <2>2. d = [k \in 1..n |-> tokens[Len(tokens) - n + k]]
    BY DEF Dollar
  <2> HIDE DEF d
  <2> QED BY <1>2, <2>1, <2>2
<1>6. \A i \in DOMAIN tokens : i \in 1..m \/ \E k \in 1..n : i = m + k
  <2>1. \A i \in DOMAIN tokens : i \in 1..m \/ (i - m \in 1..n /\ i = m + (i - m))
    BY <1>3
  <2> QED BY <2>1
<1>10. e = 0 \/ (n = 1 /\ ~pooled /\ e = d[1] /\ Range(d) = {e} /\ e \in 0..N)
  <2>1. n = 0 \/ pooled => e = 0
    BY DEF TokenOfResult
  <2>2. ASSUME n # 0, ~pooled PROVE n = 1 /\ ~pooled /\ e = d[1] /\ Range(d) = {e} /\ e \in 0..N
    <3>1. n = 1 /\ e = d[1]
      BY <1>3, <2>2 DEF TokenOfResult
    <3>2. DOMAIN d = {1} /\ d[1] \in 0..N
      BY <1>5, <3>1
    <3> HIDE DEF d, e
    <3> QED BY <2>2, <3>1, <3>2 DEF Range
  <2> QED BY <2>1, <2>2
<1>4. /\ e \in 0..N /\ m \in 0..Len(tokens)
      /\ Above(tokens, m, e)
  <2>1. 0 \in 0..N
    BY <1>2
  <2>2. n = 1 => m + 1 \in (m + 1)..Len(tokens)
    BY <1>3
  <2>3. n = 1 => d[1] = tokens[m + 1]
    BY <1>5
  <2> HIDE DEF d, m, e, N
  <2> QED BY <1>3, <1>10, <2>1, <2>2, <2>3 DEF Above
<1>12. /\ DOMAIN rest = 1..m
       /\ \A i \in 1..m : rest[i] = tokens[i] /\ i \in DOMAIN tokens
       /\ tokens' \in Seq(0..N)
       /\ Range(tokens') = Range(rest) \cup {e}
       /\ Apart(tokens')
  <2> DEFINE S == 0..N
  <2>1. tokens \in Seq(S) /\ e \in S /\ m \in 0..Len(tokens)
    BY <1>2, <1>4
  <2>2. Apart(tokens) /\ Above(tokens, m, e)
    BY <1>2, <1>4 DEF Apart
  <2> HIDE DEF m, e, N, S
  <2>3. /\ DOMAIN rest = 1..m
        /\ \A i \in 1..m : rest[i] = tokens[i] /\ i \in DOMAIN tokens
        /\ Push(rest, e) \in Seq(S)
        /\ Range(Push(rest, e)) = Range(rest) \cup {e}
        /\ Apart(Push(rest, e))
    BY <2>1, <2>2, CutStack
  <2> HIDE DEF rest
  <2> QED BY <1>1, <2>3 DEF S
<1>7. Range(tokens) = Range(rest) \cup Range(d)
  <2> HIDE DEF rest, d, m, N
  <2>1. DOMAIN d = 1..n
    BY <1>5
  <2>2. ASSUME NEW x \in Range(tokens) PROVE x \in Range(rest) \cup Range(d)
    <3>1. PICK i \in DOMAIN tokens : x = tokens[i]
      BY DEF Range
    <3>2. CASE i \in 1..m
      BY <1>12, <3>1, <3>2 DEF Range
    <3>3. CASE \E k \in 1..n : i = m + k
      BY <1>5, <2>1, <3>1, <3>3 DEF Range
    <3> QED BY <1>6, <3>2, <3>3
  <2>3. Range(rest) \subseteq Range(tokens)
    BY <1>12 DEF Range
  <2>4. Range(d) \subseteq Range(tokens)
    BY <1>5, <2>1 DEF Range
  <2> QED BY <2>2, <2>3, <2>4
<1>8. \A j, k \in 1..n : j # k /\ d[j] # 0 => d[j] # d[k]
  <2>1. \A j, k \in 1..n : j # k => m + j # m + k
    BY <1>3
  <2> HIDE DEF d, m
  <2> QED BY <1>2, <1>5, <2>1
<1>9. Range(rest) \cap (Range(d) \ {0}) = {}
  <2> HIDE DEF rest, d, m
  <2> QED BY <1>2, <1>12, <1>5 DEF Range
<1>11. /\ pool' \in Seq(1..N) /\ IsInjective(pool')
       /\ Range(pool') = IF pooled THEN Range(pool) \cup (Range(d) \ {0}) ELSE Range(pool)
  <2>1. CASE pooled
    <3>1. pool' = FoldLeft(PutToken, pool, d)
      BY <1>1, <2>1 DEF ReturnTokenToPool
    <3>2. Range(pool) \cap Range(d) = {}
      <4>1. 0 \notin Range(pool)
        <5>1. \A k \in DOMAIN pool : pool[k] \in 1..N
          BY <1>2
        <5> QED BY <1>2, <5>1 DEF Range
      <4> HIDE DEF d, rest
      <4> QED BY <1>2, <1>7, <4>1 DEF Objects
    <3> HIDE DEF d, N, m, rest, e
    <3> DEFINE t == FoldLeft(PutToken, pool, d)
    <3>3. t \in Seq(1..N) /\ IsInjective(t) /\ Range(t) = Range(pool) \cup (Range(d) \ {0})
      <4>1. N \in Nat /\ n \in Nat /\ pool \in Seq(1..N) /\ IsInjective(pool) /\ d \in [1..n -> 0..N]
        BY <1>2, <1>3, <1>5
      <4> QED BY <1>8, <3>2, <4>1, ReturnedObjects
    <3> HIDE DEF t
    <3>4. pool' = t
      BY <3>1 DEF t
    <3> QED BY <2>1, <3>3, <3>4
  <2>2. CASE ~pooled
    BY <1>1, <1>2, <2>2
  <2> QED BY <2>1, <2>2
<1> HIDE DEF d, N, m, rest, e
<1>13. Objects' = (Range(rest) \cup {e}) \ {0} /\ Objects = (Range(rest) \cup Range(d)) \ {0}
  BY <1>7, <1>12 DEF Objects
<1>14. PoolOK'
  BY <1>1, <1>2, <1>11, <1>12 DEF PoolInv, PoolOK, N
<1>15. Range(pool) \cup Objects = Range(pool') \cup Objects'
  <2>1. CASE pooled
    BY <1>10, <1>11, <1>13, <2>1
  <2>2. CASE ~pooled /\ n = 0
    <3>1. Range(d) = {}
      BY <1>5, <2>2 DEF Range
    <3> QED BY <1>10, <1>11, <1>13, <2>2, <3>1
  <2>3. CASE ~pooled /\ n = 1 /\ e # 0
    BY <1>10, <1>11, <1>13, <2>3
  <2>4. CASE ~pooled /\ n = 1 /\ e = 0
    <3>1. Range(d) = {0}
      <4>1. d[1] = 0 /\ DOMAIN d = {1}
        BY <1>5, <2>4 DEF e, d, TokenOfResult
      <4> QED BY <4>1 DEF Range
    <3> QED BY <1>10, <1>11, <1>13, <2>4, <3>1
  <2> QED BY <1>3, <2>1, <2>2, <2>3, <2>4
<1>17. NoTokenAliased'
  <2>1. Objects' \subseteq Objects
    BY <1>10, <1>13
  <2>2. Range(pool') \cap Objects' = {}
    BY <1>2, <1>9, <1>10, <1>11, <1>13
  <2>3. look \notin Range(pool')
    <3>1. look # 0 => look \notin Range(d)
      BY <1>2, <1>13
    <3> QED BY <1>2, <1>11, <3>1
  <2>4. Range(pool') \subseteq 1..N
    BY <1>11, RangeOfSeq
  <2>5. DOMAIN heap = 1..N
    BY DEF N, PoolInv, PoolOK
  <2> QED BY <1>1, <1>2, <1>11, <1>12, <2>1, <2>2, <2>3, <2>4, <2>5 DEF NoTokenAliased, N, Apart
<1>18. Dropped' = Dropped
  BY <1>1, <1>15 DEF Dropped, InUse
<1> QED BY <1>1, <1>14, <1>17, <1>18 DEF PoolInv

(* In a recovery the object that was pushed last stays on the stack.       *)
LEMMA RecoverInv ==
    ASSUME PoolInv, NEW k \in DOMAIN tokens, RecoverTokens(k)
    PROVE  PoolInv' /\ heap' = heap
<1> DEFINE N == Len(heap)
           e == Last(tokens)
           t == Push(Cut(tokens, k), e)
<1>1. /\ look' = look /\ heap' = heap /\ pool' = pool /\ tokens' = t /\ tokens[k] = 0
  BY DEF RecoverTokens, Cut, Push
<1>2. /\ N \in Nat /\ tokens \in Seq(0..N)
      /\ Len(tokens) \in Nat /\ DOMAIN tokens = 1..Len(tokens)
      /\ \A i, j \in DOMAIN tokens : i # j /\ tokens[i] # 0 => tokens[i] # tokens[j]
  BY DEF PoolInv, PoolOK, NoTokenAliased
<1>3. /\ k \in 0..Len(tokens) /\ Len(tokens) \in DOMAIN tokens
      /\ k # Len(tokens) => Len(tokens) \in (k + 1)..Len(tokens)
  BY <1>2
<1>4. /\ e = tokens[Len(tokens)] /\ e \in 0..N
      /\ Above(tokens, k, e)
  <2>1. e = tokens[Len(tokens)]
    BY DEF Last
  <2> HIDE DEF e, N
  <2>2. e \in 0..N
    BY <1>2, <1>3, <2>1
  <2>3. k = Len(tokens) => e = 0
    BY <1>1, <2>1
  <2> QED BY <1>3, <2>1, <2>2, <2>3 DEF Above
<1> DEFINE S == 0..N
<1>10. tokens \in Seq(S) /\ e \in S /\ Apart(tokens)
  BY <1>2, <1>4 DEF Apart
<1> HIDE DEF N, e, S
<1>5. /\ DOMAIN Cut(tokens, k) = 1..k
      /\ \A i \in 1..k : Cut(tokens, k)[i] = tokens[i] /\ i \in DOMAIN tokens
      /\ t \in Seq(S)
      /\ Range(t) = Range(Cut(tokens, k)) \cup {e}
      /\ Apart(t)
  BY <1>3, <1>4, <1>10, CutStack
<1> HIDE DEF t
<1>6. Range(t) \subseteq Range(tokens)
  BY <1>2, <1>3, <1>4, <1>5 DEF Range
<1>7. PoolOK'
  BY <1>1, <1>5 DEF PoolInv, PoolOK, N, S
<1>8. Objects' \subseteq Objects
  BY <1>1, <1>6 DEF Objects
<1>9. NoTokenAliased'
  BY <1>1, <1>5, <1>8 DEF PoolInv, NoTokenAliased, Apart
<1> QED BY <1>1, <1>7, <1>9 DEF PoolInv

LEMMA DiscardInv == PoolInv /\ DiscardToken => PoolInv' /\ heap' = heap
<1> SUFFICES ASSUME PoolInv, DiscardToken PROVE PoolInv' /\ heap' = heap
  OBVIOUS
<1>1. look' = 0 /\ tokens' = tokens /\ heap' = heap /\ pool' = pool
  BY DEF DiscardToken
<1>2. Len(heap) \in Nat /\ 0 \in 0..Len(heap) /\ pool \in Seq(1..Len(heap))
  BY DEF PoolInv, PoolOK
<1>3. 0 \notin Range(pool)
  <2>1. Range(pool) \subseteq 1..Len(heap)
    BY <1>2, RangeOfSeq
  <2> QED BY <1>2, <2>1
<1>4. Objects' = Objects /\ 0 \notin Objects
  BY <1>1 DEF Objects
<1>5. PoolOK'
  BY <1>1, <1>2 DEF PoolInv, PoolOK
<1>6. NoTokenAliased'
  BY <1>1, <1>2, <1>3, <1>4 DEF PoolInv, NoTokenAliased
<1> QED BY <1>1, <1>5, <1>6 DEF PoolInv

(* What every step does, one action after the other.                       *)
LEMMA PoolStep ==
    ASSUME PoolInv, [PoolNext]_poolVars
    PROVE  /\ PoolInv'
           /\ \A o \in InUse \cap InUse' : heap'[o] = heap[o]
           /\ Recover \/ Dropped' = Dropped
<1>1. ASSUME NEW token, ReadToken(token)
      PROVE  PoolInv' /\ (\A o \in InUse \cap InUse' : heap'[o] = heap[o]) /\ Dropped' = Dropped
  BY <1>1, ReadInv
<1>2. CASE ShiftToken
  BY <1>2, ShiftInv
<1>3. ASSUME NEW n \in 0..Len(tokens), NEW pooled \in BOOLEAN,
             pooled \/ n <= 1, ReduceTokens(n, pooled)
      PROVE  PoolInv' /\ heap' = heap /\ Dropped' = Dropped
  BY <1>3, ReduceInv
<1>4. CASE Recover
  <2>1. PoolInv' /\ heap' = heap
    BY <1>4, RecoverInv, DiscardInv DEF Recover
  <2> QED BY <1>4, <2>1
<1>5. CASE UNCHANGED poolVars
  BY <1>5 DEF poolVars, PoolInv, PoolOK, NoTokenAliased, Objects, InUse, Dropped
<1> QED BY <1>1, <1>2, <1>3, <1>4, <1>5 DEF PoolNext

LEMMA PoolInvHolds == PoolSpec => []PoolInv
BY PoolInvInit, PoolStep, PTL DEF PoolSpec

(* No object is filled for a token while another token is in it: neither   *)
(* the stack nor the scanner has an object of the pool or one that another *)
(* slot has, whatever the grammar and whatever the errors of the file.     *)
THEOREM TokensApart == PoolSpec => []NoTokenAliased
<1>1. PoolInv => NoTokenAliased
  BY DEF PoolInv
<1> QED BY <1>1, PoolInvHolds, PTL

(* So what an action reads of a token is what the scanner wrote.           *)
THEOREM TokensKept == PoolSpec => TokensStay
<1>1. PoolInv /\ [PoolNext]_poolVars => [\A o \in InUse \cap InUse' : heap'[o] = heap[o]]_poolVars
  BY PoolStep
<1> QED BY <1>1, PoolInvHolds, PTL DEF PoolSpec, TokensStay

(* And all objects but those dropped in errors are used again.             *)
THEOREM DroppedInErrors == PoolSpec => DroppedInErrorsOnly
<1>1. PoolInv /\ [PoolNext]_poolVars => [Recover \/ Dropped' = Dropped]_poolVars
  BY PoolStep
<1> QED BY <1>1, PoolInvHolds, PTL DEF PoolSpec, DroppedInErrorsOnly
=============================================================================
