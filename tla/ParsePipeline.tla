--------------------------- MODULE ParsePipeline ---------------------------
(***************************************************************************)
(* One call of linter.ParseFilenames (linter/parser.go): a producer        *)
(* goroutine lists files into the buffered channel filenamesCh and closes  *)
(* it, MaxConcurrency workers take files from it, parse each under the     *)
(* memory limiter and either keep the reports of the file or put its       *)
(* symbols into the global index, and the calling goroutine waits for all  *)
(* of them before it collects their reports.                               *)
(*                                                                         *)
(* A file is a model value and what it contains is abstracted to the       *)
(* outcomes a worker can meet: it opens or not, it parses and analyses or  *)
(* fails (an empty tree, or a panic that ParseContents recovers), and when *)
(* it is being indexed its symbols may come from the cache, or the cache   *)
(* may refuse to be written.                                               *)
(***************************************************************************)
EXTENDS Sequences, FiniteSets, Functions, MemoryLimiter

CONSTANTS
    Files,          \* the files the reader lists
    Workers,        \* the worker goroutines, MaxConcurrency of them
    ChanCap,        \* capacity of filenamesCh (512 in the code)
    ReportsCap,     \* capacity of reportsCh (MaxConcurrency in the code)
    Size,           \* rd.Size() of each file
    NoFile          \* a worker that handles no file

ASSUME PipelineAssumption ==
    /\ IsFiniteSet(Files)
    /\ IsFiniteSet(Workers) /\ Workers # {}
    /\ ChanCap \in Nat \ {0}
    /\ ReportsCap = Cardinality(Workers)
    /\ Size \in [Files -> Nat]
    /\ NoFile \notin Files

VARIABLES
    needReports,    \* meta.IsIndexingComplete() when the call started
    unread,         \* files the reader has yet to send
    filenamesCh,    \* the buffered channel
    closed,         \* the producer has closed it
    pc,             \* where each worker is
    file,           \* the file a worker handles
    rep,            \* files whose reports a worker has collected so far
    indexed,        \* files whose symbols this call put into meta.Info
    reportsCh,      \* the lists of reports the workers have sent
    wg,             \* the WaitGroup's counter
    main,           \* where the calling goroutine is
    received,       \* lists it has received
    allReports      \* files whose reports it has collected

limiterVars == <<used, admitting>>
producerVars == <<unread, closed>>
workerVars == <<pc, file, rep, indexed>>
mainVars == <<main, received, allReports>>
pipelineVars == <<needReports, unread, filenamesCh, closed, pc, file, rep,
                  indexed, reportsCh, wg, main, received, allReports,
                  used, admitting>>

WorkerState == {"recv", "open", "wait", "parse", "update", "send", "done", "exit"}

PipelineTypeOK ==
    /\ TypeOK
    /\ needReports \in BOOLEAN
    /\ unread \in SUBSET Files
    /\ filenamesCh \in Seq(Files)
    /\ closed \in BOOLEAN
    /\ pc \in [Workers -> WorkerState]
    /\ file \in [Workers -> Files \union {NoFile}]
    /\ rep \in [Workers -> SUBSET Files]
    /\ indexed \in SUBSET Files
    /\ reportsCh \in Seq(SUBSET Files)
    /\ wg \in Nat
    /\ main \in {"wait", "collect", "returned", "fatal"}
    /\ received \in Nat
    /\ allReports \in SUBSET Files

-----------------------------------------------------------------------------

(* Mutant: wg.Add(1) missing for one of the workers.                       *)
PipelineInitOneAddMissing ==
    /\ Init
    /\ needReports \in BOOLEAN
    /\ unread = Files
    /\ filenamesCh = <<>>
    /\ closed = FALSE
    /\ pc = [w \in Workers |-> "recv"]
    /\ file = [w \in Workers |-> NoFile]
    /\ rep = [w \in Workers |-> {}]
    /\ indexed = {}
    /\ reportsCh = <<>>
    /\ wg = Cardinality(Workers) - 1
    /\ main = "wait"
    /\ received = 0
    /\ allReports = {}

(* Everything is spawned before the calling goroutine blocks in wg.Wait.   *)
PipelineInit ==
    /\ Init
    /\ needReports \in BOOLEAN
    /\ unread = Files
    /\ filenamesCh = <<>>
    /\ closed = FALSE
    /\ pc = [w \in Workers |-> "recv"]
    /\ file = [w \in Workers |-> NoFile]
    /\ rep = [w \in Workers |-> {}]
    /\ indexed = {}
    /\ reportsCh = <<>>
    /\ wg = Cardinality(Workers)
    /\ main = "wait"
    /\ received = 0
    /\ allReports = {}

(* log.Fatalf in a reader ends the process: nothing runs after it.         *)
Alive == main # "fatal"

-----------------------------------------------------------------------------
(* The producer goroutine.                                                 *)

(* ReadCallback: ch <- FileInfo.  Directories are walked unsorted and git  *)
(* trees in their own order, so the order is left open.                    *)
SendFilename(f) ==
    /\ Alive
    /\ f \in unread
    /\ Len(filenamesCh) < ChanCap
    /\ filenamesCh' = Append(filenamesCh, f)
    /\ unread' = unread \ {f}
    /\ UNCHANGED <<needReports, closed, reportsCh, wg, limiterVars, workerVars, mainVars>>

CloseFilenames ==
    /\ Alive
    /\ unread = {}
    /\ ~closed
    /\ closed' = TRUE
    /\ UNCHANGED <<needReports, unread, filenamesCh, reportsCh, wg, limiterVars, workerVars, mainVars>>

(* A path that cannot be stat'ed, walked or read while there is still      *)
(* something to list.                                                      *)
ReaderFatal ==
    /\ Alive
    /\ unread # {}
    /\ main' = "fatal"
    /\ UNCHANGED <<needReports, filenamesCh, reportsCh, wg, received, allReports,
                   limiterVars, producerVars, workerVars>>

-----------------------------------------------------------------------------
(* A worker: for f := range filenamesCh { rep = append(rep, doParseFile(f)) } *)

(* Mutant: the goroutines share one variable f instead of having their own. *)
ReceiveIntoSharedVariable(w) ==
    /\ Alive
    /\ pc[w] = "recv"
    /\ filenamesCh # <<>>
    /\ file' = [v \in Workers |-> IF v = w \/ file[v] # NoFile THEN Head(filenamesCh) ELSE NoFile]
    /\ filenamesCh' = Tail(filenamesCh)
    /\ pc' = [pc EXCEPT ![w] = "open"]
    /\ UNCHANGED <<needReports, rep, indexed, reportsCh, wg, limiterVars, producerVars, mainVars>>

Receive(w) ==
    /\ Alive
    /\ pc[w] = "recv"
    /\ filenamesCh # <<>>
    /\ file' = [file EXCEPT ![w] = Head(filenamesCh)]
    /\ filenamesCh' = Tail(filenamesCh)
    /\ pc' = [pc EXCEPT ![w] = "open"]
    /\ UNCHANGED <<needReports, rep, indexed, reportsCh, wg, limiterVars, producerVars, mainVars>>

(* IndexFile finds the symbols of this very content in the cache: it never *)
(* parses and never asks the limiter.                                      *)
CacheHit(w) ==
    /\ Alive
    /\ pc[w] = "open"
    /\ ~needReports
    /\ pc' = [pc EXCEPT ![w] = "update"]
    /\ UNCHANGED <<needReports, filenamesCh, file, rep, indexed, reportsCh, wg,
                   limiterVars, producerVars, mainVars>>

(* The source cannot be opened: ParseContents recovers its own panic (or   *)
(* IndexFile returns the error), doParseFile logs it and goes on.          *)
OpenFails(w) ==
    /\ Alive
    /\ pc[w] = "open"
    /\ pc' = [pc EXCEPT ![w] = "recv"]
    /\ file' = [file EXCEPT ![w] = NoFile]
    /\ UNCHANGED <<needReports, filenamesCh, rep, indexed, reportsCh, wg,
                   limiterVars, producerVars, mainVars>>

(* The source is open; from here on only the limiter can hold the worker.  *)
OpenSource(w) ==
    /\ Alive
    /\ pc[w] = "open"
    /\ pc' = [pc EXCEPT ![w] = "wait"]
    /\ UNCHANGED <<needReports, filenamesCh, file, rep, indexed, reportsCh, wg,
                   limiterVars, producerVars, mainVars>>

(* waiter := BeforeParse(rd.Size(), filename)                              *)
BeforeParse(w) ==
    /\ Alive
    /\ pc[w] = "wait"
    /\ Admit(Size[file[w]])
    /\ pc' = [pc EXCEPT ![w] = "parse"]
    /\ UNCHANGED <<needReports, filenamesCh, file, rep, indexed, reportsCh, wg,
                   producerVars, mainVars>>

(* The end of ParseContents: analyzeFile returned a walker, and the        *)
(* deferred waiter.Finish() gives the bytes back.                          *)
ParseSucceeds(w) ==
    /\ Alive
    /\ pc[w] = "parse"
    /\ Release(Size[file[w]])
    /\ \/ /\ needReports
          /\ rep' = [rep EXCEPT ![w] = @ \union {file[w]}]
          /\ pc' = [pc EXCEPT ![w] = "recv"]
          /\ file' = [file EXCEPT ![w] = NoFile]
       \/ /\ ~needReports
          /\ pc' = [pc EXCEPT ![w] = "update"]
          /\ UNCHANGED <<rep, file>>
    /\ UNCHANGED <<needReports, filenamesCh, indexed, reportsCh, wg, producerVars, mainVars>>

(* Mutant: Finish is called at the end instead of being deferred.          *)
ParseFailsWithoutFinish(w) ==
    /\ Alive
    /\ pc[w] = "parse"
    /\ pc' = [pc EXCEPT ![w] = "recv"]
    /\ file' = [file EXCEPT ![w] = NoFile]
    /\ UNCHANGED <<needReports, filenamesCh, rep, indexed, reportsCh, wg,
                   limiterVars, producerVars, mainVars>>

(* No tree, or a panic of the parser, of a checker or of a rule: the       *)
(* deferred Finish runs on this path too, before the recover.              *)
ParseFails(w) ==
    /\ Alive
    /\ pc[w] = "parse"
    /\ Release(Size[file[w]])
    /\ pc' = [pc EXCEPT ![w] = "recv"]
    /\ file' = [file EXCEPT ![w] = NoFile]
    /\ UNCHANGED <<needReports, filenamesCh, rep, indexed, reportsCh, wg, producerVars, mainVars>>

(* The rest of IndexFile: updateMetaInfo, or the cache file could not be   *)
(* written and the symbols are dropped with it.                            *)
UpdateMeta(w) ==
    /\ Alive
    /\ pc[w] = "update"
    /\ indexed' \in {indexed, indexed \union {file[w]}}
    /\ pc' = [pc EXCEPT ![w] = "recv"]
    /\ file' = [file EXCEPT ![w] = NoFile]
    /\ UNCHANGED <<needReports, filenamesCh, rep, reportsCh, wg, limiterVars, producerVars, mainVars>>

(* Mutant: an empty channel is taken for a closed one.                     *)
NoMoreFilesWhenEmpty(w) ==
    /\ Alive
    /\ pc[w] = "recv"
    /\ filenamesCh = <<>>
    /\ pc' = [pc EXCEPT ![w] = "send"]
    /\ UNCHANGED <<needReports, filenamesCh, file, rep, indexed, reportsCh, wg,
                   limiterVars, producerVars, mainVars>>

(* The range loop ends: the channel is closed and drained.                 *)
NoMoreFiles(w) ==
    /\ Alive
    /\ pc[w] = "recv"
    /\ closed
    /\ filenamesCh = <<>>
    /\ pc' = [pc EXCEPT ![w] = "send"]
    /\ UNCHANGED <<needReports, filenamesCh, file, rep, indexed, reportsCh, wg,
                   limiterVars, producerVars, mainVars>>

(* reportsCh <- rep                                                        *)
SendReports(w) ==
    /\ Alive
    /\ pc[w] = "send"
    /\ Len(reportsCh) < ReportsCap
    /\ reportsCh' = Append(reportsCh, rep[w])
    /\ pc' = [pc EXCEPT ![w] = "done"]
    /\ UNCHANGED <<needReports, filenamesCh, file, rep, indexed, wg, limiterVars, producerVars, mainVars>>

(* wg.Done()                                                               *)
WorkerDone(w) ==
    /\ Alive
    /\ pc[w] = "done"
    /\ wg' = wg - 1
    /\ pc' = [pc EXCEPT ![w] = "exit"]
    /\ UNCHANGED <<needReports, filenamesCh, file, rep, indexed, reportsCh,
                   limiterVars, producerVars, mainVars>>

-----------------------------------------------------------------------------
(* The calling goroutine.                                                  *)

WaitReturns ==
    /\ main = "wait"
    /\ wg = 0
    /\ main' = "collect"
    /\ UNCHANGED <<needReports, filenamesCh, reportsCh, wg, received, allReports,
                   limiterVars, producerVars, workerVars>>

Collect ==
    /\ main = "collect"
    /\ received < Cardinality(Workers)
    /\ reportsCh # <<>>
    /\ allReports' = allReports \union Head(reportsCh)
    /\ reportsCh' = Tail(reportsCh)
    /\ received' = received + 1
    /\ UNCHANGED <<needReports, filenamesCh, wg, main, limiterVars, producerVars, workerVars>>

(* Mutant: the collecting loop stops one list short.                       *)
ReturnReportsOneShort ==
    /\ main = "collect"
    /\ received = Cardinality(Workers) - 1
    /\ main' = "returned"
    /\ UNCHANGED <<needReports, filenamesCh, reportsCh, wg, received, allReports,
                   limiterVars, producerVars, workerVars>>

ReturnReports ==
    /\ main = "collect"
    /\ received = Cardinality(Workers)
    /\ main' = "returned"
    /\ UNCHANGED <<needReports, filenamesCh, reportsCh, wg, received, allReports,
                   limiterVars, producerVars, workerVars>>

(* The call is over (or the process is): nothing is left to do.            *)
Stopped ==
    /\ main \in {"returned", "fatal"}
    /\ UNCHANGED pipelineVars

WorkerStep(w) ==
    \/ Receive(w)
    \/ CacheHit(w)
    \/ OpenFails(w)
    \/ OpenSource(w)
    \/ BeforeParse(w)
    \/ ParseSucceeds(w)
    \/ ParseFails(w)
    \/ UpdateMeta(w)
    \/ NoMoreFiles(w)
    \/ SendReports(w)
    \/ WorkerDone(w)

ProducerStep ==
    \/ \E f \in Files : SendFilename(f)
    \/ CloseFilenames

MainStep ==
    \/ WaitReturns
    \/ Collect
    \/ ReturnReports

Next ==
    \/ ProducerStep
    \/ ReaderFatal
    \/ \E w \in Workers : WorkerStep(w)
    \/ MainStep
    \/ Stopped

PipelineSpec == PipelineInit /\ [][Next]_pipelineVars

(***************************************************************************)
(* Go schedules every runnable goroutine, so each of them is weakly fair.  *)
(* A worker that may be admitted may also be overtaken by another one, but *)
(* a batch is finite, so weak fairness is enough for every one of them.    *)
(***************************************************************************)
Fairness ==
    /\ WF_pipelineVars(ProducerStep)
    /\ \A w \in Workers : WF_pipelineVars(WorkerStep(w))
    /\ WF_pipelineVars(MainStep)

FairPipelineSpec == PipelineSpec /\ Fairness

-----------------------------------------------------------------------------
(* The correctness of a batch.                                             *)

Parsing == {w \in Workers : pc[w] = "parse"}

(* The limit is soft by one file only: while more bytes are being parsed   *)
(* than MaxFileSize allows, taking away one of the files being parsed (the *)
(* last one admitted) brings them back within it, and until then nobody    *)
(* else is admitted.  In particular the limiter only refuses work while    *)
(* somebody who will call Finish holds a slot.                             *)
SoftLimit ==
    /\ admitting <=> used <= MaxFileSize
    /\ used > MaxFileSize =>
         \E w \in Parsing : used - Size[file[w]] <= MaxFileSize

(* What the limiter believes is what is being parsed: no path through      *)
(* ParseContents, success or failure, leaks bytes or returns them twice.   *)
LimiterAccounting ==
    used = SumFunctionOnSet([w \in Workers |-> IF file[w] = NoFile THEN 0 ELSE Size[file[w]]], Parsing)

(* The files that have not been handled, wherever they are.                *)
Busy == {w \in Workers : file[w] # NoFile}
InFlight == unread \union Range(filenamesCh) \union {file[w] : w \in Busy}

(* The files whose work took effect, wherever their reports are by now.    *)
Effect ==
    indexed \union allReports \union (UNION Range(reportsCh))
            \union (UNION {rep[w] : w \in {v \in Workers : pc[v] \notin {"done", "exit"}}})

(* A listed file is in one place at a time: with the reader, in the        *)
(* channel once, or with one worker.  It has no effect before a worker is  *)
(* through with it, and one worker at most keeps its reports: no file is   *)
(* analysed twice and no report is printed twice.                          *)
NoFileTwice ==
    /\ \A i, j \in DOMAIN filenamesCh : filenamesCh[i] = filenamesCh[j] => i = j
    /\ \A v, w \in Busy : file[v] = file[w] => v = w
    /\ unread \intersect Range(filenamesCh) = {}
    /\ \A w \in Busy : file[w] \notin unread \union Range(filenamesCh)
    /\ Effect \intersect InFlight = {}
    /\ \A v, w \in Workers : v # w => rep[v] \intersect rep[w] = {}

(* The call returns only when every worker has delivered: no file is left  *)
(* behind, and the reports returned are those of all the files analysed.   *)
ReturnsEverything ==
    main = "returned" =>
        /\ InFlight = {}
        /\ allReports = UNION {rep[w] : w \in Workers}

(* A batch ends, whatever the sizes: the limiter, the two channels and the *)
(* wait group never wait for each other.                                   *)
Terminates == <>(main \in {"returned", "fatal"})

(* ParseFilenames implements the batch it promises.                        *)
Batch == INSTANCE ParseBatch WITH
    todo <- InFlight,
    effect <- Effect,
    returned <- IF main = "returned" THEN allReports \union indexed ELSE {},
    state <- IF main \in {"wait", "collect"} THEN "running" ELSE main

ImplementsBatch == Batch!Spec
=============================================================================
