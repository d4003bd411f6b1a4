--------------------------- MODULE MemoryLimiter ---------------------------
(***************************************************************************)
(* The memory limiter of linter/limits.go: one goroutine that owns the     *)
(* number of bytes being parsed and serves two unbuffered channels.  A     *)
(* goroutine that is about to parse a file sends the file's size on        *)
(* parseStartCh (BeforeParse) and blocks until the limiter receives it; it *)
(* sends the same size on parseFinishedCh (Finish) when it is done.        *)
(*                                                                         *)
(* An unbuffered send and its receive are one joint step, so Admit and     *)
(* Release are the limiter's half of a step of the goroutine that parses:  *)
(* modules that run such goroutines conjoin them to their own half.        *)
(***************************************************************************)
EXTENDS Integers

CONSTANT MaxFileSize        \* linter.MaxFileSize, the soft limit in bytes

ASSUME MaxFileSizeAssumption == MaxFileSize \in Nat

VARIABLES
    used,       \* bytes of the files admitted and not finished
    admitting   \* plusCh = parseStartCh; FALSE stands for plusCh = nil

TypeOK ==
    /\ used \in Int
    /\ admitting \in BOOLEAN

Init ==
    /\ used = 0
    /\ admitting = TRUE

(* Mutant: the limit is compared with the bytes used before the request.   *)
AdmitComparesTooEarly(size) ==
    /\ admitting
    /\ used' = used + size
    /\ admitting' = (used <= MaxFileSize)

(***************************************************************************)
(* The select's first branch.  A receive from a nil channel never happens, *)
(* so the branch needs plusCh; one file may push used above the limit,     *)
(* which closes the branch for the next.                                   *)
(***************************************************************************)
Admit(size) ==
    /\ admitting
    /\ used' = used + size
    /\ admitting' = (used + size <= MaxFileSize)

(* Mutant: plusCh stays nil once it has been.                              *)
ReleaseNeverReopens(size) ==
    /\ used' = used - size
    /\ admitting' = admitting

(***************************************************************************)
(* The select's second branch, always open: it re-opens the first one as   *)
(* soon as used is back within the limit and otherwise leaves it alone.    *)
(***************************************************************************)
Release(size) ==
    /\ used' = used - size
    /\ admitting' = IF used - size <= MaxFileSize THEN TRUE ELSE admitting
=============================================================================
