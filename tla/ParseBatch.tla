----------------------------- MODULE ParseBatch -----------------------------
(***************************************************************************)
(* What one call of linter.ParseFilenames promises, without channels,      *)
(* goroutines or the memory limiter: the files the reader lists are        *)
(* handled in any order, each of them once; handling a file either takes   *)
(* effect or is logged as failed; the call returns when every listed file  *)
(* has been handled, with the effects of exactly the files that succeeded. *)
(* A reader that cannot read a file it listed ends the process.            *)
(***************************************************************************)
CONSTANT Files

VARIABLES
    todo,       \* listed files nobody has handled
    effect,     \* files whose reports (or meta) have been produced
    returned,   \* files whose effect the caller sees, once state = "returned"
    state       \* "running", "returned" or "fatal"

abstractVars == <<todo, effect, returned, state>>

Init ==
    /\ todo = Files
    /\ effect = {}
    /\ returned = {}
    /\ state = "running"

Handle(f) ==
    /\ state = "running"
    /\ f \in todo
    /\ todo' = todo \ {f}
    /\ effect' \in {effect, effect \union {f}}
    /\ UNCHANGED <<returned, state>>

Return ==
    /\ state = "running"
    /\ todo = {}
    /\ state' = "returned"
    /\ returned' = effect
    /\ UNCHANGED <<todo, effect>>

Fatal ==
    /\ state = "running"
    /\ todo # {}
    /\ state' = "fatal"
    /\ UNCHANGED <<todo, effect, returned>>

Next ==
    \/ \E f \in Files : Handle(f)
    \/ Return
    \/ Fatal

Spec == Init /\ [][Next]_abstractVars
=============================================================================
