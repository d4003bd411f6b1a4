----------------------------- MODULE BlockFlow -----------------------------
(***************************************************************************)
(* linter.BlockWalker (linter/block.go) over the body of one function:     *)
(* the contexts it opens for branches and loops, the exit flags and the    *)
(* scope it merges back, and what it reports of one variable $x.  The body *)
(* is walked statement by statement as handleFuncStmts does, beside the    *)
(* trace set of PhpFlow; any prefix of a body is a body.                   *)
(*                                                                         *)
(* A walker w is its context (w.ctx) and what contexts share: the writes   *)
(* of $x not followed by a read (unused), and the places of the reports.   *)
(* Types, and every other variable, are left out.                          *)
(***************************************************************************)
EXTENDS PhpFlow

CONSTANT Menu           \* Menu[i]: what the i-th statement of the body may be

VARIABLES
    prog,               \* the statements walked
    w,                  \* the BlockWalker
    traces              \* what executing prog may do

vars == <<prog, w, traces>>

Flags == {"break", "continue", "return", "throw", "die"}
breakFlags == {"break", "continue"}

(* x: the variable in meta.Scope: absent, or there and alwaysDefined or    *)
(* not.                                                                    *)
Context == [exitFlags : SUBSET Flags, containsExitFlags : SUBSET Flags,
            deadCodeReported : BOOLEAN, x : {"absent", "maybe", "always"},
            innermostLoop : {"none", "for", "switch"}, insideLoop : BOOLEAN]

NewWalker ==
    [ctx |-> [exitFlags |-> {}, containsExitFlags |-> {}, deadCodeReported |-> FALSE,
              x |-> "absent", innermostLoop |-> "none", insideLoop |-> FALSE],
     unused |-> {}, dead |-> {}, undefined |-> {}, caseContinue |-> {}]

-----------------------------------------------------------------------------
(* Scope and contexts.                                                     *)

AddVarName(x, alwaysDefined) == IF alwaysDefined \/ x = "always" THEN "always" ELSE "maybe"

maybeAddAllVars(x, inner) == IF inner = "absent" THEN x ELSE AddVarName(x, FALSE)

copyBlockContextAsNew(c) ==
    [c EXCEPT !.exitFlags = {}, !.containsExitFlags = {}, !.deadCodeReported = FALSE,
              !.innermostLoop = "none"]

copyBlockContext(c) ==
    [c EXCEPT !.exitFlags = {}, !.containsExitFlags = {}, !.deadCodeReported = FALSE]

(* Into a new context, and back from walker u into the one w had.          *)
NewContext(v) == [v EXCEPT !.ctx = copyBlockContext(@)]
Resume(v, u) == [u EXCEPT !.ctx = v.ctx]

propagateFlags(v, inner) ==
    [v EXCEPT !.ctx.containsExitFlags = @ \union inner.containsExitFlags]

UnionOf(F(_), ctxs) == UNION {F(c) : c \in Range(ctxs)}
Contained(ctxs) == UnionOf(LAMBDA c : c.containsExitFlags, ctxs)

propagateFlagsFromOneBranch(v, ctxs, links) ==
    [v EXCEPT !.ctx.containsExitFlags = @ \union Contained(ctxs),
              !.ctx.exitFlags =
                  @ \union (IF links <= 1 THEN UnionOf(LAMBDA c : c.exitFlags, ctxs) ELSE {})]

(* links is how many ways lead past the branches.                          *)
propagateFlagsFromBranches(v, ctxs, links) ==
    [v EXCEPT !.ctx.containsExitFlags = @ \union Contained(ctxs),
              !.ctx.exitFlags =
                  @ \union (IF links = 0 THEN UnionOf(LAMBDA c : c.exitFlags, ctxs) ELSE {})]

MergeBranchesGoingOn(x, ctxs, links) ==
    IF \A i \in DOMAIN ctxs : ctxs[i].x = "absent" THEN x
    ELSE AddVarName(x, \A i \in DOMAIN ctxs : ctxs[i].x = "always")

(* The variable after branches of which those in ctxs go on: alwaysDefined *)
(* when it is in as many of them as there are ways past.                   *)
MergeBranches(x, ctxs, links) ==
    LET always == {i \in DOMAIN ctxs : ctxs[i].x = "always"} IN
    IF \A i \in DOMAIN ctxs : ctxs[i].x = "absent" THEN x
    ELSE AddVarName(x, Cardinality(always) = links)

-----------------------------------------------------------------------------
(* EnterNode's report, the leaves, and LeaveNode's flags.                  *)

(* Return and Break may repeat an exit; Throw is let through too, but the  *)
(* expression under it is a node of its own.                               *)
reportDeadCode(v, k, p) ==
    IF v.ctx.exitFlags # {} /\ ~v.ctx.deadCodeReported /\ k \notin {"return", "break"}
    THEN [v EXCEPT !.ctx.deadCodeReported = TRUE, !.dead = @ \union {p}]
    ELSE v

LeaveNode(v, k) ==
    IF v.ctx.exitFlags = {}
    THEN [v EXCEPT !.ctx.exitFlags = {k}, !.ctx.containsExitFlags = @ \union {k}]
    ELSE v

trackVarNameEverywhere(v, p) == [v EXCEPT !.unused = @ \union {p}]

trackVarName(v, p) == IF v.ctx.insideLoop THEN v ELSE [v EXCEPT !.unused = @ \union {p}]

handleAssign(v, p) == trackVarName([v EXCEPT !.ctx.x = "always"], p)

handleUnset(v) == [v EXCEPT !.unused = {}, !.ctx.x = "absent"]

handleVariable(v, p) ==
    IF v.ctx.x = "always" THEN [v EXCEPT !.unused = {}]
    ELSE [v EXCEPT !.unused = {}, !.ctx.x = "always", !.undefined = @ \union {p}]

handleLogicalOr(v) ==
    [LeaveNode(v, "die") EXCEPT !.ctx.exitFlags = v.ctx.exitFlags]

handleContinue(v, p) ==
    IF v.ctx.innermostLoop = "switch" THEN [v EXCEPT !.caseContinue = @ \union {p}] ELSE v

(* The callee's ExitFlags, as PrematureExitFlags gave them.                *)
handleFunctionCall(v, exitFlags) == [v EXCEPT !.ctx.exitFlags = @ \union exitFlags]

WalkLeaf(v, k, p) ==
    CASE k = "assign" -> handleAssign(v, p)
      [] k = "unset" -> handleUnset(v)
      [] k = "use" -> handleVariable(v, p)
      [] k = "call" -> handleFunctionCall(v, {})
      [] k = "exits" -> handleFunctionCall(v, {"die"})
      [] k = "or" -> handleLogicalOr(v)
      [] k = "and" -> LeaveNode(v, "die")
      [] k = "continue" -> LeaveNode(handleContinue(v, p), k)
      [] OTHER -> LeaveNode(v, k)

-----------------------------------------------------------------------------
RECURSIVE Walk(_, _, _), WalkFrom(_, _, _, _), Branches(_, _, _, _), Cases(_, _, _, _),
          iterateNextCases(_, _, _, _, _)

WalkBlock(v, block, p) == WalkFrom(v, block, p, 1)
WalkFrom(v, block, p, i) ==
    IF i > Len(block) THEN v ELSE WalkFrom(Walk(v, block[i], Append(p, i)), block, p, i + 1)

(* The blocks of a statement numbered by is, each in a context of its own  *)
(* that starts like v's: the shared state, and the contexts they ended in. *)
Branches(v, s, is, p) ==
    IF is = <<>> THEN [w |-> v, ctxs |-> <<>>]
    ELSE LET one == WalkBlock(NewContext(v), s.parts[Head(is)], Append(p, Head(is)))
             rest == Branches(Resume(v, one), s, Tail(is), p)
         IN [rest EXCEPT !.ctxs = <<one.ctx>> \o @]

(* An isset variable is added for the whole if, and handleIf takes it out  *)
(* of the scope again when it is done.                                     *)
andWalker(v, isset) == IF isset THEN [v EXCEPT !.unused = {}, !.ctx.x = "always"] ELSE v

handleIf(v, s, p) ==
    LET adds == s.isset /\ v.ctx.x # "always"
        b == Branches(andWalker(v, s.isset), s, [i \in DOMAIN s.parts |-> i], p)
        live == SelectSeq(b.ctxs, LAMBDA c : c.exitFlags = {})
        links == Len(live) + (IF s.else THEN 0 ELSE 1)
        merged == propagateFlagsFromBranches(b.w, b.ctxs, links)
    IN [merged EXCEPT !.ctx.x = IF adds THEN "absent" ELSE MergeBranches(@, live, links)]

(* The body may not run at all: a context of its own, which goes on from   *)
(* walker new, and at most "maybe" of it is left in v's.                   *)
LoopBody(v, new, s, p) ==
    LET body == [new EXCEPT !.ctx.innermostLoop = "for", !.ctx.insideLoop = TRUE]
        u == WalkBlock(body, s.parts[1], Append(p, 1))
    IN propagateFlags([Resume(v, u) EXCEPT !.ctx.x = maybeAddAllVars(@, u.ctx.x)], u.ctx)

handleWhile(v, s, p) == LoopBody(v, NewContext(v), s, p)

(* foreach assigns its variable before it is inside the loop.              *)
handleForeach(v, s, p) == LoopBody(v, handleAssign(NewContext(v), p), s, p)

(* The loop expressions are walked before the body.                        *)
handleFor(v, s, p) ==
    LET u == WalkBlock(v, s.parts[2], Append(p, 2)) IN LoopBody(u, NewContext(u), s, p)

handleDo(v, s, p) ==
    LET body == [v EXCEPT !.ctx.innermostLoop = "for", !.ctx.insideLoop = TRUE] IN
    [WalkBlock(body, s.parts[1], Append(p, 1))
        EXCEPT !.ctx.innermostLoop = v.ctx.innermostLoop, !.ctx.insideLoop = v.ctx.insideLoop]

(* Falling through: the statements of the next cases, until one exits.     *)
iterateNextCases(v, s, p, i, j) ==
    IF i > Len(s.parts) THEN v
    ELSE IF j > Len(s.parts[i]) THEN iterateNextCases(v, s, p, i + 1, 1)
    ELSE LET u == Walk(v, s.parts[i][j], p \o <<i, j>>) IN
         IF u.ctx.exitFlags # {} THEN u ELSE iterateNextCases(u, s, p, i, j + 1)

(* The contexts of the cases that are not empty, and for each whether it   *)
(* counts as a link, which is settled before the next cases are walked.    *)
Cases(v, s, p, i) ==
    IF i > Len(s.parts) THEN [w |-> v, ctxs |-> <<>>, links |-> 0]
    ELSE IF s.parts[i] = <<>> THEN Cases(v, s, p, i + 1)
    ELSE LET new == [NewContext(v) EXCEPT !.ctx.innermostLoop = "switch"]
             one == WalkBlock(new, s.parts[i], Append(p, i))
             link == one.ctx.exitFlags \subseteq breakFlags
             end == IF one.ctx.exitFlags = {} THEN iterateNextCases(one, s, p, i + 1, 1) ELSE one
             rest == Cases(Resume(v, end), s, p, i + 1)
         IN [rest EXCEPT !.ctxs = <<end.ctx>> \o @, !.links = @ + (IF link THEN 1 ELSE 0)]

handleSwitch(v, s, p) ==
    LET c == Cases(v, s, p, 1)
        haveDefault == s.default # 0
        links == c.links + (IF haveDefault THEN 0 ELSE 1)
        live == SelectSeq(c.ctxs, LAMBDA d : d.exitFlags \subseteq breakFlags)
        allExit == c.ctxs # <<>> /\ haveDefault /\ live = <<>>
        exits == IF allExit THEN UnionOf(LAMBDA d : d.exitFlags \ breakFlags, c.ctxs) ELSE {}
    IN [c.w EXCEPT !.ctx.exitFlags = @ \union exits,
                   !.ctx.containsExitFlags = @ \union Contained(c.ctxs),
                   !.ctx.x = MergeBranches(@, live, links)]

(* Handlers and finally first, as if nothing of the body had been run.     *)
handleTry(v, s, p) ==
    LET others == Branches(v, s, [i \in 1..(Len(s.parts) - 1) |-> i + 1], p)
        othersExit == \A c \in Range(others.ctxs) : c.exitFlags # {}
        body == Branches(others.w, s, <<1>>, p)
        ctx == body.ctxs[1]
        exits == IF othersExit /\ ctx.exitFlags # {}
                 THEN ctx.exitFlags \union UnionOf(LAMBDA c : c.exitFlags, others.ctxs)
                 ELSE {}
    IN [body.w EXCEPT
          !.ctx.containsExitFlags = @ \union Contained(others.ctxs) \union ctx.containsExitFlags,
          !.ctx.exitFlags = @ \union exits,
          !.ctx.x = IF ctx.x = "absent" THEN @
                    ELSE AddVarName(@, ctx.x = "always" /\ othersExit)]

Walk(v, s, p) ==
    LET u == reportDeadCode(v, s.k, p) IN
    CASE s.k = "if" -> handleIf(u, s, p)
      [] s.k = "while" -> handleWhile(u, s, p)
      [] s.k = "foreach" -> handleForeach(u, s, p)
      [] s.k = "for" -> handleFor(u, s, p)
      [] s.k = "do" -> handleDo(u, s, p)
      [] s.k = "switch" -> handleSwitch(u, s, p)
      [] s.k = "try" -> handleTry(u, s, p)
      [] OTHER -> WalkLeaf(u, s.k, p)

(* What handleFuncStmts says of a function whose walk ended with v: the    *)
(* flags its callers take for calls of it.                                 *)
PrematureExitFlags(v) ==
    IF v.ctx.exitFlags \subseteq {"die", "throw"} /\ "return" \notin v.ctx.containsExitFlags
    THEN v.ctx.exitFlags
    ELSE {}

-----------------------------------------------------------------------------
Init ==
    /\ prog = <<>>
    /\ w = NewWalker
    /\ traces = Start

(* One turn of handleFuncStmts' loop over the statements.                  *)
FuncStmt(s) ==
    LET p == <<Len(prog) + 1>> IN
    /\ prog' = Append(prog, s)
    /\ w' = Walk(w, s, p)
    /\ traces' = Run(traces, s, p)

Next == Len(prog) < Len(Menu) /\ \E s \in Menu[Len(prog) + 1] : FuncStmt(s)

Spec == Init /\ [][Next]_vars
-----------------------------------------------------------------------------
(* The shapes of code whose exits the walker misreads: a break that leaves *)
(* a do loop, whose body has no context of its own, or one under an if or  *)
(* a try of a switch case, where only the flags of the end of the case     *)
(* count; a last case that is empty, and so skipped, in a switch with a    *)
(* default; "&& die", taken for an exit that always happens.               *)
MisreadExits(block) ==
    \E s \in Nested(block) :
        \/ s.k = "do" /\ Leaves(s.parts[1])
        \/ /\ s.k = "switch"
           /\ \/ \E i \in DOMAIN s.parts :
                    \E t \in Range(s.parts[i]) : t.parts # <<>> /\ Leaves(<<t>>)
              \/ s.default # 0 /\ Last(s.parts) = <<>>
        \/ s.k = "and"

(* Also misread for variables: unset in a branch, which is not merged;     *)
(* isset, taken to hold in the else too; assignments among the loop        *)
(* expressions of a for, taken to happen before the body.                  *)
MisreadVariables(block) ==
    \/ MisreadExits(block)
    \/ \E s \in Range(block) : \E part \in Range(s.parts) : Leaf("unset") \in Nested(part)
    \/ \E s \in Nested(block) :
          \/ s.k = "if" /\ s.isset /\ Len(s.parts) > 1
          \/ s.k = "for" /\ Leaf("assign") \in Range(s.parts[2])

(* Reads that run after writes they are walked before: in a handler, of    *)
(* what the body wrote; in the next round of a for, of its last step.      *)
MisreadReads(block) ==
    \E s \in Nested(block) :
        \/ s.k = "try" /\ Leaf("use") \in UNION {Nested(s.parts[i]) : i \in 2..Len(s.parts)}
        \/ s.k = "for" /\ {Leaf("use"), Leaf("assign")} \subseteq Range(s.parts[2])

(* A statement reported as "Unreachable code" runs in no execution of the  *)
(* function, however its branches, loops, cases, handlers and early exits  *)
(* are put together (reportDeadCode): exitFlags is set "if block always    *)
(* breaks code flow" (block_context.go:14).  And a function whose callers  *)
(* are told that it exits neither ends nor returns, but dies or throws     *)
(* (handleFuncStmts, root.go:492-494): else the code after its calls would *)
(* be called unreachable in other files.                                   *)
DeadCodeNeverRuns ==
    ~MisreadExits(prog) =>
        /\ w.dead \intersect traces.ran = {}
        /\ w.ctx.exitFlags # {} => traces.in = {}
        /\ PrematureExitFlags(w) # {} =>
             traces.in = {} /\ traces.jumps["return"] = {}

(* If some execution uses $x where it is not defined, some use of $x is    *)
(* reported: at the first report it is taken as defined from then on.      *)
UndefinedUseReported ==
    ~MisreadVariables(prog) /\ traces.lost # {} => w.undefined # {}

(* The value of an assignment reported as "Unused variable" is read in no  *)
(* execution of the function.                                              *)
UnusedNeverRead == ~MisreadReads(prog) => w.unused \intersect traces.read = {}

(* Of the continue statements that run, those that end a switch are        *)
(* reported, and no other; between statements the walker is in no loop.    *)
ContinueEndsSwitch ==
    /\ w.ctx.innermostLoop = "none" /\ ~w.ctx.insideLoop
    /\ w.caseContinue \intersect traces.ran = traces.switched
=============================================================================
