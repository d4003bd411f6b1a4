------------------------------ MODULE PhpFlow ------------------------------
(***************************************************************************)
(* Bodies of PHP functions, as far as control flow and one variable $x go, *)
(* and what executing them may do: the reference that linter/block.go is   *)
(* compared with in BlockFlow.                                             *)
(*                                                                         *)
(* A block is a sequence of statements, a statement a record with its kind *)
(* in k and its blocks in parts:                                           *)
(*   "assign" $x = ..;  "use" echo $x;  "unset" unset($x);  "call" f();    *)
(*   "exits" a call of a function that never returns;                      *)
(*   "or" $c or die;    "and" $c && die;                                   *)
(*   "return" "throw" "die" "break" "continue"                             *)
(*   "if"      parts: the branches; last is the else when else holds;      *)
(*             isset: the first condition is isset($x)                     *)
(*   "while" "do" "foreach"   parts: <<body>>; foreach assigns $x          *)
(*   "for"     parts: <<body, loop expressions>>                           *)
(*   "switch"  parts: the cases; default: the index of the default, or 0   *)
(*   "try"     parts: the body, then catches handlers, then the finally    *)
(*             when finally holds                                          *)
(* A statement is named by its path from the body of the function.         *)
(***************************************************************************)
EXTENDS Integers, Sequences, FiniteSets, SequencesExt

Leaf(k) == [k |-> k, parts |-> <<>>]
If(branches, else, isset) == [k |-> "if", parts |-> branches, else |-> else, isset |-> isset]
Loop(k, parts) == [k |-> k, parts |-> parts]
Switch(cases, default) == [k |-> "switch", parts |-> cases, default |-> default]
Try(body, handlers, finally) ==
    [k |-> "try", parts |-> <<body>> \o handlers \o finally,
     catches |-> Len(handlers), finally |-> finally # <<>>]

Jumps == {"break", "continue", "return", "throw", "die"}
Loops == {"while", "do", "foreach", "for"}

(* Every statement of a block, at any depth.                               *)
RECURSIVE Nested(_)
Nested(block) ==
    UNION {{s} \union UNION {Nested(part) : part \in Range(s.parts)} : s \in Range(block)}

(* A break or continue that leaves the block.                              *)
RECURSIVE Leaves(_)
Leaves(block) ==
    \E s \in Range(block) :
        \/ s.k \in {"break", "continue"}
        \/ s.k \in {"if", "try"} /\ \E part \in Range(s.parts) : Leaves(part)

-----------------------------------------------------------------------------
(* A trace set t: the assignments that may have given $x its value where   *)
(* the next statement starts (t.in; <<>> stands for "none": $x is not      *)
(* defined; {}: the place is not reached) and at each jump out (t.jumps),  *)
(* the statements that run (ran), the uses that may find $x undefined      *)
(* (lost), the assignments whose value may be read (read), the continue    *)
(* statements that end a switch (switched), and whether the innermost      *)
(* loop or switch around is a switch (inSwitch).                           *)

NoJumps == [j \in Jumps |-> {}]
Undefined == <<>>

Start == [in |-> {Undefined}, jumps |-> NoJumps, ran |-> {}, lost |-> {}, read |-> {},
          switched |-> {}, inSwitch |-> FALSE]

Jump(t, j, defs) == [t EXCEPT !.jumps[j] = @ \union defs]
Join(jumps1, jumps2) == [j \in Jumps |-> jumps1[j] \union jumps2[j]]

(* t went into a loop or a switch and was there until u: what is left of   *)
(* u outside, when control leaves it normally with out.                    *)
Outside(t, u, out) ==
    [u EXCEPT !.in = out \union u.jumps["break"], !.inSwitch = t.inSwitch,
              !.jumps = Join(t.jumps, [u.jumps EXCEPT !["break"] = {}, !["continue"] = {}])]

Simple(t, k, p) ==
    LET s == [t EXCEPT !.ran = @ \union {p}] IN
    CASE k = "assign" -> [s EXCEPT !.in = {p}]
      [] k = "unset" -> [s EXCEPT !.in = {Undefined}]
      [] k = "use" -> [s EXCEPT !.read = @ \union t.in,
                                !.lost = @ \union (IF Undefined \in t.in THEN {p} ELSE {})]
      [] k = "call" -> Jump(s, "throw", t.in)
      [] k \in {"or", "and"} -> Jump(s, "die", t.in)
      [] k = "exits" -> [Jump(s, "die", t.in) EXCEPT !.in = {}]
      [] k = "continue" /\ t.inSwitch ->
            [Jump(s, "break", t.in) EXCEPT !.in = {}, !.switched = @ \union {p}]
      [] OTHER -> [Jump(s, k, t.in) EXCEPT !.in = {}]

RECURSIVE Run(_, _, _), RunFrom(_, _, _, _), RunBranches(_, _, _, _), RunLoop(_, _, _),
          RunCases(_, _, _, _), RunFinally(_, _, _, _)

RunBlock(t, block, p) == RunFrom(t, block, p, 1)
RunFrom(t, block, p, i) ==
    IF i > Len(block) THEN t ELSE RunFrom(Run(t, block[i], Append(p, i)), block, p, i + 1)

(* The branches of an if, all from the same start; acc collects.           *)
RunBranches(t, s, p, i) ==
    IF i > Len(s.parts)
    THEN [t EXCEPT !.in = IF s.else THEN {} ELSE @]
    ELSE LET start == IF i = 1 /\ s.isset THEN t.in \ {Undefined} ELSE t.in
             one == RunBlock([t EXCEPT !.in = start], s.parts[i], Append(p, i))
             rest == RunBranches([one EXCEPT !.in = t.in], s, p, i + 1)
         IN [rest EXCEPT !.in = @ \union one.in]

(* One more round of a loop, until nothing new can reach its head.         *)
RunLoop(t, s, p) ==
    LET body == IF s.k = "foreach" /\ t.in # {} THEN [t EXCEPT !.in = {p}] ELSE t
        round == RunBlock(body, s.parts[1], Append(p, 1))
        tail == [round EXCEPT !.in = @ \union round.jumps["continue"]]
        back == IF s.k = "for" THEN RunBlock(tail, s.parts[2], Append(p, 2)) ELSE tail
    IN IF back.in \subseteq t.in
       THEN [back EXCEPT !.in = IF s.k = "do" THEN tail.in ELSE t.in]
       ELSE RunLoop([back EXCEPT !.in = @ \union t.in], s, p)

(* Each case starts from the switch and from the end of the case before.   *)
RunCases(t, s, p, start) ==
    LET one(i, u) == RunBlock([u EXCEPT !.in = @ \union start], s.parts[i], Append(p, i))
        RECURSIVE From(_, _)
        From(i, u) == IF i > Len(s.parts) THEN u ELSE From(i + 1, one(i, u))
    IN From(1, t)

(* finally runs however its try was left, except by exit, and then the try *)
(* is left that way unless finally leaves otherwise.                       *)
RunFinally(t, block, p, ways) ==
    IF ways = {} THEN t
    ELSE LET way == CHOOSE w \in ways : TRUE
             from == IF way = "in" THEN t.in ELSE t.jumps[way]
             ran == RunBlock([t EXCEPT !.in = from, !.jumps = NoJumps], block, p)
             left == IF way = "in" THEN [t EXCEPT !.in = ran.in]
                     ELSE [t EXCEPT !.jumps[way] = ran.in]
             rest == RunFinally([ran EXCEPT !.in = left.in, !.jumps = left.jumps],
                                block, p, ways \ {way})
         IN [rest EXCEPT !.jumps = Join(@, ran.jumps)]

RunTry(t, s, p) ==
    LET body == RunBlock([t EXCEPT !.jumps = NoJumps], s.parts[1], Append(p, 1))
        thrown == body.jumps["throw"]
        RECURSIVE Catch(_, _)
        Catch(i, u) ==
            IF i > s.catches THEN u
            ELSE LET c == RunBlock([u EXCEPT !.in = thrown], s.parts[i + 1], Append(p, i + 1))
                 IN Catch(i + 1, [c EXCEPT !.in = @ \union u.in])
        n == Len(s.parts)
        handled == Catch(1, body)
        left == IF s.finally
                THEN RunFinally(handled, s.parts[n], Append(p, n), (Jumps \ {"die"}) \union {"in"})
                ELSE handled
    IN [left EXCEPT !.jumps = Join(@, t.jumps)]

(* All that executing statement s, at path p, may do from t.               *)
Run(t, s, p) ==
    LET inner == [t EXCEPT !.jumps = NoJumps, !.ran = @ \union {p}] IN
    CASE t.in = {} -> t
      [] s.k = "if" ->
            RunBranches([t EXCEPT !.ran = @ \union {p},
                                  !.read = @ \union (IF s.isset THEN t.in ELSE {})], s, p, 1)
      [] s.k \in Loops ->
            LET u == RunLoop([inner EXCEPT !.inSwitch = FALSE], s, p) IN Outside(t, u, u.in)
      [] s.k = "switch" ->
            LET u == RunCases([inner EXCEPT !.inSwitch = TRUE, !.in = {}], s, p, t.in)
            IN Outside(t, u, u.in \union (IF s.default = 0 \/ s.parts = <<>> THEN t.in ELSE {}))
      [] s.k = "try" -> RunTry([t EXCEPT !.ran = @ \union {p}], s, p)
      [] OTHER -> Simple(t, s.k, p)
=============================================================================
