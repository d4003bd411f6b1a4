----------------------------- MODULE TokenPool -----------------------------
(* The token objects of one parser: scanner.TokenPool, a stack of objects  *)
(* that are free, the objects that the scanner fills and those that the    *)
(* values on the parser's stack refer to. An action of the grammar gives   *)
(* back the tokens of the symbols it replaces; the object is filled again  *)
(* for the next token, so nothing may refer to it any more.                *)
(*                                                                         *)
(* The grammar is left open: a reduction may replace any number of symbols *)
(* and its action return their tokens or not. Module Syntax takes these    *)
(* actions for the productions of PHP.                                     *)
EXTENDS Integers, SequencesExt

VARIABLES
    tokens,     \* yyS[1..yyp].token: an object each, or 0 for nil
    look,       \* the object of yyrcvr.lval.token, 0 when yychar < 0
    heap,       \* object -> token
    pool        \* TokenPool.pool

poolVars == <<tokens, look, heap, pool>>

PoolInit ==
    /\ tokens = <<>>
    /\ look = 0
    /\ heap = <<>>
    /\ pool = <<>>

\* TokenPool.Get
Get == IF pool = <<>> THEN Len(heap) + 1 ELSE Last(pool)
Poured == IF pool = <<>> THEN pool ELSE Front(pool)

\* createToken
Create(object, token) ==
    IF object \in DOMAIN heap THEN [heap EXCEPT ![object] = token]
    ELSE Append(heap, token)

ReadToken(token) ==
    /\ look = 0
    /\ look' = Get
    /\ pool' = Poured
    /\ heap' = Create(Get, token)
    /\ UNCHANGED tokens

\* yyVAL = yyrcvr.lval, pushed
ShiftToken ==
    /\ look # 0
    /\ tokens' = Append(tokens, look)
    /\ look' = 0
    /\ UNCHANGED <<heap, pool>>

\* yyDollar[1..n].token
Dollar(n) == [k \in 1..n |-> tokens[Len(tokens) - n + k]]

\* returnTokenToPool: a Put for each symbol that has a token
PutToken(objects, o) == IF o = 0 THEN objects ELSE Append(objects, o)
ReturnTokenToPool(n) == FoldLeft(PutToken, pool, Dollar(n))

\* Mutant of TokenOfResult: the token of $1 stays in $$.
TokenKept(n, pooled) == IF n = 0 THEN 0 ELSE Dollar(n)[1]
\* yyVAL.token after the action: yyVAL starts as a copy of $1, and an action
\* without symbols, which would find an old value there, sets it to nil
TokenOfResult(n, pooled) == IF pooled \/ n = 0 THEN 0 ELSE Dollar(n)[1]

ReduceTokens(n, pooled) ==
    /\ tokens' = Append(SubSeq(tokens, 1, Len(tokens) - n),
                        TokenOfResult(n, pooled))
    /\ pool' = IF pooled THEN ReturnTokenToPool(n) ELSE pool
    /\ UNCHANGED <<look, heap>>

\* A syntax error: the stack is cut back to a state that shifts "error", and
\* yyVAL, which is still the value that was pushed last, is pushed for it.
\* All such states come after a list of statements, which has no token.
RecoverTokens(k) ==
    /\ tokens[k] = 0
    /\ tokens' = Append(SubSeq(tokens, 1, k), Last(tokens))
    /\ UNCHANGED <<look, heap, pool>>

\* Until a token can be shifted again, the next one is dropped.
DiscardToken ==
    /\ look # 0
    /\ look' = 0
    /\ UNCHANGED <<tokens, heap, pool>>

\* What recovers from an error, and the steps of a parse. An action that
\* keeps its token has one symbol at most.
Recover == (\E k \in DOMAIN tokens : RecoverTokens(k)) \/ DiscardToken

PoolNext ==
    \/ \E token : ReadToken(token)
    \/ ShiftToken
    \/ \E n \in 0..Len(tokens), pooled \in BOOLEAN :
          (pooled \/ n <= 1) /\ ReduceTokens(n, pooled)
    \/ Recover

PoolSpec == PoolInit /\ [][PoolNext]_poolVars

-----------------------------------------------------------------------------
(* Properties. *)

Objects == Range(tokens) \ {0}
InUse == Objects \cup ({look} \ {0})

\* A token that was given back to the pool is not read any more, and none is
\* given back twice: Get would hand the same object to two terminals.
NoTokenAliased ==
    /\ look \in 0..Len(heap) /\ Range(pool) \subseteq DOMAIN heap
    /\ IsInjective(pool)
    /\ Range(pool) \cap (Objects \cup {look}) = {}
    /\ look \notin Objects
    /\ \A j, k \in DOMAIN tokens :
         j # k /\ tokens[j] # 0 => tokens[j] # tokens[k]

\* From the scanner to the action that reads it as $k, a token stays what it
\* was: no other token is written over it.
TokensStay ==
    [][\A o \in InUse \cap InUse' : heap'[o] = heap[o]]_poolVars

\* Every object is free or in use, or was dropped with a part of the file
\* that the parser skipped after a syntax error: for a file without errors
\* there are never more objects than were in use at once.
Dropped == DOMAIN heap \ (Range(pool) \cup InUse)
DroppedInErrorsOnly == [][Recover \/ Dropped' = Dropped]_poolVars
=============================================================================
