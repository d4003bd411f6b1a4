------------------------------- MODULE Syntax -------------------------------
(* Scanner and parser at work on one file: the scanner reads a token into  *)
(* an object of its pool, the parser shifts and reduces, the actions build *)
(* the syntax tree and give the tokens back to the pool.                   *)
(*                                                                         *)
(* Which production the parser reduces next is decided by tables that      *)
(* goyacc generates. Here the file is not given: it is derived from the    *)
(* grammar while it is read, and the parser follows that derivation, which *)
(* is what the tables make it do for a file without syntax errors.         *)
EXTENDS SyntaxActions, TokenPool, FiniteSetsExt

CONSTANTS
    Scenarios,  \* name -> [top, budget, rules]: the symbol the file is
                \* derived from, how often the derivation may leave the
                \* plainest one, and the productions it may then take
    DocBefore   \* terminals that a doc comment stands before

Statements == INSTANCE PhpStatements
Expressions == INSTANCE PhpExpressions
Tokens == INSTANCE PhpTokens
Types == INSTANCE NodeTypes
Printer == INSTANCE SyntaxPrinter

\* The plainest derivation of each nonterminal: the least tokens, keywords
\* and inline HTML counting for more, and the first production of equals.
Weight(t) ==
    CASE t = "T_INLINE_HTML" -> 9
      [] t \in Tokens!Words \ {"T_STRING", "T_LNUMBER", "T_DNUMBER"} -> 2
      [] OTHER -> 1
RuleWeight(rule, w) ==
    FoldLeft(LAMBDA a, x : a + IF x \in DOMAIN w THEN w[x] ELSE Weight(x),
             0, rule.rhs)
RECURSIVE Weights(_, _, _)
Weights(rules, of, w) ==
    LET next == [x \in DOMAIN w |->
                   Min({RuleWeight(rules[i], w) : i \in of[x]} \cup {99})]
    IN  IF next = w THEN w ELSE Weights(rules, of, next)

See(symbol) == [do |-> "see", symbol |-> symbol]
ReduceBy(i) == [do |-> "reduce", rule |-> i]
Derive(rules, i) ==
    [k \in DOMAIN rules[i].rhs |-> See(rules[i].rhs[k])] \o <<ReduceBy(i)>>

RECURSIVE Plain(_, _, _)
Plain(rules, plain, x) ==
    IF x \notin DOMAIN plain THEN <<See(x)>>
    ELSE FlattenSeq([k \in DOMAIN rules[plain[x]].rhs |->
                       Plain(rules, plain, rules[plain[x]].rhs[k])])
         \o <<ReduceBy(plain[x])>>

\* The productions with what a derivation needs to know of them: of gives
\* those of a nonterminal, plain the plainest of them and derived all that
\* comes of it. ahead: goyacc reads a token ahead only where it decides what
\* to do, after a nonterminal that can go on and in place of nothing.
GrammarOf(rules) ==
    LET names == {rules[i].lhs : i \in DOMAIN rules}
        of == [x \in names |-> {i \in DOMAIN rules : rules[i].lhs = x}]
        weight == Weights(rules, of, [x \in names |-> 99])
        plain == [x \in names |->
                    Min({i \in of[x] : RuleWeight(rules[i], weight) = weight[x]})]
        goesOn == {rules[i].rhs[1] : i \in {j \in DOMAIN rules : Len(rules[j].rhs) > 1}}
    IN  [rules |-> rules, names |-> names, of |-> of, plain |-> plain,
         derived |-> [x \in names |-> Plain(rules, plain, x)],
         ahead |-> {i \in DOMAIN rules :
                      \/ rules[i].rhs = <<>>
                      \/ Last(rules[i].rhs) \in goesOn \cap names}]
\* The operators below take it as g.
Grammar == GrammarOf(Statements!StatementRules \o Expressions!ExpressionRules)

ASSUME ScenariosAssumption ==
    \A c \in DOMAIN Scenarios :
        /\ Scenarios[c].top \in Grammar.names
        /\ Scenarios[c].budget \in Nat
        /\ Scenarios[c].rules \subseteq DOMAIN Grammar.rules

\* What module TokenPool takes for granted of the productions.
ASSUME ProductionsAssumption ==
    \A rule \in Range(Grammar.rules) : rule.pooled \/ Len(rule.rhs) <= 1

VARIABLES
    scenario,
    spaced,     \* is there free floating text wherever there can be?
    todo,       \* what is left of the derivation: symbols to see, reductions
    left,       \* how often it may still leave the plainest one
    values,     \* yyS[1..yyp], of which TokenPool has the tokens
    modes,      \* Lexer.StateStack
    last,       \* the terminal that was read last
    scanned,    \* how many tokens were read
    doc,        \* Lexer.PhpDocComment
    file        \* the text read so far

vars == <<scenario, spaced, todo, left, values, poolVars, modes, last, scanned,
          doc, file>>
scannerVars == <<modes, last, scanned, doc, file>>

-----------------------------------------------------------------------------
(* Derivations. *)

AllPlain(g, items) ==
    FlattenSeq([k \in DOMAIN items |->
      IF items[k].do = "see" /\ items[k].symbol \in g.names
      THEN g.derived[items[k].symbol] ELSE <<items[k]>>])

\* the place of the next symbol, and whether there is one
Seen == {k \in DOMAIN todo : todo[k].do = "see"}
NextPlace == Min(Seen)
NextSymbol == todo[NextPlace].symbol

Replaced(items) ==
    SubSeq(todo, 1, NextPlace - 1) \o items
      \o SubSeq(todo, NextPlace + 1, Len(todo))

\* The next symbol is derived: plainly, or by the plainest production with
\* something else below it, or by another production.
Expand(g) ==
    /\ Seen # {}
    /\ NextSymbol \in g.names
    /\ \/ todo' = Replaced(g.derived[NextSymbol]) /\ left' = left
       \/ LET below == Derive(g.rules, g.plain[NextSymbol])
          IN  /\ left > 0
              /\ g.derived[NextSymbol] # below
              /\ todo' = Replaced(below)
              /\ left' = left
       \/ /\ left > 0
          /\ \E i \in (g.of[NextSymbol] \cap Scenarios[scenario].rules)
                        \ {g.plain[NextSymbol]} :
               LET items == Replaced(Derive(g.rules, i))
               IN  todo' = IF left = 1 THEN AllPlain(g, items) ELSE items
          /\ left' = left - 1
    /\ UNCHANGED <<scenario, spaced, values, poolVars, scannerVars>>

-----------------------------------------------------------------------------
(* The scanner. *)

\* The rules that skip to the condition in which the next terminal is read.
RECURSIVE ReadyFor(_, _)
ReadyFor(conditions, t) ==
    LET next == Tokens!Skip(conditions, t)
    IN  IF next = conditions THEN conditions ELSE ReadyFor(next, t)

Opens(t, form) ==
    Last(modes) = "INITIAL" /\ t \notin {"T_INLINE_HTML", "$end"}
    /\ form.text # <<<<"<?=", 0>>>>

\* l.FreeFloating: text is skipped in PHP only, and after __halt_compiler.
FloatingBefore(t, form, n) ==
    LET php == Last(ReadyFor(modes, t)) \in {"PHP", "PROPERTY"}
        close == last \in {"T_CURLY_OPEN", "T_STRING_VARNAME"}
        tag == IF Opens(t, form) THEN <<<<"<?php", n>>>> ELSE <<>>
        echo == form.text = <<<<"<?=", 0>>>>
    IN  CASE t = "T_INLINE_HTML" -> <<>>
          [] Last(modes) = "HALT_COMPILER" -> <<<<"data", n>>>>
          [] php /\ ~close /\ ~echo
               -> tag \o IF \/ spaced
                            \/ t \in DocBefore
                            \/ tag = <<>> /\ Tokens!WouldMerge(last, t, form)
                         THEN <<<<"c", n>>>> ELSE <<>>
          [] OTHER -> tag

WantsToken(g) ==
    /\ look = 0
    /\ Seen # {}
    /\ NextSymbol \notin g.names
    /\ todo[1].do = "reduce" => todo[1].rule \in g.ahead

\* Files whose text the scanner would read as other tokens: HTML outside of
\* HTML, ${name} read as an expression, quoted heredocs with variables, and
\* anything after __halt_compiler.
OtherTokens(t, form) ==
    \/ t = "T_INLINE_HTML" /\ Last(modes) # "INITIAL"
    \/ form.text = <<<<"<?=", 0>>>> /\ Last(modes) # "INITIAL"
    \/ t = "T_STRING" /\ Last(modes) = "STRING_VAR_NAME"
    \/ Last(modes) = "NOWDOC"
       /\ t \notin {"T_ENCAPSED_AND_WHITESPACE", "T_END_HEREDOC"}
    \/ Last(modes) = "HALT_COMPILER" /\ t # "$end"

Lex(g) ==
    /\ WantsToken(g)
    /\ LET t == NextSymbol
           n == scanned + 1
           forms == Tokens!Forms(t, n)
       IN  \E k \in DOMAIN forms :
             LET floating == FloatingBefore(t, forms[k], n)
                 token == [n |-> n, text |-> forms[k].text,
                           name |-> forms[k].name, floating |-> floating]
                 ready == ReadyFor(modes, t)
             IN  /\ k > 1 => left > 0
                 /\ ~OtherTokens(t, forms[k])
                 /\ Tokens!Reads(ready, t)
                 /\ left' = IF k > 1 THEN left - 1 ELSE left
                 /\ todo' = IF k > 1 /\ left = 1 THEN AllPlain(g, todo) ELSE todo
                 /\ ReadToken(token)
                 /\ modes' = Tokens!After(ready, t, forms[k])
                 /\ last' = t
                 /\ scanned' = n
                 /\ doc' = IF t \in DocBefore THEN <<<<"c", n>>>> ELSE doc
                 /\ file' = file \o floating \o forms[k].text
    /\ UNCHANGED <<scenario, spaced, values>>

-----------------------------------------------------------------------------
(* The parser. *)

Shift ==
    /\ todo # <<>>
    /\ todo[1].do = "see"
    /\ ShiftToken
    /\ values' = Append(values, NilValue)
    /\ todo' = Tail(todo)
    /\ UNCHANGED <<scenario, spaced, left, scannerVars>>

\* $1, ..., $n
DollarSlots(n) ==
    [k \in 1..n |->
       LET object == Dollar(n)[k]
       IN  SymbolSlot(values[Len(values) - n + k],
                      IF object = 0 THEN NoToken ELSE heap[object])]

\* Mutant of TakeDoc: the scanner's comment is not reset.
LeaveDoc(rule) == doc
TakeDoc(rule) == IF rule.term = DocComment THEN <<>> ELSE doc
ResultOf(rule) ==
    IF rule.term = DocComment THEN Text(doc)
    ELSE Eval(rule.term, DollarSlots(Len(rule.rhs)))

\* The action of __halt_compiler leaves the rest of the file to be skipped.
HaltsCompiler(rule) == rule.rhs # <<>> /\ rule.rhs[1] = "T_HALT_COMPILER"

Reduce(g) ==
    /\ todo # <<>>
    /\ todo[1].do = "reduce"
    /\ Seen # {} => NextSymbol \notin g.names
    /\ todo[1].rule \in g.ahead => look # 0 \/ Seen = {}
    /\ LET rule == g.rules[todo[1].rule]
           n == Len(rule.rhs)
       IN  /\ values' = Append(SubSeq(values, 1, Len(values) - n),
                               ResultOf(rule))
           /\ ReduceTokens(n, rule.pooled)
           /\ doc' = TakeDoc(rule)
           /\ modes' = IF HaltsCompiler(rule)
                       THEN Tokens!Begin(modes, "HALT_COMPILER") ELSE modes
    /\ todo' = Tail(todo)
    /\ UNCHANGED <<scenario, spaced, left, last, scanned, file>>

-----------------------------------------------------------------------------

Begun(g, phrases) ==
    \E i \in g.of[phrases.top] :
       /\ todo = IF phrases.budget = 0 THEN AllPlain(g, Derive(g.rules, i))
                 ELSE Derive(g.rules, i)
       /\ left = phrases.budget
       /\ modes = IF phrases.top = "start" THEN <<"INITIAL">> ELSE <<"PHP">>

Init ==
    /\ scenario \in DOMAIN Scenarios
    /\ spaced \in BOOLEAN
    /\ Begun(Grammar, Scenarios[scenario])
    /\ values = <<>>
    /\ PoolInit
    /\ last = "$begin"
    /\ scanned = 0
    /\ doc = <<>>
    /\ file = <<>>

Next == Expand(Grammar) \/ Lex(Grammar) \/ Shift \/ Reduce(Grammar)

Spec == Init /\ [][Next]_vars

-----------------------------------------------------------------------------
(* The tree that was built. *)

Done == todo = <<>>
Tree == values[1]
HasTree == Done /\ IsNode(Tree)

\* the nodes of a field, in their order
NodesIn(v) ==
    IF v.kind = "list" THEN SelectSeq(v.items, IsNode)
    ELSE IF IsNode(v) THEN <<v>> ELSE <<>>
\* the children that Walk visits, and all there are
Visited(node) ==
    FlattenSeq([k \in DOMAIN Types!NodeTypes[node.kind].walk |->
      LET f == Types!NodeTypes[node.kind].walk[k]
      IN  IF f \in DOMAIN node.fields THEN NodesIn(node.fields[f]) ELSE <<>>])
ChildNodes(node) == UNION {Range(NodesIn(node.fields[f])) : f \in DOMAIN node.fields}

RECURSIVE AllNodes(_)
AllNodes(node) == {node} \cup UNION {AllNodes(c) : c \in ChildNodes(node)}

Known(edge) == edge # -1
Apart(c, d) == c.pos[2] < d.pos[1] \/ d.pos[2] < c.pos[1]
Before(c, d) == NoPosition \in {c.pos, d.pos} \/ c.pos[1] < d.pos[1]

-----------------------------------------------------------------------------
(* What printing the tree back loses. *)

Count(text, part) == Cardinality({k \in DOMAIN text : text[k] = <<part, 0>>})

\* The nodes that the printer and the actions do not agree about:
\* - new A::$b and instanceof A::$b store the text before "::" as Var, and
\*   the printer writes Name;
\* - A::b in trait adaptations keeps the text before b nowhere;
\* - use function \A\{b} forgets the first backslash;
\* - for writes two semicolons, whatever was in their place;
\* - `${a[0]}` gets another dollar sign;
\* - inline HTML gets a closing tag of its own after a compound statement
\*   whose last part has one;
\* - the text before a comma takes the place of the ")" that ends the item.
LosesText(node) ==
    CASE node.kind = "StaticPropertyFetch" -> "Var" \in DOMAIN node.ff
      [] node.kind = "TraitMethodRef" -> "Name" \in DOMAIN node.ff
      [] node.kind = "GroupUse" ->
           /\ node.fields.UseType.kind # "nil"
           /\ node.fields.Prefix.pos[1] # node.fields.UseType.pos[2] + 1
      [] node.kind = "For" -> Count(file, "?>") > 0
      [] node.kind = "ShellExec" ->
           \E part \in Range(node.fields.Parts.items) :
               part.kind = "ArrayDimFetch"
      [] node.kind \in {"Root", "StmtList", "Namespace", "Function"} ->
           LET list == NodesIn(node.fields.Stmts)
           IN  \E k \in DOMAIN list \ {1} :
                   list[k].kind = "InlineHtml" /\ NoFloating(list[k])
      [] OTHER -> Count(SlotText(node, "Start"), "(")
                    # Count(SlotText(node, "End"), ")")

Prints == HasTree /\ Tree.kind \in DOMAIN Printer!Programs

-----------------------------------------------------------------------------
(* Properties. *)

\* A file that is parsed with free floating text and printed again is the
\* same file, token by token and comment by comment, whichever actions moved
\* the text between nodes (MoveFreeFloating, splitSemiColonAndPhpCloseTag,
\* the brackets of an expression), but for the losses above.
RoundTrip ==
    Prints => \/ Printer!Printed(Tree) = file
              \/ \E node \in AllNodes(Tree) : LosesText(node)

\* The position builder gives a node an interval of tokens that holds those
\* of its children, which are apart: reports, and the replacements of the
\* language server, are made by position. An empty list at the end of a
\* production leaves the end of these nodes, and of those they end, unknown;
\* the word before a name in a mixed group use lies before its Use node.
PositionsNest ==
    HasTree => \A node \in AllNodes(Tree) :
      LET inner == {c \in ChildNodes(node) : c.pos # NoPosition}
      IN  /\ \A c \in inner :
               /\ \/ node.pos[1] <= c.pos[1]
                  \/ node.kind = "Use" /\ c = node.fields.UseType
               /\ Known(c.pos[2]) => c.pos[1] <= c.pos[2]
               /\ Known(c.pos[2]) /\ Known(node.pos[2])
                    => c.pos[2] <= node.pos[2]
               /\ \A d \in inner \ {c} :
                    Known(c.pos[2]) /\ Known(d.pos[2]) => Apart(c, d)
          /\ ~Known(node.pos[2]) /\ node.pos # NoPosition
               => \/ node.kind \in {"Try", "Case", "Default", "ElseIf", "Else"}
                  \/ \E c \in inner : ~Known(c.pos[2])

\* Every field that an action fills in is one of the type, every node in it
\* is visited by the Walk of the type, and in the order of the file (but for
\* modifiers, which Walk visits after the name): the linter sees only what
\* Walk visits, and sees a variable written before it is read.
WalkReachesAll ==
    HasTree => \A node \in AllNodes(Tree) :
      LET modifiers == IF "Modifiers" \in DOMAIN node.fields
                       THEN NodesIn(node.fields.Modifiers) ELSE <<>>
          visited == SelectSeq(Visited(node),
                               LAMBDA c : c \notin Range(modifiers))
      IN  /\ Range(Visited(node)) = ChildNodes(node)
          /\ DOMAIN node.fields
               \subseteq Range(Types!NodeTypes[node.kind].walk)
                           \cup Types!NodeTypes[node.kind].data
          /\ \A j, k \in DOMAIN visited : j < k => Before(visited[j], visited[k])

\* Whatever was read before (strings in strings, braces, heredocs, closing
\* tags), the scanner is in a condition in which it can read the terminal
\* that the grammar has next.
ScannerFollows ==
    WantsToken(Grammar) =>
      \E form \in Range(Tokens!Forms(NextSymbol, scanned + 1)) :
         \/ OtherTokens(NextSymbol, form)
         \/ Tokens!Reads(ReadyFor(modes, NextSymbol), NextSymbol)

\* A doc comment goes to one declaration at most, though the scanner keeps
\* it until the next declaration asks for it.
DocsOf(node) ==
    {node.fields[f].atoms : f \in DOMAIN node.fields \cap {"PhpDocComment"}}
      \ {<<>>}
DocGoesOnce ==
    HasTree => \A n1, n2 \in AllNodes(Tree) :
        DocsOf(n1) \cap DocsOf(n2) # {} => n1 = n2
=============================================================================
