---------------------------- MODULE SyntaxTerms ----------------------------
(* The notation of the grammar tables: a production is a record of its     *)
(* left side, its right side and the term its action computes. A term says *)
(* which node is built from the symbols $1, $2, ... of the right side,     *)
(* where its position starts and ends, and where the free floating text    *)
(* (white space, comments) of the tokens goes. SyntaxActions evaluates     *)
(* terms; here they are only written down.                                 *)
EXTENDS Naturals, Sequences, TLC

\* A production whose action ends with returnTokenToPool, and one whose
\* action leaves the token of $1 in $$.
R(lhs, rhs, term) == [lhs |-> lhs, rhs |-> rhs, term |-> term, pooled |-> TRUE]
K(lhs, rhs, term) == [lhs |-> lhs, rhs |-> rhs, term |-> term, pooled |-> FALSE]

-----------------------------------------------------------------------------
(* Values that are not nodes. *)

NilValue == [kind |-> "nil"]
Text(atoms) == [kind |-> "text", atoms |-> atoms]
ListOf(items) == [kind |-> "list", items |-> items]
Flag(on) == [kind |-> "flag", on |-> on]

-----------------------------------------------------------------------------
(* Terms. *)

Const(v) == [op |-> "const", value |-> v]
Nil == Const(NilValue)
On == Const(Flag(TRUE))
Off == Const(Flag(FALSE))

V(i) == [op |-> "value", at |-> i]
\* $i after its free floating text in slot has moved away (for a list: that
\* of its first node); M and S below are where it moved.
Drop(i, slot) == [op |-> "drop", at |-> i, slot |-> slot]
Bare(i) == Drop(i, "Start")
Txt(i) == [op |-> "text", at |-> <<i>>]
Cat(i, j) == [op |-> "text", at |-> <<i, j>>]
Has(i) == [op |-> "has", at |-> i]
Is(i, word) == [op |-> "is", at |-> i, word |-> word]
Items(terms) == [op |-> "list", terms |-> terms]
Add(list, item) == [op |-> "add", list |-> list, item |-> item]
\* a statement appended to a list of statements
AddStatement(list, item) == [op |-> "append", list |-> list, item |-> item]
\* the list with the text of the separator, token j, after its last node
Comma(list, j) == [op |-> "comma", list |-> list, at |-> j]
DocComment == [op |-> "doc"]

\* A new node of the given kind that starts where the first of the symbols
\* as that is not nil starts, and ends where the first of bs that is not nil
\* ends.
NP(kind, as, bs, fields, ff) ==
    [op |-> "node", kind |-> kind, as |-> as, bs |-> bs,
     fields |-> fields, ff |-> ff]
N(kind, a, b, fields, ff) ==
    NP(kind, IF a = 0 THEN <<>> ELSE <<a>>, IF b = 0 THEN <<>> ELSE <<b>>,
       fields, ff)
\* The node of a term with more fields and text, and its position reset.
Upd(term, a, b, fields, ff) ==
    [op |-> "update", term |-> term,
     as |-> IF a = 0 THEN <<>> ELSE <<a>>, bs |-> IF b = 0 THEN <<>> ELSE <<b>>,
     fields |-> fields, ff |-> ff]
Either(i, this, that) == [op |-> "either", at |-> i, this |-> this, that |-> that]
WhenText(i, word, this, that) ==
    [op |-> "when", at |-> i, word |-> word, this |-> this, that |-> that]
\* The list field of $i with one more item.
More(i, field, item) == [op |-> "more", at |-> i, field |-> field, item |-> item]
\* $i with the text before its child field moved before itself.
Hoist(i, field) == [op |-> "hoist", at |-> i, field |-> field]
\* $i between the brackets $a and $b, which become part of its text.
Wrap(i, a, b) == [op |-> "wrap", at |-> i, from |-> a, to |-> b]
\* The empty items of array and list pairs.
EmptyItem == NP("ArrayItem", <<>>, <<>>, [Key |-> Nil, Val |-> Nil], <<>>)
OrEmptyItem(i) == [op |-> "orEmptyItem", at |-> i]
UnlessEmptyItem(i) == [op |-> "unlessEmptyItem", at |-> i]

-----------------------------------------------------------------------------
(* Free floating text: sequences of parts. *)

F(i) == <<[op |-> "floating", at |-> i]>>   \* the text before token i
T(i) == <<[op |-> "token", at |-> i]>>      \* token i itself
M(i) == <<[op |-> "slot", at |-> i, slot |-> "Start"]>>
S(i, slot) == <<[op |-> "slot", at |-> i, slot |-> slot]>>
Given(i, this, that) ==
    <<[op |-> "given", at |-> i, this |-> this, that |-> that]>>
NoFF == <<>>
DollarSign == <<[op |-> "dollar"]>>
None == <<>>
Lead(i) == [Start |-> F(i)]

-----------------------------------------------------------------------------
(* Terms that many actions share. *)

Ident(i) == N("Identifier", i, i, [Value |-> Txt(i)], Lead(i))
Var(i) == N("SimpleVar", i, i, [Name |-> Txt(i)], [Dollar |-> DollarSign])
NameOf(i, endff) ==
    N("Name", i, i, [Parts |-> Bare(i)], [Start |-> M(i), End |-> endff])
Body(i) == N("StmtList", i, i, [Stmts |-> V(i)], None)
Nop == N("Nop", 1, 1, None, [Start |-> F(1), SemiColon |-> T(1)])

-----------------------------------------------------------------------------
(* Families of productions that differ in a symbol and in a node kind. *)

Unit(lhs, alternatives) ==
    [k \in DOMAIN alternatives |-> R(lhs, <<alternatives[k]>>, V(1))]
TokenOf(lhs, terminals) ==
    [k \in DOMAIN terminals |-> K(lhs, <<terminals[k]>>, V(1))]
Identifiers(lhs, terminals) ==
    [k \in DOMAIN terminals |-> R(lhs, <<terminals[k]>>, Ident(1))]
CommaList(lhs, separator, item) ==
    << R(lhs, <<lhs, separator, item>>, Add(Comma(V(1), 2), V(3))),
       R(lhs, <<item>>, Items(<<V(1)>>)) >>
Literal(lhs, kinds) ==
    [k \in DOMAIN kinds |->
       R(lhs, <<kinds[k][1]>>,
         N(kinds[k][2], 1, 1, [Value |-> Txt(1)], Lead(1)))]
Infix(kinds) ==
    [k \in DOMAIN kinds |->
       R("expr_without_variable", <<"expr", kinds[k][1], "expr">>,
         N(kinds[k][2], 1, 3, [Left |-> Bare(1), Right |-> V(3)],
           [Start |-> M(1), Expr |-> F(2)]))]
AssignOp(kinds) ==
    [k \in DOMAIN kinds |->
       R("expr_without_variable", <<"variable", kinds[k][1], "expr">>,
         N(kinds[k][2], 1, 3, [Variable |-> Bare(1), Expression |-> V(3)],
           [Start |-> M(1), Var |-> F(2)]))]
Prefix(lhs, kinds, operand, field) ==
    [k \in DOMAIN kinds |->
       R(lhs, <<kinds[k][1], operand>>,
         N(kinds[k][2], 1, 2, field :> V(2), Lead(1)))]
Cast(kinds) ==
    [k \in DOMAIN kinds |->
       R("expr_without_variable", <<kinds[k][1], "expr">>,
         N(kinds[k][2], 1, 2, [Expr |-> V(2)],
           [Start |-> F(1), Cast |-> T(1)]))]
=============================================================================
