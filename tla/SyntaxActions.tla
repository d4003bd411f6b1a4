--------------------------- MODULE SyntaxActions ---------------------------
(* What the actions of the grammar compute: a term of a production is      *)
(* evaluated over the slots of its right side. A slot holds the value of a *)
(* symbol and the token it was scanned as, if it is a terminal.            *)
(*                                                                         *)
(* A node is a record of its kind, its position (the numbers of its first  *)
(* and last token, -1 where the builder finds none), its fields and its    *)
(* free floating text by slot; an empty text is not stored.                *)
EXTENDS SyntaxTerms, Integers, SequencesExt

NoToken == [n |-> 0, text |-> <<>>, name |-> <<>>, floating |-> <<>>]
SymbolSlot(value, token) == [val |-> value, tok |-> token]

IsNode(v) == v.kind \notin {"nil", "text", "list", "flag"}
IsNilSlot(slot) == slot.val = NilValue /\ slot.tok = NoToken

-----------------------------------------------------------------------------
(* Positions: parser/position_builder.go. *)

NoPosition == <<-1, -1>>

\* Mutant of EdgeOf: a list ends where its first item ends.
EdgeOfFirst(slot, edge) ==
    LET v == slot.val
        nodes == IF v.kind = "list" THEN v.items ELSE <<v>>
    IN  IF slot.tok # NoToken THEN slot.tok.n
        ELSE IF nodes # <<>> /\ IsNode(nodes[1]) THEN nodes[1].pos[edge] ELSE -1
EdgeOf(slot, edge) ==
    LET v == slot.val
        items == IF v.kind = "list" THEN v.items ELSE <<>>
    IN  IF slot.tok # NoToken THEN slot.tok.n
        ELSE IF v.kind = "list"
             THEN IF items = <<>> THEN -1
                  ELSE items[IF edge = 1 THEN 1 ELSE Len(items)].pos[edge]
        ELSE IF IsNode(v) THEN v.pos[edge] ELSE -1

\* the first of the candidates that is not nil, or else the last of them
FirstGiven(candidates, s) ==
    LET given == {k \in DOMAIN candidates : ~IsNilSlot(s[candidates[k]])}
    IN  candidates[IF given = {} THEN Len(candidates)
                   ELSE CHOOSE k \in given : \A j \in given : k <= j]

PositionOf(as, bs, s) ==
    IF as = <<>> THEN NoPosition
    ELSE <<EdgeOf(s[FirstGiven(as, s)], 1), EdgeOf(s[FirstGiven(bs, s)], 2)>>

-----------------------------------------------------------------------------
(* Free floating text. *)

SlotText(node, slot) == IF slot \in DOMAIN node.ff THEN node.ff[slot] ELSE <<>>
NoFloating(node) == DOMAIN node.ff = {}

\* setFreeFloating: nothing is stored when there is nothing to store.
SetFreeFloating(node, slot, text) ==
    IF text = <<>> THEN node
    ELSE [node EXCEPT !.ff = (slot :> text) @@ @]

WithoutSlot(node, slot) ==
    [node EXCEPT !.ff = Restrict(@, (DOMAIN @) \ {slot})]

\* MoveFreeFloating and deletions work on the first node of a list.
First(v) == IF v.kind = "list" THEN v.items[1] ELSE v
HasFirst(v) == IF v.kind = "list" THEN v.items # <<>> ELSE IsNode(v)
\* Mutant of DropSlot: the text is copied to where it moves.
KeptSlot(v, slot) == v
DropSlot(v, slot) ==
    IF ~HasFirst(v) THEN v
    ELSE IF v.kind = "list"
         THEN [v EXCEPT !.items[1] = WithoutSlot(@, slot)]
         ELSE WithoutSlot(v, slot)

RECURSIVE FloatingText(_, _)
FloatingText(parts, s) ==
    FlattenSeq([k \in DOMAIN parts |->
      LET p == parts[k]
      IN CASE p.op = "floating" -> s[p.at].tok.floating
           [] p.op = "token" -> s[p.at].tok.text
           [] p.op = "slot" -> IF HasFirst(s[p.at].val)
                               THEN SlotText(First(s[p.at].val), p.slot)
                               ELSE <<>>
           [] p.op = "given" -> FloatingText(IF IsNilSlot(s[p.at]) THEN p.that
                                             ELSE p.this, s)
           [] p.op = "dollar" -> <<<<"$", 0>>>>])

FloatingBySlot(ff, s) ==
    LET all == [p \in DOMAIN ff |-> FloatingText(ff[p], s)]
    IN  [p \in {q \in DOMAIN ff : all[q] # <<>>} |-> all[p]]

\* The text of a closing tag that ended the statement before inline HTML
\* moves to the HTML; a semicolon before it stays.
SplitSemiColonAndPhpCloseTag(list, html) ==
    LET last == list[Len(list)]
        semi == SlotText(last, "SemiColon")
        kept == SelectSeq(semi, LAMBDA a : a[1] = ";")
        tag == SelectSeq(semi, LAMBDA a : a[1] # ";")
    IN  [list |-> [list EXCEPT ![Len(list)] =
                     SetFreeFloating(WithoutSlot(@, "SemiColon"),
                                     "SemiColon", kept)],
         html |-> SetFreeFloating(html, "Start",
                     IF semi = <<>> THEN <<>>
                     ELSE tag \o SlotText(html, "Start"))]

-----------------------------------------------------------------------------
(* Terms. *)

SlotList(v) == IF v.kind = "list" THEN v.items ELSE <<>>

IsEmptyItem(v) == v.fields.Key = NilValue /\ v.fields.Val = NilValue

RECURSIVE Eval(_, _)
Eval(t, s) ==
    LET fieldsOf(fields) == [f \in DOMAIN fields |-> Eval(fields[f], s)]
        newNode(u) ==
          [kind |-> u.kind, pos |-> PositionOf(u.as, u.bs, s),
           fields |-> fieldsOf(u.fields), ff |-> FloatingBySlot(u.ff, s)]
        update(u) ==
          LET node == Eval(u.term, s)
              pos == PositionOf(u.as, u.bs, s)
          IN  [node EXCEPT !.pos = IF u.as = <<>> THEN @ ELSE pos,
                           !.fields = fieldsOf(u.fields) @@ @,
                           !.ff = FloatingBySlot(u.ff, s) @@ @]
        addStatement(u) ==
          LET list == SlotList(Eval(u.list, s))
              item == Eval(u.item, s)
              split == SplitSemiColonAndPhpCloseTag(list, item)
          IN  ListOf(CASE item.kind = "nil" -> list
                       [] item.kind = "InlineHtml" /\ list # <<>>
                            -> Append(split.list, split.html)
                       [] OTHER -> Append(list, item))
        comma(u) ==
          LET list == SlotList(Eval(u.list, s))
          IN  ListOf([list EXCEPT ![Len(list)] =
                        SetFreeFloating(@, "End", s[u.at].tok.floating)])
        hoist(u) ==
          LET node == s[u.at].val
              child == node.fields[u.field]
          IN  SetFreeFloating(
                [node EXCEPT !.fields[u.field] = WithoutSlot(@, "Start")],
                "Start", SlotText(child, "Start"))
        wrap(u) ==
          LET node == s[u.at].val
              from == s[u.from].tok
              to == s[u.to].tok
          IN  SetFreeFloating(
                SetFreeFloating(node, "Start",
                  from.floating \o from.text \o SlotText(node, "Start")),
                "End", SlotText(node, "End") \o to.floating \o to.text)
        orEmptyItem(u) ==
          IF SlotList(s[u.at].val) = <<>> THEN ListOf(<<newNode(EmptyItem)>>)
          ELSE s[u.at].val
    IN CASE t.op = "const" -> t.value
         [] t.op = "value" -> s[t.at].val
         [] t.op = "drop" -> DropSlot(s[t.at].val, t.slot)
         [] t.op = "text" ->
              Text(FlattenSeq([k \in DOMAIN t.at |-> s[t.at[k]].tok.name]))
         [] t.op = "has" -> Flag(~IsNilSlot(s[t.at]))
         [] t.op = "is" -> Flag(s[t.at].tok.text[1][1] = t.word)
         [] t.op = "list" ->
              ListOf([k \in DOMAIN t.terms |-> Eval(t.terms[k], s)])
         [] t.op = "add" ->
              ListOf(Append(SlotList(Eval(t.list, s)), Eval(t.item, s)))
         [] t.op = "append" -> addStatement(t)
         [] t.op = "comma" -> comma(t)
         [] t.op = "node" -> newNode(t)
         [] t.op = "update" -> update(t)
         [] t.op = "either" ->
              Eval(IF IsNilSlot(s[t.at]) THEN t.that ELSE t.this, s)
         [] t.op = "when" ->
              Eval(IF s[t.at].tok.text[1][1] = t.word THEN t.this ELSE t.that, s)
         [] t.op = "more" ->
              ListOf(Append(SlotList(s[t.at].val.fields[t.field]),
                            Eval(t.item, s)))
         [] t.op = "hoist" -> hoist(t)
         [] t.op = "wrap" -> wrap(t)
         [] t.op = "orEmptyItem" -> orEmptyItem(t)
         [] t.op = "unlessEmptyItem" ->
              ListOf(IF IsEmptyItem(s[t.at].val) THEN <<>> ELSE <<s[t.at].val>>)
=============================================================================
