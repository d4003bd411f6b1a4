--------------------------- MODULE SyntaxPrinter ---------------------------
(* The printer of printer.go: it writes a tree back, with the free floating*)
(* text that its nodes kept. Whether it is inside <?php ... ?> or in HTML  *)
(* is the one state it has.                                                *)
EXTENDS PrinterPrograms, SyntaxActions

Fixed(text) == IF text = "" THEN <<>> ELSE <<<<text, 0>>>>
Write(acc, atoms) == [acc EXCEPT !.out = @ \o atoms]

\* nil is no field, and an empty list is one
Present(v) == v.kind # "nil" /\ (v.kind = "flag" => v.on)
FieldOf(node, f) == IF f \in DOMAIN node.fields THEN node.fields[f] ELSE NilValue

StartsWithBrace(node) ==
    /\ node.kind \in {"ArrayDimFetch", "Var"}
    /\ SlotText(node, "Start") # <<>>
    /\ SlotText(node, "Start")[1] = <<"${", 0>>

RECURSIVE PrintNode(_, _), Run(_, _, _)

\* A node met in HTML opens PHP first, unless its own text does.
PrintNode(node, acc) ==
    LET opens == acc.mode = "html"
                 /\ node.kind \notin {"Root", "InlineHtml", "Echo"}
        start == IF opens /\ NoFloating(node) THEN Fixed("<?php") ELSE <<>>
    IN  Run(Programs[node.kind], node,
            [out |-> acc.out \o start,
             mode |-> IF opens THEN "php" ELSE acc.mode])

Run(items, node, acc) ==
    LET child(f) == FieldOf(node, f)
        children(f) == SlotList(child(f))
        part(p, a) == IF StartsWithBrace(p)
                      THEN Run(WithoutLeadingDollar[p.kind], p, a)
                      ELSE PrintNode(p, a)
        joined(glue, f) ==
          FoldLeftDomain(LAMBDA a, k :
              PrintNode(children(f)[k],
                    IF k > 1 THEN Write(a, Fixed(glue)) ELSE a),
            acc, children(f))
        step(it) ==
          CASE it.op = "slot" -> Write(acc, SlotText(node, it.slot))
            [] it.op = "text" -> Write(acc, Fixed(it.text))
            [] it.op = "default" ->
                 IF NoFloating(node) THEN Write(acc, Fixed(it.text)) ELSE acc
            [] it.op = "value" -> Write(acc, child(it.field).atoms)
            [] it.op = "unquoted" ->
                 Write(acc, SelectSeq(child(it.field).atoms,
                                      LAMBDA a : a[1] \notin {"'", "\""}))
            [] it.op = "child" ->
                 IF Present(child(it.field)) THEN PrintNode(child(it.field), acc)
                 ELSE acc
            [] it.op = "join" -> joined(it.glue, it.field)
            [] it.op = "each" ->
                 FoldLeft(LAMBDA a, c : PrintNode(c, Write(a, Fixed(it.before))),
                          acc, children(it.field))
            [] it.op = "parts" ->
                 FoldLeft(LAMBDA a, p : part(p, a), acc, children(it.field))
            [] it.op = "bare" ->
                 Run(WithoutLeadingDollar[child(it.field).kind],
                     child(it.field), acc)
            [] it.op = "inside" -> Run(it.items, child(it.field), acc)
            [] it.op = "when" ->
                 Run(IF Present(child(it.field)) THEN it.this ELSE it.that,
                     node, acc)
            [] it.op = "mode" -> [acc EXCEPT !.mode = it.mode]
            [] it.op = "whenMode" ->
                 Run(IF acc.mode = it.mode THEN it.this ELSE it.that, node, acc)
    IN  IF items = <<>> THEN acc
        ELSE Run(Tail(items), node, step(Head(items)))

Printed(node) == PrintNode(node, [out |-> <<>>, mode |-> "php"]).out
=============================================================================
