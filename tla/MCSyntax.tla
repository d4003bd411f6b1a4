------------------------------ MODULE MCSyntax ------------------------------
(* Small files: each kind of phrase with one production inside that is not *)
(* the plainest, and deeper ones for the parts of the language where text  *)
(* moves between nodes.                                                    *)
EXTENDS Syntax

\* one production of those that have the same nonterminals in the same places
OneOfEachShape(rules, names) ==
    LET shape == <<>> \o [i \in DOMAIN rules |-> <<rules[i].lhs, <<>> \o
                   [k \in DOMAIN rules[i].rhs |->
                      IF rules[i].rhs[k] \in names THEN rules[i].rhs[k]
                      ELSE "t"]>>]
    IN  {i \in DOMAIN rules : \A j \in 1..(i - 1) : shape[j] # shape[i]}

Of(g, names) == UNION {g.of[x] : x \in names}
With(g, lhs, firsts) ==
    {i \in g.of[lhs] : /\ g.rules[i].rhs # <<>>
                       /\ g.rules[i].rhs[1] \in firsts}
Phrases(top, budget, rules) == [top |-> top, budget |-> budget, rules |-> rules]

Tops ==
    {"start", "top_statement", "statement", "class_statement", "variable",
     "expr_without_variable", "function_declaration_statement",
     "class_declaration_statement", "interface_declaration_statement",
     "trait_declaration_statement", "scalar", "constant",
     "internal_functions_in_yacc"}
Wide(shapes) == [x \in Tops |-> Phrases(x, 1, shapes)]

Deep1(g, shapes) ==
    [html |->
       Phrases("start", 5,
         Of(g, {"start", "top_statement_list", "inner_statement_list"})
         \cup With(g, "statement",
                   {"T_INLINE_HTML", "expr", "{", "T_ECHO", "if_stmt"})),
     strings |->
       Phrases("scalar", 4,
         Of(g, {"encaps_list", "encaps_var", "encaps_var_offset"})),
     members |->
       Phrases("class_declaration_statement", 4,
         shapes \cap
         Of(g, {"class_statement_list", "class_statement", "property_list",
             "property", "method_modifiers", "non_empty_member_modifiers",
             "variable_modifiers", "class_const_list"})),
     traits |->
       Phrases("class_statement", 4,
         Of(g, {"trait_adaptations", "trait_adaptation_list", "trait_adaptation",
             "trait_alias", "trait_precedence", "trait_method_reference"})),
     branches |->
       Phrases("statement", 4,
         Of(g, {"if_stmt", "if_stmt_without_else", "alt_if_stmt",
             "alt_if_stmt_without_else", "case_list", "switch_case_list",
             "inner_statement_list", "catch_list", "catch_name_list",
             "finally_statement"}))]
News(g) ==
    [news |->
       Phrases("new_expr", 3,
         Of(g, {"class_name_reference", "new_variable", "member_name",
             "property_name"}))]
Deep2(g) ==
    [arguments |->
       Phrases("function_call", 4,
         Of(g, {"argument_list", "non_empty_argument_list", "argument", "expr"})
         \cup With(g, "expr_without_variable", {"(", "T_LIST", "["})),
     arrays |->
       Phrases("dereferencable_scalar", 3,
         Of(g, {"array_pair_list", "non_empty_array_pair_list",
             "possible_array_pair", "array_pair"})),
     parameters |->
       Phrases("function_declaration_statement", 4,
         Of(g, {"parameter_list", "non_empty_parameter_list", "parameter",
             "optional_type", "type_expr", "type", "return_type",
             "is_reference", "is_variadic"})),
     closures |->
       Phrases("expr_without_variable", 3,
         Of(g, {"lexical_vars", "lexical_var_list", "lexical_var"})),
     variables |->
       Phrases("variable", 2,
         Of(g, {"variable", "callable_variable", "dereferencable",
             "callable_expr", "simple_variable", "property_name",
             "member_name", "static_member", "class_name",
             "variable_class_name"}))]

ScenariosOf(g, shapes) == Wide(shapes) @@ Deep1(g, shapes) @@ Deep2(g) @@ News(g)
Shapes == OneOfEachShape(Grammar.rules, Grammar.names)
MCScenarios == ScenariosOf(Grammar, Shapes)
MCDocBefore == {"T_FUNCTION", "T_CLASS"}
=============================================================================
