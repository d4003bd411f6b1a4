------------------------------- MODULE PhpStatements ---------------------------
(* The productions of names, statements and declarations of the PHP grammar *)
(* (php7.y), as its actions in php7.go build the syntax tree. The error    *)
(* productions are left out: they belong to yacc's recovery.              *)
EXTENDS SyntaxTerms

ReservedWordRules1 ==
  << R("start", <<"top_statement_list", "$end">>,
       N("Root", 1, 1, [Stmts |-> V(1)], [End |-> F(2)])) >>
  \o TokenOf("reserved_non_modifiers", <<"T_INCLUDE", "T_INCLUDE_ONCE",
    "T_EVAL", "T_REQUIRE", "T_REQUIRE_ONCE", "T_LOGICAL_OR", "T_LOGICAL_XOR",
    "T_LOGICAL_AND", "T_INSTANCEOF", "T_NEW", "T_CLONE", "T_EXIT", "T_IF",
    "T_ELSEIF", "T_ELSE", "T_ENDIF", "T_ECHO", "T_DO", "T_WHILE", "T_ENDWHILE",
    "T_FOR", "T_ENDFOR", "T_FOREACH", "T_ENDFOREACH", "T_DECLARE">>)

ReservedWordRules2 ==
  TokenOf("reserved_non_modifiers", <<"T_ENDDECLARE", "T_AS", "T_TRY",
    "T_CATCH", "T_FINALLY", "T_THROW", "T_USE", "T_INSTEADOF", "T_GLOBAL",
    "T_VAR", "T_UNSET", "T_ISSET", "T_EMPTY", "T_CONTINUE", "T_GOTO",
    "T_FUNCTION", "T_CONST", "T_RETURN", "T_PRINT", "T_YIELD", "T_LIST",
    "T_SWITCH", "T_ENDSWITCH", "T_CASE", "T_DEFAULT">>)

ReservedWordRules3 ==
  TokenOf("reserved_non_modifiers", <<"T_BREAK", "T_ARRAY", "T_CALLABLE",
    "T_EXTENDS", "T_IMPLEMENTS", "T_NAMESPACE", "T_TRAIT", "T_INTERFACE",
    "T_CLASS", "T_CLASS_C", "T_TRAIT_C", "T_FUNC_C", "T_METHOD_C", "T_LINE",
    "T_FILE", "T_DIR", "T_NS_C">>)
  \o TokenOf("semi_reserved", <<"reserved_non_modifiers", "T_STATIC",
    "T_ABSTRACT", "T_FINAL", "T_PRIVATE", "T_PROTECTED", "T_PUBLIC">>)
  \o TokenOf("identifier", <<"T_STRING", "semi_reserved">>)
  \o << R("top_statement_list", <<"top_statement_list", "top_statement">>,
       AddStatement(V(1), V(2))),
     R("top_statement_list", <<>>,
       Items(<<>>)) >>

NameRules ==
  << R("namespace_name", <<"T_STRING">>,
       Items(<<N("NamePart", 1, 1, [Value |-> Txt(1)], Lead(1))>>)),
     R("namespace_name", <<"namespace_name", "T_NS_SEPARATOR", "T_STRING">>,
       Add(Comma(V(1), 2), N("NamePart", 3, 3, [Value |-> Txt(3)], Lead(3)))),
     R("name", <<"namespace_name">>,
       N("Name", 1, 1, [Parts |-> Bare(1)], [Start |-> M(1)])),
     R("name", <<"T_NAMESPACE", "T_NS_SEPARATOR", "namespace_name">>,
       N("Relative", 1, 3, [Parts |-> V(3)], [Start |-> F(1),
         Namespace |-> F(2)])),
     R("name", <<"T_NS_SEPARATOR", "namespace_name">>,
       N("FullyQualified", 1, 2, [Parts |-> V(2)], Lead(1))) >>
  \o Unit("top_statement", <<"statement", "function_declaration_statement",
    "class_declaration_statement", "trait_declaration_statement",
    "interface_declaration_statement">>)

NamespaceStatementRules ==
  << R("top_statement", <<"T_HALT_COMPILER", "(", ")", ";">>,
       N("HaltCompiler", 1, 4, None,
       [Start |-> F(1), HaltCompiller |-> F(2), OpenParenthesisToken |-> F(3),
         CloseParenthesisToken |-> F(4), SemiColon |-> T(4)])),
     R("top_statement", <<"T_NAMESPACE", "namespace_name", ";">>,
       N("Namespace", 1, 3, [NamespaceName |-> NameOf(2, F(3)), Stmts |-> Nil],
         [Start |-> F(1), SemiColon |-> T(3)])),
     R("top_statement", <<"T_NAMESPACE", "namespace_name", "{",
       "top_statement_list", "}">>,
       N("Namespace", 1, 5, [NamespaceName |-> NameOf(2, F(3)),
         Stmts |-> V(4)], [Start |-> F(1), Stmts |-> F(5)])),
     R("top_statement", <<"T_NAMESPACE", "{", "top_statement_list", "}">>,
       N("Namespace", 1, 4, [NamespaceName |-> Nil, Stmts |-> V(3)],
         [Start |-> F(1), Namespace |-> F(2), Stmts |-> F(4)])) >>

UseStatementRules ==
  << R("top_statement", <<"T_USE", "mixed_group_use_declaration", ";">>,
       Upd(V(2), 1, 3, None, [Start |-> F(1), UseDeclarationList |-> F(3),
         SemiColon |-> T(3)])),
     R("top_statement", <<"T_USE", "use_type", "group_use_declaration", ";">>,
       Upd(V(3), 1, 4, [UseType |-> V(2)], [Start |-> F(1),
         UseDeclarationList |-> F(4), SemiColon |-> T(4)])),
     R("top_statement", <<"T_USE", "use_declarations", ";">>,
       N("UseList", 1, 3, [UseType |-> Nil, Uses |-> V(2)], [Start |-> F(1),
         UseDeclarationList |-> F(3), SemiColon |-> T(3)])),
     R("top_statement", <<"T_USE", "use_type", "use_declarations", ";">>,
       N("UseList", 1, 4, [UseType |-> V(2), Uses |-> V(3)], [Start |-> F(1),
         UseDeclarationList |-> F(4), SemiColon |-> T(4)])),
     R("top_statement", <<"T_CONST", "const_list", ";">>,
       N("ConstList", 1, 3, [Consts |-> V(2)], [Start |-> F(1), Stmts |-> F(3),
         SemiColon |-> T(3)])) >>
  \o Identifiers("use_type", <<"T_FUNCTION", "T_CONST">>)

GroupUseRules ==
  << R("group_use_declaration", <<"namespace_name", "T_NS_SEPARATOR", "{",
    "unprefixed_use_declarations", "possible_comma", "}">>,
       N("GroupUse", 1, 6, [UseType |-> Nil, Prefix |-> NameOf(1, F(2)),
         UseList |-> V(4)], [Slash |-> F(3), Stmts |-> F(5) \o T(5) \o F(6)])),
     R("group_use_declaration", <<"T_NS_SEPARATOR", "namespace_name",
       "T_NS_SEPARATOR", "{", "unprefixed_use_declarations", "possible_comma",
       "}">>,
       N("GroupUse", 1, 7, [UseType |-> Nil, Prefix |-> NameOf(2, F(3)),
         UseList |-> V(5)],
       [UseType |-> F(1), Slash |-> F(4), Stmts |-> F(6) \o T(6) \o F(7)])),
     R("mixed_group_use_declaration", <<"namespace_name", "T_NS_SEPARATOR",
       "{", "inline_use_declarations", "possible_comma", "}">>,
       N("GroupUse", 1, 6, [UseType |-> Nil, Prefix |-> NameOf(1, F(2)),
         UseList |-> V(4)], [Slash |-> F(3), Stmts |-> F(5) \o T(5) \o F(6)])),
     R("mixed_group_use_declaration", <<"T_NS_SEPARATOR", "namespace_name",
       "T_NS_SEPARATOR", "{", "inline_use_declarations", "possible_comma",
       "}">>,
       N("GroupUse", 1, 7, [UseType |-> Nil, Prefix |-> NameOf(2, F(3)),
         UseList |-> V(5)],
       [Use |-> F(1) \o T(1), Slash |-> F(4),
         Stmts |-> F(6) \o T(6) \o F(7)])) >>

UseDeclarationRules ==
  << K("possible_comma", <<>>,
       Nil) >>
  \o TokenOf("possible_comma", <<",">>)
  \o CommaList("inline_use_declarations", ",", "inline_use_declaration")
  \o CommaList("unprefixed_use_declarations", ",",
    "unprefixed_use_declaration")
  \o CommaList("use_declarations", ",", "use_declaration")
  \o Unit("inline_use_declaration", <<"unprefixed_use_declaration">>)
  \o << R("inline_use_declaration", <<"use_type",
    "unprefixed_use_declaration">>,
       Upd(V(2), 0, 0, [UseType |-> V(1)], None)),
     R("unprefixed_use_declaration", <<"namespace_name">>,
       N("Use", 1, 1, [Use |-> N("Name", 1, 1, [Parts |-> Bare(1)],
         [Start |-> M(1)]), Alias |-> Nil], None)),
     R("unprefixed_use_declaration", <<"namespace_name", "T_AS", "T_STRING">>,
       N("Use", 1, 3, [Use |-> NameOf(1, F(2)), Alias |-> Ident(3)], None)),
     R("use_declaration", <<"unprefixed_use_declaration">>,
       Hoist(1, "Use")),
     R("use_declaration", <<"T_NS_SEPARATOR", "unprefixed_use_declaration">>,
       Upd(V(2), 0, 0, None, [Start |-> F(1), Slash |-> T(1)])) >>

InnerStatementRules ==
  CommaList("const_list", ",", "const_decl")
  \o << R("inner_statement_list", <<"inner_statement_list",
    "inner_statement">>,
       AddStatement(V(1), V(2))),
     R("inner_statement_list", <<>>,
       Items(<<>>)) >>
  \o Unit("inner_statement", <<"statement", "function_declaration_statement",
    "class_declaration_statement", "trait_declaration_statement",
    "interface_declaration_statement">>)
  \o << R("inner_statement", <<"T_HALT_COMPILER", "(", ")", ";">>,
       N("HaltCompiler", 1, 4, None,
       [Start |-> F(1), HaltCompiller |-> F(2), OpenParenthesisToken |-> F(3),
         CloseParenthesisToken |-> F(4), SemiColon |-> T(4)])) >>

LoopStatementRules ==
  << R("statement", <<"{", "inner_statement_list", "}">>,
       N("StmtList", 1, 3, [Stmts |-> V(2)], [Start |-> F(1),
         Stmts |-> F(3)])) >>
  \o Unit("statement", <<"if_stmt", "alt_if_stmt">>)
  \o << R("statement", <<"T_WHILE", "(", "expr", ")", "while_statement">>,
       Upd(V(5), 1, 5, [Cond |-> V(3)], [Start |-> F(1), While |-> F(2),
         Expr |-> F(4)])),
     R("statement", <<"T_DO", "statement", "T_WHILE", "(", "expr", ")", ";">>,
       N("Do", 1, 7, [Stmt |-> V(2), Cond |-> V(5)], [Start |-> F(1),
         Stmts |-> F(3), While |-> F(4), Expr |-> F(6), Cond |-> F(7),
         SemiColon |-> T(7)])),
     R("statement", <<"T_FOR", "(", "for_exprs", ";", "for_exprs", ";",
       "for_exprs", ")", "for_statement">>,
       Upd(V(9), 1, 9, [Init |-> V(3), Cond |-> V(5), Loop |-> V(7)],
       [Start |-> F(1), For |-> F(2), InitExpr |-> F(4), CondExpr |-> F(6),
         IncExpr |-> F(8)])),
     R("statement", <<"T_SWITCH", "(", "expr", ")", "switch_case_list">>,
       Upd(V(5), 1, 5, [Cond |-> V(3)], [Start |-> F(1), Switch |-> F(2),
         Expr |-> F(4)])) >>

SimpleStatementRules ==
  << R("statement", <<"T_BREAK", "optional_expr", ";">>,
       N("Break", 1, 3, [Expr |-> V(2)], [Start |-> F(1), Expr |-> F(3),
         SemiColon |-> T(3)])),
     R("statement", <<"T_CONTINUE", "optional_expr", ";">>,
       N("Continue", 1, 3, [Expr |-> V(2)], [Start |-> F(1), Expr |-> F(3),
         SemiColon |-> T(3)])),
     R("statement", <<"T_RETURN", "optional_expr", ";">>,
       N("Return", 1, 3, [Expr |-> V(2)], [Start |-> F(1), Expr |-> F(3),
         SemiColon |-> T(3)])),
     R("statement", <<"T_GLOBAL", "global_var_list", ";">>,
       N("Global", 1, 3, [Vars |-> V(2)], [Start |-> F(1), VarList |-> F(3),
         SemiColon |-> T(3)])),
     R("statement", <<"T_STATIC", "static_var_list", ";">>,
       N("Static", 1, 3, [Vars |-> V(2)], [Start |-> F(1), VarList |-> F(3),
         SemiColon |-> T(3)])),
     R("statement", <<"T_ECHO", "echo_expr_list", ";">>,
       N("Echo", 1, 3, [Exprs |-> V(2)], [Start |-> F(1), Echo |-> T(1),
         Expr |-> F(3), SemiColon |-> T(3)])),
     R("statement", <<"T_INLINE_HTML">>,
       N("InlineHtml", 1, 1, [Value |-> Txt(1)], Lead(1))),
     R("statement", <<"expr", ";">>,
       N("Expression", 1, 2, [Expr |-> Bare(1)], [Start |-> M(1),
         Expr |-> F(2), SemiColon |-> T(2)])) >>

ForeachTryRules ==
  << R("statement", <<"T_UNSET", "(", "unset_variables", "possible_comma", ")",
    ";">>,
       N("Unset", 1, 6, [Vars |-> V(3)],
       [Start |-> F(1), Unset |-> F(2), VarList |-> F(4) \o T(4) \o F(5),
         CloseParenthesisToken |-> F(6), SemiColon |-> T(6)])),
     R("statement", <<"T_FOREACH", "(", "expr", "T_AS", "foreach_variable",
       ")", "foreach_statement">>,
       Upd(V(7), 1, 7, [Expr |-> V(3), Variable |-> V(5)], [Start |-> F(1),
         Foreach |-> F(2), Expr |-> F(4), Var |-> F(6)])),
     R("statement", <<"T_FOREACH", "(", "expr", "T_AS", "variable",
       "T_DOUBLE_ARROW", "foreach_variable", ")", "foreach_statement">>,
       Upd(V(9), 1, 9, [Expr |-> V(3), Key |-> V(5), Variable |-> V(7)],
       [Start |-> F(1), Foreach |-> F(2), Expr |-> F(4), Key |-> F(6),
         Var |-> F(8)])),
     R("statement", <<"T_DECLARE", "(", "const_list", ")",
       "declare_statement">>,
       Upd(V(5), 1, 5, [Consts |-> V(3)], [Start |-> F(1), Declare |-> F(2),
         ConstList |-> F(4)])),
     R("statement", <<";">>,
       Nop),
     R("statement", <<"T_TRY", "{", "inner_statement_list", "}", "catch_list",
       "finally_statement">>,
       NP("Try", <<1>>, <<6, 5>>, [Stmts |-> V(3), Catches |-> V(5),
         Finally |-> V(6)], [Start |-> F(1), Try |-> F(2), Stmts |-> F(4)])),
     R("statement", <<"T_THROW", "expr", ";">>,
       N("Throw", 1, 3, [Expr |-> V(2)], [Start |-> F(1), Expr |-> F(3),
         SemiColon |-> T(3)])),
     R("statement", <<"T_GOTO", "T_STRING", ";">>,
       N("Goto", 1, 3, [Label |-> Ident(2)], [Start |-> F(1), Label |-> F(3),
         SemiColon |-> T(3)])),
     R("statement", <<"T_STRING", ":">>,
       N("Label", 1, 2, [LabelName |-> N("Identifier", 1, 1,
         [Value |-> Txt(1)], None)], [Start |-> F(1), Label |-> F(2)])) >>

CatchFunctionRules ==
  << R("catch_list", <<>>,
       Items(<<>>)),
     R("catch_list", <<"catch_list", "T_CATCH", "(", "catch_name_list",
       "T_VARIABLE", ")", "{", "inner_statement_list", "}">>,
       Add(V(1), N("Catch", 2, 9, [Types |-> V(4), Variable |-> N("SimpleVar",
         5, 5, [Name |-> Txt(5)], [Start |-> F(5), Dollar |-> DollarSign]),
         Stmts |-> V(8)], [Start |-> F(2), Catch |-> F(3), Var |-> F(6),
         Cond |-> F(7), Stmts |-> F(9)]))) >>
  \o CommaList("catch_name_list", "|", "name")
  \o << R("finally_statement", <<>>,
       Nil),
     R("finally_statement", <<"T_FINALLY", "{", "inner_statement_list", "}">>,
       N("Finally", 1, 4, [Stmts |-> V(3)], [Start |-> F(1), Finally |-> F(2),
         Stmts |-> F(4)])) >>
  \o CommaList("unset_variables", ",", "unset_variable")
  \o Unit("unset_variable", <<"variable">>)
  \o << R("function_declaration_statement", <<"T_FUNCTION", "returns_ref",
    "T_STRING", "backup_doc_comment", "(", "parameter_list", ")",
    "return_type", "{", "inner_statement_list", "}">>,
       N("Function", 1, 11, [FunctionName |-> Ident(3), ReturnsRef |-> Has(2),
         Params |-> V(6),
         ReturnType |-> Drop(8, "Colon"), Stmts |-> V(10),
           PhpDocComment |-> V(4)],
       [Start |-> F(1), Function |-> F(2), Name |-> F(5), ParamList |-> F(7),
         Params |-> Given(8, S(8, "Colon"), F(9)),
        ReturnType |-> Given(8, F(9), NoFF), Stmts |-> F(11)])) >>

ClassDeclarationRules ==
  << K("is_reference", <<>>,
       Nil) >>
  \o TokenOf("is_reference", <<"&">>)
  \o << K("is_variadic", <<>>,
       Nil) >>
  \o TokenOf("is_variadic", <<"T_ELLIPSIS">>)
  \o << R("class_declaration_statement", <<"class_modifiers", "T_CLASS",
    "T_STRING", "extends_from", "implements_list", "backup_doc_comment", "{",
    "class_statement_list", "}">>,
       N("Class", 1, 9, [ClassName |-> Ident(3), Modifiers |-> Bare(1),
         ArgumentList |-> Nil, Extends |-> V(4),
         Implements |-> V(5), Stmts |-> V(8), PhpDocComment |-> V(6)],
       [Start |-> M(1), ModifierList |-> F(2), Name |-> F(7),
         Stmts |-> F(9)])),
     R("class_declaration_statement", <<"T_CLASS", "T_STRING", "extends_from",
       "implements_list", "backup_doc_comment", "{", "class_statement_list",
       "}">>,
       N("Class", 1, 8, [ClassName |-> Ident(2), Modifiers |-> Nil,
         ArgumentList |-> Nil, Extends |-> V(3), Implements |-> V(4),
         Stmts |-> V(7), PhpDocComment |-> V(5)], [Start |-> F(1),
         Name |-> F(6), Stmts |-> F(8)])),
     R("class_modifiers", <<"class_modifier">>,
       Items(<<V(1)>>)),
     R("class_modifiers", <<"class_modifiers", "class_modifier">>,
       Add(V(1), V(2))) >>
  \o Identifiers("class_modifier", <<"T_ABSTRACT", "T_FINAL">>)
  \o << R("trait_declaration_statement", <<"T_TRAIT", "T_STRING",
    "backup_doc_comment", "{", "class_statement_list", "}">>,
       N("Trait", 1, 6, [TraitName |-> Ident(2), Stmts |-> V(5),
         PhpDocComment |-> V(3)], [Start |-> F(1), Name |-> F(4),
         Stmts |-> F(6)])),
     R("interface_declaration_statement", <<"T_INTERFACE", "T_STRING",
       "interface_extends_list", "backup_doc_comment", "{",
       "class_statement_list", "}">>,
       N("Interface", 1, 7, [InterfaceName |-> Ident(2), Extends |-> V(3),
         Stmts |-> V(6), PhpDocComment |-> V(4)], [Start |-> F(1),
         Name |-> F(5), Stmts |-> F(7)])) >>

ExtendsForeachRules ==
  << R("extends_from", <<>>,
       Nil),
     R("extends_from", <<"T_EXTENDS", "name">>,
       N("ClassExtends", 1, 2, [ClassName |-> V(2)], Lead(1))),
     R("interface_extends_list", <<>>,
       Nil),
     R("interface_extends_list", <<"T_EXTENDS", "name_list">>,
       N("InterfaceExtends", 1, 2, [InterfaceNames |-> V(2)], Lead(1))),
     R("implements_list", <<>>,
       Nil),
     R("implements_list", <<"T_IMPLEMENTS", "name_list">>,
       N("ClassImplements", 1, 2, [InterfaceNames |-> V(2)], Lead(1))) >>
  \o Unit("foreach_variable", <<"variable">>)
  \o << R("foreach_variable", <<"&", "variable">>,
       N("Reference", 1, 2, [Variable |-> V(2)], Lead(1))),
     R("foreach_variable", <<"T_LIST", "(", "array_pair_list", ")">>,
       N("List", 1, 4, [Items |-> V(3)], [Start |-> F(1), List |-> F(2),
         ArrayPairList |-> F(4)])),
     R("foreach_variable", <<"[", "array_pair_list", "]">>,
       N("List", 1, 3, [Items |-> V(2), ShortSyntax |-> On], [Start |-> F(1),
         ArrayPairList |-> F(3)])) >>

LoopBodyRules ==
  << R("for_statement", <<"statement">>,
       N("For", 1, 1, [Init |-> Nil, Cond |-> Nil, Loop |-> Nil,
         Stmt |-> V(1)], None)),
     R("for_statement", <<":", "inner_statement_list", "T_ENDFOR", ";">>,
       N("For", 1, 4, [Init |-> Nil, Cond |-> Nil, Loop |-> Nil,
         Stmt |-> Body(2), AltSyntax |-> On], [Cond |-> F(1), Stmts |-> F(3),
         AltEnd |-> F(4), SemiColon |-> T(4)])),
     R("foreach_statement", <<"statement">>,
       N("Foreach", 1, 1, [Expr |-> Nil, Key |-> Nil, Variable |-> Nil,
         Stmt |-> V(1)], None)),
     R("foreach_statement", <<":", "inner_statement_list", "T_ENDFOREACH",
       ";">>,
       N("Foreach", 1, 4, [Expr |-> Nil, Key |-> Nil, Variable |-> Nil,
         Stmt |-> Body(2), AltSyntax |-> On], [Cond |-> F(1), Stmts |-> F(3),
         AltEnd |-> F(4), SemiColon |-> T(4)])),
     R("declare_statement", <<"statement">>,
       N("Declare", 1, 1, [Consts |-> Nil, Stmt |-> V(1), Alt |-> Off], None)),
     R("declare_statement", <<":", "inner_statement_list", "T_ENDDECLARE",
       ";">>,
       N("Declare", 1, 4, [Consts |-> Nil, Stmt |-> Body(2), Alt |-> On],
         [Cond |-> F(1), Stmts |-> F(3), AltEnd |-> F(4),
         SemiColon |-> T(4)])),
     R("switch_case_list", <<"{", "case_list", "}">>,
       N("Switch", 1, 3, [Cond |-> Nil, CaseList |-> N("CaseList", 1, 3,
         [Cases |-> V(2)], [Start |-> F(1), CaseListEnd |-> F(3)])], None)),
     R("switch_case_list", <<"{", ";", "case_list", "}">>,
       N("Switch", 1, 4, [Cond |-> Nil, CaseList |-> N("CaseList", 1, 4,
         [Cases |-> V(3)], [Start |-> F(1), CaseListStart |-> F(2) \o T(2),
         CaseListEnd |-> F(4)])], None)) >>

SwitchWhileRules ==
  << R("switch_case_list", <<":", "case_list", "T_ENDSWITCH", ";">>,
       N("Switch", 1, 4, [Cond |-> Nil, CaseList |-> N("CaseList", 2, 2,
         [Cases |-> V(2)], [CaseListEnd |-> F(3)]), AltSyntax |-> On],
         [Cond |-> F(1), AltEnd |-> F(4), SemiColon |-> T(4)])),
     R("switch_case_list", <<":", ";", "case_list", "T_ENDSWITCH", ";">>,
       N("Switch", 1, 5, [Cond |-> Nil, CaseList |-> N("CaseList", 3, 3,
         [Cases |-> V(3)], [CaseListStart |-> F(2) \o T(2),
         CaseListEnd |-> F(4)]), AltSyntax |-> On], [Cond |-> F(1),
         AltEnd |-> F(5), SemiColon |-> T(5)])),
     R("case_list", <<>>,
       Items(<<>>)),
     R("case_list", <<"case_list", "T_CASE", "expr", "case_separator",
       "inner_statement_list">>,
       Add(V(1), N("Case", 2, 5, [Cond |-> V(3), Stmts |-> V(5)],
         [Start |-> F(2), Expr |-> F(4), CaseSeparator |-> T(4)]))),
     R("case_list", <<"case_list", "T_DEFAULT", "case_separator",
       "inner_statement_list">>,
       Add(V(1), N("Default", 2, 4, [Stmts |-> V(4)], [Start |-> F(2),
         Default |-> F(3), CaseSeparator |-> T(3)]))) >>
  \o TokenOf("case_separator", <<":", ";">>)
  \o << R("while_statement", <<"statement">>,
       N("While", 1, 1, [Cond |-> Nil, Stmt |-> V(1)], None)),
     R("while_statement", <<":", "inner_statement_list", "T_ENDWHILE", ";">>,
       N("While", 1, 4, [Cond |-> Nil, Stmt |-> Body(2), AltSyntax |-> On],
         [Cond |-> F(1), Stmts |-> F(3), AltEnd |-> F(4),
         SemiColon |-> T(4)])) >>

IfRules ==
  << R("if_stmt_without_else", <<"T_IF", "(", "expr", ")", "statement">>,
       N("If", 1, 5, [Cond |-> V(3), Stmt |-> V(5), ElseIf |-> Nil,
         Else |-> Nil], [Start |-> F(1), If |-> F(2), Expr |-> F(4)])),
     R("if_stmt_without_else", <<"if_stmt_without_else", "T_ELSEIF", "(",
       "expr", ")", "statement">>,
       Upd(V(1), 1, 6, [ElseIf |-> More(1, "ElseIf", N("ElseIf", 2, 6,
         [Cond |-> V(4), Stmt |-> V(6)],
         [Start |-> F(2), ElseIf |-> F(3), Expr |-> F(5)]))], None)) >>
  \o Unit("if_stmt", <<"if_stmt_without_else">>)
  \o << R("if_stmt", <<"if_stmt_without_else", "T_ELSE", "statement">>,
       Upd(V(1), 1, 3, [Else |-> N("Else", 2, 3, [Stmt |-> V(3)], Lead(2))],
         None)),
     R("alt_if_stmt_without_else", <<"T_IF", "(", "expr", ")", ":",
       "inner_statement_list">>,
       N("If", 1, 6, [Cond |-> V(3), Stmt |-> Body(6), ElseIf |-> Nil,
         Else |-> Nil, AltSyntax |-> On], [Start |-> F(1), If |-> F(2),
         Expr |-> F(4), Cond |-> F(5)])),
     R("alt_if_stmt_without_else", <<"alt_if_stmt_without_else", "T_ELSEIF",
       "(", "expr", ")", ":", "inner_statement_list">>,
       Upd(V(1), 0, 0, [ElseIf |-> More(1, "ElseIf", N("ElseIf", 2, 7,
         [Cond |-> V(4), Stmt |-> Body(7), AltSyntax |-> On],
         [Start |-> F(2), ElseIf |-> F(3), Expr |-> F(5), Cond |-> F(6)]))],
           None)),
     R("alt_if_stmt", <<"alt_if_stmt_without_else", "T_ENDIF", ";">>,
       Upd(V(1), 1, 3, None, [Stmts |-> F(2), AltEnd |-> F(3),
         SemiColon |-> T(3)])),
     R("alt_if_stmt", <<"alt_if_stmt_without_else", "T_ELSE", ":",
       "inner_statement_list", "T_ENDIF", ";">>,
       Upd(V(1), 1, 6, [Else |-> N("Else", 2, 4, [Stmt |-> Body(4),
         AltSyntax |-> On], [Start |-> F(2), Else |-> F(3)])],
       [Stmts |-> F(5), AltEnd |-> F(6), SemiColon |-> T(6)])) >>

ParameterFields(default) ==
  [VariableType |-> Bare(1), Variable |-> Var(4), DefaultValue |-> default,
   ByRef |-> Has(2), Variadic |-> Has(3)]

\* the text before each of the optional type, & and ... goes where the next
\* one that is there would have it
ParameterFF ==
  [Start |-> Given(1, M(1), Given(2, F(2), Given(3, F(3), F(4)))),
   OptionalType |-> Given(1, Given(2, F(2), Given(3, F(3), F(4))), NoFF),
   Ampersand |-> Given(2, Given(3, F(3), F(4)), NoFF),
   Variadic |-> Given(3, F(4), NoFF)]

ParameterRules ==
  Unit("parameter_list", <<"non_empty_parameter_list">>)
  \o << R("parameter_list", <<>>,
       Nil) >>
  \o CommaList("non_empty_parameter_list", ",", "parameter")
  \o << R("parameter", <<"optional_type", "is_reference", "is_variadic",
    "T_VARIABLE">>,
       NP("Parameter", <<1, 2, 3, 4>>, <<4>>, ParameterFields(Nil),
         ParameterFF)),
     R("parameter", <<"optional_type", "is_reference", "is_variadic",
       "T_VARIABLE", "=", "expr">>,
       NP("Parameter", <<1, 2, 3, 4>>, <<6>>, ParameterFields(V(6)),
         ParameterFF @@ [Var |-> F(5)])) >>

TypeArgumentRules ==
  << R("optional_type", <<>>,
       Nil) >>
  \o Unit("optional_type", <<"type_expr">>)
  \o Unit("type_expr", <<"type">>)
  \o << R("type_expr", <<"?", "type">>,
       N("Nullable", 1, 2, [Expr |-> V(2)], Lead(1))) >>
  \o Identifiers("type", <<"T_ARRAY", "T_CALLABLE">>)
  \o Unit("type", <<"name">>)
  \o << R("return_type", <<>>,
       Nil),
     R("return_type", <<":", "type_expr">>,
       Upd(V(2), 0, 0, None, [Colon |-> F(1)])),
     R("argument_list", <<"(", ")">>,
       N("ArgumentList", 1, 2, [Arguments |-> Nil], [Start |-> F(1),
         ArgumentList |-> F(2)])),
     R("argument_list", <<"(", "non_empty_argument_list", "possible_comma",
       ")">>,
       N("ArgumentList", 1, 4, [Arguments |-> V(2)], [Start |-> F(1),
         ArgumentList |-> F(3) \o T(3) \o F(4)])) >>
  \o CommaList("non_empty_argument_list", ",", "argument")
  \o << R("argument", <<"expr">>,
       N("Argument", 1, 1, [Expr |-> Bare(1), Variadic |-> Off,
         IsReference |-> Off], [Start |-> M(1)])),
     R("argument", <<"T_ELLIPSIS", "expr">>,
       N("Argument", 1, 2, [Expr |-> V(2), Variadic |-> On,
         IsReference |-> Off], Lead(1))) >>

StaticClassBodyRules ==
  CommaList("global_var_list", ",", "global_var")
  \o Unit("global_var", <<"simple_variable">>)
  \o CommaList("static_var_list", ",", "static_var")
  \o << R("static_var", <<"T_VARIABLE">>,
       N("StaticVar", 1, 1, [Variable |-> Var(1), Expr |-> Nil], Lead(1))),
     R("static_var", <<"T_VARIABLE", "=", "expr">>,
       N("StaticVar", 1, 3, [Variable |-> Var(1), Expr |-> V(3)],
         [Start |-> F(1), Var |-> F(2)])),
     R("class_statement_list", <<"class_statement_list", "class_statement">>,
       Add(V(1), V(2))),
     R("class_statement_list", <<>>,
       Items(<<>>)),
     R("class_statement", <<"variable_modifiers", "property_list", ";">>,
       N("PropertyList", 1, 3, [Modifiers |-> Bare(1), Properties |-> V(2)],
         [Start |-> M(1), PropertyList |-> F(3), SemiColon |-> T(3)])),
     R("class_statement", <<"method_modifiers", "T_CONST", "class_const_list",
       ";">>,
       NP("ClassConstList", <<1, 2>>, <<4>>, [Modifiers |-> Bare(1),
         Consts |-> V(3)],
       [Start |-> Given(1, M(1), F(2)), ModifierList |-> Given(1, F(2), NoFF),
         ConstList |-> F(4), SemiColon |-> T(4)])) >>

MethodRules ==
  << R("class_statement", <<"T_USE", "name_list", "trait_adaptations">>,
       N("TraitUse", 1, 3, [Traits |-> V(2), TraitAdaptationList |-> V(3)],
         Lead(1))),
     R("class_statement", <<"method_modifiers", "T_FUNCTION", "returns_ref",
       "identifier", "backup_doc_comment", "(", "parameter_list", ")",
       "return_type", "method_body">>,
       NP("ClassMethod", <<1, 2>>, <<10>>, [MethodName |-> N("Identifier", 4,
         4, [Value |-> Txt(4)], None), Modifiers |-> Bare(1),
         ReturnsRef |-> Has(3), Params |-> V(7), ReturnType |-> Drop(9,
           "Colon"), Stmt |-> V(10), PhpDocComment |-> V(5)],
       [Start |-> Given(1, M(1), F(2)), ModifierList |-> Given(1, F(2), NoFF),
         Function |-> Given(3, F(3), F(4)),
        Ampersand |-> Given(3, F(4), NoFF), Name |-> F(6),
          ParameterList |-> F(8), Params |-> Given(9, S(9, "Colon"),
          NoFF)])) >>
  \o CommaList("name_list", ",", "name")
  \o << R("trait_adaptations", <<";">>,
       Nop),
     R("trait_adaptations", <<"{", "}">>,
       N("TraitAdaptationList", 1, 2, [Adaptations |-> Nil], [Start |-> F(1),
         AdaptationList |-> F(2)])),
     R("trait_adaptations", <<"{", "trait_adaptation_list", "}">>,
       N("TraitAdaptationList", 1, 3, [Adaptations |-> V(2)], [Start |-> F(1),
         AdaptationList |-> F(3)])) >>

TraitAdaptationRules ==
  << R("trait_adaptation_list", <<"trait_adaptation">>,
       Items(<<V(1)>>)),
     R("trait_adaptation_list", <<"trait_adaptation_list",
       "trait_adaptation">>,
       Add(V(1), V(2))),
     R("trait_adaptation", <<"trait_precedence", ";">>,
       Upd(V(1), 0, 0, None, [NameList |-> F(2), SemiColon |-> T(2)])),
     R("trait_adaptation", <<"trait_alias", ";">>,
       Upd(V(1), 0, 0, None, [Alias |-> F(2), SemiColon |-> T(2)])),
     R("trait_precedence", <<"absolute_trait_method_reference", "T_INSTEADOF",
       "name_list">>,
       N("TraitUsePrecedence", 1, 3, [Ref |-> Bare(1), Insteadof |-> V(3)],
         [Start |-> M(1), Ref |-> F(2)])),
     R("trait_alias", <<"trait_method_reference", "T_AS", "T_STRING">>,
       N("TraitUseAlias", 1, 3, [Ref |-> Bare(1), Modifier |-> Nil,
         Alias |-> Ident(3)], [Start |-> M(1), Ref |-> F(2)])),
     R("trait_alias", <<"trait_method_reference", "T_AS",
       "reserved_non_modifiers">>,
       N("TraitUseAlias", 1, 3, [Ref |-> Bare(1), Modifier |-> Nil,
         Alias |-> Ident(3)], [Start |-> M(1), Ref |-> F(2)])),
     R("trait_alias", <<"trait_method_reference", "T_AS", "member_modifier",
       "identifier">>,
       N("TraitUseAlias", 1, 4, [Ref |-> Bare(1), Modifier |-> V(3),
         Alias |-> Ident(4)], [Start |-> M(1), Ref |-> F(2)])),
     R("trait_alias", <<"trait_method_reference", "T_AS", "member_modifier">>,
       N("TraitUseAlias", 1, 3, [Ref |-> Bare(1), Modifier |-> V(3),
         Alias |-> Nil], [Start |-> M(1), Ref |-> F(2)])) >>

MethodModifierRules ==
  << R("trait_method_reference", <<"identifier">>,
       N("TraitMethodRef", 1, 1, [Trait |-> Nil, Method |-> N("Identifier", 1,
         1, [Value |-> Txt(1)], None)], Lead(1))) >>
  \o Unit("trait_method_reference", <<"absolute_trait_method_reference">>)
  \o << R("absolute_trait_method_reference", <<"name",
    "T_PAAMAYIM_NEKUDOTAYIM", "identifier">>,
       N("TraitMethodRef", 1, 3, [Trait |-> Bare(1), Method |-> N("Identifier",
         3, 3, [Value |-> Txt(3)], Lead(2))], [Start |-> M(1),
         Name |-> F(2)])),
     R("method_body", <<";">>,
       Nop),
     R("method_body", <<"{", "inner_statement_list", "}">>,
       N("StmtList", 1, 3, [Stmts |-> V(2)], [Start |-> F(1),
         Stmts |-> F(3)])) >>
  \o Unit("variable_modifiers", <<"non_empty_member_modifiers">>)
  \o << R("variable_modifiers", <<"T_VAR">>,
       Items(<<Ident(1)>>)),
     R("method_modifiers", <<>>,
       Nil) >>
  \o Unit("method_modifiers", <<"non_empty_member_modifiers">>)
  \o << R("non_empty_member_modifiers", <<"member_modifier">>,
       Items(<<V(1)>>)),
     R("non_empty_member_modifiers", <<"non_empty_member_modifiers",
       "member_modifier">>,
       Add(V(1), V(2))) >>
  \o Identifiers("member_modifier", <<"T_PUBLIC", "T_PROTECTED", "T_PRIVATE",
    "T_STATIC", "T_ABSTRACT", "T_FINAL">>)

PropertyConstRules ==
  CommaList("property_list", ",", "property")
  \o << R("property", <<"T_VARIABLE", "backup_doc_comment">>,
       N("Property", 1, 1, [Variable |-> Var(1), Expr |-> Nil,
         PhpDocComment |-> V(2)], Lead(1))),
     R("property", <<"T_VARIABLE", "=", "expr", "backup_doc_comment">>,
       N("Property", 1, 3, [Variable |-> Var(1), Expr |-> V(3),
         PhpDocComment |-> V(4)], [Start |-> F(1), Var |-> F(2)])) >>
  \o CommaList("class_const_list", ",", "class_const_decl")
  \o << R("class_const_decl", <<"identifier", "=", "expr",
    "backup_doc_comment">>,
       N("Constant", 1, 3, [ConstantName |-> N("Identifier", 1, 1,
         [Value |-> Txt(1)], None), Expr |-> V(3), PhpDocComment |-> V(4)],
         [Start |-> F(1), Name |-> F(2)])),
     R("const_decl", <<"T_STRING", "=", "expr", "backup_doc_comment">>,
       N("Constant", 1, 3, [ConstantName |-> N("Identifier", 1, 1,
         [Value |-> Txt(1)], None), Expr |-> V(3), PhpDocComment |-> V(4)],
         [Start |-> F(1), Name |-> F(2)])) >>

StatementRules ==
  ReservedWordRules1 \o ReservedWordRules2 \o ReservedWordRules3
  \o NameRules \o NamespaceStatementRules \o UseStatementRules
  \o GroupUseRules \o UseDeclarationRules \o InnerStatementRules
  \o LoopStatementRules \o SimpleStatementRules \o ForeachTryRules
  \o CatchFunctionRules \o ClassDeclarationRules \o ExtendsForeachRules
  \o LoopBodyRules \o SwitchWhileRules \o IfRules \o ParameterRules
  \o TypeArgumentRules \o StaticClassBodyRules \o MethodRules
  \o TraitAdaptationRules \o MethodModifierRules \o PropertyConstRules
=============================================================================
