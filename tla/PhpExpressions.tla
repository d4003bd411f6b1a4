------------------------------ MODULE PhpExpressions ---------------------------
(* The productions of expressions, variables, strings and array pairs of   *)
(* the PHP grammar (php7.y), as its actions in php7.go build the tree.     *)
EXTENDS SyntaxTerms

ExprListNewRules ==
  CommaList("echo_expr_list", ",", "echo_expr")
  \o Unit("echo_expr", <<"expr">>)
  \o << R("for_exprs", <<>>,
       Nil) >>
  \o Unit("for_exprs", <<"non_empty_for_exprs">>)
  \o CommaList("non_empty_for_exprs", ",", "expr")
  \o << R("anonymous_class", <<"T_CLASS", "ctor_arguments", "extends_from",
    "implements_list", "backup_doc_comment", "{", "class_statement_list",
    "}">>,
       N("Class", 1, 8, [ClassName |-> Nil, Modifiers |-> Nil,
         ArgumentList |-> V(2), Extends |-> V(3), Implements |-> V(4),
         Stmts |-> V(7), PhpDocComment |-> V(5)], [Start |-> F(1),
           Name |-> F(6), Stmts |-> F(8)])),
     R("new_expr", <<"T_NEW", "class_name_reference", "ctor_arguments">>,
       NP("New", <<1>>, <<3, 2>>, [Class |-> V(2), ArgumentList |-> V(3)],
         Lead(1))),
     R("new_expr", <<"T_NEW", "anonymous_class">>,
       N("New", 1, 2, [Class |-> V(2), ArgumentList |-> Nil], Lead(1))) >>

AssignmentRules1 ==
  << R("expr_without_variable", <<"T_LIST", "(", "array_pair_list", ")", "=",
    "expr">>,
       N("Assign", 1, 6, [Variable |-> N("List", 1, 4, [Items |-> V(3)],
         [List |-> F(2), ArrayPairList |-> F(4)]), Expression |-> V(6)],
         [Start |-> F(1), Var |-> F(5)])),
     R("expr_without_variable", <<"[", "array_pair_list", "]", "=", "expr">>,
       N("Assign", 1, 5, [Variable |-> N("List", 1, 3, [Items |-> V(2),
         ShortSyntax |-> On], [ArrayPairList |-> F(3)]), Expression |-> V(5)],
         [Start |-> F(1), Var |-> F(4)])) >>
  \o AssignOp(<<<<"=", "Assign">>>>)
  \o << R("expr_without_variable", <<"variable", "=", "&", "expr">>,
       N("AssignReference", 1, 4, [Variable |-> Bare(1), Expression |-> V(4)],
         [Start |-> M(1), Var |-> F(2), Equal |-> F(3)])),
     R("expr_without_variable", <<"T_CLONE", "expr">>,
       N("Clone", 1, 2, [Expr |-> V(2)], Lead(1))) >>
  \o AssignOp(<<<<"T_PLUS_EQUAL", "AssignPlus">>, <<"T_MINUS_EQUAL",
    "AssignMinus">>, <<"T_MUL_EQUAL", "AssignMul">>, <<"T_POW_EQUAL",
    "AssignPow">>>>)

AssignmentRules2 ==
  AssignOp(<<<<"T_DIV_EQUAL", "AssignDiv">>, <<"T_CONCAT_EQUAL",
    "AssignConcat">>, <<"T_MOD_EQUAL", "AssignMod">>, <<"T_AND_EQUAL",
    "AssignBitwiseAnd">>, <<"T_OR_EQUAL", "AssignBitwiseOr">>, <<"T_XOR_EQUAL",
    "AssignBitwiseXor">>, <<"T_SL_EQUAL", "AssignShiftLeft">>, <<"T_SR_EQUAL",
    "AssignShiftRight">>>>)
  \o << R("expr_without_variable", <<"variable", "T_INC">>,
       N("PostInc", 1, 2, [Variable |-> Bare(1)], [Start |-> M(1),
         Var |-> F(2)])),
     R("expr_without_variable", <<"T_INC", "variable">>,
       N("PreInc", 1, 2, [Variable |-> V(2)], Lead(1))),
     R("expr_without_variable", <<"variable", "T_DEC">>,
       N("PostDec", 1, 2, [Variable |-> Bare(1)], [Start |-> M(1),
         Var |-> F(2)])),
     R("expr_without_variable", <<"T_DEC", "variable">>,
       N("PreDec", 1, 2, [Variable |-> V(2)], Lead(1))) >>

BinaryRules1 ==
  Infix(<<<<"T_BOOLEAN_OR", "BooleanOr">>, <<"T_BOOLEAN_AND", "BooleanAnd">>,
    <<"T_LOGICAL_OR", "LogicalOr">>, <<"T_LOGICAL_AND", "LogicalAnd">>,
    <<"T_LOGICAL_XOR", "LogicalXor">>, <<"|", "BitwiseOr">>, <<"&",
    "BitwiseAnd">>, <<"^", "BitwiseXor">>, <<".", "Concat">>, <<"+",
    "Plus">>>>)

BinaryRules2 ==
  Infix(<<<<"-", "Minus">>, <<"*", "Mul">>, <<"T_POW", "Pow">>, <<"/", "Div">>,
    <<"%", "Mod">>, <<"T_SL", "ShiftLeft">>, <<"T_SR", "ShiftRight">>>>)
  \o Prefix("expr_without_variable", <<<<"+", "UnaryPlus">>, <<"-",
    "UnaryMinus">>, <<"!", "BooleanNot">>, <<"~", "BitwiseNot">>>>, "expr",
    "Expr")

ComparisonRules ==
  Infix(<<<<"T_IS_IDENTICAL", "Identical">>, <<"T_IS_NOT_IDENTICAL",
    "NotIdentical">>, <<"T_IS_EQUAL", "Equal">>>>)
  \o << R("expr_without_variable", <<"expr", "T_IS_NOT_EQUAL", "expr">>,
       N("NotEqual", 1, 3, [Left |-> Bare(1), Right |-> V(3)], [Start |-> M(1),
         Expr |-> F(2), Equal |-> T(2)])) >>
  \o Infix(<<<<"<", "Smaller">>, <<"T_IS_SMALLER_OR_EQUAL", "SmallerOrEqual">>,
    <<">", "Greater">>, <<"T_IS_GREATER_OR_EQUAL", "GreaterOrEqual">>,
    <<"T_SPACESHIP", "Spaceship">>>>)
  \o << R("expr_without_variable", <<"expr", "T_INSTANCEOF",
    "class_name_reference">>,
       N("InstanceOf", 1, 3, [Expr |-> Bare(1), Class |-> V(3)],
         [Start |-> M(1), Expr |-> F(2)])) >>

TernaryCastRules ==
  << R("expr_without_variable", <<"(", "expr", ")">>,
       Wrap(2, 1, 3)) >>
  \o Unit("expr_without_variable", <<"new_expr">>)
  \o << R("expr_without_variable", <<"expr", "?", "expr", ":", "expr">>,
       N("Ternary", 1, 5, [Condition |-> Bare(1), IfTrue |-> V(3),
         IfFalse |-> V(5)], [Start |-> M(1), Cond |-> F(2), True |-> F(4)])),
     R("expr_without_variable", <<"expr", "?", ":", "expr">>,
       N("Ternary", 1, 4, [Condition |-> Bare(1), IfTrue |-> Nil,
         IfFalse |-> V(4)], [Start |-> M(1), Cond |-> F(2), True |-> F(3)])) >>
  \o Infix(<<<<"T_COALESCE", "Coalesce">>>>)
  \o Unit("expr_without_variable", <<"internal_functions_in_yacc">>)
  \o Cast(<<<<"T_INT_CAST", "CastInt">>, <<"T_DOUBLE_CAST", "CastDouble">>,
    <<"T_STRING_CAST", "CastString">>, <<"T_ARRAY_CAST", "CastArray">>,
    <<"T_OBJECT_CAST", "CastObject">>>>)

UnaryYieldRules ==
  Cast(<<<<"T_BOOL_CAST", "CastBool">>, <<"T_UNSET_CAST", "CastUnset">>>>)
  \o << R("expr_without_variable", <<"T_EXIT", "exit_expr">>,
       Either(2, Upd(V(2), 1, 2, [Die |-> Is(1, "die")], Lead(1)), N("Exit", 1,
         1, [Expr |-> Nil, Die |-> Is(1, "die")], Lead(1)))),
     R("expr_without_variable", <<"@", "expr">>,
       N("ErrorSuppress", 1, 2, [Expr |-> V(2)], Lead(1))) >>
  \o Unit("expr_without_variable", <<"scalar">>)
  \o << R("expr_without_variable", <<"backtick", "backticks_expr", "backtick">>,
       N("ShellExec", 1, 3, [Parts |-> V(2)], Lead(1))),
     R("expr_without_variable", <<"T_PRINT", "expr">>,
       N("Print", 1, 2, [Expr |-> V(2)], Lead(1))),
     R("expr_without_variable", <<"T_YIELD">>,
       N("Yield", 1, 1, [Key |-> Nil, Value |-> Nil], Lead(1))),
     R("expr_without_variable", <<"T_YIELD", "expr">>,
       N("Yield", 1, 2, [Key |-> Nil, Value |-> V(2)], Lead(1))),
     R("expr_without_variable", <<"T_YIELD", "expr", "T_DOUBLE_ARROW",
       "expr">>,
       N("Yield", 1, 4, [Key |-> V(2), Value |-> V(4)], [Start |-> F(1),
         Expr |-> F(3)])),
     R("expr_without_variable", <<"T_YIELD_FROM", "expr">>,
       N("YieldFrom", 1, 2, [Expr |-> V(2)], Lead(1))) >>

ClosureFields(r, static) ==
  [ReturnsRef |-> Has(r), PhpDocComment |-> V(r + 1), Params |-> V(r + 3),
   ClosureUse |-> V(r + 5), ReturnType |-> Drop(r + 6, "Colon"),
   Stmts |-> V(r + 8), Static |-> static]

ClosureFF(r) ==
  [Start |-> F(1), Function |-> Given(r, F(r), F(r + 2)),
   Ampersand |-> Given(r, F(r + 2), NoFF), ParameterList |-> F(r + 4),
   LexicalVars |-> Given(r + 6, S(r + 6, "Colon"), F(r + 7)),
   ReturnType |-> Given(r + 6, F(r + 7), NoFF), Stmts |-> F(r + 9)]

ClosureRules ==
  << R("expr_without_variable", <<"T_FUNCTION", "returns_ref",
    "backup_doc_comment", "(", "parameter_list", ")", "lexical_vars",
    "return_type", "{", "inner_statement_list", "}">>,
       N("Closure", 1, 11, ClosureFields(2, Off), ClosureFF(2))),
     R("expr_without_variable", <<"T_STATIC", "T_FUNCTION", "returns_ref",
       "backup_doc_comment", "(", "parameter_list", ")", "lexical_vars",
       "return_type", "{", "inner_statement_list", "}">>,
       N("Closure", 1, 12, ClosureFields(3, On),
         [Static |-> F(2)] @@ ClosureFF(3))),
     R("backup_doc_comment", <<>>,
       DocComment),
     K("returns_ref", <<>>,
       Nil) >>
  \o TokenOf("returns_ref", <<"&">>)

LexicalCallRules ==
  << R("lexical_vars", <<>>,
       Nil),
     R("lexical_vars", <<"T_USE", "(", "lexical_var_list", ")">>,
       N("ClosureUse", 1, 4, [Uses |-> V(3)], [Start |-> F(1), Use |-> F(2),
         LexicalVarList |-> F(4)])) >>
  \o CommaList("lexical_var_list", ",", "lexical_var")
  \o << R("lexical_var", <<"T_VARIABLE">>,
       N("SimpleVar", 1, 1, [Name |-> Txt(1)], [Start |-> F(1),
         Dollar |-> DollarSign])),
     R("lexical_var", <<"&", "T_VARIABLE">>,
       N("Reference", 1, 2, [Variable |-> N("SimpleVar", 2, 2,
         [Name |-> Txt(2)], [Start |-> F(2), Dollar |-> DollarSign])],
         Lead(1))),
     R("function_call", <<"name", "argument_list">>,
       N("FunctionCall", 1, 2, [Function |-> Bare(1), ArgumentList |-> V(2)],
         [Start |-> M(1)])),
     R("function_call", <<"class_name", "T_PAAMAYIM_NEKUDOTAYIM",
       "member_name", "argument_list">>,
       N("StaticCall", 1, 4, [Class |-> Bare(1), Call |-> V(3),
         ArgumentList |-> V(4)], [Start |-> M(1), Name |-> F(2)])),
     R("function_call", <<"variable_class_name", "T_PAAMAYIM_NEKUDOTAYIM",
       "member_name", "argument_list">>,
       N("StaticCall", 1, 4, [Class |-> Bare(1), Call |-> V(3),
         ArgumentList |-> V(4)], [Start |-> M(1), Name |-> F(2)])),
     R("function_call", <<"callable_expr", "argument_list">>,
       N("FunctionCall", 1, 2, [Function |-> Bare(1), ArgumentList |-> V(2)],
         [Start |-> M(1)])) >>

ClassNameRules ==
  Identifiers("class_name", <<"T_STATIC">>)
  \o Unit("class_name", <<"name">>)
  \o Unit("class_name_reference", <<"class_name", "new_variable">>)
  \o << R("exit_expr", <<>>,
       Nil),
     R("exit_expr", <<"(", "optional_expr", ")">>,
       N("Exit", 1, 3, [Expr |-> V(2)], [Exit |-> F(1) \o T(1),
         Expr |-> F(3) \o T(3)])),
     R("backticks_expr", <<>>,
       Items(<<>>)),
     R("backticks_expr", <<"T_ENCAPSED_AND_WHITESPACE">>,
       Items(<<N("EncapsedStringPart", 1, 1, [Value |-> Txt(1)], None)>>)) >>
  \o Unit("backticks_expr", <<"encaps_list">>)
  \o << R("ctor_arguments", <<>>,
       Nil) >>
  \o Unit("ctor_arguments", <<"argument_list">>)

ScalarRules1 ==
  << R("dereferencable_scalar", <<"T_ARRAY", "(", "array_pair_list", ")">>,
       N("Array", 1, 4, [Items |-> V(3)], [Start |-> F(1), Array |-> F(2),
         ArrayPairList |-> F(4)])),
     R("dereferencable_scalar", <<"[", "array_pair_list", "]">>,
       N("Array", 1, 3, [Items |-> V(2), ShortSyntax |-> On], [Start |-> F(1),
         ArrayPairList |-> F(3)])),
     R("dereferencable_scalar", <<"T_CONSTANT_ENCAPSED_STRING">>,
       N("String", 1, 1, [Value |-> Txt(1)], Lead(1))) >>
  \o Literal("scalar", <<<<"T_LNUMBER", "Lnumber">>, <<"T_DNUMBER",
    "Dnumber">>, <<"T_LINE", "MagicConstant">>, <<"T_FILE", "MagicConstant">>,
    <<"T_DIR", "MagicConstant">>, <<"T_TRAIT_C", "MagicConstant">>,
    <<"T_METHOD_C", "MagicConstant">>, <<"T_FUNC_C", "MagicConstant">>>>)

ScalarRules2 ==
  Literal("scalar", <<<<"T_NS_C", "MagicConstant">>, <<"T_CLASS_C",
    "MagicConstant">>>>)
  \o << R("scalar", <<"T_START_HEREDOC", "T_ENCAPSED_AND_WHITESPACE",
    "T_END_HEREDOC">>,
       N("Heredoc", 1, 3, [Label |-> Txt(1),
         Parts |-> Items(<<N("EncapsedStringPart", 2, 2, [Value |-> Txt(2)],
         None)>>)], Lead(1))),
     R("scalar", <<"T_START_HEREDOC", "T_END_HEREDOC">>,
       N("Heredoc", 1, 2, [Label |-> Txt(1), Parts |-> Nil], Lead(1))),
     R("scalar", <<"\"", "encaps_list", "\"">>,
       N("Encapsed", 1, 3, [Parts |-> V(2)], Lead(1))),
     R("scalar", <<"T_START_HEREDOC", "encaps_list", "T_END_HEREDOC">>,
       N("Heredoc", 1, 3, [Label |-> Txt(1), Parts |-> V(2)], Lead(1))) >>
  \o Unit("scalar", <<"dereferencable_scalar", "constant">>)

ConstantDereferenceRules ==
  << R("constant", <<"name">>,
       N("ConstFetch", 1, 1, [Constant |-> Bare(1)], [Start |-> M(1)])),
     R("constant", <<"class_name", "T_PAAMAYIM_NEKUDOTAYIM", "identifier">>,
       N("ClassConstFetch", 1, 3, [Class |-> Bare(1),
         ConstantName |-> Ident(3)], [Start |-> M(1), Name |-> F(2)])),
     R("constant", <<"variable_class_name", "T_PAAMAYIM_NEKUDOTAYIM",
       "identifier">>,
       N("ClassConstFetch", 1, 3, [Class |-> Bare(1),
         ConstantName |-> Ident(3)], [Start |-> M(1), Name |-> F(2)])) >>
  \o Unit("expr", <<"variable", "expr_without_variable">>)
  \o << R("optional_expr", <<>>,
       Nil) >>
  \o Unit("optional_expr", <<"expr">>)
  \o Unit("variable_class_name", <<"dereferencable">>)
  \o Unit("dereferencable", <<"variable">>)
  \o << R("dereferencable", <<"(", "expr", ")">>,
       Wrap(2, 1, 3)) >>
  \o Unit("dereferencable", <<"dereferencable_scalar">>)
  \o Unit("callable_expr", <<"callable_variable">>)
  \o << R("callable_expr", <<"(", "expr", ")">>,
       Wrap(2, 1, 3)) >>
  \o Unit("callable_expr", <<"dereferencable_scalar">>)

VariableRules ==
  Unit("callable_variable", <<"simple_variable">>)
  \o << R("callable_variable", <<"dereferencable", "[", "optional_expr", "]">>,
       N("ArrayDimFetch", 1, 4, [Variable |-> Bare(1), Dim |-> V(3)],
         [Start |-> M(1), Var |-> F(2) \o T(2), Expr |-> F(4) \o T(4)])),
     R("callable_variable", <<"constant", "[", "optional_expr", "]">>,
       N("ArrayDimFetch", 1, 4, [Variable |-> Bare(1), Dim |-> V(3)],
         [Start |-> M(1), Var |-> F(2) \o T(2), Expr |-> F(4) \o T(4)])),
     R("callable_variable", <<"dereferencable", "{", "expr", "}">>,
       N("ArrayDimFetch", 1, 4, [Variable |-> Bare(1), Dim |-> V(3)],
         [Start |-> M(1), Var |-> F(2) \o T(2), Expr |-> F(4) \o T(4)])),
     R("callable_variable", <<"dereferencable", "T_OBJECT_OPERATOR",
       "property_name", "argument_list">>,
       N("MethodCall", 1, 4, [Variable |-> Bare(1), Method |-> V(3),
         ArgumentList |-> V(4)], [Start |-> M(1), Var |-> F(2)])) >>
  \o Unit("callable_variable", <<"function_call">>)
  \o Unit("variable", <<"callable_variable", "static_member">>)
  \o << R("variable", <<"dereferencable", "T_OBJECT_OPERATOR",
    "property_name">>,
       N("PropertyFetch", 1, 3, [Variable |-> Bare(1), Property |-> V(3)],
         [Start |-> M(1), Var |-> F(2)])),
     R("simple_variable", <<"T_VARIABLE">>,
       N("SimpleVar", 1, 1, [Name |-> Txt(1)], [Start |-> F(1),
         Dollar |-> DollarSign])),
     R("simple_variable", <<"$", "{", "expr", "}">>,
       N("Var", 1, 4, [Expr |-> Wrap(3, 2, 4)], [Start |-> F(1),
         Dollar |-> T(1)])),
     R("simple_variable", <<"$", "simple_variable">>,
       N("Var", 1, 2, [Expr |-> V(2)], [Start |-> F(1), Dollar |-> T(1)])) >>

MemberRules ==
  << R("static_member", <<"class_name", "T_PAAMAYIM_NEKUDOTAYIM",
    "simple_variable">>,
       N("StaticPropertyFetch", 1, 3, [Class |-> Bare(1), Property |-> V(3)],
         [Start |-> M(1), Name |-> F(2)])),
     R("static_member", <<"variable_class_name", "T_PAAMAYIM_NEKUDOTAYIM",
       "simple_variable">>,
       N("StaticPropertyFetch", 1, 3, [Class |-> Bare(1), Property |-> V(3)],
         [Start |-> M(1), Name |-> F(2)])) >>
  \o Unit("new_variable", <<"simple_variable">>)
  \o << R("new_variable", <<"new_variable", "[", "optional_expr", "]">>,
       N("ArrayDimFetch", 1, 4, [Variable |-> Bare(1), Dim |-> V(3)],
         [Start |-> M(1), Var |-> F(2) \o T(2), Expr |-> F(4) \o T(4)])),
     R("new_variable", <<"new_variable", "{", "expr", "}">>,
       N("ArrayDimFetch", 1, 4, [Variable |-> Bare(1), Dim |-> V(3)],
         [Start |-> M(1), Var |-> F(2) \o T(2), Expr |-> F(4) \o T(4)])),
     R("new_variable", <<"new_variable", "T_OBJECT_OPERATOR",
       "property_name">>,
       N("PropertyFetch", 1, 3, [Variable |-> Bare(1), Property |-> V(3)],
         [Start |-> M(1), Var |-> F(2)])),
     R("new_variable", <<"class_name", "T_PAAMAYIM_NEKUDOTAYIM",
       "simple_variable">>,
       N("StaticPropertyFetch", 1, 3, [Class |-> Bare(1), Property |-> V(3)],
         [Start |-> M(1), Var |-> F(2)])),
     R("new_variable", <<"new_variable", "T_PAAMAYIM_NEKUDOTAYIM",
       "simple_variable">>,
       N("StaticPropertyFetch", 1, 3, [Class |-> Bare(1), Property |-> V(3)],
         [Start |-> M(1), Var |-> F(2)])) >>
  \o Identifiers("member_name", <<"identifier">>)
  \o << R("member_name", <<"{", "expr", "}">>,
       Wrap(2, 1, 3)) >>
  \o Unit("member_name", <<"simple_variable">>)
  \o Identifiers("property_name", <<"T_STRING">>)
  \o << R("property_name", <<"{", "expr", "}">>,
       Wrap(2, 1, 3)) >>
  \o Unit("property_name", <<"simple_variable">>)

ArrayPairRules ==
  Unit("array_pair_list", <<"non_empty_array_pair_list">>)
  \o << R("possible_array_pair", <<>>,
       EmptyItem) >>
  \o Unit("possible_array_pair", <<"array_pair">>)
  \o << R("non_empty_array_pair_list", <<"non_empty_array_pair_list", ",",
    "possible_array_pair">>,
       Add(Comma(OrEmptyItem(1), 2), V(3))),
     R("non_empty_array_pair_list", <<"possible_array_pair">>,
       UnlessEmptyItem(1)),
     R("array_pair", <<"expr", "T_DOUBLE_ARROW", "expr">>,
       N("ArrayItem", 1, 3, [Key |-> Bare(1), Val |-> V(3)], [Start |-> M(1),
         Expr |-> F(2)])),
     R("array_pair", <<"expr">>,
       N("ArrayItem", 1, 1, [Key |-> Nil, Val |-> Bare(1)], [Start |-> M(1)])),
     R("array_pair", <<"expr", "T_DOUBLE_ARROW", "&", "variable">>,
       N("ArrayItem", 1, 4, [Key |-> Bare(1), Val |-> N("Reference", 3, 4,
         [Variable |-> V(4)], Lead(3))], [Start |-> M(1), Expr |-> F(2)])),
     R("array_pair", <<"&", "variable">>,
       N("ArrayItem", 1, 2, [Key |-> Nil, Val |-> N("Reference", 1, 2,
         [Variable |-> V(2)], None)], Lead(1))),
     R("array_pair", <<"expr", "T_DOUBLE_ARROW", "T_LIST", "(",
       "array_pair_list", ")">>,
       N("ArrayItem", 1, 6, [Key |-> Bare(1), Val |-> N("List", 3, 6,
         [Items |-> V(5)], [Start |-> F(3), List |-> F(4),
         ArrayPairList |-> F(6)])], [Start |-> M(1), Expr |-> F(2)])),
     R("array_pair", <<"T_LIST", "(", "array_pair_list", ")">>,
       N("ArrayItem", 1, 4, [Key |-> Nil, Val |-> N("List", 1, 4,
         [Items |-> V(3)], [List |-> F(2), ArrayPairList |-> F(4)])],
         Lead(1))) >>

EncapsRules ==
  << R("encaps_list", <<"encaps_list", "encaps_var">>,
       Add(V(1), V(2))),
     R("encaps_list", <<"encaps_list", "T_ENCAPSED_AND_WHITESPACE">>,
       Add(V(1), N("EncapsedStringPart", 2, 2, [Value |-> Txt(2)], Lead(2)))),
     R("encaps_list", <<"encaps_var">>,
       Items(<<V(1)>>)),
     R("encaps_list", <<"T_ENCAPSED_AND_WHITESPACE", "encaps_var">>,
       Items(<<N("EncapsedStringPart", 1, 1, [Value |-> Txt(1)], Lead(1)),
         V(2)>>)),
     R("encaps_var", <<"T_VARIABLE">>,
       N("SimpleVar", 1, 1, [Name |-> Txt(1)], [Start |-> F(1),
         Dollar |-> DollarSign])),
     R("encaps_var", <<"T_VARIABLE", "[", "encaps_var_offset", "]">>,
       N("ArrayDimFetch", 1, 4, [Variable |-> Var(1), Dim |-> V(3)],
         [Var |-> F(2) \o T(2), Expr |-> F(4) \o T(4)])),
     R("encaps_var", <<"T_VARIABLE", "T_OBJECT_OPERATOR", "T_STRING">>,
       N("PropertyFetch", 1, 3, [Variable |-> Var(1), Property |-> Ident(3)],
         [Var |-> F(2)])),
     R("encaps_var", <<"T_DOLLAR_OPEN_CURLY_BRACES", "expr", "}">>,
       N("Var", 1, 3, [Expr |-> V(2)], [Start |-> T(1),
         End |-> F(3) \o T(3)])),
     R("encaps_var", <<"T_DOLLAR_OPEN_CURLY_BRACES", "T_STRING_VARNAME", "}">>,
       N("SimpleVar", 1, 3, [Name |-> Txt(2)], [Start |-> T(1),
         End |-> F(3) \o T(3)])),
     R("encaps_var", <<"T_DOLLAR_OPEN_CURLY_BRACES", "T_STRING_VARNAME", "[",
       "expr", "]", "}">>,
       N("ArrayDimFetch", 1, 6, [Variable |-> N("SimpleVar", 2, 2,
         [Name |-> Txt(2)], None), Dim |-> V(4)], [Start |-> T(1),
         Var |-> F(3) \o T(3), Expr |-> F(5) \o T(5), End |-> F(6) \o T(6)])),
     R("encaps_var", <<"T_CURLY_OPEN", "variable", "}">>,
       Upd(V(2), 0, 0, None, [Start |-> T(1), End |-> F(3) \o T(3)])) >>

EncapsOffsetRules ==
  << R("encaps_var_offset", <<"T_STRING">>,
       N("String", 1, 1, [Value |-> Txt(1)], Lead(1))),
     R("encaps_var_offset", <<"T_NUM_STRING">>,
       WhenText(1, "0xnum", N("String", 1, 1, [Value |-> Txt(1)], Lead(1)),
         N("Lnumber", 1, 1, [Value |-> Txt(1)], Lead(1)))),
     R("encaps_var_offset", <<"-", "T_NUM_STRING">>,
       WhenText(2, "0xnum", N("String", 1, 2, [Value |-> Cat(1, 2)], Lead(1)),
       N("UnaryMinus", 1, 2, [Expr |-> N("Lnumber", 1, 2, [Value |-> Txt(2)],
         None)], Lead(1)))),
     R("encaps_var_offset", <<"T_VARIABLE">>,
       N("SimpleVar", 1, 1, [Name |-> Txt(1)], [Start |-> F(1),
         Dollar |-> DollarSign])) >>

InternalFunctionRules ==
  << R("internal_functions_in_yacc", <<"T_ISSET", "(", "isset_variables",
    "possible_comma", ")">>,
       N("Isset", 1, 5, [Variables |-> V(3)], [Start |-> F(1), Isset |-> F(2),
         VarList |-> F(4) \o T(4) \o F(5)])),
     R("internal_functions_in_yacc", <<"T_EMPTY", "(", "expr", ")">>,
       N("Empty", 1, 4, [Expr |-> V(3)], [Start |-> F(1), Empty |-> F(2),
         Expr |-> F(4)])) >>
  \o Prefix("internal_functions_in_yacc", <<<<"T_INCLUDE", "Include">>,
    <<"T_INCLUDE_ONCE", "IncludeOnce">>>>, "expr", "Expr")
  \o << R("internal_functions_in_yacc", <<"T_EVAL", "(", "expr", ")">>,
       N("Eval", 1, 4, [Expr |-> V(3)], [Start |-> F(1), Eval |-> F(2),
         Expr |-> F(4)])) >>
  \o Prefix("internal_functions_in_yacc", <<<<"T_REQUIRE", "Require">>,
    <<"T_REQUIRE_ONCE", "RequireOnce">>>>, "expr", "Expr")
  \o CommaList("isset_variables", ",", "isset_variable")
  \o Unit("isset_variable", <<"expr">>)

ExpressionRules ==
  ExprListNewRules \o AssignmentRules1 \o AssignmentRules2 \o BinaryRules1
  \o BinaryRules2 \o ComparisonRules \o TernaryCastRules \o UnaryYieldRules
  \o ClosureRules \o LexicalCallRules \o ClassNameRules \o ScalarRules1
  \o ScalarRules2 \o ConstantDereferenceRules \o VariableRules
  \o MemberRules \o ArrayPairRules \o EncapsRules \o EncapsOffsetRules
  \o InternalFunctionRules
=============================================================================
