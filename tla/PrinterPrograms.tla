-------------------------- MODULE PrinterPrograms --------------------------
(* What printer.go writes for each kind of node, as a list of items that   *)
(* SyntaxPrinter runs: pieces of free floating text, fixed text, children. *)
(* The single spaces that the printer puts between words when a node has   *)
(* no free floating text are left out: they are no tokens.                 *)
EXTENDS Naturals, Sequences, TLC

-----------------------------------------------------------------------------
(* Items. *)

Slot(p) == <<[op |-> "slot", slot |-> p]>>
Tok(text) == <<[op |-> "text", text |-> text]>>
WhenEmpty(text) == <<[op |-> "default", text |-> text]>>
Value(field) == <<[op |-> "value", field |-> field]>>
\* a text without the quotes around it
Unquoted(field) == <<[op |-> "unquoted", field |-> field]>>
Child(field) == <<[op |-> "child", field |-> field]>>
Sep(glue, field) == <<[op |-> "join", glue |-> glue, field |-> field]>>
All(field) == Sep("", field)
\* the same items after each child, and before each
Each(before, field) == <<[op |-> "each", before |-> before, field |-> field]>>
StringParts == <<[op |-> "parts", field |-> "Parts"]>>
\* items of the child, written by the parent
Inside(field, items) == <<[op |-> "inside", field |-> field, items |-> items]>>
When(field, this, that) ==
    <<[op |-> "when", field |-> field, this |-> this, that |-> that]>>
Opt(field, items) == When(field, items, <<>>)
Mode(mode) == <<[op |-> "mode", mode |-> mode]>>
WhenMode(mode, this, that) ==
    <<[op |-> "whenMode", mode |-> mode, this |-> this, that |-> that]>>

Whole(items) == Slot("Start") \o items \o Slot("End")
Semi == Slot("SemiColon") \o WhenEmpty(";")
Parens(items) == Tok("(") \o items \o Tok(")")
Block == Tok("{") \o All("Stmts") \o Slot("Stmts") \o Tok("}")
Args == Inside("ArgumentList",
          Slot("Start") \o Tok("(") \o Sep(",", "Arguments")
          \o Slot("ArgumentList") \o Tok(")") \o Slot("End"))
\* the body of a statement, after ":" and up to the word that ends it
Bodies(alt, end, inner) ==
    When(alt, Slot("Cond") \o Tok(":") \o Inside("Stmt", All("Stmts")) \o inner
              \o Slot("Stmts") \o Tok(end) \o Slot("AltEnd") \o Semi,
         Child("Stmt") \o inner)
AltBody(end) == Bodies("AltSyntax", end, <<>>)

BinaryOf(word) == Whole(Child("Left") \o Slot("Expr") \o word \o Child("Right"))
AssignOf(word) ==
    Whole(Child("Variable") \o Slot("Var") \o word \o Child("Expression"))
CastOf(word) == Whole(Slot("Cast") \o WhenEmpty(word) \o Child("Expr"))
Word(word, field) == Whole(Tok(word) \o Child(field))
Leaf == Whole(Value("Value"))
\* a word and a parenthesised list or expression
Call(word, slot, items, last) ==
    Tok(word) \o Slot(slot) \o Parens(items \o Slot(last))

-----------------------------------------------------------------------------

BasicPrograms ==
    [Root |-> Mode("html") \o Slot("Start") \o All("Stmts") \o Slot("End"),
     Identifier |-> Leaf,
     Parameter |->
       Whole(Opt("VariableType", Child("VariableType")) \o Slot("OptionalType")
         \o Opt("ByRef", Tok("&")) \o Slot("Ampersand")
         \o Opt("Variadic", Tok("...")) \o Slot("Variadic") \o Child("Variable")
         \o Opt("DefaultValue", Slot("Var") \o Tok("=") \o Child("DefaultValue"))),
     Nullable |-> Word("?", "Expr"),
     Argument |->
       Whole(Opt("IsReference", Tok("&")) \o Slot("Ampersand")
         \o Opt("Variadic", Tok("...")) \o Slot("Variadic") \o Child("Expr"))]

NamePrograms ==
    [NamePart |-> Leaf,
     Name |-> Whole(Sep("\\", "Parts")),
     FullyQualified |-> Whole(Tok("\\") \o Sep("\\", "Parts")),
     Relative |->
       Whole(Tok("namespace") \o Slot("Namespace") \o Each("\\", "Parts"))]

ScalarPrograms ==
    [Lnumber |-> Leaf,
     Dnumber |-> Leaf,
     String |-> Leaf,
     EncapsedStringPart |-> Leaf,
     Encapsed |-> Whole(Tok("\"") \o StringParts \o Tok("\"")),
     Heredoc |-> Whole(Tok("<<<") \o Value("Label") \o StringParts \o Unquoted("Label")),
     MagicConstant |-> Leaf]

AssignPrograms1 ==
    [Assign |-> AssignOf(Tok("=")),
     AssignReference |-> AssignOf(Tok("=") \o Slot("Equal") \o Tok("&")),
     AssignBitwiseAnd |-> AssignOf(Tok("&=")),
     AssignBitwiseOr |-> AssignOf(Tok("|=")),
     AssignBitwiseXor |-> AssignOf(Tok("^=")),
     AssignConcat |-> AssignOf(Tok(".=")),
     AssignDiv |-> AssignOf(Tok("/="))]

AssignPrograms2 ==
    [AssignMinus |-> AssignOf(Tok("-=")),
     AssignMod |-> AssignOf(Tok("%=")),
     AssignMul |-> AssignOf(Tok("*=")),
     AssignPlus |-> AssignOf(Tok("+=")),
     AssignPow |-> AssignOf(Tok("**=")),
     AssignShiftLeft |-> AssignOf(Tok("<<=")),
     AssignShiftRight |-> AssignOf(Tok(">>="))]

BinaryPrograms1 ==
    [BitwiseAnd |-> BinaryOf(Tok("&")),
     BitwiseOr |-> BinaryOf(Tok("|")),
     BitwiseXor |-> BinaryOf(Tok("^")),
     BooleanAnd |-> BinaryOf(Tok("&&")),
     BooleanOr |-> BinaryOf(Tok("||")),
     Coalesce |-> BinaryOf(Tok("??")),
     Concat |-> BinaryOf(Tok(".")),
     Div |-> BinaryOf(Tok("/")),
     Equal |-> BinaryOf(Tok("==")),
     GreaterOrEqual |-> BinaryOf(Tok(">=")),
     Greater |-> BinaryOf(Tok(">")),
     Identical |-> BinaryOf(Tok("==="))]

BinaryPrograms2 ==
    [LogicalAnd |-> BinaryOf(Tok("and")),
     LogicalOr |-> BinaryOf(Tok("or")),
     LogicalXor |-> BinaryOf(Tok("xor")),
     Minus |-> BinaryOf(Tok("-")),
     Mod |-> BinaryOf(Tok("%")),
     Mul |-> BinaryOf(Tok("*")),
     NotEqual |-> BinaryOf(Slot("Equal") \o WhenEmpty("!=")),
     NotIdentical |-> BinaryOf(Tok("!==")),
     Plus |-> BinaryOf(Tok("+")),
     Pow |-> BinaryOf(Tok("**"))]

BinaryPrograms3 ==
    [ShiftLeft |-> BinaryOf(Tok("<<")),
     ShiftRight |-> BinaryOf(Tok(">>")),
     SmallerOrEqual |-> BinaryOf(Tok("<=")),
     Smaller |-> BinaryOf(Tok("<")),
     Spaceship |-> BinaryOf(Tok("<=>"))]

CastPrograms ==
    [CastArray |-> CastOf("(array)"),
     CastBool |-> CastOf("(boolean)"),
     CastDouble |-> CastOf("(float)"),
     CastInt |-> CastOf("(integer)"),
     CastObject |-> CastOf("(object)"),
     CastString |-> CastOf("(string)"),
     CastUnset |-> CastOf("(unset)")]

DimPrograms ==
    [ArrayDimFetch |->
       Whole(Child("Variable") \o Slot("Var") \o WhenEmpty("[") \o Child("Dim")
         \o Slot("Expr") \o WhenEmpty("]")),
     ArrayItem |->
       Whole(Opt("Key", Child("Key") \o Slot("Expr") \o Tok("=>"))
         \o Child("Val")),
     Array |->
       Whole(When("ShortSyntax",
         Tok("[") \o Sep(",", "Items") \o Slot("ArrayPairList") \o Tok("]"),
         Call("array", "Array", Sep(",", "Items"), "ArrayPairList"))),
     BitwiseNot |-> Word("~", "Expr"),
     BooleanNot |-> Word("!", "Expr"),
     ClassConstFetch |->
       Whole(Child("Class") \o Slot("Name") \o Tok("::")
         \o Child("ConstantName"))]

ClosurePrograms ==
    [Clone |-> Word("clone", "Expr"),
     ClosureUse |-> Whole(Call("use", "Use", Sep(",", "Uses"), "LexicalVarList")),
     Closure |->
       Whole(Opt("Static", Tok("static")) \o Slot("Static")
         \o Tok("function") \o Slot("Function") \o Opt("ReturnsRef", Tok("&"))
         \o Slot("Ampersand") \o Parens(Sep(",", "Params") \o Slot("ParameterList"))
         \o Slot("Params") \o Child("ClosureUse") \o Slot("LexicalVars")
         \o Opt("ReturnType", Tok(":") \o Child("ReturnType"))
         \o Slot("ReturnType") \o Block),
     ConstFetch |-> Whole(Child("Constant")),
     Empty |-> Whole(Call("empty", "Empty", Child("Expr"), "Expr")),
     ErrorSuppress |-> Word("@", "Expr"),
     Eval |-> Whole(Call("eval", "Eval", Child("Expr"), "Expr")),
     Exit |->
       Whole(When("Die", Tok("die"), Tok("exit")) \o Slot("Exit")
         \o Child("Expr") \o Slot("Expr"))]

CallPrograms ==
    [FunctionCall |-> Whole(Child("Function") \o Args),
     Include |-> Word("include", "Expr"),
     IncludeOnce |-> Word("include_once", "Expr"),
     InstanceOf |->
       Whole(Child("Expr") \o Slot("Expr") \o Tok("instanceof")
         \o Child("Class")),
     Isset |-> Whole(Call("isset", "Isset", Sep(",", "Variables"), "VarList")),
     List |->
       Whole(When("ShortSyntax",
         Tok("[") \o Sep(",", "Items") \o Slot("ArrayPairList") \o Tok("]"),
         Call("list", "List", Sep(",", "Items"), "ArrayPairList"))),
     MethodCall |->
       Whole(Child("Variable") \o Slot("Var") \o Tok("->") \o Child("Method")
         \o Args),
     New |-> Whole(Tok("new") \o Child("Class") \o Opt("ArgumentList", Args))]

FetchPrograms ==
    [PostDec |-> Whole(Child("Variable") \o Slot("Var") \o Tok("--")),
     PostInc |-> Whole(Child("Variable") \o Slot("Var") \o Tok("++")),
     PreDec |-> Word("--", "Variable"),
     PreInc |-> Word("++", "Variable"),
     PropertyFetch |->
       Whole(Child("Variable") \o Slot("Var") \o Tok("->") \o Child("Property")),
     Reference |-> Word("&", "Variable"),
     Require |-> Word("require", "Expr"),
     RequireOnce |-> Word("require_once", "Expr"),
     ShellExec |-> Whole(Tok("backtick") \o All("Parts") \o Tok("backtick")),
     StaticCall |->
       Whole(Child("Class") \o Slot("Name") \o Tok("::") \o Child("Call")
         \o Args),
     StaticPropertyFetch |->
       Whole(Child("Class") \o Slot("Name") \o Tok("::") \o Child("Property"))]
    @@ ("Print" :> Word("print", "Expr"))

TernaryPrograms ==
    [Ternary |->
       Whole(Child("Condition") \o Slot("Cond") \o Tok("?") \o Child("IfTrue")
         \o Slot("True") \o Tok(":") \o Child("IfFalse")),
     UnaryMinus |-> Word("-", "Expr"),
     UnaryPlus |-> Word("+", "Expr"),
     SimpleVar |-> Whole(Slot("Dollar") \o WhenEmpty("$") \o Value("Name")),
     Var |-> Whole(Slot("Dollar") \o WhenEmpty("$") \o Child("Expr")),
     YieldFrom |-> Word("yield from", "Expr"),
     Yield |->
       Whole(Tok("yield")
         \o Opt("Key", Child("Key") \o Slot("Expr") \o Tok("=>"))
         \o Child("Value"))]

\* the parts of a string that start with "${"
WithoutLeadingDollar ==
    [Var |-> Whole(Child("Expr")),
     SimpleVar |-> Whole(Value("Name")),
     ArrayDimFetch |->
       Whole(<<[op |-> "bare", field |-> "Variable"]>> \o Slot("Var")
         \o WhenEmpty("[") \o Child("Dim") \o Slot("Expr") \o WhenEmpty("]"))]

-----------------------------------------------------------------------------

MethodPrograms ==
    [Break |-> Whole(Tok("break") \o Child("Expr") \o Slot("Expr") \o Semi),
     Case |->
       Whole(Tok("case") \o Child("Cond") \o Slot("Expr") \o Slot("CaseSeparator")
         \o WhenEmpty(":") \o All("Stmts")),
     Catch |->
       Whole(Tok("catch") \o Slot("Catch")
         \o Parens(Sep("|", "Types") \o Child("Variable") \o Slot("Var"))
         \o Slot("Cond") \o Block),
     ClassMethod |->
       Whole(All("Modifiers") \o Slot("ModifierList") \o Tok("function")
         \o Slot("Function") \o Opt("ReturnsRef", Tok("&") \o Slot("Ampersand"))
         \o Child("MethodName") \o Slot("Name")
         \o Parens(Sep(",", "Params") \o Slot("ParameterList")) \o Slot("Params")
         \o Opt("ReturnType", Tok(":") \o Child("ReturnType")) \o Child("Stmt"))]

ClassPrograms ==
    [Class |->
       Whole(All("Modifiers") \o Slot("ModifierList") \o Tok("class")
         \o Slot("Class") \o Child("ClassName") \o Opt("ArgumentList", Args)
         \o Opt("Extends", Inside("Extends",
              Slot("Start") \o Tok("extends") \o Child("ClassName")))
         \o Opt("Implements", Inside("Implements",
              Slot("Start") \o Tok("implements") \o Sep(",", "InterfaceNames")))
         \o Slot("Name") \o Block),
     ClassConstList |->
       Whole(All("Modifiers") \o Slot("ModifierList") \o Tok("const")
         \o Sep(",", "Consts") \o Slot("ConstList") \o Semi),
     ConstList |->
       Whole(Tok("const") \o Sep(",", "Consts") \o Slot("Stmts") \o Semi),
     Constant |->
       Whole(Child("ConstantName") \o Slot("Name") \o Tok("=") \o Child("Expr"))]

LoopPrograms1 ==
    [Continue |-> Whole(Tok("continue") \o Child("Expr") \o Slot("Expr") \o Semi),
     Declare |->
       Whole(Call("declare", "Declare", Sep(",", "Consts"), "ConstList")
         \o Bodies("Alt", "enddeclare", <<>>)),
     Default |->
       Whole(Tok("default") \o Slot("Default") \o Slot("CaseSeparator")
         \o WhenEmpty(":") \o All("Stmts")),
     Do |->
       Whole(Tok("do") \o Child("Stmt") \o Slot("Stmts")
         \o Call("while", "While", Child("Cond"), "Expr") \o Slot("Cond") \o Semi),
     Echo |->
       WhenMode("html", WhenEmpty("<?=") \o Mode("php"), WhenEmpty("echo"))
       \o Slot("Start") \o Slot("Echo") \o Sep(",", "Exprs") \o Slot("Expr")
       \o Semi \o Slot("End")]

ElsePrograms ==
    [ElseIf |->
       Whole(Call("elseif", "ElseIf", Child("Cond"), "Expr")
         \o When("AltSyntax",
              Slot("Cond") \o Tok(":") \o Inside("Stmt", All("Stmts")),
              Child("Stmt"))),
     Else |->
       Whole(Tok("else")
         \o When("AltSyntax",
              Slot("Else") \o Tok(":") \o Inside("Stmt", All("Stmts")),
              Child("Stmt"))),
     Expression |-> Whole(Child("Expr") \o Slot("Expr") \o Semi),
     Finally |-> Whole(Tok("finally") \o Slot("Finally") \o Block),
     For |->
       Whole(Tok("for") \o Slot("For")
         \o Parens(Sep(",", "Init") \o Slot("InitExpr") \o Tok(";")
              \o Sep(",", "Cond") \o Slot("CondExpr") \o Tok(";")
              \o Sep(",", "Loop") \o Slot("IncExpr"))
         \o AltBody("endfor"))]

LoopPrograms2 ==
    [Foreach |->
       Whole(Tok("foreach") \o Slot("Foreach")
         \o Parens(Child("Expr") \o Slot("Expr") \o Tok("as")
              \o Opt("Key", Child("Key") \o Slot("Key") \o Tok("=>"))
              \o Child("Variable") \o Slot("Var"))
         \o AltBody("endforeach")),
     Function |->
       Whole(Tok("function") \o Slot("Function") \o Opt("ReturnsRef", Tok("&"))
         \o Child("FunctionName") \o Slot("Name")
         \o Parens(Sep(",", "Params") \o Slot("ParamList")) \o Slot("Params")
         \o Opt("ReturnType", Tok(":") \o Child("ReturnType"))
         \o Slot("ReturnType") \o Block),
     Global |-> Whole(Tok("global") \o Sep(",", "Vars") \o Slot("VarList") \o Semi)]

UsePrograms1 ==
    [Goto |-> Whole(Tok("goto") \o Child("Label") \o Slot("Label") \o Semi),
     GroupUse |->
       Whole(Tok("use") \o Slot("Use") \o Child("UseType") \o Child("Prefix")
         \o Tok("\\") \o Slot("Slash") \o Tok("{") \o Sep(",", "UseList")
         \o Slot("Stmts") \o Tok("}") \o Slot("UseDeclarationList") \o Semi),
     HaltCompiler |->
       Whole(Tok("__halt_compiler") \o Slot("HaltCompiller") \o Tok("(")
         \o Slot("OpenParenthesisToken") \o Tok(")")
         \o Slot("CloseParenthesisToken") \o Semi),
     If |->
       Whole(Call("if", "If", Child("Cond"), "Expr")
         \o Bodies("AltSyntax", "endif", All("ElseIf") \o Child("Else"))),
     InlineHtml |->
       Whole(WhenMode("php", WhenEmpty("?>"), <<>>) \o Mode("html")
         \o Value("Value"))]

InterfacePrograms ==
    [Interface |->
       Whole(Tok("interface") \o Child("InterfaceName")
         \o Opt("Extends", Inside("Extends",
              Slot("Start") \o Tok("extends") \o Sep(",", "InterfaceNames")))
         \o Slot("Name") \o Block),
     Label |-> Whole(Child("LabelName") \o Slot("Label") \o Tok(":")),
     Namespace |->
       Whole(Tok("namespace") \o Child("NamespaceName")
         \o When("Stmts", Slot("Namespace") \o Block, Semi)),
     Nop |-> Whole(Semi),
     PropertyList |->
       Whole(All("Modifiers") \o Sep(",", "Properties") \o Slot("PropertyList")
         \o Semi),
     Property |->
       Whole(Child("Variable")
         \o Opt("Expr", Slot("Var") \o Tok("=") \o Child("Expr")))]

SwitchPrograms ==
    [Return |-> Whole(Tok("return") \o Child("Expr") \o Slot("Expr") \o Semi),
     StaticVar |->
       Whole(Child("Variable")
         \o Opt("Expr", Slot("Var") \o Tok("=") \o Child("Expr"))),
     Static |-> Whole(Tok("static") \o Sep(",", "Vars") \o Slot("VarList") \o Semi),
     StmtList |-> Whole(Block),
     Switch |->
       LET cases == Slot("CaseListStart") \o All("Cases") \o Slot("CaseListEnd")
       IN  Whole(Call("switch", "Switch", Child("Cond"), "Expr")
             \o When("AltSyntax",
                  Slot("Cond") \o Tok(":")
                  \o Inside("CaseList", Slot("Start") \o cases \o Slot("End"))
                  \o Tok("endswitch") \o Slot("AltEnd") \o Semi,
                  Inside("CaseList", Slot("Start") \o Tok("{") \o cases \o Tok("}")
                                     \o Slot("End"))))]

TraitPrograms ==
    [Throw |-> Whole(Tok("throw") \o Child("Expr") \o Slot("Expr") \o Semi),
     TraitAdaptationList |->
       Whole(Tok("{") \o All("Adaptations") \o Slot("AdaptationList") \o Tok("}")),
     TraitMethodRef |->
       Whole(Opt("Trait", Child("Trait") \o Slot("Name") \o Tok("::"))
         \o Child("Method")),
     TraitUseAlias |->
       Whole(Child("Ref") \o Slot("Ref") \o Tok("as") \o Child("Modifier")
         \o Child("Alias") \o Slot("Alias") \o Semi),
     TraitUsePrecedence |->
       Whole(Child("Ref") \o Slot("Ref") \o Tok("insteadof")
         \o Sep(",", "Insteadof") \o Slot("NameList") \o Semi),
     TraitUse |->
       Whole(Tok("use") \o Sep(",", "Traits") \o Child("TraitAdaptationList")),
     Trait |-> Whole(Tok("trait") \o Child("TraitName") \o Slot("Name") \o Block)]

UsePrograms2 ==
    [Try |->
       Whole(Tok("try") \o Slot("Try") \o Block \o All("Catches")
         \o Child("Finally")),
     Unset |->
       Whole(Call("unset", "Unset", Sep(",", "Vars"), "VarList")
         \o Slot("CloseParenthesisToken") \o Semi),
     UseList |->
       Whole(Tok("use") \o Child("UseType") \o Sep(",", "Uses")
         \o Slot("UseDeclarationList") \o Semi),
     Use |->
       Whole(Child("UseType") \o Slot("Slash") \o Child("Use")
         \o Opt("Alias", Tok("as") \o Child("Alias"))),
     While |->
       Whole(Call("while", "While", Child("Cond"), "Expr")
         \o AltBody("endwhile"))]

Programs ==
    BasicPrograms @@ NamePrograms @@ ScalarPrograms
    @@ AssignPrograms1 @@ AssignPrograms2
    @@ BinaryPrograms1 @@ BinaryPrograms2 @@ BinaryPrograms3 @@ CastPrograms
    @@ DimPrograms @@ ClosurePrograms @@ CallPrograms @@ FetchPrograms
    @@ TernaryPrograms @@ MethodPrograms @@ ClassPrograms @@ LoopPrograms1
    @@ ElsePrograms @@ LoopPrograms2 @@ UsePrograms1 @@ InterfacePrograms
    @@ SwitchPrograms @@ TraitPrograms @@ UsePrograms2
=============================================================================
