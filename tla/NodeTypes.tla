------------------------------ MODULE NodeTypes ------------------------------
(* The types of the syntax tree (php/parser/node): for each kind of node   *)
(* the fields that Walk visits, in its order, and the other fields.        *)
EXTENDS Sequences, TLC

Type(walk, data) == [walk |-> walk, data |-> data]
Operands == <<"Left", "Right">>
AssignmentParts == <<"Variable", "Expression">>

ArgumentNode == Type(<<"Expr">>, {"Variadic", "IsReference"})
ArgumentListNode == Type(<<"Arguments">>, {})
IdentifierNode == Type(<<>>, {"Value"})
NullableNode == Type(<<"Expr">>, {})
ParameterNode ==
    Type(<<"VariableType", "Variable", "DefaultValue">>, {"ByRef",
         "Variadic"})
RootNode == Type(<<"Stmts">>, {})
SimpleVarNode == Type(<<>>, {"Name"})
VarNode == Type(<<"Expr">>, {})

NodesTypes ==
  [Argument |-> ArgumentNode, ArgumentList |-> ArgumentListNode, Identifier
   |-> IdentifierNode, Nullable |-> NullableNode, Parameter |->
   ParameterNode, Root |-> RootNode, SimpleVar |-> SimpleVarNode, Var |->
   VarNode]

-----------------------------------------------------------------------------
FullyQualifiedNode == Type(<<"Parts">>, {})
NameNode == Type(<<"Parts">>, {})
NamePartNode == Type(<<>>, {"Value"})
RelativeNode == Type(<<"Parts">>, {})

NamesTypes ==
  [FullyQualified |-> FullyQualifiedNode, Name |-> NameNode, NamePart |->
   NamePartNode, Relative |-> RelativeNode]

-----------------------------------------------------------------------------
DnumberNode == Type(<<>>, {"Value"})
EncapsedNode == Type(<<"Parts">>, {})
EncapsedStringPartNode == Type(<<>>, {"Value"})
HeredocNode == Type(<<"Parts">>, {"Label"})
LnumberNode == Type(<<>>, {"Value"})
MagicConstantNode == Type(<<>>, {"Value"})
StringNode == Type(<<>>, {"Value"})

ScalarsTypes ==
  [Dnumber |-> DnumberNode, Encapsed |-> EncapsedNode, EncapsedStringPart
   |-> EncapsedStringPartNode, Heredoc |-> HeredocNode, Lnumber |->
   LnumberNode, MagicConstant |-> MagicConstantNode, String |-> StringNode]

-----------------------------------------------------------------------------
ArrayNode == Type(<<"Items">>, {"ShortSyntax"})
ArrayDimFetchNode == Type(<<"Variable", "Dim">>, {})
ArrayItemNode == Type(<<"Key", "Val">>, {})
BitwiseNotNode == Type(<<"Expr">>, {})
BooleanNotNode == Type(<<"Expr">>, {})
ClassConstFetchNode == Type(<<"Class", "ConstantName">>, {})
CloneNode == Type(<<"Expr">>, {})
ClosureNode ==
    Type(<<"Params", "ClosureUse", "ReturnType", "Stmts">>, {"ReturnsRef",
         "Static", "PhpDocComment"})
ClosureUseNode == Type(<<"Uses">>, {})
ConstFetchNode == Type(<<"Constant">>, {})
EmptyNode == Type(<<"Expr">>, {})
ErrorSuppressNode == Type(<<"Expr">>, {})
EvalNode == Type(<<"Expr">>, {})
ExitNode == Type(<<"Expr">>, {"Die"})
FunctionCallNode == Type(<<"Function", "ArgumentList">>, {})
IncludeNode == Type(<<"Expr">>, {})
IncludeOnceNode == Type(<<"Expr">>, {})
InstanceOfNode == Type(<<"Expr", "Class">>, {})
IssetNode == Type(<<"Variables">>, {})
ListNode == Type(<<"Items">>, {"ShortSyntax"})
MethodCallNode == Type(<<"Variable", "Method", "ArgumentList">>, {})
NewNode == Type(<<"Class", "ArgumentList">>, {})
PostDecNode == Type(<<"Variable">>, {})
PostIncNode == Type(<<"Variable">>, {})
PreDecNode == Type(<<"Variable">>, {})
PreIncNode == Type(<<"Variable">>, {})
PrintNode == Type(<<"Expr">>, {})
PropertyFetchNode == Type(<<"Variable", "Property">>, {})
ReferenceNode == Type(<<"Variable">>, {})
RequireNode == Type(<<"Expr">>, {})
RequireOnceNode == Type(<<"Expr">>, {})
ShellExecNode == Type(<<"Parts">>, {})
StaticCallNode == Type(<<"Class", "Call", "ArgumentList">>, {})
StaticPropertyFetchNode == Type(<<"Class", "Property">>, {})
TernaryNode == Type(<<"Condition", "IfTrue", "IfFalse">>, {})
UnaryMinusNode == Type(<<"Expr">>, {})
UnaryPlusNode == Type(<<"Expr">>, {})
YieldNode == Type(<<"Key", "Value">>, {})
YieldFromNode == Type(<<"Expr">>, {})

ExpressionsTypes ==
  [Array |-> ArrayNode, ArrayDimFetch |-> ArrayDimFetchNode, ArrayItem |->
   ArrayItemNode, BitwiseNot |-> BitwiseNotNode, BooleanNot |->
   BooleanNotNode, ClassConstFetch |-> ClassConstFetchNode, Clone |->
   CloneNode, Closure |-> ClosureNode, ClosureUse |-> ClosureUseNode,
   ConstFetch |-> ConstFetchNode, Empty |-> EmptyNode, ErrorSuppress |->
   ErrorSuppressNode, Eval |-> EvalNode, Exit |-> ExitNode, FunctionCall
   |-> FunctionCallNode, Include |-> IncludeNode, IncludeOnce |->
   IncludeOnceNode, InstanceOf |-> InstanceOfNode, Isset |-> IssetNode,
   List |-> ListNode, MethodCall |-> MethodCallNode, New |-> NewNode,
   PostDec |-> PostDecNode, PostInc |-> PostIncNode, PreDec |-> PreDecNode,
   PreInc |-> PreIncNode, PropertyFetch |->
   PropertyFetchNode, Reference |-> ReferenceNode, Require |-> RequireNode,
   RequireOnce |-> RequireOnceNode, ShellExec |-> ShellExecNode, StaticCall
   |-> StaticCallNode, StaticPropertyFetch |-> StaticPropertyFetchNode,
   Ternary |-> TernaryNode, UnaryMinus |-> UnaryMinusNode, UnaryPlus |->
   UnaryPlusNode, Yield |-> YieldNode, YieldFrom |-> YieldFromNode]
  @@ ("Print" :> PrintNode)

-----------------------------------------------------------------------------
AssignNode == Type(AssignmentParts, {})
AssignReferenceNode == Type(AssignmentParts, {})
AssignBitwiseAndNode == Type(AssignmentParts, {})
AssignBitwiseOrNode == Type(AssignmentParts, {})
AssignBitwiseXorNode == Type(AssignmentParts, {})
AssignConcatNode == Type(AssignmentParts, {})
AssignDivNode == Type(AssignmentParts, {})
AssignMinusNode == Type(AssignmentParts, {})
AssignModNode == Type(AssignmentParts, {})
AssignMulNode == Type(AssignmentParts, {})
AssignPlusNode == Type(AssignmentParts, {})
AssignPowNode == Type(AssignmentParts, {})
AssignShiftLeftNode == Type(AssignmentParts, {})
AssignShiftRightNode == Type(AssignmentParts, {})

AssignmentsTypes ==
  [Assign |-> AssignNode, AssignReference |-> AssignReferenceNode,
   AssignBitwiseAnd |-> AssignBitwiseAndNode, AssignBitwiseOr |->
   AssignBitwiseOrNode, AssignBitwiseXor |-> AssignBitwiseXorNode,
   AssignConcat |-> AssignConcatNode, AssignDiv |-> AssignDivNode,
   AssignMinus |-> AssignMinusNode, AssignMod |-> AssignModNode, AssignMul
   |-> AssignMulNode, AssignPlus |-> AssignPlusNode, AssignPow |->
   AssignPowNode, AssignShiftLeft |-> AssignShiftLeftNode, AssignShiftRight
   |-> AssignShiftRightNode]

-----------------------------------------------------------------------------
BitwiseAndNode == Type(Operands, {})
BitwiseOrNode == Type(Operands, {})
BitwiseXorNode == Type(Operands, {})
BooleanAndNode == Type(Operands, {})
BooleanOrNode == Type(Operands, {})
CoalesceNode == Type(Operands, {})
ConcatNode == Type(Operands, {})
DivNode == Type(Operands, {})
EqualNode == Type(Operands, {})
GreaterNode == Type(Operands, {})
GreaterOrEqualNode == Type(Operands, {})
IdenticalNode == Type(Operands, {})
LogicalAndNode == Type(Operands, {})
LogicalOrNode == Type(Operands, {})
LogicalXorNode == Type(Operands, {})
MinusNode == Type(Operands, {})
ModNode == Type(Operands, {})
MulNode == Type(Operands, {})
NotEqualNode == Type(Operands, {})
NotIdenticalNode == Type(Operands, {})
PlusNode == Type(Operands, {})
PowNode == Type(Operands, {})
ShiftLeftNode == Type(Operands, {})
ShiftRightNode == Type(Operands, {})
SmallerNode == Type(Operands, {})
SmallerOrEqualNode == Type(Operands, {})
SpaceshipNode == Type(Operands, {})

BinariesTypes ==
  [BitwiseAnd |-> BitwiseAndNode, BitwiseOr |-> BitwiseOrNode, BitwiseXor
   |-> BitwiseXorNode, BooleanAnd |-> BooleanAndNode, BooleanOr |->
   BooleanOrNode, Coalesce |-> CoalesceNode, Concat |-> ConcatNode, Div |->
   DivNode, Equal |-> EqualNode, Greater |-> GreaterNode, GreaterOrEqual
   |-> GreaterOrEqualNode, Identical |-> IdenticalNode, LogicalAnd |->
   LogicalAndNode, LogicalOr |-> LogicalOrNode, LogicalXor |->
   LogicalXorNode, Minus |-> MinusNode, Mod |-> ModNode, Mul |-> MulNode,
   NotEqual |-> NotEqualNode, NotIdentical |-> NotIdenticalNode, Plus |->
   PlusNode, Pow |-> PowNode, ShiftLeft |-> ShiftLeftNode, ShiftRight |->
   ShiftRightNode, Smaller |-> SmallerNode, SmallerOrEqual |->
   SmallerOrEqualNode, Spaceship |-> SpaceshipNode]

-----------------------------------------------------------------------------
CastArrayNode == Type(<<"Expr">>, {})
CastBoolNode == Type(<<"Expr">>, {})
CastDoubleNode == Type(<<"Expr">>, {})
CastIntNode == Type(<<"Expr">>, {})
CastObjectNode == Type(<<"Expr">>, {})
CastStringNode == Type(<<"Expr">>, {})
CastUnsetNode == Type(<<"Expr">>, {})

CastsTypes ==
  [CastArray |-> CastArrayNode, CastBool |-> CastBoolNode, CastDouble |->
   CastDoubleNode, CastInt |-> CastIntNode, CastObject |-> CastObjectNode,
   CastString |-> CastStringNode, CastUnset |-> CastUnsetNode]

-----------------------------------------------------------------------------
BreakNode == Type(<<"Expr">>, {})
CaseNode == Type(<<"Cond", "Stmts">>, {})
CaseListNode == Type(<<"Cases">>, {})
CatchNode == Type(<<"Types", "Variable", "Stmts">>, {})
ClassNode ==
    Type(<<"ClassName", "Modifiers", "ArgumentList", "Extends",
         "Implements", "Stmts">>, {"PhpDocComment"})
ClassConstListNode == Type(<<"Modifiers", "Consts">>, {})
ClassExtendsNode == Type(<<"ClassName">>, {})
ClassImplementsNode == Type(<<"InterfaceNames">>, {})
ClassMethodNode ==
    Type(<<"MethodName", "Modifiers", "Params", "ReturnType", "Stmt">>,
         {"ReturnsRef", "PhpDocComment"})
ConstListNode == Type(<<"Consts">>, {})
ConstantNode == Type(<<"ConstantName", "Expr">>, {"PhpDocComment"})
ContinueNode == Type(<<"Expr">>, {})
DeclareNode == Type(<<"Consts", "Stmt">>, {"Alt"})
DefaultNode == Type(<<"Stmts">>, {})
DoNode == Type(<<"Stmt", "Cond">>, {})
EchoNode == Type(<<"Exprs">>, {})
ElseNode == Type(<<"Stmt">>, {"AltSyntax"})
ElseIfNode == Type(<<"Cond", "Stmt">>, {"AltSyntax"})
ExpressionNode == Type(<<"Expr">>, {})
FinallyNode == Type(<<"Stmts">>, {})
ForNode == Type(<<"Init", "Cond", "Loop", "Stmt">>, {"AltSyntax"})
\* Mutant of ForeachNode: Walk does not visit the key.
ForeachWithoutKey == Type(<<"Expr", "Variable", "Stmt">>, {"AltSyntax"})
ForeachNode == Type(<<"Expr", "Key", "Variable", "Stmt">>, {"AltSyntax"})
FunctionNode ==
    Type(<<"FunctionName", "Params", "ReturnType", "Stmts">>,
         {"ReturnsRef", "PhpDocComment"})
GlobalNode == Type(<<"Vars">>, {})
GotoNode == Type(<<"Label">>, {})
GroupUseNode == Type(<<"UseType", "Prefix", "UseList">>, {})
HaltCompilerNode == Type(<<>>, {})
IfNode == Type(<<"Cond", "Stmt", "ElseIf", "Else">>, {"AltSyntax"})
InlineHtmlNode == Type(<<>>, {"Value"})
InterfaceNode ==
    Type(<<"InterfaceName", "Extends", "Stmts">>, {"PhpDocComment"})
InterfaceExtendsNode == Type(<<"InterfaceNames">>, {})
LabelNode == Type(<<"LabelName">>, {})
NamespaceNode == Type(<<"NamespaceName", "Stmts">>, {})
NopNode == Type(<<>>, {})
PropertyNode == Type(<<"Variable", "Expr">>, {"PhpDocComment"})
PropertyListNode == Type(<<"Modifiers", "Properties">>, {})
ReturnNode == Type(<<"Expr">>, {})
StaticNode == Type(<<"Vars">>, {})
StaticVarNode == Type(<<"Variable", "Expr">>, {})
StmtListNode == Type(<<"Stmts">>, {})
SwitchNode == Type(<<"Cond", "CaseList">>, {"AltSyntax"})
ThrowNode == Type(<<"Expr">>, {})
TraitNode == Type(<<"TraitName", "Stmts">>, {"PhpDocComment"})
TraitAdaptationListNode == Type(<<"Adaptations">>, {})
TraitMethodRefNode == Type(<<"Trait", "Method">>, {})
TraitUseNode == Type(<<"Traits", "TraitAdaptationList">>, {})
TraitUseAliasNode == Type(<<"Ref", "Modifier", "Alias">>, {})
TraitUsePrecedenceNode == Type(<<"Ref", "Insteadof">>, {})
TryNode == Type(<<"Stmts", "Catches", "Finally">>, {})
UnsetNode == Type(<<"Vars">>, {})
UseNode == Type(<<"UseType", "Use", "Alias">>, {})
UseListNode == Type(<<"UseType", "Uses">>, {})
WhileNode == Type(<<"Cond", "Stmt">>, {"AltSyntax"})

StatementsTypes ==
  [Break |-> BreakNode, Case |-> CaseNode, CaseList |-> CaseListNode, Catch
   |-> CatchNode, Class |-> ClassNode, ClassConstList |->
   ClassConstListNode, ClassExtends |-> ClassExtendsNode, ClassImplements
   |-> ClassImplementsNode, ClassMethod |-> ClassMethodNode, ConstList |->
   ConstListNode, Constant |-> ConstantNode, Continue |-> ContinueNode,
   Declare |-> DeclareNode, Default |-> DefaultNode, Do |-> DoNode, Echo
   |-> EchoNode, Else |-> ElseNode, ElseIf |-> ElseIfNode, Expression |->
   ExpressionNode, Finally |-> FinallyNode, For |-> ForNode, Foreach |->
   ForeachNode, Function |-> FunctionNode, Global |-> GlobalNode, Goto |->
   GotoNode, GroupUse |-> GroupUseNode, HaltCompiler |-> HaltCompilerNode,
   If |-> IfNode, InlineHtml |-> InlineHtmlNode, Interface |->
   InterfaceNode, InterfaceExtends |-> InterfaceExtendsNode, Label |->
   LabelNode, Namespace |-> NamespaceNode, Nop |-> NopNode, Property |->
   PropertyNode, PropertyList |-> PropertyListNode, Return |-> ReturnNode,
   Static |-> StaticNode, StaticVar |-> StaticVarNode, StmtList |->
   StmtListNode, Switch |-> SwitchNode, Throw |-> ThrowNode, Trait |->
   TraitNode, TraitAdaptationList |-> TraitAdaptationListNode,
   TraitMethodRef |-> TraitMethodRefNode, TraitUse |-> TraitUseNode,
   TraitUseAlias |-> TraitUseAliasNode, TraitUsePrecedence |->
   TraitUsePrecedenceNode, Try |-> TryNode, Unset |-> UnsetNode, Use |->
   UseNode, UseList |-> UseListNode, While |-> WhileNode]

-----------------------------------------------------------------------------
NodeTypes ==
  NodesTypes @@ NamesTypes @@ ScalarsTypes @@ ExpressionsTypes
  @@ AssignmentsTypes @@ BinariesTypes @@ CastsTypes @@ StatementsTypes
=============================================================================
