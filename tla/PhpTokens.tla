------------------------------ MODULE PhpTokens ------------------------------
(* The tokens of scanner.go: what each terminal of the grammar looks like, *)
(* and how reading it moves the scanner between its start conditions,      *)
(* which it keeps on a stack. A text is a sequence of atoms <<text, n>>,   *)
(* where n = 0 for fixed text and the number of the token otherwise.       *)
EXTENDS Naturals, SequencesExt

Keywords1 ==
  [T_ABSTRACT |-> "abstract", T_ARRAY |-> "array", T_AS |-> "as", T_BREAK
   |-> "break", T_CALLABLE |-> "callable", T_CASE |-> "case", T_CATCH |->
   "catch", T_CLASS |-> "class", T_CLONE |-> "clone", T_CONST |-> "const",
   T_CONTINUE |-> "continue", T_DECLARE |-> "declare", T_DEFAULT |->
   "default", T_DO |-> "do", T_ECHO |-> "echo", T_ELSE |-> "else", T_ELSEIF
   |-> "elseif", T_EMPTY |-> "empty", T_ENDDECLARE |-> "enddeclare",
   T_ENDFOR |-> "endfor", T_ENDFOREACH |-> "endforeach", T_ENDIF |->
   "endif", T_ENDSWITCH |-> "endswitch", T_ENDWHILE |-> "endwhile", T_EVAL
   |-> "eval"]

Keywords2 ==
  [T_EXTENDS |-> "extends", T_FINAL |-> "final", T_FINALLY |-> "finally",
   T_FOR |-> "for", T_FOREACH |-> "foreach", T_FUNCTION |-> "function",
   T_GLOBAL |-> "global", T_GOTO |-> "goto", T_IF |-> "if", T_ISSET |->
   "isset", T_IMPLEMENTS |-> "implements", T_INSTANCEOF |-> "instanceof",
   T_INSTEADOF |-> "insteadof", T_INTERFACE |-> "interface", T_LIST |->
   "list", T_NAMESPACE |-> "namespace", T_PRIVATE |-> "private", T_PUBLIC
   |-> "public", T_PRINT |-> "print", T_PROTECTED |-> "protected", T_RETURN
   |-> "return", T_STATIC |-> "static", T_SWITCH |-> "switch"]

Keywords3 ==
  [T_THROW |-> "throw", T_TRAIT |-> "trait", T_TRY |-> "try", T_UNSET |->
   "unset", T_USE |-> "use", T_VAR |-> "var", T_WHILE |-> "while",
   T_YIELD_FROM |-> "yield from", T_YIELD |-> "yield", T_INCLUDE |->
   "include", T_INCLUDE_ONCE |-> "include_once", T_REQUIRE |-> "require",
   T_REQUIRE_ONCE |-> "require_once", T_CLASS_C |-> "__CLASS__", T_DIR |->
   "__DIR__", T_FILE |-> "__FILE__", T_FUNC_C |-> "__FUNCTION__", T_LINE |->
   "__LINE__", T_NS_C |-> "__NAMESPACE__", T_METHOD_C |-> "__METHOD__",
   T_TRAIT_C |-> "__TRAIT__", T_HALT_COMPILER |-> "__halt_compiler"]

CastTexts ==
  [T_ARRAY_CAST |-> "(array)", T_BOOL_CAST |-> "(bool)", T_DOUBLE_CAST |->
   "(real)", T_INT_CAST |-> "(int)", T_OBJECT_CAST |-> "(object)",
   T_STRING_CAST |-> "(string)", T_UNSET_CAST |-> "(unset)"]

Operators1 ==
  [T_NEW |-> "new", T_LOGICAL_AND |-> "and", T_LOGICAL_OR |-> "or",
   T_LOGICAL_XOR |-> "xor", T_NS_SEPARATOR |-> "\\", T_ELLIPSIS |-> "...",
   T_PAAMAYIM_NEKUDOTAYIM |-> "::", T_BOOLEAN_AND |-> "&&", T_BOOLEAN_OR |->
   "||", T_AND_EQUAL |-> "&=", T_OR_EQUAL |-> "|=", T_CONCAT_EQUAL |-> ".=",
   T_MUL_EQUAL |-> "*=", T_POW_EQUAL |-> "**=", T_DIV_EQUAL |-> "/=",
   T_PLUS_EQUAL |-> "+=", T_MINUS_EQUAL |-> "-=", T_XOR_EQUAL |-> "^="]

Operators2 ==
  [T_MOD_EQUAL |-> "%=", T_DEC |-> "--", T_INC |-> "++", T_DOUBLE_ARROW |->
   "=>", T_SPACESHIP |-> "<=>", T_IS_NOT_EQUAL |-> "!=", T_IS_NOT_IDENTICAL
   |-> "!==", T_IS_EQUAL |-> "==", T_IS_IDENTICAL |-> "===", T_SL_EQUAL |->
   "<<=", T_SR_EQUAL |-> ">>=", T_IS_GREATER_OR_EQUAL |-> ">=",
   T_IS_SMALLER_OR_EQUAL |-> "<=", T_POW |-> "**", T_SL |-> "<<", T_SR |->
   ">>", T_COALESCE |-> "??"]

OneCharacter ==
  {";", ":", ",", ".", "[", "]", "(", ")", "|", "/", "^", "&", "+", "-", "*",
   "=", "%", "!", "~", "$", "<", ">", "?", "@", "{", "}", "\"", "backtick"}

FixedTexts ==
  Keywords1 @@ Keywords2 @@ Keywords3 @@ CastTexts @@ Operators1 @@ Operators2
  @@ [t \in OneCharacter |-> t] @@ [T_OBJECT_OPERATOR |-> "->",
                                   T_CURLY_OPEN |-> "{",
                                   T_DOLLAR_OPEN_CURLY_BRACES |-> "${"]

-----------------------------------------------------------------------------
(* The forms of a terminal, the usual one first: its text and the part of  *)
(* it that the grammar takes as a name or value.                           *)

Named(text, name) == [text |-> text, name |-> name]
Form(text) == Named(text, text)
Word(text) == Form(<<<<text, 0>>>>)

StatementEnds == <<Word(";"), Word("?>"), Form(<<<<";", 0>>, <<"?>", 0>>>>)>>
Variable(n) ==
  <<Named(<<<<"$", 0>>, <<"T_VARIABLE", n>>>>, <<<<"T_VARIABLE", n>>>>)>>
StartHeredoc(n) ==
  <<Named(<<<<"<<<", 0>>, <<"label", 0>>>>, <<<<"label", 0>>>>),
    Named(<<<<"<<<", 0>>, <<"'", 0>>, <<"label", 0>>, <<"'", 0>>>>,
          <<<<"'", 0>>, <<"label", 0>>, <<"'", 0>>>>)>>
EndHeredoc == <<Word("label")>>
NumberInString(n) == <<Form(<<<<"T_NUM_STRING", n>>>>), Form(<<<<"0xnum", n>>>>)>>

Forms(t, n) ==
  CASE t = ";" -> StatementEnds
    [] t = "T_VARIABLE" -> Variable(n)
    [] t = "T_START_HEREDOC" -> StartHeredoc(n)
    [] t = "T_END_HEREDOC" -> EndHeredoc
    [] t = "T_NUM_STRING" -> NumberInString(n)
    [] t = "T_ECHO" -> <<Word("echo"), Word("<?=")>>
    [] t = "T_EXIT" -> <<Word("exit"), Word("die")>>
    [] t = "T_IS_NOT_EQUAL" -> <<Word("!="), Word("<>")>>
    [] t = "$end" -> <<Form(<<>>)>>
    [] t \in DOMAIN FixedTexts \ {";", "T_ECHO", "T_IS_NOT_EQUAL"}
         -> <<Word(FixedTexts[t])>>
    [] OTHER -> <<Form(<<<<t, n>>>>)>>

-----------------------------------------------------------------------------
(* The stack of start conditions. *)

Begin(modes, m) == [modes EXCEPT ![Len(modes)] = m]
pushState(modes, m) == Append(modes, m)
popState(modes) == IF Len(modes) <= 1 THEN modes ELSE Front(modes)

InText == {"STRING", "HEREDOC", "BACKQUOTE"}
OnlyInText ==
  {"T_ENCAPSED_AND_WHITESPACE", "T_CURLY_OPEN", "T_DOLLAR_OPEN_CURLY_BRACES"}
NotInPhp ==
  OnlyInText \cup {"T_END_HEREDOC", "T_INLINE_HTML", "T_NUM_STRING",
                   "T_STRING_VARNAME"}

\* One rule that gives no token, when the next one is t: the condition that
\* was begun for it is left, or the one that t needs is begun.
Skip(modes, t) ==
  LET m == Last(modes)
  IN  CASE m = "INITIAL" /\ t \notin {"T_INLINE_HTML", "$end"}
             -> Begin(modes, "PHP")
        [] m = "PROPERTY" /\ t \notin {"T_OBJECT_OPERATOR", "T_STRING"}
             -> Begin(modes, "PHP")
        [] m \in InText /\ t = "T_VARIABLE" -> pushState(modes, "STRING_VAR")
        [] m = "STRING_VAR"
             /\ t \notin {"T_VARIABLE", "T_OBJECT_OPERATOR", "T_STRING", "["}
             -> popState(modes)
        [] m = "STRING_VAR_NAME" /\ t # "T_STRING_VARNAME"
             -> pushState(popState(modes), "PHP")
        [] m \in {"HEREDOC", "NOWDOC"} /\ t = "T_END_HEREDOC"
             -> Begin(modes, "HEREDOC_END")
        [] OTHER -> modes

\* The conditions in which t can be read, and those after reading it.
Reads(modes, t) ==
  CASE Last(modes) = "INITIAL" -> t \in {"T_INLINE_HTML", "$end"}
    [] Last(modes) = "PHP" -> t \notin NotInPhp
    [] Last(modes) = "PROPERTY" -> t \in {"T_OBJECT_OPERATOR", "T_STRING"}
    [] Last(modes) = "STRING" -> t \in OnlyInText \cup {"\""}
    [] Last(modes) = "BACKQUOTE" -> t \in OnlyInText \cup {"backtick"}
    [] Last(modes) = "HEREDOC" -> t \in OnlyInText
    [] Last(modes) = "NOWDOC" -> t = "T_ENCAPSED_AND_WHITESPACE"
    [] Last(modes) = "HEREDOC_END" -> t = "T_END_HEREDOC"
    [] Last(modes) = "STRING_VAR"
         -> t \in {"T_VARIABLE", "T_OBJECT_OPERATOR", "T_STRING", "["}
    [] Last(modes) = "STRING_VAR_INDEX"
         -> t \in {"T_NUM_STRING", "T_VARIABLE", "T_STRING", "-", "]"}
    [] Last(modes) = "STRING_VAR_NAME" -> t = "T_STRING_VARNAME"
    [] Last(modes) = "HALT_COMPILER" -> t = "$end"

\* Mutant of AfterPhp: a closing brace leaves the condition it ends.
AfterPhpBrace(modes, t, form) ==
  CASE t \in {"{", "\""} -> pushState(modes, IF t = "{" THEN "PHP" ELSE "STRING")
    [] t = "T_OBJECT_OPERATOR" -> Begin(modes, "PROPERTY")
    [] t = "backtick" -> Begin(modes, "BACKQUOTE")
    [] t = "T_START_HEREDOC" -> Begin(modes, "HEREDOC")
    [] t = ";" /\ Last(form.text)[1] = "?>" -> Begin(modes, "INITIAL")
    [] OTHER -> modes
AfterPhp(modes, t, form) ==
  CASE t = "{" -> pushState(modes, "PHP")
    [] t = "}" -> popState(modes)
    [] t = "T_OBJECT_OPERATOR" -> Begin(modes, "PROPERTY")
    [] t = "backtick" -> Begin(modes, "BACKQUOTE")
    [] t = "\"" -> pushState(modes, "STRING")
    [] t = "T_START_HEREDOC"
         -> Begin(modes, IF form.name[1][1] = "label" THEN "HEREDOC"
                         ELSE "NOWDOC")
    [] t = ";" /\ Last(form.text)[1] = "?>" -> Begin(modes, "INITIAL")
    [] OTHER -> modes

AfterText(modes, t) ==
  CASE t = "\"" -> popState(modes)
    [] t = "backtick" -> Begin(modes, "PHP")
    [] t = "T_CURLY_OPEN" -> pushState(modes, "PHP")
    [] t = "T_DOLLAR_OPEN_CURLY_BRACES" -> pushState(modes, "STRING_VAR_NAME")
    [] OTHER -> modes

AfterVariable(modes, t) ==
  CASE Last(modes) = "STRING_VAR" /\ t = "["
         -> pushState(modes, "STRING_VAR_INDEX")
    [] Last(modes) = "STRING_VAR" /\ t = "T_STRING" -> popState(modes)
    [] Last(modes) = "STRING_VAR_INDEX" /\ t = "]"
         -> popState(popState(modes))
    [] Last(modes) = "STRING_VAR_NAME" -> pushState(popState(modes), "PHP")
    [] OTHER -> modes

After(modes, t, form) ==
  CASE Last(modes) = "PHP" -> AfterPhp(modes, t, form)
    [] Last(modes) = "PROPERTY"
         -> IF t = "T_STRING" THEN Begin(modes, "PHP") ELSE modes
    [] Last(modes) \in InText -> AfterText(modes, t)
    [] Last(modes) = "HEREDOC_END" -> Begin(modes, "PHP")
    [] Last(modes) \in {"STRING_VAR", "STRING_VAR_INDEX", "STRING_VAR_NAME"}
         -> AfterVariable(modes, t)
    [] OTHER -> modes

-----------------------------------------------------------------------------
(* Two tokens that would be read as one, were nothing written between them.*)

Digits == {"T_LNUMBER", "T_DNUMBER"}
Words ==
  DOMAIN Keywords1 \cup DOMAIN Keywords2 \cup DOMAIN Keywords3
  \cup {"T_NEW", "T_LOGICAL_AND", "T_LOGICAL_OR", "T_LOGICAL_XOR", "T_EXIT",
        "T_STRING"} \cup Digits
Signs ==
  (DOMAIN Operators1 \cup DOMAIN Operators2 \cup Digits
   \cup {"T_OBJECT_OPERATOR", ".", "|", "/", "^", "&", "+", "-", "*", "=",
         "%", "!", "<", ">", "?", ":"}) \ Words
WouldMerge(before, t, form) ==
  \/ before \in Words \cup {"T_VARIABLE"} /\ t \in Words
  \/ before \in Signs \cup Digits /\ t \in Signs \cup Digits
  \/ before = "T_END_HEREDOC" /\ t # ";"
  \/ before = ";" /\ form = Word("?>")
=============================================================================
