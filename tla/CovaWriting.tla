----------------------------- MODULE CovaWriting -----------------------------
(***************************************************************************)
(* How a program is written down: the tokens of a syntax tree, with        *)
(* parentheses and braces only where the reader needs them.                *)
(***************************************************************************)
EXTENDS CovaGrammar

\* docs/LANGUAGE.md: "From lowest to highest".
Precedence ==
  << {"||"}, {"&&"}, {"|"}, {"^"}, {"&"}, {"==", "!="}, {"<", "<=", ">", ">="},
     {"<<", ">>"}, {"+", "-"}, {"*", "/", "%"} >>
Strength(op) == CHOOSE k \in DOMAIN Precedence : op \in Precedence[k]

Words(kinds) == [k \in DOMAIN kinds |-> Word(kinds[k])] \o <<>>
Name(text) == <<Token("ident", text, 0)>>
Enclosed(open, tokens, close) == <<Word(open)>> \o tokens \o <<Word(close)>>
ParenthesesIf(condition, tokens) == IF condition THEN Enclosed("(", tokens, ")") ELSE tokens

RECURSIVE WrittenNode(_)
Written(node) == WrittenNode(node)
WrittenList(nodes) == FoldLeft(LAMBDA text, node : text \o Written(node), <<>>, nodes)
\* The items of a list with commas between them.
WithCommas(text) == IF text = <<>> THEN <<>> ELSE Tail(text)
WrittenArguments(nodes) ==
  WithCommas(FoldLeft(LAMBDA text, node : text \o <<Word(",")>> \o Written(node), <<>>, nodes))

Keyword(kind) == CHOOSE name \in DOMAIN tokenTypes \ {"int", "float"} : tokenTypes[name] = kind
\* Types of one pointer at most.
WrittenType(type) ==
  CASE type.kind # "Pointer" ->
         Words((IF type.const THEN <<"const">> ELSE <<>>) \o <<Keyword(type.kind)>>)
    [] type.kind = "Pointer" ->
         Words((IF type.base = "const Uint8" THEN <<"const", "uint8">> ELSE <<Keyword(type.base)>>)
                 \o (IF type.const THEN <<"*", "const">> ELSE <<"*">>))

WrittenNumber(e) ==
  CASE e.kind = "Bool" -> Words(IF e.value = 1 THEN <<"true">> ELSE <<"false">>)
    [] e.kind = "Int32" -> <<Token("integer", "", e.value)>>
    [] OTHER -> <<Token(e.kind, "", e.value)>>
\* An operand keeps its place without parentheses only if it is stronger, on
\* the left as strong; under a unary operator a call needs them too.
WrittenBinary(e) ==
  LET weaker(operand, least) == operand.is = "binary" /\ Strength(operand.op) < least
  IN  ParenthesesIf(weaker(e.left, Strength(e.op)), Written(e.left)) \o Words(<<e.op>>)
        \o ParenthesesIf(weaker(e.right, Strength(e.op) + 1), Written(e.right))

\* An if statement is not written with an else that would be read as that of
\* the branch before: see TakesElse.
WrittenIf(s) ==
  Words(<<"if", "(">>) \o Written(s.condition) \o Words(<<")">>) \o Written(s.then)
    \o (IF s.else = Nothing THEN <<>> ELSE Words(<<"else">>) \o Written(s.else))
RECURSIVE TakesElse(_)
TakesElse(s) ==
  \/ s.is = "if" /\ (s.else = Nothing \/ TakesElse(s.else))
  \/ s.is \in {"while", "for"} /\ TakesElse(s.body)
WrittenCase(case) ==
  Words(<<"case">>) \o Written(case.value) \o Words(<<":">>) \o WrittenList(case.body)
WrittenSwitch(s) ==
  Words(<<"switch", "(">>) \o Written(s.value) \o Words(<<")", "{">>)
    \o FoldLeft(LAMBDA text, case : text \o WrittenCase(case), <<>>, s.cases)
    \o (IF s.default = <<>> THEN <<>> ELSE Words(<<"default", ":">>) \o WrittenList(s.default))
    \o Words(<<"}">>)
\* An assignment or an expression, as the clause of a for or with its end.
WrittenClause(s) ==
  CASE s.is = "nothing" -> <<>>
    [] s.is = "expr" -> Written(s.expr)
    [] s.is = "assign" -> Written(s.target) \o Words(<<s.op>>) \o Written(s.value)
WrittenFor(s) ==
  Words(<<"for", "(">>) \o WrittenClause(s.init) \o Words(<<";">>) \o Written(s.condition)
    \o Words(<<";">>) \o WrittenClause(s.post) \o Words(<<")">>) \o Written(s.body)

WrittenInitializer(e) == (IF e = Nothing THEN <<>> ELSE Words(<<"=">>) \o Written(e)) \o Words(<<";">>)
WrittenParameters(params) ==
  WithCommas(FoldLeft(LAMBDA text, param :
                        text \o <<Word(",")>> \o WrittenType(param.type) \o Name(param.name),
                      <<>>, params))

WrittenNode(node) ==
  CASE node.is = "nothing" -> <<>>
    [] node.is = "number" -> WrittenNumber(node)
    [] node.is = "string" -> <<Token("string", node.text, 0)>>
    [] node.is = "ident" -> Name(node.name)
    [] node.is = "unary" ->
         Words(<<node.op>>) \o ParenthesesIf(node.operand.is \in {"binary", "call"}, Written(node.operand))
    [] node.is = "binary" -> WrittenBinary(node)
    [] node.is = "call" -> Name(node.callee) \o Enclosed("(", WrittenArguments(node.args), ")")
    [] node.is = "block" -> Enclosed("{", WrittenList(node.statements), "}")
    [] node.is = "local" -> WrittenType(node.type) \o Name(node.name) \o WrittenInitializer(node.initializer)
    [] node.is = "if" -> WrittenIf(node)
    [] node.is = "while" ->
         Words(<<"while", "(">>) \o Written(node.condition) \o Words(<<")">>) \o Written(node.body)
    [] node.is = "for" -> WrittenFor(node)
    [] node.is = "switch" -> WrittenSwitch(node)
    [] node.is = "return" -> Words(<<"return">>) \o Written(node.value) \o Words(<<";">>)
    [] node.is \in {"break", "continue"} -> Words(<<node.is, ";">>)
    [] node.is \in {"assign", "expr"} -> WrittenClause(node) \o Words(<<";">>)

WrittenDecl(decl) ==
  (IF decl.scope = "Extern" THEN Words(<<"extern", "(">>) \o <<Token("integer", "", decl.index)>> \o Words(<<")">>)
   ELSE <<>>)
    \o WrittenType(decl.type) \o Name(decl.name)
    \o (IF decl.kind = "function" THEN Enclosed("(", WrittenParameters(decl.params), ")") ELSE <<>>)
    \o WrittenInitializer(decl.initializer)
WrittenFunction(f) ==
  WrittenType(f.returnType) \o Name(f.name) \o Enclosed("(", WrittenParameters(f.params), ")")
    \o Written(f.body)

WrittenProgram(program) ==
  FoldLeft(LAMBDA text, decl : text \o WrittenDecl(decl), <<>>, program.decls)
    \o FoldLeft(LAMBDA text, f : text \o WrittenFunction(f), <<>>, program.functions)
=============================================================================
