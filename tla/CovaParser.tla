------------------------------ MODULE CovaParser -----------------------------
(***************************************************************************)
(* The parser: cova/parse_core.go, parse_expr.go, parse_stmt.go and        *)
(* parse_top_level.go.  Each of its methods is an operator from the state  *)
(* p of the parser to the next.                                            *)
(***************************************************************************)
EXTENDS CovaAst, SequencesExt

(***************************************************************************)
(* A token.  Its kind is the spelling of a keyword, an operator or a       *)
(* delimiter, or one of the kinds below; `text` is that of an identifier   *)
(* or a string, `value` that of a number.                                  *)
(***************************************************************************)
Token(kind, text, value) == [kind |-> kind, text |-> text, value |-> value]
Word(kind) == Token(kind, "", 0)
EndOfFile == Word("EOF")

tokenTypes ==
  [void |-> "Void", bool |-> "Bool", byte |-> "Byte", int |-> "Int32",
   int8 |-> "Int8", int16 |-> "Int16", int32 |-> "Int32", int64 |-> "Int64",
   uint8 |-> "Uint8", uint16 |-> "Uint16", uint32 |-> "Uint32",
   uint64 |-> "Uint64", float |-> "Float32", float32 |-> "Float32",
   float64 |-> "Float64"]
unaryOps == {"!", "-", "~"}
assignmentOps == {"="} \cup DOMAIN compoundBinaryOperators
UnsupportedTokens == {"[", "]", ".", "->", "::", "?", "++", "--", "...", "#", "##"}

\* A binary operator is as strong as its level; its right operand is held
\* together by stronger operators only.
BindingLevels ==
  << <<10, {"||"}>>, <<20, {"&&"}>>, <<25, {"|"}>>, <<30, {"^"}>>, <<35, {"&"}>>,
     <<40, {"==", "!="}>>, <<50, {"<", ">", "<=", ">="}>>, <<60, {"<<", ">>"}>>,
     <<70, {"+", "-"}>>, <<80, {"*", "/", "%"}>> >>
binaryOps == UNION {BindingLevels[k][2] : k \in DOMAIN BindingLevels}
infixBindingPower ==
  [op \in binaryOps |->
     BindingLevels[CHOOSE k \in DOMAIN BindingLevels : op \in BindingLevels[k][2]][1]]
LeftPower(op) == infixBindingPower[op]
RightPower(op) == LeftPower(op) + 1
callBindingPower == 100

(***************************************************************************)
(* p: the tokens, the position `pos` in them, the `nodes` that the method  *)
(* at work has made, the number `types` of the type objects made, and the  *)
(* number `err` of the token at which parsing failed, 0 if it did not.     *)
(***************************************************************************)
newParserCore(tokens) ==
  [tokens |-> tokens, pos |-> 1, nodes |-> <<>>, types |-> 0, err |-> 0]

\* Mutant of Position: newline tokens are not passed over.
PositionWithNewlines(p) == p.pos
\* Newline tokens are passed over.
Position(p) ==
  LET rest == {k \in p.pos .. Len(p.tokens) : p.tokens[k].kind # "newline"}
  IN  IF rest = {} THEN Len(p.tokens) + 1 ELSE Min(rest)
peek(p) ==
  IF Position(p) > Len(p.tokens) THEN EndOfFile ELSE p.tokens[Position(p)]

errorAt(p, position) == IF p.err = 0 THEN [p EXCEPT !.err = position] ELSE p
errorf(p) == errorAt(p, Position(p))

\* One token is taken, one of this kind, one of this kind if there is one.
Advance(p) == [p EXCEPT !.pos = Position(p) + 1]
\* Mutant of expect: the token is taken before it is looked at.
expectTaken(p, kind) ==
  CASE p.err # 0 -> p
    [] p.err = 0 /\ peek(p).kind = kind -> Advance(p)
    [] OTHER -> errorf(Advance(p))
expect(p, kind) ==
  CASE p.err # 0 -> p
    [] p.err = 0 /\ peek(p).kind = kind -> Advance(p)
    [] OTHER -> errorf(p)
Matches(p, kind) == p.err = 0 /\ peek(p).kind = kind

\* What the method has made becomes one node; or a node is added to it.
Make(Node(_), p) == IF p.err = 0 THEN [p EXCEPT !.nodes = <<Node(p.nodes)>>] ELSE p
Made(p, node) == Make(LAMBDA made : node, p)
Added(p, node) == IF p.err = 0 THEN [p EXCEPT !.nodes = Append(@, node)] ELSE p

(***************************************************************************)
(* A method parses a list of items: tokens of a kind and Parts, which are  *)
(* what other methods parse and add a node.  All recursion goes through    *)
(* parseNext; power is the least binding power of an expression.           *)
(***************************************************************************)
Parts ==
  {"expression", "arguments", "type", "name", "index", "initializer", "parameter",
   "parameters", "block", "statement", "clauses", "for init", "for condition",
   "for post", "for clause", "return value", "clause body", "declaration"}

After(nodes, p) == [p EXCEPT !.nodes = nodes \o @]
RECURSIVE parseMethod(_, _, _)
parseNext(p, method, power) == parseMethod(p, method, power)
parsePart(p, part, power) ==
  After(p.nodes, parseNext([p EXCEPT !.nodes = <<>>], part, power))
parseItem(p, item) ==
  IF p.err # 0 THEN p
  ELSE IF item \in Parts THEN parsePart(p, item, 0) ELSE expect(p, item)
parseItems(p, items) == FoldLeft(parseItem, p, items)

\* The part is left out before a token of this kind.
parseUnless(p, kind, part) ==
  IF Matches(p, kind) THEN Made(p, Nothing) ELSE parseItem(p, part)
\* A list that commas separate: rest is the method that goes on with it.
parseComma(p, rest) == IF Matches(p, ",") THEN parseNext(Advance(p), rest, 0) ELSE p
parseList(p, part, rest) == parseComma(parseItem(p, part), rest)
Listed(p) == Make(LAMBDA made : made, p)
parseArguments(p) ==
  IF Matches(p, ")") THEN Listed(p) ELSE Listed(parseNext(p, "expression list", 0))

-----------------------------------------------------------------------------
(* Types: objects of their own where const or * makes one.                 *)
\* A pointer is written after what it points to.
Spelled(type) ==
  (IF type.const THEN "const " ELSE "")
    \o (IF type.kind = "Pointer" THEN type.base \o "*" ELSE type.kind)
QualifiedType(p, type, isConst) ==
  IF ~isConst THEN Made(p, type)
  ELSE Made([p EXCEPT !.types = @ + 1],
            [type EXCEPT !.const = TRUE, !.object = p.types + 1])
parseConstQualifier(p) == IF Matches(p, "const") THEN Advance(p) ELSE p
parseQualified(p, type) ==
  QualifiedType(parseConstQualifier(p), type, Matches(p, "const"))
PointerToQualified(p, isConst) ==
  Make(LAMBDA made : TypeObject("Pointer", isConst, p.types + 1, Spelled(made[1])),
       parseConstQualifier([p EXCEPT !.types = @ + 1]))
parsePointer(star) ==
  parseNext(PointerToQualified(star, Matches(star, "const")), "pointers", 0)
parsePointers(p) == IF Matches(p, "*") THEN parsePointer(Advance(p)) ELSE p
parseTrailing(p) == parseNext(parseQualified(p, p.nodes[1]), "pointers", 0)
parseNamedType(p, leadingConst) ==
  IF peek(p).kind \notin DOMAIN tokenTypes THEN errorf(p)
  ELSE parseTrailing(QualifiedType(Advance(p), NamedType(tokenTypes[peek(p).kind]),
                                   leadingConst))
parseType(p) == parseNamedType(parseConstQualifier(p), Matches(p, "const"))
isTypeKeyword(kind) == kind = "const" \/ kind \in DOMAIN tokenTypes

-----------------------------------------------------------------------------
(* Expressions.                                                            *)
LiteralKinds == {"integer", "Float32", "Float64", "string", "true", "false"}
parseLiteral(token) ==
  CASE token.kind = "integer" -> IntLiteral(token.value)
    [] token.kind \in FloatKinds -> NumberLiteral(token.kind, token.value)
    [] token.kind = "string" -> StringLiteral(token.text)
    [] token.kind \in {"true", "false"} -> BoolLiteral(token.kind = "true")

parsePrefix(p, token) ==
  CASE token.kind \in unaryOps ->
         Make(LAMBDA made : UnaryExpr(token.kind, made[1]), parseNext(Advance(p), "prefix", 0))
    [] token.kind \in LiteralKinds -> Made(Advance(p), parseLiteral(token))
    [] token.kind = "ident" -> Made(Advance(p), IdentNode(token.text))
    [] token.kind = "(" -> parseItems(p, <<"(", "expression", ")">>)
    [] OTHER -> errorf(p)
parsePrefixExpression(p) == parsePrefix(p, peek(p))

parseCall(p, left) ==
  IF left.is # "ident" THEN errorf(p)
  ELSE Make(LAMBDA made : CallExpr(left.name, made[2]), parseItems(p, <<"(", "arguments", ")">>))
\* Mutant of parseBinary: the right operand takes in the same level.
parseBinaryRightToLeft(p, op) ==
  Make(LAMBDA made : BinaryExpr(op, made[1], made[2]),
       parsePart(Advance(p), "expression", LeftPower(op)))
parseBinary(p, op) ==
  Make(LAMBDA made : BinaryExpr(op, made[1], made[2]),
       parsePart(Advance(p), "expression", RightPower(op)))
\* What follows the left operand, p.nodes[1].
parseInfixOf(p, kind, power) ==
  CASE p.err # 0 -> p
    [] p.err = 0 /\ kind \in UnsupportedTokens -> errorf(p)
    [] p.err = 0 /\ kind = "(" /\ callBindingPower >= power ->
         parseNext(parseCall(p, p.nodes[1]), "infix", power)
    [] p.err = 0 /\ kind \in binaryOps /\ LeftPower(kind) >= power ->
         parseNext(parseBinary(p, kind), "infix", power)
    [] OTHER -> p
parseInfix(p, power) == parseInfixOf(p, peek(p).kind, power)
parseExpressionWithBindingPower(p, power) ==
  parseNext(parseNext(p, "prefix", 0), "infix", power)

-----------------------------------------------------------------------------
(* Statements.                                                             *)
\* Statements up to one of these tokens; a block ends with the file too,
\* only to fail for want of its brace.
parseStatements(p, method, stops) ==
  IF p.err # 0 \/ peek(p).kind \in stops THEN p
  ELSE parseNext(parseItem(p, "statement"), method, 0)
parseBlock(p) ==
  Make(BlockStmt, expect(parseNext(expect(p, "{"), "block body", 0), "}"))

\* The initializer is left out where there is no =.
parseInitializer(p) ==
  IF Matches(p, "=") THEN parseItems(p, <<"=", "expression">>) ELSE Made(p, Nothing)
\* A declared type and name: no variable is void.
\* Mutant of rejectVoid: a pointer to void is rejected too.
rejectVoidPointers(p, start) ==
  IF p.err = 0 /\ (p.nodes[1].kind = "Void" \/ p.nodes[1].base = "Void")
  THEN errorAt(p, start) ELSE p
rejectVoid(p, start) ==
  IF p.err = 0 /\ p.nodes[1].kind = "Void" THEN errorAt(p, start) ELSE p
parseLocalDeclStmt(p) ==
  Make(LAMBDA made : LocalDeclStmt(made[1], made[2], made[3]),
       parseItems(rejectVoid(parseItems(p, <<"type", "name">>), Position(p)),
                  <<"initializer", ";">>))

parseAssigned(p, op, start) ==
  CASE p.err # 0 -> p
    [] p.err = 0 /\ op \notin assignmentOps -> Make(LAMBDA made : ExprStmt(made[1]), p)
    [] p.err = 0 /\ op \in assignmentOps /\ p.nodes[1].is # "ident" -> errorAt(p, start)
    [] OTHER -> Make(LAMBDA made : AssignStmt(made[1], op, made[2]),
                     parseItem(Advance(p), "expression"))
parseClause(p, start) == parseAssigned(p, peek(p).kind, start)
parseForClauseStatement(p) == parseClause(parseItem(p, "expression"), Position(p))

parseBranches(p) ==
  IF Matches(p, "else") THEN parseItems(p, <<"else", "statement">>) ELSE Added(p, Nothing)
parseIfStmt(p) ==
  Make(LAMBDA made : IfStmt(made[1], made[2], made[3]),
       parseBranches(parseItems(p, <<"if", "(", "expression", ")", "statement">>)))
parseWhileStmt(p) ==
  Make(LAMBDA made : WhileStmt(made[1], made[2]),
       parseItems(p, <<"while", "(", "expression", ")", "statement">>))
parseForStmt(p) ==
  Make(LAMBDA made : ForStmt(made[1], made[2], made[3], made[4]),
       parseItems(p, <<"for", "(", "for init", ";", "for condition", ";", "for post", ")",
                  "statement">>))
parseReturnStmt(p) ==
  Make(LAMBDA made : ReturnStmt(made[1]),
       parseItems(p, <<"return", "return value", ";">>))

\* The clauses of a switch so far: the cases in their order, and the
\* statements of the last default.
parseCase(p) ==
  Make(LAMBDA made : [made[1] EXCEPT !.cases = Append(@, SwitchCase(made[2], made[3]))],
       parseItems(p, <<"case", "expression", ":", "clause body">>))
parseDefault(p) ==
  Make(LAMBDA made : [made[1] EXCEPT !.default = made[2]],
       parseItems(p, <<"default", ":", "clause body">>))
parseClausesFrom(p, kind) ==
  CASE p.err # 0 \/ kind = "}" -> p
    [] p.err = 0 /\ kind = "case" -> parseNext(parseCase(p), "more clauses", 0)
    [] p.err = 0 /\ kind = "default" -> parseNext(parseDefault(p), "more clauses", 0)
    [] OTHER -> errorf(p)
parseClauses(p) == parseClausesFrom(p, peek(p).kind)
parseSwitchStmt(p) ==
  Make(LAMBDA made : SwitchStmt(made[1], made[2].cases, made[2].default),
       parseItems(p, <<"switch", "(", "expression", ")", "{", "clauses", "}">>))

parseStatementFrom(p, kind) ==
  CASE kind = "{" -> parseBlock(p)
    [] isTypeKeyword(kind) -> parseLocalDeclStmt(p)
    [] kind = "if" -> parseIfStmt(p)
    [] kind = "while" -> parseWhileStmt(p)
    [] kind = "for" -> parseForStmt(p)
    [] kind = "switch" -> parseSwitchStmt(p)
    [] kind = "return" -> parseReturnStmt(p)
    [] kind = "break" -> Made(parseItems(p, <<"break", ";">>), BreakStmt)
    [] kind = "continue" -> Made(parseItems(p, <<"continue", ";">>), ContinueStmt)
    [] OTHER -> expect(parseForClauseStatement(p), ";")
parseStatement(p) == parseStatementFrom(p, peek(p).kind)

-----------------------------------------------------------------------------
(* Declarations.                                                           *)
parseParameter(p) ==
  Make(LAMBDA made : Parameter(made[2], made[1]), parseItems(p, <<"type", "name">>))
parseParameters(p) ==
  IF Matches(p, ")") THEN Listed(p) ELSE Listed(parseNext(p, "parameter list", 0))

parseExternTail(p) ==
  IF Matches(p, "(")
  THEN Make(LAMBDA made : ExternFunctionDecl(made[1], made[3], made[2], made[4]),
            parseItems(p, <<"(", "parameters", ")">>))
  ELSE Make(LAMBDA made : ExternVariableDecl(made[1], made[3], made[2]), p)
rejectConst(p) == IF Matches(p, "const") THEN errorf(p) ELSE p
parseExternDecl(p) ==
  expect(parseExternTail(
           parseItems(rejectConst(parseItems(p, <<"extern", "(", "index", ")">>)),
                      <<"type", "name">>)), ";")

\* The segment of a global: CONST if its own type is const, else DATA or BSS.
GlobalScope(type, initializer) ==
  CASE type.const -> "Const"
    [] ~type.const /\ initializer = Nothing -> "BSS"
    [] OTHER -> "Data"
parseGlobal(p) ==
  Make(LAMBDA made : GlobalDecl(made[2], made[1], made[3], GlobalScope(made[1], made[3])),
       parseItems(p, <<"initializer", ";">>))
parseFunction(p) ==
  Make(LAMBDA made : FunctionNode(made[2], made[3], made[1], made[4]),
       parseItems(p, <<"(", "parameters", ")", "block">>))
parseDeclared(p, start) ==
  IF Matches(p, "(") THEN parseFunction(p) ELSE parseGlobal(rejectVoid(p, start))
parseTopLevelDeclOrFunction(p) ==
  parseDeclared(parseItems(p, <<"type", "name">>), Position(p))

parseDeclaration(p) ==
  IF Matches(p, "extern") THEN parseExternDecl(p) ELSE parseTopLevelDeclOrFunction(p)
parseProgram(p) ==
  IF p.err # 0 \/ peek(p) = EndOfFile THEN p
  ELSE parseNext(parseItem(p, "declaration"), "program", 0)

-----------------------------------------------------------------------------
parseToken(p, kind, node) == IF Matches(p, kind) THEN Made(Advance(p), node) ELSE errorf(p)

parseMethod(p, method, power) ==
  CASE method = "expression" -> parseExpressionWithBindingPower(p, power)
    [] method = "prefix" -> parsePrefixExpression(p)
    [] method = "infix" -> parseInfix(p, power)
    [] method = "arguments" -> parseArguments(p)
    [] method = "expression list" -> parseList(p, "expression", "expression list")
    [] method = "type" -> parseType(p)
    [] method = "pointers" -> parsePointers(p)
    [] method = "name" -> parseToken(p, "ident", peek(p).text)
    [] method = "index" -> parseToken(p, "integer", peek(p).value)
    [] method = "initializer" -> parseInitializer(p)
    [] method = "parameter" -> parseParameter(p)
    [] method = "parameters" -> parseParameters(p)
    [] method = "parameter list" -> parseList(p, "parameter", "parameter list")
    [] method = "block" -> parseBlock(p)
    [] method = "block body" -> parseStatements(p, "block body", {"}", "EOF"})
    [] method = "clause body" -> Listed(parseNext(p, "clause statements", 0))
    [] method = "clause statements" ->
         parseStatements(p, "clause statements", {"}", "case", "default"})
    [] method = "statement" -> parseStatement(p)
    [] method = "for init" -> parseUnless(p, ";", "for clause")
    [] method = "for condition" -> parseUnless(p, ";", "expression")
    [] method = "for post" -> parseUnless(p, ")", "for clause")
    [] method = "for clause" -> parseForClauseStatement(p)
    [] method = "return value" -> parseUnless(p, ";", "expression")
    [] method = "clauses" -> parseClauses(Made(p, [cases |-> <<>>, default |-> <<>>]))
    [] method = "more clauses" -> parseClauses(p)
    [] method = "declaration" -> parseDeclaration(p)
    [] method = "program" -> parseProgram(p)

(***************************************************************************)
(* What Parse makes of a list of tokens: the number of the token it        *)
(* refuses, or 0, and the declarations and functions in their order.       *)
(***************************************************************************)
IsDecl(node) == "scope" \in DOMAIN node
Program(err, nodes) ==
  [err |-> err, decls |-> SelectSeq(nodes, IsDecl),
   functions |-> SelectSeq(nodes, LAMBDA node : ~IsDecl(node))]
Parsed(p) == Program(p.err, IF p.err = 0 THEN p.nodes ELSE <<>>)
Parse(tokens) == Parsed(parseNext(newParserCore(tokens), "program", 0))
=============================================================================
