------------------------------ MODULE MCParsing ------------------------------
(***************************************************************************)
(* The scripts that are written and parsed.                                *)
(***************************************************************************)
EXTENDS CovaParsing

Id(name) == Token("ident", name, 0)
Seven == Token("integer", "", 7)

-----------------------------------------------------------------------------
\* Every text of some length after a beginning.
ExpressionSketch ==
  Sketch(Words(<<"int">>) \o <<Id("g")>> \o Words(<<"=">>),
         {Id("a"), Seven} \cup {Word(kind) : kind \in {"-", "+", "<", "(", ")", ",", ";"}}, 8)
Body == Words(<<"void">>) \o <<Id("f")>> \o Words(<<"(", ")", "{">>)
IfA == Words(<<"if", "(">>) \o <<Id("a")>> \o Words(<<")">>)
StatementWords(kinds) == {Id("a")} \cup {Word(kind) : kind \in kinds}
StatementSketch ==
  Sketch(Body, StatementWords({"if", "else", "while", "(", ")", "{", "}", "=", ";", "return"}), 10)
ElseSketch == Sketch(Body \o IfA \o IfA, StatementWords({"else", "{", "}", ";"}), 21)
SwitchSketch ==
  Sketch(Body \o Words(<<"switch", "(">>) \o <<Id("a")>> \o Words(<<")", "{">>),
         StatementWords({"case", "default", ":", "break", ";", "}", "+="}), 17)
ForSketch ==
  Sketch(Body \o Words(<<"for">>),
         StatementWords({"(", ")", ";", "=", "int", "continue", "}"}), 13)
DeclarationSketch ==
  Sketch(<<>>,
         {Id("a"), Seven} \cup
           {Word(kind) : kind \in {"const", "uint8", "void", "float", "*", "=", ";", "extern", "(", ")",
                                   ",", "{", "}"}}, 7)
Sketches ==
  <<ExpressionSketch, StatementSketch, ElseSketch, SwitchSketch, ForSketch, DeclarationSketch>>

-----------------------------------------------------------------------------
\* Programs of one function or declaration, written and read back.
Mapped(f(_), s) == [k \in DOMAIN s |-> f(s[k])] \o <<>>
\* The pairs of two lists, combined.
Product(Combine(_, _), s, t) ==
  [k \in 1 .. Len(s) * Len(t) |->
     Combine(s[1 + ((k - 1) \div Len(t))], t[1 + ((k - 1) % Len(t))])] \o <<>>

A == IdentNode("a")
B == IdentNode("b")
C == IntLiteral(7)
Operators ==
  <<"||", "&&", "|", "^", "&", "==", "!=", "<", ">", "<=", ">=", "<<", ">>", "+", "-", "*", "/", "%">>
Assignments == <<"=", "+=", "-=", "*=", "/=", "%=", "<<=", ">>=", "&=", "|=", "^=">>
Nestings ==
  Product(LAMBDA op, other : BinaryExpr(op, BinaryExpr(other, A, B), C), Operators, Operators)
  \o Product(LAMBDA op, other : BinaryExpr(op, A, BinaryExpr(other, B, C)), Operators, Operators)
Calls == <<CallExpr("f", <<>>), CallExpr("f", <<A>>), CallExpr("f", <<CallExpr("g", <<A, C>>), BinaryExpr("-", A, B)>>)>>
Applied(op) ==
  Mapped(LAMBDA e : UnaryExpr(op, e), <<A, UnaryExpr("-", A), BinaryExpr("*", A, B)>> \o Calls)
  \o Mapped(LAMBDA e : BinaryExpr("+", UnaryExpr(op, A), e), Calls)
  \o Mapped(LAMBDA e : BinaryExpr("*", e, UnaryExpr(op, B)), Calls)
Literals ==
  <<BoolLiteral(TRUE), BoolLiteral(FALSE), NumberLiteral("Float32", 6), NumberLiteral("Float64", 6),
    StringLiteral("s")>>
Expressions == Nestings \o Applied("!") \o Applied("-") \o Applied("~") \o Calls \o Literals

Global(e) == GlobalDecl("g", Int32Type, e, IF e = Nothing THEN "BSS" ELSE "Data")
Function(s) == FunctionNode("f", <<>>, VoidType, BlockStmt(s))

Assigned(op) == AssignStmt(A, op, BinaryExpr("+", A, C))
Called == ExprStmt(CallExpr("f", <<B>>))
Simple ==
  Mapped(Assigned, Assignments)
  \o <<Called, BreakStmt, ContinueStmt, ReturnStmt(Nothing), ReturnStmt(BinaryExpr("<", A, B)), BlockStmt(<<>>)>>
Clauses == <<Nothing, Assigned("="), Called>>
Conditions == <<Nothing, BinaryExpr("&&", A, B)>>
Loops ==
  Mapped(LAMBDA s : WhileStmt(A, s), <<Called, BlockStmt(<<Called, BreakStmt>>)>>)
  \o Product(LAMBDA first, rest : ForStmt(first, rest[1], rest[2], ContinueStmt), Clauses,
             Product(LAMBDA a, b : <<a, b>>, Conditions, Clauses))
Ifs ==
  LET inner == <<Called, IfStmt(B, Called, Nothing), IfStmt(B, Called, ReturnStmt(Nothing)),
                 WhileStmt(B, IfStmt(C, BreakStmt, Nothing)), BlockStmt(<<IfStmt(B, Called, Nothing)>>)>>
      all == Mapped(LAMBDA s : IfStmt(A, s, Nothing), inner)
             \o Product(LAMBDA s, t : IfStmt(A, s, t), SelectSeq(inner, LAMBDA s : ~TakesElse(s)), inner)
  IN  all
Switches ==
  LET cases == <<SwitchCase(C, <<>>), SwitchCase(IntLiteral(1), <<Assigned("+="), BreakStmt>>)>>
      defaults == <<<<>>, <<Called>>, <<IfStmt(B, BreakStmt, Nothing), ContinueStmt>>>>
  IN  Mapped(LAMBDA default : SwitchStmt(A, <<>>, default), defaults)
      \o Mapped(LAMBDA default : SwitchStmt(A, cases, default), defaults)
Locals ==
  Mapped(LAMBDA type : LocalDeclStmt(type, "x", Nothing),
         <<Int32Type, NamedType("Byte"), ConstType("Uint64", 1), PointerTo("Uint16", 1)>>)
  \o <<LocalDeclStmt(PointerTo("const Uint8", 2), "x", StringLiteral("s")),
       LocalDeclStmt(NamedType("Float64"), "x", BinaryExpr("/", A, C))>>
Statements == Simple \o Loops \o Ifs \o Switches \o Locals

Declarations ==
  <<Global(Nothing), GlobalDecl("g", ConstType("Int32", 1), C, "Const"),
    GlobalDecl("g", ConstType("Bool", 1), Nothing, "Const"),
    GlobalDecl("g", PointerTo("const Uint8", 2), StringLiteral("s"), "Data"),
    GlobalDecl("g", PointerTo("const Uint8", 2), Nothing, "BSS"),
    GlobalDecl("g", TypeObject("Pointer", TRUE, 2, "const Uint8"), StringLiteral("s"), "Const"),
    GlobalDecl("g", PointerTo("Void", 1), Nothing, "BSS"),
    ExternVariableDecl(8, "e", NamedType("Float32")), ExternVariableDecl(0, "e", PointerTo("Int8", 1)),
    ExternFunctionDecl(3, "e", VoidType, <<>>),
    ExternFunctionDecl(3, "e", NamedType("Int64"), <<Parameter("x", Int32Type), Parameter("y", NamedType("Uint8"))>>)>>

NodeProgram(node) == Program(0, <<node>>)
Readings ==
  Mapped(LAMBDA e : NodeProgram(Global(e)), Expressions)
  \o Mapped(LAMBDA s : NodeProgram(Function(<<s, ReturnStmt(Nothing)>>)), Statements)
  \o Mapped(LAMBDA d : NodeProgram(d), Declarations)
  \o <<Program(0, <<Declarations[1], Declarations[2], Declarations[8], Declarations[11], Function(<<Called>>), Function(<<ReturnStmt(Nothing)>>)>>), Program(0, <<>>)>>
ReadBack == Mapped(LAMBDA program : WritingOf(program, {}), Readings)

\* Some programs with one token left out or replaced.
Changed ==
  <<Program(0, <<Global(BinaryExpr("+", UnaryExpr("-", A), CallExpr("f", <<A, C>>))),
                 Function(<<IfStmt(A, Called, ReturnStmt(Nothing))>>)>>),
    Program(0, <<Function(<<ForStmt(Assigned("="), A, Nothing, LocalDeclStmt(ConstType("Int8", 1), "x", C)),
                            SwitchStmt(A, <<SwitchCase(C, <<BreakStmt>>)>>, <<Called>>)>>)>>),
    Program(0, <<Declarations[5], Declarations[11], FunctionNode("f", <<Parameter("x", Int32Type)>>, Int32Type,
                                                        BlockStmt(<<WhileStmt(A, ContinueStmt)>>))>>)>>
ChangedWords ==
  {Id("a"), Seven} \cup
    {Word(kind) : kind \in {"(", ")", "{", "}", ";", ",", ":", "=", "*", "-", "==", "const", "void", "int", "if",
                            "else", "case", "default", "return", "extern", "[", "?", "++"}}
Changes == Mapped(LAMBDA program : WritingOf(program, ChangedWords), Changed)
AllDrafts == Sketches \o ReadBack \o Changes
MCDrafts == AllDrafts

=============================================================================
