----------------------------- MODULE MCStackTyping ----------------------------
(***************************************************************************)
(* The functions whose compiled code is followed: `T f() { return e; }`    *)
(* for the expressions e and types T of a palette, and bodies of nested    *)
(* statements.                                                             *)
(***************************************************************************)
EXTENDS CovaStackTyping

ScalarKinds == IntegerKinds \cup FloatKinds \cup {"Bool"}

\* A global of every kind, two const ones, a pointer, functions of both sorts.
Global(kind) == VariableBinding(NamedType(kind), "BSS", 0)
Symbols ==
  [kind \in ScalarKinds |-> Global(kind)] @@
  "limit" :> VariableBinding(ConstType("Int16", 1), "Const", 0) @@
  "ratio" :> VariableBinding(ConstType("Float32", 2), "Extern", 0) @@
  "text" :> VariableBinding(TextType, "Data", 8) @@
  "same" :> FunctionBindingOf(NamedType("Int64"), "BSS", 0,
                              <<NamedType("Int8"), NamedType("Float32")>>) @@
  "tell" :> FunctionBindingOf(VoidType, "BSS", 1, <<NamedType("Uint16")>>) @@
  "ask" :> FunctionBindingOf(NamedType("Uint8"), "Extern", 0,
                             <<NamedType("Float64"), TextType>>)

Id(kind) == IdentNode(kind)
Returning(kind, e) ==
  FunctionNode("f", <<>>, NamedType(kind), BlockStmt(<<ReturnStmt(e)>>))
\* The pairs of two lists, combined.
Product(Combine(_, _), s, t) ==
  [k \in 1 .. Len(s) * Len(t) |->
     Combine(s[1 + ((k - 1) \div Len(t))], t[1 + ((k - 1) % Len(t))])] \o <<>>
Mapped(f(_), s) == [k \in DOMAIN s |-> f(s[k])] \o <<>>

\* One list of functions for each expression, a function for each kind.
UnitsReturning(expressions, kindsOf(_)) ==
  Mapped(LAMBDA e : Mapped(LAMBDA k : Returning(k, e), kindsOf(e)), expressions)
KindList == <<"Bool", "Byte", "Int8", "Int16", "Int32", "Int64", "Uint8", "Uint16",
              "Uint32", "Uint64", "Float32", "Float64">>

Variables == Mapped(Id, KindList \o <<"limit", "ratio">>)
Leaves == Variables \o <<IntLiteral(3), BoolLiteral(TRUE), NumberLiteral("Float32", 2),
                         NumberLiteral("Float64", 6)>>
SomeLeaves == Mapped(Id, <<"Bool", "Int8", "Uint16", "Int32", "Float64", "limit">>)
                \o <<IntLiteral(3), NumberLiteral("Float32", 2)>>
Same == CallExpr("same", <<Id("Uint64"), IntLiteral(1)>>)
Ask == CallExpr("ask", <<Id("Int8"), StringLiteral("hi")>>)
Calls == <<Same, Ask, CallExpr("ask", <<Same, Id("text")>>), CallExpr("abs", <<Id("Int16")>>),
           CallExpr("abs", <<Id("ratio")>>), CallExpr("sqrt", <<Id("Float32")>>),
           CallExpr("sin", <<Id("Uint8")>>), CallExpr("pow", <<Id("Float32"), Same>>),
           CallExpr("pow", <<IntLiteral(2), Id("Byte")>>)>>
Some == SomeLeaves \o Calls
Compared == Product(LAMBDA a, b : BinaryExpr("<", a, b), Some, SomeLeaves)
Combined ==
  Product(LAMBDA a, b : BinaryExpr("+", a, b), Leaves, Leaves)
  \o Product(LAMBDA a, b : BinaryExpr("==", a, b), Leaves, Leaves)
Nested ==
  Product(LAMBDA a, b : BinaryExpr("-", BinaryExpr("*", a, Id("Int8")), b), Compared, <<Same>>)
  \o Product(LAMBDA a, b : BinaryExpr("&&", UnaryExpr("!", a), b), Compared, <<Ask>>)
Junctions ==
  Product(LAMBDA a, b : BinaryExpr("||", BinaryExpr("&&", a, Ask), b), Some, Some)
Unaries ==
  Mapped(LAMBDA a : UnaryExpr("!", a), Some) \o Mapped(LAMBDA a : UnaryExpr("-", a), Leaves)
  \o Mapped(LAMBDA a : UnaryExpr("~", a), Leaves)

\* An integer operator leaves its operands' kind: here that is what is asked.
IntegerOperations ==
  Product(LAMBDA a, b : BinaryExpr("%", a, b), Variables, Variables)
  \o Product(LAMBDA a, b : BinaryExpr("<<", a, b), Variables, <<IntLiteral(1)>>)
KindOfResult(e) ==
  <<valueKindFromType(exprType(NewFunctionCompiler(Symbols, VoidType, EmptyPool), e))>>

-----------------------------------------------------------------------------
\* Statements: every pair of simple ones in every pair of nested constructs.
Local(kind, name, e) == LocalDeclStmt(NamedType(kind), name, e)
Store(name, e) == AssignStmt(Id(name), "=", e)
Simple ==
  <<Store("Int8", BinaryExpr("+", Id("Int32"), Id("Float32"))),
    AssignStmt(Id("n"), "+=", Id("Uint64")),
    BreakStmt, ContinueStmt, ReturnStmt(Id("n")),
    ExprStmt(CallExpr("tell", <<Id("n")>>)),
    Local("Int64", "p", Id("Int8")), Local("Bool", "n", Nothing)>>
Test == BinaryExpr("||", BinaryExpr("<", Id("n"), Id("Float64")), Id("Int16"))
Around(body) ==
  <<IfStmt(Test, body, Nothing), IfStmt(Id("n"), BlockStmt(<<>>), body), WhileStmt(Test, body),
    ForStmt(Nothing, Nothing, Nothing, body),
    ForStmt(Store("n", IntLiteral(0)), Test, AssignStmt(Id("n"), "-=", IntLiteral(1)), body),
    SwitchStmt(Id("n"), <<SwitchCase(IntLiteral(1), <<body>>),
                          SwitchCase(NumberLiteral("Float32", 6), <<>>),
                          SwitchCase(Id("Uint64"), <<BreakStmt>>)>>, <<body>>)>>
Bodies ==
  FlattenSeq(Product(LAMBDA s, t : FlattenSeq(
    Mapped(LAMBDA inner : Around(BlockStmt(<<inner, s>>)), Around(BlockStmt(<<s, t>>)))),
    Simple, Simple))
Parameters == <<Parameter("n", NamedType("Int16")), Parameter("b", NamedType("Int8"))>>
WithBody(body) ==
  FunctionNode("g", Parameters, NamedType("Float64"),
               BlockStmt(<<Local("Int8", "a", Id("n")), Local("Int32", "w", Id("a")),
                           Local("Bool", "z", Id("w")), body,
                           Store("z", BinaryExpr("<", Id("a"), Id("b"))),
                           ReturnStmt(Id("z"))>>))
StatementUnits == Mapped(LAMBDA body : <<WithBody(body)>>, Bodies)

ExpressionUnits ==
  UnitsReturning(Leaves \o Calls \o Combined \o Unaries, LAMBDA e : KindList)
  \o UnitsReturning(Nested \o Junctions, LAMBDA e : <<"Int16", "Float32", "Bool">>)
  \o UnitsReturning(IntegerOperations, KindOfResult)

\* Compiled, those that have no error.
NoErrorIn(unit) ==
  SelectSeq([i \in DOMAIN unit.functions |-> i],
            LAMBDA i : unit.blocks[i].err = NoError)
TypedBlocks(unit) ==
  Mapped(LAMBDA i : TypedBlock(unit.symbols, unit.functions[i], unit.blocks[i]),
         NoErrorIn(unit))
CompiledBlocks(units) ==
  Mapped(LAMBDA fs : TypedBlocks(CompiledUnit(Symbols, fs)), units)

AllBlocks == CompiledBlocks(ExpressionUnits \o StatementUnits)
MCBlocks == AllBlocks

-----------------------------------------------------------------------------
\* A block that ends before the first local: `void h() { { } int8 a; }`.
BlockFirst ==
  FunctionNode("h", <<>>, VoidType, BlockStmt(<<BlockStmt(<<>>), Local("Int8", "a", Nothing)>>))
BlockFirstBlocks ==
  << <<TypedBlock(Symbols, BlockFirst,
                  CompiledUnit(Symbols, <<BlockFirst>>).blocks[1])>> >>
MCBlockFirstBlocks == BlockFirstBlocks
=============================================================================
