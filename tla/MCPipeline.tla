----------------------------- MODULE MCPipeline ------------------------------
(***************************************************************************)
(* The source programs that are compiled and run.                          *)
(***************************************************************************)
EXTENDS CovaPipeline

M == INSTANCE CovaMeaning

Var(kind, scope, offset) == VariableBinding(NamedType(kind), scope, offset)
Symbols ==
  "n" :> Var("Int16", "BSS", 0) @@
  "g" :> Var("Int8", "BSS", 2) @@
  "flag" :> Var("Bool", "BSS", 3) @@
  "w" :> Var("Int32", "BSS", 4) @@
  "d" :> Var("Uint8", "Data", 1) @@
  "limit" :> VariableBinding(ConstType("Int16", 1), "Const", 0) @@
  "x" :> Var("Uint16", "Extern", 2) @@
  "tell" :> FunctionBindingOf(VoidType, "Extern", 0, <<NamedType("Int16")>>) @@
  "more" :> FunctionBindingOf(NamedType("Int8"), "Extern", 1, <<>>) @@
  "both" :> FunctionBindingOf(NamedType("Int16"), "Extern", 2,
                              <<NamedType("Int8"), NamedType("Int32")>>) @@
  "script_main" :> FunctionBindingOf(NamedType("Int16"), "BSS", 0, <<>>) @@
  "mix" :> FunctionBindingOf(NamedType("Int32"), "BSS", 1,
                             <<NamedType("Int8"), NamedType("Int32"), NamedType("Int16")>>) @@
  "note" :> FunctionBindingOf(VoidType, "BSS", 2, <<NamedType("Uint8"), NamedType("Bool")>>)
Initial ==
  [n |-> 0, g |-> 0, flag |-> 0, w |-> 0, d |-> 14, limit |-> 250, x |-> 17]

Id(name) == IdentNode(name)
Store(name, e) == AssignStmt(Id(name), "=", e)
Tell(e) == ExprStmt(CallExpr("tell", <<e>>))
More == CallExpr("more", <<>>)
Plus(a, b) == BinaryExpr("+", a, b)
Below(a, n) == BinaryExpr("<", a, IntLiteral(n))

Local(kind, name, e) == LocalDeclStmt(NamedType(kind), name, e)
\* The first local of all stands before any block ends, so that every unit
\* compiles.
Main(statements) ==
  FunctionNode("script_main", <<>>, NamedType("Int16"),
               BlockStmt(<<Local("Int8", "z", Nothing)>> \o statements
                           \o <<ReturnStmt(Id("n"))>>))
Mapped(f(_), s) == [k \in DOMAIN s |-> f(s[k])] \o <<>>
\* The pairs of two lists, combined.
Product(Combine(_, _), s, t) ==
  [k \in 1 .. Len(s) * Len(t) |->
     Combine(s[1 + ((k - 1) \div Len(t))], t[1 + ((k - 1) % Len(t))])] \o <<>>

-----------------------------------------------------------------------------
(***************************************************************************)
(* Statements: two simple ones in the inner of two nested constructs, one  *)
(* more behind it.  The outer loops count w, the inner ones n.             *)
(***************************************************************************)
Plain == <<AssignStmt(Id("n"), "+=", Id("d")), Store("g", More),
           BlockStmt(<<Local("Int8", "n", More), Tell(Id("n"))>>)>>
Leaving == <<BreakStmt, ContinueStmt, ReturnStmt(Plus(Id("n"), Id("w"))),
             Tell(BinaryExpr("-", Id("n"), Id("w")))>>
Loops(counter, body) ==
  <<WhileStmt(More, body),
    ForStmt(Nothing, More, AssignStmt(Id(counter), "+=", IntLiteral(2)), body),
    ForStmt(Store(counter, IntLiteral(0)), Below(Id(counter), 2),
            AssignStmt(Id(counter), "+=", IntLiteral(1)), body)>>
Branches(counter, body) ==
  <<IfStmt(BinaryExpr("&&", More, Below(Id(counter), 3)), body, Tell(Id(counter))),
    IfStmt(BinaryExpr("||", Id("flag"), More), BlockStmt(<<Store("flag", More)>>), body),
    SwitchStmt(Id(counter),
               <<SwitchCase(IntLiteral(2), <<>>), SwitchCase(IntLiteral(0), <<body>>),
                 SwitchCase(IntLiteral(1), <<Tell(Id("d")), BreakStmt>>)>>,
               <<Tell(Id(counter))>>)>>
Inner(s, t) == BlockStmt(<<s, t, Tell(Id("n"))>>)
Outer(inner) == BlockStmt(<<inner, Tell(Id("w"))>>)
Nestings(s, t) ==
  FlattenSeq(
    Mapped(LAMBDA inner : Loops("w", Outer(inner)) \o Branches("w", Outer(inner)),
           Loops("n", Inner(s, t)))
    \o Mapped(LAMBDA inner : Loops("w", Outer(inner)), Branches("n", Inner(s, t))))
StatementUnits ==
  Mapped(LAMBDA body : M!Unit(Symbols, Initial, <<Main(<<body>>)>>, <<1, 2, 0, 3>>),
         FlattenSeq(Product(Nestings, Plain, Leaving)))

-----------------------------------------------------------------------------
(***************************************************************************)
(* Expressions, each wanted as an int32, as a uint8 and as an int16, over  *)
(* variables of every sort and size.  The host answers -3, then 5.         *)
(***************************************************************************)
Uses(e) == <<Store("w", e), Store("d", e), Tell(e)>>
AllUses(expressions) ==
  <<Store("n", More), Store("g", More)>> \o FlattenSeq(Mapped(Uses, expressions))
Operand ==
  Mapped(Id, <<"n", "g", "w", "d", "x", "limit">>)
  \o <<IntLiteral(6), UnaryExpr("-", IntLiteral(3)), More>>
\* Truth values are not ordered.
OperandOf(op) == IF op \in {"<", ">="} THEN Operand ELSE Operand \o <<Id("flag")>>
Applied(op, a) == Mapped(LAMBDA b : BinaryExpr(op, a, b), OperandOf(op))
Operations ==
  FlattenSeq(Mapped(LAMBDA op : Mapped(LAMBDA a : AllUses(Applied(op, a)), OperandOf(op)),
                    <<"+", "-", "*", "<", "==", ">=">>))
\* Division stops at the first zero: a unit for each.
Divisions ==
  Product(LAMBDA a, b : AllUses(<<BinaryExpr("/", a, b)>>), Operand, Operand)
\* Integer operators in the promoted type of their operands.
RightOperand == <<Id("n"), Id("w"), IntLiteral(2), UnaryExpr("-", Id("n"))>>
IntegerOperations ==
  Mapped(LAMBDA op :
           FlattenSeq(Product(LAMBDA a, b : <<Store("w", BinaryExpr(op, a, b)), Tell(Id("w"))>>,
                              <<More, Id("limit"), IntLiteral(7)>>, RightOperand)),
         <<"%", "&", "|", "^", "<<", ">>">>)
Compounds ==
  Mapped(LAMBDA op : <<AssignStmt(Id("w"), op, More), AssignStmt(Id("n"), op, Id("d")),
                       Tell(Id("w"))>>,
         <<"+=", "-=", "*=", "/=">>)
  \o Mapped(LAMBDA op : <<Store("w", IntLiteral(90)), AssignStmt(Id("w"), op, More),
                          AssignStmt(Id("w"), op, Id("limit")), Tell(Id("w"))>>,
            <<"%=", "&=", "|=", "^=", "<<=", ">>=">>)
Tests == <<Id("n"), Below(Id("g"), 3), UnaryExpr("!", Id("d")), More, BoolLiteral(TRUE),
           BinaryExpr("!=", Id("n"), Id("x"))>>
Junctions ==
  Mapped(LAMBDA a :
    AllUses(Product(LAMBDA b, op : BinaryExpr(op, a, UnaryExpr("!", BinaryExpr(op, b, More))),
                    Tests, <<"&&", "||">>)), Tests)
Both(a, b) == CallExpr("both", <<a, b>>)
Nested ==
  <<AllUses(<<BinaryExpr("*", Plus(Id("n"), Id("d")), BinaryExpr("-", Id("g"), Id("x"))),
              UnaryExpr("-", Plus(Id("g"), Id("n"))), UnaryExpr("~", Id("n")),
              CallExpr("abs", <<Plus(Id("n"), Id("g"))>>), UnaryExpr("-", Id("limit"))>>),
    AllUses(<<BinaryExpr("==", Below(Id("n"), 2), Below(Id("g"), 2)),
              Plus(Below(Id("n"), 2), Id("g"))>>),
    AllUses(<<Both(More, More), Both(Both(Id("n"), More), Plus(More, Id("n")))>>)>>

\* Functions with parameters of several sizes, in and out of order of
\* alignment, that call each other and leave early.
Mix ==
  FunctionNode("mix", <<Parameter("a", NamedType("Int8")), Parameter("w", NamedType("Int32")),
                        Parameter("c", NamedType("Int16"))>>, NamedType("Int32"),
    BlockStmt(<<IfStmt(Below(Id("a"), 1), ReturnStmt(BinaryExpr("-", Id("w"), Id("c"))), Nothing),
                Local("Int16", "k", Plus(Id("c"), Id("a"))),
                ExprStmt(CallExpr("note", <<Id("k"), BinaryExpr("<", Id("k"), Id("w"))>>)),
                Store("n", Id("k")),
                ReturnStmt(Plus(Id("w"), Id("k")))>>))
Note ==
  FunctionNode("note", <<Parameter("value", NamedType("Uint8")), Parameter("wanted", BoolType)>>,
    VoidType,
    BlockStmt(<<IfStmt(UnaryExpr("!", Id("wanted")), ReturnStmt(Nothing), Nothing),
                Local("Bool", "seen", Nothing), Tell(Plus(Id("value"), Id("seen"))),
                Store("flag", Id("wanted"))>>))
MixOf(a, b, c) == CallExpr("mix", <<a, b, c>>)
Calling ==
  <<AllUses(<<MixOf(Id("n"), Id("d"), Id("g"))>>),
    AllUses(<<MixOf(Id("g"), Id("limit"), Id("d"))>>),
    AllUses(<<MixOf(More, MixOf(Id("g"), More, Id("x")), MixOf(Id("n"), Id("n"), More))>>),
    <<WhileStmt(MixOf(More, IntLiteral(0), More), BlockStmt(<<AssignStmt(Id("w"), "+=", IntLiteral(3)),
        ExprStmt(CallExpr("note", <<Id("w"), Id("flag")>>))>>))>>>>

ExpressionUnits ==
  Mapped(LAMBDA body : M!Unit(Symbols, Initial, <<Main(body), Mix, Note>>, <<13, 5, 2, 0, 9>>),
         Operations \o Divisions \o IntegerOperations \o Compounds \o Junctions \o Nested
           \o Calling)

-----------------------------------------------------------------------------
(***************************************************************************)
(* Sources with constants to fold, among variables and calls that stay.    *)
(***************************************************************************)
Infix(a, op, b) == BinaryExpr(op, IntLiteral(a), IntLiteral(b))
Foldable ==
  <<IntLiteral(5), IntLiteral(200), Infix(2, "-", 5), Infix(25, "*", 25), Infix(200, "/", 7),
    Infix(2, "<", 25), Plus(Id("n"), IntLiteral(200)),
    BinaryExpr("==", Infix(20, "*", 10), IntLiteral(200))>>
FoldedOperations ==
  FlattenSeq(Mapped(LAMBDA op :
    Mapped(LAMBDA a : AllUses(Mapped(LAMBDA b : BinaryExpr(op, a, b), Foldable)), Foldable),
    <<"-", "*", "/", "<", "!=">>))
FoldedIntegers ==
  Mapped(LAMBDA op : <<Store("w", Infix(300, op, 7)), Tell(Id("w")),
                       Store("w", BinaryExpr(op, Infix(2, "-", 40), Infix(1, "+", 2))),
                       Tell(Id("w"))>>,
         <<"%", "&", "|", "^", "<<", ">>">>)
\* && and || over constants, one that decides or one that does not, and a
\* call that is made or is not.
Deciding == <<IntLiteral(0), IntLiteral(2), Infix(3, "<", 2), BoolLiteral(TRUE), More>>
FoldedJunctions ==
  Mapped(LAMBDA op : AllUses(Product(LAMBDA a, b : BinaryExpr(op, a, BinaryExpr("&&", b, More)),
                                     Deciding, Deciding)
                             \o Product(LAMBDA a, b : BinaryExpr(op, a, b), Deciding, Deciding)),
         <<"&&", "||">>)
\* A local hides a global of another size, in its block and its initializer.
FoldedStatements ==
  <<<<BlockStmt(<<Local("Int8", "w", Plus(Id("w"), Infix(3, "*", 5))),
                  Store("w", BinaryExpr("-", Infix(4, "*", 4), Id("w"))), Tell(Id("w"))>>),
      Store("w", BinaryExpr("-", Infix(4, "*", 4), Id("w"))), Tell(Id("w"))>>,
    <<IfStmt(Infix(2, "<", 5), Tell(Infix(200, "+", 100)), Tell(IntLiteral(1))),
      IfStmt(Infix(5, "-", 5), Tell(IntLiteral(2)), ReturnStmt(Infix(200, "+", 100)))>>,
    <<ForStmt(Store("n", Infix(1, "+", 1)), BinaryExpr("<", Id("n"), Infix(2, "*", 4)),
              AssignStmt(Id("n"), "*=", Infix(1, "+", 1)),
              BlockStmt(<<Tell(Both(Infix(10, "+", 10), Infix(10, "*", 10)))>>)),
      WhileStmt(BinaryExpr("&&", Infix(1, "+", 1), More), ContinueStmt)>>,
    <<SwitchStmt(Infix(2, "*", 3),
        <<SwitchCase(Infix(4, "+", 1), <<Tell(Infix(1, "+", 1))>>),
          SwitchCase(Infix(4, "+", 2), <<Tell(Infix(2, "+", 1))>>)>>,
        <<Tell(Infix(3, "+", 1))>>)>>,
    <<Store("w", CallExpr("abs", <<Infix(2, "-", 40)>>)), Tell(Id("w"))>>>>
FoldedUnits ==
  Mapped(LAMBDA body : M!Unit(Symbols, Initial, <<Main(body), Mix, Note>>, <<13, 5, 2, 0, 9>>),
         FoldedOperations \o FoldedIntegers \o FoldedJunctions \o FoldedStatements
           \o Compounds \o Nested \o Calling)

AllUnits == StatementUnits \o ExpressionUnits \o FoldedUnits
FoldedOnes == Len(StatementUnits \o ExpressionUnits) + 1 .. Len(AllUnits)
MCUnits == AllUnits
MCOptimized == FoldedOnes

-----------------------------------------------------------------------------
(***************************************************************************)
(* Five things whose code is not what they mean, each seen in a place of   *)
(* its own when the program has ended: a number as a condition (flag), a   *)
(* local in a loop that is declared without a value (g), a call as a       *)
(* statement in a function called from an expression (w), an integer       *)
(* operation wanted in another kind (the result), and a switch on the      *)
(* value of a call (n).  docs/LANGUAGE.md says of the first four what they *)
(* mean; how often a switch computes its value it leaves to "C-like".      *)
(***************************************************************************)
DocumentedUnit ==
  M!Unit(Symbols @@ "seven" :> FunctionBindingOf(NamedType("Int8"), "BSS", 3, <<>>)
                 @@ "next" :> FunctionBindingOf(NamedType("Int8"), "BSS", 4, <<>>), Initial,
    <<FunctionNode("script_main", <<>>, NamedType("Int16"), BlockStmt(
        <<Local("Int8", "z", Nothing),
          IfStmt(BinaryExpr("-", Id("d"), IntLiteral(4)), Store("flag", BoolLiteral(TRUE)), Nothing),
          WhileStmt(Below(Id("z"), 2),
                    BlockStmt(<<Local("Int8", "k", Nothing), AssignStmt(Id("k"), "+=", IntLiteral(7)),
                                Store("g", Id("k")), AssignStmt(Id("z"), "+=", IntLiteral(1))>>)),
          Store("w", BinaryExpr("-", IntLiteral(100),
                                MixOf(IntLiteral(1), IntLiteral(2), IntLiteral(3)))),
          SwitchStmt(CallExpr("next", <<>>),
                     <<SwitchCase(IntLiteral(0), <<>>), SwitchCase(IntLiteral(1), <<>>),
                       SwitchCase(IntLiteral(2), <<>>)>>, <<>>),
          ReturnStmt(BinaryExpr("%", Id("w"), IntLiteral(5)))>>)),
      FunctionNode("mix", Mix.params, Mix.returnType,
                   BlockStmt(<<ExprStmt(CallExpr("seven", <<>>)), ReturnStmt(Id("w"))>>)),
      Note,
      FunctionNode("seven", <<>>, NamedType("Int8"), BlockStmt(<<ReturnStmt(IntLiteral(7))>>)),
      FunctionNode("next", <<>>, NamedType("Int8"),
                   BlockStmt(<<AssignStmt(Id("n"), "+=", IntLiteral(1)), ReturnStmt(IntLiteral(2))>>))>>, <<>>)
DocumentedUnits == <<DocumentedUnit>>
MCDocumentedUnits == DocumentedUnits
=============================================================================
