------------------------------ MODULE MCFolding ------------------------------
(***************************************************************************)
(* The expressions that are folded.                                        *)
(***************************************************************************)
EXTENDS CovaFolding

Var(kind) == VariableBinding(NamedType(kind), "BSS", 0)
MCFoldSymbols ==
  "g" :> Var("Int8") @@ "d" :> Var("Uint8") @@ "x" :> Var("Uint16") @@ "w" :> Var("Int32") @@
  "r" :> Var("Float32") @@ "s" :> Var("Float64") @@
  "more" :> FunctionBindingOf(NamedType("Int8"), "Extern", 0, <<>>) @@
  "scale" :> FunctionBindingOf(NamedType("Float32"), "Extern", 1,
                               <<NamedType("Float64"), NamedType("Uint8")>>)
MCFoldValues == [g |-> 13, d |-> 9, x |-> 200, w |-> 300, r |-> 6, s |-> -5]
MCFoldAnswers == <<2, 3, 1, 0, 2>>

Number(n) == IntLiteral(n)
Half == NumberLiteral("Float32", 2)
Third == NumberLiteral("Float64", 13)
Mapped(f(_), s) == [k \in DOMAIN s |-> f(s[k])] \o <<>>
\* The pairs of two lists, combined.
Product(Combine(_, _), s, t) ==
  [k \in 1 .. Len(s) * Len(t) |->
     Combine(s[1 + ((k - 1) \div Len(t))], t[1 + ((k - 1) % Len(t))])] \o <<>>
Combined(ops, lefts, rights) ==
  FlattenSeq(Mapped(LAMBDA op : Product(LAMBDA a, b : BinaryExpr(op, a, b), lefts, rights), ops))
In(kinds, expressions, constant) ==
  Product(LAMBDA e, kind : Source(e, kind, constant), expressions, kinds)

Arithmetic == <<"+", "-", "*", "/">>
Comparisons == <<"==", "<", ">=">>
NumericList == <<"Int8", "Uint8", "Uint16", "Int32", "Float32", "Float64">>

Literals == <<Number(0), Number(3), Number(200), Half, Third>>
Sums == Combined(Arithmetic, Literals, Literals)
Constants ==
  Sums \o Combined(Arithmetic, Sums, <<Number(7)>>) \o Combined(<<"-", "/">>, <<Number(40)>>, Sums)
Compared == Combined(Comparisons, Literals, Literals) \o Combined(Comparisons, Sums, <<Number(2)>>)

\* Integer operators in int32, which their literals have.
Bits == Combined(<<"%", "&", "|", "^", "<<", ">>">>,
                 <<Number(0), Number(300), BinaryExpr("-", Number(3), Number(40))>>,
                 <<Number(0), Number(5), BinaryExpr("-", Number(2), Number(9))>>)

\* Truth of integers; a division by zero behind what decides, and before.
Zero == BinaryExpr("/", Number(1), BinaryExpr("-", Number(3), Number(3)))
Truths == <<Number(0), Number(6), BoolLiteral(TRUE), BinaryExpr("<", Half, Number(0)),
            BinaryExpr("<", Zero, Number(1))>>
Junctions == Combined(<<"&&", "||">>, Truths, Truths)
NestedJunctions == Combined(<<"&&", "||">>, Junctions, <<Number(1), BinaryExpr("<", Zero, Number(1))>>)

\* With what cannot be folded: variables, calls, unary operators.
More == CallExpr("more", <<>>)
Scale(a, b) == CallExpr("scale", <<a, b>>)
Open ==
  Mapped(IdentNode, <<"g", "d", "x", "w", "r", "s">>)
  \o <<UnaryExpr("-", BinaryExpr("*", Number(30), Half)), UnaryExpr("!", BinaryExpr("-", Number(2), Number(2))),
       More, Scale(BinaryExpr("/", Number(1), Number(2)), BinaryExpr("*", Number(10), Number(10)))>>
OpenTerms == <<Number(3), BinaryExpr("/", Number(7), Number(2)), BinaryExpr("*", Number(90), Half)>>
OpenExpressions ==
  Combined(Arithmetic, Open, OpenTerms) \o Combined(Arithmetic, OpenTerms, Open)
  \o Combined(Comparisons, Open, OpenTerms)
OpenJunctions ==
  Combined(<<"&&", "||">>,
           Combined(<<"&&", "||">>, <<Number(0), Number(2), More>>, <<More, BinaryExpr("<", Number(1), Number(2))>>),
           <<More, Number(0), BinaryExpr("==", IdentNode("w"), BinaryExpr("*", Number(3), Number(100)))>>)

AllFoldSources ==
  In(NumericList, Constants, TRUE) \o In(<<"Bool", "Int32", "Float32">>, Compared, TRUE)
  \o In(<<"Int32">>, Bits, TRUE) \o In(<<"Bool", "Uint8">>, Junctions \o NestedJunctions, TRUE)
  \o In(NumericList, OpenExpressions, FALSE) \o In(<<"Bool", "Int32">>, OpenJunctions, FALSE)
MCFoldSources == AllFoldSources

=============================================================================
