------------------------------- MODULE CovaAst -------------------------------
(***************************************************************************)
(* Abstract syntax (cova/ast.go) and the types of expressions              *)
(* (cova/types.go, the typing half of cova/compile.go).                    *)
(*                                                                         *)
(* A node is a record; `is` names its Go struct, the other fields are the  *)
(* struct's.  Line numbers are left out.  Nothing is Go's nil node.        *)
(***************************************************************************)
EXTENDS CovaTypes, TLC

(***************************************************************************)
(* A *Type.  The program has one object for every unqualified named type;  *)
(* a const-qualified or pointer type is an object of its own, and          *)
(* `left == right` in the code compares objects.  `object` is 0 for the    *)
(* shared ones, a number of its declaration for the others, and Fresh for  *)
(* one made on the spot, which is identical to no other.  `base` is the    *)
(* pointee of a pointer.                                                   *)
(***************************************************************************)
Fresh == -1
TypeObject(kind, isConst, object, base) ==
  [kind |-> kind, const |-> isConst, object |-> object, base |-> base]
NamedType(kind) == TypeObject(kind, FALSE, 0, "none")
ConstType(kind, object) == TypeObject(kind, TRUE, object, "none")
PointerTo(base, object) == TypeObject("Pointer", FALSE, object, base)

NoType == NamedType("Invalid")
BoolType == NamedType("Bool")
Int32Type == NamedType("Int32")
VoidType == NamedType("Void")
\* PointerTo(QualifiedType(Uint8Type, true)), the type of a string literal.
TextType == PointerTo("const Uint8", Fresh)

valueKindFromType(type) ==
  CASE type.kind = "Invalid" -> "None"
    [] type.kind = "Pointer" -> "Address"
    [] OTHER -> type.kind

\* The kind a value is computed in: int32 where the type gives none.
KindOr32(type) ==
  IF valueKindFromType(type) = "None" THEN "Int32" ELSE valueKindFromType(type)

SameObject(left, right) == left = right /\ left.object # Fresh

\* The first of these kinds that one operand has decides.
PromotionOrder ==
  <<"Float64", "Float32", "Uint64", "Int64", "Uint32", "Uint16", "Uint8", "Byte">>

PromotedKind(kinds) ==
  LET deciding == SelectSeq(PromotionOrder, LAMBDA kind : kind \in kinds)
  IN  CASE deciding = <<>> -> "Int32"
        [] deciding # <<>> /\ Head(deciding) = "Byte" -> "Uint8"
        [] OTHER -> Head(deciding)
promoteNumericType(left, right) ==
  CASE left = NoType -> right
    [] left # NoType /\ (right = NoType \/ SameObject(left, right)) -> left
    [] OTHER -> NamedType(PromotedKind({left.kind, right.kind}))

-----------------------------------------------------------------------------
(***************************************************************************)
(* Expressions.  A number literal has the kind of its own type: Bool,      *)
(* Int32, Float32 or Float64.  Floating-point numbers are fixed-point      *)
(* here, in units of 1 / FloatUnit.                                        *)
(***************************************************************************)
FloatUnit == 4

Nothing == [is |-> "nothing"]
NumberLiteral(kind, value) == [is |-> "number", kind |-> kind, value |-> value]
StringLiteral(text) == [is |-> "string", text |-> text]
IdentNode(name) == [is |-> "ident", name |-> name]
UnaryExpr(op, operand) == [is |-> "unary", op |-> op, operand |-> operand]
BinaryExpr(op, left, right) ==
  [is |-> "binary", op |-> op, left |-> left, right |-> right]
CallExpr(callee, args) == [is |-> "call", callee |-> callee, args |-> args]

IntLiteral(n) == NumberLiteral("Int32", n)
BoolLiteral(b) == NumberLiteral("Bool", IF b THEN 1 ELSE 0)

ExpressionNodes == {"number", "string", "ident", "unary", "binary", "call"}

LogicalOperators == {"&&", "||"}
comparisonOperators ==
  [op \in {"==", "!=", "<", "<=", ">", ">="} |->
     CASE op = "==" -> "Equal" [] op = "!=" -> "NotEqual"
       [] op = "<" -> "Less" [] op = "<=" -> "LessEqual"
       [] op = ">" -> "Greater" [] op = ">=" -> "GreaterEqual"]
arithmeticOperators ==
  [op \in {"+", "-", "*", "/", "%", "&", "|", "^", "<<", ">>"} |->
     CASE op = "+" -> "Add" [] op = "-" -> "Sub" [] op = "*" -> "Mul"
       [] op = "/" -> "Div" [] op = "%" -> "Modulo" [] op = "&" -> "BitwiseAnd"
       [] op = "|" -> "BitwiseOr" [] op = "^" -> "BitwiseXor"
       [] op = "<<" -> "ShiftLeft" [] op = ">>" -> "ShiftRight"]
isComparisonOperator(op) == op \in DOMAIN comparisonOperators
isIntegerBinaryOperator(op) == op \in {"%", "&", "|", "^", "<<", ">>"}

\* lookupBuiltInOperation
BuiltInOperation ==
  [abs |-> "Abs", sin |-> "Sin", cos |-> "Cos", tan |-> "Tan", asin |-> "Asin",
   acos |-> "Acos", atan |-> "Atan", pow |-> "Pow", sqrt |-> "Sqrt"]
IsBuiltIn(name) == name \in DOMAIN BuiltInOperation
BuiltInArity(name) == IF name = "pow" THEN 2 ELSE 1

NumericKinds == IntegerKinds \cup FloatKinds \cup {"Bool"}

-----------------------------------------------------------------------------
(* Statements.  The clauses of a for statement may be Nothing, as may the  *)
(* else branch, the value of a return and an initializer.                  *)
BlockStmt(statements) == [is |-> "block", statements |-> statements]
LocalDeclStmt(type, name, initializer) ==
  [is |-> "local", type |-> type, name |-> name, initializer |-> initializer]
IfStmt(condition, then, else) ==
  [is |-> "if", condition |-> condition, then |-> then, else |-> else]
WhileStmt(condition, body) ==
  [is |-> "while", condition |-> condition, body |-> body]
ForStmt(init, condition, post, body) ==
  [is |-> "for", init |-> init, condition |-> condition, post |-> post,
   body |-> body]
SwitchCase(value, body) == [value |-> value, body |-> body]
SwitchStmt(value, cases, default) ==
  [is |-> "switch", value |-> value, cases |-> cases, default |-> default]
ReturnStmt(value) == [is |-> "return", value |-> value]
ExprStmt(expr) == [is |-> "expr", expr |-> expr]
AssignStmt(target, op, value) ==
  [is |-> "assign", target |-> target, op |-> op, value |-> value]
BreakStmt == [is |-> "break"]
ContinueStmt == [is |-> "continue"]

compoundBinaryOperators ==
  "+=" :> "+" @@ "-=" :> "-" @@ "*=" :> "*" @@ "/=" :> "/" @@ "%=" :> "%" @@
  "<<=" :> "<<" @@ ">>=" :> ">>" @@ "&=" :> "&" @@ "^=" :> "^" @@ "|=" :> "|"

\* A parameter, and a function with a body.
Parameter(name, type) == [name |-> name, type |-> type]
FunctionNode(name, params, returnType, body) ==
  [name |-> name, params |-> params, returnType |-> returnType, body |-> body]

\* A declaration without a body; index is -1 unless it is extern.
TopLevelDecl(kind, scope, index, name, type, params, initializer) ==
  [kind |-> kind, scope |-> scope, index |-> index, name |-> name, type |-> type,
   params |-> params, initializer |-> initializer]
ExternFunctionDecl(index, name, type, params) ==
  TopLevelDecl("function", "Extern", index, name, type, params, Nothing)
ExternVariableDecl(index, name, type) ==
  TopLevelDecl("variable", "Extern", index, name, type, <<>>, Nothing)
GlobalDecl(name, type, initializer, scope) ==
  TopLevelDecl("variable", scope, -1, name, type, <<>>, initializer)

(***************************************************************************)
(* A symbol binding: a variable at an offset of its segment, an extern     *)
(* function with its slot, or a script function with its index among the   *)
(* script functions (CovaToolchain models the numbering and renumbering).  *)
(***************************************************************************)
VariableBinding(type, scope, offset) ==
  [declares |-> "variable", type |-> type, scope |-> scope, index |-> offset,
   paramTypes |-> <<>>]
FunctionBindingOf(type, scope, index, paramTypes) ==
  [declares |-> "function", type |-> type, scope |-> scope, index |-> index,
   paramTypes |-> paramTypes]
=============================================================================
