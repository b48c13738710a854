----------------------------- MODULE CovaTyping ------------------------------
(***************************************************************************)
(* The types of expressions: exprType and its helpers (cova/compile.go).   *)
(* fc is anything with the fields `symbols`, bindings by name, and         *)
(* `locals`, a record with the type of every local in scope.               *)
(***************************************************************************)
EXTENDS CovaAst

SymbolType(fc, name) ==
  IF name \in DOMAIN fc.symbols THEN fc.symbols[name].type ELSE NoType

Operands(e) ==
  CASE e.is = "unary" -> <<e.operand>>
    [] e.is = "binary" -> <<e.left, e.right>>
    [] e.is = "call" -> e.args
    [] OTHER -> <<>>

RECURSIVE exprType(_, _)
OperandTypes(fc, e) ==
  [i \in DOMAIN Operands(e) |-> exprType(fc, Operands(e)[i])] \o <<>>

PowType(promoted) ==
  IF valueKindFromType(promoted) \in IntegerKinds THEN NamedType("Float64")
  ELSE promoted
builtInResultType(callee, argTypes) ==
  CASE Len(argTypes) # BuiltInArity(callee) -> NoType
    [] callee = "pow" /\ Len(argTypes) = 2 ->
         PowType(promoteNumericType(argTypes[1], argTypes[2]))
    [] callee = "abs" /\ Len(argTypes) = 1 -> argTypes[1]
    [] OTHER -> IF valueKindFromType(argTypes[1]) = "Float32" THEN argTypes[1]
                ELSE NamedType("Float64")

\* The type of e, those of its operands given.
TypeOver(fc, e, types) ==
  CASE e.is = "number" -> NamedType(e.kind)
    [] e.is = "string" -> TextType
    [] e.is = "ident" -> IF e.name \in DOMAIN fc.locals
                         THEN fc.locals[e.name].type ELSE SymbolType(fc, e.name)
    [] e.is = "unary" -> IF e.op = "!" THEN BoolType ELSE types[1]
    [] e.is = "binary" ->
         IF e.op \in LogicalOperators \/ isComparisonOperator(e.op) THEN BoolType
         ELSE promoteNumericType(types[1], types[2])
    [] e.is = "call" -> IF IsBuiltIn(e.callee)
                        THEN builtInResultType(e.callee, types)
                        ELSE SymbolType(fc, e.callee)
exprType(fc, e) == TypeOver(fc, e, OperandTypes(fc, e))
=============================================================================
