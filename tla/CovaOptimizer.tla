---------------------------- MODULE CovaOptimizer ----------------------------
(***************************************************************************)
(* Constant folding over the syntax tree (cova/optimize.go).  It keeps its *)
(* own types, conversions and arithmetic (CovaFoldingArith), apart from    *)
(* those of the compiler and the machine.                                  *)
(***************************************************************************)
EXTENDS CovaFoldingArith, SequencesExt

(***************************************************************************)
(* o: `symbols` are the globals and functions, `locals` the types of the   *)
(* locals in scope by name, `nodes` the trees rewritten so far, the last   *)
(* one last; error is the first that was met, nothing is done after it.    *)
(***************************************************************************)
newOptimizer(symbols) ==
  [symbols |-> symbols, locals |-> <<>>, returnType |-> VoidType, nodes |-> <<>>,
   error |-> "none"]

\* The last n nodes replaced by the one made of them.
Rebuilt(o, n, make(_)) ==
  IF o.error # "none" THEN o
  ELSE [o EXCEPT !.nodes =
          Append(SubSeq(@, 1, Len(@) - n), make(SubSeq(@, Len(@) - n + 1, Len(@))))]
Kept(o, node) == Rebuilt(o, 0, LAMBDA none : node)
Rewritten(o) == Last(o.nodes)

-----------------------------------------------------------------------------
(* Types: those of the compiler, except that a built-in call and a string  *)
(* have none.                                                              *)
DeclaredType(o, name, sort) ==
  IF name \in DOMAIN o.symbols /\ o.symbols[name].declares = sort
  THEN o.symbols[name].type ELSE NoType

Children(e) ==
  CASE e.is = "unary" -> <<e.operand>>
    [] e.is = "binary" -> <<e.left, e.right>>
    [] OTHER -> <<>>
TypeFrom(o, e, types) ==
  CASE e.is = "number" -> NamedType(e.kind)
    [] e.is = "ident" -> IF e.name \in DOMAIN o.locals THEN o.locals[e.name]
                         ELSE DeclaredType(o, e.name, "variable")
    [] e.is = "unary" -> IF e.op = "!" THEN BoolType ELSE types[1]
    [] e.is = "binary" ->
         IF e.op \in LogicalOperators \/ isComparisonOperator(e.op) THEN BoolType
         ELSE promoteNumericType(types[1], types[2])
    [] e.is = "call" -> DeclaredType(o, e.callee, "function")
    [] OTHER -> NoType
RECURSIVE typeOf(_, _)
ChildTypes(o, e) ==
  [i \in DOMAIN Children(e) |-> typeOf(o, Children(e)[i])] \o <<>>
\* optimizer.exprType
typeOf(o, e) == TypeFrom(o, e, ChildTypes(o, e))

-----------------------------------------------------------------------------
(* Expressions.  An item is a tree and the type expected of it, NoType for *)
(* none and for statements; all recursion goes through optimizeNext.       *)
RECURSIVE optimizeItem(_, _)
optimizeNext(o, item) == optimizeItem(o, item)
optimizeEach(o, items) == FoldLeft(optimizeNext, o, items)

IsLiteral(e) == e.is = "number"

FoldOperands(o, e, kind, left, right) ==
  CASE o.error # "none" -> o
    [] o.error = "none" /\ ~(IsLiteral(left) /\ IsLiteral(right)) ->
         Rebuilt(o, 2, LAMBDA both : BinaryExpr(e.op, both[1], both[2]))
    [] o.error = "none" /\ IsLiteral(left) /\ IsLiteral(right) ->
         IF DividesByZero(e.op, kind, right)
         THEN [o EXCEPT !.error = "division by zero"]
         ELSE Rebuilt(o, 2, LAMBDA both : Folded(e.op, kind, both[1], both[2]))
FoldBoth(o, e, kind) == FoldOperands(o, e, kind, o.nodes[Len(o.nodes) - 1], Rewritten(o))

\* Mutant of OperationType: comparisons in the type that is expected.
OperationTypeExpected(o, e, expected) ==
  IF expected # NoType THEN expected ELSE typeOf(o, e)
\* The type the operands of a binary operator are folded in.
OperationType(o, e, expected) ==
  LET types == ChildTypes(o, e)
  IN  CASE isComparisonOperator(e.op) -> promoteNumericType(types[1], types[2])
        [] ~isComparisonOperator(e.op) /\ expected # NoType -> expected
        [] OTHER -> typeOf(o, e)
optimizeBinaryIn(o, e, type) ==
  FoldBoth(optimizeEach(o, << <<e.left, type>>, <<e.right, type>> >>), e,
           optimizerKindFromType(type))
optimizeBinary(o, e, expected) ==
  optimizeBinaryIn(o, e, IF OperationType(o, e, expected) = NoType THEN Int32Type
                         ELSE OperationType(o, e, expected))

\* Mutant of LeftDecides: both operands are always looked at.
LeftDecidesNever(e, left) == FALSE
\* Operands of && and || are folded as int32.
TruthOf(literal) == optimizerLiteralBits(literal, "Int32") # 0
LeftDecides(e, left) ==
  IsLiteral(left) /\ ((e.op = "||") <=> TruthOf(left))
Joined(e, left, right) ==
  CASE ~(IsLiteral(left) /\ IsLiteral(right)) -> BinaryExpr(e.op, left, right)
    [] IsLiteral(left) /\ IsLiteral(right) /\ e.op = "&&" ->
         optimizerBoolInt(TruthOf(left) /\ TruthOf(right))
    [] OTHER -> optimizerBoolInt(TruthOf(left) \/ TruthOf(right))
optimizeRight(o, e) ==
  CASE o.error # "none" -> o
    [] o.error = "none" /\ LeftDecides(e, Rewritten(o)) ->
         Rebuilt(o, 1, LAMBDA left : optimizerBoolInt(TruthOf(left[1])))
    [] OTHER -> Rebuilt(optimizeEach(o, << <<e.right, Int32Type>> >>), 2,
                        LAMBDA both : Joined(e, both[1], both[2]))
optimizeLogical(o, e) ==
  optimizeRight(optimizeEach(o, << <<e.left, Int32Type>> >>), e)

\* An argument that no parameter is known for has no expected type: those of
\* the built-ins.
ParameterType(o, e, i) ==
  IF /\ e.callee \in DOMAIN o.symbols
     /\ o.symbols[e.callee].declares = "function"
     /\ i \in DOMAIN o.symbols[e.callee].paramTypes
  THEN o.symbols[e.callee].paramTypes[i] ELSE NoType
optimizeCall(o, e) ==
  Rebuilt(optimizeEach(o, [i \in DOMAIN e.args |->
                             <<e.args[i], ParameterType(o, e, i)>>] \o <<>>),
          Len(e.args), LAMBDA args : CallExpr(e.callee, args))

optimizeExpr(o, e, expected) ==
  CASE e.is = "unary" ->
         Rebuilt(optimizeEach(o, << <<e.operand, typeOf(o, e.operand)>> >>), 1,
                 LAMBDA operand : UnaryExpr(e.op, operand[1]))
    [] e.is = "binary" -> IF e.op \in LogicalOperators THEN optimizeLogical(o, e)
                          ELSE optimizeBinary(o, e, expected)
    [] e.is = "call" -> optimizeCall(o, e)
    [] OTHER -> Kept(o, e)

-----------------------------------------------------------------------------
(* Statements.  A clause that is missing stays missing.                    *)
StatementItems(statements) ==
  [k \in DOMAIN statements |-> <<statements[k], NoType>>] \o <<>>
optimizeBlock(o, s) ==
  [Rebuilt(optimizeEach(o, StatementItems(s.statements)), Len(s.statements), BlockStmt)
     EXCEPT !.locals = o.locals]

\* The local is visible behind its initializer.
DeclaredLocal(o, s) == [o EXCEPT !.locals = s.name :> s.type @@ @]
optimizeLocal(o, s) ==
  DeclaredLocal(Rebuilt(optimizeEach(o, << <<s.initializer, s.type>> >>), 1,
                        LAMBDA i : LocalDeclStmt(s.type, s.name, i[1])), s)

\* The value of a switch and of its cases each in its own type, bodies after
\* their value.
CaseItems(o, case) ==
  << <<case.value, typeOf(o, case.value)>> >> \o StatementItems(case.body)
optimizeCase(o, case) ==
  Rebuilt(optimizeEach(o, CaseItems(o, case)), 1 + Len(case.body),
          LAMBDA parts : SwitchCase(parts[1], Tail(parts)))
optimizeSwitch(o, s) ==
  Rebuilt(optimizeEach(FoldLeft(optimizeCase,
                         optimizeEach(o, << <<s.value, typeOf(o, s.value)>> >>), s.cases),
                       StatementItems(s.default)),
          1 + Len(s.cases) + Len(s.default),
          LAMBDA parts : SwitchStmt(parts[1], SubSeq(parts, 2, 1 + Len(s.cases)),
                                    SubSeq(parts, 2 + Len(s.cases), Len(parts))))

\* Conditions are folded as int32.
optimizeStmt(o, s) ==
  CASE s.is = "block" -> optimizeBlock(o, s)
    [] s.is = "local" -> optimizeLocal(o, s)
    [] s.is = "if" ->
         Rebuilt(optimizeEach(o, << <<s.condition, Int32Type>>, <<s.then, NoType>>,
                                    <<s.else, NoType>> >>),
                 3, LAMBDA parts : IfStmt(parts[1], parts[2], parts[3]))
    [] s.is = "while" ->
         Rebuilt(optimizeEach(o, << <<s.condition, Int32Type>>, <<s.body, NoType>> >>),
                 2, LAMBDA parts : WhileStmt(parts[1], parts[2]))
    [] s.is = "for" ->
         Rebuilt(optimizeEach(o, << <<s.init, NoType>>, <<s.condition, Int32Type>>,
                                    <<s.post, NoType>>, <<s.body, NoType>> >>),
                 4, LAMBDA parts : ForStmt(parts[1], parts[2], parts[3], parts[4]))
    [] s.is = "switch" -> optimizeSwitch(o, s)
    [] s.is = "return" ->
         Rebuilt(optimizeEach(o, << <<s.value, o.returnType>> >>), 1,
                 LAMBDA value : ReturnStmt(value[1]))
    [] s.is = "expr" ->
         Rebuilt(optimizeEach(o, << <<s.expr, typeOf(o, s.expr)>> >>), 1,
                 LAMBDA call : ExprStmt(call[1]))
    [] s.is = "assign" ->
         Rebuilt(optimizeEach(o, << <<s.value, typeOf(o, s.target)>> >>), 1,
                 LAMBDA value : AssignStmt(s.target, s.op, value[1]))
    [] OTHER -> Kept(o, s)

optimizeItem(o, item) ==
  CASE o.error # "none" -> o
    [] o.error = "none" /\ item[1].is \in ExpressionNodes ->
         optimizeExpr(o, item[1], item[2])
    [] o.error = "none" /\ item[1] = Nothing -> Kept(o, Nothing)
    [] OTHER -> optimizeStmt(o, item[1])

(***************************************************************************)
(* optimizeProgram: the initializers of the declarations, then the bodies  *)
(* of the functions, in order, up to the first error.                      *)
(***************************************************************************)
optimizeDecl(o, decl) ==
  Rebuilt(optimizeEach(o, << <<decl.initializer, decl.type>> >>), 1,
          LAMBDA i : [decl EXCEPT !.initializer = i[1]])
optimizeFunction(o, f) ==
  Rebuilt(optimizeEach([o EXCEPT
             !.returnType = f.returnType,
             !.locals = [name \in {f.params[p].name : p \in DOMAIN f.params} |->
                           f.params[CHOOSE p \in DOMAIN f.params :
                                      f.params[p].name = name].type]],
             << <<f.body, NoType>> >>),
          1, LAMBDA body : FunctionNode(f.name, f.params, f.returnType, body[1]))
Optimize(symbols, decls, functions) ==
  FoldLeft(optimizeFunction, FoldLeft(optimizeDecl, newOptimizer(symbols), decls), functions)
=============================================================================
