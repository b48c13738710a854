----------------------------- MODULE CovaCompiler ----------------------------
(***************************************************************************)
(* The statement and expression compiler: functionCompiler of              *)
(* cova/compile.go.  Each of its methods is an operator from the state of  *)
(* the functionCompiler, fc, to the next.                                  *)
(*                                                                         *)
(* Code is a list of instructions: a position is the number of an          *)
(* instruction, not an address, and the operand of a jump is a position    *)
(* until CovaAsm lays the list out.                                        *)
(***************************************************************************)
EXTENDS CovaTyping, CovaArith, CovaMemory, CovaAsm

(***************************************************************************)
(* fc: `locals` is localSlots and localTypes together, nilMap says that    *)
(* both are nil (a nil map reads as empty and panics when written);        *)
(* `scopes` is localScopeStack, `control` is controlStack.  err is the     *)
(* first failure; nothing is done after it.                                *)
(***************************************************************************)
NoError == "none"
Panic == "panic: assignment to entry in nil map"

fail(fc, error) == IF fc.err = NoError THEN [fc EXCEPT !.err = error] ELSE fc

Emit(fc, instruction) ==
  IF fc.err = NoError THEN [fc EXCEPT !.code = Append(@, instruction)] ELSE fc

\* Where the next instruction goes, where the last one is.
NextPosition(fc) == Len(fc.code) + 1
LastPosition(fc) == Len(fc.code)

PatchedCode(code, positions, target) ==
  [k \in DOMAIN code |->
     IF k \in positions THEN [code[k] EXCEPT !.operand = target]
                        ELSE code[k]] \o <<>>
\* patchOperand of every position to the next instruction.
PatchHere(fc, positions) ==
  IF fc.err = NoError
  THEN [fc EXCEPT !.code = PatchedCode(@, positions, NextPosition(fc))] ELSE fc

\* The table of an interned string: its offset, at the end if it is new.
internStringLiteral(pool, text) ==
  IF text \in DOMAIN pool.offsets THEN pool
  ELSE [offsets |-> pool.offsets @@ (text :> pool.size),
        size |-> pool.size + Len(text) + 1]

-----------------------------------------------------------------------------
(***************************************************************************)
(* Expressions.                                                            *)
(***************************************************************************)
\* The pattern of a floating-point number: only zero and the sign matter.
FloatPattern(kind, number) ==
  IF number >= 0 THEN number ELSE Modulus(Size(kind)) \div 2 - number

numberLiteralBits(literal, kind) ==
  LET float == literal.kind \in FloatKinds
      number == IF float THEN TruncatedQuotient(literal.value, FloatUnit)
                ELSE literal.value
  IN  CASE kind = "Bool" -> Truth(literal.value)
        [] kind \in FloatKinds ->
             FloatPattern(kind, IF float THEN literal.value
                                ELSE literal.value * FloatUnit)
        [] Size(kind) = 0 -> 0
        [] OTHER -> Wrap(number, Size(kind))

\* Mutant of emitConvertIfNeeded: kinds of one size are taken for the same.
emitConvertIfResized(fc, from, to) ==
  IF fc.err # NoError \/ Size(from) = Size(to) \/ "None" \in {from, to} THEN fc
  ELSE IF {from, to} \subseteq NumericKinds THEN Emit(fc, Convert(from, to))
  ELSE fail(fc, "unsupported conversion")
emitConvertIfNeeded(fc, from, to) ==
  IF fc.err # NoError \/ from = to \/ "None" \in {from, to} THEN fc
  ELSE IF {from, to} \subseteq NumericKinds THEN Emit(fc, Convert(from, to))
  ELSE fail(fc, "unsupported conversion")

SegmentOf(scope) ==
  CASE scope = "BSS" -> segmentBSS
    [] scope = "Data" -> segmentData
    [] scope = "Const" -> segmentConst
    [] scope = "Extern" -> segmentExtern

\* A local hides a global of the same name.
astEmitAddress(fc, name) ==
  IF name \in DOMAIN fc.locals
  THEN Emit(fc, Addr(segmentFrame, fc.locals[name].offset))
  ELSE IF name \in DOMAIN fc.symbols /\ fc.symbols[name].declares = "variable"
  THEN Emit(fc, Addr(SegmentOf(fc.symbols[name].scope), fc.symbols[name].index))
  ELSE fail(fc, "unknown variable")

(***************************************************************************)
(* An item is an expression with the type it is wanted in, or a statement  *)
(* with NoType.  All recursion goes through compileNext.                   *)
(***************************************************************************)
RECURSIVE compileItem(_, _)
compileNext(fc, item) == compileItem(fc, item)
compileEach(fc, items) == FoldLeft(compileNext, fc, items)
compileAs(fc, e, type) == compileEach(fc, << <<e, type>> >>)

compileString(fc, e, expected) ==
  IF expected.kind # "Pointer" \/ expected.base # "const Uint8"
  THEN fail(fc, "string literal is not assignable")
  ELSE LET pool == internStringLiteral(fc.pool, e.text)
       IN  Emit([fc EXCEPT !.pool = pool], Addr(segmentConst, pool.offsets[e.text]))

compileIdent(fc, e, type, kind) ==
  LET actualKind == IF type = NoType THEN kind ELSE KindOr32(type)
  IN  emitConvertIfNeeded(Emit(astEmitAddress(fc, e.name), Deref(actualKind)),
                          actualKind, kind)

\* !e is e == 0, -e is 0 - e and ~e is e ^ ~0, each in the kind of e.
UnaryOperands == ("!" :> NumericKinds) @@ ("-" :> NumericKinds \ {"Bool"})
                   @@ ("~" :> IntegerKinds)
UnaryInstruction(op, own) ==
  CASE op = "!" -> Comp(own, "Equal")
    [] op = "-" -> Arith(own, "Sub")
    [] op = "~" -> Arith(own, "BitwiseXor")
compileUnaryIn(fc, e, type, own, kind) ==
  LET other == Push(own, IF e.op = "~" THEN Modulus(Size(own)) - 1 ELSE 0)
      both == IF e.op = "-" THEN compileAs(Emit(fc, other), e.operand, type)
              ELSE Emit(compileAs(fc, e.operand, type), other)
  IN  IF own = "None" THEN fail(fc, "invalid operand")
      ELSE IF own \notin UnaryOperands[e.op] THEN fail(fc, "wrong operand")
      ELSE emitConvertIfNeeded(Emit(both, UnaryInstruction(e.op, own)),
                               IF e.op = "!" THEN "Bool" ELSE own, kind)
compileUnary(fc, e, type, kind) ==
  compileUnaryIn(fc, e, type, valueKindFromType(type), kind)

emitBooleanConstant(fc, value) == Emit(fc, Push("Bool", IF value THEN 1 ELSE 0))

\* A condition and the jump taken when it is false.
compileTest(fc, e) == Emit(compileAs(fc, e, BoolType), JumpIfFalse(0))

\* && and || jump over what they need not evaluate.  left and right are the
\* code up to the first and the second test.
\* Mutant of compileAnd: the second test is not patched.
compileAndUnpatched(left, right) ==
  LET yes == Emit(emitBooleanConstant(right, TRUE), Jump(0))
      no == emitBooleanConstant(PatchHere(yes, {LastPosition(left)}), FALSE)
  IN  PatchHere(no, {LastPosition(yes)})
compileAnd(left, right) ==
  LET yes == Emit(emitBooleanConstant(right, TRUE), Jump(0))
      no == emitBooleanConstant(
              PatchHere(yes, {LastPosition(left), LastPosition(right)}), FALSE)
  IN  PatchHere(no, {LastPosition(yes)})

\* short is the code up to the end of the first true.
compileOrLeft(left) == Emit(emitBooleanConstant(left, TRUE), Jump(0))
\* Mutant of compileOr: the second true runs on into the false.
compileOrRunsOn(short, right) ==
  LET yes == emitBooleanConstant(right, TRUE)
      no == emitBooleanConstant(PatchHere(yes, {LastPosition(right)}), FALSE)
  IN  PatchHere(no, {LastPosition(short)})
compileOr(short, right) ==
  LET yes == Emit(emitBooleanConstant(right, TRUE), Jump(0))
      no == emitBooleanConstant(PatchHere(yes, {LastPosition(right)}), FALSE)
  IN  PatchHere(no, {LastPosition(short), LastPosition(yes)})

compileLogical(left, e) ==
  LET short == compileOrLeft(left)
  IN  IF e.op = "&&" THEN compileAnd(left, compileTest(left, e.right))
      ELSE compileOr(short, compileTest(PatchHere(short, {LastPosition(left)}), e.right))
compileLogicalExpr(fc, e, kind) ==
  emitConvertIfNeeded(compileLogical(compileTest(fc, e.left), e), "Bool", kind)

\* The type both operands of a binary operator are compiled in, NoType if
\* there is none.
BinaryOperandType(e, types, expected) ==
  IF isComparisonOperator(e.op) \/ isIntegerBinaryOperator(e.op) \/ expected = NoType
  THEN promoteNumericType(types[1], types[2]) ELSE expected

\* The result of an arithmetic operator is left in the operand type: only a
\* comparison is converted to the expected kind.
compileBinaryIn(fc, e, type, own, kind) ==
  LET operands == compileEach(fc, << <<e.left, type>>, <<e.right, type>> >>)
      compared == isComparisonOperator(e.op)
      result == Emit(operands, IF compared THEN Comp(own, comparisonOperators[e.op])
                               ELSE Arith(own, arithmeticOperators[e.op]))
  IN  IF isIntegerBinaryOperator(e.op) /\ own \notin IntegerKinds
      THEN fail(fc, "integer operands required")
      ELSE IF compared THEN emitConvertIfNeeded(result, "Bool", kind) ELSE result
compileBinary(fc, e, type, kind) ==
  compileBinaryIn(fc, e, IF valueKindFromType(type) = "None" THEN Int32Type ELSE type,
                  KindOr32(type), kind)

compileCall(fc, e, kind) ==
  LET binding == fc.symbols[e.callee]
      pushed == compileEach(fc, [i \in DOMAIN e.args |->
                                   <<e.args[i], binding.paramTypes[i]>>] \o <<>>)
  IN  IF e.callee \notin DOMAIN fc.symbols \/ binding.declares # "function"
      THEN fail(fc, "unknown function")
      ELSE IF Len(e.args) # Len(binding.paramTypes) THEN fail(fc, "wrong arguments")
      ELSE emitConvertIfNeeded(
             Emit(pushed, IF binding.scope = "Extern" THEN CallExtern(binding.index)
                                                      ELSE Call(binding.index)),
             valueKindFromType(binding.type), kind)

compileBuiltInCall(fc, e, types, type, kind) ==
  LET own == valueKindFromType(type)
      pushed == compileEach(fc, [i \in DOMAIN e.args |-> <<e.args[i], type>>] \o <<>>)
  IN  IF Len(e.args) # BuiltInArity(e.callee) THEN fail(fc, "wrong arguments")
      ELSE IF \E i \in DOMAIN types :
                valueKindFromType(types[i]) \notin NumericKinds \ {"Bool"}
      THEN fail(fc, "numeric arguments required")
      ELSE IF own = "None" THEN fail(fc, "no result type")
      ELSE emitConvertIfNeeded(Emit(pushed, BuiltIn(BuiltInOperation[e.callee], own)),
                               own, kind)

\* The node e, whose operands have the given types, in the kind expected.
compileNode(fc, e, types, expected, kind) ==
  CASE e.is = "number" -> Emit(fc, Push(kind, numberLiteralBits(e, kind)))
    [] e.is = "string" -> compileString(fc, e, expected)
    [] e.is = "ident" -> compileIdent(fc, e, TypeOver(fc, e, types), kind)
    [] e.is = "unary" -> compileUnary(fc, e, types[1], kind)
    [] e.is = "binary" ->
         IF e.op \in LogicalOperators THEN compileLogicalExpr(fc, e, kind)
         ELSE compileBinary(fc, e, BinaryOperandType(e, types, expected), kind)
    [] e.is = "call" ->
         IF IsBuiltIn(e.callee)
         THEN compileBuiltInCall(fc, e, types, builtInResultType(e.callee, types), kind)
         ELSE compileCall(fc, e, kind)

\* Leave the value of e on the operand stack, in the kind expected.
compileExprAs(fc, e, expected) ==
  compileNode(fc, e, OperandTypes(fc, e), expected, KindOr32(expected))

compileExpr(fc, e) == compileAs(fc, e, exprType(fc, e))

-----------------------------------------------------------------------------
(***************************************************************************)
(* Loops and switches.  A control frame collects the jumps of the breaks   *)
(* and continues it receives until their targets are known.                *)
(***************************************************************************)
Enter(fc, allowsContinue) ==
  [fc EXCEPT !.control = Append(@, [allowsContinue |-> allowsContinue,
                                    breaks |-> {}, continues |-> {}])]
Leave(fc) == [PatchHere(fc, Last(fc.control).breaks) EXCEPT !.control = Front(@)]
patchCurrentContinues(fc) == PatchHere(fc, Last(fc.control).continues)

compileBreak(fc) ==
  LET jump == Emit(fc, Jump(0))
      top == Len(fc.control)
  IN  IF fc.control = <<>> THEN fail(fc, "break outside loop or switch")
      ELSE [jump EXCEPT !.control[top].breaks = @ \cup {LastPosition(jump)}]

\* The loops around a statement; findContinueControlIndex takes the innermost.
ContinueFrames(fc) == {i \in DOMAIN fc.control : fc.control[i].allowsContinue}

compileContinue(fc) ==
  LET jump == Emit(fc, Jump(0))
      frame == CHOOSE i \in ContinueFrames(fc) :
                 \A j \in ContinueFrames(fc) : j <= i
  IN  IF ContinueFrames(fc) = {} THEN fail(fc, "continue outside loop")
      ELSE [jump EXCEPT !.control[frame].continues = @ \cup {LastPosition(jump)}]

-----------------------------------------------------------------------------
(***************************************************************************)
(* Locals.  Every declaration gets frame bytes of its own, whichever block *)
(* it is in; leaving a block restores the names, not the bytes.            *)
(***************************************************************************)
\* Mutant of allocateLocal: the padding before the local is not counted.
allocateLocalUnpadded(fc, name, type) ==
  LET kind == valueKindFromType(type)
      offset == alignUp(fc.frameByteSize, Alignment(kind))
      scope == Len(fc.scopes)
  IN  IF kind = "Void" THEN fail(fc, "local cannot have type void")
      ELSE IF name \in fc.scopes[scope] THEN fail(fc, "duplicate local")
      ELSE IF fc.nilMap THEN fail(fc, Panic)
      ELSE [fc EXCEPT !.locals = name :> [offset |-> offset, type |-> type] @@ @,
                      !.scopes[scope] = @ \cup {name},
                      !.frameByteSize = @ + Size(kind)]
allocateLocal(fc, name, type) ==
  LET kind == valueKindFromType(type)
      offset == alignUp(fc.frameByteSize, Alignment(kind))
      scope == Len(fc.scopes)
  IN  IF kind = "Void" THEN fail(fc, "local cannot have type void")
      ELSE IF name \in fc.scopes[scope] THEN fail(fc, "duplicate local")
      ELSE IF fc.nilMap THEN fail(fc, Panic)
      ELSE [fc EXCEPT !.locals = name :> [offset |-> offset, type |-> type] @@ @,
                      !.scopes[scope] = @ \cup {name},
                      !.frameByteSize = offset + Size(kind)]

\* An assignment's end: the address of the target above the value.
StoreInto(fc, name, type) ==
  Emit(astEmitAddress(fc, name), Assign(KindOr32(type)))

compileLocalDecl(fc, s) ==
  LET declared == allocateLocal(fc, s.name, s.type)
  IN  IF declared.err # NoError \/ s.initializer = Nothing THEN declared
      ELSE StoreInto(compileAs(declared, s.initializer, s.type), s.name, s.type)

\* rejectConstAssignment
IsConstTarget(fc, name) ==
  IF name \in DOMAIN fc.locals THEN fc.locals[name].type.const
  ELSE /\ name \in DOMAIN fc.symbols
       /\ fc.symbols[name].declares = "variable"
       /\ fc.symbols[name].type.const

\* x op= v is compiled as x = x op v.
compileAssign(fc, s) ==
  LET type == exprType(fc, s.target)
      value == IF s.op = "=" THEN s.value
               ELSE BinaryExpr(compoundBinaryOperators[s.op], s.target, s.value)
  IN  IF IsConstTarget(fc, s.target.name) THEN fail(fc, "cannot assign to const")
      ELSE StoreInto(compileAs(fc, value, type), s.target.name, type)

-----------------------------------------------------------------------------
(***************************************************************************)
(* Statements.                                                             *)
(***************************************************************************)
compileStmts(fc, statements) ==
  compileEach(fc, [k \in DOMAIN statements |-> <<statements[k], NoType>>] \o <<>>)
\* A statement that may be missing.
compileOptional(fc, s) == compileStmts(fc, IF s = Nothing THEN <<>> ELSE <<s>>)

\* The maps are cloned on entry and the clones installed on exit; the clone
\* of an empty map is nil.
compileBlock(fc, s) ==
  LET inside == compileStmts([fc EXCEPT !.scopes = Append(@, {})], s.statements)
  IN  [inside EXCEPT !.locals = fc.locals, !.nilMap = (DOMAIN fc.locals = {}),
                     !.scopes = fc.scopes]

\* test is the code up to the jump behind the condition.
compileElse(test, skip, else) ==
  PatchHere(compileOptional(PatchHere(skip, {LastPosition(test)}), else),
            {LastPosition(skip)})
compileBranches(test, then, else) ==
  IF else = Nothing THEN PatchHere(then, {LastPosition(test)})
  ELSE compileElse(test, Emit(then, Jump(0)), else)
compileThen(test, s) == compileBranches(test, compileOptional(test, s.then), s.else)
compileIf(fc, s) == compileThen(compileTest(fc, s.condition), s)

\* The end of a loop: the jump back to start, and the jumps past it.
LoopEnd(body, start, exits) == Leave(PatchHere(Emit(body, Jump(start)), exits))

compileWhileBody(test, s, start) ==
  LET body == compileOptional(Enter(test, TRUE), s.body)
      continued == [body EXCEPT
        !.code = PatchedCode(@, Last(body.control).continues, start)]
  IN  LoopEnd(continued, start, {LastPosition(test)})
compileWhile(fc, s) ==
  compileWhileBody(compileTest(fc, s.condition), s, NextPosition(fc))

\* Mutant of compileForBody: continue goes to the condition, past the post
\* clause.
compileForContinueLate(test, s, start) ==
  LET body == compileOptional(Enter(test, TRUE), s.body)
      post == patchCurrentContinues(compileOptional(body, s.post))
  IN  LoopEnd(post, start, IF s.condition = Nothing THEN {} ELSE {LastPosition(test)})
compileForBody(test, s, start) ==
  LET body == patchCurrentContinues(compileOptional(Enter(test, TRUE), s.body))
  IN  LoopEnd(compileOptional(body, s.post), start,
              IF s.condition = Nothing THEN {} ELSE {LastPosition(test)})
compileForAfter(init, s) ==
  compileForBody(IF s.condition = Nothing THEN init ELSE compileTest(init, s.condition),
                 s, NextPosition(init))
compileFor(fc, s) == compileForAfter(compileOptional(fc, s.init), s)

(***************************************************************************)
(* A switch: for each case the value again, the case's value and a         *)
(* comparison that goes on to the next case or jumps to the body; the      *)
(* bodies, one falling into the next; the default, always last.            *)
(***************************************************************************)
CaseType(own, caseOwn) ==
  LET type == promoteNumericType(IF own = NoType THEN Int32Type ELSE own, caseOwn)
  IN  IF valueKindFromType(type) = "None" THEN Int32Type ELSE type

\* Both values compared, then the jump over the case that is patched next.
CaseCompared(fc, value, caseValue, type) ==
  Emit(Emit(compileEach(fc, << <<value, type>>, <<caseValue, type>> >>),
            Comp(valueKindFromType(type), "Equal")), JumpIfFalse(0))
\* acc.missed is the jump of the last comparison, acc.entries those to the
\* bodies.
CaseEntered(acc, compared) ==
  LET entered == Emit(compared, Jump(0))
  IN  [fc |-> entered, missed |-> {LastPosition(compared)},
       entries |-> Append(acc.entries, LastPosition(entered)), value |-> acc.value]
compileCaseTest(acc, case) ==
  CaseEntered(acc, CaseCompared(PatchHere(acc.fc, acc.missed), acc.value, case.value,
                                CaseType(exprType(acc.fc, acc.value),
                                         exprType(acc.fc, case.value))))

\* bodies.at is the next body's index.
compileCaseBody(bodies, case) ==
  [bodies EXCEPT
     !.fc = compileStmts(PatchHere(@, {bodies.entries[bodies.at]}), case.body),
     !.at = @ + 1]
compileCaseBodies(tests, cases) ==
  FoldLeft(compileCaseBody,
           [fc |-> Emit(tests.fc, Jump(0)), entries |-> tests.entries, at |-> 1], cases).fc
compileSwitchAfter(tests, s) ==
  Leave(compileStmts(PatchHere(compileCaseBodies(tests, s.cases),
                               {NextPosition(tests.fc)} \cup tests.missed),
                     s.default))
compileSwitchStmt(fc, s) ==
  compileSwitchAfter(
    FoldLeft(compileCaseTest,
             [fc |-> Enter(fc, FALSE), missed |-> {}, entries |-> <<>>, value |-> s.value],
             s.cases), s)

compileReturn(fc, s) ==
  Emit(IF s.value = Nothing THEN fc ELSE compileAs(fc, s.value, fc.returnType),
       Ret)

\* The result of the call, if it has one, stays on the operand stack.
compileExprStmt(fc, s) ==
  IF s.expr.is # "call" THEN fail(fc, "only calls can be statements")
  ELSE compileExpr(fc, s.expr)

compileStmt(fc, s) ==
  CASE s.is = "block" -> compileBlock(fc, s)
    [] s.is = "local" -> compileLocalDecl(fc, s)
    [] s.is = "if" -> compileIf(fc, s)
    [] s.is = "while" -> compileWhile(fc, s)
    [] s.is = "for" -> compileFor(fc, s)
    [] s.is = "switch" -> compileSwitchStmt(fc, s)
    [] s.is = "return" -> compileReturn(fc, s)
    [] s.is = "expr" -> compileExprStmt(fc, s)
    [] s.is = "assign" -> compileAssign(fc, s)
    [] s.is = "break" -> compileBreak(fc)
    [] s.is = "continue" -> compileContinue(fc)

compileItem(fc, item) ==
  CASE fc.err # NoError -> fc
    [] fc.err = NoError /\ item[1].is \in ExpressionNodes ->
         compileExprAs(fc, item[1], item[2])
    [] OTHER -> compileStmt(fc, item[1])

-----------------------------------------------------------------------------
(***************************************************************************)
(* A function: its parameters, its body, its epilogue (compileFunction).   *)
(***************************************************************************)
NewFunctionCompiler(symbols, returnType, pool) ==
  [symbols |-> symbols, returnType |-> returnType, pool |-> pool, code |-> <<>>,
   err |-> NoError, locals |-> <<>>, nilMap |-> FALSE, scopes |-> <<>>,
   control |-> <<>>, frameByteSize |-> 0]

declareParameter(fc, param) ==
  LET kind == valueKindFromType(param.type)
      offset == alignUp(fc.frameByteSize, Alignment(kind))
  IN  IF fc.err # NoError THEN fc
      ELSE IF param.name \in DOMAIN fc.locals THEN fail(fc, "duplicate parameter")
      ELSE [fc EXCEPT
              !.locals = param.name :> [offset |-> offset, type |-> param.type] @@ @,
              !.frameByteSize = offset + Size(kind)]

compileFunction(symbols, f, pool) ==
  LET start == FoldLeft(declareParameter,
                        NewFunctionCompiler(symbols, f.returnType, pool), f.params)
      body == compileStmts(start, <<f.body>>)
  IN  [err |-> body.err, pool |-> body.pool, frameByteSize |-> body.frameByteSize,
       paramOffsets |-> IF start.err # NoError THEN <<>>
                        ELSE [i \in DOMAIN f.params |->
                                start.locals[f.params[i].name].offset] \o <<>>,
       code |-> WithEpilogue(body.code)]

\* A unit: its symbols, its script functions in order and what became of
\* them, one string table for all.
EmptyPool == [offsets |-> <<>>, size |-> 0]
CompiledUnit(symbols, functions) ==
  [symbols |-> symbols, functions |-> functions,
   blocks |-> FoldLeft(
     LAMBDA blocks, f :
       Append(blocks, compileFunction(symbols, f, IF blocks = <<>> THEN EmptyPool
                                                  ELSE Last(blocks).pool)),
     <<>>, functions)]
=============================================================================
