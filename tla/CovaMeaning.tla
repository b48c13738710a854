----------------------------- MODULE CovaMeaning -----------------------------
(***************************************************************************)
(* What a Cova source says, without instructions, jumps, an operand stack  *)
(* or frame offsets: the abstract specification of the compiler and the    *)
(* machine together.  A unit is a program with the answers its extern      *)
(* functions will give; its meaning is the extern calls it makes, each     *)
(* with its arguments and the values of all globals at that time, and how  *)
(* it ends.  Values are integers, booleans and fixed-point numbers.        *)
(***************************************************************************)
EXTENDS CovaTyping, CovaArith, SequencesExt

\* A host whose script of answers has run out answers zero.
Unit(symbols, initial, functions, answers) ==
  [symbols |-> symbols, initial |-> initial, functions |-> functions,
   answers |-> answers]

(***************************************************************************)
(* env: `globals` are the values of the variables by name; a local name    *)
(* stands for a cell of its own, made by its declaration; `values` are the *)
(* values of the expressions being evaluated; status is "ok", how a        *)
(* statement was left ("break", "continue", "return"), or the fault that   *)
(* ended everything.                                                       *)
(***************************************************************************)
StartOf(unit) ==
  [symbols |-> unit.symbols, functions |-> unit.functions,
   globals |-> unit.initial, answers |-> unit.answers, locals |-> <<>>,
   cells |-> <<>>, values |-> <<>>, events |-> <<>>, status |-> "ok",
   returnKind |-> "Void"]

Value(env) == Last(env.values)
Popped(env) == [env EXCEPT !.values = Front(@)]

\* The last n values replaced by one computed from them.
Replaced(env, n, f(_)) ==
  IF env.status # "ok" THEN env
  ELSE [env EXCEPT !.values =
          Append(SubSeq(@, 1, Len(@) - n), f(SubSeq(@, Len(@) - n + 1, Len(@))))]
Yielded(env, bits) == Replaced(env, 0, LAMBDA none : bits)

\* A value as a number: floating-point numbers are fixed-point, as in CovaAst.
NumberOf(kind, value) == IF kind \in FloatKinds THEN value ELSE ValueOf(kind, value)
ConvertedValue(from, to, value) ==
  CASE to = "Bool" -> Truth(value)
    [] to \in FloatKinds ->
         IF from \in FloatKinds THEN value ELSE NumberOf(from, value) * FloatUnit
    [] OTHER -> Wrap(IF from \in FloatKinds THEN TruncatedQuotient(value, FloatUnit)
                     ELSE NumberOf(from, value), Size(to))
Converted(env, from, to) ==
  Replaced(env, 1, LAMBDA v : ConvertedValue(from, to, v[1]))

-----------------------------------------------------------------------------
(* Expressions: the value of e in a kind, on top of env.values.            *)

RECURSIVE Evaluate(_, _, _)
EvaluatePair(env, pair) == Evaluate(env, pair[1], pair[2])
EvaluateEach(env, pairs) == FoldLeft(EvaluatePair, env, pairs)

OwnKind(env, e) == KindOr32(exprType(env, e))
\* Non-zero in its own type is true.
Truthy(env, e) ==
  Converted(EvaluateEach(env, << <<e, OwnKind(env, e)>> >>), OwnKind(env, e), "Bool")

LiteralValue(e, kind) ==
  CASE e.kind \in FloatKinds -> ConvertedValue(e.kind, kind, e.value)
    [] kind \in FloatKinds -> e.value * FloatUnit
    [] kind = "Bool" -> Truth(e.value)
    [] OTHER -> Wrap(e.value, Size(kind))

Variable(env, name, kind) ==
  IF name \in DOMAIN env.locals
  THEN Yielded(env, ConvertedValue(KindOr32(env.locals[name].type), kind,
                                   env.cells[env.locals[name].cell]))
  ELSE Yielded(env, ConvertedValue(KindOr32(env.symbols[name].type), kind,
                                   env.globals[name]))

UnaryValue(op, kind, bits) ==
  CASE op = "!" -> IF bits = 0 THEN 1 ELSE 0
    [] op = "-" -> IF kind \in FloatKinds THEN -bits
                   ELSE Wrap(-ValueOf(kind, bits), Size(kind))
    [] op = "~" -> Modulus(Size(kind)) - 1 - bits
Unary(env, e, own, kind) ==
  Converted(Replaced(EvaluateEach(env, << <<e.operand, own>> >>), 1,
                     LAMBDA v : UnaryValue(e.op, own, v[1])),
            IF e.op = "!" THEN "Bool" ELSE own, kind)

\* The right operand counts only if the left one leaves the answer open.
Junction(left, e) ==
  IF left.status # "ok" \/ ((e.op = "&&") <=> (Value(left) = 0)) THEN left
  ELSE Truthy(Popped(left), e.right)

\* A comparison is made in the promoted kind, an integer operation too, any
\* other in the kind that is asked for, a truth value in the promoted kind.
Compared(env, e, own, kind) ==
  Converted(Replaced(env, 2, LAMBDA v :
              IF compareOrdered(NumberOf(own, v[1]), NumberOf(own, v[2]),
                                comparisonOperators[e.op]) THEN 1 ELSE 0),
            "Bool", kind)
Product(a, b) == TruncatedQuotient(a * b, FloatUnit)
ComputedValue(own, op, a, b) ==
  CASE own \notin FloatKinds -> IntegerArithmetic(own, arithmeticOperators[op], a, b)
    [] op = "+" -> a + b
    [] op = "-" -> a - b
    [] op = "*" -> Product(a, b)
    [] op = "/" -> TruncatedQuotient(a * FloatUnit, b)
Computed(env, e, own, kind) ==
  IF env.status = "ok" /\ e.op \in {"/", "%"} /\ Value(env) = 0
  THEN [env EXCEPT !.status = "DivisionByZero"]
  ELSE Converted(Replaced(env, 2, LAMBDA v :
                   ComputedValue(own, e.op, v[1], v[2])), own, kind)
Combined(env, e, own, kind) ==
  IF isComparisonOperator(e.op) THEN Compared(env, e, own, kind)
  ELSE Computed(env, e, own, kind)
CombinedIn(env, e, own, kind) ==
  Combined(EvaluateEach(env, << <<e.left, own>>, <<e.right, own>> >>), e, own, kind)
PromotedOperandKind(env, e) ==
  LET types == OperandTypes(env, e)
  IN  KindOr32(promoteNumericType(types[1], types[2]))
Binary(env, e, kind) ==
  CombinedIn(env, e,
             IF isComparisonOperator(e.op) \/ isIntegerBinaryOperator(e.op) \/ kind = "Bool"
             THEN PromotedOperandKind(env, e) ELSE kind, kind)

\* An extern call: what the host sees, and its answer.
Ask(env, binding, arguments) ==
  [env EXCEPT
     !.values = SubSeq(@, 1, Len(@) - Len(arguments))
                  \o IF binding.type = VoidType THEN <<>>
                     ELSE IF env.answers = <<>> THEN <<0>> ELSE <<Head(env.answers)>>,
     !.answers = IF binding.type = VoidType \/ @ = <<>> THEN @ ELSE Tail(@),
     !.events = Append(@, [slot |-> binding.index, arguments |-> arguments,
                           globals |-> env.globals])]

\* A call of a script function: the parameters are cells of its own.
Entered(env, f) ==
  [env EXCEPT
     !.returnKind = valueKindFromType(f.returnType),
     !.locals = [name \in {f.params[p].name : p \in DOMAIN f.params} |->
                   LET p == CHOOSE q \in DOMAIN f.params : f.params[q].name = name
                   IN  [type |-> f.params[p].type, cell |-> Len(env.cells) + p]],
     !.cells = @ \o SubSeq(env.values, Len(env.values) - Len(f.params) + 1,
                           Len(env.values)),
     !.values = SubSeq(@, 1, Len(@) - Len(f.params))]
Left(env, caller) ==
  [env EXCEPT !.locals = caller.locals, !.returnKind = caller.returnKind,
              !.status = IF @ = "return" THEN "ok" ELSE @]

RECURSIVE Execute(_, _)
ExecuteNext(env, s) == Execute(env, s)
Called(env, binding) ==
  IF env.status # "ok" THEN env
  ELSE IF binding.scope = "Extern"
  THEN Ask(env, binding, SubSeq(env.values,
                                Len(env.values) - Len(binding.paramTypes) + 1,
                                Len(env.values)))
  ELSE Left(ExecuteNext(Entered(env, env.functions[binding.index + 1]),
                        env.functions[binding.index + 1].body), env)
CallOf(env, e, binding, kind) ==
  IF binding.type = VoidType
  THEN Called(EvaluateEach(env, [i \in DOMAIN e.args |->
                <<e.args[i], valueKindFromType(binding.paramTypes[i])>>] \o <<>>), binding)
  ELSE Converted(Called(EvaluateEach(env, [i \in DOMAIN e.args |->
                   <<e.args[i], valueKindFromType(binding.paramTypes[i])>>] \o <<>>), binding),
                 valueKindFromType(binding.type), kind)
\* abs of any number, sqrt of one that is not negative.
SquareRoot(a) ==
  CHOOSE root \in 0 .. a + FloatUnit :
    /\ Product(root, root) <= a
    /\ Product(root + 1, root + 1) > a
BuiltInValue(callee, own, value) ==
  CASE callee = "sqrt" -> SquareRoot(value)
    [] own \in FloatKinds -> Magnitude(value)
    [] OTHER -> Wrap(Magnitude(ValueOf(own, value)), Size(own))
BuiltInOf(env, e, own, kind) ==
  Converted(Replaced(EvaluateEach(env, << <<e.args[1], own>> >>), 1,
                     LAMBDA v : BuiltInValue(e.callee, own, v[1])),
            own, kind)

Evaluate(env, e, kind) ==
  IF env.status # "ok" THEN env ELSE
  CASE e.is = "number" -> Yielded(env, LiteralValue(e, kind))
    [] e.is = "ident" -> Variable(env, e.name, kind)
    [] e.is = "unary" -> Unary(env, e, OwnKind(env, e.operand), kind)
    [] e.is = "binary" ->
         IF e.op \in LogicalOperators
         THEN Converted(Junction(Truthy(env, e.left), e), "Bool", kind)
         ELSE Binary(env, e, kind)
    [] e.is = "call" ->
         IF IsBuiltIn(e.callee) THEN BuiltInOf(env, e, OwnKind(env, e), kind)
         ELSE CallOf(env, e, env.symbols[e.callee], kind)

-----------------------------------------------------------------------------
(* Statements.                                                             *)

ExecuteAll(env, statements) == FoldLeft(ExecuteNext, env, statements)
ExecuteOptional(env, s) == ExecuteAll(env, IF s = Nothing THEN <<>> ELSE <<s>>)

\* Names declared in a block end with it; the values of others stay.
Block(env, s) ==
  [ExecuteAll(env, s.statements) EXCEPT !.locals = env.locals]

Stored(env, name) ==
  IF env.status # "ok" THEN env
  ELSE IF name \in DOMAIN env.locals
  THEN [Popped(env) EXCEPT !.cells[env.locals[name].cell] = Value(env)]
  ELSE [Popped(env) EXCEPT !.globals[name] = Value(env)]

\* Every time it is reached, a declaration makes a cell, zero at first.
Declared(env, s) ==
  [env EXCEPT !.cells = Append(@, 0),
              !.locals = s.name :> [type |-> s.type, cell |-> Len(env.cells) + 1] @@ @]
DeclareAndStore(env, s) ==
  IF s.initializer = Nothing THEN env
  ELSE Stored(EvaluateEach(env, << <<s.initializer, KindOr32(s.type)>> >>), s.name)

AssignedValue(s) ==
  IF s.op = "=" THEN s.value
  ELSE BinaryExpr(compoundBinaryOperators[s.op], s.target, s.value)
AssignTo(env, s) ==
  Stored(EvaluateEach(env, << <<AssignedValue(s), OwnKind(env, s.target)>> >>),
         s.target.name)

Choose(tested, s) ==
  IF tested.status # "ok" THEN tested
  ELSE ExecuteOptional(Popped(tested), IF Value(tested) # 0 THEN s.then ELSE s.else)

\* A loop, its initial clause done.
Again(after, s) ==
  CASE after.status = "break" -> [after EXCEPT !.status = "ok"]
    [] after.status \in {"ok", "continue"} ->
         ExecuteNext(ExecuteOptional([after EXCEPT !.status = "ok"], s.post), s)
    [] OTHER -> after
Turn(tested, s) ==
  CASE tested.status # "ok" -> tested
    [] tested.status = "ok" /\ Value(tested) = 0 -> Popped(tested)
    [] OTHER -> Again(ExecuteOptional(Popped(tested), s.body), s)
Loop(env, s) ==
  Turn(IF s.condition = Nothing THEN Yielded(env, 1) ELSE Truthy(env, s.condition), s)
For(env, s) ==
  IF s.init = Nothing THEN Loop(env, s)
  ELSE ExecuteNext(ExecuteOptional(env, s.init), [s EXCEPT !.init = Nothing])

\* The value of a switch is on env.values while its cases are tried in order.
CaseMatches(acc, at, env, own, kind) ==
  IF env.status # "ok" THEN [acc EXCEPT !.env = env]
  ELSE [acc EXCEPT
          !.env = Popped(env),
          !.found = IF Value(env) = ConvertedValue(own, kind, Value(Popped(env)))
                    THEN at ELSE 0]
TryIn(acc, at, case, kind) ==
  CaseMatches(acc, at, EvaluateEach(acc.env, << <<case.value, kind>> >>), acc.own, kind)
TryCase(acc, at) ==
  IF acc.env.status # "ok" \/ acc.found # 0 THEN acc
  ELSE TryIn(acc, at, acc.cases[at],
             KindOr32(promoteNumericType(acc.type, exprType(acc.env, acc.cases[at].value))))
FromCase(s, found) ==
  (IF found = 0 THEN <<>>
   ELSE FlattenSeq([k \in 1 .. Len(s.cases) - found + 1 |->
                      s.cases[found + k - 1].body])) \o s.default
SwitchBody(acc, s) ==
  IF acc.env.status # "ok" THEN acc.env
  ELSE ExecuteAll(Popped(acc.env), FromCase(s, acc.found))
BreakTaken(env) == [env EXCEPT !.status = IF @ = "break" THEN "ok" ELSE @]
Switch(env, s, type) ==
  BreakTaken(SwitchBody(
    FoldLeft(TryCase,
             [env |-> EvaluateEach(env, << <<s.value, KindOr32(type)>> >>),
              type |-> type, own |-> KindOr32(type), found |-> 0, cases |-> s.cases],
             [i \in DOMAIN s.cases |-> i] \o <<>>), s))

\* Drop what a call statement may have yielded.
Dropped(after, before) ==
  IF after.status # "ok" THEN after ELSE [after EXCEPT !.values = before.values]

Execute(env, s) ==
  IF env.status # "ok" THEN env ELSE
  CASE s.is = "block" -> Block(env, s)
    [] s.is = "local" -> DeclareAndStore(Declared(env, s), s)
    [] s.is = "assign" -> AssignTo(env, s)
    [] s.is = "if" -> Choose(Truthy(env, s.condition), s)
    [] s.is = "while" -> ExecuteNext(env, ForStmt(Nothing, s.condition, Nothing, s.body))
    [] s.is = "for" -> For(env, s)
    [] s.is = "switch" -> Switch(env, s, exprType(env, s.value))
    [] s.is = "expr" -> Dropped(EvaluateEach(env, << <<s.expr, OwnKind(env, s.expr)>> >>), env)
    [] s.is = "return" ->
         IF s.value = Nothing THEN [env EXCEPT !.status = "return"]
         ELSE [EvaluateEach(env, << <<s.value, env.returnKind>> >>)
                 EXCEPT !.status = IF @ = "ok" THEN "return" ELSE @]
    [] s.is = "break" -> [env EXCEPT !.status = "break"]
    [] s.is = "continue" -> [env EXCEPT !.status = "continue"]

-----------------------------------------------------------------------------
\* How a unit ends: a run that is left normally has status OK.
OutcomeOf(env) ==
  IF env.status \in {"ok", "return"}
  THEN [status |-> "OK", result |-> env.values, globals |-> env.globals]
  ELSE [status |-> env.status, result |-> <<>>, globals |-> env.globals]
MeaningIn(env) == [events |-> env.events, outcome |-> OutcomeOf(env)]
\* script_main is the first function of a unit.
Meaning(unit) ==
  MeaningIn(ExecuteAll(Entered(StartOf(unit), unit.functions[1]),
                       <<unit.functions[1].body>>))
=============================================================================
