---------------------------- MODULE CovaArithLaws ----------------------------
(***************************************************************************)
(* What the integer operators of the instruction set compute, against      *)
(* definitions that do not mention how they are computed.  A state is one  *)
(* pair of operands; the step evaluates every operator on them.            *)
(***************************************************************************)
EXTENDS CovaFoldingArith

CONSTANTS
  LawKinds,     \* integer kinds whose operands are enumerated
  WiderKind     \* for each of them, an integer kind as signed, of twice its size

ASSUME LawsAssumption ==
  /\ LawKinds \subseteq IntegerKinds
  /\ \A k \in LawKinds :
       /\ WiderKind[k] \in IntegerKinds /\ Size(WiderKind[k]) = 2 * Size(k)
       /\ k \in SignedKinds <=> WiderKind[k] \in SignedKinds

VARIABLES kind, left, right, results

lawVars == <<kind, left, right, results>>

LawInit ==
  /\ kind \in LawKinds
  /\ left \in Values(Size(kind))
  /\ right \in Values(Size(kind))
  /\ results = <<>>

\* One result per operator that does not fault on these operands.
Evaluate ==
  /\ results = <<>>
  /\ results' = [op \in {o \in ArithmeticOps :
                           ArithmeticStatus(kind, o, right) = "OK"} |->
                   CHOOSE r \in ArithmeticResults(kind, op, left, right) : TRUE]
  /\ UNCHANGED <<kind, left, right>>

LawSpec == LawInit /\ [][Evaluate]_lawVars

-----------------------------------------------------------------------------
Evaluated == results # <<>>
n == Size(kind)
Number(bits) == ValueOf(kind, bits)
The(S) == CHOOSE r \in S : TRUE

\* Quotient and remainder belong together whatever the signs: q * b + r gives
\* the dividend back, r is smaller than the divisor and has the sign of the
\* dividend; only the least value divided by -1 leaves the range, and wraps.
QuotientAndRemainder ==
  Evaluated /\ right # 0 =>
    LET q == Number(results["Div"])
        r == Number(results["Modulo"])
    IN  /\ Wrap(q * Number(right) + r, n) = left
        /\ Magnitude(r) < Magnitude(Number(right))
        /\ r # 0 => (r < 0) = (Number(left) < 0)
        /\ q * Number(right) + r = Number(left)
             \/ (Number(right) = -1 /\ 2 * left = Modulus(n))

\* Adding is carrying what `and` finds and keeping what `xor` finds.
BitwiseLaws ==
  Evaluated =>
    /\ results["BitwiseAnd"] + results["BitwiseOr"] = left + right
    /\ results["BitwiseXor"] = results["BitwiseOr"] - results["BitwiseAnd"]
    /\ results["BitwiseAnd"] <= IF left < right THEN left ELSE right

\* Shifting by a count is shifting by one that often, the count taken modulo
\* the width: left doubles and drops the carry, right halves towards minus
\* infinity and so keeps the sign of a signed value.
ShiftsStepByStep ==
  Evaluated =>
    LET width == n * BitsPerByte
        doubled[i \in 0 .. width - 1] ==
          IF i = 0 THEN left
          ELSE IntegerArithmetic(kind, "Add", doubled[i - 1], doubled[i - 1])
        halved[i \in 0 .. width - 1] ==
          IF i = 0 THEN Number(left) ELSE halved[i - 1] \div 2
    IN  /\ results["ShiftLeft"] = doubled[right % width]
        /\ Number(results["ShiftRight"]) = halved[right % width]

\* Converting to a wider kind of the same signedness loses nothing: the number
\* is the same, narrowing gives the bits back, and every comparison of the
\* widened operands answers as it did for the narrow ones.
WideningIsFaithful ==
  LET wider == WiderKind[kind]
      wide(bits) == The(ConvertResults(kind, wider, bits))
  IN  /\ ValueOf(wider, wide(left)) = Number(left)
      /\ ConvertResults(wider, kind, wide(left)) = {left}
      /\ \A op \in CompareOps :
           CompareResults(wider, op, wide(left), wide(right))
             = CompareResults(kind, op, left, right)

\* The comparisons answer together as a total order does, and agree with
\* subtraction: two values are equal exactly when their difference is zero.
ComparisonsAgree ==
  LET holds(op, a, b) == CompareResults(kind, op, a, b) = {1}
  IN  /\ Cardinality({op \in {"Less", "Equal", "Greater"} :
                        holds(op, left, right)}) = 1
      /\ holds("Less", left, right) <=> holds("Greater", right, left)
      /\ holds("LessEqual", left, right) <=> ~holds("Greater", left, right)
      /\ holds("GreaterEqual", left, right) <=> ~holds("Less", left, right)
      /\ holds("NotEqual", left, right) <=> ~holds("Equal", left, right)
      /\ Evaluated => (holds("Equal", left, right) <=> results["Sub"] = 0)

\* Folding two literals leaves the literal of what the machine would have
\* computed from them, and refuses exactly what would have faulted there.  A
\* literal has no room for the upper half of uint64; its pattern is right.
FoldedAsComputed ==
  Evaluated =>
    LET inKind == optimizerKindFromType(NamedType(kind))
        literal(bits) == optimizerLiteralFromBits(bits, inKind)
        folded(op) == Folded(op, inKind, literal(left), literal(right))
    IN  /\ \A op \in DOMAIN arithmeticOperators :
             IF DividesByZero(op, inKind, literal(right))
             THEN ArithmeticStatus(kind, arithmeticOperators[op], right) = "DivisionByZero"
             ELSE LET computed == results[arithmeticOperators[op]]
                  IN  /\ ArithmeticStatus(kind, arithmeticOperators[op], right) = "OK"
                      /\ optimizerLiteralBits(folded(op), inKind) = computed
                      /\ kind # "Uint64" => folded(op).value = Number(computed)
        /\ \A op \in DOMAIN comparisonOperators :
             {folded(op).value} = CompareResults(kind, comparisonOperators[op], left, right)
=============================================================================
