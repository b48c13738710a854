------------------------------ MODULE CovaArith ------------------------------
(***************************************************************************)
(* What the arithmetic, comparison, conversion and built-in instructions   *)
(* compute (cova/vm.go).  A value is its bit pattern, a number below the   *)
(* modulus of its kind.  Integer results are exact, two's complement and   *)
(* wrapping.  Floating point is abstracted: an operation on floats leaves  *)
(* one of the patterns FloatBits, and a float comparison answers either    *)
(* way; only the tests for zero look at the pattern.                       *)
(*                                                                         *)
(* Each ...Results operator is the set of results the instruction may      *)
(* leave: one for integers, several for floats.                            *)
(***************************************************************************)
EXTENDS CovaTypes, FiniteSetsExt

CONSTANT FloatBits      \* the bit patterns float operations may produce

ASSUME FloatBitsAssumption == FloatBits \subseteq Nat /\ FloatBits # {}

Values(n) == 0 .. Modulus(n) - 1
Wrap(v, n) == v % Modulus(n)

\* The number a pattern of n bytes means when read as signed.
Signed(bits, n) ==
  IF 2 * bits >= Modulus(n) THEN bits - Modulus(n) ELSE bits

ValueOf(kind, bits) ==
  IF kind \in SignedKinds THEN Signed(bits, Size(kind)) ELSE bits

\* Positive and negative zero are the patterns that compare equal to 0.
IsZero(kind, bits) ==
  \/ bits = 0
  \/ kind \in FloatKinds /\ 2 * bits = Modulus(Size(kind))

-----------------------------------------------------------------------------
(* Division truncates towards zero and the remainder has the sign of the   *)
(* dividend, as Go defines them.                                           *)
Magnitude(a) == IF a < 0 THEN -a ELSE a
\* Mutant of TruncatedQuotient: the quotient rounded down.
FlooredQuotient(a, b) ==
  LET q == Magnitude(a) \div Magnitude(b)
  IN  IF (a < 0) = (b < 0) THEN q
      ELSE IF Magnitude(a) % Magnitude(b) = 0 THEN -q ELSE -q - 1
TruncatedQuotient(a, b) ==
  LET q == Magnitude(a) \div Magnitude(b)
  IN  IF (a < 0) = (b < 0) THEN q ELSE -q
TruncatedRemainder(a, b) == a - b * TruncatedQuotient(a, b)

\* Mutant of BitSet: the sign bit is left out.
BitSetBelowSign(bits, n) ==
  {i \in 0 .. n * BitsPerByte - 2 : (bits \div TwoTo(i)) % 2 = 1}
BitSet(bits, n) ==
  {i \in 0 .. n * BitsPerByte - 1 : (bits \div TwoTo(i)) % 2 = 1}
\* The number whose bits below `width` are those in S.
FromBitSet(S, width) ==
  LET below[i \in 0 .. width] ==
        IF i = 0 THEN 0
        ELSE below[i - 1] + IF i - 1 \in S THEN TwoTo(i - 1) ELSE 0
  IN  below[width]

\* Mutant of ShiftCount: a count at or above the width shifts everything out.
ShiftCountClipped(right, width) == IF right < width THEN right ELSE width
\* Only the low bits of the right operand count.
ShiftCount(right, width) == right % width
\* executeIntegerArithmetic after its two pops, the divisor not zero.
IntegerArithmetic(kind, op, left, right) ==
  LET n == Size(kind)
      a == ValueOf(kind, left)
      b == ValueOf(kind, right)
      L == BitSet(left, n)
      R == BitSet(right, n)
      width == n * BitsPerByte
      count == ShiftCount(right, width)
  IN  CASE op = "Add" -> Wrap(a + b, n)
        [] op = "Sub" -> Wrap(a - b, n)
        [] op = "Mul" -> Wrap(a * b, n)
        [] op = "Div" -> Wrap(TruncatedQuotient(a, b), n)
        [] op = "Modulo" -> Wrap(TruncatedRemainder(a, b), n)
        [] op = "BitwiseAnd" -> FromBitSet(L \cap R, width)
        [] op = "BitwiseOr" -> FromBitSet(L \cup R, width)
        [] op = "BitwiseXor" -> FromBitSet((L \ R) \cup (R \ L), width)
        [] op = "ShiftLeft" -> (left % TwoTo(width - count)) * TwoTo(count)
        [] op = "ShiftRight" -> Wrap(a \div TwoTo(count), n)

\* executeArithmetic: the kinds it has a case for, the operators each has.
ArithmeticKinds == IntegerKinds \cup FloatKinds \cup {"Bool"}
OperatorsOf(kind) == IF kind \in FloatKinds THEN FloatOps ELSE ArithmeticOps

ArithmeticStatus(kind, op, right) ==
  IF op \notin OperatorsOf(kind) THEN "InvalidOpcode"
  ELSE IF op \in {"Div", "Modulo"} /\ IsZero(kind, right)
  THEN "DivisionByZero" ELSE "OK"

ArithmeticResults(kind, op, left, right) ==
  IF kind \in FloatKinds THEN FloatBits
  ELSE {IntegerArithmetic(kind, op, left, right)} \cap Values(Size(kind))

-----------------------------------------------------------------------------
CompareKinds == IntegerKinds \cup FloatKinds \cup {"Bool", "Address"}

CompareStatus(kind, op) ==
  IF op \notin CompareOps \/ (kind = "Bool" /\ op \notin {"Equal", "NotEqual"})
  THEN "InvalidOpcode" ELSE "OK"

compareOrdered(a, b, op) ==
  CASE op = "Equal" -> a = b
    [] op = "NotEqual" -> a # b
    [] op = "Less" -> a < b
    [] op = "LessEqual" -> a <= b
    [] op = "Greater" -> a > b
    [] op = "GreaterEqual" -> a >= b

Truth(bits) == IF bits # 0 THEN 1 ELSE 0

CompareResults(kind, op, left, right) ==
  CASE kind \in FloatKinds -> {0, 1}
    [] kind = "Bool" ->
         {IF compareOrdered(Truth(left), Truth(right), op) THEN 1 ELSE 0}
    [] OTHER ->
         {IF compareOrdered(ValueOf(kind, left), ValueOf(kind, right), op)
          THEN 1 ELSE 0}

-----------------------------------------------------------------------------
ConvertKinds == IntegerKinds \cup FloatKinds \cup {"Bool", "Address"}

\* Mutant of ConvertResults: widening does not extend the sign.
ConvertZeroExtended(from, to, bits) ==
  CASE to = "Bool" -> {IF IsZero(from, bits) THEN 0 ELSE 1}
    [] to # "Bool" /\ (from \in FloatKinds \/ to \in FloatKinds) -> FloatBits
    [] OTHER -> {Wrap(IF from = "Bool" THEN Truth(bits) ELSE bits, Size(to))}

\* executeConversion and convertAndPush, both kinds having a case.
ConvertResults(from, to, bits) ==
  CASE to = "Bool" -> {IF IsZero(from, bits) THEN 0 ELSE 1}
    [] to # "Bool" /\ (from \in FloatKinds \/ to \in FloatKinds) -> FloatBits
    [] OTHER -> {Wrap(IF from = "Bool" THEN Truth(bits) ELSE ValueOf(from, bits),
                      Size(to))} \cap Values(Size(to))

\* executeBuiltInAbs; the absolute value of the least signed integer wraps
\* back to itself.
AbsKinds == IntegerKinds \cup FloatKinds
AbsResults(kind, bits) ==
  IF kind \in FloatKinds THEN FloatBits
  ELSE {Wrap(Magnitude(ValueOf(kind, bits)), Size(kind))} \cap Values(Size(kind))
=============================================================================
