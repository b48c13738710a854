-------------------------- MODULE CovaFoldingArith --------------------------
(***************************************************************************)
(* The numbers of the optimizer (cova/optimize.go): the kinds it computes  *)
(* in, literals as patterns of a kind, and two literals folded into one.   *)
(*                                                                         *)
(* Floating-point numbers are fixed-point, in units of 1 / FloatUnit, as   *)
(* in CovaAst.                                                             *)
(***************************************************************************)
EXTENDS CovaAst, CovaArith

optimizerKindFromType(type) ==
  CASE type.kind \in {"Byte", "Uint8", "Bool"} -> "Uint8"
    [] type.kind \in NumericKinds \ {"Byte", "Uint8", "Bool"} -> type.kind
    [] OTHER -> "Int32"

\* A literal as a number of a kind: an integer below its modulus, or
\* fixed-point.
optimizerLiteralBits(literal, kind) ==
  LET float == literal.kind \in FloatKinds
  IN  IF kind \in FloatKinds
      THEN IF float THEN literal.value ELSE literal.value * FloatUnit
      ELSE Wrap(IF float THEN TruncatedQuotient(literal.value, FloatUnit)
                ELSE literal.value, Size(kind))

\* Mutant of optimizerLiteralFromBits: an integer without its sign.
optimizerLiteralUnsigned(bits, kind) ==
  IF kind \in FloatKinds THEN NumberLiteral(kind, bits) ELSE IntLiteral(bits)
\* The number bits stand for, as a literal; an integer literal is signed, of
\* 64 bits.
optimizerLiteralFromBits(bits, kind) ==
  IF kind \in FloatKinds THEN NumberLiteral(kind, bits)
  ELSE IntLiteral(IF kind = "Uint64" THEN Signed(bits, Size(kind)) ELSE ValueOf(kind, bits))

optimizerBoolInt(value) == BoolLiteral(value)

\* Bitwise operations on sign-extended numbers, cut to the width, are those
\* on the patterns.
BitwiseResult(op, L, R, width) ==
  CASE op = "&" -> FromBitSet(L \cap R, width)
    [] op = "|" -> FromBitSet(L \cup R, width)
    [] op = "^" -> FromBitSet((L \ R) \cup (R \ L), width)

optimizerFloatArithmetic(op, a, b) ==
  CASE op = "+" -> a + b
    [] op = "-" -> a - b
    [] op = "*" -> TruncatedQuotient(a * b, FloatUnit)
    [] op = "/" -> TruncatedQuotient(a * FloatUnit, b)
    [] OTHER -> 0

\* optimizerSignedArithmetic and optimizerUnsignedArithmetic on a and b, the
\* numbers the patterns left and right of n bytes stand for.
optimizerIntegerArithmetic(op, a, b, left, right, n) ==
  LET width == n * BitsPerByte
      count == right % width
  IN  CASE op = "+" -> Wrap(a + b, n)
        [] op = "-" -> Wrap(a - b, n)
        [] op = "*" -> Wrap(a * b, n)
        [] op = "/" -> Wrap(TruncatedQuotient(a, b), n)
        [] op = "%" -> Wrap(TruncatedRemainder(a, b), n)
        [] op \in {"&", "|", "^"} ->
             BitwiseResult(op, BitSet(left, n), BitSet(right, n), width)
        [] op = "<<" -> Wrap((a % TwoTo(width - count)) * TwoTo(count), n)
        [] op = ">>" -> Wrap(a \div TwoTo(count), n)
optimizerArithmetic(kind, op, left, right) ==
  IF kind \in FloatKinds THEN optimizerFloatArithmetic(op, left, right)
  ELSE optimizerIntegerArithmetic(op, ValueOf(kind, left), ValueOf(kind, right),
                                  left, right, Size(kind))

optimizerCompare(kind, op, left, right) ==
  compareOrdered(ValueOf(kind, left), ValueOf(kind, right), comparisonOperators[op])

-----------------------------------------------------------------------------
\* Two literals and what is between them, folded.
DividesByZero(op, kind, right) ==
  op \in {"/", "%"} /\ optimizerLiteralBits(right, kind) = 0
Folded(op, kind, left, right) ==
  IF isComparisonOperator(op)
  THEN optimizerBoolInt(optimizerCompare(kind, op, optimizerLiteralBits(left, kind),
                                         optimizerLiteralBits(right, kind)))
  ELSE optimizerLiteralFromBits(
         optimizerArithmetic(kind, op, optimizerLiteralBits(left, kind),
                             optimizerLiteralBits(right, kind)), kind)
=============================================================================
