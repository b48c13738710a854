--------------------------- MODULE CovaArithProofs --------------------------
(***************************************************************************)
(* Proofs of the laws of integer arithmetic, of the machine and of the     *)
(* optimizer, for every size of a byte, every integer kind and every pair  *)
(* of operands.                                                            *)
(***************************************************************************)
EXTENDS CovaArithLaws, CovaDataProofs, FiniteSetTheorems

-----------------------------------------------------------------------------
(***************************************************************************)
(* Remainders of numbers within one divisor of zero.                       *)
(***************************************************************************)
LEMMA Divided ==
  ASSUME NEW m \in Nat \ {0}, NEW v \in Int, NEW q, q = v \div m, NEW r, r = v % m
  PROVE  q \in Int /\ r \in 0 .. m - 1 /\ v = m * q + r
<1>1. q \in Int /\ r \in 0 .. m - 1
  OBVIOUS
<1>2. v = q * m + r
  BY SMTT(30)
<1>3. q * m = m * q
  BY <1>1
<1> QED BY <1>1, <1>2, <1>3

LEMMA RemainderSmall ==
  ASSUME NEW m \in Nat \ {0}, NEW v \in 0 .. m - 1
  PROVE  v % m = v
<1>1. (m * 0 + v) % m = v
  BY DivisionUnique
<1>2. m * 0 + v = v
  OBVIOUS
<1> QED BY <1>1, <1>2

LEMMA RemainderNegative ==
  ASSUME NEW m \in Nat \ {0}, NEW v \in Int, v < 0, v >= -m
  PROVE  v % m = v + m
BY SMTT(30)

-----------------------------------------------------------------------------
(***************************************************************************)
(* Numbers and their bit patterns.                                         *)
(***************************************************************************)
\* The numbers a kind can hold.
Fits(k, v) ==
  IF k \in SignedKinds THEN -Modulus(Size(k)) <= 2 * v /\ 2 * v < Modulus(Size(k))
  ELSE 0 <= v /\ v < Modulus(Size(k))

LEMMA IntegerSize ==
  ASSUME NEW k \in IntegerKinds
  PROVE  /\ Size(k) \in {1, 2, 4, 8} /\ Modulus(Size(k)) \in Nat \ {0}
         /\ k \notin FloatKinds /\ k # "Bool"
<1>1. Size(k) \in {1, 2, 4, 8}
  BY DEF Size, IntegerKinds, SignedKinds, UnsignedKinds
<1>2. k \notin FloatKinds /\ k # "Bool"
  BY DEF IntegerKinds, SignedKinds, UnsignedKinds, FloatKinds
<1> QED BY <1>1, <1>2, ModulusType

\* Reading a pattern gives a number that fits, and that has this pattern.
LEMMA ValueFits ==
  ASSUME NEW k \in IntegerKinds, NEW bits \in Values(Size(k))
  PROVE  /\ ValueOf(k, bits) \in Int /\ Fits(k, ValueOf(k, bits))
         /\ Wrap(ValueOf(k, bits), Size(k)) = bits
         /\ ValueOf(k, bits) = 0 => bits = 0
<1> DEFINE m == Modulus(Size(k))
           v == ValueOf(k, bits)
<1>1. m \in Nat \ {0} /\ bits \in 0 .. m - 1
  BY IntegerSize DEF Values
<1>2. v = IF k \in SignedKinds /\ 2 * bits >= m THEN bits - m ELSE bits
  BY DEF ValueOf, Signed
<1> HIDE DEF m, v
<1>3. v \in Int /\ (v = 0 => bits = 0)
  BY <1>1, <1>2
<1>4. Fits(k, v)
  BY <1>1, <1>2 DEF Fits, m
<1>5. v % m = bits
  <2>1. CASE v = bits
    BY <1>1, <2>1, RemainderSmall
  <2>2. CASE v = bits - m
    <3>1. v < 0 /\ v >= -m /\ v + m = bits
      BY <1>1, <2>2
    <3> QED BY <1>1, <1>3, <3>1, RemainderNegative
  <2> QED BY <1>2, <2>1, <2>2
<1> QED BY <1>3, <1>4, <1>5 DEF m, v, Wrap

\* A number that fits has a pattern, and reading it gives the number.
LEMMA FitsBack ==
  ASSUME NEW k \in IntegerKinds, NEW v \in Int, Fits(k, v)
  PROVE  /\ Wrap(v, Size(k)) \in Values(Size(k))
         /\ ValueOf(k, Wrap(v, Size(k))) = v
<1> DEFINE m == Modulus(Size(k))
           bits == v % m
<1>1. m \in Nat \ {0}
  BY IntegerSize
<1>2. IF k \in SignedKinds THEN -m <= 2 * v /\ 2 * v < m ELSE 0 <= v /\ v < m
  BY DEF Fits
<1> HIDE DEF m
<1>3. bits = IF v < 0 THEN v + m ELSE v
  <2>1. CASE v < 0
    <3>1. v >= -m
      BY <1>1, <1>2, <2>1
    <3> QED BY <1>1, <2>1, <3>1, RemainderNegative
  <2>2. CASE v >= 0
    <3>1. v \in 0 .. m - 1
      BY <1>1, <1>2, <2>2
    <3> QED BY <1>1, <2>2, <3>1, RemainderSmall
  <2> QED BY <2>1, <2>2
<1> HIDE DEF bits
<1>4. bits \in 0 .. m - 1
  BY <1>1, <1>2, <1>3
<1>5. (IF k \in SignedKinds /\ 2 * bits >= m THEN bits - m ELSE bits) = v
  BY <1>1, <1>2, <1>3
<1>6. ValueOf(k, bits) = v
  BY <1>5 DEF ValueOf, Signed, m
<1> QED BY <1>4, <1>6 DEF Wrap, Values, m, bits

\* Two patterns are the same when the numbers are.
LEMMA ValuesApart ==
  ASSUME NEW k \in IntegerKinds, NEW a \in Values(Size(k)), NEW b \in Values(Size(k))
  PROVE  ValueOf(k, a) = ValueOf(k, b) <=> a = b
BY ValueFits

-----------------------------------------------------------------------------
(***************************************************************************)
(* What was evaluated.                                                     *)
(***************************************************************************)
Faultless == {op \in ArithmeticOps : ArithmeticStatus(kind, op, right) = "OK"}
LawInv ==
  /\ kind \in LawKinds /\ left \in Values(n) /\ right \in Values(n)
  /\ \/ results = <<>>
     \/ results = [op \in Faultless |->
                     CHOOSE r \in ArithmeticResults(kind, op, left, right) : TRUE]

LEMMA LawInductive ==
  /\ LawInit => LawInv
  /\ LawInv /\ [Evaluate]_lawVars => LawInv'
<1>1. LawInit => LawInv
  BY DEF LawInit, LawInv, n
<1>2. ASSUME LawInv, Evaluate PROVE LawInv'
  BY <1>2 DEF LawInv, Evaluate, Faultless, n
<1>3. ASSUME LawInv, UNCHANGED lawVars PROVE LawInv'
  BY <1>3 DEF LawInv, lawVars, Faultless, n
<1> QED BY <1>1, <1>2, <1>3

LEMMA KindIs ==
  ASSUME LawInv
  PROVE  /\ kind \in IntegerKinds /\ left \in Values(Size(kind)) /\ right \in Values(Size(kind))
         /\ WiderKind[kind] \in IntegerKinds /\ Size(WiderKind[kind]) = 2 * Size(kind)
         /\ kind \in SignedKinds <=> WiderKind[kind] \in SignedKinds
BY LawsAssumption DEF LawInv, n

LEMMA ResultIs ==
  ASSUME LawInv, Evaluated, NEW op \in ArithmeticOps, op \in {"Div", "Modulo"} => right # 0,
         NEW r \in Values(Size(kind)), IntegerArithmetic(kind, op, left, right) = r
  PROVE  results[op] = r
<1>1. results = [o \in Faultless |->
                   CHOOSE x \in ArithmeticResults(kind, o, left, right) : TRUE]
  BY DEF LawInv, Evaluated
<1>2. kind \notin FloatKinds
  BY KindIs, IntegerSize
<1>3. op \in Faultless
  BY <1>2 DEF Faultless, ArithmeticStatus, OperatorsOf, IsZero
<1>4. ArithmeticResults(kind, op, left, right) = {r}
  BY <1>2 DEF ArithmeticResults
<1>5. (CHOOSE x \in {r} : TRUE) = r
  OBVIOUS
<1> QED BY <1>1, <1>3, <1>4, <1>5

-----------------------------------------------------------------------------
(***************************************************************************)
(* Comparisons.                                                            *)
(***************************************************************************)
LEMMA ComparesValues ==
  ASSUME NEW k \in IntegerKinds, NEW a, NEW b, NEW op
  PROVE  CompareResults(k, op, a, b) =
           {IF compareOrdered(ValueOf(k, a), ValueOf(k, b), op) THEN 1 ELSE 0}
<1>1. k \notin FloatKinds /\ k # "Bool"
  BY IntegerSize
<1> QED BY <1>1 DEF CompareResults

LEMMA HoldsIs ==
  ASSUME NEW k \in IntegerKinds, NEW a, NEW b
  PROVE  LET x == ValueOf(k, a)
             y == ValueOf(k, b)
             holds(op) == CompareResults(k, op, a, b) = {1}
         IN  /\ holds("Less") <=> x < y
             /\ holds("Equal") <=> x = y
             /\ holds("Greater") <=> x > y
             /\ holds("LessEqual") <=> x <= y
             /\ holds("GreaterEqual") <=> x >= y
             /\ holds("NotEqual") <=> x # y
<1> DEFINE x == ValueOf(k, a)
           y == ValueOf(k, b)
<1>1. ASSUME NEW op PROVE CompareResults(k, op, a, b) = {1} <=> compareOrdered(x, y, op)
  <2>1. CompareResults(k, op, a, b) = {IF compareOrdered(x, y, op) THEN 1 ELSE 0}
    BY ComparesValues
  <2> QED BY <2>1
<1> HIDE DEF x, y
<1>2. /\ compareOrdered(x, y, "Less") <=> x < y
      /\ compareOrdered(x, y, "Equal") <=> x = y
      /\ compareOrdered(x, y, "Greater") <=> x > y
      /\ compareOrdered(x, y, "LessEqual") <=> x <= y
      /\ compareOrdered(x, y, "GreaterEqual") <=> x >= y
      /\ compareOrdered(x, y, "NotEqual") <=> x # y
  BY DEF compareOrdered
<1>3. /\ CompareResults(k, "Less", a, b) = {1} <=> x < y
      /\ CompareResults(k, "Equal", a, b) = {1} <=> x = y
      /\ CompareResults(k, "Greater", a, b) = {1} <=> x > y
      /\ CompareResults(k, "LessEqual", a, b) = {1} <=> x <= y
      /\ CompareResults(k, "GreaterEqual", a, b) = {1} <=> x >= y
      /\ CompareResults(k, "NotEqual", a, b) = {1} <=> x # y
  BY <1>1, <1>2
<1> QED BY <1>3 DEF x, y


\* The difference of two numbers of a kind wraps to zero when there is none.
LEMMA DifferenceIs ==
  ASSUME NEW k \in IntegerKinds, NEW a \in Values(Size(k)), NEW b \in Values(Size(k))
  PROVE  LET d == Wrap(ValueOf(k, a) - ValueOf(k, b), Size(k))
         IN  d \in Values(Size(k)) /\ (d = 0 <=> ValueOf(k, a) = ValueOf(k, b))
<1> DEFINE m == Modulus(Size(k))
           x == ValueOf(k, a)
           y == ValueOf(k, b)
<1>1. m \in Nat \ {0}
  BY IntegerSize
<1>2. /\ x \in Int /\ y \in Int
      /\ IF k \in SignedKinds THEN -m <= 2 * x /\ 2 * x < m ELSE 0 <= x /\ x < m
      /\ IF k \in SignedKinds THEN -m <= 2 * y /\ 2 * y < m ELSE 0 <= y /\ y < m
  BY ValueFits DEF Fits
<1> HIDE DEF m, x, y
<1> DEFINE d == x - y
<1>3. d \in Int /\ d < m /\ -m < d /\ (d = 0 <=> x = y)
  BY <1>1, <1>2
<1> HIDE DEF d
<1>4. d % m \in 0 .. m - 1 /\ (d % m = 0 <=> d = 0)
  <2>1. CASE d < 0
    <3>1. d >= -m
      BY <1>1, <1>3
    <3>2. d % m = d + m
      BY <1>1, <1>3, <2>1, <3>1, RemainderNegative
    <3> QED BY <1>1, <1>3, <2>1, <3>2
  <2>2. CASE d >= 0
    <3>1. d \in 0 .. m - 1
      BY <1>1, <1>3, <2>2
    <3> QED BY <1>1, <3>1, RemainderSmall
  <2> QED BY <1>3, <2>1, <2>2
<1> QED BY <1>3, <1>4 DEF Wrap, Values, d, m, x, y

LEMMA ComparisonsTogether == LawInv => ComparisonsAgree
<1> SUFFICES ASSUME LawInv PROVE ComparisonsAgree
  OBVIOUS
<1> DEFINE holds(op, a, b) == CompareResults(kind, op, a, b) = {1}
<1> PICK x : x = ValueOf(kind, left)
  OBVIOUS
<1> PICK y : y = ValueOf(kind, right)
  OBVIOUS
<1>1. kind \in IntegerKinds /\ left \in Values(Size(kind)) /\ right \in Values(Size(kind))
  BY KindIs
<1>2. x \in Int /\ y \in Int
  BY <1>1, ValueFits
<1>3. /\ holds("Less", left, right) <=> x < y
      /\ holds("Equal", left, right) <=> x = y
      /\ holds("Greater", left, right) <=> x > y
      /\ holds("LessEqual", left, right) <=> x <= y
      /\ holds("GreaterEqual", left, right) <=> x >= y
      /\ holds("NotEqual", left, right) <=> x # y
  BY <1>1, HoldsIs
<1>4. holds("Greater", right, left) <=> y > x
  BY <1>1, HoldsIs
<1>5. Evaluated => (x = y <=> results["Sub"] = 0)
  <2> SUFFICES ASSUME Evaluated PROVE x = y <=> results["Sub"] = 0
    OBVIOUS
  <2> PICK d : d = Wrap(x - y, Size(kind))
    OBVIOUS
  <2>1. d \in Values(Size(kind)) /\ (d = 0 <=> x = y)
    BY <1>1, DifferenceIs
  <2>2. "Sub" \in ArithmeticOps /\ "Sub" \notin {"Div", "Modulo"}
    BY DEF ArithmeticOps
  <2>3. IntegerArithmetic(kind, "Sub", left, right) = d
    BY DEF IntegerArithmetic
  <2>4. results["Sub"] = d
    BY <2>1, <2>2, <2>3, ResultIs
  <2> QED BY <2>1, <2>4
<1> HIDE DEF holds
<1>6. Cardinality({op \in {"Less", "Equal", "Greater"} : holds(op, left, right)}) = 1
  <2> DEFINE S == {op \in {"Less", "Equal", "Greater"} : holds(op, left, right)}
  <2>1. S = {"Less"} \/ S = {"Equal"} \/ S = {"Greater"}
    <3>1. CASE x < y
      <4>1. ~(x = y) /\ ~(x > y)
        BY <1>2, <3>1
      <4>2. S = {"Less"}
        BY <1>3, <3>1, <4>1
      <4> QED BY <4>2
    <3>2. CASE x = y
      <4>1. ~(x < y) /\ ~(x > y)
        BY <1>2, <3>2
      <4>2. S = {"Equal"}
        BY <1>3, <3>2, <4>1
      <4> QED BY <4>2
    <3>3. CASE x > y
      <4>1. ~(x < y) /\ ~(x = y)
        BY <1>2, <3>3
      <4>2. S = {"Greater"}
        BY <1>3, <3>3, <4>1
      <4> QED BY <4>2
    <3> QED BY <1>2, <3>1, <3>2, <3>3
  <2> HIDE DEF S
  <2>2. \A op : Cardinality({op}) = 1
    BY FS_Singleton
  <2>3. Cardinality(S) = 1
    BY <2>1, <2>2
  <2> QED BY <2>3 DEF S
<1>7. /\ holds("Less", left, right) <=> holds("Greater", right, left)
      /\ holds("LessEqual", left, right) <=> ~holds("Greater", left, right)
      /\ holds("GreaterEqual", left, right) <=> ~holds("Less", left, right)
      /\ holds("NotEqual", left, right) <=> ~holds("Equal", left, right)
      /\ Evaluated => (holds("Equal", left, right) <=> results["Sub"] = 0)
  BY <1>2, <1>3, <1>4, <1>5
<1> QED BY <1>6, <1>7 DEF ComparisonsAgree, holds

(***************************************************************************)
(* Equal, less and greater exclude one another, whatever the kind and the  *)
(* values; the other comparisons, and subtraction, agree with them.        *)
(***************************************************************************)
THEOREM ComparisonsAreAnOrder == LawSpec => []ComparisonsAgree
<1> QED BY LawInductive, ComparisonsTogether, PTL DEF LawSpec


-----------------------------------------------------------------------------
(***************************************************************************)
(* Division.                                                               *)
(***************************************************************************)
\* The quotient has the sign the operands give it, the remainder that of the
\* dividend, and it is smaller than the divisor.
Truncates(a, b, q, r) ==
  /\ q \in Int /\ r \in Int /\ q * b + r = a
  /\ Magnitude(r) < Magnitude(b) /\ Magnitude(r) <= Magnitude(a)
  /\ r # 0 => (r < 0 <=> a < 0)
  /\ Magnitude(q) <= Magnitude(a)
  /\ Magnitude(b) # 1 /\ a # 0 => Magnitude(q) < Magnitude(a)
  /\ b = 1 => q = a
LEMMA TruncationIs ==
  ASSUME NEW a \in Int, NEW b \in Int, b # 0,
         NEW q, q = TruncatedQuotient(a, b), NEW r, r = TruncatedRemainder(a, b)
  PROVE  Truncates(a, b, q, r)
<1> PICK A : A = Magnitude(a)
  OBVIOUS
<1> PICK B : B = Magnitude(b)
  OBVIOUS
<1> PICK d : d = A \div B
  OBVIOUS
<1> PICK m : m = A % B
  OBVIOUS
<1>1. A \in Nat /\ B \in Nat \ {0} /\ A = (IF a < 0 THEN -a ELSE a) /\ B = (IF b < 0 THEN -b ELSE b)
  BY DEF Magnitude
<1>2. d \in Int /\ m \in 0 .. B - 1 /\ A = B * d + m
  <2>1. A \in Int /\ B \in Nat \ {0}
    BY <1>1
  <2> QED BY <2>1, Divided
<1>3. d >= 0
  <2> SUFFICES ASSUME ~(d >= 0) PROVE FALSE
    OBVIOUS
  <2> DEFINE e == -1 - d
  <2>0. d \in Int
    BY <1>2
  <2>1. e \in Nat /\ d = -1 - e
    BY <2>0
  <2> HIDE DEF e
  <2>2. B * e \in Nat
    BY <1>1, <2>1, ProductNatural
  <2>3. B * d = -B - B * e
    BY <1>1, <2>1
  <2> QED BY <1>1, <1>2, <2>2, <2>3
<1> PICK p : p = B * d
  OBVIOUS
<1>4. p \in Nat /\ A = p + m /\ m \in Nat /\ d \in Nat
  <2>1. d \in Nat /\ B \in Nat
    BY <1>1, <1>2, <1>3
  <2>2. p \in Nat
    BY <2>1, ProductNatural
  <2> QED BY <1>2, <2>1, <2>2
<1>5. q = IF (a < 0) = (b < 0) THEN d ELSE -d
  BY DEF TruncatedQuotient
<1>6. q \in Int /\ b * q = IF a < 0 THEN -p ELSE p
  <2>1. b = B \/ b = -B
    BY <1>1
  <2>2. B * d = p /\ (-B) * (-d) = p /\ B * (-d) = -p /\ (-B) * d = -p
    BY <1>1, <1>4
  <2>3. CASE a < 0 /\ b < 0
    <3>1. q = d /\ b = -B
      BY <1>1, <1>5, <2>3
    <3> QED BY <1>4, <2>2, <2>3, <3>1
  <2>4. CASE a < 0 /\ ~(b < 0)
    <3>1. q = -d /\ b = B
      BY <1>1, <1>5, <2>4
    <3> QED BY <1>4, <2>2, <2>4, <3>1
  <2>5. CASE ~(a < 0) /\ b < 0
    <3>1. q = -d /\ b = -B
      BY <1>1, <1>5, <2>5
    <3> QED BY <1>4, <2>2, <2>5, <3>1
  <2>6. CASE ~(a < 0) /\ ~(b < 0)
    <3>1. q = d /\ b = B
      BY <1>1, <1>5, <2>6
    <3> QED BY <1>4, <2>2, <2>6, <3>1
  <2> QED BY <2>3, <2>4, <2>5, <2>6
<1>7. r = IF a < 0 THEN -m ELSE m
  <2>1. r = a - b * q
    BY DEF TruncatedRemainder
  <2> PICK bq : bq = b * q
    OBVIOUS
  <2>2. r = a - bq /\ bq = IF a < 0 THEN -p ELSE p
    BY <1>6, <2>1
  <2>3. p \in Nat /\ m \in Nat /\ (a < 0 => a = -(p + m)) /\ (~(a < 0) => a = p + m)
    BY <1>1, <1>4
  <2>4. CASE a < 0
    BY <2>2, <2>3, <2>4
  <2>5. CASE ~(a < 0)
    BY <2>2, <2>3, <2>5
  <2> QED BY <2>4, <2>5
<1>8. q * b + r = a
  <2>1. q * b = b * q
    BY <1>6
  <2> PICK bq : bq = b * q
    OBVIOUS
  <2>2. q * b = bq /\ bq = IF a < 0 THEN -p ELSE p
    BY <1>6, <2>1
  <2> QED BY <1>1, <1>4, <1>7, <2>2
<1>9. Magnitude(r) = m /\ Magnitude(b) = B /\ Magnitude(a) = A
  BY <1>4, <1>7 DEF Magnitude
<1>10. Magnitude(q) = d
  BY <1>4, <1>5 DEF Magnitude
<1>11. d <= p /\ (B # 1 /\ A # 0 => d < A) /\ (B = 1 => d = A)
  <2>1. CASE B = 1
    <3>1. p = d /\ m = 0
      BY <1>1, <1>2, <1>4, <2>1
    <3> QED BY <1>4, <2>1, <3>1
  <2>2. CASE B # 1
    <3> DEFINE e == B - 2
    <3>1. e \in Nat /\ B = 2 + e
      BY <1>1, <2>2
    <3> HIDE DEF e
    <3>2. e * d \in Nat
      BY <1>4, <3>1, ProductNatural
    <3>3. B * d = 2 * d + e * d
      BY <1>4, <3>1
    <3>4. p = 2 * d + e * d
      BY <3>3
    <3> PICK ed \in Nat : ed = e * d
      BY <3>2
    <3> QED BY <1>4, <2>2, <3>4
  <2> QED BY <2>1, <2>2
<1>12. b = 1 => q = a
  <2>1. b = 1 => B = 1 /\ ~(b < 0)
    BY <1>1
  <2> QED BY <1>1, <1>4, <1>5, <1>11, <2>1
<1>13. r \in Int /\ (r # 0 => (r < 0 <=> a < 0)) /\ m < B /\ m <= A /\ d <= A
  <2>1. m < B /\ m \in Nat
    BY <1>1, <1>2
  <2>2. m <= A /\ d <= A
    BY <1>4, <1>11
  <2>3. r \in Int /\ (r # 0 => (r < 0 <=> a < 0))
    BY <1>7, <2>1
  <2> QED BY <2>1, <2>2, <2>3
<1>14. a # 0 => A # 0
  BY <1>1
<1> QED BY <1>6, <1>8, <1>9, <1>10, <1>11, <1>12, <1>13, <1>14 DEF Truncates

LEMMA DivisionTogether == LawInv => QuotientAndRemainder
<1> SUFFICES ASSUME LawInv, Evaluated, right # 0 PROVE
      LET q == Number(results["Div"])
          r == Number(results["Modulo"])
      IN  /\ Wrap(q * Number(right) + r, n) = left
          /\ Magnitude(r) < Magnitude(Number(right))
          /\ r # 0 => (r < 0) = (Number(left) < 0)
          /\ q * Number(right) + r = Number(left)
               \/ (Number(right) = -1 /\ 2 * left = Modulus(n))
  BY DEF QuotientAndRemainder
<1> PICK k : k = kind
  OBVIOUS
<1> PICK a : a = ValueOf(k, left)
  OBVIOUS
<1> PICK b : b = ValueOf(k, right)
  OBVIOUS
<1> PICK q : q = TruncatedQuotient(a, b)
  OBVIOUS
<1> PICK r : r = TruncatedRemainder(a, b)
  OBVIOUS
<1> PICK m : m = Modulus(Size(k))
  OBVIOUS
<1>1. k \in IntegerKinds /\ left \in Values(Size(k)) /\ right \in Values(Size(k))
  BY KindIs
<1>2. m \in Nat \ {0}
  BY <1>1, IntegerSize
<1>3. /\ a \in Int /\ Fits(k, a) /\ Wrap(a, Size(k)) = left
      /\ b \in Int /\ Fits(k, b) /\ b # 0
  BY <1>1, ValueFits
<1>4. /\ q \in Int /\ r \in Int /\ q * b + r = a
      /\ Magnitude(r) < Magnitude(b) /\ Magnitude(r) <= Magnitude(a)
      /\ r # 0 => (r < 0 <=> a < 0)
      /\ Magnitude(q) <= Magnitude(a)
      /\ Magnitude(b) # 1 /\ a # 0 => Magnitude(q) < Magnitude(a)
      /\ b = 1 => q = a
  <2>1. Truncates(a, b, q, r)
    BY <1>3, TruncationIs
  <2> QED BY <2>1 DEF Truncates
<1>5. /\ IF k \in SignedKinds THEN -m <= 2 * a /\ 2 * a < m ELSE 0 <= a /\ a < m
      /\ IF k \in SignedKinds THEN -m <= 2 * b /\ 2 * b < m ELSE 0 <= b /\ b < m
  BY <1>3 DEF Fits
<1>6. Fits(k, r)
  <2>1. IF k \in SignedKinds THEN -m <= 2 * r /\ 2 * r < m ELSE 0 <= r /\ r < m
    BY <1>2, <1>3, <1>4, <1>5 DEF Magnitude
  <2> QED BY <2>1 DEF Fits
<1>7. ValueOf(k, results["Modulo"]) = r
  <2> PICK bits : bits = Wrap(r, Size(k))
    OBVIOUS
  <2>1. bits \in Values(Size(k)) /\ ValueOf(k, bits) = r
    BY <1>1, <1>4, <1>6, FitsBack
  <2>2. IntegerArithmetic(kind, "Modulo", left, right) = bits /\ "Modulo" \in ArithmeticOps
    BY DEF IntegerArithmetic, ArithmeticOps
  <2>3. results["Modulo"] = bits
    BY <2>1, <2>2, ResultIs
  <2> QED BY <2>1, <2>3
<1>8. ASSUME NEW bits \in Values(Size(k)), bits = Wrap(q, Size(k))
      PROVE  results["Div"] = bits
  <2>1. IntegerArithmetic(kind, "Div", left, right) = bits /\ "Div" \in ArithmeticOps
    BY <1>8 DEF IntegerArithmetic, ArithmeticOps
  <2> QED BY <2>1, ResultIs
<1>9. CASE Fits(k, q)
  <2>1. ValueOf(k, results["Div"]) = q
    <3> PICK bits : bits = Wrap(q, Size(k))
      OBVIOUS
    <3>1. bits \in Values(Size(k)) /\ ValueOf(k, bits) = q
      BY <1>1, <1>4, <1>9, FitsBack
    <3> QED BY <1>8, <3>1
  <2> QED BY <1>3, <1>4, <1>7, <2>1 DEF Number, n
<1>10. CASE ~ Fits(k, q)
  <2>1. k \in SignedKinds /\ b = -1 /\ 2 * a = -m /\ q = -a /\ r = 0
    <3>1. ~(IF k \in SignedKinds THEN -m <= 2 * q /\ 2 * q < m ELSE 0 <= q /\ q < m)
      BY <1>10 DEF Fits
    <3>2. k \in SignedKinds
      <4> SUFFICES ASSUME k \notin SignedKinds PROVE FALSE
        OBVIOUS
      <4>1. 0 <= a /\ a < m /\ 0 <= b /\ (q < 0 \/ q >= m)
        BY <1>2, <1>4, <1>5, <3>1
      <4>2. q >= 0
        <5>1. TruncatedQuotient(a, b) = Magnitude(a) \div Magnitude(b)
          BY <1>3, <4>1 DEF TruncatedQuotient
        <5>2. Magnitude(a) = a /\ Magnitude(b) = b
          BY <1>3, <4>1 DEF Magnitude
        <5>3. a \in Nat /\ b \in Nat \ {0}
          BY <1>3, <4>1
        <5>4. a \div b \in Nat
          BY <5>3
        <5> QED BY <5>1, <5>2, <5>4
      <4> QED BY <1>2, <1>3, <1>4, <4>1, <4>2 DEF Magnitude
    <3>3. -m <= 2 * a /\ 2 * a < m /\ (2 * q < -m \/ 2 * q >= m)
      BY <1>2, <1>4, <1>5, <3>1, <3>2
    <3>4. a # 0 /\ Magnitude(q) = Magnitude(a) /\ Magnitude(b) = 1 /\ b # 1
      BY <1>2, <1>3, <1>4, <3>3 DEF Magnitude
    <3>5. b = -1
      BY <1>3, <3>4 DEF Magnitude
    <3>6. r = 0
      BY <1>3, <1>4, <3>5 DEF Magnitude
    <3>7. q = -a
      BY <1>3, <1>4, <3>5, <3>6
    <3> QED BY <1>2, <1>3, <1>4, <3>2, <3>3, <3>5, <3>6, <3>7
  <2>2. q \in 0 .. m - 1 /\ 2 * q = m /\ a = q - m
    BY <1>2, <1>3, <1>4, <2>1
  <2>3. Wrap(q, Size(k)) = q /\ q \in Values(Size(k))
    BY <1>2, <2>2, RemainderSmall DEF Wrap, Values
  <2>4. results["Div"] = q
    BY <1>8, <2>3
  <2>5. ValueOf(k, q) = a
    BY <1>2, <2>1, <2>2 DEF ValueOf, Signed
  <2>6. left = q
    <3>1. a < 0 /\ a >= -m
      BY <1>2, <2>2
    <3>2. a % m = a + m
      BY <1>2, <1>3, <3>1, RemainderNegative
    <3> QED BY <1>2, <1>3, <1>4, <2>2, <3>2 DEF Wrap
  <2>7. a * b + r = q
    BY <1>3, <1>4, <2>1
  <2>8. Wrap(a * b + r, Size(k)) = left
    BY <2>3, <2>6, <2>7
  <2> QED BY <1>4, <1>7, <2>1, <2>2, <2>4, <2>5, <2>6, <2>8 DEF Number, n
<1> QED BY <1>9, <1>10

(***************************************************************************)
(* Quotient and remainder belong together, whatever the kind, the signs    *)
(* and the values, and only one division leaves the range.                 *)
(***************************************************************************)
THEOREM DivisionIsTruncated == LawSpec => []QuotientAndRemainder
<1> QED BY LawInductive, DivisionTogether, PTL DEF LawSpec


-----------------------------------------------------------------------------
(***************************************************************************)
(* Widening.                                                               *)
(***************************************************************************)
LEMMA ModulusSquares ==
  ASSUME NEW s \in {1, 2, 4}
  PROVE  Modulus(2 * s) = Modulus(s) * Modulus(s)
<1> PICK b : b = ByteBase
  OBVIOUS
<1>1. b \in Nat
  BY ByteAssumption
<1> PICK b2 : b2 = b * b
  OBVIOUS
<1> PICK b4 : b4 = ((b * b) * b) * b
  OBVIOUS
<1>2. b2 \in Nat /\ b4 \in Nat
  BY <1>1, ProductNatural
<1>3. b4 = b2 * b2
  BY <1>1
<1>4. b2 = Base2 /\ b4 = Base4 /\ Base7 * ByteBase = (((b4 * b) * b) * b) * b
  BY DEF Base2, Base3, Base4, Base5, Base6, Base7
<1>5. (((b4 * b) * b) * b) * b = b4 * b4
  <2>1. (((b4 * b) * b) * b) * b = b4 * (((b * b) * b) * b)
    BY <1>1, <1>2
  <2> QED BY <2>1
<1>6. CASE s = 1
  BY <1>4, <1>6 DEF Modulus
<1>7. CASE s = 2
  BY <1>3, <1>4, <1>7 DEF Modulus
<1>8. CASE s = 4
  BY <1>4, <1>5, <1>8 DEF Modulus
<1> QED BY <1>6, <1>7, <1>8

\* What fits a kind fits a wider one of the same signedness.
LEMMA FitsWider ==
  ASSUME NEW k \in IntegerKinds, NEW w \in IntegerKinds, Size(w) = 2 * Size(k),
         k \in SignedKinds <=> w \in SignedKinds, NEW v \in Int, Fits(k, v)
  PROVE  Fits(w, v)
<1> PICK m : m = Modulus(Size(k))
  OBVIOUS
<1> PICK l : l = Modulus(Size(w))
  OBVIOUS
<1>1. m \in Nat \ {0} /\ l \in Nat \ {0}
  BY IntegerSize
<1>2. l = m * m
  <2>1. Size(k) \in {1, 2, 4, 8} /\ Size(w) \in {1, 2, 4, 8}
    BY IntegerSize
  <2>2. Size(k) \in {1, 2, 4}
    BY <2>1
  <2> QED BY <2>2, ModulusSquares
<1>3. m <= l
  <2> PICK d \in Nat : m = 1 + d
    <3>1. m - 1 \in Nat /\ m = 1 + (m - 1)
      BY <1>1
    <3> QED BY <3>1
  <2>1. m * d \in Nat
    BY <1>1, ProductNatural
  <2>2. m * m = m + m * d
    BY <1>1
  <2> QED BY <1>1, <1>2, <2>1, <2>2
<1>4. IF k \in SignedKinds THEN -m <= 2 * v /\ 2 * v < m ELSE 0 <= v /\ v < m
  BY DEF Fits
<1>5. IF w \in SignedKinds THEN -l <= 2 * v /\ 2 * v < l ELSE 0 <= v /\ v < l
  BY <1>1, <1>3, <1>4
<1> QED BY <1>5 DEF Fits

LEMMA ConvertsValue ==
  ASSUME NEW k \in IntegerKinds, NEW w \in IntegerKinds, NEW bits \in Values(Size(k)),
         Fits(w, ValueOf(k, bits))
  PROVE  LET wide == Wrap(ValueOf(k, bits), Size(w))
         IN  /\ ConvertResults(k, w, bits) = {wide} /\ The(ConvertResults(k, w, bits)) = wide
             /\ wide \in Values(Size(w)) /\ ValueOf(w, wide) = ValueOf(k, bits)
<1> PICK v : v = ValueOf(k, bits)
  OBVIOUS
<1> PICK wide : wide = Wrap(v, Size(w))
  OBVIOUS
<1>1. v \in Int /\ wide \in Values(Size(w)) /\ ValueOf(w, wide) = v
  <2>1. v \in Int
    BY ValueFits
  <2> QED BY <2>1, FitsBack
<1>2. k \notin FloatKinds /\ w \notin FloatKinds /\ k # "Bool" /\ w # "Bool"
  BY IntegerSize
<1>3. ConvertResults(k, w, bits) = {wide}
  BY <1>1, <1>2 DEF ConvertResults
<1>4. The({wide}) = wide
  BY DEF The
<1> QED BY <1>1, <1>3, <1>4

LEMMA WideningTogether == LawInv => WideningIsFaithful
<1> SUFFICES ASSUME LawInv PROVE WideningIsFaithful
  OBVIOUS
<1> PICK k : k = kind
  OBVIOUS
<1> PICK w : w = WiderKind[kind]
  OBVIOUS
<1> DEFINE wide(bits) == The(ConvertResults(k, w, bits))
<1>1. /\ k \in IntegerKinds /\ left \in Values(Size(k)) /\ right \in Values(Size(k))
      /\ w \in IntegerKinds /\ Size(w) = 2 * Size(k)
      /\ k \in SignedKinds <=> w \in SignedKinds
  BY KindIs
<1>2. ASSUME NEW bits \in Values(Size(k))
      PROVE  /\ ValueOf(w, wide(bits)) = ValueOf(k, bits)
             /\ ConvertResults(w, k, wide(bits)) = {bits}
  <2>1. ValueOf(k, bits) \in Int /\ Fits(k, ValueOf(k, bits)) /\ Wrap(ValueOf(k, bits), Size(k)) = bits
    BY <1>1, ValueFits
  <2>2. Fits(w, ValueOf(k, bits))
    BY <1>1, <2>1, FitsWider
  <2>3. wide(bits) \in Values(Size(w)) /\ ValueOf(w, wide(bits)) = ValueOf(k, bits)
    BY <1>1, <2>2, ConvertsValue
  <2> PICK x \in Values(Size(w)) : x = wide(bits)
    BY <2>3
  <2>4. ValueOf(w, x) = ValueOf(k, bits) /\ Fits(k, ValueOf(w, x))
    BY <2>1, <2>3
  <2>5. ConvertResults(w, k, x) = {Wrap(ValueOf(w, x), Size(k))}
    BY <1>1, <2>4, ConvertsValue
  <2> QED BY <2>1, <2>3, <2>4, <2>5
<1> HIDE DEF wide
<1>3. ASSUME NEW op
      PROVE  CompareResults(w, op, wide(left), wide(right)) = CompareResults(k, op, left, right)
  <2>1. /\ ValueOf(w, wide(left)) = ValueOf(k, left)
        /\ ValueOf(w, wide(right)) = ValueOf(k, right)
    BY <1>1, <1>2
  <2>2. CompareResults(w, op, wide(left), wide(right)) =
          {IF compareOrdered(ValueOf(w, wide(left)), ValueOf(w, wide(right)), op) THEN 1 ELSE 0}
    BY <1>1, ComparesValues
  <2>3. CompareResults(k, op, left, right) =
          {IF compareOrdered(ValueOf(k, left), ValueOf(k, right), op) THEN 1 ELSE 0}
    BY <1>1, ComparesValues
  <2> QED BY <2>1, <2>2, <2>3
<1>4. ValueOf(w, wide(left)) = ValueOf(k, left) /\ ConvertResults(w, k, wide(left)) = {left}
  BY <1>1, <1>2
<1> QED BY <1>3, <1>4 DEF WideningIsFaithful, wide, Number

(***************************************************************************)
(* Widening keeps the number and every comparison, whatever the kind and   *)
(* the values, and narrowing again gives the bits back.                    *)
(***************************************************************************)
THEOREM WideningLosesNothing == LawSpec => []WideningIsFaithful
<1> QED BY LawInductive, WideningTogether, PTL DEF LawSpec

-----------------------------------------------------------------------------
(***************************************************************************)
(* Quotients of any integer, and the powers of two.                        *)
(***************************************************************************)
LEMMA DividedBy ==
  ASSUME NEW m \in Nat \ {0}, NEW v \in Int
  PROVE  v \div m \in Int /\ v % m \in 0 .. m - 1 /\ v = m * (v \div m) + (v % m)
BY Divided

\* Quotient and remainder of an integer are what divides it.
LEMMA QuotientUnique ==
  ASSUME NEW m \in Nat \ {0}, NEW k \in Int, NEW s \in 0 .. m - 1
  PROVE  (m * k + s) % m = s /\ (m * k + s) \div m = k
<1> PICK v : v = m * k + s
  OBVIOUS
<1>0. v \in Int
  <2>1. m * k \in Int
    OBVIOUS
  <2> QED BY <2>1
<1> PICK q : q = v \div m
  OBVIOUS
<1> PICK r : r = v % m
  OBVIOUS
<1>1. q \in Int /\ r \in 0 .. m - 1 /\ v = m * q + r
  BY <1>0, DividedBy
<1>2. q = k
  <2>1. ~(k < q)
    <3> SUFFICES ASSUME k < q PROVE FALSE
      OBVIOUS
    <3> PICK d \in Nat \ {0} : q = k + d
      <4>1. q - k \in Nat \ {0} /\ q = k + (q - k)
        BY <1>1
      <4> QED BY <4>1
    <3>1. m * q = m * k + m * d /\ m * d >= m /\ m * k \in Int /\ m * d \in Nat
      <4>1. m * q = m * k + m * d
        OBVIOUS
      <4>2. m * d >= m /\ m * k \in Int /\ m * d \in Nat
        BY ProductNatural
      <4> QED BY <4>1, <4>2
    <3> QED BY <1>1, <3>1
  <2>2. ~(q < k)
    <3> SUFFICES ASSUME q < k PROVE FALSE
      OBVIOUS
    <3> PICK d \in Nat \ {0} : k = q + d
      <4>1. k - q \in Nat \ {0} /\ k = q + (k - q)
        BY <1>1
      <4> QED BY <4>1
    <3>1. m * k = m * q + m * d /\ m * d >= m /\ m * q \in Int /\ m * d \in Nat
      <4>1. m * k = m * q + m * d
        BY <1>1
      <4>2. m * d >= m /\ m * q \in Int /\ m * d \in Nat
        BY <1>1, ProductNatural
      <4> QED BY <4>1, <4>2
    <3> QED BY <1>1, <3>1
  <2> QED BY <1>1, <2>1, <2>2
<1>3. m * k \in Int
  OBVIOUS
<1> QED BY <1>1, <1>2, <1>3

LEMMA Halved ==
  ASSUME NEW q \in Int
  PROVE  q \div 2 \in Int /\ q % 2 \in {0, 1} /\ q = 2 * (q \div 2) + (q % 2)
<1> PICK h : h = q \div 2
  OBVIOUS
<1> PICK d : d = q % 2
  OBVIOUS
<1>1. h \in Int /\ d \in 0 .. 2 - 1 /\ q = 2 * h + d
  BY Divided
<1> QED BY <1>1

LEMMA DigitTimes ==
  ASSUME NEW p \in Nat \ {0}, NEW q \in Int, NEW d \in {0, 1}, NEW r \in 0 .. p - 1
  PROVE  /\ p * d \in {0, p} /\ r + p * d \in 0 .. 2 * p - 1 /\ 2 * p \in Nat \ {0}
         /\ p * (2 * q + d) + r = (2 * p) * q + (r + p * d)
<1>1. p * (2 * q) = (2 * p) * q /\ p * (2 * q) \in Int
  OBVIOUS
<1>2. CASE d = 0
  <2>1. p * 0 = 0 /\ p * (2 * q + 0) = p * (2 * q)
    OBVIOUS
  <2> QED BY <1>1, <1>2, <2>1
<1>3. CASE d = 1
  <2>1. p * 1 = p /\ p * (2 * q + 1) = p * (2 * q) + p
    OBVIOUS
  <2> QED BY <1>1, <1>3, <2>1
<1> QED BY <1>2, <1>3

\* Dividing by twice as much halves the quotient, and leaves in the remainder
\* the digit that the halving drops.
LEMMA TwiceDivided ==
  ASSUME NEW p \in Nat \ {0}, NEW v \in Int
  PROVE  /\ v \div (2 * p) = (v \div p) \div 2
         /\ v % (2 * p) = (v % p) + p * ((v \div p) % 2)
         /\ v % p \in 0 .. p - 1 /\ v \div p \in Int /\ (v \div p) % 2 \in {0, 1}
<1> PICK q : q = v \div p
  OBVIOUS
<1> PICK r : r = v % p
  OBVIOUS
<1>1. q \in Int /\ r \in 0 .. p - 1 /\ v = p * q + r
  BY DividedBy
<1> PICK h : h = q \div 2
  OBVIOUS
<1> PICK d : d = q % 2
  OBVIOUS
<1>2. h \in Int /\ d \in {0, 1} /\ q = 2 * h + d
  BY <1>1, Halved
<1> PICK t : t = r + p * d
  OBVIOUS
<1>3. t \in 0 .. 2 * p - 1 /\ 2 * p \in Nat \ {0}
  BY <1>1, <1>2, DigitTimes
<1> PICK m : m = 2 * p
  OBVIOUS
<1>4. v = m * h + t
  <2>1. p * (2 * h + d) + r = (2 * p) * h + (r + p * d)
    BY <1>1, <1>2, DigitTimes
  <2> QED BY <1>1, <1>2, <2>1
<1>5. (m * h + t) % m = t /\ (m * h + t) \div m = h
  <2>1. m \in Nat \ {0} /\ h \in Int /\ t \in 0 .. m - 1
    BY <1>2, <1>3
  <2> QED BY <2>1, QuotientUnique
<1>6. v % m = t /\ v \div m = h
  BY <1>4, <1>5
<1> QED BY <1>1, <1>2, <1>6

\* The powers below k, one from the other.
IsPower(f, k) == f = [i \in 0 .. k |-> IF i = 0 THEN 1 ELSE 2 * f[i - 1]]

LEMMA PowerExists ==
  ASSUME NEW k \in Nat
  PROVE  \E f : IsPower(f, k)
<1> DEFINE F == [p \in (1 .. k) \X Nat |-> 2 * p[2]]
<1>1. F \in [(1 .. k) \X Nat -> Nat]
  OBVIOUS
<1>2. \A i \in 1 .. k : \A y \in Nat : F[<<i, y>>] = 2 * y
  OBVIOUS
<1> HIDE DEF F
<1>3. PICK f \in [0 .. k -> Nat] : f[0] = 1 /\ \A i \in 1 .. k : f[i] = F[<<i, f[i - 1]>>]
  <2>1. HasIteration(Nat, k, 1, F)
    BY <1>1, IterationExists
  <2> QED BY <2>1 DEF HasIteration, IsIteration
<1>4. \A i \in 0 .. k : f[i] = IF i = 0 THEN 1 ELSE 2 * f[i - 1]
  <2> TAKE i \in 0 .. k
  <2>1. CASE i = 0
    BY <1>3, <2>1
  <2>2. CASE i # 0
    <3>1. i \in 1 .. k /\ i - 1 \in 0 .. k
      BY <2>2
    <3>2. f[i - 1] \in Nat
      BY <3>1
    <3> QED BY <1>2, <1>3, <2>2, <3>1, <3>2
  <2> QED BY <2>1, <2>2
<1>5. f = [i \in 0 .. k |-> f[i]]
  OBVIOUS
<1> QED BY <1>4, <1>5 DEF IsPower

LEMMA PowersAre ==
  ASSUME NEW k \in Nat, NEW f, IsPower(f, k), NEW l \in k .. k + 1, NEW g, IsPower(g, l)
  PROVE  \A i \in 0 .. k : f[i] = g[i] /\ f[i] \in Nat \ {0}
<1> DEFINE S == {i \in 0 .. k : f[i] = g[i] /\ f[i] \in Nat \ {0}}
<1>1. \A i \in 0 .. k : f[i] = IF i = 0 THEN 1 ELSE 2 * f[i - 1]
  BY DEF IsPower
<1>2. \A i \in 0 .. k : g[i] = IF i = 0 THEN 1 ELSE 2 * g[i - 1]
  <2>1. \A i \in 0 .. l : g[i] = IF i = 0 THEN 1 ELSE 2 * g[i - 1]
    BY DEF IsPower
  <2>2. \A i \in 0 .. k : i \in 0 .. l
    OBVIOUS
  <2> QED BY <2>1, <2>2
<1>3. 0 \in S
  BY <1>1, <1>2
<1>4. ASSUME NEW i \in 0 .. k - 1, i \in S PROVE i + 1 \in S
  <2>1. i + 1 \in 0 .. k /\ i + 1 # 0 /\ (i + 1) - 1 = i
    OBVIOUS
  <2>2. f[i + 1] = 2 * f[i] /\ g[i + 1] = 2 * g[i]
    BY <1>1, <1>2, <2>1
  <2>3. 2 * f[i] \in Nat \ {0}
    BY <1>4
  <2> QED BY <1>4, <2>1, <2>2, <2>3
<1> HIDE DEF S
<1>5. 0 .. k \subseteq S
  BY <1>3, <1>4, SetInduction
<1> QED BY <1>5 DEF S

\* What TwoTo is, by what it is of one less.
LEMMA TwoToIs ==
  /\ TwoTo(0) = 1
  /\ \A k \in Nat : TwoTo(k) \in Nat \ {0} /\ TwoTo(k + 1) = 2 * TwoTo(k)
<1>1. ASSUME NEW k \in Nat
      PROVE  \E f : IsPower(f, k) /\ TwoTo(k) = f[k]
  <2> DEFINE f == CHOOSE f : f = [i \in 0 .. k |-> IF i = 0 THEN 1 ELSE 2 * f[i - 1]]
  <2>1. TwoTo(k) = f[k]
    BY DEF TwoTo
  <2>2. \E h : h = [i \in 0 .. k |-> IF i = 0 THEN 1 ELSE 2 * h[i - 1]]
    BY PowerExists DEF IsPower
  <2>3. f = [i \in 0 .. k |-> IF i = 0 THEN 1 ELSE 2 * f[i - 1]]
    BY <2>2
  <2> HIDE DEF f
  <2> QED BY <2>1, <2>3 DEF IsPower
<1>2. TwoTo(0) = 1
  <2>1. PICK f : IsPower(f, 0) /\ TwoTo(0) = f[0]
    BY <1>1
  <2> QED BY <2>1 DEF IsPower
<1>3. ASSUME NEW k \in Nat PROVE TwoTo(k) \in Nat \ {0} /\ TwoTo(k + 1) = 2 * TwoTo(k)
  <2>1. PICK f : IsPower(f, k) /\ TwoTo(k) = f[k]
    BY <1>1
  <2> PICK l : l = k + 1
    OBVIOUS
  <2>2. l \in Nat /\ l \in k .. k + 1 /\ l # 0 /\ l - 1 = k /\ k \in 0 .. k /\ l \in 0 .. l
    OBVIOUS
  <2>3. PICK g : IsPower(g, l) /\ TwoTo(l) = g[l]
    BY <1>1, <2>2
  <2>4. f[k] = g[k] /\ f[k] \in Nat \ {0}
    BY <2>1, <2>2, <2>3, PowersAre
  <2>5. g[l] = 2 * g[k]
    BY <2>2, <2>3 DEF IsPower
  <2> QED BY <2>1, <2>3, <2>4, <2>5
<1> QED BY <1>2, <1>3

LEMMA PowersMultiply ==
  ASSUME NEW a \in Nat, NEW b \in Nat
  PROVE  TwoTo(a + b) = TwoTo(a) * TwoTo(b)
<1> DEFINE S == {i \in 0 .. b : TwoTo(a + i) = TwoTo(a) * TwoTo(i)}
<1>1. 0 \in S
  BY TwoToIs
<1>2. ASSUME NEW i \in 0 .. b - 1, i \in S PROVE i + 1 \in S
  <2>1. i + 1 \in 0 .. b /\ a + (i + 1) = (a + i) + 1 /\ a + i \in Nat /\ i \in Nat
    OBVIOUS
  <2>2. /\ TwoTo((a + i) + 1) = 2 * TwoTo(a + i) /\ TwoTo(i + 1) = 2 * TwoTo(i)
        /\ TwoTo(a) \in Nat /\ TwoTo(i) \in Nat
    BY <2>1, TwoToIs
  <2>3. 2 * (TwoTo(a) * TwoTo(i)) = TwoTo(a) * (2 * TwoTo(i))
    BY <2>2
  <2> QED BY <1>2, <2>1, <2>2, <2>3
<1> HIDE DEF S
<1>3. 0 .. b \subseteq S
  BY <1>1, <1>2, SetInduction
<1> QED BY <1>3 DEF S

\* The modulus of n bytes is two to the power of their bits.
LEMMA ModulusIs ==
  ASSUME NEW s \in {1, 2, 4, 8}
  PROVE  /\ s * BitsPerByte \in Nat \ {0}
         /\ Modulus(s) = TwoTo(s * BitsPerByte)
<1> PICK b : b = BitsPerByte
  OBVIOUS
<1>1. b \in Nat /\ ByteBase = TwoTo(b) /\ b # 0
  BY ByteAssumption, TwoToIs
<1>2. Modulus(1) = TwoTo(1 * b)
  <2>1. 1 * b = b
    BY <1>1
  <2> QED BY <1>1, <2>1 DEF Modulus
<1>3. ASSUME NEW r \in {1, 2, 4}, Modulus(r) = TwoTo(r * b) PROVE Modulus(2 * r) = TwoTo((2 * r) * b)
  <2>1. r * b \in Nat /\ (2 * r) * b = r * b + r * b
    BY <1>1
  <2> QED BY <1>3, <2>1, PowersMultiply, ModulusSquares
<1>4. Modulus(2) = TwoTo(2 * b)
  <2>1. 2 * 1 = 2
    OBVIOUS
  <2> QED BY <1>2, <1>3, <2>1
<1>5. Modulus(4) = TwoTo(4 * b)
  <2>1. 2 * 2 = 4
    OBVIOUS
  <2> QED BY <1>4, <1>3, <2>1
<1>6. Modulus(8) = TwoTo(8 * b)
  <2>1. 2 * 4 = 8
    OBVIOUS
  <2> QED BY <1>5, <1>3, <2>1
<1>7. s * b \in Nat \ {0}
  BY <1>1
<1> QED BY <1>2, <1>4, <1>5, <1>6, <1>7

-----------------------------------------------------------------------------
(***************************************************************************)
(* Bit operations.                                                         *)
(***************************************************************************)
\* The sums of the bits of S below k, one from the other.
IsSum(f, S, k) ==
  f = [i \in 0 .. k |-> IF i = 0 THEN 0
                        ELSE f[i - 1] + IF i - 1 \in S THEN TwoTo(i - 1) ELSE 0]

LEMMA SumExists ==
  ASSUME NEW S, NEW k \in Nat
  PROVE  \E f : IsSum(f, S, k)
<1> DEFINE F == [p \in (1 .. k) \X Nat |-> p[2] + IF p[1] - 1 \in S THEN TwoTo(p[1] - 1) ELSE 0]
<1>1. ASSUME NEW i \in 1 .. k PROVE TwoTo(i - 1) \in Nat
  BY TwoToIs
<1>2. F \in [(1 .. k) \X Nat -> Nat]
  <2>1. ASSUME NEW p \in (1 .. k) \X Nat
        PROVE  (p[2] + IF p[1] - 1 \in S THEN TwoTo(p[1] - 1) ELSE 0) \in Nat
    <3>1. p[1] \in 1 .. k /\ p[2] \in Nat
      OBVIOUS
    <3>2. TwoTo(p[1] - 1) \in Nat
      BY <1>1, <3>1
    <3> QED BY <3>1, <3>2
  <2> QED BY <2>1
<1>3. \A i \in 1 .. k : \A y \in Nat :
        F[<<i, y>>] = y + IF i - 1 \in S THEN TwoTo(i - 1) ELSE 0
  OBVIOUS
<1> HIDE DEF F
<1>4. PICK f \in [0 .. k -> Nat] : f[0] = 0 /\ \A i \in 1 .. k : f[i] = F[<<i, f[i - 1]>>]
  <2>1. HasIteration(Nat, k, 0, F)
    BY <1>2, IterationExists
  <2> QED BY <2>1 DEF HasIteration, IsIteration
<1>5. \A i \in 0 .. k : f[i] = IF i = 0 THEN 0
                               ELSE f[i - 1] + IF i - 1 \in S THEN TwoTo(i - 1) ELSE 0
  <2> TAKE i \in 0 .. k
  <2>1. CASE i = 0
    BY <1>4, <2>1
  <2>2. CASE i # 0
    <3>1. i \in 1 .. k /\ i - 1 \in 0 .. k
      BY <2>2
    <3>2. f[i - 1] \in Nat
      BY <3>1
    <3> QED BY <1>3, <1>4, <2>2, <3>1, <3>2
  <2> QED BY <2>1, <2>2
<1>6. f = [i \in 0 .. k |-> f[i]]
  OBVIOUS
<1> QED BY <1>5, <1>6 DEF IsSum

LEMMA SumsAre ==
  ASSUME NEW S, NEW k \in Nat, NEW f, IsSum(f, S, k), NEW l \in k .. k + 1, NEW g, IsSum(g, S, l)
  PROVE  \A i \in 0 .. k : f[i] = g[i] /\ f[i] \in Nat
<1> DEFINE T == {i \in 0 .. k : f[i] = g[i] /\ f[i] \in Nat}
<1>1. \A i \in 0 .. k : f[i] = IF i = 0 THEN 0
                               ELSE f[i - 1] + IF i - 1 \in S THEN TwoTo(i - 1) ELSE 0
  BY DEF IsSum
<1>2. \A i \in 0 .. k : g[i] = IF i = 0 THEN 0
                               ELSE g[i - 1] + IF i - 1 \in S THEN TwoTo(i - 1) ELSE 0
  <2>1. \A i \in 0 .. l : g[i] = IF i = 0 THEN 0
                                 ELSE g[i - 1] + IF i - 1 \in S THEN TwoTo(i - 1) ELSE 0
    BY DEF IsSum
  <2>2. \A i \in 0 .. k : i \in 0 .. l
    OBVIOUS
  <2> QED BY <2>1, <2>2
<1>3. 0 \in T
  BY <1>1, <1>2
<1>4. ASSUME NEW i \in 0 .. k - 1, i \in T PROVE i + 1 \in T
  <2>1. i + 1 \in 0 .. k /\ i + 1 # 0 /\ (i + 1) - 1 = i
    OBVIOUS
  <2>2. /\ f[i + 1] = f[i] + IF i \in S THEN TwoTo(i) ELSE 0
        /\ g[i + 1] = g[i] + IF i \in S THEN TwoTo(i) ELSE 0
    BY <1>1, <1>2, <2>1
  <2>3. TwoTo(i) \in Nat
    BY TwoToIs
  <2> QED BY <1>4, <2>1, <2>2, <2>3
<1> HIDE DEF T
<1>5. 0 .. k \subseteq T
  BY <1>3, <1>4, SetInduction
<1> QED BY <1>5 DEF T

\* What the bits of S below k make, by what those below one less make.
LEMMA FromBitSetIs ==
  ASSUME NEW S
  PROVE  /\ FromBitSet(S, 0) = 0
         /\ \A k \in Nat : /\ FromBitSet(S, k) \in Nat
                           /\ FromBitSet(S, k + 1)
                                = FromBitSet(S, k) + IF k \in S THEN TwoTo(k) ELSE 0
<1>1. ASSUME NEW k \in Nat
      PROVE  \E f : IsSum(f, S, k) /\ FromBitSet(S, k) = f[k]
  <2> DEFINE f == CHOOSE f : f = [i \in 0 .. k |-> IF i = 0 THEN 0
                        ELSE f[i - 1] + IF i - 1 \in S THEN TwoTo(i - 1) ELSE 0]
  <2>1. FromBitSet(S, k) = f[k]
    BY DEF FromBitSet
  <2>2. \E h : h = [i \in 0 .. k |-> IF i = 0 THEN 0
                        ELSE h[i - 1] + IF i - 1 \in S THEN TwoTo(i - 1) ELSE 0]
    BY SumExists DEF IsSum
  <2>3. f = [i \in 0 .. k |-> IF i = 0 THEN 0
                        ELSE f[i - 1] + IF i - 1 \in S THEN TwoTo(i - 1) ELSE 0]
    BY <2>2
  <2> HIDE DEF f
  <2> QED BY <2>1, <2>3 DEF IsSum
<1>2. FromBitSet(S, 0) = 0
  <2>1. PICK f : IsSum(f, S, 0) /\ FromBitSet(S, 0) = f[0]
    BY <1>1
  <2> QED BY <2>1 DEF IsSum
<1>3. ASSUME NEW k \in Nat
      PROVE  /\ FromBitSet(S, k) \in Nat
             /\ FromBitSet(S, k + 1) = FromBitSet(S, k) + IF k \in S THEN TwoTo(k) ELSE 0
  <2>1. PICK f : IsSum(f, S, k) /\ FromBitSet(S, k) = f[k]
    BY <1>1
  <2> PICK l : l = k + 1
    OBVIOUS
  <2>2. l \in Nat /\ l \in k .. k + 1 /\ l # 0 /\ l - 1 = k /\ k \in 0 .. k /\ l \in 0 .. l
    OBVIOUS
  <2>3. PICK g : IsSum(g, S, l) /\ FromBitSet(S, l) = g[l]
    BY <1>1, <2>2
  <2>4. f[k] = g[k] /\ f[k] \in Nat
    BY <2>1, <2>2, <2>3, SumsAre
  <2>5. g[l] = g[k] + IF k \in S THEN TwoTo(k) ELSE 0
    BY <2>2, <2>3 DEF IsSum
  <2> QED BY <2>1, <2>3, <2>4, <2>5
<1> QED BY <1>2, <1>3

\* The bits of two sets: those in both and those in either add up to the bits
\* of the one and the bits of the other.
AddUp(L, R, w) ==
  /\ FromBitSet(L \cap R, w) + FromBitSet(L \cup R, w) = FromBitSet(L, w) + FromBitSet(R, w)
  /\ FromBitSet((L \ R) \cup (R \ L), w) + FromBitSet(L \cap R, w) = FromBitSet(L \cup R, w)
  /\ FromBitSet(L \cap R, w) <= FromBitSet(L, w)
  /\ FromBitSet(L \cap R, w) <= FromBitSet(R, w)

LEMMA BitsAddUp ==
  ASSUME NEW L, NEW R, NEW w \in Nat
  PROVE  AddUp(L, R, w)
<1> DEFINE A(i) == FromBitSet(L \cap R, i)
           O(i) == FromBitSet(L \cup R, i)
           X(i) == FromBitSet((L \ R) \cup (R \ L), i)
           l(i) == FromBitSet(L, i)
           r(i) == FromBitSet(R, i)
           T == {i \in 0 .. w : /\ A(i) + O(i) = l(i) + r(i) /\ X(i) + A(i) = O(i)
                                /\ A(i) <= l(i) /\ A(i) <= r(i)}
<1>1. /\ A(0) = 0 /\ O(0) = 0 /\ X(0) = 0 /\ l(0) = 0 /\ r(0) = 0
  BY FromBitSetIs
<1>2. ASSUME NEW i \in Nat
      PROVE  /\ A(i) \in Nat /\ O(i) \in Nat /\ X(i) \in Nat /\ l(i) \in Nat /\ r(i) \in Nat
             /\ A(i + 1) = A(i) + IF i \in L \cap R THEN TwoTo(i) ELSE 0
             /\ O(i + 1) = O(i) + IF i \in L \cup R THEN TwoTo(i) ELSE 0
             /\ X(i + 1) = X(i) + IF i \in (L \ R) \cup (R \ L) THEN TwoTo(i) ELSE 0
             /\ l(i + 1) = l(i) + IF i \in L THEN TwoTo(i) ELSE 0
             /\ r(i + 1) = r(i) + IF i \in R THEN TwoTo(i) ELSE 0
  <2>1. A(i) \in Nat /\ A(i + 1) = A(i) + IF i \in L \cap R THEN TwoTo(i) ELSE 0
    BY FromBitSetIs
  <2>2. O(i) \in Nat /\ O(i + 1) = O(i) + IF i \in L \cup R THEN TwoTo(i) ELSE 0
    BY FromBitSetIs
  <2>3. X(i) \in Nat /\ X(i + 1) = X(i) + IF i \in (L \ R) \cup (R \ L) THEN TwoTo(i) ELSE 0
    BY FromBitSetIs
  <2>4. l(i) \in Nat /\ l(i + 1) = l(i) + IF i \in L THEN TwoTo(i) ELSE 0
    BY FromBitSetIs
  <2>5. r(i) \in Nat /\ r(i + 1) = r(i) + IF i \in R THEN TwoTo(i) ELSE 0
    BY FromBitSetIs
  <2> HIDE DEF A, O, X, l, r
  <2> QED BY <2>1, <2>2, <2>3, <2>4, <2>5
<1> HIDE DEF A, O, X, l, r
<1>3. 0 \in T
  BY <1>1
<1>4. ASSUME NEW i \in 0 .. w - 1, i \in T PROVE i + 1 \in T
  <2>1. i \in Nat /\ i + 1 \in 0 .. w /\ TwoTo(i) \in Nat
    BY TwoToIs
  <2> PICK p \in Nat : p = TwoTo(i)
    BY <2>1
  <2>2. /\ A(i) \in Nat /\ O(i) \in Nat /\ X(i) \in Nat /\ l(i) \in Nat /\ r(i) \in Nat
        /\ A(i) + O(i) = l(i) + r(i) /\ X(i) + A(i) = O(i) /\ A(i) <= l(i) /\ A(i) <= r(i)
    BY <1>2, <1>4, <2>1
  <2>3. /\ A(i + 1) = A(i) + IF i \in L /\ i \in R THEN p ELSE 0
        /\ O(i + 1) = O(i) + IF i \in L \/ i \in R THEN p ELSE 0
        /\ X(i + 1) = X(i) + IF (i \in L) # (i \in R) THEN p ELSE 0
        /\ l(i + 1) = l(i) + IF i \in L THEN p ELSE 0
        /\ r(i + 1) = r(i) + IF i \in R THEN p ELSE 0
    <3>1. /\ i \in L \cap R <=> i \in L /\ i \in R
          /\ i \in L \cup R <=> i \in L \/ i \in R
          /\ i \in (L \ R) \cup (R \ L) <=> (i \in L) # (i \in R)
      OBVIOUS
    <3> HIDE DEF T
    <3> QED BY <1>2, <2>1, <3>1
  <2>4. /\ A(i + 1) + O(i + 1) = l(i + 1) + r(i + 1) /\ X(i + 1) + A(i + 1) = O(i + 1)
        /\ A(i + 1) <= l(i + 1) /\ A(i + 1) <= r(i + 1)
    <3> HIDE DEF T
    <3>1. CASE i \in L /\ i \in R
      BY <2>2, <2>3, <3>1
    <3>2. CASE i \in L /\ i \notin R
      BY <2>2, <2>3, <3>2
    <3>3. CASE i \notin L /\ i \in R
      BY <2>2, <2>3, <3>3
    <3>4. CASE i \notin L /\ i \notin R
      BY <2>2, <2>3, <3>4
    <3> QED BY <3>1, <3>2, <3>3, <3>4
  <2> QED BY <2>1, <2>4
<1> HIDE DEF T
<1>5. w \in T
  <2>1. 0 .. w \subseteq T
    BY <1>3, <1>4, SetInduction
  <2> QED BY <2>1
<1> QED BY <1>5 DEF AddUp, T, A, O, X, l, r

\* Bits below w make less than two to the power of w.
LEMMA BitsBelow ==
  ASSUME NEW S, NEW w \in Nat
  PROVE  FromBitSet(S, w) \in 0 .. TwoTo(w) - 1
<1> DEFINE T == {i \in 0 .. w : FromBitSet(S, i) \in 0 .. TwoTo(i) - 1}
<1>1. 0 \in T
  BY FromBitSetIs, TwoToIs
<1>2. ASSUME NEW i \in 0 .. w - 1, i \in T PROVE i + 1 \in T
  <2>1. i \in Nat /\ i + 1 \in 0 .. w
    OBVIOUS
  <2>2. TwoTo(i) \in Nat /\ TwoTo(i + 1) = 2 * TwoTo(i)
    BY <2>1, TwoToIs
  <2>3. FromBitSet(S, i + 1) = FromBitSet(S, i) + IF i \in S THEN TwoTo(i) ELSE 0
    BY <2>1, FromBitSetIs
  <2> QED BY <1>2, <2>1, <2>2, <2>3
<1> HIDE DEF T
<1>3. 0 .. w \subseteq T
  BY <1>1, <1>2, SetInduction
<1> QED BY <1>3 DEF T

LEMMA NatIsInt == Nat \subseteq Int
OBVIOUS

\* The bits of a number below w make its remainder by two to the power of w.
LEMMA BitsOfNumber ==
  ASSUME NEW v \in Nat, NEW w \in Nat, NEW S,
         \A i \in 0 .. w - 1 : i \in S <=> (v \div TwoTo(i)) % 2 = 1
  PROVE  FromBitSet(S, w) = v % TwoTo(w)
<1> DEFINE T == {i \in 0 .. w : FromBitSet(S, i) = v % TwoTo(i)}
<1>1. 0 \in T
  <2>1. v % 1 = 0
    OBVIOUS
  <2> QED BY <2>1, FromBitSetIs, TwoToIs
<1>2. ASSUME NEW i \in 0 .. w - 1, i \in T PROVE i + 1 \in T
  <2>1. i \in Nat /\ i + 1 \in 0 .. w
    OBVIOUS
  <2> PICK p \in Nat \ {0} : p = TwoTo(i)
    BY <2>1, TwoToIs
  <2> PICK m : m = 2 * p
    OBVIOUS
  <2>2. TwoTo(i + 1) = m
    BY <2>1, TwoToIs
  <2>3. FromBitSet(S, i + 1) = FromBitSet(S, i) + IF i \in S THEN p ELSE 0
    BY <2>1, FromBitSetIs
  <2> PICK q : q = v \div p
    OBVIOUS
  <2> PICK r : r = v % p
    OBVIOUS
  <2> PICK d : d = q % 2
    OBVIOUS
  <2>4. d \in {0, 1} /\ v % m = r + p * d /\ r \in Nat
    <3>1. /\ v % (2 * p) = (v % p) + p * ((v \div p) % 2)
          /\ v % p \in 0 .. p - 1 /\ (v \div p) % 2 \in {0, 1}
      <4> HIDE DEF T
      <4> QED BY ZenonT(20), TwiceDivided, NatIsInt
    <3> QED BY <3>1
  <2>5. i \in S <=> d = 1
    OBVIOUS
  <2>6. FromBitSet(S, i) = r
    BY <1>2
  <2> HIDE DEF T
  <2>7. (IF i \in S THEN p ELSE 0) = p * d
    BY <2>4, <2>5
  <2>8. FromBitSet(S, i + 1) = v % TwoTo(i + 1)
    BY <2>2, <2>3, <2>4, <2>6, <2>7
  <2> QED BY <2>1, <2>8 DEF T
<1> HIDE DEF T
<1>3. 0 .. w \subseteq T
  BY <1>1, <1>2, SetInduction
<1> QED BY <1>3 DEF T

\* A pattern is made of its bits.
LEMMA PatternOfBits ==
  ASSUME NEW s \in {1, 2, 4, 8}, NEW v \in Values(s)
  PROVE  FromBitSet(BitSet(v, s), s * BitsPerByte) = v
<1> PICK w : w = s * BitsPerByte
  OBVIOUS
<1>1. w \in Nat /\ Modulus(s) = TwoTo(w) /\ TwoTo(w) \in Nat \ {0}
  BY ModulusIs, TwoToIs
<1>2. v \in 0 .. TwoTo(w) - 1 /\ v \in Nat
  BY <1>1 DEF Values
<1>3. \A i \in 0 .. w - 1 : i \in BitSet(v, s) <=> (v \div TwoTo(i)) % 2 = 1
  BY DEF BitSet
<1>4. FromBitSet(BitSet(v, s), w) = v % TwoTo(w)
  BY <1>1, <1>2, <1>3, BitsOfNumber
<1>5. v % TwoTo(w) = v
  BY <1>1, <1>2, RemainderSmall
<1> QED BY <1>4, <1>5

LEMMA BitwiseTogether == LawInv => BitwiseLaws
<1> SUFFICES ASSUME LawInv, Evaluated PROVE
      /\ results["BitwiseAnd"] + results["BitwiseOr"] = left + right
      /\ results["BitwiseXor"] = results["BitwiseOr"] - results["BitwiseAnd"]
      /\ results["BitwiseAnd"] <= IF left < right THEN left ELSE right
  BY DEF BitwiseLaws
<1> PICK s : s = Size(kind)
  OBVIOUS
<1> PICK w : w = s * BitsPerByte
  OBVIOUS
<1> PICK L : L = BitSet(left, s)
  OBVIOUS
<1> PICK R : R = BitSet(right, s)
  OBVIOUS
<1>1. kind \in IntegerKinds /\ left \in Values(s) /\ right \in Values(s) /\ s \in {1, 2, 4, 8}
  BY KindIs, IntegerSize
<1>2. w \in Nat /\ Modulus(s) = TwoTo(w) /\ Values(s) = 0 .. TwoTo(w) - 1
  BY <1>1, ModulusIs DEF Values
<1>3. FromBitSet(L, w) = left /\ FromBitSet(R, w) = right /\ left \in Nat /\ right \in Nat
  BY <1>1, <1>2, PatternOfBits DEF Values
<1>4. AddUp(L, R, w)
  BY <1>2, BitsAddUp
<1> PICK a : a = FromBitSet(L \cap R, w)
  OBVIOUS
<1> PICK o : o = FromBitSet(L \cup R, w)
  OBVIOUS
<1> PICK x : x = FromBitSet((L \ R) \cup (R \ L), w)
  OBVIOUS
<1>12. a \in Values(s) /\ o \in Values(s) /\ x \in Values(s)
  BY <1>2, BitsBelow
<1>5. a + o = left + right /\ x + a = o /\ a <= left /\ a <= right
  BY <1>3, <1>4 DEF AddUp
<1>6. /\ IntegerArithmetic(kind, "BitwiseAnd", left, right) = a
      /\ IntegerArithmetic(kind, "BitwiseOr", left, right) = o
      /\ IntegerArithmetic(kind, "BitwiseXor", left, right) = x
  BY DEF IntegerArithmetic
<1>7. results["BitwiseAnd"] = a
  BY <1>12, <1>6, ResultIs DEF ArithmeticOps
<1>8. results["BitwiseOr"] = o
  BY <1>12, <1>6, ResultIs DEF ArithmeticOps
<1>9. results["BitwiseXor"] = x
  BY <1>12, <1>6, ResultIs DEF ArithmeticOps
<1>10. a \in Nat /\ o \in Nat /\ x \in Nat
  BY <1>2, <1>12
<1>11. x = o - a /\ a <= IF left < right THEN left ELSE right
  BY <1>3, <1>5, <1>10
<1> QED BY <1>5, <1>7, <1>8, <1>9, <1>11

(***************************************************************************)
(* Bit operations keep the bits of their operands: those of `and` and `or` *)
(* add up to the operands, those of `xor` are the rest, whatever the kind  *)
(* and the values (executeIntegerArithmetic).                              *)
(***************************************************************************)
THEOREM BitwiseAddsUp == LawSpec => []BitwiseLaws
<1> QED BY LawInductive, BitwiseTogether, PTL DEF LawSpec

-----------------------------------------------------------------------------
(***************************************************************************)
(* Shifts.                                                                 *)
(***************************************************************************)
LEMMA Distributes ==
  ASSUME NEW a \in Int, NEW b \in Int, NEW c \in Int
  PROVE  (a + b) * c = a * c + b * c
OBVIOUS

LEMMA DistributesOver ==
  ASSUME NEW a \in Int, NEW b \in Int, NEW c \in Int
  PROVE  c * (a - b) = c * a - c * b
OBVIOUS

LEMMA TwiceLess ==
  ASSUME NEW m \in Nat \ {0}, NEW x \in Nat, NEW q \in Int, NEW r \in 0 .. m - 1,
         2 * x = m * q + r
  PROVE  ((x - m) + (x - m)) % m = r
<1>1. q - 2 \in Int /\ m \in Int
  OBVIOUS
<1>2. m * (q - 2) = m * q - m * 2 /\ m * q \in Int
  BY <1>1, DistributesOver
<1>3. (x - m) + (x - m) = m * (q - 2) + r
  BY <1>1, <1>2
<1>4. (m * (q - 2) + r) % m = r
  BY <1>1, QuotientUnique
<1> QED BY <1>3, <1>4

\* Adding a pattern to itself doubles it, dropping the carry.
LEMMA AddedToItself ==
  ASSUME NEW k \in IntegerKinds, NEW x \in Values(Size(k)), NEW m, m = Modulus(Size(k))
  PROVE  IntegerArithmetic(k, "Add", x, x) = (2 * x) % m
<1> PICK v : v = ValueOf(k, x)
  OBVIOUS
<1>1. m \in Nat \ {0} /\ x \in 0 .. m - 1
  BY IntegerSize DEF Values
<1>2. v \in Int /\ (v = x \/ v = x - m)
  BY <1>1 DEF ValueOf, Signed
<1>3. IntegerArithmetic(k, "Add", x, x) = (v + v) % m
  BY DEF IntegerArithmetic, Wrap
<1> PICK q : q = (2 * x) \div m
  OBVIOUS
<1> PICK r : r = (2 * x) % m
  OBVIOUS
<1>4. q \in Int /\ r \in 0 .. m - 1 /\ 2 * x = m * q + r
  <2>1. 2 * x \in Int
    BY <1>1
  <2> QED BY <1>1, <2>1, DividedBy
<1>5. CASE v = x
  BY <1>1, <1>3, <1>5
<1>6. CASE v = x - m
  <2>1. ((x - m) + (x - m)) % m = r
    <3>1. x \in Nat
      BY <1>1
    <3> QED BY <1>1, <1>4, <3>1, TwiceLess
  <2> QED BY <1>3, <1>6, <2>1
<1> QED BY <1>2, <1>5, <1>6

\* What doubling a number leaves below p * q, when its digits below p are
\* worth q each.
KeepsDigits(p, q, v) ==
  (2 * ((v % (2 * p)) * q)) % (p * (2 * q)) = (v % p) * (2 * q)

LEMMA DoublingKeeps ==
  ASSUME NEW p \in Nat \ {0}, NEW q \in Nat \ {0}, NEW v \in Nat
  PROVE  KeepsDigits(p, q, v)
<1> PICK r : r = v % p
  OBVIOUS
<1> PICK d : d = (v \div p) % 2
  OBVIOUS
<1>1. v % (2 * p) = r + p * d /\ r \in 0 .. p - 1 /\ d \in {0, 1}
  <2>1. v \in Int
    OBVIOUS
  <2> QED BY <2>1, TwiceDivided
<1> PICK t : t = 2 * q
  OBVIOUS
<1> PICK m : m = p * t
  OBVIOUS
<1>2. t \in Nat \ {0} /\ m \in Nat \ {0}
  <2>1. t \in Nat \ {0}
    OBVIOUS
  <2> QED BY <2>1, ProductNatural
<1>3. 2 * ((r + p * d) * q) = m * d + r * t
  <2>1. 2 * ((r + p * d) * q) = (r + p * d) * t
    BY <1>1
  <2>2. (r + p * d) * t = (p * t) * d + r * t
    <3>1. CASE d = 0
      <4>1. p * 0 = 0 /\ (p * t) * 0 = 0
        BY <1>2
      <4> QED BY <1>1, <1>2, <3>1, <4>1
    <3>2. CASE d = 1
      <4>1. p * 1 = p /\ (p * t) * 1 = p * t
        BY <1>2
      <4>2. (r + p) * t = r * t + p * t /\ r * t \in Int /\ p * t \in Int
        <5>1. r \in Int /\ p \in Int /\ t \in Int
          BY <1>1, <1>2
        <5>2. (r + p) * t = r * t + p * t
          BY <5>1, Distributes
        <5> QED BY <5>1, <5>2
      <4> QED BY <3>2, <4>1, <4>2
    <3> QED BY <1>1, <3>1, <3>2
  <2> QED BY <2>1, <2>2
<1>4. r * t \in 0 .. m - 1
  <2>1. r * t \in Nat /\ (p - 1) * t = p * t - t
    BY <1>1, <1>2
  <2>2. r * t <= (p - 1) * t
    BY <1>1, <1>2
  <2>3. p * t \in Nat
    BY <1>2
  <2> QED BY <1>2, <2>1, <2>2, <2>3
<1>5. (m * d + r * t) % m = r * t
  <2> PICK s \in 0 .. m - 1 : s = r * t
    BY <1>4
  <2>1. d \in Int
    BY <1>1
  <2>2. (m * d + s) % m = s
    BY <1>2, <2>1, QuotientUnique
  <2> QED BY <2>2
<1> QED BY <1>1, <1>3, <1>5 DEF KeepsDigits

\* A pattern shifted left by i places within w bits.
ShiftedLeft(v, w, i) == (v % TwoTo(w - i)) * TwoTo(i)

LEMMA ShiftedOnce ==
  ASSUME NEW k \in IntegerKinds, NEW v \in Values(Size(k)), NEW w, w = Size(k) * BitsPerByte,
         NEW i \in 0 .. w - 1
  PROVE  /\ ShiftedLeft(v, w, i) \in Values(Size(k))
         /\ IntegerArithmetic(k, "Add", ShiftedLeft(v, w, i), ShiftedLeft(v, w, i))
              = ShiftedLeft(v, w, i + 1)
<1> PICK m : m = Modulus(Size(k))
  OBVIOUS
<1>1. w \in Nat \ {0} /\ m = TwoTo(w) /\ v \in Nat
  BY IntegerSize, ModulusIs DEF Values
<1> PICK j : j = w - (i + 1)
  OBVIOUS
<1>2. i \in Nat /\ j \in Nat /\ i + 1 \in Nat /\ w - i = j + 1 /\ w - (i + 1) = j /\ w = j + (i + 1)
  BY <1>1
<1> PICK p \in Nat \ {0} : p = TwoTo(j)
  BY <1>2, TwoToIs
<1> PICK q \in Nat \ {0} : q = TwoTo(i)
  BY <1>2, TwoToIs
<1>3. TwoTo(w - i) = 2 * p /\ TwoTo(i + 1) = 2 * q /\ TwoTo(w - (i + 1)) = p
  BY <1>2, TwoToIs
<1>4. m = p * (2 * q)
  <2>1. TwoTo(j + (i + 1)) = TwoTo(j) * TwoTo(i + 1)
    BY <1>2, PowersMultiply
  <2> QED BY <1>1, <1>2, <1>3, <2>1
<1> PICK x : x = ShiftedLeft(v, w, i)
  OBVIOUS
<1>5. x = (v % (2 * p)) * q /\ ShiftedLeft(v, w, i + 1) = (v % p) * (2 * q)
  BY <1>3 DEF ShiftedLeft
<1>6. x \in 0 .. m - 1
  <2>1. v % (2 * p) \in 0 .. 2 * p - 1
    <3>1. 2 * p \in Nat \ {0}
      OBVIOUS
    <3> QED BY <1>1, <3>1
  <2> PICK r \in 0 .. 2 * p - 1 : r = v % (2 * p)
    BY <2>1
  <2>2. (2 * p - 1 - r) * q \in Nat /\ r * q \in Nat
    <3>1. 2 * p - 1 - r \in Nat /\ r \in Nat
      OBVIOUS
    <3> QED BY <3>1, ProductNatural
  <2>3. (2 * p - 1 - r) * q = p * (2 * q) - q - r * q
    OBVIOUS
  <2> QED BY <1>4, <1>5, <2>2, <2>3
<1>7. x \in Values(Size(k))
  BY <1>6 DEF Values
<1>8. IntegerArithmetic(k, "Add", x, x) = (2 * x) % m
  BY <1>7, AddedToItself
<1>9. (2 * x) % m = (v % p) * (2 * q)
  <2>1. KeepsDigits(p, q, v)
    BY <1>1, DoublingKeeps
  <2> QED BY <1>4, <1>5, <2>1 DEF KeepsDigits
<1> QED BY <1>5, <1>7, <1>8, <1>9

\* Doubling i times is shifting left by i places.
IsDoubled(f, k, v, w) ==
  f = [i \in 0 .. w - 1 |-> IF i = 0 THEN v ELSE IntegerArithmetic(k, "Add", f[i - 1], f[i - 1])]

LEMMA DoubledIs ==
  ASSUME NEW k \in IntegerKinds, NEW v \in Values(Size(k)), NEW w, w = Size(k) * BitsPerByte
  PROVE  /\ \E f : IsDoubled(f, k, v, w)
         /\ \A f : IsDoubled(f, k, v, w) => \A i \in 0 .. w - 1 : f[i] = ShiftedLeft(v, w, i)
<1>1. w \in Nat \ {0} /\ Modulus(Size(k)) = TwoTo(w)
  BY IntegerSize, ModulusIs
<1>2. ShiftedLeft(v, w, 0) = v
  <2>1. w - 0 = w /\ TwoTo(0) = 1 /\ TwoTo(w) \in Nat \ {0}
    BY <1>1, TwoToIs
  <2>2. v % TwoTo(w) = v
    <3>1. v \in 0 .. TwoTo(w) - 1
      BY <1>1 DEF Values
    <3> QED BY <2>1, <3>1, RemainderSmall
  <2>3. v \in Nat
    BY <1>1, <2>1 DEF Values
  <2> QED BY <2>1, <2>2, <2>3 DEF ShiftedLeft
<1>3. ASSUME NEW i \in 0 .. w - 1, i # 0
      PROVE  /\ i - 1 \in 0 .. w - 1
             /\ IntegerArithmetic(k, "Add", ShiftedLeft(v, w, i - 1), ShiftedLeft(v, w, i - 1))
                  = ShiftedLeft(v, w, i)
  <2> PICK j : j = i - 1
    OBVIOUS
  <2>1. j \in 0 .. w - 1 /\ j + 1 = i
    BY <1>1, <1>3
  <2>2. IntegerArithmetic(k, "Add", ShiftedLeft(v, w, j), ShiftedLeft(v, w, j))
          = ShiftedLeft(v, w, j + 1)
    BY <2>1, ShiftedOnce
  <2> QED BY <2>1, <2>2
<1>4. \E f : IsDoubled(f, k, v, w)
  <2> DEFINE f == [i \in 0 .. w - 1 |-> ShiftedLeft(v, w, i)]
  <2>1. ASSUME NEW i \in 0 .. w - 1
        PROVE  ShiftedLeft(v, w, i)
                 = IF i = 0 THEN v ELSE IntegerArithmetic(k, "Add", f[i - 1], f[i - 1])
    <3>1. CASE i = 0
      BY <1>2, <3>1
    <3>2. CASE i # 0
      <4>1. i - 1 \in 0 .. w - 1
        BY <1>3, <3>2
      <4>2. f[i - 1] = ShiftedLeft(v, w, i - 1)
        BY <4>1
      <4> QED BY <1>3, <3>2, <4>2
    <3> QED BY <3>1, <3>2
  <2>2. IsDoubled(f, k, v, w)
    BY <2>1 DEF IsDoubled
  <2> QED BY <2>2
<1>5. ASSUME NEW f, IsDoubled(f, k, v, w)
      PROVE  \A i \in 0 .. w - 1 : f[i] = ShiftedLeft(v, w, i)
  <2> DEFINE T == {i \in 0 .. w - 1 : f[i] = ShiftedLeft(v, w, i)}
  <2>1. \A i \in 0 .. w - 1 :
          f[i] = IF i = 0 THEN v ELSE IntegerArithmetic(k, "Add", f[i - 1], f[i - 1])
    BY <1>5 DEF IsDoubled
  <2>2. 0 \in T
    <3>1. 0 \in 0 .. w - 1
      BY <1>1
    <3> QED BY <1>2, <2>1, <3>1
  <2>3. ASSUME NEW i \in 0 .. (w - 1) - 1, i \in T PROVE i + 1 \in T
    <3> PICK j : j = i + 1
      OBVIOUS
    <3>1. j \in 0 .. w - 1 /\ j # 0 /\ j - 1 = i
      BY <1>1
    <3>2. f[j] = IntegerArithmetic(k, "Add", f[i], f[i])
      BY <2>1, <3>1
    <3>3. IntegerArithmetic(k, "Add", ShiftedLeft(v, w, i), ShiftedLeft(v, w, i))
            = ShiftedLeft(v, w, j)
      BY <1>3, <3>1
    <3> QED BY <2>3, <3>1, <3>2, <3>3
  <2> HIDE DEF T
  <2>4. 0 .. w - 1 \subseteq T
    <3>1. w - 1 \in Nat
      BY <1>1
    <3> QED BY <2>2, <2>3, <3>1, SetInduction
  <2> QED BY <2>4 DEF T
<1> QED BY <1>4, <1>5

\* Halving i times is dividing by two to the power of i.
IsHalved(f, a, w) == f = [i \in 0 .. w - 1 |-> IF i = 0 THEN a ELSE f[i - 1] \div 2]

LEMMA HalvedIs ==
  ASSUME NEW a \in Int, NEW w \in Nat \ {0}
  PROVE  /\ \E f : IsHalved(f, a, w)
         /\ \A f : IsHalved(f, a, w) => \A i \in 0 .. w - 1 : f[i] = a \div TwoTo(i)
<1> DEFINE H(i) == a \div TwoTo(i)
<1>1. H(0) = a
  <2>1. a \div 1 = a
    OBVIOUS
  <2> QED BY <2>1, TwoToIs
<1>2. ASSUME NEW i \in 0 .. w - 1, i # 0
      PROVE  i - 1 \in 0 .. w - 1 /\ H(i - 1) \div 2 = H(i)
  <2> PICK j : j = i - 1
    OBVIOUS
  <2>1. j \in 0 .. w - 1 /\ j + 1 = i /\ j \in Nat
    BY <1>2
  <2> PICK p \in Nat \ {0} : p = TwoTo(j)
    BY <2>1, TwoToIs
  <2>2. TwoTo(i) = 2 * p
    BY <2>1, TwoToIs
  <2>3. a \div (2 * p) = (a \div p) \div 2
    BY TwiceDivided
  <2> QED BY <2>1, <2>2, <2>3
<1> HIDE DEF H
<1>3. \E f : IsHalved(f, a, w)
  <2> DEFINE f == [i \in 0 .. w - 1 |-> H(i)]
  <2>1. ASSUME NEW i \in 0 .. w - 1
        PROVE  H(i) = IF i = 0 THEN a ELSE f[i - 1] \div 2
    <3>1. CASE i = 0
      BY <1>1, <3>1
    <3>2. CASE i # 0
      <4>1. i - 1 \in 0 .. w - 1
        BY <1>2, <3>2
      <4>2. f[i - 1] = H(i - 1)
        BY <4>1
      <4> QED BY <1>2, <3>2, <4>2
    <3> QED BY <3>1, <3>2
  <2>2. IsHalved(f, a, w)
    BY <2>1 DEF IsHalved
  <2> QED BY <2>2
<1>4. ASSUME NEW f, IsHalved(f, a, w)
      PROVE  \A i \in 0 .. w - 1 : f[i] = H(i)
  <2> DEFINE T == {i \in 0 .. w - 1 : f[i] = H(i)}
  <2>1. \A i \in 0 .. w - 1 : f[i] = IF i = 0 THEN a ELSE f[i - 1] \div 2
    BY <1>4 DEF IsHalved
  <2>2. 0 \in T
    <3>1. 0 \in 0 .. w - 1
      OBVIOUS
    <3> QED BY <1>1, <2>1, <3>1
  <2>3. ASSUME NEW i \in 0 .. (w - 1) - 1, i \in T PROVE i + 1 \in T
    <3> PICK j : j = i + 1
      OBVIOUS
    <3>1. j \in 0 .. w - 1 /\ j # 0 /\ j - 1 = i
      OBVIOUS
    <3>2. f[j] = f[i] \div 2
      BY <2>1, <3>1
    <3>3. H(i) \div 2 = H(j)
      BY <1>2, <3>1
    <3> QED BY <2>3, <3>1, <3>2, <3>3
  <2> HIDE DEF T
  <2>4. 0 .. w - 1 \subseteq T
    <3>1. w - 1 \in Nat
      OBVIOUS
    <3> QED BY <2>2, <2>3, <3>1, SetInduction
  <2> QED BY <2>4 DEF T
<1> QED BY <1>3, <1>4 DEF H

\* Dividing a number that fits by a power of two gives one that fits.
LEMMA QuotientFits ==
  ASSUME NEW k \in IntegerKinds, NEW a \in Int, Fits(k, a), NEW p \in Nat \ {0}
  PROVE  a \div p \in Int /\ Fits(k, a \div p)
<1> PICK m : m = Modulus(Size(k))
  OBVIOUS
<1>1. m \in Nat \ {0}
  BY IntegerSize
<1> PICK q : q = a \div p
  OBVIOUS
<1>2. \E r \in 0 .. p - 1 : q \in Int /\ a = p * q + r
  BY DividedBy
<1> PICK r \in 0 .. p - 1 : q \in Int /\ a = p * q + r
  BY <1>2
<1>3. a >= 0 => 0 <= q /\ q <= a
  <2> SUFFICES ASSUME a >= 0 PROVE 0 <= q /\ q <= a
    OBVIOUS
  <2>1. ~(q < 0)
    <3> SUFFICES ASSUME q < 0 PROVE FALSE
      OBVIOUS
    <3>1. p * (-q) \in Nat /\ p * (-q) >= p /\ p * q = -(p * (-q))
      OBVIOUS
    <3> QED BY <3>1
  <2>2. p * q >= q
    BY <2>1
  <2> QED BY <2>1, <2>2
<1>4. a < 0 => a <= q /\ q < 0
  <2> SUFFICES ASSUME a < 0 PROVE a <= q /\ q < 0
    OBVIOUS
  <2>1. q < 0
    <3> SUFFICES ASSUME q >= 0 PROVE FALSE
      OBVIOUS
    <3>1. p * q >= 0
      OBVIOUS
    <3> QED BY <3>1
  <2> PICK d \in Nat \ {0} : q = -d
    <3>1. -q \in Nat \ {0} /\ q = -(-q)
      BY <2>1
    <3> QED BY <3>1
  <2>2. (p - 1) * (d - 1) \in Nat
    <3>1. p - 1 \in Nat /\ d - 1 \in Nat
      OBVIOUS
    <3> QED BY <3>1, ProductNatural
  <2>3. (p - 1) * (d - 1) = p * d - p - d + 1
    OBVIOUS
  <2>4. p * q = -(p * d) /\ p * d \in Nat
    OBVIOUS
  <2> QED BY <2>1, <2>2, <2>3, <2>4
<1>5. IF k \in SignedKinds THEN -m <= 2 * a /\ 2 * a < m ELSE 0 <= a /\ a < m
  BY DEF Fits
<1>6. IF k \in SignedKinds THEN -m <= 2 * q /\ 2 * q < m ELSE 0 <= q /\ q < m
  BY <1>1, <1>2, <1>3, <1>4, <1>5
<1> QED BY <1>2, <1>6 DEF Fits

LEMMA ShiftsTogether == LawInv => ShiftsStepByStep
<1> SUFFICES ASSUME LawInv, Evaluated PROVE
      LET width == n * BitsPerByte
          doubled[i \in 0 .. width - 1] ==
            IF i = 0 THEN left
            ELSE IntegerArithmetic(kind, "Add", doubled[i - 1], doubled[i - 1])
          halved[i \in 0 .. width - 1] ==
            IF i = 0 THEN Number(left) ELSE halved[i - 1] \div 2
      IN  /\ results["ShiftLeft"] = doubled[right % width]
          /\ Number(results["ShiftRight"]) = halved[right % width]
  BY DEF ShiftsStepByStep
<1> PICK s : s = Size(kind)
  OBVIOUS
<1> PICK w : w = s * BitsPerByte
  OBVIOUS
<1> PICK a : a = ValueOf(kind, left)
  OBVIOUS
<1>1. kind \in IntegerKinds /\ left \in Values(s) /\ right \in Values(s) /\ s \in {1, 2, 4, 8}
  BY KindIs, IntegerSize
<1>2. w \in Nat \ {0} /\ right \in Nat
  BY <1>1, IntegerSize, ModulusIs DEF Values
<1>3. a \in Int /\ Fits(kind, a)
  BY <1>1, ValueFits
<1> PICK c \in 0 .. w - 1 : c = right % w
  BY <1>2
<1>4. results["ShiftLeft"] = ShiftedLeft(left, w, c)
  <2>1. IntegerArithmetic(kind, "ShiftLeft", left, right) = ShiftedLeft(left, w, c)
    BY DEF IntegerArithmetic, ShiftCount, ShiftedLeft
  <2>2. ShiftedLeft(left, w, c) \in Values(s)
    BY <1>1, ShiftedOnce
  <2> QED BY <2>1, <2>2, ResultIs DEF ArithmeticOps
<1>5. Number(results["ShiftRight"]) = a \div TwoTo(c)
  <2> PICK p \in Nat \ {0} : p = TwoTo(c)
    BY TwoToIs
  <2>1. IntegerArithmetic(kind, "ShiftRight", left, right) = Wrap(a \div p, s)
    BY DEF IntegerArithmetic, ShiftCount
  <2>2. a \div p \in Int /\ Fits(kind, a \div p)
    BY <1>1, <1>3, QuotientFits
  <2>3. Wrap(a \div p, s) \in Values(s) /\ ValueOf(kind, Wrap(a \div p, s)) = a \div p
    BY <1>1, <2>2, FitsBack
  <2>4. results["ShiftRight"] = Wrap(a \div p, s)
    BY <2>1, <2>3, ResultIs DEF ArithmeticOps
  <2> QED BY <2>3, <2>4 DEF Number
<1> DEFINE doubled == CHOOSE f : f = [i \in 0 .. w - 1 |->
                        IF i = 0 THEN left ELSE IntegerArithmetic(kind, "Add", f[i - 1], f[i - 1])]
           halved == CHOOSE f : f = [i \in 0 .. w - 1 |-> IF i = 0 THEN a ELSE f[i - 1] \div 2]
<1>6. doubled[c] = ShiftedLeft(left, w, c)
  <2>1. \E f : IsDoubled(f, kind, left, w)
    BY <1>1, DoubledIs
  <2>2. IsDoubled(doubled, kind, left, w)
    BY <2>1 DEF IsDoubled
  <2> HIDE DEF doubled
  <2> QED BY <1>1, <2>2, DoubledIs
<1>7. halved[c] = a \div TwoTo(c)
  <2>1. \E f : IsHalved(f, a, w)
    BY <1>2, <1>3, HalvedIs
  <2>2. IsHalved(halved, a, w)
    BY <2>1 DEF IsHalved
  <2> HIDE DEF halved
  <2> QED BY <1>2, <1>3, <2>2, HalvedIs
<1>8. n * BitsPerByte = w /\ Number(left) = a
  BY DEF n, Number
<1> QED BY <1>4, <1>5, <1>6, <1>7, <1>8 DEF n, Number

(***************************************************************************)
(* Shifting by a count is shifting by one that often, whatever the kind,   *)
(* the value and the count: left drops what leaves the width, right keeps  *)
(* the sign (executeIntegerArithmetic).                                    *)
(***************************************************************************)
THEOREM ShiftsGoByOne == LawSpec => []ShiftsStepByStep
<1> QED BY LawInductive, ShiftsTogether, PTL DEF LawSpec

-----------------------------------------------------------------------------
(***************************************************************************)
(* Constant folding.                                                       *)
(***************************************************************************)
\* The kind the optimizer computes in has the size and the sign of the type.
LEMMA FoldingKind ==
  ASSUME NEW k \in IntegerKinds, NEW f, f = optimizerKindFromType(NamedType(k))
  PROVE  /\ f \in IntegerKinds /\ Size(f) = Size(k) /\ (f = "Uint64" <=> k = "Uint64")
         /\ \A bits : ValueOf(f, bits) = ValueOf(k, bits)
<1>1. f = IF k \in {"Byte", "Uint8"} THEN "Uint8" ELSE k
  BY DEF optimizerKindFromType, NamedType, TypeObject, NumericKinds, IntegerKinds, SignedKinds,
         UnsignedKinds, FloatKinds
<1>2. f \in IntegerKinds /\ Size(f) = Size(k) /\ (f \in SignedKinds <=> k \in SignedKinds)
      /\ (f = "Uint64" <=> k = "Uint64")
  BY <1>1 DEF IntegerKinds, SignedKinds, UnsignedKinds, Size
<1> QED BY <1>2 DEF ValueOf

\* A pattern made a literal is read back from it.
LEMMA LiteralReadBack ==
  ASSUME NEW f \in IntegerKinds, NEW bits \in Values(Size(f)), NEW l,
         l = optimizerLiteralFromBits(bits, f)
  PROVE  optimizerLiteralBits(l, f) = bits /\ (f # "Uint64" => l.value = ValueOf(f, bits))
<1> PICK v : v = IF f = "Uint64" THEN Signed(bits, Size(f)) ELSE ValueOf(f, bits)
  OBVIOUS
<1>1. f \notin FloatKinds
  BY IntegerSize
<1>2. l = [is |-> "number", kind |-> "Int32", value |-> v]
  BY <1>1 DEF optimizerLiteralFromBits, IntLiteral, NumberLiteral
<1>3. l.value = v /\ l.kind \notin FloatKinds
  BY <1>2 DEF FloatKinds
<1>4. optimizerLiteralBits(l, f) = Wrap(v, Size(f))
  BY <1>1, <1>3 DEF optimizerLiteralBits
<1>5. Wrap(v, Size(f)) = bits
  <2>1. CASE f # "Uint64"
    BY <2>1, ValueFits
  <2>2. CASE f = "Uint64"
    <3> PICK g : g = "Int64"
      OBVIOUS
    <3>1. g \in IntegerKinds /\ g \in SignedKinds /\ Size(g) = Size(f)
      BY <2>2 DEF IntegerKinds, SignedKinds, UnsignedKinds, Size
    <3>2. Wrap(ValueOf(g, bits), Size(g)) = bits
      BY <3>1, ValueFits
    <3>3. v = ValueOf(g, bits)
      BY <2>2, <3>1 DEF ValueOf
    <3> QED BY <3>1, <3>2, <3>3
  <2> QED BY <2>1, <2>2
<1> QED BY <1>3, <1>4, <1>5

\* The digits below a divisor of the modulus are those of the pattern,
\* whatever the sign.
LEMMA SignKeepsDigits ==
  ASSUME NEW p \in Nat \ {0}, NEW q \in Nat, NEW v \in Nat
  PROVE  (v - p * q) % p = v % p
<1> PICK d : d = v \div p
  OBVIOUS
<1> PICK r : r = v % p
  OBVIOUS
<1>1. d \in Int /\ r \in 0 .. p - 1 /\ v = p * d + r
  <2>1. v \in Int
    OBVIOUS
  <2> QED BY <2>1, DividedBy
<1>2. d - q \in Int /\ p * (d - q) = p * d - p * q /\ p * d \in Int /\ p * q \in Int
  <2>1. d \in Int /\ q \in Int /\ p \in Int
    BY <1>1
  <2>2. p * (d - q) = p * d - p * q
    BY <2>1, DistributesOver
  <2> QED BY <2>1, <2>2
<1>3. v - p * q = p * (d - q) + r
  BY <1>1, <1>2
<1>4. (p * (d - q) + r) % p = r
  BY <1>1, <1>2, QuotientUnique
<1> QED BY <1>3, <1>4

\* Shifting the number to the left and cutting it is shifting the pattern.
LEMMA NumberShiftedLeft ==
  ASSUME NEW k \in IntegerKinds, NEW v \in Values(Size(k)), NEW w, w = Size(k) * BitsPerByte,
         NEW i \in 0 .. w - 1
  PROVE  Wrap((ValueOf(k, v) % TwoTo(w - i)) * TwoTo(i), Size(k)) = ShiftedLeft(v, w, i)
<1> PICK m : m = Modulus(Size(k))
  OBVIOUS
<1>1. w \in Nat \ {0} /\ m = TwoTo(w) /\ v \in Nat /\ m \in Nat \ {0}
  BY IntegerSize, ModulusIs DEF Values
<1> PICK j : j = w - i
  OBVIOUS
<1>2. i \in Nat /\ j \in Nat /\ j + i = w
  BY <1>1
<1> PICK p \in Nat \ {0} : p = TwoTo(j)
  BY <1>2, TwoToIs
<1> PICK q \in Nat \ {0} : q = TwoTo(i)
  BY <1>2, TwoToIs
<1>3. m = p * q
  BY <1>1, <1>2, PowersMultiply
<1>4. ValueOf(k, v) % p = v % p
  <2>1. ValueOf(k, v) = v \/ ValueOf(k, v) = v - m
    BY DEF ValueOf, Signed
  <2>2. (v - p * q) % p = v % p
    BY <1>1, SignKeepsDigits
  <2> QED BY <1>3, <2>1, <2>2
<1> PICK x : x = ShiftedLeft(v, w, i)
  OBVIOUS
<1>5. x \in 0 .. m - 1
  BY ShiftedOnce DEF Values
<1>6. x % m = x
  BY <1>1, <1>5, RemainderSmall
<1> QED BY <1>4, <1>6 DEF ShiftedLeft, Wrap

\* What an operator leaves is a pattern of its kind.
LEMMA ArithmeticStays ==
  ASSUME NEW k \in IntegerKinds, NEW l \in Values(Size(k)), NEW r \in Values(Size(k)),
         NEW op \in ArithmeticOps, op \in {"Div", "Modulo"} => r # 0
  PROVE  IntegerArithmetic(k, op, l, r) \in Values(Size(k))
<1> PICK s : s = Size(k)
  OBVIOUS
<1> PICK w : w = s * BitsPerByte
  OBVIOUS
<1> PICK a : a = ValueOf(k, l)
  OBVIOUS
<1> PICK b : b = ValueOf(k, r)
  OBVIOUS
<1>1. w \in Nat \ {0} /\ Modulus(s) \in Nat \ {0} /\ Values(s) = 0 .. TwoTo(w) - 1 /\ r \in Nat
  BY IntegerSize, ModulusIs DEF Values
<1>2. a \in Int /\ b \in Int /\ (r # 0 => b # 0)
  BY ValueFits
<1>3. ASSUME NEW v \in Int PROVE Wrap(v, s) \in Values(s)
  BY <1>1 DEF Wrap, Values
<1>4. ASSUME NEW S PROVE FromBitSet(S, w) \in Values(s)
  BY <1>1, BitsBelow
<1> PICK c \in 0 .. w - 1 : c = ShiftCount(r, w)
  BY <1>1 DEF ShiftCount
<1>5. CASE op \in {"Add", "Sub", "Mul"}
  <2>1. a + b \in Int /\ a - b \in Int /\ a * b \in Int
    BY <1>2
  <2>2. Wrap(a + b, s) \in Values(s) /\ Wrap(a - b, s) \in Values(s) /\ Wrap(a * b, s) \in Values(s)
    BY <1>3, <2>1
  <2> QED BY <1>5, <2>2 DEF IntegerArithmetic
<1>6. CASE op \in {"Div", "Modulo"}
  <2>1. b # 0
    BY <1>2, <1>6
  <2> PICK q : q = TruncatedQuotient(a, b)
    OBVIOUS
  <2> PICK t : t = TruncatedRemainder(a, b)
    OBVIOUS
  <2>2. Truncates(a, b, q, t)
    BY <1>2, <2>1, TruncationIs
  <2>3. q \in Int /\ t \in Int
    BY <2>2 DEF Truncates
  <2>4. Wrap(q, s) \in Values(s) /\ Wrap(t, s) \in Values(s)
    BY <1>3, <2>3
  <2> QED BY <1>6, <2>4 DEF IntegerArithmetic
<1>7. CASE op \in {"BitwiseAnd", "BitwiseOr", "BitwiseXor"}
  <2> PICK L : L = BitSet(l, s)
    OBVIOUS
  <2> PICK R : R = BitSet(r, s)
    OBVIOUS
  <2>1. /\ FromBitSet(L \cap R, w) \in Values(s) /\ FromBitSet(L \cup R, w) \in Values(s)
        /\ FromBitSet((L \ R) \cup (R \ L), w) \in Values(s)
    BY <1>4
  <2> QED BY <1>7, <2>1 DEF IntegerArithmetic
<1>8. CASE op = "ShiftLeft"
  <2>1. IntegerArithmetic(k, op, l, r) = ShiftedLeft(l, w, c)
    BY <1>8 DEF IntegerArithmetic, ShiftedLeft
  <2> QED BY <2>1, ShiftedOnce
<1>9. CASE op = "ShiftRight"
  <2> PICK p \in Nat \ {0} : p = TwoTo(c)
    BY TwoToIs
  <2>1. a \div p \in Int
    BY <1>2, DividedBy
  <2>2. IntegerArithmetic(k, op, l, r) = Wrap(a \div p, s)
    BY <1>9 DEF IntegerArithmetic
  <2> QED BY <1>3, <2>1, <2>2
<1> QED BY <1>5, <1>6, <1>7, <1>8, <1>9 DEF ArithmeticOps

\* The optimizer computes what the machine does.
LEMMA FoldsAsComputed ==
  ASSUME NEW k \in IntegerKinds, NEW f, f = optimizerKindFromType(NamedType(k)),
         NEW l \in Values(Size(k)), NEW r \in Values(Size(k)), NEW op \in DOMAIN arithmeticOperators
  PROVE  optimizerArithmetic(f, op, l, r) = IntegerArithmetic(k, arithmeticOperators[op], l, r)
<1> PICK s : s = Size(k)
  OBVIOUS
<1> PICK w : w = s * BitsPerByte
  OBVIOUS
<1> PICK a : a = ValueOf(k, l)
  OBVIOUS
<1> PICK b : b = ValueOf(k, r)
  OBVIOUS
<1>1. f \notin FloatKinds /\ Size(f) = s /\ ValueOf(f, l) = a /\ ValueOf(f, r) = b
  BY FoldingKind, IntegerSize
<1>2. optimizerArithmetic(f, op, l, r) = optimizerIntegerArithmetic(op, a, b, l, r, s)
  BY <1>1 DEF optimizerArithmetic
<1>3. w \in Nat \ {0} /\ r \in Nat
  BY IntegerSize, ModulusIs DEF Values
<1> PICK c \in 0 .. w - 1 : c = r % w
  BY <1>3
<1>4. CASE op \in {"+", "-", "*", "/", "%", ">>"}
  BY <1>2, <1>4 DEF optimizerIntegerArithmetic, IntegerArithmetic, arithmeticOperators, ShiftCount
<1>5. CASE op \in {"&", "|", "^"}
  BY <1>2, <1>5 DEF optimizerIntegerArithmetic, IntegerArithmetic, arithmeticOperators, BitwiseResult
<1>6. CASE op = "<<"
  <2>1. optimizerIntegerArithmetic(op, a, b, l, r, s) = Wrap((a % TwoTo(w - c)) * TwoTo(c), s)
    BY <1>6 DEF optimizerIntegerArithmetic
  <2>2. IntegerArithmetic(k, "ShiftLeft", l, r) = ShiftedLeft(l, w, c)
    BY DEF IntegerArithmetic, ShiftCount, ShiftedLeft
  <2>3. Wrap((a % TwoTo(w - c)) * TwoTo(c), s) = ShiftedLeft(l, w, c)
    BY NumberShiftedLeft
  <2> QED BY <1>2, <1>6, <2>1, <2>2, <2>3 DEF arithmeticOperators
<1> QED BY <1>4, <1>5, <1>6 DEF arithmeticOperators

LEMMA FoldingTogether == LawInv => FoldedAsComputed
<1> DEFINE inKind == optimizerKindFromType(NamedType(kind))
           literal(bits) == optimizerLiteralFromBits(bits, inKind)
           folded(op) == Folded(op, inKind, literal(left), literal(right))
<1> SUFFICES ASSUME LawInv, Evaluated PROVE
      /\ \A op \in DOMAIN arithmeticOperators :
             IF DividesByZero(op, inKind, literal(right))
             THEN ArithmeticStatus(kind, arithmeticOperators[op], right) = "DivisionByZero"
             ELSE LET computed == results[arithmeticOperators[op]]
                  IN  /\ ArithmeticStatus(kind, arithmeticOperators[op], right) = "OK"
                      /\ optimizerLiteralBits(folded(op), inKind) = computed
                      /\ kind # "Uint64" => folded(op).value = Number(computed)
      /\ \A op \in DOMAIN comparisonOperators :
             {folded(op).value} = CompareResults(kind, comparisonOperators[op], left, right)
  BY DEF FoldedAsComputed
<1> PICK f : f = inKind
  OBVIOUS
<1>1. kind \in IntegerKinds /\ left \in Values(Size(kind)) /\ right \in Values(Size(kind))
  BY KindIs
<1>2. /\ f \in IntegerKinds /\ Size(f) = Size(kind) /\ (f = "Uint64" <=> kind = "Uint64")
      /\ \A bits : ValueOf(f, bits) = ValueOf(kind, bits)
  BY <1>1, FoldingKind
<1>3. optimizerLiteralBits(literal(left), f) = left /\ optimizerLiteralBits(literal(right), f) = right
  BY <1>1, <1>2, LiteralReadBack
<1>4. ASSUME NEW op \in DOMAIN arithmeticOperators
      PROVE  IF DividesByZero(op, inKind, literal(right))
             THEN ArithmeticStatus(kind, arithmeticOperators[op], right) = "DivisionByZero"
             ELSE LET computed == results[arithmeticOperators[op]]
                  IN  /\ ArithmeticStatus(kind, arithmeticOperators[op], right) = "OK"
                      /\ optimizerLiteralBits(folded(op), inKind) = computed
                      /\ kind # "Uint64" => folded(op).value = Number(computed)
  <2> PICK o : o = arithmeticOperators[op]
    OBVIOUS
  <2>1. o \in ArithmeticOps /\ (op \in {"/", "%"} <=> o \in {"Div", "Modulo"})
        /\ op \notin DOMAIN comparisonOperators
    BY DEF arithmeticOperators, comparisonOperators, ArithmeticOps
  <2>2. DividesByZero(op, inKind, literal(right)) <=> o \in {"Div", "Modulo"} /\ right = 0
    <3> HIDE DEF literal
    <3> QED BY <1>3, <2>1 DEF DividesByZero
  <2>3. ArithmeticStatus(kind, o, right) = IF o \in {"Div", "Modulo"} /\ right = 0
                                           THEN "DivisionByZero" ELSE "OK"
    <3>1. kind \notin FloatKinds
      BY <1>1, IntegerSize
    <3> QED BY <2>1, <3>1 DEF ArithmeticStatus, OperatorsOf, IsZero
  <2>4. ASSUME ~(o \in {"Div", "Modulo"} /\ right = 0)
        PROVE  /\ optimizerLiteralBits(folded(op), inKind) = results[o]
               /\ kind # "Uint64" => folded(op).value = Number(results[o])
    <3> PICK x : x = IntegerArithmetic(kind, o, left, right)
      OBVIOUS
    <3>1. x \in Values(Size(kind))
      BY <1>1, <2>1, <2>4, ArithmeticStays
    <3>2. results[o] = x
      BY <2>1, <2>4, <3>1, ResultIs
    <3>3. optimizerArithmetic(f, op, left, right) = x
      BY <1>1, FoldsAsComputed
    <3>4. folded(op) = optimizerLiteralFromBits(x, f)
      <4> HIDE DEF literal
      <4> QED BY <1>3, <2>1, <3>3 DEF Folded, isComparisonOperator
    <3> HIDE DEF folded, literal
    <3>5. /\ optimizerLiteralBits(folded(op), f) = x
          /\ f # "Uint64" => folded(op).value = ValueOf(f, x)
      BY <1>2, <3>1, <3>4, LiteralReadBack
    <3> QED BY <1>2, <3>2, <3>5 DEF Number
  <2> HIDE DEF folded, literal, inKind
  <2> QED BY <2>2, <2>3, <2>4
<1>5. ASSUME NEW op \in DOMAIN comparisonOperators
      PROVE  {folded(op).value} = CompareResults(kind, comparisonOperators[op], left, right)
  <2> PICK holds : holds = optimizerCompare(f, op, left, right)
    OBVIOUS
  <2>1. folded(op) = BoolLiteral(holds)
    <3> HIDE DEF literal
    <3> QED BY <1>3 DEF Folded, isComparisonOperator, optimizerBoolInt
  <2>2. holds = compareOrdered(ValueOf(kind, left), ValueOf(kind, right), comparisonOperators[op])
    BY <1>2 DEF optimizerCompare
  <2>3. CompareResults(kind, comparisonOperators[op], left, right)
          = {IF compareOrdered(ValueOf(kind, left), ValueOf(kind, right), comparisonOperators[op])
             THEN 1 ELSE 0}
    BY <1>1, ComparesValues
  <2> HIDE DEF folded
  <2>4. folded(op).value = IF holds THEN 1 ELSE 0
    BY <2>1 DEF BoolLiteral, NumberLiteral
  <2> QED BY <2>2, <2>3, <2>4
<1> QED BY <1>4, <1>5

(***************************************************************************)
(* The optimizer folds two integer literals into the literal of what the   *)
(* machine would compute from them, and refuses exactly what would fault   *)
(* there, whatever the kind, the operator and the values (Folded,          *)
(* optimizerArithmetic against executeIntegerArithmetic).                  *)
(***************************************************************************)
THEOREM FoldsLikeTheMachine == LawSpec => []FoldedAsComputed
<1> QED BY LawInductive, FoldingTogether, PTL DEF LawSpec
=============================================================================
