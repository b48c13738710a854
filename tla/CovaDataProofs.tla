-------------------------- MODULE CovaDataProofs --------------------------
(***************************************************************************)
(* Facts about the data the other proofs rest on: bytes, values, segments  *)
(* and layout, for every size of a byte, and sequences and sets of         *)
(* naturals.  FlattenSeq is defined by a recursive function; what it       *)
(* computes is proved from the least index at which it could be otherwise. *)
(***************************************************************************)
EXTENDS CovaMemory, SequencesExt, SequenceTheorems, WellFoundedInduction, TLAPS

LEMMA ProductNatural ==
  ASSUME NEW a \in Nat, NEW b \in Nat
  PROVE  a * b \in Nat
OBVIOUS

LEMMA ProductPositive ==
  ASSUME NEW a \in Nat \ {0}, NEW b \in Nat \ {0}
  PROVE  a * b \in Nat \ {0}
OBVIOUS

\* Byte places weigh something.
LEMMA PlaceType == \A i \in 1 .. 8 : Place(i) \in Nat \ {0}
<1>1. ByteBase \in Nat \ {0}
  BY ByteAssumption
<1>2. Base2 \in Nat \ {0} BY <1>1, ProductPositive DEF Base2
<1>3. Base3 \in Nat \ {0} BY <1>1, <1>2, ProductPositive DEF Base3
<1>4. Base4 \in Nat \ {0} BY <1>1, <1>3, ProductPositive DEF Base4
<1>5. Base5 \in Nat \ {0} BY <1>1, <1>4, ProductPositive DEF Base5
<1>6. Base6 \in Nat \ {0} BY <1>1, <1>5, ProductPositive DEF Base6
<1>7. Base7 \in Nat \ {0} BY <1>1, <1>6, ProductPositive DEF Base7
<1> QED BY <1>1, <1>2, <1>3, <1>4, <1>5, <1>6, <1>7 DEF Place

\* A kind takes 0, 1, 2, 4 or 8 bytes.
LEMMA SizeType == \A kind : Size(kind) \in {0, 1, 2, 4, 8}
BY DEF Size

\* Quotient and remainder are determined by what they are for.
LEMMA DivisionUnique ==
  ASSUME NEW n \in Nat \ {0}, NEW k \in Nat, NEW s \in 0 .. n - 1
  PROVE  (n * k + s) % n = s /\ (n * k + s) \div n = k
<1> DEFINE v == n * k + s
           q == v \div n
           r == v % n
<1>1. n * k \in Nat /\ v \in Nat
  BY ProductNatural
<1>2. q \in Nat /\ r \in 0 .. n - 1 /\ v = n * q + r
  <2> HIDE DEF v
  <2> QED BY SMTT(20), <1>1
<1>3. n * k + s = n * q + r
  BY <1>2
<1> HIDE DEF q, r
<1>4. q = k
  <2>1. CASE k < q
    <3> DEFINE d == q - k
    <3>1. d \in Nat \ {0} /\ q = k + d
      BY <1>2, <2>1
    <3> HIDE DEF d
    <3>2. n * q = n * k + n * d
      BY <3>1
    <3>3. n * d >= n
      BY <3>1
    <3>4. n * k \in Nat /\ n * d \in Nat
      BY <3>1, ProductNatural
    <3> QED BY <1>2, <1>3, <3>2, <3>3, <3>4
  <2>2. CASE q < k
    <3> DEFINE d == k - q
    <3>1. d \in Nat \ {0} /\ k = q + d
      BY <1>2, <2>2
    <3> HIDE DEF d
    <3>2. n * k = n * q + n * d
      BY <1>2, <3>1
    <3>3. n * d >= n
      BY <3>1
    <3>4. n * q \in Nat /\ n * d \in Nat
      BY <1>2, <3>1, ProductNatural
    <3> QED BY <1>2, <1>3, <3>2, <3>3, <3>4
  <2> QED BY <1>2, <2>1, <2>2
<1>5. r = s
  BY <1>1, <1>2, <1>3, <1>4
<1> QED BY <1>4, <1>5 DEF q, r

\* Every size is a divisor that is not zero.
LEMMA ModulusType ==
  ASSUME NEW n \in {1, 2, 4, 8}
  PROVE  Modulus(n) \in Nat \ {0}
<1>1. /\ Place(2) = ByteBase /\ Place(3) = Base2 /\ Place(5) = Base4 /\ Place(8) = Base7
  BY DEF Place
<1>2. ByteBase \in Nat \ {0}
  BY ByteAssumption
<1>3. Base7 * ByteBase \in Nat \ {0}
  BY <1>1, <1>2, PlaceType, ProductPositive
<1> QED BY <1>1, <1>3, PlaceType DEF Modulus

\* What up to eight bytes encode is that many bytes, whatever the number.
LEMMA EncodeType ==
  ASSUME NEW bits \in Int, NEW n \in 0 .. 8
  PROVE  Encode(bits, n) \in Seq(Byte) /\ Len(Encode(bits, n)) = n
<1>1. ASSUME NEW i \in 1 .. n PROVE (bits \div Place(i)) % ByteBase \in Byte
  <2>1. Place(i) \in Nat \ {0} BY PlaceType
  <2>2. bits \div Place(i) \in Int BY <2>1
  <2> QED BY <2>2, ByteAssumption DEF Byte
<1> QED BY <1>1 DEF Encode

\* A zeroed segment has the size asked for.
LEMMA ZerosType ==
  ASSUME NEW n \in Nat
  PROVE  Zeros(n) \in Seq(Byte) /\ Len(Zeros(n)) = n
BY ByteAssumption DEF Zeros, Byte

\* Truncating the operand stack by bytes it holds.
LEMMA DropType ==
  ASSUME NEW stk \in Seq(Byte), NEW n \in Nat
  PROVE  /\ Drop(stk, n) \in Seq(Byte)
         /\ Holds(stk, n) => Len(Drop(stk, n)) = Len(stk) - n
         /\ Len(Drop(stk, n)) <= Len(stk)
BY DEF Drop, Holds

LEMMA TopType ==
  ASSUME NEW stk \in Seq(Byte), NEW n \in Nat, Holds(stk, n)
  PROVE  Top(stk, n) \in Seq(Byte) /\ Len(Top(stk, n)) = n
BY DEF Top, Holds

\* Reading inside a segment yields that many bytes.
LEMMA ReadType ==
  ASSUME NEW segment \in Seq(Byte), NEW offset \in Nat, NEW n \in Nat,
         InRange(segment, offset, n)
  PROVE  /\ ReadBytes(segment, offset, n) \in Seq(Byte)
         /\ Len(ReadBytes(segment, offset, n)) = n
BY DEF ReadBytes, InRange

\* A write changes bytes of a segment, never its size.
LEMMA WriteType ==
  ASSUME NEW segment \in Seq(Byte), NEW offset \in Nat, NEW bytes \in Seq(Byte)
  PROVE  /\ WriteBytes(segment, offset, bytes) \in Seq(Byte)
         /\ Len(WriteBytes(segment, offset, bytes)) = Len(segment)
BY DEF WriteBytes

LEMMA CopyType ==
  ASSUME NEW destination \in Seq(Byte), NEW source \in Seq(Byte)
  PROVE  /\ CopyInto(destination, source) \in Seq(Byte)
         /\ Len(CopyInto(destination, source)) = Len(destination)
BY DEF CopyInto

-----------------------------------------------------------------------------
(***************************************************************************)
(* Layout.                                                                 *)
(***************************************************************************)

\* A kind is aligned to its own size.
LEMMA AlignmentType ==
  \A kind : Alignment(kind) \in {1, 2, 4, 8}
             /\ (Alignment(kind) = Size(kind) \/ Size(kind) = 0)
BY SizeType DEF Alignment

\* The next aligned offset is aligned and not before the offset.
LEMMA AlignUpIs ==
  ASSUME NEW offset \in Nat, NEW a \in {1, 2, 4, 8}
  PROVE  /\ alignUp(offset, a) \in Nat
         /\ offset <= alignUp(offset, a)
         /\ alignUp(offset, a) % a = 0
BY DEF alignUp

\* A set of naturals that is not empty has a least member.
LEMMA LeastMember ==
  ASSUME NEW S, S \subseteq Nat, S # {}
  PROVE  \E m \in S : \A i \in S : m <= i
<1> DEFINE R == OpToRel(<, Nat)
<1>1. IsWellFoundedOn(R, Nat)
  BY NatLessThanWellFounded
<1>2. PICK m \in S : \A i \in S : <<i, m>> \notin R
  <2> HIDE DEF R
  <2> QED BY <1>1, WFMin
<1>3. \A i \in S : ~(i < m)
  BY <1>2 DEF OpToRel
<1> QED BY <1>3

\* What holds of 0 and of the successor of whatever it holds of.
LEMMA SetInduction ==
  ASSUME NEW S, NEW N \in Nat, 0 \in S,
         \A n \in 0 .. N - 1 : n \in S => n + 1 \in S
  PROVE  0 .. N \subseteq S
<1> DEFINE Bad == {n \in 0 .. N : n \notin S}
<1> SUFFICES ASSUME Bad # {} PROVE FALSE
  OBVIOUS
<1>1. Bad \subseteq Nat
  OBVIOUS
<1>2. PICK m \in Bad : \A i \in Bad : m <= i
  <2> HIDE DEF Bad
  <2> QED BY <1>1, LeastMember
<1>3. m # 0 /\ m \in 0 .. N
  BY <1>2
<1>4. m - 1 \in 0 .. N - 1 /\ m - 1 \in 0 .. N /\ ~(m <= m - 1) /\ (m - 1) + 1 = m
  BY <1>3
<1>5. m - 1 \in S
  BY <1>2, <1>4
<1> QED BY <1>2, <1>4, <1>5

\* A stretch of a sequence, element by element.
LEMMA SubSeqIs ==
  ASSUME NEW S, NEW s \in Seq(S), NEW a \in Nat, NEW b \in Nat, a <= b, b <= Len(s)
  PROVE  /\ SubSeq(s, a + 1, b) \in Seq(S)
         /\ Len(SubSeq(s, a + 1, b)) = b - a
         /\ \A i \in 1 .. b - a : SubSeq(s, a + 1, b)[i] = s[a + i]
<1>1. SubSeq(s, a + 1, b) = [i \in 1 .. b - a |-> s[a + i]]
  OBVIOUS
<1>2. \A i \in 1 .. b - a : s[a + i] \in S
  OBVIOUS
<1>3. b - a \in Nat
  OBVIOUS
<1> QED BY <1>1, <1>2, <1>3

\* All but the last element.
LEMMA FrontShorter ==
  ASSUME NEW S, NEW s \in Seq(S), s # <<>>
  PROVE  /\ Len(Front(s)) = Len(s) - 1
         /\ \A i \in 1 .. Len(s) - 1 : Front(s)[i] = s[i]
         /\ Front(s) \in Seq(S)
<1>1. Len(s) - 1 \in Nat /\ Len(s) \in Nat
  OBVIOUS
<1>2. Front(s) = [i \in 1 .. Len(s) - 1 |-> s[i]]
  BY <1>1 DEF Front
<1>3. \A i \in 1 .. Len(s) - 1 : s[i] \in S
  OBVIOUS
<1> QED BY <1>1, <1>2, <1>3

-----------------------------------------------------------------------------
(***************************************************************************)
(* FlattenSeq.  Runs(seqs, f): f[i] is the first i sequences in a row.     *)
(***************************************************************************)
Runs(seqs, f) ==
  f = [i \in 1 .. Len(seqs) |-> IF i = 1 THEN seqs[i] ELSE f[i - 1] \o seqs[i]]

LEMMA FlattenIs ==
  ASSUME NEW seqs, Len(seqs) # 0
  PROVE  FlattenSeq(seqs) = (CHOOSE f : Runs(seqs, f))[Len(seqs)]
BY DEF FlattenSeq, Runs

\* There is only one such function.
LEMMA RunsUnique ==
  ASSUME NEW seqs, Len(seqs) \in Nat, NEW f, Runs(seqs, f), NEW g, Runs(seqs, g)
  PROVE  f = g
<1> DEFINE n == Len(seqs)
           Bad == {i \in 1 .. n : f[i] # g[i]}
<1>1. /\ f = [i \in 1 .. n |-> IF i = 1 THEN seqs[i] ELSE f[i - 1] \o seqs[i]]
      /\ g = [i \in 1 .. n |-> IF i = 1 THEN seqs[i] ELSE g[i - 1] \o seqs[i]]
  BY DEF Runs
<1>2. /\ \A i \in 1 .. n : f[i] = IF i = 1 THEN seqs[i] ELSE f[i - 1] \o seqs[i]
      /\ \A i \in 1 .. n : g[i] = IF i = 1 THEN seqs[i] ELSE g[i - 1] \o seqs[i]
      /\ f = [i \in 1 .. n |-> f[i]] /\ g = [i \in 1 .. n |-> g[i]]
  <2> HIDE DEF n
  <2> QED BY <1>1
<1>3. n \in Nat
  OBVIOUS
<1> HIDE DEF n
<1>4. Bad = {}
  <2> SUFFICES ASSUME Bad # {} PROVE FALSE
    OBVIOUS
  <2>1. Bad \subseteq Nat
    BY <1>3
  <2>2. PICK m \in Bad : \A i \in Bad : m <= i
    <3> HIDE DEF Bad
    <3> QED BY <2>1, LeastMember
  <2>3. m \in 1 .. n /\ f[m] # g[m]
    BY <2>2
  <2>4. CASE m = 1
    BY <1>2, <2>3, <2>4
  <2>5. CASE m # 1
    <3>1. m - 1 \in 1 .. n /\ ~(m <= m - 1)
      BY <1>3, <2>3, <2>5
    <3>2. f[m - 1] = g[m - 1]
      BY <2>2, <3>1
    <3> QED BY ZenonT(30), <1>2, <2>3, <2>5, <3>2
  <2> QED BY <2>4, <2>5
<1>5. \A i \in 1 .. n : f[i] = g[i]
  BY <1>4
<1> QED BY <1>2, <1>5

\* One more sequence, given the function for the ones before it.
LEMMA RunsAppend ==
  ASSUME NEW S, NEW seqs \in Seq(Seq(S)), Len(seqs) # 0, NEW x \in Seq(S),
         NEW f, Runs(seqs, f)
  PROVE  Runs(Append(seqs, x),
              [i \in 1 .. Len(seqs) + 1 |->
                 IF i <= Len(seqs) THEN f[i] ELSE f[Len(seqs)] \o x])
<1> DEFINE n == Len(seqs)
           t == Append(seqs, x)
           g == [i \in 1 .. n + 1 |-> IF i <= n THEN f[i] ELSE f[n] \o x]
<1>1. /\ Len(t) = n + 1 /\ n \in Nat /\ n # 0 /\ t[n + 1] = x
      /\ \A i \in 1 .. n : t[i] = seqs[i]
  OBVIOUS
<1>2. f = [i \in 1 .. n |-> IF i = 1 THEN seqs[i] ELSE f[i - 1] \o seqs[i]]
  BY DEF Runs
<1> HIDE DEF n, t
<1>3. ASSUME NEW i \in 1 .. n + 1
      PROVE  g[i] = IF i = 1 THEN t[i] ELSE g[i - 1] \o t[i]
  <2>1. CASE i = n + 1
    <3>1. n \in 1 .. n + 1 /\ n <= n /\ i # 1 /\ i - 1 = n /\ ~(i <= n)
      BY <1>1, <2>1
    <3>2. g[i] = f[n] \o x /\ g[n] = f[n]
      BY <3>1
    <3> QED BY <1>1, <2>1, <3>1, <3>2
  <2>2. CASE i # n + 1
    <3>1. i \in 1 .. n /\ i <= n /\ t[i] = seqs[i]
      BY <1>1, <2>2
    <3>2. g[i] = IF i = 1 THEN seqs[i] ELSE f[i - 1] \o seqs[i]
      BY <1>2, <3>1
    <3>3. i # 1 => i - 1 \in 1 .. n + 1 /\ i - 1 <= n
      BY <1>1, <3>1
    <3> QED BY <3>1, <3>2, <3>3
  <2> QED BY <2>1, <2>2
<1>4. g = [i \in 1 .. n + 1 |-> IF i = 1 THEN t[i] ELSE g[i - 1] \o t[i]]
  <2> DEFINE h == [i \in 1 .. n + 1 |-> IF i = 1 THEN t[i] ELSE g[i - 1] \o t[i]]
  <2>1. \A i \in 1 .. n + 1 : g[i] = h[i]
    <3> HIDE DEF g
    <3> QED BY <1>3
  <2>2. g = [i \in 1 .. n + 1 |-> g[i]] /\ h = [i \in 1 .. n + 1 |-> h[i]]
    OBVIOUS
  <2> HIDE DEF g, h
  <2>3. g = h
    BY <2>1, <2>2
  <2> QED BY <2>3 DEF h
<1> HIDE DEF g
<1>5. Runs(t, g)
  BY <1>1, <1>4 DEF Runs
<1> QED BY <1>5 DEF t, g, n

\* The function exists.
LEMMA RunsExist ==
  ASSUME NEW S
  PROVE  \A seqs \in Seq(Seq(S)) : Len(seqs) # 0 => \E f : Runs(seqs, f)
<1> DEFINE Bad == {n \in Nat \ {0} : \E seqs \in Seq(Seq(S)) :
                     Len(seqs) = n /\ ~ \E f : Runs(seqs, f)}
<1>1. Bad = {}
  <2> SUFFICES ASSUME Bad # {} PROVE FALSE
    OBVIOUS
  <2>1. Bad \subseteq Nat
    OBVIOUS
  <2>2. PICK m \in Bad : \A i \in Bad : m <= i
    <3> HIDE DEF Bad
    <3> QED BY <2>1, LeastMember
  <2>3. m \in Nat \ {0}
    BY <2>2
  <2>4. PICK seqs \in Seq(Seq(S)) : Len(seqs) = m /\ ~ \E f : Runs(seqs, f)
    BY <2>2
  <2>5. CASE m = 1
    <3> DEFINE f == [i \in 1 .. 1 |-> seqs[i]]
    <3>1. f = [i \in 1 .. 1 |-> IF i = 1 THEN seqs[i] ELSE f[i - 1] \o seqs[i]]
      OBVIOUS
    <3> HIDE DEF f
    <3>2. Runs(seqs, f)
      BY <2>4, <2>5, <3>1 DEF Runs
    <3> QED BY <2>4, <3>2
  <2>6. CASE m # 1
    <3> DEFINE front == Front(seqs)
               x == seqs[m]
    <3>1. seqs # <<>> /\ x \in Seq(S)
      BY <2>3, <2>4
    <3>2. /\ front \in Seq(Seq(S)) /\ Len(front) = m - 1
          /\ \A i \in 1 .. m - 1 : front[i] = seqs[i]
      BY <2>4, <3>1, FrontShorter
    <3> HIDE DEF front
    <3>3. m - 1 \in Nat \ {0} /\ ~(m <= m - 1)
      BY <2>3, <2>6
    <3>4. \E f : Runs(front, f)
      BY <2>2, <3>2, <3>3
    <3>5. PICK f : Runs(front, f)
      BY <3>4
    <3>6. Append(front, x) = seqs
      BY <2>3, <2>4, <3>2
    <3> HIDE DEF x
    <3>7. \E g : Runs(Append(front, x), g)
      BY <3>1, <3>2, <3>3, <3>5, RunsAppend
    <3> QED BY <2>4, <3>6, <3>7
  <2> QED BY <2>5, <2>6
<1>2. SUFFICES ASSUME NEW seqs \in Seq(Seq(S)), Len(seqs) # 0
               PROVE  \E f : Runs(seqs, f)
  OBVIOUS
<1>3. Len(seqs) \in Nat \ {0}
  BY <1>2
<1> QED BY <1>1, <1>2, <1>3

LEMMA FlattenEmpty == FlattenSeq(<<>>) = <<>>
BY DEF FlattenSeq

\* Flattening one sequence more appends it.
LEMMA FlattenAppend ==
  ASSUME NEW S, NEW seqs \in Seq(Seq(S)), NEW x \in Seq(S)
  PROVE  FlattenSeq(Append(seqs, x)) = FlattenSeq(seqs) \o x
<1> DEFINE t == Append(seqs, x)
<1>1. t \in Seq(Seq(S)) /\ Len(t) = Len(seqs) + 1 /\ Len(t) # 0 /\ Len(seqs) \in Nat
  OBVIOUS
<1>2. CASE Len(seqs) = 0
  <2>1. seqs = <<>> /\ t = <<x>>
    BY <1>2
  <2> DEFINE f == [i \in 1 .. 1 |-> x]
  <2>2. Len(t) = 1 /\ t[1] = x
    BY <2>1
  <2> HIDE DEF t
  <2>3. f = [i \in 1 .. Len(t) |-> IF i = 1 THEN t[i] ELSE f[i - 1] \o t[i]]
    BY <2>2
  <2>4. f[1] = x
    OBVIOUS
  <2> HIDE DEF f
  <2>5. Runs(t, f)
    BY <2>3 DEF Runs
  <2>6. (CHOOSE g : Runs(t, g)) = f
    BY <1>1, <2>5, RunsUnique
  <2>7. FlattenSeq(t) = x
    BY <1>1, <2>2, <2>4, <2>6, FlattenIs
  <2>8. FlattenSeq(seqs) = <<>>
    BY <2>1, FlattenEmpty
  <2>9. <<>> \o x = x
    OBVIOUS
  <2> QED BY <2>7, <2>8, <2>9 DEF t
<1>3. CASE Len(seqs) # 0
  <2>1. PICK f : Runs(seqs, f)
    BY <1>3, RunsExist
  <2> DEFINE g == [i \in 1 .. Len(seqs) + 1 |->
                     IF i <= Len(seqs) THEN f[i] ELSE f[Len(seqs)] \o x]
  <2>2. Runs(t, g)
    BY <1>3, <2>1, RunsAppend
  <2>3. g[Len(seqs) + 1] = f[Len(seqs)] \o x
    BY <1>1
  <2> HIDE DEF g, t
  <2>4. (CHOOSE h : Runs(t, h)) = g
    BY <1>1, <2>2, RunsUnique
  <2>5. (CHOOSE h : Runs(seqs, h)) = f
    BY <1>1, <2>1, RunsUnique
  <2>6. FlattenSeq(t) = g[Len(t)] /\ FlattenSeq(seqs) = f[Len(seqs)]
    BY <1>1, <1>3, <2>4, <2>5, FlattenIs
  <2> QED BY <1>1, <2>3, <2>6 DEF t
<1> QED BY <1>2, <1>3

\* A sequence that is not empty is its front and its last element.
LEMMA FrontAppend ==
  ASSUME NEW S, NEW s \in Seq(S), s # <<>>
  PROVE  /\ Front(s) \in Seq(S) /\ Last(s) \in S
         /\ Append(Front(s), Last(s)) = s
<1> DEFINE front == Front(s)
<1>1. /\ front \in Seq(S) /\ Len(front) = Len(s) - 1
      /\ \A i \in 1 .. Len(s) - 1 : front[i] = s[i]
  BY FrontShorter
<1>2. Len(s) \in Nat \ {0}
  OBVIOUS
<1> HIDE DEF front
<1>3. s[Len(s)] \in S
  BY <1>2
<1>4. Append(front, s[Len(s)]) = s
  BY <1>1, <1>2, <1>3
<1> QED BY <1>1, <1>3, <1>4 DEF front, Last

\* The last sequence of several comes last.
LEMMA FlattenLast ==
  ASSUME NEW S, NEW seqs \in Seq(Seq(S)), seqs # <<>>
  PROVE  FlattenSeq(seqs) = FlattenSeq(Front(seqs)) \o Last(seqs)
<1>1. /\ Front(seqs) \in Seq(Seq(S)) /\ Last(seqs) \in Seq(S)
      /\ Append(Front(seqs), Last(seqs)) = seqs
  BY FrontAppend
<1>2. FlattenSeq(Append(Front(seqs), Last(seqs)))
        = FlattenSeq(Front(seqs)) \o Last(seqs)
  BY <1>1, FlattenAppend
<1> QED BY <1>1, <1>2

\* Flattened sequences over S are a sequence over S.
LEMMA FlattenType ==
  ASSUME NEW S, NEW seqs \in Seq(Seq(S))
  PROVE  FlattenSeq(seqs) \in Seq(S)
<1> DEFINE Bad == {n \in Nat : \E t \in Seq(Seq(S)) :
                     Len(t) = n /\ FlattenSeq(t) \notin Seq(S)}
<1>1. Bad = {}
  <2> SUFFICES ASSUME Bad # {} PROVE FALSE
    OBVIOUS
  <2>1. Bad \subseteq Nat
    OBVIOUS
  <2>2. PICK m \in Bad : \A i \in Bad : m <= i
    <3> HIDE DEF Bad
    <3> QED BY <2>1, LeastMember
  <2>3. PICK t \in Seq(Seq(S)) : Len(t) = m /\ FlattenSeq(t) \notin Seq(S)
    BY <2>2
  <2>4. t # <<>>
    BY <2>3, FlattenEmpty
  <2>5. /\ Front(t) \in Seq(Seq(S)) /\ Len(Front(t)) = m - 1 /\ m - 1 \in Nat
        /\ ~(m <= m - 1) /\ Last(t) \in Seq(S)
    BY <2>3, <2>4, FrontShorter, FrontAppend
  <2>6. FlattenSeq(Front(t)) \in Seq(S)
    BY <2>2, <2>5
  <2>7. FlattenSeq(t) = FlattenSeq(Front(t)) \o Last(t)
    BY <2>3, <2>4, FlattenLast
  <2> QED BY <2>3, <2>5, <2>6, <2>7
<1>2. Len(seqs) \in Nat
  OBVIOUS
<1> QED BY <1>1, <1>2

-----------------------------------------------------------------------------
(***************************************************************************)
(* Recursive functions on 0 .. N.                                          *)
(***************************************************************************)

\* Steps F[k, _] from x, for k in 1 .. N.
IsIteration(f, N, x, F) ==
  f[0] = x /\ \A k \in 1 .. N : f[k] = F[<<k, f[k - 1]>>]
HasIteration(T, N, x, F) == \E f \in [0 .. N -> T] : IsIteration(f, N, x, F)

\* Iterated, they are a function.
LEMMA IterationExists ==
  ASSUME NEW T, NEW N \in Nat, NEW x \in T, NEW F \in [(1 .. N) \X T -> T]
  PROVE  HasIteration(T, N, x, F)
<1> DEFINE Iterates(n, f) == f[0] = x /\ \A k \in 1 .. n : f[k] = F[<<k, f[k - 1]>>]
           S == {n \in 0 .. N : \E f \in [0 .. n -> T] : Iterates(n, f)}
<1>1. 0 \in S
  <2> DEFINE f == [k \in 0 .. 0 |-> x]
  <2>1. f \in [0 .. 0 -> T] /\ f[0] = x
    OBVIOUS
  <2>2. Iterates(0, f)
    BY <2>1
  <2> HIDE DEF f, Iterates
  <2>3. 0 \in 0 .. N
    OBVIOUS
  <2> QED BY <2>1, <2>2, <2>3
<1>2. ASSUME NEW n \in 0 .. N - 1, n \in S PROVE n + 1 \in S
  <2>1. PICK f \in [0 .. n -> T] : Iterates(n, f)
    BY <1>2
  <2> DEFINE g == [k \in 0 .. n + 1 |-> IF k <= n THEN f[k] ELSE F[<<n + 1, f[n]>>]]
  <2>2. n \in Nat /\ n + 1 \in 1 .. N /\ n + 1 \in 0 .. N /\ n \in 0 .. n
    OBVIOUS
  <2>3. F[<<n + 1, f[n]>>] \in T
    <3>1. f[n] \in T
      BY <2>1, <2>2
    <3> QED BY <2>2, <3>1
  <2>4. g \in [0 .. n + 1 -> T]
    BY <2>1, <2>3
  <2>5. g[0] = x
    BY <2>1, <2>2
  <2>6. ASSUME NEW k \in 1 .. n + 1 PROVE g[k] = F[<<k, g[k - 1]>>]
    <3>1. k - 1 \in 0 .. n + 1 /\ k - 1 <= n /\ k \in 0 .. n + 1
      BY <2>2
    <3>2. g[k - 1] = f[k - 1]
      BY <3>1
    <3>3. CASE k <= n
      <4>1. k \in 1 .. n /\ g[k] = f[k]
        BY <2>2, <3>1, <3>3
      <4> QED BY <2>1, <3>2, <4>1
    <3>4. CASE ~(k <= n)
      <4>1. k = n + 1 /\ k - 1 = n /\ g[k] = F[<<n + 1, f[n]>>]
        BY <2>2, <3>1, <3>4
      <4> HIDE DEF g
      <4> QED BY <3>2, <4>1
    <3> QED BY <3>3, <3>4
  <2>7. Iterates(n + 1, g)
    <3> HIDE DEF g
    <3> QED BY <2>5, <2>6
  <2> HIDE DEF Iterates, g
  <2> QED BY <2>2, <2>4, <2>7
<1>3. N \in S
  <2>1. 0 .. N \subseteq S
    <3> HIDE DEF S
    <3> QED BY <1>1, <1>2, SetInduction
  <2>2. N \in 0 .. N
    OBVIOUS
  <2> HIDE DEF S
  <2> QED BY <2>1, <2>2
<1> QED BY <1>3 DEF HasIteration, IsIteration

-----------------------------------------------------------------------------
(***************************************************************************)
(* What the flattened sequence contains.                                   *)
(***************************************************************************)
Elements(lists) == UNION {Range(lists[k]) : k \in DOMAIN lists}

LEMMA RangeConcat ==
  ASSUME NEW S, NEW s \in Seq(S), NEW t \in Seq(S)
  PROVE  Range(s \o t) = Range(s) \cup Range(t)
<1> DEFINE m == Len(s)
           n == Len(t)
           u == s \o t
<1>1. /\ m \in Nat /\ n \in Nat /\ DOMAIN u = 1 .. m + n
      /\ DOMAIN s = 1 .. m /\ DOMAIN t = 1 .. n
      /\ \A i \in 1 .. m : u[i] = s[i]
      /\ \A i \in m + 1 .. m + n : u[i] = t[i - m]
  OBVIOUS
<1> HIDE DEF m, n, u
<1>2. ASSUME NEW i \in 1 .. m + n PROVE u[i] \in Range(s) \cup Range(t)
  <2>1. CASE i \in 1 .. m
    BY <1>1, <2>1 DEF Range
  <2>2. CASE i \in m + 1 .. m + n
    <3>1. i - m \in 1 .. n /\ u[i] = t[i - m]
      BY <1>1, <2>2
    <3> QED BY <1>1, <3>1 DEF Range
  <2> QED BY <1>1, <2>1, <2>2
<1>3. ASSUME NEW i \in 1 .. m PROVE s[i] \in Range(u)
  <2>1. i \in 1 .. m + n /\ u[i] = s[i]
    BY <1>1
  <2> QED BY <1>1, <2>1 DEF Range
<1>4. ASSUME NEW i \in 1 .. n PROVE t[i] \in Range(u)
  <2>1. i + m \in 1 .. m + n /\ i + m \in m + 1 .. m + n /\ (i + m) - m = i
    BY <1>1
  <2>2. u[i + m] = t[i]
    BY <1>1, <2>1
  <2> QED BY <1>1, <2>1, <2>2 DEF Range
<1>5. Range(u) \subseteq Range(s) \cup Range(t)
  BY <1>1, <1>2 DEF Range
<1>6. Range(s) \subseteq Range(u) /\ Range(t) \subseteq Range(u)
  BY <1>1, <1>3, <1>4 DEF Range
<1> QED BY <1>5, <1>6 DEF u

LEMMA RangeAppend ==
  ASSUME NEW S, NEW s \in Seq(S), NEW x \in S
  PROVE  Range(Append(s, x)) = Range(s) \cup {x}
<1>1. Append(s, x) = s \o <<x>> /\ <<x>> \in Seq(S)
  OBVIOUS
<1>2. Range(<<x>>) = {x}
  BY DEF Range
<1>3. Range(s \o <<x>>) = Range(s) \cup Range(<<x>>)
  BY SMTT(20), <1>1, RangeConcat
<1> QED BY <1>1, <1>2, <1>3, Zenon

\* Flattening neither loses nor invents an element.
LEMMA FlattenRange ==
  ASSUME NEW S, NEW seqs \in Seq(Seq(S))
  PROVE  Range(FlattenSeq(seqs)) = Elements(seqs)
<1> DEFINE Bad == {n \in Nat : \E t \in Seq(Seq(S)) :
                     Len(t) = n /\ Range(FlattenSeq(t)) # Elements(t)}
<1>1. Bad = {}
  <2> SUFFICES ASSUME Bad # {} PROVE FALSE
    OBVIOUS
  <2>1. Bad \subseteq Nat
    OBVIOUS
  <2>2. PICK m \in Bad : \A i \in Bad : m <= i
    <3> HIDE DEF Bad
    <3> QED BY <2>1, LeastMember
  <2>3. PICK t \in Seq(Seq(S)) : Len(t) = m /\ Range(FlattenSeq(t)) # Elements(t)
    BY <2>2
  <2>4. t # <<>>
    <3>1. DOMAIN <<>> = {}
      OBVIOUS
    <3>2. Range(<<>>) = {} /\ Elements(<<>>) = {}
      BY <3>1, Zenon DEF Range, Elements
    <3> QED BY <2>3, <3>2, FlattenEmpty
  <2> DEFINE front == Front(t)
             last == Last(t)
  <2>5. /\ front \in Seq(Seq(S)) /\ Len(front) = m - 1 /\ m - 1 \in Nat
        /\ ~(m <= m - 1) /\ last \in Seq(S) /\ Append(front, last) = t
    <3>1. Len(t) \in Nat \ {0}
      BY <2>4
    <3>2. front \in Seq(Seq(S)) /\ last \in Seq(S) /\ Append(front, last) = t
      BY <2>4, FrontAppend
    <3>3. Len(front) = Len(t) - 1
      BY <2>4, FrontShorter
    <3> HIDE DEF front, last
    <3> QED BY <2>3, <3>1, <3>2, <3>3
  <2>6. Range(FlattenSeq(front)) = Elements(front)
    BY <2>2, <2>5
  <2>7. FlattenSeq(t) = FlattenSeq(front) \o last /\ FlattenSeq(front) \in Seq(S)
    BY <2>3, <2>4, <2>5, FlattenLast, FlattenType
  <2> HIDE DEF front, last
  <2>8. Range(FlattenSeq(t)) = Elements(front) \cup Range(last)
    BY <2>5, <2>6, <2>7, RangeConcat
  <2>9. Elements(t) = Elements(front) \cup Range(last)
    <3>1. /\ DOMAIN t = 1 .. m /\ DOMAIN front = 1 .. m - 1 /\ m \in Nat \ {0}
          /\ \A k \in 1 .. m - 1 : t[k] = front[k]
          /\ t[m] = last
      <4>1. m \in Nat \ {0}
        BY <2>3, <2>4
      <4>2. DOMAIN t = 1 .. m
        BY <2>3
      <4>3. DOMAIN front = 1 .. m - 1
        BY <2>5
      <4>4. /\ \A k \in 1 .. Len(front) : Append(front, last)[k] = front[k]
            /\ Append(front, last)[Len(front) + 1] = last
        <5>1. front \in Seq(Seq(S)) /\ last \in Seq(S)
          BY <2>5
        <5> QED BY <5>1, AppendProperties
      <4>5. Len(front) + 1 = m
        BY <2>5, <4>1
      <4> QED BY <2>5, <4>1, <4>2, <4>3, <4>4, <4>5
    <3>2. \A k \in 1 .. m : k \in 1 .. m - 1 \/ k = m
      BY <3>1
    <3>3. 1 .. m - 1 \subseteq 1 .. m /\ m \in 1 .. m
      BY <3>1
    <3> QED BY <3>1, <3>2, <3>3 DEF Elements
  <2> QED BY <2>3, <2>8, <2>9
<1>2. Len(seqs) \in Nat
  OBVIOUS
<1> QED BY <1>1, <1>2

\* The same of finite sequences of no common type.
LEMMA FlattenElements ==
  ASSUME NEW n \in Nat, NEW lists, DOMAIN lists = 1 .. n,
         lists = [k \in 1 .. n |-> lists[k]],
         \A k \in 1 .. n : lists[k] \in Seq(Range(lists[k]))
  PROVE  /\ lists \in Seq(Seq(Elements(lists)))
         /\ FlattenSeq(lists) \in Seq(Elements(lists))
         /\ Range(FlattenSeq(lists)) = Elements(lists)
<1> DEFINE B == Elements(lists)
<1>1. ASSUME NEW k \in 1 .. n PROVE lists[k] \in Seq(B)
  <2> DEFINE s == lists[k]
             A == Range(s)
  <2>1. A \subseteq B
    BY DEF Elements
  <2>2. s \in Seq(A)
    OBVIOUS
  <2> HIDE DEF s, A, B
  <2>3. s \in Seq(B)
    <3>1. Len(s) \in Nat /\ s = [i \in 1 .. Len(s) |-> s[i]]
          /\ \A i \in 1 .. Len(s) : s[i] \in A
      BY <2>2
    <3>2. \A i \in 1 .. Len(s) : s[i] \in B
      BY <2>1, <3>1
    <3>3. [i \in 1 .. Len(s) |-> s[i]] \in Seq(B)
      BY <3>1, <3>2
    <3> QED BY <3>1, <3>3
  <2> QED BY <2>3 DEF s
<1> HIDE DEF B
<1>2. [k \in 1 .. n |-> lists[k]] \in Seq(Seq(B))
  BY <1>1
<1>3. lists \in Seq(Seq(B))
  BY <1>2
<1> QED BY <1>3, FlattenType, FlattenRange DEF B

-----------------------------------------------------------------------------
(***************************************************************************)
(* Sequences of no common type: each over its own elements.                *)
(***************************************************************************)
LEMMA SequenceIs ==
  ASSUME NEW n \in Nat, NEW s, s = [k \in 1 .. n |-> s[k]]
  PROVE  s \in Seq(Range(s)) /\ Len(s) = n /\ DOMAIN s = 1 .. n
<1>1. DOMAIN s = 1 .. n
  OBVIOUS
<1>2. \A k \in 1 .. n : s[k] \in Range(s)
  BY <1>1 DEF Range
<1>3. [k \in 1 .. n |-> s[k]] \in Seq(Range(s)) /\ Len([k \in 1 .. n |-> s[k]]) = n
  BY <1>2
<1> QED BY <1>1, <1>3

LEMMA SequenceWidens ==
  ASSUME NEW A, NEW B, A \subseteq B, NEW s \in Seq(A)
  PROVE  s \in Seq(B)
<1>1. Len(s) \in Nat /\ s = [i \in 1 .. Len(s) |-> s[i]]
      /\ \A i \in 1 .. Len(s) : s[i] \in A
  OBVIOUS
<1>2. \A i \in 1 .. Len(s) : s[i] \in B
  BY <1>1
<1>3. [i \in 1 .. Len(s) |-> s[i]] \in Seq(B)
  BY <1>1, <1>2
<1> QED BY <1>1, <1>3

\* Narrowed to what is in it.
LEMMA SequenceNarrows ==
  ASSUME NEW A, NEW s \in Seq(A)
  PROVE  s \in Seq(Range(s)) /\ Range(s) \subseteq A
<1>1. Len(s) \in Nat /\ s = [i \in 1 .. Len(s) |-> s[i]] /\ DOMAIN s = 1 .. Len(s)
  OBVIOUS
<1>2. s \in Seq(Range(s))
  BY <1>1, SequenceIs
<1> QED BY <1>2 DEF Range

LEMMA SingleRange ==
  ASSUME NEW x
  PROVE  <<x>> \in Seq(Range(<<x>>)) /\ Range(<<x>>) = {x}
<1>1. Range(<<x>>) = {x}
  BY DEF Range
<1> QED BY <1>1

LEMMA EmptyRange == <<>> \in Seq(Range(<<>>)) /\ Range(<<>>) = {}
<1>1. DOMAIN <<>> = {}
  OBVIOUS
<1>2. Range(<<>>) = {}
  BY <1>1, Zenon DEF Range
<1> QED BY <1>2

LEMMA ConcatIs ==
  ASSUME NEW S, NEW s, s \in Seq(S), NEW t, t \in Seq(S)
  PROVE  /\ s \o t \in Seq(S) /\ Len(s \o t) = Len(s) + Len(t)
         /\ \A i \in 1 .. Len(s) : (s \o t)[i] = s[i]
         /\ \A i \in 1 .. Len(t) : (s \o t)[Len(s) + i] = t[i]
OBVIOUS

LEMMA ConcatAny ==
  ASSUME NEW s, NEW t, s \in Seq(Range(s)), t \in Seq(Range(t))
  PROVE  /\ s \o t \in Seq(Range(s \o t))
         /\ Range(s \o t) = Range(s) \cup Range(t)
         /\ Len(s \o t) = Len(s) + Len(t)
<1> DEFINE A == Range(s)
           B == Range(t)
           C == A \cup B
<1>1. s \in Seq(A) /\ t \in Seq(B) /\ A \subseteq C /\ B \subseteq C
  OBVIOUS
<1> HIDE DEF A, B, C
<1>2. s \in Seq(C) /\ t \in Seq(C)
  BY <1>1, SequenceWidens
<1>3. s \o t \in Seq(C) /\ Len(s \o t) = Len(s) + Len(t)
  BY <1>2
<1>4. Range(s \o t) = Range(s) \cup Range(t)
  BY <1>2, RangeConcat
<1>5. s \o t \in Seq(Range(s \o t))
  BY <1>3, SequenceNarrows
<1> QED BY <1>3, <1>4, <1>5

LEMMA AppendAny ==
  ASSUME NEW s, s \in Seq(Range(s)), NEW x
  PROVE  /\ Append(s, x) \in Seq(Range(Append(s, x)))
         /\ Range(Append(s, x)) = Range(s) \cup {x}
<1> DEFINE S == Range(s) \cup {x}
           t == Append(s, x)
<1>1. s \in Seq(S) /\ x \in S
  BY SequenceWidens
<1> HIDE DEF S
<1>2. t \in Seq(S) /\ Range(t) = Range(s) \cup {x}
  BY <1>1, RangeAppend
<1> HIDE DEF t
<1>3. t \in Seq(Range(t))
  BY <1>2, SequenceNarrows
<1> QED BY <1>2, <1>3 DEF t

-----------------------------------------------------------------------------
(***************************************************************************)
(* Where each sequence of several goes when they are flattened.            *)
(***************************************************************************)
FirstOf(seqs, j) == FlattenSeq([k \in 1 .. j |-> seqs[k]])

LEMMA FirstOfIs ==
  ASSUME NEW S, NEW seqs \in Seq(Seq(S))
  PROVE  /\ FirstOf(seqs, 0) = <<>>
         /\ \A j \in 0 .. Len(seqs) : FirstOf(seqs, j) \in Seq(S)
         /\ \A j \in 0 .. Len(seqs) - 1 :
              FirstOf(seqs, j + 1) = FirstOf(seqs, j) \o seqs[j + 1]
         /\ FirstOf(seqs, Len(seqs)) = FlattenSeq(seqs)
<1> DEFINE n == Len(seqs)
           prefix(j) == [k \in 1 .. j |-> seqs[k]]
<1>1. n \in Nat /\ DOMAIN seqs = 1 .. n /\ \A k \in 1 .. n : seqs[k] \in Seq(S)
  OBVIOUS
<1>2. \A j \in 0 .. n : prefix(j) \in Seq(Seq(S)) /\ Len(prefix(j)) = j
  BY <1>1
<1>3. \A j \in 0 .. n : FirstOf(seqs, j) = FlattenSeq(prefix(j))
  BY DEF FirstOf
<1>4. \A j \in 0 .. n : FirstOf(seqs, j) \in Seq(S)
  <2> HIDE DEF prefix, n
  <2> QED BY <1>2, <1>3, FlattenType
<1>5. ASSUME NEW j \in 0 .. n - 1
      PROVE  FirstOf(seqs, j + 1) = FirstOf(seqs, j) \o seqs[j + 1]
  <2>1. j \in 0 .. n /\ j + 1 \in 1 .. n /\ j + 1 \in 0 .. n /\ j \in Nat
    BY <1>1
  <2>2. prefix(j + 1) = Append(prefix(j), seqs[j + 1])
    <3> DEFINE a == prefix(j + 1)
               b == Append(prefix(j), seqs[j + 1])
    <3>1. a \in Seq(Seq(S)) /\ Len(a) = j + 1 /\ b \in Seq(Seq(S)) /\ Len(b) = j + 1
      BY <1>1, <1>2, <2>1
    <3>2. \A k \in 1 .. j + 1 : a[k] = b[k]
      BY <1>2, <2>1
    <3> HIDE DEF a, b, n
    <3>3. a = b
      BY <2>1, <3>1, <3>2
    <3> QED BY <3>3 DEF a, b
  <2>3. prefix(j) \in Seq(Seq(S)) /\ seqs[j + 1] \in Seq(S)
    BY <1>1, <1>2, <2>1
  <2>4. FirstOf(seqs, j + 1) = FlattenSeq(prefix(j + 1)) /\ FirstOf(seqs, j) = FlattenSeq(prefix(j))
    BY <1>3, <2>1
  <2> HIDE DEF prefix, n
  <2> QED BY <2>2, <2>3, <2>4, FlattenAppend
<1>6. seqs = prefix(n)
  BY <1>1
<1>7. prefix(0) = <<>>
  OBVIOUS
<1>8. FirstOf(seqs, 0) = <<>>
  BY <1>7, FlattenEmpty DEF FirstOf
<1>9. FirstOf(seqs, n) = FlattenSeq(seqs)
  BY <1>6 DEF FirstOf
<1> QED BY <1>4, <1>5, <1>8, <1>9

\* A sequence begins where the ones before it end.
LEMMA FlattenPlaces ==
  ASSUME NEW S, NEW seqs \in Seq(Seq(S)), NEW i \in 1 .. Len(seqs)
  PROVE  LET start == Len(FirstOf(seqs, i - 1))
         IN  /\ start \in Nat
             /\ Len(FirstOf(seqs, i)) = start + Len(seqs[i])
             /\ \A k \in 1 .. Len(seqs[i]) : FlattenSeq(seqs)[start + k] = seqs[i][k]
<1> DEFINE n == Len(seqs)
           pre(j) == FirstOf(seqs, j)
           start == Len(pre(i - 1))
           piece == seqs[i]
<1>1. n \in Nat /\ i \in 1 .. n /\ i - 1 \in 0 .. n - 1 /\ (i - 1) + 1 = i
      /\ i \in 0 .. n /\ i - 1 \in 0 .. n /\ piece \in Seq(S) /\ Len(piece) \in Nat
  OBVIOUS
<1>2. /\ \A j \in 0 .. n : pre(j) \in Seq(S)
      /\ \A j \in 0 .. n - 1 : pre(j + 1) = pre(j) \o seqs[j + 1]
      /\ pre(n) = FlattenSeq(seqs)
      /\ \A j \in 1 .. n : seqs[j] \in Seq(S)
  BY FirstOfIs
<1> HIDE DEF pre, n, piece
<1>3. pre(i) = pre(i - 1) \o piece /\ pre(i - 1) \in Seq(S) /\ pre(i) \in Seq(S)
  BY <1>1, <1>2 DEF piece
<1>4. /\ start \in Nat /\ Len(pre(i)) = start + Len(piece)
      /\ \A k \in 1 .. Len(piece) : pre(i)[start + k] = piece[k]
  BY <1>1, <1>3
<1> DEFINE whole == Len(pre(i))
           G == {d \in 0 .. n - i : /\ whole <= Len(pre(i + d))
                                    /\ \A x \in 1 .. whole : pre(i + d)[x] = pre(i)[x]}
<1>5. whole \in Nat /\ n - i \in Nat
  BY <1>1, <1>3
<1>6. 0 \in G
  BY <1>1, <1>5
<1>7. ASSUME NEW d \in 0 .. (n - i) - 1, d \in G PROVE d + 1 \in G
  <2>1. i + d \in 0 .. n - 1 /\ i + d \in 0 .. n /\ i + (d + 1) = (i + d) + 1
        /\ (i + d) + 1 \in 1 .. n /\ d + 1 \in 0 .. n - i
    BY <1>1, <1>5
  <2> DEFINE s == pre(i + d)
             t == seqs[(i + d) + 1]
  <2>2. pre(i + (d + 1)) = s \o t /\ s \in Seq(S) /\ t \in Seq(S)
    BY <1>2, <2>1
  <2>3. whole <= Len(s) /\ \A x \in 1 .. whole : s[x] = pre(i)[x]
    BY <1>7
  <2> HIDE DEF s, t, whole
  <2>4. Len(s \o t) = Len(s) + Len(t) /\ Len(s) \in Nat /\ Len(t) \in Nat
        /\ \A x \in 1 .. Len(s) : (s \o t)[x] = s[x]
    BY <2>2
  <2>5. whole <= Len(s \o t)
    BY <1>5, <2>3, <2>4
  <2>6. \A x \in 1 .. whole : (s \o t)[x] = pre(i)[x]
    <3>1. \A x \in 1 .. whole : x \in 1 .. Len(s)
      BY <1>5, <2>3, <2>4
    <3> QED BY <2>3, <2>4, <3>1
  <2> QED BY <2>1, <2>2, <2>5, <2>6
<1>8. n - i \in G
  <2> DEFINE N == n - i
  <2>1. N \in Nat /\ 0 \in G /\ \A d \in 0 .. N - 1 : d \in G => d + 1 \in G
    BY <1>5, <1>6, <1>7
  <2> HIDE DEF G, N
  <2>2. 0 .. N \subseteq G
    BY <2>1, SetInduction
  <2>3. N \in 0 .. N
    BY <2>1
  <2>4. N \in G
    BY <2>2, <2>3
  <2> QED BY <2>4 DEF N
<1>9. i + (n - i) = n
  BY <1>1
<1>10. \A x \in 1 .. whole : FlattenSeq(seqs)[x] = pre(i)[x]
  <2>1. \A x \in 1 .. whole : pre(i + (n - i))[x] = pre(i)[x]
    BY <1>8
  <2> HIDE DEF whole, G
  <2> QED BY <1>2, <1>9, <2>1
<1>11. \A k \in 1 .. Len(piece) : FlattenSeq(seqs)[start + k] = piece[k]
  <2> HIDE DEF start, G
  <2>1. \A k \in 1 .. Len(piece) : start + k \in 1 .. whole
    <3> DEFINE l == Len(piece)
               w == whole
    <3>1. start \in Nat /\ l \in Nat /\ w = start + l
      BY <1>1, <1>4
    <3> HIDE DEF l, w, whole
    <3>2. \A k \in 1 .. l : start + k \in 1 .. w
      BY <3>1
    <3> QED BY <3>2 DEF l, w
  <2> QED BY <1>4, <1>10, <2>1
<1> QED BY <1>4, <1>11 DEF pre, piece

\* Sequences as long as one another flatten alike.
LEMMA FlattenAlike ==
  ASSUME NEW S, NEW seqs \in Seq(Seq(S)), NEW T, NEW others \in Seq(Seq(T)),
         Len(others) = Len(seqs), \A i \in 1 .. Len(seqs) : Len(others[i]) = Len(seqs[i])
  PROVE  \A i \in 0 .. Len(seqs) : Len(FirstOf(others, i)) = Len(FirstOf(seqs, i))
<1> DEFINE n == Len(seqs)
           f(j) == Len(FirstOf(seqs, j))
           g(j) == Len(FirstOf(others, j))
           G == {d \in 0 .. n : g(d) = f(d)}
<1>1. n \in Nat /\ n = Len(others)
  OBVIOUS
<1>2. f(0) = 0 /\ g(0) = 0
  BY FirstOfIs
<1>3. ASSUME NEW d \in 0 .. n - 1, d \in G PROVE d + 1 \in G
  <2>1. d + 1 \in 1 .. n /\ d + 1 - 1 = d /\ d + 1 \in 0 .. n
    BY <1>1
  <2> DEFINE e == d + 1
  <2>a. e \in 1 .. n /\ e - 1 = d /\ e \in 1 .. Len(others)
    BY <1>1, <2>1
  <2>2. f(d + 1) = f(d) + Len(seqs[d + 1])
    <3> HIDE DEF e
    <3>1. Len(FirstOf(seqs, e)) = Len(FirstOf(seqs, e - 1)) + Len(seqs[e])
      BY <2>a, FlattenPlaces
    <3> QED BY <2>a, <3>1 DEF e
  <2>3. g(d + 1) = g(d) + Len(others[d + 1])
    <3> HIDE DEF e
    <3>1. Len(FirstOf(others, e)) = Len(FirstOf(others, e - 1)) + Len(others[e])
      BY <2>a, FlattenPlaces
    <3> QED BY <2>a, <3>1 DEF e
  <2>4. Len(seqs[d + 1]) = Len(others[d + 1]) /\ g(d) = f(d)
    BY <1>3, <2>1
  <2> HIDE DEF f, g, n
  <2> QED BY <2>1, <2>2, <2>3, <2>4
<1>4. 0 \in G
  BY <1>1, <1>2
<1>5. 0 .. n \subseteq G
  <2> HIDE DEF G, n
  <2> QED BY <1>1, <1>3, <1>4, SetInduction
<1> HIDE DEF f, g, n
<1>6. \A j \in 0 .. n : g(j) = f(j)
  BY <1>5
<1> QED BY <1>6 DEF f, g, n


\* Flattened prefixes only get longer.
LEMMA FirstOfGrows ==
  ASSUME NEW S, NEW seqs \in Seq(Seq(S)), NEW i \in 0 .. Len(seqs)
  PROVE  \A j \in i .. Len(seqs) : Len(FirstOf(seqs, i)) <= Len(FirstOf(seqs, j))
<1> DEFINE n == Len(seqs)
           f(j) == Len(FirstOf(seqs, j))
           G == {d \in 0 .. n - i : f(i) <= f(i + d)}
<1>1. n \in Nat /\ i \in 0 .. n /\ n - i \in Nat
  OBVIOUS
<1>2. \A j \in 0 .. n : f(j) \in Nat
  BY FirstOfIs
<1>3. \A j \in 0 .. n - 1 : f(j + 1) = f(j) + Len(seqs[j + 1]) /\ Len(seqs[j + 1]) \in Nat
  <2> TAKE j \in 0 .. n - 1
  <2>1. j \in 0 .. n /\ j + 1 \in 1 .. n
    BY <1>1
  <2>2. /\ \A k \in 0 .. n : FirstOf(seqs, k) \in Seq(S)
        /\ \A k \in 0 .. n - 1 : FirstOf(seqs, k + 1) = FirstOf(seqs, k) \o seqs[k + 1]
    BY FirstOfIs
  <2>3. seqs[j + 1] \in Seq(S)
    BY <2>1
  <2>4. FirstOf(seqs, j + 1) = FirstOf(seqs, j) \o seqs[j + 1] /\ FirstOf(seqs, j) \in Seq(S)
    BY <2>1, <2>2
  <2> QED BY <2>3, <2>4
<1> HIDE DEF n, f
<1>4. 0 \in G
  BY <1>1, <1>2
<1>5. ASSUME NEW d \in 0 .. (n - i) - 1, d \in G PROVE d + 1 \in G
  <2>1. i + d \in 0 .. n - 1 /\ (i + d) + 1 = i + (d + 1) /\ d + 1 \in 0 .. n - i
        /\ i + d \in 0 .. n /\ i + (d + 1) \in 0 .. n
    BY <1>1
  <2>2. f(i + (d + 1)) = f(i + d) + Len(seqs[i + (d + 1)]) /\ Len(seqs[i + (d + 1)]) \in Nat
    BY <1>3, <2>1
  <2>3. f(i) <= f(i + d)
    BY <1>5
  <2> QED BY <1>1, <1>2, <2>1, <2>2, <2>3
<1>6. 0 .. n - i \subseteq G
  <2> HIDE DEF G
  <2> QED BY <1>1, <1>4, <1>5, SetInduction
<1>7. ASSUME NEW j \in i .. n PROVE f(i) <= f(j)
  <2>1. j - i \in 0 .. n - i /\ i + (j - i) = j
    BY <1>1
  <2>2. j - i \in G
    BY <1>6, <2>1
  <2> QED BY <2>1, <2>2
<1> QED BY <1>7 DEF n, f

\* Every place in what is flattened is a place in one of the sequences.
LEMMA FlattenCovers ==
  ASSUME NEW S, NEW seqs \in Seq(Seq(S)), NEW a \in 1 .. Len(FlattenSeq(seqs))
  PROVE  \E i \in 1 .. Len(seqs) : \E k \in 1 .. Len(seqs[i]) :
           a = Len(FirstOf(seqs, i - 1)) + k
<1> DEFINE n == Len(seqs)
           f(j) == Len(FirstOf(seqs, j))
           InOne(x, j) == \E i \in 1 .. j : \E k \in 1 .. Len(seqs[i]) : x = f(i - 1) + k
           G == {j \in 0 .. n : \A x \in 1 .. f(j) : InOne(x, j)}
<1>1. n \in Nat
  OBVIOUS
<1>2. \A j \in 0 .. n : f(j) \in Nat
  BY FirstOfIs
<1>3. \A j \in 0 .. n - 1 : f(j + 1) = f(j) + Len(seqs[j + 1]) /\ Len(seqs[j + 1]) \in Nat
  <2> TAKE j \in 0 .. n - 1
  <2>1. j \in 0 .. n /\ j + 1 \in 1 .. n
    BY <1>1
  <2>2. /\ \A i \in 0 .. n : FirstOf(seqs, i) \in Seq(S)
        /\ \A i \in 0 .. n - 1 : FirstOf(seqs, i + 1) = FirstOf(seqs, i) \o seqs[i + 1]
    BY FirstOfIs
  <2>3. seqs[j + 1] \in Seq(S)
    BY <2>1
  <2>4. FirstOf(seqs, j + 1) = FirstOf(seqs, j) \o seqs[j + 1] /\ FirstOf(seqs, j) \in Seq(S)
    BY <2>1, <2>2
  <2> QED BY <2>3, <2>4
<1>4. f(0) = 0 /\ f(n) = Len(FlattenSeq(seqs))
  BY FirstOfIs
<1> HIDE DEF n, f
<1>5. 0 \in G
  <2>1. 1 .. f(0) = {} /\ 0 \in 0 .. n
    BY <1>1, <1>4
  <2> QED BY <2>1
<1>6. ASSUME NEW j \in 0 .. n - 1, j \in G PROVE j + 1 \in G
  <2>1. j + 1 \in 0 .. n /\ j + 1 \in 1 .. j + 1 /\ (j + 1) - 1 = j /\ j \in 0 .. n
    BY <1>1
  <2>2. ASSUME NEW x \in 1 .. f(j + 1) PROVE InOne(x, j + 1)
    <3>1. CASE x <= f(j)
      <4>1. x \in 1 .. f(j)
        BY <1>2, <2>1, <3>1
      <4>2. InOne(x, j)
        BY <1>6, <4>1
      <4>3. 1 .. j \subseteq 1 .. j + 1
        BY <2>1
      <4> QED BY <4>2, <4>3
    <3>2. CASE x > f(j)
      <4> DEFINE k == x - f(j)
      <4>1. k \in 1 .. Len(seqs[j + 1]) /\ x = f(j) + k
        BY SMTT(20), <1>2, <1>3, <2>1, <3>2
      <4>2. x = f((j + 1) - 1) + k
        BY <2>1, <4>1
      <4> HIDE DEF k
      <4> QED BY <2>1, <4>1, <4>2
    <3> QED BY <1>2, <2>1, <3>1, <3>2
  <2> QED BY <2>1, <2>2
<1>7. n \in G
  <2>1. 0 .. n \subseteq G
    <3> HIDE DEF G
    <3> QED BY <1>1, <1>5, <1>6, SetInduction
  <2> QED BY <1>1, <2>1
<1>8. InOne(a, n)
  BY <1>4, <1>7
<1> QED BY <1>8 DEF n, f
=============================================================================
