-------------------------- MODULE CovaLexingProofs --------------------------
(***************************************************************************)
(* Proofs about the lexer, for every text: its tokens are where they say   *)
(* they are, and string literals are decoded.                              *)
(***************************************************************************)
EXTENDS CovaLexing, CovaDataProofs, FiniteSetTheorems

-----------------------------------------------------------------------------
(***************************************************************************)
(* Least and greatest members, and how many members there are.             *)
(***************************************************************************)
LEMMA MinIs ==
  ASSUME NEW S, S \subseteq Nat, S # {}
  PROVE  Min(S) \in S /\ \A k \in S : Min(S) <= k
BY LeastMember DEF Min

LEMMA MaxIs ==
  ASSUME NEW n \in Nat, NEW S, S \subseteq 0 .. n, S # {}
  PROVE  Max(S) \in S /\ \A k \in S : k <= Max(S)
<1> DEFINE T == {n - k : k \in S}
<1>1. T \subseteq Nat /\ T # {}
  <2>1. \A k \in S : n - k \in Nat
    OBVIOUS
  <2> QED BY <2>1
<1>2. PICK m \in T : \A i \in T : m <= i
  BY <1>1, LeastMember
<1>3. PICK x \in S : m = n - x
  BY <1>2
<1>4. \A k \in S : k <= x
  <2> TAKE k \in S
  <2>1. n - x <= n - k
    BY <1>2, <1>3
  <2> QED BY <2>1
<1> QED BY <1>3, <1>4 DEF Max

\* One of two numbers.
LEMMA MinOfTwo ==
  ASSUME NEW a \in Int, NEW b \in Int
  PROVE  Min({a, b}) = IF a <= b THEN a ELSE b
BY DEF Min

\* Some of the numbers from a to b.
LEMMA CountSome ==
  ASSUME NEW a \in Int, NEW b \in Int, NEW S, S \subseteq a .. b
  PROVE  /\ IsFiniteSet(S) /\ Cardinality(S) \in Nat
         /\ a <= b + 1 => Cardinality(S) <= b + 1 - a
<1>1. IsFiniteSet(a .. b) /\ Cardinality(a .. b) = IF a > b THEN 0 ELSE b - a + 1
  BY FS_Interval
<1>2. IsFiniteSet(S) /\ Cardinality(S) <= Cardinality(a .. b)
  BY <1>1, FS_Subset
<1>3. Cardinality(S) \in Nat
  BY <1>2, FS_CardinalityType
<1> QED BY <1>1, <1>2, <1>3

\* Two sets apart.
LEMMA CountApart ==
  ASSUME NEW S, IsFiniteSet(S), NEW T, IsFiniteSet(T), S \cap T = {}
  PROVE  Cardinality(S \cup T) = Cardinality(S) + Cardinality(T)
<1>1. Cardinality(S \cup T) = Cardinality(S) + Cardinality(T) - Cardinality(S \cap T)
  BY FS_Union
<1>2. Cardinality(S \cap T) = 0
  BY FS_EmptySet
<1>3. Cardinality(S) \in Nat /\ Cardinality(T) \in Nat
  BY FS_CardinalityType
<1> QED BY <1>1, <1>2, <1>3

-----------------------------------------------------------------------------
(***************************************************************************)
(* Positions: what reading on does to lines and columns.                   *)
(***************************************************************************)

\* A line begins at or before what is on it.
LEMMA LineStartIs ==
  ASSUME NEW t, NEW k \in Nat \ {0}
  PROVE  /\ LineStart(t, k) \in 1 .. k
         /\ \A j \in LineEndsBefore(t, k) : j < LineStart(t, k)
         /\ LineEndsBefore(t, k) = {} => LineStart(t, k) = 1
         /\ LineEndsBefore(t, k) # {} => LineStart(t, k) - 1 \in LineEndsBefore(t, k)
<1> DEFINE S == {1} \cup {j + 1 : j \in LineEndsBefore(t, k)}
<1>1. \A j \in LineEndsBefore(t, k) : j \in Nat /\ j + 1 \in 2 .. k
  BY DEF LineEndsBefore
<1>2. S \subseteq 0 .. k /\ S # {} /\ S \subseteq 1 .. k
  BY <1>1
<1> DEFINE m == Max(S)
<1>3. m \in S /\ \A x \in S : x <= m
  <2> HIDE DEF S
  <2> QED BY <1>2, MaxIs
<1>4. LineStart(t, k) = m
  BY DEF LineStart
<1> HIDE DEF m
<1> QED BY <1>1, <1>2, <1>3, <1>4

\* Nothing on the way ends a line.
LEMMA SameLine ==
  ASSUME NEW t, NEW i \in Nat \ {0}, NEW e \in Nat, i <= e,
         \A k \in i .. e - 1 : ~ EndsLine(t, k)
  PROVE  LineEndsBefore(t, e) = LineEndsBefore(t, i) /\ LineStart(t, e) = LineStart(t, i)
<1>1. LineEndsBefore(t, e) = LineEndsBefore(t, i)
  BY DEF LineEndsBefore
<1> QED BY <1>1 DEF LineStart

\* The bytes read count as the column's change, or those that begin a rune do.
LEMMA MoveOn ==
  ASSUME NEW t, NEW i \in Nat \ {0}, NEW e \in Nat, i <= e,
         \A k \in i .. e - 1 : ~ EndsLine(t, k),
         NEW list, NEW new, \A j \in 1 .. i - 1 : InWord(new, j) => InWord(list, j),
         NEW l, NEW c \in Int, PositionTrue(t, list, i, l, c),
         NEW m \in Int,
         LET inside == {j \in i .. e - 1 : InsideRune(t, j)}
         IN  /\ e - i - Cardinality(inside) <= m /\ m <= e - i
             /\ (\A j \in inside : InWord(new, j)) => m = e - i - Cardinality(inside)
  PROVE  PositionTrue(t, new, e, l, c + m)
<1> DEFINE before == InsideRunes(t, i)
           inside == {j \in i .. e - 1 : InsideRune(t, j)}
           start == LineStart(t, i)
<1>1. LineEndsBefore(t, e) = LineEndsBefore(t, i) /\ LineStart(t, e) = start
  BY SameLine
<1>2. start \in 1 .. i
  BY LineStartIs
<1>3. InsideRunes(t, e) = before \cup inside /\ before \cap inside = {}
  <2> HIDE DEF start
  <2>1. InsideRunes(t, e) = {j \in start .. e - 1 : InsideRune(t, j)}
    BY <1>1 DEF InsideRunes
  <2>2. before = {j \in start .. i - 1 : InsideRune(t, j)}
    BY DEF InsideRunes, start
  <2> QED BY <1>2, <2>1, <2>2
<1>4. /\ IsFiniteSet(before) /\ Cardinality(before) \in Nat
      /\ IsFiniteSet(inside) /\ Cardinality(inside) \in Nat
  <2>1. before \subseteq start .. i - 1 /\ inside \subseteq i .. e - 1
    BY DEF InsideRunes
  <2> QED BY <1>2, <2>1, CountSome
<1>5. Cardinality(InsideRunes(t, e)) = Cardinality(before) + Cardinality(inside)
  <2> HIDE DEF before, inside
  <2> QED BY <1>3, <1>4, CountApart
<1> DEFINE b == Cardinality(before)
           n == Cardinality(inside)
<1>6. /\ l = 1 + Cardinality(LineEndsBefore(t, i))
      /\ c \in 1 + (i - start - b) .. 1 + (i - start)
      /\ (\A j \in before : InWord(list, j)) => c = 1 + (i - start - b)
  BY DEF PositionTrue
<1>7. /\ e - i - n <= m /\ m <= e - i
      /\ (\A j \in inside : InWord(new, j)) => m = e - i - n
  OBVIOUS
<1>8. before \subseteq 1 .. i - 1
  <2> HIDE DEF start
  <2>1. before \subseteq start .. i - 1
    BY DEF InsideRunes, start
  <2> QED BY <1>2, <2>1
<1>9. b \in Nat /\ n \in Nat
  BY <1>4
<1>10. (\A j \in InsideRunes(t, e) : InWord(new, j)) =>
         c = 1 + (i - start - b) /\ m = e - i - n
  BY <1>3, <1>6, <1>7, <1>8
<1> HIDE DEF start, before, inside, b, n
<1>11. /\ c + m \in 1 + (e - start - (b + n)) .. 1 + (e - start)
       /\ (\A j \in InsideRunes(t, e) : InWord(new, j)) => c + m = 1 + (e - start - (b + n))
  BY <1>2, <1>6, <1>7, <1>9, <1>10
<1>12. Cardinality(InsideRunes(t, e)) = b + n
  BY <1>5 DEF b, n
<1> QED BY <1>1, <1>6, <1>11, <1>12 DEF PositionTrue

\* Tokens that end before a position cover nothing from there on.
EndBefore(list, k) ==
  \A n \in DOMAIN list :
    /\ list[n].offset \in Nat \ {0} /\ list[n].length \in Nat
    /\ list[n].offset + list[n].length <= k

LEMMA NotYetRead ==
  ASSUME NEW list, NEW i \in Nat, EndBefore(list, i), NEW j \in Nat, i <= j
  PROVE  ~ InWord(list, j)
BY DEF EndBefore, InWord, Covers

\* A line end as the last byte read.
LEMMA MoveToLine ==
  ASSUME NEW t, NEW i \in Nat \ {0}, NEW e \in Nat, i < e, EndsLine(t, e - 1),
         \A k \in i .. e - 2 : ~ EndsLine(t, k),
         NEW list, NEW new, NEW l \in Int, NEW c, PositionTrue(t, list, i, l, c)
  PROVE  PositionTrue(t, new, e, l + 1, 1)
<1>1. LineEndsBefore(t, e) = LineEndsBefore(t, i) \cup {e - 1}
  BY DEF LineEndsBefore
<1>2. e - 1 \notin LineEndsBefore(t, i)
  BY DEF LineEndsBefore
<1>3. IsFiniteSet(LineEndsBefore(t, i)) /\ Cardinality(LineEndsBefore(t, i)) \in Nat
  <2>1. LineEndsBefore(t, i) \subseteq 1 .. i - 1
    BY DEF LineEndsBefore
  <2>2. 1 \in Int /\ i - 1 \in Int
    OBVIOUS
  <2> QED BY <2>1, <2>2, CountSome
<1>4. Cardinality(LineEndsBefore(t, e)) = Cardinality(LineEndsBefore(t, i)) + 1
  BY <1>1, <1>2, <1>3, FS_AddElement
<1>5. LineStart(t, e) = e
  <2>1. e - 1 \in LineEndsBefore(t, e)
    BY <1>1
  <2>2. e - 1 < LineStart(t, e) /\ LineStart(t, e) \in 1 .. e
    BY <2>1, LineStartIs
  <2> QED BY <2>2
<1>6. InsideRunes(t, e) = {} /\ Cardinality(InsideRunes(t, e)) = 0
  <2>1. InsideRunes(t, e) = {}
    BY <1>5 DEF InsideRunes
  <2> QED BY <2>1, FS_EmptySet
<1>7. l = 1 + Cardinality(LineEndsBefore(t, i))
  BY DEF PositionTrue
<1> QED BY <1>3, <1>4, <1>5, <1>6, <1>7 DEF PositionTrue

\* Several lines on the way, and no word.
LEMMA MoveOverLines ==
  ASSUME NEW t, NEW i \in Nat \ {0}, NEW e \in Nat, i <= e,
         NEW ended, ended = {k \in i .. e - 1 : EndsLine(t, k)}, ended # {},
         NEW list, EndBefore(list, i), NEW l, NEW c, PositionTrue(t, list, i, l, c)
  PROVE  PositionTrue(t, list, e, l + Cardinality(ended), e - Max(ended))
<1>1. LineEndsBefore(t, e) = LineEndsBefore(t, i) \cup ended
  BY DEF LineEndsBefore
<1>2. LineEndsBefore(t, i) \subseteq 1 .. i - 1 /\ ended \subseteq i .. e - 1
      /\ LineEndsBefore(t, i) \cap ended = {}
  BY DEF LineEndsBefore
<1>3. /\ IsFiniteSet(LineEndsBefore(t, i)) /\ Cardinality(LineEndsBefore(t, i)) \in Nat
      /\ IsFiniteSet(ended) /\ Cardinality(ended) \in Nat
  <2>1. 1 \in Int /\ i - 1 \in Int /\ i \in Int /\ e - 1 \in Int
    OBVIOUS
  <2> QED BY <1>2, <2>1, CountSome
<1>4. Cardinality(LineEndsBefore(t, e)) = Cardinality(LineEndsBefore(t, i)) + Cardinality(ended)
  BY <1>1, <1>2, <1>3, CountApart
<1> DEFINE last == Max(ended)
<1>5. last \in ended /\ \A k \in ended : k <= last
  <2>1. ended \subseteq 0 .. e
    BY <1>2
  <2> QED BY <2>1, MaxIs
<1> DEFINE start == LineStart(t, e)
<1>6. start = last + 1
  <2>1. /\ start \in 1 .. e /\ start - 1 \in LineEndsBefore(t, e)
        /\ \A k \in LineEndsBefore(t, e) : k < start
    BY <1>1, LineStartIs
  <2> HIDE DEF start, last
  <2>2. last < start
    BY <1>1, <1>5, <2>1
  <2>3. start - 1 <= last
    BY <1>1, <1>2, <1>5, <2>1
  <2> QED BY <1>2, <1>5, <2>1, <2>2, <2>3
<1> DEFINE inside == InsideRunes(t, e)
<1>7. inside \subseteq last + 1 .. e - 1
  <2> HIDE DEF last, start
  <2> QED BY <1>6 DEF InsideRunes, start
<1>8. last \in Nat /\ i <= last /\ last <= e - 1
  <2> HIDE DEF last
  <2> QED BY <1>2, <1>5
<1> HIDE DEF last
<1>9. \A j \in inside : ~ InWord(list, j)
  <2>1. \A j \in inside : j \in Nat /\ i <= j
    <3> HIDE DEF inside
    <3> QED BY <1>7, <1>8
  <2> QED BY <2>1, NotYetRead
<1>10. /\ Cardinality(inside) \in Nat
       /\ inside = {} => Cardinality(inside) = 0
  <2> HIDE DEF inside
  <2>1. last + 1 \in Int /\ e - 1 \in Int
    BY <1>8
  <2>2. Cardinality(inside) \in Nat
    BY <1>7, <2>1, CountSome
  <2> QED BY <2>2, FS_EmptySet
<1>11. l = 1 + Cardinality(LineEndsBefore(t, i))
  BY DEF PositionTrue
<1> DEFINE n == Cardinality(inside)
<1> HIDE DEF start
<1>12. /\ l + Cardinality(ended) = 1 + Cardinality(LineEndsBefore(t, e))
       /\ e - last \in 1 + (e - start - n) .. 1 + (e - start)
       /\ n = 0 => e - last = 1 + (e - start - n)
  <2> HIDE DEF n, inside
  <2>1. n \in Nat
    BY <1>10 DEF n
  <2> QED BY <1>3, <1>4, <1>6, <1>8, <1>11, <2>1
<1>13. (\A j \in inside : InWord(list, j)) => n = 0
  BY <1>9, <1>10
<1> HIDE DEF n, inside
<1> QED BY <1>12, <1>13 DEF PositionTrue, last, start, n, inside


-----------------------------------------------------------------------------
(***************************************************************************)
(* Bytes and runes.                                                        *)
(***************************************************************************)
LEMMA AtInside ==
  ASSUME NEW t \in Seq(STRING), NEW k \in 1 .. Len(t)
  PROVE  At(t, k) = t[k] /\ t[k] \in STRING
<1>1. DOMAIN t = 1 .. Len(t)
  OBVIOUS
<1> QED BY <1>1 DEF At

LEMMA AtOutside ==
  ASSUME NEW t \in Seq(STRING), NEW k, k \notin 1 .. Len(t)
  PROVE  At(t, k) = ""
<1>1. DOMAIN t = 1 .. Len(t)
  OBVIOUS
<1> QED BY <1>1 DEF At

\* The n bytes from i, if there are as many.
LEMMA BytesFrom ==
  ASSUME NEW t \in Seq(STRING), NEW i \in 1 .. Len(t), NEW n \in Nat \ {0}
  PROVE  /\ i + n - 1 <= Len(t) =>
              /\ Between(t, i, i + n) \in Seq(STRING) /\ Len(Between(t, i, i + n)) = n
              /\ \A k \in 1 .. n : Between(t, i, i + n)[k] = t[i + k - 1]
         /\ i + n - 1 > Len(t) => Len(Between(t, i, i + n)) < n
<1> DEFINE j == i + n
           e == IF j - 1 <= Len(t) THEN j - 1 ELSE Len(t)
           s == SubSeq(t, (i - 1) + 1, e)
<1>1. e \in Nat /\ i - 1 \in Nat /\ i - 1 <= e /\ e <= Len(t) /\ (i - 1) + 1 = i
  OBVIOUS
<1>2. Min({j - 1, Len(t)}) = e
  <2>1. j - 1 \in Int /\ Len(t) \in Int
    OBVIOUS
  <2> HIDE DEF j
  <2> QED BY <2>1, MinOfTwo
<1>3. Between(t, i, j) = s
  <2> HIDE DEF e
  <2> QED BY <1>1, <1>2 DEF Between
<1>4. /\ s \in Seq(STRING) /\ Len(s) = e - (i - 1)
      /\ \A k \in 1 .. e - (i - 1) : s[k] = t[(i - 1) + k]
  <2> HIDE DEF e
  <2> QED BY <1>1, SubSeqIs
<1>5. e - (i - 1) = e + 1 - i /\ \A k \in Int : (i - 1) + k = i + k - 1
  BY <1>1
<1>6. CASE i + n - 1 <= Len(t)
  <2>1. e - (i - 1) = n
    BY <1>6
  <2> HIDE DEF e, s
  <2>2. Len(s) = n /\ \A k \in 1 .. n : s[k] = t[i + k - 1]
    BY <1>4, <1>5, <2>1
  <2>3. Between(t, i, i + n) = s
    BY <1>3
  <2> QED BY <1>4, <1>6, <2>2, <2>3
<1>7. CASE i + n - 1 > Len(t)
  <2>1. e - (i - 1) < n
    BY <1>7
  <2> HIDE DEF e, s
  <2> QED BY <1>3, <1>4, <1>7, <2>1
<1> QED BY <1>6, <1>7

\* A sequence of two or three given bytes is next.
LEMMA TwoBytes ==
  ASSUME NEW t \in Seq(STRING), NEW i \in 1 .. Len(t),
         NEW a, NEW b, Between(t, i, i + 2) = <<a, b>>
  PROVE  i + 1 <= Len(t) /\ t[i] = a /\ t[i + 1] = b
<1>1. PICK s : s = Between(t, i, i + 2)
  OBVIOUS
<1>2. Len(s) = 2 /\ s[1] = a /\ s[2] = b
  BY <1>1
<1>3. /\ i + 2 - 1 <= Len(t) => \A k \in 1 .. 2 : s[k] = t[i + k - 1]
      /\ i + 2 - 1 > Len(t) => Len(s) < 2
  BY <1>1, BytesFrom
<1>4. i + 2 - 1 = i + 1 /\ i + 1 - 1 = i /\ i \in Nat /\ Len(t) \in Nat
  OBVIOUS
<1> QED BY <1>2, <1>3, <1>4

LEMMA ThreeBytes ==
  ASSUME NEW t \in Seq(STRING), NEW i \in 1 .. Len(t),
         NEW a, NEW b, NEW c, Between(t, i, i + 3) = <<a, b, c>>
  PROVE  i + 2 <= Len(t) /\ t[i] = a /\ t[i + 1] = b /\ t[i + 2] = c
<1>1. PICK s : s = Between(t, i, i + 3)
  OBVIOUS
<1>2. Len(s) = 3 /\ s[1] = a /\ s[2] = b /\ s[3] = c
  BY <1>1
<1>3. /\ i + 3 - 1 <= Len(t) => \A k \in 1 .. 3 : s[k] = t[i + k - 1]
      /\ i + 3 - 1 > Len(t) => Len(s) < 3
  BY <1>1, BytesFrom
<1>4. i + 3 - 1 = i + 2 /\ i + 2 - 1 = i + 1 /\ i + 1 - 1 = i /\ i \in Nat /\ Len(t) \in Nat
  OBVIOUS
<1> QED BY <1>2, <1>3, <1>4

Leads == LetterLeads \cup DigitLeads \cup SpaceLeads
LEMMA WideRuneIs ==
  \A a, b : <<a, b>> \in WideRunes <=> a \in Leads /\ b \in Continuations
BY DEF WideRunes, Wide, Leads

LEMMA WideIs ==
  ASSUME NEW leads
  PROVE  /\ \A a, b : <<a, b>> \in Wide(leads) <=> a \in leads /\ b \in Continuations
         /\ \A a : <<a>> \notin Wide(leads)
BY DEF Wide

LEMMA RunesAre ==
  ASSUME NEW bytes
  PROVE  /\ \A a : <<a>> \in Runes(bytes) <=> a \in bytes
         /\ \A a, b : <<a, b>> \notin Runes(bytes)
BY DEF Runes

\* The bytes of a wide rune are no characters.
LEMMA RunesApart ==
  ASSUME NEW byte
  PROVE  /\ byte \in Leads \cup Continuations => byte \in STRING /\ byte \notin Characters
         /\ byte \in Leads => byte \notin Continuations
         /\ byte \in Continuations => byte \notin Leads
BY RuneAssumption DEF Leads

LEMMA RuneAtIs ==
  ASSUME NEW t \in Seq(STRING), NEW k \in 1 .. Len(t)
  PROVE  \/ /\ k + 1 <= Len(t) /\ t[k] \in Leads /\ t[k + 1] \in Continuations
            /\ RuneAt(t, k) = <<t[k], t[k + 1]>>
         \/ /\ RuneAt(t, k) = <<t[k]>>
            /\ ~(k + 1 <= Len(t) /\ t[k] \in Leads /\ t[k + 1] \in Continuations)
<1>1. At(t, k) = t[k]
  BY AtInside
<1>2. CASE Between(t, k, k + 2) \in WideRunes
  <2>1. PICK a, b : Between(t, k, k + 2) = <<a, b>>
    BY <1>2 DEF WideRunes, Wide
  <2>2. k + 1 <= Len(t) /\ t[k] = a /\ t[k + 1] = b
    BY <2>1, TwoBytes
  <2>3. a \in Leads /\ b \in Continuations
    BY <1>2, <2>1, WideRuneIs
  <2> QED BY <1>2, <2>2, <2>3 DEF RuneAt
<1>3. CASE Between(t, k, k + 2) \notin WideRunes
  <2>1. ASSUME k + 1 <= Len(t) PROVE Between(t, k, k + 2) = <<t[k], t[k + 1]>>
    <3> DEFINE s == Between(t, k, k + 2)
    <3>4. k + 2 - 1 <= Len(t)
      BY <2>1
    <3>1. s \in Seq(STRING) /\ Len(s) = 2 /\ \A n \in 1 .. 2 : s[n] = t[k + n - 1]
      <4>1. 2 \in Nat \ {0}
        OBVIOUS
      <4> QED BY <3>4, <4>1, BytesFrom
    <3> HIDE DEF s
    <3>2. s[1] = t[k] /\ s[2] = t[k + 1]
      BY <3>1
    <3>3. s = <<t[k], t[k + 1]>>
      BY <3>1, <3>2
    <3> QED BY <3>3 DEF s
  <2>2. ~(k + 1 <= Len(t) /\ t[k] \in Leads /\ t[k + 1] \in Continuations)
    BY <1>3, <2>1, WideRuneIs
  <2> QED BY <1>1, <1>3, <2>2 DEF RuneAt
<1> QED BY <1>2, <1>3

LEMMA InsideRuneIs ==
  ASSUME NEW t \in Seq(STRING), NEW k \in 1 .. Len(t)
  PROVE  InsideRune(t, k) <=> k > 1 /\ t[k - 1] \in Leads /\ t[k] \in Continuations
BY WideRuneIs DEF InsideRune

\* A character is a rune by itself.
LEMMA CharacterIs ==
  ASSUME NEW t \in Seq(STRING), NEW k \in 1 .. Len(t), t[k] \in Characters
  PROVE  RuneAt(t, k) = <<t[k]>> /\ ~ InsideRune(t, k)
<1>1. t[k] \notin Leads /\ t[k] \notin Continuations
  BY RunesApart
<1> QED BY <1>1, RuneAtIs, InsideRuneIs

\* What a rune is, in terms of its bytes.
LEMMA RuneOf ==
  ASSUME NEW t \in Seq(STRING), NEW k \in 1 .. Len(t), NEW bytes, NEW leads, leads \subseteq Leads
  PROVE  /\ RuneAt(t, k) \in Runes(bytes) =>
              t[k] \in bytes /\ RuneAt(t, k) = <<t[k]>>
         /\ RuneAt(t, k) \in Wide(leads) =>
              /\ k + 1 <= Len(t) /\ t[k] \in leads /\ t[k + 1] \in Continuations
              /\ RuneAt(t, k) = <<t[k], t[k + 1]>>
         /\ t[k] \in bytes /\ t[k] \in Characters => RuneAt(t, k) \in Runes(bytes)
         /\ k + 1 <= Len(t) /\ t[k] \in leads /\ t[k + 1] \in Continuations =>
              RuneAt(t, k) \in Wide(leads)
<1> DEFINE rune == RuneAt(t, k)
           a == t[k]
           b == t[k + 1]
           isWide == k + 1 <= Len(t) /\ a \in Leads /\ b \in Continuations
<1>1. rune = IF isWide THEN <<a, b>> ELSE <<a>>
  BY RuneAtIs
<1>2. a \in Characters => a \notin Leads
  BY RunesApart
<1>3. /\ <<a, b>> \in Wide(leads) <=> a \in leads /\ b \in Continuations
      /\ <<a>> \notin Wide(leads)
  BY WideIs
<1>4. /\ <<a>> \in Runes(bytes) <=> a \in bytes
      /\ <<a, b>> \notin Runes(bytes)
  BY RunesAre
<1> HIDE DEF rune, a, b
<1> QED BY <1>1, <1>2, <1>3, <1>4 DEF rune, a, b

\* Line ends are characters.
LEMMA LineEndBytes ==
  ASSUME NEW t \in Seq(STRING), NEW k \in 1 .. Len(t), t[k] \notin LineEnds
  PROVE  ~ EndsLine(t, k)
BY DEF EndsLine, LineEnds

LEMMA CharactersAre ==
  /\ LineEnds \subseteq Characters /\ Digits \subseteq Characters
  /\ AsciiLetters \subseteq Characters /\ AsciiSpaces \subseteq Characters
  /\ OperatorCharacters \subseteq Characters /\ DelimiterCharacters \subseteq Characters
  /\ {"_", "\"", "\\"} \subseteq Characters
BY DEF Characters, LineEnds, AsciiSpaces


-----------------------------------------------------------------------------
(***************************************************************************)
(* Where a token ends, and what is in it.                                  *)
(***************************************************************************)
LEMMA NextOfIs ==
  ASSUME NEW t \in Seq(STRING), NEW i \in 1 .. Len(t) + 1, NEW bytes
  PROVE  /\ NextOf(t, i, bytes) \in i .. Len(t) + 1
         /\ \A k \in i .. NextOf(t, i, bytes) - 1 : t[k] \notin bytes
         /\ NextOf(t, i, bytes) <= Len(t) => t[NextOf(t, i, bytes)] \in bytes
<1> DEFINE S == {k \in i .. Len(t) : t[k] \in bytes} \cup {Len(t) + 1}
           e == Min(S)
<1>1. S \subseteq Nat /\ S # {} /\ Len(t) \in Nat
  OBVIOUS
<1>2. e \in S /\ \A k \in S : e <= k
  <2> HIDE DEF S
  <2> QED BY <1>1, MinIs
<1>3. NextOf(t, i, bytes) = e
  BY DEF NextOf
<1> HIDE DEF e
<1> QED BY <1>1, <1>2, <1>3

LEMMA DigitsEndIs ==
  ASSUME NEW t \in Seq(STRING), NEW i \in 1 .. Len(t) + 1
  PROVE  /\ DigitsEnd(t, i) \in i .. Len(t) + 1
         /\ \A k \in i .. DigitsEnd(t, i) - 1 : t[k] \in Digits
         /\ At(t, DigitsEnd(t, i)) \notin Digits
<1> DEFINE e == DigitsEnd(t, i)
<1>1. /\ e \in i .. Len(t) + 1
      /\ \A k \in i .. e - 1 : t[k] \notin Range(t) \ Digits
      /\ e <= Len(t) => t[e] \in Range(t) \ Digits
  BY NextOfIs DEF DigitsEnd
<1>2. \A k \in 1 .. Len(t) : t[k] \in Range(t)
  BY DEF Range
<1>3. "" \notin Digits
  BY DEF Digits
<1>4. At(t, e) = IF e <= Len(t) THEN t[e] ELSE ""
  <2> HIDE DEF e
  <2>1. e \in Int /\ 1 <= e /\ Len(t) \in Nat
    BY <1>1
  <2>2. CASE e <= Len(t)
    <3>1. e \in 1 .. Len(t)
      BY <2>1, <2>2
    <3> QED BY <2>2, <3>1, AtInside
  <2>3. CASE ~(e <= Len(t))
    <3>1. e \notin 1 .. Len(t)
      BY <2>1, <2>3
    <3> QED BY <2>3, <3>1, AtOutside
  <2> QED BY <2>2, <2>3
<1> HIDE DEF e
<1>5. e \in Nat /\ i \in Nat \ {0} /\ Len(t) \in Nat
  BY <1>1
<1>6. ASSUME NEW k \in i .. e - 1 PROVE t[k] \in Digits
  <2>1. k \in 1 .. Len(t)
    BY <1>1, <1>5
  <2> QED BY <1>1, <1>2, <2>1
<1>7. At(t, e) \notin Digits
  BY <1>1, <1>3, <1>4
<1> QED BY <1>1, <1>6, <1>7 DEF e

\* A fraction and an exponent, where they can begin.
LEMMA FractionEndIs ==
  ASSUME NEW t \in Seq(STRING), NEW k \in 1 .. Len(t) + 1, FractionEnd(t, k) # NoToken
  PROVE  \/ At(t, k) # "." /\ FractionEnd(t, k) = k
         \/ /\ At(t, k) = "." /\ At(t, k + 1) \in Digits /\ k + 1 \in 1 .. Len(t)
            /\ FractionEnd(t, k) = DigitsEnd(t, k + 1)
            /\ FractionEnd(t, k) \in k + 2 .. Len(t) + 1
            /\ \A n \in k + 1 .. FractionEnd(t, k) - 1 : t[n] \in Digits
<1>1. CASE At(t, k) # "."
  BY <1>1 DEF FractionEnd
<1>2. CASE At(t, k) = "."
  <2>1. At(t, k + 1) \in Digits /\ FractionEnd(t, k) = DigitsEnd(t, k + 1)
    BY <1>2 DEF FractionEnd
  <2>2. "" \notin Digits
    BY DEF Digits
  <2>3. k + 1 \in 1 .. Len(t)
    <3> SUFFICES ASSUME k + 1 \notin 1 .. Len(t) PROVE FALSE
      OBVIOUS
    <3>1. At(t, k + 1) = ""
      BY AtOutside
    <3> QED BY <2>1, <2>2, <3>1
  <2>4. At(t, k + 1) = t[k + 1] /\ k + 1 \in 1 .. Len(t) + 1
    BY <2>3, AtInside
  <2> DEFINE e == DigitsEnd(t, k + 1)
  <2>5. /\ e \in k + 1 .. Len(t) + 1
        /\ \A n \in k + 1 .. e - 1 : t[n] \in Digits
        /\ At(t, e) \notin Digits
    BY <2>4, DigitsEndIs
  <2> HIDE DEF e
  <2>6. e # k + 1
    BY <2>1, <2>5
  <2>7. e \in k + 2 .. Len(t) + 1
    BY <2>5, <2>6
  <2> QED BY <1>2, <2>1, <2>3, <2>5, <2>7 DEF e
<1> QED BY <1>1, <1>2

LEMMA ExponentEndIs ==
  ASSUME NEW t \in Seq(STRING), NEW k \in 1 .. Len(t) + 1, ExponentEnd(t, k) # NoToken
  PROVE  \/ At(t, k) \notin {"e", "E"} /\ ExponentEnd(t, k) = k
         \/ LET s == SignEnd(t, k + 1)
            IN  /\ At(t, k) \in {"e", "E"} /\ At(t, s) \in Digits /\ s \in 1 .. Len(t)
                /\ \/ s = k + 1 /\ At(t, k + 1) \notin {"+", "-"}
                   \/ s = k + 2 /\ At(t, k + 1) \in {"+", "-"}
                /\ ExponentEnd(t, k) = DigitsEnd(t, s)
                /\ ExponentEnd(t, k) \in s + 1 .. Len(t) + 1
                /\ \A n \in s .. ExponentEnd(t, k) - 1 : t[n] \in Digits
<1>1. CASE At(t, k) \notin {"e", "E"}
  BY <1>1 DEF ExponentEnd
<1>2. CASE At(t, k) \in {"e", "E"}
  <2> DEFINE s == SignEnd(t, k + 1)
  <2>1. At(t, s) \in Digits /\ ExponentEnd(t, k) = DigitsEnd(t, s)
    BY <1>2 DEF ExponentEnd
  <2>2. "" \notin Digits
    BY DEF Digits
  <2>3. \/ s = k + 1 /\ At(t, k + 1) \notin {"+", "-"}
        \/ s = k + 2 /\ At(t, k + 1) \in {"+", "-"}
    BY DEF SignEnd
  <2> HIDE DEF s
  <2>4. s \in 1 .. Len(t)
    <3> SUFFICES ASSUME s \notin 1 .. Len(t) PROVE FALSE
      OBVIOUS
    <3>1. At(t, s) = ""
      BY AtOutside
    <3> QED BY <2>1, <2>2, <3>1
  <2>5. At(t, s) = t[s] /\ s \in 1 .. Len(t) + 1 /\ s \in Int
    BY <2>4, AtInside
  <2> DEFINE e == DigitsEnd(t, s)
  <2>6. /\ e \in s .. Len(t) + 1
        /\ \A n \in s .. e - 1 : t[n] \in Digits
        /\ At(t, e) \notin Digits
    BY <2>5, DigitsEndIs
  <2> HIDE DEF e
  <2>7. e # s
    BY <2>1, <2>6
  <2>8. e \in s + 1 .. Len(t) + 1
    BY <2>5, <2>6, <2>7
  <2> QED BY <1>2, <2>1, <2>3, <2>4, <2>6, <2>8 DEF e, s
<1> QED BY <1>1, <1>2

\* A numeral ends after its digits, its fraction and its exponent.
LEMMA NumeralEndIs ==
  ASSUME NEW t \in Seq(STRING), NEW i \in 1 .. Len(t), NumeralEnd(t, i) # NoToken
  PROVE  /\ FractionEnd(t, DigitsEnd(t, i)) # NoToken
         /\ DigitsEnd(t, i) \in i .. Len(t) + 1
         /\ FractionEnd(t, DigitsEnd(t, i)) \in DigitsEnd(t, i) .. Len(t) + 1
         /\ NumeralEnd(t, i) = ExponentEnd(t, FractionEnd(t, DigitsEnd(t, i)))
         /\ NumeralEnd(t, i) \in FractionEnd(t, DigitsEnd(t, i)) .. Len(t) + 1
<1> DEFINE d == DigitsEnd(t, i)
           f == FractionEnd(t, d)
<1>1. d \in i .. Len(t) + 1 /\ d \in 1 .. Len(t) + 1
  BY DigitsEndIs
<1>2. NumeralEnd(t, i) = ExponentEnd(t, f)
  BY DEF NumeralEnd
<1> HIDE DEF d
<1>3. f # NoToken
  <2> SUFFICES ASSUME f = 0 PROVE FALSE
    BY DEF NoToken
  <2>1. At(t, 0) = ""
    <3>1. 0 \notin 1 .. Len(t)
      OBVIOUS
    <3> QED BY <3>1, AtOutside
  <2>2. ExponentEnd(t, 0) = 0
    BY <2>1 DEF ExponentEnd
  <2> QED BY <1>2, <2>2 DEF NoToken
<1>4. f \in d .. Len(t) + 1
  <2>1. f = d \/ f \in d + 2 .. Len(t) + 1
    BY <1>1, <1>3, FractionEndIs
  <2> HIDE DEF f
  <2> QED BY <1>1, <2>1
<1> HIDE DEF f
<1>5. f \in 1 .. Len(t) + 1
  BY <1>1, <1>4
<1>6. NumeralEnd(t, i) \in f .. Len(t) + 1
  <2> DEFINE e == ExponentEnd(t, f)
             s == SignEnd(t, f + 1)
  <2>1. e = f \/ (e \in s + 1 .. Len(t) + 1 /\ (s = f + 1 \/ s = f + 2))
    BY <1>2, <1>5, ExponentEndIs
  <2> HIDE DEF e, s
  <2>2. e \in f .. Len(t) + 1
    BY <1>5, <2>1
  <2> QED BY <1>2, <2>2 DEF e
<1> QED BY <1>1, <1>2, <1>3, <1>4, <1>6 DEF d, f

NumeralBytes == Digits \cup {".", "e", "E", "+", "-"}
SuffixBytes == {"f", "F", "d", "D"}
LEMMA NumeralBytesAre ==
  (NumeralBytes \cup SuffixBytes) \subseteq Characters \ LineEnds
BY DEF NumeralBytes, SuffixBytes, Characters, Digits, AsciiLetters, OperatorCharacters,
       DelimiterCharacters, LineEnds

LEMMA NumeralHas ==
  ASSUME NEW t \in Seq(STRING), NEW i \in 1 .. Len(t), NumeralEnd(t, i) # NoToken
  PROVE  \A k \in i .. NumeralEnd(t, i) - 1 : t[k] \in NumeralBytes
<1> PICK d : d = DigitsEnd(t, i)
  OBVIOUS
<1> PICK f : f = FractionEnd(t, d)
  OBVIOUS
<1> PICK e : e = NumeralEnd(t, i)
  OBVIOUS
<1>1. /\ f # NoToken /\ d \in i .. Len(t) + 1 /\ f \in d .. Len(t) + 1
      /\ e = ExponentEnd(t, f) /\ e \in f .. Len(t) + 1
  BY NumeralEndIs
<1>2. d \in 1 .. Len(t) + 1 /\ f \in 1 .. Len(t) + 1
  BY <1>1
<1>3. \A k \in i .. d - 1 : t[k] \in Digits
  BY DigitsEndIs
<1>4. \A k \in 1 .. Len(t) : At(t, k) = t[k]
  BY AtInside
<1>5. \A k \in d .. f - 1 : t[k] \in Digits \cup {"."}
  <2>1. \/ f = d
        \/ At(t, d) = "." /\ d + 1 \in 1 .. Len(t) /\ \A n \in d + 1 .. f - 1 : t[n] \in Digits
    BY <1>1, <1>2, FractionEndIs
  <2> QED BY <1>2, <1>4, <2>1
<1>6. \A k \in f .. e - 1 : t[k] \in NumeralBytes
  <2> PICK s : s = SignEnd(t, f + 1)
    OBVIOUS
  <2>1. \/ e = f
        \/ /\ At(t, f) \in {"e", "E"} /\ s \in 1 .. Len(t)
           /\ \/ s = f + 1
              \/ s = f + 2 /\ At(t, f + 1) \in {"+", "-"}
           /\ \A n \in s .. e - 1 : t[n] \in Digits
    BY <1>1, <1>2, ExponentEndIs
  <2> QED BY <1>2, <1>4, <2>1 DEF NumeralBytes
<1> QED BY <1>1, <1>3, <1>5, <1>6 DEF NumeralBytes


LEMMA IdentifierEndIs ==
  ASSUME NEW t \in Seq(STRING), NEW i \in 1 .. Len(t), isIdentStart(RuneAt(t, i))
  PROVE  /\ IdentifierEnd(t, i) \in i + 1 .. Len(t) + 1
         /\ \A k \in i .. IdentifierEnd(t, i) - 1 :
              InsideRune(t, k) \/ isIdentPart(RuneAt(t, k))
         /\ IdentifierEnd(t, i) <= Len(t) =>
              /\ ~ InsideRune(t, IdentifierEnd(t, i))
              /\ ~ isIdentPart(RuneAt(t, IdentifierEnd(t, i)))
<1> DEFINE S == {k \in i .. Len(t) : ~ InsideRune(t, k) /\ ~ isIdentPart(RuneAt(t, k))}
                  \cup {Len(t) + 1}
           e == Min(S)
<1>1. S \subseteq Nat /\ S # {} /\ Len(t) \in Nat
  OBVIOUS
<1>2. e \in S /\ \A k \in S : e <= k
  <2> HIDE DEF S
  <2> QED BY <1>1, MinIs
<1>3. IdentifierEnd(t, i) = e
  BY DEF IdentifierEnd
<1>4. i \notin S
  BY DEF isIdentPart
<1> HIDE DEF e
<1> QED BY <1>1, <1>2, <1>3, <1>4

\* An identifier is made of letters and digits.
IdentifierBytes ==
  AsciiLetters \cup {"_"} \cup Digits \cup LetterLeads \cup DigitLeads \cup Continuations
LEMMA IdentifierHas ==
  ASSUME NEW t \in Seq(STRING), NEW i \in 1 .. Len(t), isIdentStart(RuneAt(t, i))
  PROVE  \A k \in i .. IdentifierEnd(t, i) - 1 : t[k] \in IdentifierBytes \ LineEnds
<1>1. IdentifierEnd(t, i) \in i + 1 .. Len(t) + 1
  BY IdentifierEndIs
<1>2. ASSUME NEW k \in i .. IdentifierEnd(t, i) - 1 PROVE t[k] \in IdentifierBytes
  <2>1. k \in 1 .. Len(t)
    BY <1>1
  <2>2. CASE InsideRune(t, k)
    BY <2>1, <2>2, InsideRuneIs DEF IdentifierBytes
  <2>3. CASE isIdentPart(RuneAt(t, k))
    <3>1. \/ RuneAt(t, k) \in Runes(AsciiLetters \cup {"_"}) \/ RuneAt(t, k) \in Wide(LetterLeads)
          \/ RuneAt(t, k) \in Runes(Digits) \/ RuneAt(t, k) \in Wide(DigitLeads)
      BY <2>3 DEF isIdentPart, isIdentStart, IsDigit, LetterRunes, DigitRunes
    <3>2. LetterLeads \subseteq Leads /\ DigitLeads \subseteq Leads
      BY DEF Leads
    <3>3. t[k] \in (AsciiLetters \cup {"_"}) \cup LetterLeads \cup Digits \cup DigitLeads
      BY <2>1, <3>1, <3>2, RuneOf
    <3> QED BY <3>3 DEF IdentifierBytes
  <2> QED BY <1>2, <2>2, <2>3, IdentifierEndIs
<1>3. IdentifierBytes \cap LineEnds = {}
  <2>1. (LetterLeads \cup DigitLeads \cup Continuations) \cap LineEnds = {}
    BY RunesApart, CharactersAre DEF Leads
  <2>2. (AsciiLetters \cup {"_"} \cup Digits) \cap LineEnds = {}
    BY DEF AsciiLetters, Digits, LineEnds
  <2> QED BY <2>1, <2>2 DEF IdentifierBytes
<1> QED BY <1>2, <1>3

\* A string literal ends at the first quote that no backslash escapes.
LEMMA StringStopIs ==
  ASSUME NEW t \in Seq(STRING), NEW i \in 1 .. Len(t), NEW escaped
  PROVE  LET stop == StringStop(t, i, escaped)
         IN  /\ stop \in i + 1 .. Len(t) + 1
             /\ \A k \in i + 1 .. stop - 1 :
                  IF k \in escaped THEN t[k] \in DOMAIN Escapes
                  ELSE t[k] \notin {"\""} \cup LineEnds
             /\ stop <= Len(t) =>
                  IF stop \in escaped THEN t[stop] \notin DOMAIN Escapes
                  ELSE t[stop] \in {"\""} \cup LineEnds
<1> DEFINE Stops(k) == IF k \in escaped THEN t[k] \notin DOMAIN Escapes
                       ELSE t[k] \in {"\""} \cup LineEnds
           S == {k \in i + 1 .. Len(t) : Stops(k)} \cup {Len(t) + 1}
           e == Min(S)
<1>1. S \subseteq Nat /\ S # {} /\ Len(t) \in Nat
  <2> HIDE DEF Stops
  <2> QED OBVIOUS
<1>2. e \in S /\ \A k \in S : e <= k
  <2> HIDE DEF S
  <2> QED BY <1>1, MinIs
<1>3. StringStop(t, i, escaped) = e
  BY DEF StringStop
<1> HIDE DEF e
<1>4. /\ e \in i + 1 .. Len(t) + 1
      /\ \A k \in i + 1 .. e - 1 : ~ Stops(k)
      /\ e <= Len(t) => Stops(e)
  <2> HIDE DEF Stops
  <2> QED BY <1>1, <1>2
<1> QED BY <1>3, <1>4

EscapeBytes == {"\"", "\\", "n", "r", "t", "0"}
LEMMA EscapesAre ==
  /\ DOMAIN Escapes = EscapeBytes
  /\ Escapes["\""] = "\"" /\ Escapes["\\"] = "\\" /\ Escapes["n"] = "\n"
  /\ Escapes["r"] = "\r" /\ Escapes["t"] = "\t" /\ Escapes["0"] = "NUL"
BY DEF Escapes, EscapeBytes

LEMMA StringEndIs ==
  ASSUME NEW t \in Seq(STRING), NEW i \in 1 .. Len(t), NEW escaped,
         StringEnd(t, StringStop(t, i, escaped), escaped) # NoToken
  PROVE  LET stop == StringStop(t, i, escaped)
         IN  /\ stop \in i + 1 .. Len(t) /\ t[stop] = "\"" /\ stop \notin escaped
             /\ StringEnd(t, stop, escaped) = stop + 1
             /\ \A k \in i + 1 .. stop - 1 : t[k] \notin LineEnds
<1> DEFINE stop == StringStop(t, i, escaped)
<1>1. /\ stop \in i + 1 .. Len(t) + 1
      /\ \A k \in i + 1 .. stop - 1 :
           IF k \in escaped THEN t[k] \in EscapeBytes ELSE t[k] \notin {"\""} \cup LineEnds
  BY StringStopIs, EscapesAre
<1> HIDE DEF stop
<1>2. At(t, stop) = "\"" /\ stop \notin escaped /\ StringEnd(t, stop, escaped) = stop + 1
  BY DEF StringEnd, stop
<1>3. stop \in 1 .. Len(t)
  <2> SUFFICES ASSUME stop \notin 1 .. Len(t) PROVE FALSE
    OBVIOUS
  <2>1. At(t, stop) = ""
    BY AtOutside
  <2> QED BY <1>2, <2>1
<1>4. t[stop] = "\""
  BY <1>2, <1>3, AtInside
<1>5. \A k \in i + 1 .. stop - 1 : t[k] \notin LineEnds
  BY <1>1 DEF EscapeBytes, LineEnds
<1>6. stop \in i + 1 .. Len(t)
  <2>1. PICK n : n = stop
    OBVIOUS
  <2>2. n \in i + 1 .. Len(t) + 1 /\ n \in 1 .. Len(t)
    BY <1>1, <1>3, <2>1
  <2>3. n \in i + 1 .. Len(t)
    BY <2>2
  <2> QED BY <2>1, <2>3
<1> QED BY <1>2, <1>4, <1>5, <1>6 DEF stop

LEMMA OperatorHas ==
  ASSUME NEW t \in Seq(STRING), NEW i \in 1 .. Len(t), t[i] \in OperatorCharacters
  PROVE  /\ tokenizeOperator(t, i) \in i + 1 .. Len(t) + 1
         /\ \A k \in i .. tokenizeOperator(t, i) - 1 : t[k] \in OperatorCharacters
<1>1. CASE Between(t, i, i + 3) \in LongOperators
  <2>1. PICK a, b, c \in OperatorCharacters : Between(t, i, i + 3) = <<a, b, c>>
    BY <1>1 DEF LongOperators, OperatorCharacters
  <2>2. i + 2 <= Len(t) /\ t[i] = a /\ t[i + 1] = b /\ t[i + 2] = c
    BY <2>1, ThreeBytes
  <2>3. tokenizeOperator(t, i) = i + 3
    BY <1>1 DEF tokenizeOperator
  <2> QED BY <2>2, <2>3
<1>2. CASE Between(t, i, i + 3) \notin LongOperators /\ Between(t, i, i + 2) \in PairOperators
  <2>1. PICK a, b \in OperatorCharacters : Between(t, i, i + 2) = <<a, b>>
    BY <1>2 DEF PairOperators, OperatorCharacters
  <2>2. i + 1 <= Len(t) /\ t[i] = a /\ t[i + 1] = b
    BY <2>1, TwoBytes
  <2>3. tokenizeOperator(t, i) = i + 2
    BY <1>2 DEF tokenizeOperator
  <2> QED BY <2>2, <2>3
<1>3. CASE Between(t, i, i + 3) \notin LongOperators /\ Between(t, i, i + 2) \notin PairOperators
  <2>1. tokenizeOperator(t, i) = i + 1
    BY <1>3 DEF tokenizeOperator
  <2> QED BY <2>1
<1> QED BY <1>1, <1>2, <1>3

LEMMA DelimiterHas ==
  ASSUME NEW t \in Seq(STRING), NEW i \in 1 .. Len(t), t[i] \in DelimiterCharacters
  PROVE  /\ tokenizeDelimiter(t, i) \in i + 1 .. Len(t) + 1
         /\ \A k \in i .. tokenizeDelimiter(t, i) - 1 : t[k] \in DelimiterCharacters
<1>1. CASE Between(t, i, i + 3) = Ellipsis
  <2>1. Between(t, i, i + 3) = <<".", ".", ".">> /\ "." \in DelimiterCharacters
    BY <1>1 DEF Ellipsis, DelimiterCharacters
  <2>2. i + 2 <= Len(t) /\ t[i] = "." /\ t[i + 1] = "." /\ t[i + 2] = "."
    BY <2>1, ThreeBytes
  <2>3. tokenizeDelimiter(t, i) = i + 3
    BY <1>1 DEF tokenizeDelimiter
  <2> QED BY <2>1, <2>2, <2>3
<1>2. CASE Between(t, i, i + 3) # Ellipsis /\ Between(t, i, i + 2) \in PairDelimiters
  <2>1. PICK a, b \in DelimiterCharacters : Between(t, i, i + 2) = <<a, b>>
    BY <1>2 DEF PairDelimiters, DelimiterCharacters
  <2>2. i + 1 <= Len(t) /\ t[i] = a /\ t[i + 1] = b
    BY <2>1, TwoBytes
  <2>3. tokenizeDelimiter(t, i) = i + 2
    BY <1>2 DEF tokenizeDelimiter
  <2> QED BY <2>2, <2>3
<1>3. CASE Between(t, i, i + 3) # Ellipsis /\ Between(t, i, i + 2) \notin PairDelimiters
  <2>1. tokenizeDelimiter(t, i) = i + 1
    BY <1>3 DEF tokenizeDelimiter
  <2> QED BY <2>1
<1> QED BY <1>1, <1>2, <1>3

LEMMA LineEndAfterIs ==
  ASSUME NEW t \in Seq(STRING), NEW i \in 1 .. Len(t), t[i] \in LineEnds
  PROVE  /\ LineEndAfter(t, i) \in i + 1 .. Len(t) + 1
         /\ EndsLine(t, LineEndAfter(t, i) - 1)
         /\ \A k \in i .. LineEndAfter(t, i) - 2 : ~ EndsLine(t, k)
         /\ \/ LineEndAfter(t, i) = i + 1 /\ ~(t[i] = "\r" /\ At(t, i + 1) = "\n")
            \/ /\ LineEndAfter(t, i) = i + 2 /\ i + 1 <= Len(t)
               /\ t[i] = "\r" /\ t[i + 1] = "\n"
<1>1. CASE t[i] = "\r" /\ At(t, i + 1) = "\n"
  <2>1. LineEndAfter(t, i) = i + 2
    BY <1>1 DEF LineEndAfter
  <2>2. i + 1 \in 1 .. Len(t)
    <3> SUFFICES ASSUME i + 1 \notin 1 .. Len(t) PROVE FALSE
      OBVIOUS
    <3>1. At(t, i + 1) = ""
      BY AtOutside
    <3> QED BY <1>1, <3>1
  <2>3. t[i + 1] = "\n"
    BY <1>1, <2>2, AtInside
  <2>4. EndsLine(t, i + 1)
    BY <2>3 DEF EndsLine
  <2>5. ~ EndsLine(t, i)
    BY <1>1, <2>2, <2>3 DEF EndsLine
  <2>6. i + 2 \in i + 1 .. Len(t) + 1 /\ i + 2 - 1 = i + 1 /\ i .. i + 2 - 2 = {i} /\ i + 1 <= Len(t)
    BY <2>2
  <2> QED BY <1>1, <2>1, <2>3, <2>4, <2>5, <2>6
<1>2. CASE ~(t[i] = "\r" /\ At(t, i + 1) = "\n")
  <2>1. LineEndAfter(t, i) = i + 1
    BY <1>2 DEF LineEndAfter
  <2>2. EndsLine(t, i)
    <3>1. i + 1 \in 1 .. Len(t) => At(t, i + 1) = t[i + 1]
      BY AtInside
    <3>2. i < Len(t) => i + 1 \in 1 .. Len(t)
      OBVIOUS
    <3> QED BY <1>2, <3>1, <3>2 DEF EndsLine, LineEnds
  <2>3. i + 1 \in i + 1 .. Len(t) + 1 /\ i + 1 - 1 = i /\ i .. i + 1 - 2 = {}
    OBVIOUS
  <2> QED BY <1>2, <2>1, <2>2, <2>3
<1> QED BY <1>1, <1>2


-----------------------------------------------------------------------------
(***************************************************************************)
(* What a token more means for what was right before.                      *)
(***************************************************************************)
LEMMA AppendIs ==
  ASSUME NEW list, list \in Seq(Range(list)), NEW token
  PROVE  /\ Append(list, token) \in Seq(Range(Append(list, token)))
         /\ DOMAIN list = 1 .. Len(list) /\ Len(list) \in Nat
         /\ DOMAIN Append(list, token) = 1 .. Len(list) + 1
         /\ Len(Append(list, token)) = Len(list) + 1
         /\ \A n \in 1 .. Len(list) : Append(list, token)[n] = list[n]
         /\ Append(list, token)[Len(list) + 1] = token
<1> DEFINE S == Range(list) \cup {token}
<1>1. list \in Seq(S) /\ token \in S
  BY SequenceWidens
<1> HIDE DEF S
<1>2. /\ DOMAIN list = 1 .. Len(list) /\ Len(list) \in Nat
      /\ DOMAIN Append(list, token) = 1 .. Len(list) + 1
      /\ Len(Append(list, token)) = Len(list) + 1
      /\ \A n \in 1 .. Len(list) : Append(list, token)[n] = list[n]
      /\ Append(list, token)[Len(list) + 1] = token
  BY <1>1
<1> QED BY <1>2, AppendAny

\* The tokens until now, or with one more that begins at i.
More(list, new, i) ==
  \/ new = list
  \/ \E token : new = Append(list, token) /\ token.offset = i
\* The one more, if there is one, is no word.
NoWord(list, new) ==
  \A n \in DOMAIN new : n \notin DOMAIN list => new[n].kind # "ident"

LEMMA MoreCovers ==
  ASSUME NEW list, list \in Seq(Range(list)), NEW new, NEW i \in Nat, More(list, new, i)
  PROVE  /\ DOMAIN list \subseteq DOMAIN new /\ \A n \in DOMAIN list : new[n] = list[n]
         /\ \A n \in DOMAIN new \ DOMAIN list : new[n].offset = i
         /\ \A j \in Nat : InWord(list, j) => InWord(new, j)
         /\ \A j \in Nat : j < i /\ InWord(new, j) => InWord(list, j)
         /\ NoWord(list, new) => \A j \in Nat : InWord(new, j) => InWord(list, j)
<1>1. /\ DOMAIN list \subseteq DOMAIN new /\ \A n \in DOMAIN list : new[n] = list[n]
      /\ \A n \in DOMAIN new \ DOMAIN list : new[n].offset = i
  <2>1. CASE new = list
    BY <2>1
  <2>2. CASE new # list
    <3>1. PICK token : new = Append(list, token) /\ token.offset = i
      BY <2>2 DEF More
    <3>2. /\ DOMAIN list = 1 .. Len(list) /\ Len(list) \in Nat
          /\ DOMAIN new = 1 .. Len(list) + 1
          /\ \A n \in 1 .. Len(list) : new[n] = list[n]
          /\ new[Len(list) + 1] = token
      BY <3>1, AppendIs
    <3> QED BY <3>1, <3>2
  <2> QED BY <2>1, <2>2
<1>2. \A j \in Nat : InWord(list, j) => InWord(new, j)
  BY <1>1 DEF InWord
<1>3. ASSUME NEW j \in Nat, InWord(new, j), ~ InWord(list, j)
      PROVE  ~(j < i) /\ ~ NoWord(list, new)
  <2>1. PICK n \in DOMAIN new : new[n].kind = "ident" /\ Covers(new[n], j)
    BY <1>3 DEF InWord
  <2>2. n \notin DOMAIN list
    BY <1>1, <1>3, <2>1 DEF InWord
  <2>3. new[n].offset = i
    BY <1>1, <2>2
  <2>4. ~(j < i)
    BY <2>1, <2>3 DEF Covers
  <2> QED BY <2>1, <2>2, <2>4 DEF NoWord
<1> QED BY <1>1, <1>2, <1>3

\* What is at k or before is where it was.
LEMMA KeepsPosition ==
  ASSUME NEW t, NEW list, list \in Seq(Range(list)), NEW new, NEW i \in Nat, More(list, new, i),
         NEW k \in 1 .. i, NEW l, NEW c, PositionTrue(t, list, k, l, c)
  PROVE  PositionTrue(t, new, k, l, c)
<1>1. \A j \in InsideRunes(t, k) : j \in Nat /\ j < i
  <2>1. LineStart(t, k) \in 1 .. k
    BY LineStartIs
  <2> QED BY <2>1 DEF InsideRunes
<1>2. (\A j \in InsideRunes(t, k) : InWord(new, j)) =>
        \A j \in InsideRunes(t, k) : InWord(list, j)
  BY <1>1, MoreCovers
<1> QED BY <1>2 DEF PositionTrue

\* The runes that begin between two positions.
LEMMA CountRunes ==
  ASSUME NEW t, NEW i \in Nat \ {0}, NEW e \in Nat, i <= e
  PROVE  /\ RunesBetween(t, i, e) = e - i - Cardinality({j \in i .. e - 1 : InsideRune(t, j)})
         /\ Cardinality({j \in i .. e - 1 : InsideRune(t, j)}) \in 0 .. e - i
<1> DEFINE S == {j \in i .. e - 1 : InsideRune(t, j)}
           T == {j \in i .. e - 1 : ~ InsideRune(t, j)}
<1>1. S \cup T = i .. e - 1 /\ S \cap T = {} /\ S \subseteq i .. e - 1 /\ T \subseteq i .. e - 1
  OBVIOUS
<1>2. i \in Int /\ e - 1 \in Int /\ i <= (e - 1) + 1 /\ e - i = (e - 1) + 1 - i
  OBVIOUS
<1>3. RunesBetween(t, i, e) = Cardinality(T)
  BY DEF RunesBetween
<1> HIDE DEF S, T
<1>4. IsFiniteSet(S) /\ IsFiniteSet(T) /\ Cardinality(S) \in Nat /\ Cardinality(T) \in Nat
  BY <1>1, <1>2, CountSome
<1>5. Cardinality(i .. e - 1) = Cardinality(S) + Cardinality(T)
  BY <1>1, <1>4, CountApart
<1>6. Cardinality(i .. e - 1) = e - i
  <2>1. Cardinality(i .. e - 1) = IF i > e - 1 THEN 0 ELSE (e - 1) - i + 1
    BY <1>2, FS_Interval
  <2> QED BY <2>1
<1>7. Cardinality(T) = e - i - Cardinality(S) /\ Cardinality(S) \in 0 .. e - i
  BY <1>4, <1>5, <1>6
<1> QED BY <1>3, <1>7 DEF S

\* Byte by byte, over no word.
LEMMA MoveOnBytes ==
  ASSUME NEW t, NEW i \in Nat \ {0}, NEW e \in Nat, i <= e,
         \A k \in i .. e - 1 : ~ EndsLine(t, k),
         NEW list, list \in Seq(Range(list)), EndBefore(list, i),
         NEW new, More(list, new, i), NoWord(list, new),
         NEW l, NEW c \in Int, PositionTrue(t, list, i, l, c)
  PROVE  PositionTrue(t, new, e, l, c + (e - i))
<1> DEFINE inside == {j \in i .. e - 1 : InsideRune(t, j)}
           n == Cardinality(inside)
<1>1. n \in 0 .. e - i
  BY CountRunes
<1>2. \A j \in 1 .. i - 1 : InWord(new, j) => InWord(list, j)
  BY MoreCovers
<1>3. \A j \in inside : ~ InWord(new, j)
  <2> SUFFICES ASSUME NEW j \in inside, InWord(new, j) PROVE FALSE
    OBVIOUS
  <2>1. j \in Nat /\ i <= j
    OBVIOUS
  <2>2. InWord(list, j)
    BY <2>1, MoreCovers
  <2> QED BY <2>1, <2>2, NotYetRead
<1>4. (\A j \in inside : InWord(new, j)) => n = 0
  <2> SUFFICES ASSUME \A j \in inside : InWord(new, j) PROVE n = 0
    OBVIOUS
  <2>1. inside = {}
    BY <1>3
  <2> HIDE DEF inside
  <2> QED BY <2>1, FS_EmptySet
<1> DEFINE m == e - i
<1>5. m \in Int /\ e - i - n <= m /\ m <= e - i
      /\ ((\A j \in inside : InWord(new, j)) => m = e - i - n)
  <2> HIDE DEF n, inside
  <2> QED BY <1>1, <1>4
<1> HIDE DEF m
<1>6. PositionTrue(t, new, e, l, c + m)
  BY <1>2, <1>5, MoveOn
<1> QED BY <1>6 DEF m


-----------------------------------------------------------------------------
(***************************************************************************)
(* The invariant: where the reading is, and where the tokens are.          *)
(***************************************************************************)
LexType ==
  /\ text \in Seq(STRING) /\ index \in 1 .. Len(text) + 1
  /\ line \in Int /\ column \in Int
  /\ tokens \in Seq(Range(tokens)) /\ EndBefore(tokens, index)
LexInv ==
  /\ LexType
  /\ PositionTrue(text, tokens, index, line, column)
  /\ PositionsTrue

\* What was read ends at index', and may be a token.
ReadsTo ==
  /\ text' = text /\ refusal' = refusal
  /\ index' \in index .. Len(text) + 1
  /\ \/ tokens' = tokens
     \/ \E kind, value : tokens' = Append(tokens, NewToken(kind, value, index'))
NoWordRead ==
  \/ tokens' = tokens
  \/ \E kind, value : kind # "ident" /\ tokens' = Append(tokens, NewToken(kind, value, index'))

LEMMA ReadsMore ==
  ASSUME LexType, ReadsTo
  PROVE  /\ More(tokens, tokens', index)
         /\ NoWordRead => NoWord(tokens, tokens')
         /\ tokens' \in Seq(Range(tokens')) /\ EndBefore(tokens', index')
         /\ \A n \in DOMAIN tokens' : n \in DOMAIN tokens \/
              /\ tokens'[n].offset = index /\ tokens'[n].line = line
              /\ tokens'[n].column = column
<1>1. /\ tokens \in Seq(Range(tokens)) /\ EndBefore(tokens, index)
      /\ index \in Nat \ {0} /\ index' \in Nat /\ index <= index'
  BY DEF LexType, ReadsTo
<1>2. \A n \in DOMAIN tokens : /\ tokens[n].offset \in Nat \ {0} /\ tokens[n].length \in Nat
                              /\ tokens[n].offset + tokens[n].length <= index'
  BY <1>1 DEF EndBefore
<1>3. CASE tokens' = tokens
  BY <1>1, <1>2, <1>3 DEF More, NoWord, EndBefore
<1>4. ASSUME NEW kind, NEW value, tokens' = Append(tokens, NewToken(kind, value, index'))
      PROVE  /\ More(tokens, tokens', index)
             /\ kind # "ident" => NoWord(tokens, tokens')
             /\ tokens' \in Seq(Range(tokens')) /\ EndBefore(tokens', index')
             /\ \A n \in DOMAIN tokens' : n \in DOMAIN tokens \/
                  /\ tokens'[n].offset = index /\ tokens'[n].line = line
                  /\ tokens'[n].column = column
  <2> DEFINE token == NewToken(kind, value, index')
  <2>1. /\ token.offset = index /\ token.line = line /\ token.column = column
        /\ token.kind = kind /\ token.length = index' - index
    BY DEF NewToken
  <2>2. /\ Append(tokens, token) \in Seq(Range(Append(tokens, token)))
        /\ DOMAIN tokens = 1 .. Len(tokens) /\ Len(tokens) \in Nat
        /\ DOMAIN Append(tokens, token) = 1 .. Len(tokens) + 1
        /\ \A n \in 1 .. Len(tokens) : Append(tokens, token)[n] = tokens[n]
        /\ Append(tokens, token)[Len(tokens) + 1] = token
    <3> HIDE DEF token
    <3> QED BY <1>1, AppendIs
  <2> HIDE DEF token
  <2>3. tokens' = Append(tokens, token)
    BY <1>4 DEF token
  <2>4. \A n \in DOMAIN tokens' : (n \in DOMAIN tokens /\ tokens'[n] = tokens[n])
                                  \/ (n \notin DOMAIN tokens /\ tokens'[n] = token)
    BY <2>2, <2>3
  <2>5. More(tokens, tokens', index)
    BY <2>1, <2>3 DEF More
  <2>6. kind # "ident" => NoWord(tokens, tokens')
    BY <2>1, <2>4 DEF NoWord
  <2>7. EndBefore(tokens', index')
    <3>1. token.offset \in Nat \ {0} /\ token.length \in Nat
          /\ token.offset + token.length <= index'
      <4>1. \A i, j \in Nat : i <= j => j - i \in Nat /\ i + (j - i) <= j
        OBVIOUS
      <4>2. index' - index \in Nat /\ index + (index' - index) <= index'
        BY <1>1, <4>1
      <4> QED BY <1>1, <2>1, <4>2
    <3> QED BY <1>2, <2>4, <3>1 DEF EndBefore
  <2> QED BY <2>1, <2>2, <2>3, <2>4, <2>5, <2>6, <2>7
<1>5. CASE tokens' # tokens
  <2>1. PICK kind, value : tokens' = Append(tokens, NewToken(kind, value, index'))
    BY <1>5 DEF ReadsTo
  <2>2. NoWordRead => NoWord(tokens, tokens')
    <3> SUFFICES ASSUME NoWordRead PROVE NoWord(tokens, tokens')
      OBVIOUS
    <3>1. PICK k, v : k # "ident" /\ tokens' = Append(tokens, NewToken(k, v, index'))
      BY <1>5 DEF NoWordRead
    <3> QED BY <1>4, <3>1
  <2> QED BY <1>4, <2>1, <2>2
<1> QED BY <1>3, <1>5

\* The position after it is what remains to be shown.
LEMMA LexStep ==
  ASSUME LexInv, refusal = <<>>, ReadsTo, line' \in Int, column' \in Int,
         PositionTrue(text, tokens', index', line', column')
  PROVE  LexInv'
<1>1. LexType
  BY DEF LexInv
<1>2. /\ More(tokens, tokens', index)
      /\ tokens' \in Seq(Range(tokens')) /\ EndBefore(tokens', index')
      /\ \A n \in DOMAIN tokens' : n \in DOMAIN tokens \/
           /\ tokens'[n].offset = index /\ tokens'[n].line = line /\ tokens'[n].column = column
  BY <1>1, ReadsMore
<1>3. text' = text /\ refusal' = <<>> /\ index' \in index .. Len(text) + 1
  BY DEF ReadsTo
<1>4. index \in 1 .. Len(text) + 1 /\ text \in Seq(STRING) /\ Len(text) \in Nat
      /\ tokens \in Seq(Range(tokens)) /\ EndBefore(tokens, index) /\ index \in Nat
  BY <1>1 DEF LexType
<1>5. index' \in 1 .. Len(text') + 1
  BY <1>3, <1>4
<1>6. LexType'
  BY <1>2, <1>3, <1>4, <1>5 DEF LexType
<1>7. ASSUME NEW n \in DOMAIN tokens'
      PROVE  PositionTrue(text, tokens', tokens'[n].offset, tokens'[n].line, tokens'[n].column)
  <2>1. CASE n \in DOMAIN tokens
    <3>1. tokens'[n] = tokens[n]
      BY <1>2, <1>4, <2>1, MoreCovers
    <3>2. tokens[n].offset \in 1 .. index
      BY <1>4, <2>1 DEF EndBefore
    <3>3. PositionTrue(text, tokens, tokens[n].offset, tokens[n].line, tokens[n].column)
      BY <2>1 DEF LexInv, PositionsTrue
    <3>4. PositionTrue(text, tokens', tokens[n].offset, tokens[n].line, tokens[n].column)
      BY <1>2, <1>4, <3>2, <3>3, KeepsPosition
    <3> QED BY <3>1, <3>4
  <2>2. CASE n \notin DOMAIN tokens
    <3>1. tokens'[n].offset = index /\ tokens'[n].line = line /\ tokens'[n].column = column
      BY <1>2, <2>2
    <3>2. PositionTrue(text, tokens, index, line, column) /\ index \in 1 .. index
      BY <1>4 DEF LexInv
    <3>3. PositionTrue(text, tokens', index, line, column)
      BY <1>2, <1>4, <3>2, KeepsPosition
    <3> QED BY <3>1, <3>3
  <2> QED BY <2>1, <2>2
<1>8. PositionsTrue'
  BY <1>3, <1>7 DEF PositionsTrue
<1> QED BY <1>3, <1>6, <1>8 DEF LexInv

\* The same, byte by byte, over no word and no line end.
LEMMA LexStepBytes ==
  ASSUME LexInv, refusal = <<>>, ReadsTo, NoWordRead, line' = line,
         column' = column + (index' - index),
         \A k \in index .. index' - 1 : ~ EndsLine(text, k)
  PROVE  LexInv'
<1>1. LexType /\ PositionTrue(text, tokens, index, line, column)
  BY DEF LexInv
<1>2. /\ index \in Nat \ {0} /\ index' \in Nat /\ index <= index'
      /\ tokens \in Seq(Range(tokens)) /\ EndBefore(tokens, index)
      /\ line \in Int /\ column \in Int
  BY <1>1 DEF LexType, ReadsTo
<1>3. More(tokens, tokens', index) /\ NoWord(tokens, tokens')
  BY <1>1, ReadsMore
<1>4. PositionTrue(text, tokens', index', line, column + (index' - index))
  BY <1>1, <1>2, <1>3, MoveOnBytes
<1>5. column' \in Int /\ line' \in Int
  BY <1>2
<1> QED BY <1>4, <1>5, LexStep


-----------------------------------------------------------------------------
(***************************************************************************)
(* Every action.                                                           *)
(***************************************************************************)
LEMMA NewlineStep ==
  ASSUME LexInv, NewlineToken PROVE LexInv'
<1>1. LexType /\ PositionTrue(text, tokens, index, line, column)
  BY DEF LexInv
<1>2. /\ text \in Seq(STRING) /\ index \in 1 .. Len(text) /\ refusal = <<>>
      /\ RuneAt(text, index) \in Runes(LineEnds)
  <2>3. text \in Seq(STRING) /\ index \in 1 .. Len(text) + 1
    BY <1>1 DEF LexType
  <2>4. index <= Len(text)
    BY DEF NewlineToken, Meets
  <2>1. /\ text \in Seq(STRING) /\ index \in 1 .. Len(text) + 1
        /\ index <= Len(text) /\ Len(text) \in Nat
    BY <2>3, <2>4
  <2>2. index \in 1 .. Len(text)
    BY <2>1
  <2> QED BY <2>1, <2>2 DEF NewlineToken, Meets, Reading, IsLineEnd, Rune
<1>3. text[index] \in LineEnds
  <2>1. {} \subseteq Leads
    OBVIOUS
  <2> QED BY <1>2, <2>1, RuneOf
<1> DEFINE e == LineEndAfter(text, index)
<1>4. /\ e \in index + 1 .. Len(text) + 1 /\ EndsLine(text, e - 1)
      /\ \A k \in index .. e - 2 : ~ EndsLine(text, k)
  BY <1>2, <1>3, LineEndAfterIs
<1>5. /\ index' = e /\ line' = line + 1 /\ column' = 1 /\ text' = text /\ refusal' = refusal
      /\ tokens' = Append(tokens, NewToken("newline", "", e))
  BY DEF NewlineToken, Emit
<1> HIDE DEF e
<1>6. e \in Nat /\ index \in Nat \ {0} /\ index < e /\ e \in index .. Len(text) + 1
  BY <1>2, <1>4
<1>7. ReadsTo
  BY <1>5, <1>6 DEF ReadsTo
<1>8. line \in Int
  BY <1>1 DEF LexType
<1>9. PositionTrue(text, tokens', e, line + 1, 1)
  BY <1>1, <1>4, <1>6, <1>8, MoveToLine
<1>10. PositionTrue(text, tokens', index', line', column') /\ line' \in Int /\ column' \in Int
  <2>1. index' = e /\ line' = line + 1 /\ column' = 1
    BY <1>5
  <2> QED BY <1>8, <1>9, <2>1
<1> QED BY <1>2, <1>7, <1>10, LexStep

LEMMA BlankStep ==
  ASSUME LexInv, Blank PROVE LexInv'
<1>1. LexType /\ PositionTrue(text, tokens, index, line, column)
  BY DEF LexInv
<1>2. /\ text \in Seq(STRING) /\ index \in 1 .. Len(text) /\ refusal = <<>>
      /\ RuneAt(text, index) \in SpaceRunes /\ RuneAt(text, index) \notin Runes(LineEnds)
      /\ index' = index + Len(RuneAt(text, index)) /\ column' = column + 1
      /\ text' = text /\ line' = line /\ tokens' = tokens /\ refusal' = refusal
  BY <1>1 DEF LexType, Blank, Meets, Reading, IsLineEnd, IsSpace, Rune
<1>3. line \in Int /\ column \in Int
  BY <1>1 DEF LexType
<1>4. SpaceLeads \subseteq Leads
  BY DEF Leads
<1>5. CASE RuneAt(text, index) \in Runes(AsciiSpaces)
  <2>1. text[index] \in AsciiSpaces /\ RuneAt(text, index) = <<text[index]>>
    BY <1>2, <1>4, <1>5, RuneOf
  <2>2. Len(RuneAt(text, index)) = 1
    BY <2>1
  <2>3. text[index] \notin LineEnds
    <3> SUFFICES ASSUME text[index] \in LineEnds PROVE FALSE
      OBVIOUS
    <3>1. text[index] \in Characters
      BY CharactersAre
    <3> QED BY <1>2, <1>4, <3>1, RuneOf
  <2>4. index' = index + 1
    BY <1>2, <2>2
  <2>5. \A k \in index .. index' - 1 : ~ EndsLine(text, k)
    BY <1>2, <2>3, <2>4, LineEndBytes
  <2>6. ReadsTo /\ NoWordRead
    BY <1>2, <2>4 DEF ReadsTo, NoWordRead
  <2>7. column' = column + (index' - index)
    BY <1>2, <1>3, <2>4
  <2> QED BY <1>2, <2>5, <2>6, <2>7, LexStepBytes
<1>6. CASE RuneAt(text, index) \in Wide(SpaceLeads)
  <2>1. /\ index + 1 <= Len(text) /\ text[index] \in Leads /\ text[index + 1] \in Continuations
        /\ RuneAt(text, index) = <<text[index], text[index + 1]>>
    BY <1>2, <1>4, <1>6, RuneOf
  <2>2. Len(RuneAt(text, index)) = 2
    BY <2>1
  <2>3. index' = index + 2 /\ index + 1 \in 1 .. Len(text) /\ index .. index' - 1 = {index, index + 1}
    BY <1>2, <2>1, <2>2
  <2>4. text[index] \notin LineEnds /\ text[index + 1] \notin LineEnds
    BY <2>1, RunesApart, CharactersAre
  <2>5. \A k \in index .. index' - 1 : ~ EndsLine(text, k)
    <3>1. ~ EndsLine(text, index)
      BY <1>2, <2>4, LineEndBytes
    <3>2. ~ EndsLine(text, index + 1)
      BY <1>2, <2>3, <2>4, LineEndBytes
    <3> QED BY <2>3, <3>1, <3>2
  <2> DEFINE inside == {j \in index .. index' - 1 : InsideRune(text, j)}
  <2>6. inside = {index + 1}
    <3>1. ~ InsideRune(text, index)
      BY <1>2, <2>1, RunesApart, InsideRuneIs
    <3>2. InsideRune(text, index + 1)
      <4>1. index + 1 > 1 /\ index + 1 - 1 = index
        BY <1>2
      <4> QED BY <1>2, <2>1, <2>3, <4>1, InsideRuneIs
    <3> QED BY <2>3, <3>1, <3>2
  <2>7. Cardinality(inside) = 1
    <3> HIDE DEF inside
    <3> QED BY <2>6, FS_Singleton
  <2>8. ReadsTo
    BY <1>2, <2>3 DEF ReadsTo
  <2>9. /\ index \in Nat \ {0} /\ index' \in Nat /\ index <= index'
        /\ index' - index - 1 <= 1 /\ 1 <= index' - index /\ 1 = index' - index - 1
    <3>1. PICK i \in Nat \ {0} : i = index
      BY <1>2
    <3>2. index' = i + 2
      BY <2>3, <3>1
    <3> QED BY <3>1, <3>2
  <2>10. PositionTrue(text, tokens', index', line, column + 1)
    <3>1. /\ index' - index - Cardinality(inside) <= 1 /\ 1 <= index' - index
          /\ (\A j \in inside : InWord(tokens', j)) => 1 = index' - index - Cardinality(inside)
      <4> HIDE DEF inside
      <4> QED BY <2>7, <2>9
    <3>2. \A j \in 1 .. index - 1 : InWord(tokens', j) => InWord(tokens, j)
      BY <1>2
    <3>3. 1 \in Int
      OBVIOUS
    <3> QED BY <1>1, <1>3, <2>5, <2>9, <3>1, <3>2, <3>3, MoveOn
  <2>11. column + 1 \in Int
    BY <1>3
  <2> QED BY <1>2, <1>3, <2>8, <2>10, <2>11, LexStep
<1> QED BY <1>2, <1>5, <1>6 DEF SpaceRunes

LEMMA OpensIs ==
  ASSUME text \in Seq(STRING), NEW a, NEW b, a # "", b # "", Opens(a, b), index \in Nat
  PROVE  /\ index \in 1 .. Len(text) /\ index + 1 \in 1 .. Len(text)
         /\ text[index] = a /\ text[index + 1] = b
<1>1. index \in 1 .. Len(text)
  BY AtOutside DEF Opens
<1>2. index + 1 \in 1 .. Len(text)
  BY AtOutside DEF Opens
<1> QED BY <1>1, <1>2, AtInside DEF Opens

LEMMA LineCommentStep ==
  ASSUME LexInv, LineComment PROVE LexInv'
<1>1. text \in Seq(STRING) /\ index \in 1 .. Len(text) + 1
  BY DEF LexInv, LexType
<1>2. /\ index + 1 \in 1 .. Len(text) /\ text[index] = "/" /\ text[index + 1] = "/"
  <2>1. index \in Nat
    BY <1>1
  <2>2. Opens("/", "/") /\ "/" # ""
    BY DEF LineComment
  <2> QED BY <1>1, <2>1, <2>2, OpensIs
<1> DEFINE e == NextOf(text, index + 2, LineEnds)
<1>3. e \in index + 2 .. Len(text) + 1 /\ \A k \in index + 2 .. e - 1 : text[k] \notin LineEnds
  <2>1. index + 2 \in 1 .. Len(text) + 1
    BY <1>1, <1>2
  <2> QED BY <1>1, <2>1, NextOfIs
<1>4. /\ index' = e /\ column' = column + (e - index) /\ text' = text /\ line' = line
      /\ tokens' = tokens /\ refusal' = refusal /\ refusal = <<>>
  BY DEF LineComment, MoveTo, Reading
<1> HIDE DEF e
<1>5. ReadsTo /\ NoWordRead
  <2>1. e \in index .. Len(text) + 1
    BY <1>1, <1>3
  <2> QED BY <1>4, <2>1 DEF ReadsTo, NoWordRead
<1>6. ASSUME NEW k \in index .. e - 1 PROVE ~ EndsLine(text, k)
  <2>1. k \in 1 .. Len(text) /\ (k = index \/ k = index + 1 \/ k \in index + 2 .. e - 1)
    BY <1>1, <1>3
  <2>2. text[k] \notin LineEnds
    BY <1>2, <1>3, <2>1 DEF LineEnds
  <2> QED BY <1>1, <2>1, <2>2, LineEndBytes
<1> QED BY <1>4, <1>5, <1>6, LexStepBytes


LEMMA AtIndex ==
  ASSUME LexType, index <= Len(text)
  PROVE  text \in Seq(STRING) /\ index \in 1 .. Len(text) /\ index \in Nat \ {0}
<1>1. text \in Seq(STRING) /\ index \in 1 .. Len(text) + 1
  BY DEF LexType
<1> QED BY <1>1

\* A token of characters that end no line.
LEMMA CharactersStep ==
  ASSUME LexInv, refusal = <<>>, NEW e \in index .. Len(text) + 1,
         \A k \in index .. e - 1 : text[k] \in Characters \ LineEnds,
         NEW kind, NEW value, Emit(kind, value, e), MoveTo(e), line' = line
  PROVE  LexInv'
<1>1. LexType /\ PositionTrue(text, tokens, index, line, column)
  BY DEF LexInv
<1>2. /\ text \in Seq(STRING) /\ index \in 1 .. Len(text) + 1
      /\ line \in Int /\ column \in Int /\ tokens \in Seq(Range(tokens))
  BY <1>1 DEF LexType
<1>3. /\ text' = text /\ refusal' = refusal /\ index' = e /\ column' = column + (e - index)
      /\ tokens' = Append(tokens, NewToken(kind, value, e))
  BY DEF Emit, MoveTo
<1>4. ReadsTo
  BY <1>3 DEF ReadsTo
<1>5. More(tokens, tokens', index)
  BY <1>1, <1>4, ReadsMore
<1>6. \A k \in index .. e - 1 : k \in 1 .. Len(text)
  BY <1>2
<1>7. \A k \in index .. e - 1 : ~ EndsLine(text, k)
  BY <1>2, <1>6, LineEndBytes
<1> DEFINE inside == {j \in index .. e - 1 : InsideRune(text, j)}
<1>8. inside = {}
  BY <1>2, <1>6, CharacterIs
<1>9. Cardinality(inside) = 0
  <2> HIDE DEF inside
  <2> QED BY <1>8, FS_EmptySet
<1>10. /\ index \in Nat \ {0} /\ e \in Nat /\ index <= e /\ e - index \in Int
       /\ e - index - 0 <= e - index /\ e - index <= e - index /\ e - index = e - index - 0
  BY <1>2
<1>11. \A j \in 1 .. index - 1 : InWord(tokens', j) => InWord(tokens, j)
  BY <1>2, <1>5, <1>10, MoreCovers
<1>12. PositionTrue(text, tokens', e, line, column + (e - index))
  <2>1. /\ e - index - Cardinality(inside) <= e - index /\ e - index <= e - index
        /\ (\A j \in inside : InWord(tokens', j)) => e - index = e - index - Cardinality(inside)
    <3> HIDE DEF inside
    <3> QED BY <1>9, <1>10
  <2> QED BY <1>1, <1>2, <1>7, <1>10, <1>11, <2>1, MoveOn
<1>13. PositionTrue(text, tokens', index', line', column')
  BY <1>3, <1>12
<1>14. line' \in Int /\ column' \in Int
  BY <1>2, <1>3, <1>10
<1> QED BY <1>4, <1>13, <1>14, LexStep

LEMMA SuffixedIs ==
  ASSUME NEW t \in Seq(STRING), NEW end \in 1 .. Len(t) + 1
  PROVE  \/ Suffixed(t, end) = end /\ At(t, end) \notin SuffixBytes
         \/ Suffixed(t, end) = end + 1 /\ end \in 1 .. Len(t) /\ t[end] \in SuffixBytes
<1>1. CASE At(t, end) \in SuffixBytes
  <2>1. end \in 1 .. Len(t)
    <3> SUFFICES ASSUME end \notin 1 .. Len(t) PROVE FALSE
      OBVIOUS
    <3>1. At(t, end) = ""
      BY AtOutside
    <3> QED BY <1>1, <3>1 DEF SuffixBytes
  <2> QED BY <1>1, <2>1, AtInside DEF Suffixed, SuffixBytes
<1>2. CASE At(t, end) \notin SuffixBytes
  BY <1>2 DEF Suffixed, SuffixBytes
<1> QED BY <1>1, <1>2

\* A number begins with a digit that is one byte.
LEMMA NumberBegins ==
  ASSUME NEW t \in Seq(STRING), NEW i \in 1 .. Len(t), IsDigit(RuneAt(t, i)),
         NumeralEnd(t, i) # NoToken,
         NumericKind(t, i, NumeralEnd(t, i)) = "integer" => IsInteger(t, i, NumeralEnd(t, i))
  PROVE  t[i] \in Digits
<1> SUFFICES ASSUME t[i] \notin Digits PROVE FALSE
  OBVIOUS
<1>1. DigitLeads \subseteq Leads /\ t[i] \in DigitLeads
  <2>1. DigitLeads \subseteq Leads
    BY DEF Leads
  <2> QED BY <2>1, RuneOf DEF IsDigit, DigitRunes
<1>2. t[i] \notin Characters /\ At(t, i) = t[i]
  BY <1>1, RunesApart, AtInside
<1>3. DigitsEnd(t, i) = i
  <2> PICK d : d = DigitsEnd(t, i)
    OBVIOUS
  <2>1. d \in i .. Len(t) + 1 /\ \A k \in i .. d - 1 : t[k] \in Digits
    BY DigitsEndIs
  <2> QED BY <2>1
<1>4. FractionEnd(t, i) = i /\ ExponentEnd(t, i) = i
  <2>1. {".", "e", "E"} \subseteq Characters
    BY NumeralBytesAre DEF NumeralBytes
  <2> QED BY <1>2, <2>1 DEF FractionEnd, ExponentEnd
<1>5. NumeralEnd(t, i) = i
  BY <1>3, <1>4 DEF NumeralEnd
<1>6. At(t, i) \notin {"f", "F"} /\ At(t, i) \notin {"d", "D"}
  BY <1>2, NumeralBytesAre DEF SuffixBytes
<1>7. Range(SubSeq(t, i, i - 1)) \cap {".", "e", "E"} = {}
  <2>1. SubSeq(t, i, i - 1) = <<>>
    OBVIOUS
  <2> QED BY <2>1, EmptyRange
<1>8. NumericKind(t, i, i) = "integer"
  BY <1>6, <1>7 DEF NumericKind
<1>9. ~ IsInteger(t, i, i)
  BY DEF IsInteger
<1> QED BY <1>5, <1>8, <1>9

LEMMA NumberStep ==
  ASSUME LexInv, Number PROVE LexInv'
<1>1. LexType
  BY DEF LexInv
<1>2. index <= Len(text) /\ refusal = <<>> /\ IsDigit(RuneAt(text, index))
  BY DEF Number, Meets, Reading, Rune
<1>3. text \in Seq(STRING) /\ index \in 1 .. Len(text)
  BY <1>1, <1>2, AtIndex
<1> PICK n : n = NumeralEnd(text, index)
  OBVIOUS
<1> PICK kind : kind = NumericKind(text, index, n)
  OBVIOUS
<1>4. n # NoToken /\ EmitNumber(kind, n)
  BY DEF Number, Numeral
<1> DEFINE e == Suffixed(text, n)
           value == IF kind = "integer" THEN IntegerValue(text, index, n) ELSE 0
<1>5. Emit(kind, value, e) /\ MoveTo(e) /\ line' = line
  BY <1>4 DEF EmitNumber
<1>6. text[index] \in Digits
  BY <1>3, <1>2, <1>4, NumberBegins DEF EmitNumber
<1>7. n \in index .. Len(text) + 1 /\ n \in 1 .. Len(text) + 1
  <2> PICK d : d = DigitsEnd(text, index)
    OBVIOUS
  <2> PICK f : f = FractionEnd(text, d)
    OBVIOUS
  <2>1. d \in index .. Len(text) + 1 /\ f \in d .. Len(text) + 1 /\ n \in f .. Len(text) + 1
    BY <1>3, <1>4, NumeralEndIs
  <2> QED BY <1>3, <2>1
<1>8. \A k \in index .. n - 1 : text[k] \in NumeralBytes
  BY <1>3, <1>4, NumeralHas
<1>9. \/ e = n
      \/ e = n + 1 /\ n \in 1 .. Len(text) /\ text[n] \in SuffixBytes
  BY <1>3, <1>7, SuffixedIs
<1> HIDE DEF e, value
<1>11. e \in index .. Len(text) + 1
  BY <1>3, <1>7, <1>9
<1>12. \A k \in index .. e - 1 : text[k] \in Characters \ LineEnds
  <2>1. \A k \in index .. e - 1 : k \in index .. n - 1 \/ (k = n /\ text[n] \in SuffixBytes)
    BY <1>3, <1>7, <1>9
  <2> QED BY <1>8, <2>1, NumeralBytesAre
<1> QED BY <1>2, <1>5, <1>11, <1>12, CharactersStep

LEMMA OperatorStep ==
  ASSUME LexInv, Operator PROVE LexInv'
<1>1. LexType
  BY DEF LexInv
<1>2. index <= Len(text) /\ refusal = <<>> /\ isOperator(RuneAt(text, index))
  BY DEF Operator, Meets, Reading, Rune
<1>3. text \in Seq(STRING) /\ index \in 1 .. Len(text)
  BY <1>1, <1>2, AtIndex
<1>4. text[index] \in OperatorCharacters
  <2>1. {} \subseteq Leads
    OBVIOUS
  <2> QED BY <1>2, <1>3, <2>1, RuneOf DEF isOperator
<1> PICK e : e = tokenizeOperator(text, index)
  OBVIOUS
<1>5. e \in index + 1 .. Len(text) + 1 /\ \A k \in index .. e - 1 : text[k] \in OperatorCharacters
  BY <1>3, <1>4, OperatorHas
<1> PICK kind : kind = Spelled(text, index, e)
  OBVIOUS
<1>6. Emit(kind, "", e) /\ MoveTo(e) /\ line' = line
  BY DEF Operator, EmitSymbol
<1>7. e \in index .. Len(text) + 1
  BY <1>3, <1>5
<1>8. \A k \in index .. e - 1 : text[k] \in Characters \ LineEnds
  <2>1. OperatorCharacters \cap LineEnds = {}
    BY DEF OperatorCharacters, LineEnds
  <2> QED BY <1>5, <2>1, CharactersAre
<1> QED BY <1>2, <1>6, <1>7, <1>8, CharactersStep

LEMMA DelimiterStep ==
  ASSUME LexInv, Delimiter PROVE LexInv'
<1>1. LexType
  BY DEF LexInv
<1>2. index <= Len(text) /\ refusal = <<>> /\ isDelimiter(RuneAt(text, index))
  BY DEF Delimiter, Meets, Reading, Rune
<1>3. text \in Seq(STRING) /\ index \in 1 .. Len(text)
  BY <1>1, <1>2, AtIndex
<1>4. text[index] \in DelimiterCharacters
  <2>1. {} \subseteq Leads
    OBVIOUS
  <2> QED BY <1>2, <1>3, <2>1, RuneOf DEF isDelimiter
<1> PICK e : e = tokenizeDelimiter(text, index)
  OBVIOUS
<1>5. e \in index + 1 .. Len(text) + 1 /\ \A k \in index .. e - 1 : text[k] \in DelimiterCharacters
  BY <1>3, <1>4, DelimiterHas
<1> PICK kind : kind = Spelled(text, index, e)
  OBVIOUS
<1>6. Emit(kind, "", e) /\ MoveTo(e) /\ line' = line
  BY DEF Delimiter, EmitSymbol
<1>7. e \in index .. Len(text) + 1
  BY <1>3, <1>5
<1>8. \A k \in index .. e - 1 : text[k] \in Characters \ LineEnds
  <2>1. DelimiterCharacters \cap LineEnds = {}
    BY DEF DelimiterCharacters, LineEnds
  <2> QED BY <1>5, <2>1, CharactersAre
<1> QED BY <1>2, <1>6, <1>7, <1>8, CharactersStep

LEMMA IdentifierStep ==
  ASSUME LexInv, Identifier PROVE LexInv'
<1>1. LexType /\ PositionTrue(text, tokens, index, line, column)
  BY DEF LexInv
<1>2. index <= Len(text) /\ refusal = <<>> /\ isIdentStart(RuneAt(text, index))
  BY DEF Identifier, Meets, Reading, Rune
<1>3. text \in Seq(STRING) /\ index \in 1 .. Len(text) /\ index \in Nat \ {0}
  BY <1>1, <1>2, AtIndex
<1> PICK e : e = IdentifierEnd(text, index)
  OBVIOUS
<1> PICK word : word = Spelled(text, index, e)
  OBVIOUS
<1>4. e \in index + 1 .. Len(text) + 1
  BY <1>2, <1>3, IdentifierEndIs
<1>5. /\ index' = e /\ column' = column + RunesBetween(text, index, e) /\ line' = line
      /\ text' = text /\ refusal' = refusal
      /\ \E kind : tokens' = Append(tokens, NewToken(kind, word, e))
  BY DEF Identifier, EmitWord, Emit
<1>6. e \in Nat /\ index <= e /\ e \in index .. Len(text) + 1
  BY <1>3, <1>4
<1>7. ReadsTo
  BY <1>5, <1>6 DEF ReadsTo
<1>8. line \in Int /\ column \in Int /\ tokens \in Seq(Range(tokens))
  BY <1>1 DEF LexType
<1>9. \A j \in 1 .. index - 1 : InWord(tokens', j) => InWord(tokens, j)
  <2>1. More(tokens, tokens', index)
    BY <1>1, <1>7, ReadsMore
  <2>2. index \in Nat
    BY <1>3
  <2> QED BY <1>8, <2>1, <2>2, MoreCovers
<1>10. ASSUME NEW k \in index .. e - 1 PROVE ~ EndsLine(text, k)
  <2>1. k \in 1 .. Len(text)
    BY <1>3, <1>6
  <2>2. text[k] \notin LineEnds
    BY <1>2, <1>3, IdentifierHas
  <2> QED BY <1>3, <2>1, <2>2, LineEndBytes
<1> DEFINE inside == {j \in index .. e - 1 : InsideRune(text, j)}
           m == RunesBetween(text, index, e)
<1>11. m = e - index - Cardinality(inside) /\ Cardinality(inside) \in 0 .. e - index
  BY <1>3, <1>6, CountRunes
<1>12. PositionTrue(text, tokens', e, line, column + m)
  <2>1. /\ e - index - Cardinality(inside) <= m /\ m <= e - index
        /\ (\A j \in inside : InWord(tokens', j)) => m = e - index - Cardinality(inside)
        /\ m \in Int
    <3> HIDE DEF inside, m
    <3> QED BY <1>3, <1>6, <1>11
  <2> HIDE DEF m
  <2> QED BY <1>1, <1>3, <1>6, <1>8, <1>9, <1>10, <2>1, MoveOn
<1>13. column' = column + m /\ m \in Int
  <2>1. m \in Int
    <3> HIDE DEF inside, m
    <3> QED BY <1>3, <1>6, <1>11
  <2> QED BY <1>5, <2>1
<1> HIDE DEF m
<1>14. PositionTrue(text, tokens', index', line', column')
  BY <1>5, <1>12, <1>13
<1>15. line' \in Int /\ column' \in Int
  BY <1>5, <1>8, <1>13
<1> QED BY <1>2, <1>7, <1>14, <1>15, LexStep

LEMMA StringStep ==
  ASSUME LexInv, String PROVE LexInv'
<1>1. LexType
  BY DEF LexInv
<1>2. index <= Len(text) /\ refusal = <<>> /\ IsQuote(RuneAt(text, index))
  BY DEF String, Meets, Reading, Rune
<1>3. text \in Seq(STRING) /\ index \in 1 .. Len(text) /\ index \in Nat \ {0}
  BY <1>1, <1>2, AtIndex
<1>4. text[index] = "\""
  <2>1. RuneAt(text, index) \in Runes({"\""}) /\ {} \subseteq Leads
    BY <1>2 DEF Runes, IsQuote
  <2>2. text[index] \in {"\""}
    BY <1>3, <2>1, RuneOf
  <2> QED BY <2>2
<1> PICK escaped : escaped = Escaped(text, index)
  OBVIOUS
<1> PICK stop : stop = StringStop(text, index, escaped)
  OBVIOUS
<1> PICK e : e = StringEnd(text, stop, escaped)
  OBVIOUS
<1> PICK value : value = StringText(text, index, e, escaped)
  OBVIOUS
<1>5. /\ e # NoToken /\ index' = e /\ column' = column + (e - index) /\ line' = line
      /\ text' = text /\ refusal' = refusal
      /\ tokens' = Append(tokens, NewToken("string", value, e))
  BY DEF String, EmitString, Closed, Emit, MoveTo
<1>6. /\ stop \in index + 1 .. Len(text) /\ text[stop] = "\"" /\ e = stop + 1
      /\ \A k \in index + 1 .. stop - 1 : text[k] \notin LineEnds
  BY <1>3, <1>5, StringEndIs
<1> PICK i \in 1 .. Len(text) : i = index
  BY <1>3
<1>9. stop \in i + 1 .. Len(text) /\ e = stop + 1 /\ Len(text) \in Nat
  <2>1. stop \in index + 1 .. Len(text)
    BY <1>6
  <2>2. e = stop + 1
    BY <1>6
  <2>3. Len(text) \in Nat
    BY <1>3
  <2> QED BY <2>1, <2>2, <2>3
<1>7. ReadsTo /\ NoWordRead
  <2>1. e \in i .. Len(text) + 1
    BY <1>9
  <2>2. e \in index .. Len(text) + 1
    BY <2>1
  <2> QED BY <1>5, <2>2 DEF ReadsTo, NoWordRead
<1>8. ASSUME NEW k \in index .. e - 1 PROVE ~ EndsLine(text, k)
  <2>1. k \in 1 .. Len(text) /\ (k = index \/ k = stop \/ k \in index + 1 .. stop - 1)
    <3>1. k \in i .. e - 1
      OBVIOUS
    <3>2. k \in 1 .. Len(text) /\ (k = i \/ k = stop \/ k \in i + 1 .. stop - 1)
      BY <1>9, <3>1
    <3> QED BY <3>2
  <2>2. text[k] \notin LineEnds
    BY <1>4, <1>6, <2>1 DEF LineEnds
  <2> QED BY <1>3, <2>1, <2>2, LineEndBytes
<1> QED BY <1>2, <1>5, <1>7, <1>8, LexStepBytes

LEMMA BlockCommentStep ==
  ASSUME LexInv, BlockComment PROVE LexInv'
<1>1. LexType /\ PositionTrue(text, tokens, index, line, column)
  BY DEF LexInv
<1>2. /\ text \in Seq(STRING) /\ index \in 1 .. Len(text) + 1
      /\ line \in Int /\ column \in Int /\ EndBefore(tokens, index)
  BY <1>1 DEF LexType
<1> PICK m : m = Min(Closings)
  OBVIOUS
<1> PICK ended : ended = LinesEnded(text, index, m)
  OBVIOUS
<1>3. /\ Closings # {} /\ refusal = <<>> /\ PassComment(m + 2, ended)
      /\ text' = text /\ tokens' = tokens /\ refusal' = refusal
  BY DEF BlockComment, Reading
<1>4. m \in index + 2 .. Len(text) - 1 /\ text[m] = "*" /\ text[m + 1] = "/"
  <2>1. Closings \subseteq Nat
    BY <1>2 DEF Closings
  <2>2. m \in Closings
    BY <1>3, <2>1, MinIs
  <2> QED BY <2>2 DEF Closings
<1>5. /\ index \in Nat \ {0} /\ Len(text) \in Nat /\ m + 2 \in Nat /\ index <= m + 2
      /\ m + 2 \in index .. Len(text) + 1 /\ m \in 1 .. Len(text) /\ m + 1 \in 1 .. Len(text)
  BY <1>2, <1>4
<1>6. ended = {k \in index .. (m + 2) - 1 : EndsLine(text, k)}
  <2>1. ~ EndsLine(text, m) /\ ~ EndsLine(text, m + 1)
    BY <1>4 DEF EndsLine
  <2>2. ASSUME NEW k \in index .. m - 1
        PROVE  EndsLine(text, k) <=>
                 text[k] \in LineEnds /\ ~(text[k] = "\r" /\ At(text, k + 1) = "\n")
    <3>1. k + 1 \in 1 .. Len(text) /\ k < Len(text)
      BY <1>4, <1>5
    <3>2. At(text, k + 1) = text[k + 1]
      BY <1>2, <3>1, AtInside
    <3> QED BY <3>1, <3>2 DEF EndsLine, LineEnds
  <2>3. \A k : k \in index .. (m + 2) - 1 <=> k \in index .. m - 1 \/ k = m \/ k = m + 1
    <3> PICK i \in Nat : i = index
      BY <1>5
    <3>1. m \in Nat /\ i + 2 <= m
      BY <1>4, <1>5
    <3>2. \A k : k \in i .. (m + 2) - 1 <=> k \in i .. m - 1 \/ k = m \/ k = m + 1
      BY <3>1
    <3> QED BY <3>2
  <2> QED BY <2>1, <2>2, <2>3 DEF LinesEnded
<1>7. /\ index' = m + 2 /\ line' = line + Cardinality(ended)
      /\ column' = IF ended = {} THEN column + ((m + 2) - index) ELSE (m + 2) - Max(ended)
  BY <1>3 DEF PassComment
<1>8. ReadsTo /\ NoWordRead
  BY <1>3, <1>5, <1>7 DEF ReadsTo, NoWordRead
<1>9. CASE ended = {}
  <2>1. \A k \in index .. index' - 1 : ~ EndsLine(text, k)
    BY <1>6, <1>7, <1>9
  <2>2. Cardinality(ended) = 0
    BY <1>9, FS_EmptySet
  <2>3. line' = line /\ column' = column + (index' - index)
    BY <1>2, <1>7, <1>9, <2>2
  <2> QED BY <1>3, <1>8, <2>1, <2>3, LexStepBytes
<1>10. CASE ended # {}
  <2>1. PositionTrue(text, tokens, m + 2, line + Cardinality(ended), (m + 2) - Max(ended))
    BY <1>1, <1>2, <1>5, <1>6, <1>10, MoveOverLines
  <2>2. Cardinality(ended) \in Nat /\ Max(ended) \in Nat
    <3>1. ended \subseteq index .. (m + 2) - 1
      BY <1>6
    <3>2. index \in Int /\ (m + 2) - 1 \in Int
      BY <1>5
    <3>3. ended \subseteq 0 .. m + 2
      BY <1>5, <3>1
    <3>4. Cardinality(ended) \in Nat
      BY <3>1, <3>2, CountSome
    <3>5. Max(ended) \in ended
      BY <1>5, <1>10, <3>3, MaxIs
    <3>6. Max(ended) \in Nat
      BY <1>5, <3>3, <3>5
    <3> QED BY <3>4, <3>6
  <2>3. line' \in Int /\ column' \in Int
    <3> PICK a : a = Cardinality(ended)
      OBVIOUS
    <3> PICK b : b = Max(ended)
      OBVIOUS
    <3>1. a \in Nat /\ b \in Nat /\ line' = line + a /\ column' = (m + 2) - b
      BY <1>7, <1>10, <2>2
    <3>2. line + a \in Int
      BY <1>2, <3>1
    <3>3. (m + 2) - b \in Int
      BY <1>5, <3>1
    <3> QED BY <3>1, <3>2, <3>3
  <2>4. PositionTrue(text, tokens', index', line', column')
    <3>1. /\ tokens' = tokens /\ index' = m + 2 /\ line' = line + Cardinality(ended)
          /\ column' = (m + 2) - Max(ended)
      BY <1>3, <1>7, <1>10
    <3> QED BY <2>1, <3>1
  <2> QED BY <1>3, <1>8, <2>3, <2>4, LexStep
<1> QED BY <1>9, <1>10

LEMMA EndOfTextStep ==
  ASSUME LexInv, EndOfText PROVE LexInv'
<1>1. /\ refusal = <<>> /\ index' = index /\ line' = line /\ column' = column
      /\ text' = text /\ refusal' = refusal
      /\ tokens' = Append(tokens, NewToken("EOF", "", index))
  BY DEF EndOfText, Reading, Emit
<1>2. index \in 1 .. Len(text) + 1 /\ Len(text) \in Nat /\ column \in Int
  BY DEF LexInv, LexType
<1>3. /\ index' \in index .. Len(text) + 1 /\ column' = column + (index' - index)
      /\ index .. index' - 1 = {}
  <2> PICK i \in 1 .. Len(text) + 1 : i = index
    BY <1>2
  <2>1. i \in i .. Len(text) + 1 /\ i - i = 0 /\ i .. i - 1 = {}
    BY <1>2
  <2>2. column + 0 = column
    BY <1>2
  <2>3. index' = i /\ column' = column
    BY <1>1
  <2> QED BY <2>1, <2>2, <2>3
<1>4. ReadsTo /\ NoWordRead
  BY <1>1, <1>3 DEF ReadsTo, NoWordRead
<1> QED BY <1>1, <1>3, <1>4, LexStepBytes

LEMMA RefuseStep ==
  ASSUME LexInv, NEW what, Refuse(what) PROVE LexInv'
<1>1. /\ refusal' = <<what, line, column>> /\ text' = text /\ index' = index
      /\ line' = line /\ column' = column /\ tokens' = tokens
  BY DEF Refuse
<1>2. LexType'
  BY <1>1 DEF LexInv, LexType
<1>3. PositionTrue(text, tokens, index, line, column)' /\ refusal'[2] = line /\ refusal'[3] = column
  BY <1>1 DEF LexInv
<1>4. PositionsTrue'
  BY <1>1, <1>3 DEF LexInv, PositionsTrue
<1> QED BY <1>2, <1>3, <1>4 DEF LexInv

LEMMA LexInitially == Init => LexInv
<1> SUFFICES ASSUME Init PROVE LexInv
  OBVIOUS
<1>1. /\ text \in Seq(STRING) /\ index = 1 /\ line = 1 /\ column = 1
      /\ tokens = <<>> /\ refusal = <<>>
  BY TextsAssumption DEF Init
<1>2. DOMAIN tokens = {} /\ tokens \in Seq(Range(tokens))
  BY <1>1, EmptyRange
<1>3. LexType
  BY <1>1, <1>2 DEF LexType, EndBefore
<1>4. PositionsTrue
  BY <1>1, <1>2 DEF PositionsTrue
<1>5. PositionTrue(text, tokens, 1, 1, 1)
  <2>1. LineEndsBefore(text, 1) = {}
    BY DEF LineEndsBefore
  <2>2. LineStart(text, 1) = 1
    BY <2>1, LineStartIs
  <2>3. InsideRunes(text, 1) = {}
    BY <2>2 DEF InsideRunes
  <2>4. Cardinality({}) = 0
    BY FS_EmptySet
  <2> QED BY <2>1, <2>2, <2>3, <2>4 DEF PositionTrue
<1> QED BY <1>1, <1>3, <1>4, <1>5 DEF LexInv

LEMMA LexPreserved == LexInv /\ [Next]_vars => LexInv'
<1> SUFFICES ASSUME LexInv, [Next]_vars PROVE LexInv'
  OBVIOUS
<1>1. CASE NewlineToken BY <1>1, NewlineStep
<1>2. CASE Blank BY <1>2, BlankStep
<1>3. CASE LineComment BY <1>3, LineCommentStep
<1>4. CASE BlockComment BY <1>4, BlockCommentStep
<1>5. CASE UnterminatedComment BY <1>5, RefuseStep DEF UnterminatedComment
<1>6. CASE Identifier BY <1>6, IdentifierStep
<1>7. CASE Number BY <1>7, NumberStep
<1>8. CASE InvalidNumber BY <1>8, RefuseStep DEF InvalidNumber
<1>9. CASE String BY <1>9, StringStep
<1>10. CASE InvalidString BY <1>10, RefuseStep DEF InvalidString
<1>11. CASE Operator BY <1>11, OperatorStep
<1>12. CASE Delimiter BY <1>12, DelimiterStep
<1>13. CASE Unrecognized BY <1>13, RefuseStep DEF Unrecognized
<1>14. CASE EndOfText BY <1>14, EndOfTextStep
<1>15. CASE UNCHANGED vars
  BY <1>15 DEF vars, LexInv, LexType, PositionsTrue
<1> QED
  BY <1>1, <1>2, <1>3, <1>4, <1>5, <1>6, <1>7, <1>8, <1>9, <1>10, <1>11, <1>12, <1>13, <1>14,
     <1>15 DEF Next

(***************************************************************************)
(* Every token and every error is on the line and at the column it says,   *)
(* in any text.                                                            *)
(***************************************************************************)
THEOREM TokensInPlace == Spec => []PositionsTrue
<1>1. LexInv => PositionsTrue
  BY DEF LexInv
<1> QED BY <1>1, LexInitially, LexPreserved, PTL DEF Spec


-----------------------------------------------------------------------------
(***************************************************************************)
(* String literals: what their bytes stand for.                            *)
(***************************************************************************)

\* A function that is defined from i on, each value by the one before.
HasSteps(T, i, n, x, F) ==
  \E f \in [i .. n -> T] : f[i] = x /\ \A k \in i + 1 .. n : f[k] = F[<<k, f[k - 1]>>]
LEMMA StepsExist ==
  ASSUME NEW T, NEW i \in Nat, NEW n \in Nat, i <= n, NEW x \in T,
         NEW F \in [(i + 1 .. n) \X T -> T]
  PROVE  HasSteps(T, i, n, x, F)
<1> DEFINE N == n - i
           G == [p \in (1 .. N) \X T |-> F[<<p[1] + i, p[2]>>]]
<1>1. N \in Nat
  OBVIOUS
<1>2. G \in [(1 .. N) \X T -> T]
  <2>1. ASSUME NEW k \in 1 .. N, NEW y \in T PROVE F[<<k + i, y>>] \in T
    <3>1. k + i \in i + 1 .. n
      OBVIOUS
    <3>2. <<k + i, y>> \in (i + 1 .. n) \X T
      BY <3>1
    <3> QED BY <3>2
  <2> HIDE DEF N
  <2> QED BY <2>1
<1>3. PICK g \in [0 .. N -> T] : g[0] = x /\ \A k \in 1 .. N : g[k] = G[<<k, g[k - 1]>>]
  <2> HIDE DEF N, G
  <2>1. HasIteration(T, N, x, G)
    BY <1>1, <1>2, IterationExists
  <2> QED BY <2>1 DEF HasIteration, IsIteration
<1> DEFINE f == [k \in i .. n |-> g[k - i]]
<1>4. f \in [i .. n -> T] /\ f[i] = x
  <2>1. \A k \in i .. n : k - i \in 0 .. N
    OBVIOUS
  <2>2. i \in i .. n /\ i - i = 0
    OBVIOUS
  <2> HIDE DEF N
  <2> QED BY <1>3, <2>1, <2>2
<1>5. ASSUME NEW k \in i + 1 .. n PROVE f[k] = F[<<k, f[k - 1]>>]
  <2>1. /\ k \in i .. n /\ k - 1 \in i .. n /\ k - i \in 1 .. N /\ (k - 1) - i = (k - i) - 1
        /\ (k - i) - 1 \in 0 .. N /\ (k - i) + i = k
    OBVIOUS
  <2>2. f[k] = g[k - i] /\ f[k - 1] = g[(k - i) - 1]
    BY <2>1
  <2>3. g[(k - i) - 1] \in T
    <3> HIDE DEF N
    <3> QED BY <1>3, <2>1
  <2>4. G[<<k - i, g[(k - i) - 1]>>] = F[<<k, g[(k - i) - 1]>>]
    <3> DEFINE a == k - i
               b == g[(k - i) - 1]
    <3>1. a \in 1 .. N /\ b \in T /\ a + i = k
      BY <2>1, <2>3
    <3> HIDE DEF a, b, N
    <3>2. G[<<a, b>>] = F[<<a + i, b>>]
      BY <3>1
    <3> QED BY <3>1, <3>2 DEF a, b
  <2> HIDE DEF N, G, f
  <2> QED BY <1>3, <2>1, <2>2, <2>4
<1> HIDE DEF f
<1> QED BY <1>4, <1>5 DEF HasSteps

\* What a backslash escapes: what follows it, if nothing escapes it.
EscapesFrom(t, i, f) ==
  f = [k \in i .. Len(t) |-> k > i + 1 /\ t[k - 1] = "\\" /\ ~ f[k - 1]]

LEMMA EscapedExists ==
  ASSUME NEW t \in Seq(STRING), NEW i \in 1 .. Len(t)
  PROVE  \E f : EscapesFrom(t, i, f)
<1> DEFINE n == Len(t)
           T == {0, 1}
           F == [p \in (i + 1 .. n) \X T |->
                   IF p[1] > i + 1 /\ t[p[1] - 1] = "\\" /\ p[2] # 1 THEN 1 ELSE 0]
<1>1. i \in Nat /\ n \in Nat /\ i <= n
  OBVIOUS
<1> HIDE DEF n
<1>2. F \in [(i + 1 .. n) \X T -> T]
  OBVIOUS
<1>3. HasSteps(T, i, n, 0, F)
  <2> HIDE DEF F
  <2>1. 0 \in T
    OBVIOUS
  <2> HIDE DEF T
  <2> QED BY <1>1, <1>2, <2>1, StepsExist
<1>4. PICK g \in [i .. n -> T] :
        g[i] = 0 /\ \A k \in i + 1 .. n : g[k] = F[<<k, g[k - 1]>>]
  <2> HIDE DEF T, F
  <2> QED BY <1>3 DEF HasSteps
<1>5. ASSUME NEW k \in i .. n
      PROVE  g[k] = 1 <=> k > i + 1 /\ t[k - 1] = "\\" /\ ~(g[k - 1] = 1)
  <2>1. CASE k = i
    BY <1>1, <1>4, <2>1
  <2>2. CASE k # i
    <3>1. k \in i + 1 .. n /\ k - 1 \in i .. n
      BY <1>1, <2>2
    <3>2. g[k - 1] \in T
      BY <3>1
    <3>3. F[<<k, g[k - 1]>>] = IF k > i + 1 /\ t[k - 1] = "\\" /\ g[k - 1] # 1 THEN 1 ELSE 0
      <4> PICK b : b = g[k - 1]
        OBVIOUS
      <4>1. F[<<k, b>>] = IF k > i + 1 /\ t[k - 1] = "\\" /\ b # 1 THEN 1 ELSE 0
        BY <3>1, <3>2
      <4> QED BY <4>1
    <3> HIDE DEF F
    <3> QED BY <1>4, <3>1, <3>3
  <2> QED BY <2>1, <2>2
<1> DEFINE f == [k \in i .. n |-> g[k] = 1]
<1>6. ASSUME NEW k \in i .. n
      PROVE  f[k] = (k > i + 1 /\ t[k - 1] = "\\" /\ ~ f[k - 1])
  <2>1. f[k] = (g[k] = 1)
    OBVIOUS
  <2>2. k > i + 1 => k - 1 \in i .. n
    BY <1>1
  <2>3. k > i + 1 => f[k - 1] = (g[k - 1] = 1)
    BY <2>2
  <2> HIDE DEF f
  <2>4. g[k] = 1 <=> k > i + 1 /\ t[k - 1] = "\\" /\ ~ f[k - 1]
    BY <1>5, <2>3
  <2> QED BY <2>1, <2>4
<1>7. f = [k \in i .. n |-> k > i + 1 /\ t[k - 1] = "\\" /\ ~ f[k - 1]]
  <2>1. f = [k \in i .. n |-> f[k]]
    OBVIOUS
  <2> HIDE DEF f
  <2> QED BY <1>6, <2>1
<1> QED BY <1>7 DEF EscapesFrom, n

LEMMA EscapedIs ==
  ASSUME NEW t \in Seq(STRING), NEW i \in 1 .. Len(t)
  PROVE  /\ Escaped(t, i) \subseteq i .. Len(t)
         /\ \A k \in i .. Len(t) :
              k \in Escaped(t, i) <=>
                k > i + 1 /\ t[k - 1] = "\\" /\ k - 1 \notin Escaped(t, i)
<1> PICK g : g = CHOOSE f : EscapesFrom(t, i, f)
  OBVIOUS
<1>1. EscapesFrom(t, i, g)
  BY EscapedExists
<1>2. Escaped(t, i) = {k \in i .. Len(t) : g[k]}
  BY DEF Escaped, EscapesFrom
<1>3. \A k \in i .. Len(t) : g[k] = (k > i + 1 /\ t[k - 1] = "\\" /\ ~ g[k - 1])
  <2> PICK n : n = Len(t)
    OBVIOUS
  <2>1. g = [k \in i .. n |-> k > i + 1 /\ t[k - 1] = "\\" /\ ~ g[k - 1]]
    BY <1>1 DEF EscapesFrom
  <2> QED BY <2>1
<1>4. \A k \in i .. Len(t) : k > i + 1 => k - 1 \in i .. Len(t)
  OBVIOUS
<1> QED BY <1>2, <1>3, <1>4


\* The text a literal stands for, as far as it has been read.
DecodesTo(t, i, last, escaped, f) ==
  f = [k \in i .. last |->
         IF k = i THEN <<>>
         ELSE IF k \in escaped THEN Append(f[k - 1], Escapes[t[k]])
         ELSE IF t[k] = "\\" THEN f[k - 1] ELSE Append(f[k - 1], t[k])]

LEMMA DecodedExists ==
  ASSUME NEW S, EscapeBytes \cup Range(Escapes) \subseteq S, NEW t \in Seq(S),
         NEW i \in 1 .. Len(t), NEW last \in i .. Len(t), NEW escaped,
         \A k \in i + 1 .. last : k \in escaped => t[k] \in EscapeBytes
  PROVE  \E f \in [i .. last -> Seq(S)] : DecodesTo(t, i, last, escaped, f)
<1> DEFINE T == Seq(S)
           Next1(k, s) == IF k \in escaped THEN Append(s, Escapes[t[k]])
                          ELSE IF t[k] = "\\" THEN s ELSE Append(s, t[k])
           F == [p \in (i + 1 .. last) \X T |-> Next1(p[1], p[2])]
<1>1. i \in Nat /\ last \in Nat /\ i <= last /\ Len(t) \in Nat
  OBVIOUS
<1>2. ASSUME NEW k \in i + 1 .. last, NEW s \in T PROVE Next1(k, s) \in T
  <2>1. t[k] \in S
    OBVIOUS
  <2>2. k \in escaped => Escapes[t[k]] \in S
    BY EscapesAre DEF Range
  <2>3. \A byte \in S : Append(s, byte) \in T
    OBVIOUS
  <2> HIDE DEF T
  <2> QED BY <2>1, <2>2, <2>3
<1>3. F \in [(i + 1 .. last) \X T -> T]
  <2> HIDE DEF T, Next1
  <2> QED BY <1>2
<1>4. HasSteps(T, i, last, <<>>, F)
  <2>1. <<>> \in T
    OBVIOUS
  <2> HIDE DEF T, F
  <2> QED BY <1>1, <1>3, <2>1, StepsExist
<1>5. PICK f \in [i .. last -> T] :
        f[i] = <<>> /\ \A k \in i + 1 .. last : f[k] = F[<<k, f[k - 1]>>]
  <2> HIDE DEF T, F
  <2> QED BY <1>4 DEF HasSteps
<1>6. ASSUME NEW k \in i .. last
      PROVE  f[k] = IF k = i THEN <<>> ELSE Next1(k, f[k - 1])
  <2>1. CASE k = i
    BY <1>5, <2>1
  <2>2. CASE k # i
    <3>1. k \in i + 1 .. last /\ k - 1 \in i .. last
      BY <1>1, <2>2
    <3>2. PICK s \in T : s = f[k - 1]
      BY <3>1
    <3>3. F[<<k, s>>] = Next1(k, s)
      <4> HIDE DEF T, Next1
      <4> QED BY <3>1, <3>2
    <3> HIDE DEF F, T, Next1
    <3> QED BY <1>5, <2>2, <3>1, <3>2, <3>3
  <2> QED BY <2>1, <2>2
<1>7. f = [k \in i .. last |-> IF k = i THEN <<>> ELSE Next1(k, f[k - 1])]
  <2> HIDE DEF Next1
  <2> QED BY <1>6
<1> QED BY <1>7 DEF DecodesTo

\* One byte more, written as it is or escaped.
LEMMA EscapesBack ==
  ASSUME NEW byte \in EscapeBytes
  PROVE  /\ Escapes[byte] \in Range(Escapes)
         /\ Written(Escapes[byte], TRUE) = <<"\\", byte>>
<1>1. \A other \in EscapeBytes : Escapes[other] = Escapes[byte] => other = byte
  BY EscapesAre DEF EscapeBytes
<1>2. (CHOOSE escape \in DOMAIN Escapes : Escapes[escape] = Escapes[byte]) = byte
  BY <1>1, EscapesAre
<1>3. Written(Escapes[byte], TRUE) = <<"\\", byte>>
  BY <1>2 DEF Written
<1>4. Escapes[byte] \in Range(Escapes)
  BY EscapesAre DEF Range
<1> QED BY <1>3, <1>4

SpellsWith(bytes, value, escaped) ==
  /\ escaped \in SUBSET DOMAIN value
  /\ \A k \in DOMAIN value : IF k \in escaped THEN value[k] \in Range(Escapes)
                              ELSE value[k] \notin MustEscape
  /\ bytes = FlattenSeq([k \in DOMAIN value |-> Written(value[k], k \in escaped)])

LEMMA SpellsAppend ==
  ASSUME NEW S, EscapeBytes \subseteq S, NEW bytes, NEW value \in Seq(S),
         Spells(bytes, value), NEW byte \in S, NEW isEscaped \in BOOLEAN,
         IF isEscaped THEN byte \in Range(Escapes) ELSE byte \notin MustEscape
  PROVE  Spells(bytes \o Written(byte, isEscaped), Append(value, byte))
<1>1. PICK escaped : SpellsWith(bytes, value, escaped)
  BY DEF Spells, SpellsWith
<1> DEFINE n == Len(value)
           new == Append(value, byte)
           E == IF isEscaped THEN escaped \cup {n + 1} ELSE escaped
           w(v, some) == [k \in DOMAIN v |-> Written(v[k], k \in some)]
<1>2. /\ n \in Nat /\ DOMAIN value = 1 .. n /\ DOMAIN new = 1 .. n + 1
      /\ \A k \in 1 .. n : new[k] = value[k] /\ value[k] \in S
      /\ new[n + 1] = byte /\ n + 1 \notin 1 .. n
  OBVIOUS
<1>3. /\ escaped \subseteq 1 .. n
      /\ \A k \in 1 .. n : IF k \in escaped THEN value[k] \in Range(Escapes)
                           ELSE value[k] \notin MustEscape
      /\ bytes = FlattenSeq(w(value, escaped))
  BY <1>1, <1>2 DEF SpellsWith
<1>4. \A v \in S : \A b \in BOOLEAN :
        (b => v \in Range(Escapes)) => Written(v, b) \in Seq(S)
  <2>1. ASSUME NEW v \in S PROVE Written(v, FALSE) \in Seq(S)
    BY DEF Written
  <2>2. ASSUME NEW v \in Range(Escapes) PROVE Written(v, TRUE) \in Seq(S)
    <3>1. PICK e \in EscapeBytes : v = Escapes[e]
      BY EscapesAre DEF Range
    <3>2. Written(v, TRUE) = <<"\\", e>>
      BY <3>1, EscapesBack
    <3>3. e \in S /\ "\\" \in S
      BY DEF EscapeBytes
    <3>4. PICK a \in S : a = "\\"
      BY <3>3
    <3>5. <<a, e>> \in Seq(S)
      BY <3>3, <3>4
    <3> QED BY <3>2, <3>4, <3>5
  <2> QED BY <2>1, <2>2
<1> HIDE DEF n, new
<1>5. /\ E \subseteq 1 .. n + 1 /\ \A k \in 1 .. n : k \in E <=> k \in escaped
      /\ n + 1 \in E <=> isEscaped
  BY <1>2, <1>3
<1>6. \A k \in 1 .. n + 1 : IF k \in E THEN new[k] \in Range(Escapes)
                            ELSE new[k] \notin MustEscape
  <2>1. \A k \in 1 .. n + 1 : k \in 1 .. n \/ k = n + 1
    BY <1>2
  <2> HIDE DEF E
  <2> QED BY <1>2, <1>3, <1>5, <2>1
<1> HIDE DEF E
<1>7. w(value, escaped) \in Seq(Seq(S)) /\ Written(byte, isEscaped) \in Seq(S)
  <2>1. ASSUME NEW k \in 1 .. n PROVE Written(value[k], k \in escaped) \in Seq(S)
    <3>1. value[k] \in S
      BY <1>2
    <3>2. CASE k \in escaped
      <4>1. value[k] \in Range(Escapes)
        BY <1>3, <3>2
      <4>2. Written(value[k], TRUE) \in Seq(S)
        BY <1>4, <3>1, <4>1
      <4>3. Written(value[k], k \in escaped) = Written(value[k], TRUE)
        BY <3>2 DEF Written
      <4> QED BY <4>2, <4>3
    <3>3. CASE k \notin escaped
      <4>1. Written(value[k], FALSE) \in Seq(S)
        BY <1>4, <3>1
      <4>2. Written(value[k], k \in escaped) = Written(value[k], FALSE)
        BY <3>3 DEF Written
      <4> QED BY <4>1, <4>2
    <3> QED BY <3>2, <3>3
  <2>2. w(value, escaped) = [k \in 1 .. n |-> Written(value[k], k \in escaped)]
    BY <1>2
  <2>3. [k \in 1 .. n |-> Written(value[k], k \in escaped)] \in Seq(Seq(S))
    <3> DEFINE u(k) == Written(value[k], k \in escaped)
    <3>1. \A k \in 1 .. n : u(k) \in Seq(S)
      BY <2>1
    <3> HIDE DEF u
    <3>2. [k \in 1 .. n |-> u(k)] \in Seq(Seq(S))
      BY <1>2, <3>1
    <3> QED BY <3>2 DEF u
  <2> QED BY <1>4, <2>2, <2>3
<1>8. w(new, E) = Append(w(value, escaped), Written(byte, isEscaped))
  <2> DEFINE a == w(new, E)
             b == Append(w(value, escaped), Written(byte, isEscaped))
  <2>1. DOMAIN b = 1 .. n + 1 /\ b = [k \in 1 .. n + 1 |-> b[k]]
        /\ b[n + 1] = Written(byte, isEscaped)
        /\ \A k \in 1 .. n : b[k] = w(value, escaped)[k]
    <3> PICK s \in Seq(Seq(S)) : s = w(value, escaped)
      BY <1>7
    <3>1. DOMAIN s = 1 .. n
      BY <1>2
    <3>2. Len(s) = n
      BY <1>2, <3>1
    <3> PICK x \in Seq(S) : x = Written(byte, isEscaped)
      BY <1>7
    <3>3. /\ DOMAIN Append(s, x) = 1 .. n + 1 /\ Append(s, x)[n + 1] = x
          /\ \A k \in 1 .. n : Append(s, x)[k] = s[k]
          /\ Append(s, x) = [k \in 1 .. n + 1 |-> Append(s, x)[k]]
      BY <1>2, <3>2
    <3>4. b = Append(s, x)
      OBVIOUS
    <3> HIDE DEF w, b
    <3> QED BY <3>3, <3>4
  <2>2. a = [k \in 1 .. n + 1 |-> Written(new[k], k \in E)]
    BY <1>2
  <2>3. \A k \in 1 .. n : b[k] = Written(value[k], k \in escaped)
    BY <1>2, <2>1
  <2> HIDE DEF b, w, a
  <2>4. ASSUME NEW k \in 1 .. n + 1 PROVE Written(new[k], k \in E) = b[k]
    <3>1. CASE k \in 1 .. n
      BY <1>2, <1>5, <2>3, <3>1 DEF Written
    <3>2. CASE k = n + 1
      BY <1>2, <1>5, <2>1, <3>2 DEF Written
    <3> QED BY <1>2, <3>1, <3>2
  <2>5. a = b
    BY <2>1, <2>2, <2>4
  <2> QED BY <2>5 DEF a, b
<1> HIDE DEF w
<1>9. FlattenSeq(w(new, E)) = bytes \o Written(byte, isEscaped)
  BY <1>3, <1>7, <1>8, FlattenAppend
<1>10. SpellsWith(bytes \o Written(byte, isEscaped), new, E)
  BY <1>2, <1>5, <1>6, <1>9 DEF SpellsWith, w
<1> QED BY <1>10 DEF Spells, SpellsWith, new


\* Bytes that follow some bytes.
LEMMA BytesMore ==
  ASSUME NEW S, NEW t \in Seq(S), NEW a \in Nat, NEW k \in Nat, a <= k, k < Len(t)
  PROVE  SubSeq(t, a + 1, k + 1) = SubSeq(t, a + 1, k) \o <<t[k + 1]>>
<1> DEFINE s == SubSeq(t, a + 1, k)
           u == SubSeq(t, a + 1, k + 1)
           x == t[k + 1]
<1>1. /\ s \in Seq(S) /\ Len(s) = k - a /\ \A j \in 1 .. k - a : s[j] = t[a + j]
  BY SubSeqIs
<1>2. /\ k + 1 \in Nat /\ a <= k + 1 /\ k + 1 <= Len(t) /\ (k + 1) - a = (k - a) + 1
      /\ k - a \in Nat /\ a + ((k - a) + 1) = k + 1
  OBVIOUS
<1>3. /\ u \in Seq(S) /\ Len(u) = (k - a) + 1
      /\ \A j \in 1 .. (k - a) + 1 : u[j] = t[a + j]
  <2>1. /\ u \in Seq(S) /\ Len(u) = (k + 1) - a
        /\ \A j \in 1 .. (k + 1) - a : u[j] = t[a + j]
    BY <1>2, SubSeqIs
  <2> HIDE DEF u
  <2> QED BY <1>2, <2>1
<1>4. x \in S
  BY <1>2
<1>6. \A j \in Nat : k - a = j => (k - a) + 1 = j + 1 /\ a + (j + 1) = k + 1 /\ j + 1 \in 1 .. j + 1
  BY <1>2
<1> HIDE DEF s, u
<1>5. u = s \o <<x>>
  <2> PICK n \in Nat : n = k - a
    BY <1>2
  <2>1. u[n + 1] = x
    BY <1>3, <1>6
  <2>2. \A j \in 1 .. n : u[j] = s[j]
    <3> TAKE j \in 1 .. n
    <3>1. j \in 1 .. k - a /\ j \in 1 .. (k - a) + 1
      BY <1>2
    <3> QED BY <1>1, <1>3, <3>1
  <2>3. u \in Seq(S) /\ s \in Seq(S) /\ Len(u) = n + 1 /\ Len(s) = n
    BY <1>1, <1>3
  <2> HIDE DEF x
  <2> QED BY <1>4, <2>1, <2>2, <2>3
<1> QED BY <1>5 DEF s, u, x

LEMMA TwoMore ==
  ASSUME NEW S, NEW s \in Seq(S), NEW a \in S, NEW b \in S
  PROVE  (s \o <<a>>) \o <<b>> = s \o <<a, b>>
<1> PICK n \in Nat : n = Len(s)
  OBVIOUS
<1> PICK u : u = s \o <<a>>
  OBVIOUS
<1> PICK x : x = u \o <<b>>
  OBVIOUS
<1> PICK y : y = s \o <<a, b>>
  OBVIOUS
<1>1. /\ u \in Seq(S) /\ Len(u) = n + 1 /\ u[n + 1] = a
      /\ \A j \in 1 .. n : u[j] = s[j]
  OBVIOUS
<1>2. /\ x \in Seq(S) /\ Len(x) = (n + 1) + 1 /\ x[(n + 1) + 1] = b
      /\ \A j \in 1 .. n + 1 : x[j] = u[j]
  BY <1>1
<1>3. /\ y \in Seq(S) /\ Len(y) = n + 2 /\ y[n + 1] = a /\ y[n + 2] = b
      /\ \A j \in 1 .. n : y[j] = s[j]
  OBVIOUS
<1>4. \A j \in 1 .. n + 2 : x[j] = y[j]
  <2>1. \A j \in 1 .. n + 2 : j \in 1 .. n \/ j = n + 1 \/ j = n + 2
    OBVIOUS
  <2>2. n + 1 \in 1 .. n + 1 /\ (n + 1) + 1 = n + 2 /\ \A j \in 1 .. n : j \in 1 .. n + 1
    OBVIOUS
  <2> QED BY <1>1, <1>2, <1>3, <2>1, <2>2
<1>5. x = y
  <2>1. (n + 1) + 1 = n + 2
    OBVIOUS
  <2>2. PICK m \in Nat : m = n + 2
    OBVIOUS
  <2>3. Len(x) = m /\ Len(y) = m /\ x \in Seq(S) /\ y \in Seq(S)
    BY <1>2, <1>3, <2>1, <2>2
  <2>4. x = [j \in 1 .. m |-> x[j]] /\ y = [j \in 1 .. m |-> y[j]]
    BY <2>2, <2>3
  <2>5. \A j \in 1 .. m : x[j] = y[j]
    BY <1>4, <2>2
  <2> QED BY <2>4, <2>5
<1> QED BY <1>5

LEMMA NothingSpells == Spells(<<>>, <<>>)
<1>1. [k \in DOMAIN <<>> |-> Written(<<>>[k], k \in {})] = <<>>
  OBVIOUS
<1>2. SpellsWith(<<>>, <<>>, {})
  BY <1>1, FlattenEmpty DEF SpellsWith
<1> QED BY <1>2 DEF Spells, SpellsWith

EscapedRight(t, i, escaped) ==
  \A k \in i .. Len(t) :
    k \in escaped <=> k > i + 1 /\ t[k - 1] = "\\" /\ k - 1 \notin escaped
LiteralTo(t, i, last, escaped) ==
  \A k \in i + 1 .. last :
    IF k \in escaped THEN t[k] \in EscapeBytes ELSE t[k] \notin {"\""} \cup LineEnds
\* A backslash that escapes what follows it.
Lone(t, i, escaped, k) == k > i /\ t[k] = "\\" /\ k \notin escaped
\* What has been read, but for such a backslash, is spelled by what it stands for.
SpelledTo(t, i, escaped, f, k) ==
  Spells(SubSeq(t, i + 1, IF Lone(t, i, escaped, k) THEN k - 1 ELSE k), f[k])

LEMMA DecodedSpells ==
  ASSUME NEW S, EscapeBytes \cup Range(Escapes) \subseteq S, NEW t \in Seq(S),
         NEW i \in 1 .. Len(t), NEW last \in i .. Len(t), NEW escaped,
         EscapedRight(t, i, escaped), LiteralTo(t, i, last, escaped),
         ~ Lone(t, i, escaped, last),
         NEW f \in [i .. last -> Seq(S)], DecodesTo(t, i, last, escaped, f)
  PROVE  Spells(SubSeq(t, i + 1, last), f[last])
<1> PICK length \in Nat : length = Len(t)
  OBVIOUS
<1>1. i \in Nat \ {0} /\ last \in Nat /\ i <= last /\ last <= length
  OBVIOUS
<1> DEFINE Good(k) == SpelledTo(t, i, escaped, f, k)
           N == last - i
           Set == {n \in 0 .. N : Good(i + n)}
<1>2. \A k \in i .. last :
        f[k] = IF k = i THEN <<>>
               ELSE IF k \in escaped THEN Append(f[k - 1], Escapes[t[k]])
               ELSE IF t[k] = "\\" THEN f[k - 1] ELSE Append(f[k - 1], t[k])
  <2> PICK g : g = f
    OBVIOUS
  <2>1. g = [k \in i .. last |->
               IF k = i THEN <<>>
               ELSE IF k \in escaped THEN Append(g[k - 1], Escapes[t[k]])
               ELSE IF t[k] = "\\" THEN g[k - 1] ELSE Append(g[k - 1], t[k])]
    BY DEF DecodesTo
  <2> QED BY <2>1
<1>3. Good(i)
  <2>1. f[i] = <<>> /\ ~ Lone(t, i, escaped, i)
    BY <1>1, <1>2 DEF Lone
  <2>2. SubSeq(t, i + 1, i) = <<>>
    BY <1>1
  <2> QED BY <2>1, <2>2, NothingSpells DEF SpelledTo
<1>4. ASSUME NEW k \in i + 1 .. last, Good(k - 1) PROVE Good(k)
  <2>0. /\ k \in Nat /\ k - 1 \in Nat /\ k \in i .. last /\ k - 1 \in i .. last /\ k # i /\ k > i
        /\ k \in 1 .. length /\ k \in i .. length /\ (k - 1) + 1 = k /\ i <= k - 1
        /\ k - 1 < length /\ (k > i + 1 <=> k - 1 > i)
    BY <1>1
  <2>1. /\ k \in Nat /\ k - 1 \in Nat /\ k \in i .. last /\ k - 1 \in i .. last /\ k # i /\ k > i
        /\ k \in 1 .. Len(t) /\ k \in i .. Len(t) /\ (k - 1) + 1 = k /\ i <= k - 1
        /\ k - 1 < Len(t) /\ (k > i + 1 <=> k - 1 > i)
    BY <2>0
  <2>2. k \in escaped <=> Lone(t, i, escaped, k - 1)
    BY <2>1 DEF EscapedRight, Lone
  <2>3. SubSeq(t, i + 1, k) = SubSeq(t, i + 1, k - 1) \o <<t[k]>>
    <3>1. SubSeq(t, i + 1, (k - 1) + 1) = SubSeq(t, i + 1, k - 1) \o <<t[(k - 1) + 1]>>
      BY <1>1, <2>1, BytesMore
    <3> QED BY <2>1, <3>1
  <2>4. t[k] \in S /\ f[k - 1] \in Seq(S)
    BY <2>1
  <2>5. CASE k \in escaped
    <3>1. Spells(SubSeq(t, i + 1, k - 2), f[k - 1]) /\ t[k - 1] = "\\" /\ k - 1 > i
      <4>1. (k - 1) - 1 = k - 2
        BY <2>1
      <4> QED BY <1>4, <2>2, <2>5, <4>1 DEF SpelledTo, Lone
    <3>2. t[k] \in EscapeBytes /\ f[k] = Append(f[k - 1], Escapes[t[k]])
      <4>1. k \in i + 1 .. last
        OBVIOUS
      <4>2. t[k] \in EscapeBytes
        BY <2>5, <4>1 DEF LiteralTo
      <4> QED BY <1>2, <2>1, <2>5, <4>2
    <3>3. /\ Escapes[t[k]] \in Range(Escapes)
          /\ Written(Escapes[t[k]], TRUE) = <<"\\", t[k]>>
      BY <3>2, EscapesBack
    <3>4. Spells(SubSeq(t, i + 1, k - 2) \o <<"\\", t[k]>>, f[k])
      <4>1. Escapes[t[k]] \in S /\ TRUE \in BOOLEAN /\ EscapeBytes \subseteq S
        BY <3>3
      <4>2. Spells(SubSeq(t, i + 1, k - 2) \o Written(Escapes[t[k]], TRUE),
                   Append(f[k - 1], Escapes[t[k]]))
        BY <2>4, <3>1, <3>3, <4>1, SpellsAppend
      <4> QED BY <3>2, <3>3, <4>2
    <3>5. SubSeq(t, i + 1, k) = SubSeq(t, i + 1, k - 2) \o <<"\\", t[k]>>
      <4> DEFINE s == SubSeq(t, i + 1, k - 2)
      <4>1. k - 2 \in Nat /\ i <= k - 2 /\ k - 2 < Len(t) /\ (k - 2) + 1 = k - 1 /\ k - 2 <= Len(t)
        BY <2>1, <3>1
      <4>2. SubSeq(t, i + 1, (k - 2) + 1) = s \o <<t[(k - 2) + 1]>>
        BY <1>1, <4>1, BytesMore
      <4>3. s \in Seq(S)
        BY <1>1, <4>1, SubSeqIs
      <4> HIDE DEF s
      <4>4. SubSeq(t, i + 1, k) = (s \o <<t[k - 1]>>) \o <<t[k]>>
        BY <2>3, <4>1, <4>2
      <4>5. PICK a \in S : a = t[k - 1]
        BY <2>1
      <4>6. PICK b \in S : b = t[k]
        BY <2>4
      <4>7. (s \o <<a>>) \o <<b>> = s \o <<a, b>>
        <5>1. PICK u \in Seq(S) : u = s
          BY <4>3
        <5>2. (u \o <<a>>) \o <<b>> = u \o <<a, b>>
          BY TwoMore, Zenon
        <5> QED BY <5>1, <5>2
      <4> QED BY <3>1, <4>4, <4>5, <4>6, <4>7 DEF s
    <3>6. ~ Lone(t, i, escaped, k)
      BY <2>5 DEF Lone
    <3> QED BY <3>4, <3>5, <3>6 DEF SpelledTo
  <2>6. CASE k \notin escaped
    <3>1. Spells(SubSeq(t, i + 1, k - 1), f[k - 1])
      BY <1>4, <2>2, <2>6 DEF SpelledTo
    <3>2. CASE t[k] = "\\"
      <4>1. Lone(t, i, escaped, k) /\ f[k] = f[k - 1]
        BY <1>2, <2>1, <2>6, <3>2 DEF Lone
      <4> QED BY <3>1, <4>1 DEF SpelledTo
    <3>3. CASE t[k] # "\\"
      <4>1. ~ Lone(t, i, escaped, k) /\ f[k] = Append(f[k - 1], t[k])
        BY <1>2, <2>1, <2>6, <3>3 DEF Lone
      <4>2. t[k] \notin MustEscape
        <5>1. k \in i + 1 .. last
          OBVIOUS
        <5> QED BY <2>6, <3>3, <5>1 DEF MustEscape, LiteralTo
      <4>3. Written(t[k], FALSE) = <<t[k]>>
        BY DEF Written
      <4>4. Spells(SubSeq(t, i + 1, k - 1) \o Written(t[k], FALSE), Append(f[k - 1], t[k]))
        <5>1. FALSE \in BOOLEAN /\ EscapeBytes \subseteq S /\ t[k] \in S
          BY <2>4
        <5> QED BY <2>4, <3>1, <4>2, <5>1, SpellsAppend
      <4> QED BY <2>3, <4>1, <4>3, <4>4 DEF SpelledTo
    <3> QED BY <3>2, <3>3
  <2> QED BY <2>5, <2>6
<1> HIDE DEF Good
<1>7. N \in Nat /\ N \in 0 .. N /\ i + N = last
  BY <1>1
<1>10. ASSUME NEW n \in 0 .. N - 1
       PROVE  i + (n + 1) \in i + 1 .. last /\ (i + (n + 1)) - 1 = i + n /\ n + 1 \in 0 .. N
  BY <1>1
<1>11. i + 0 = i
  BY <1>1
<1> HIDE DEF N
<1>5. 0 \in Set
  <2>1. 0 \in 0 .. N
    BY <1>7
  <2> QED BY <1>3, <1>11, <2>1
<1>6. ASSUME NEW n \in 0 .. N - 1, n \in Set PROVE n + 1 \in Set
  <2>1. /\ i + (n + 1) \in i + 1 .. last /\ (i + (n + 1)) - 1 = i + n /\ n + 1 \in 0 .. N
    BY <1>10
  <2>2. Good((i + (n + 1)) - 1)
    BY <1>6, <2>1
  <2>3. Good(i + (n + 1))
    BY <1>4, <2>1, <2>2
  <2> QED BY <2>1, <2>3
<1>8. N \in Set
  <2> HIDE DEF Set
  <2>1. 0 .. N \subseteq Set
    BY <1>5, <1>6, <1>7, SetInduction
  <2> QED BY <1>7, <2>1
<1>9. Good(last)
  BY <1>7, <1>8
<1> QED BY <1>9 DEF Good, SpelledTo


\* There is one way to read them.
LEMMA DecodedUnique ==
  ASSUME NEW t, NEW i \in Nat, NEW last \in Nat, i <= last, NEW escaped,
         NEW f, DecodesTo(t, i, last, escaped, f), NEW g, DecodesTo(t, i, last, escaped, g)
  PROVE  f = g
<1> DEFINE Next1(k, s) == IF k \in escaped THEN Append(s, Escapes[t[k]])
                          ELSE IF t[k] = "\\" THEN s ELSE Append(s, t[k])
           N == last - i
           Set == {n \in 0 .. N : f[i + n] = g[i + n]}
<1>1. /\ f = [k \in i .. last |-> IF k = i THEN <<>> ELSE Next1(k, f[k - 1])]
      /\ g = [k \in i .. last |-> IF k = i THEN <<>> ELSE Next1(k, g[k - 1])]
  BY DEF DecodesTo
<1> HIDE DEF Next1
<1>2. /\ \A k \in i .. last : f[k] = IF k = i THEN <<>> ELSE Next1(k, f[k - 1])
      /\ \A k \in i .. last : g[k] = IF k = i THEN <<>> ELSE Next1(k, g[k - 1])
      /\ f = [k \in i .. last |-> f[k]] /\ g = [k \in i .. last |-> g[k]]
  BY <1>1
<1>3. /\ N \in Nat /\ i + 0 = i /\ i \in i .. last
      /\ \A n \in 0 .. N - 1 : /\ i + (n + 1) \in i .. last /\ i + (n + 1) # i
                                /\ (i + (n + 1)) - 1 = i + n /\ n + 1 \in 0 .. N
      /\ \A k \in i .. last : k - i \in 0 .. N /\ i + (k - i) = k
  OBVIOUS
<1> HIDE DEF N
<1>4. 0 \in Set
  <2>1. 0 \in 0 .. N
    BY <1>3
  <2> QED BY <1>2, <1>3, <2>1
<1>5. ASSUME NEW n \in 0 .. N - 1, n \in Set PROVE n + 1 \in Set
  <2>1. f[i + n] = g[i + n]
    BY <1>5
  <2> PICK k, m : k = i + (n + 1) /\ m = i + n
    OBVIOUS
  <2>2. k \in i .. last /\ k # i /\ k - 1 = m /\ n + 1 \in 0 .. N
    BY <1>3
  <2>3. f[k] = Next1(k, f[k - 1]) /\ g[k] = Next1(k, g[k - 1])
    BY <1>2, <2>2
  <2>4. f[k] = g[k]
    BY <2>1, <2>2, <2>3
  <2> QED BY <2>2, <2>4
<1>6. 0 .. N \subseteq Set
  <2> HIDE DEF Set
  <2> QED BY <1>3, <1>4, <1>5, SetInduction
<1>7. \A k \in i .. last : f[k] = g[k]
  <2> TAKE k \in i .. last
  <2>1. k - i \in Set /\ i + (k - i) = k
    BY <1>3, <1>6
  <2>2. f[i + (k - i)] = g[i + (k - i)]
    BY <2>1
  <2> QED BY <2>1, <2>2
<1> QED BY <1>2, <1>7

\* A string literal as the lexer reads it.
LEMMA LiteralSpelled ==
  ASSUME NEW t \in Seq(STRING), NEW i \in 1 .. Len(t),
         NEW escaped, escaped = Escaped(t, i),
         NEW stop, stop = StringStop(t, i, escaped),
         NEW end, end = StringEnd(t, stop, escaped), end # NoToken
  PROVE  /\ stop \in i + 1 .. Len(t) /\ end = stop + 1
         /\ Spells(SubSeq(t, i + 1, stop - 1), StringText(t, i, end, escaped))
<1>1. /\ stop \in i + 1 .. Len(t) /\ t[stop] = "\"" /\ stop \notin escaped /\ end = stop + 1
  BY StringEndIs
<1>2. EscapedRight(t, i, escaped)
  BY EscapedIs DEF EscapedRight
<1> PICK last : last = stop - 1
  OBVIOUS
<1> PICK length \in Nat : length = Len(t)
  OBVIOUS
<1>3. last \in i .. length /\ stop = last + 1 /\ end - 2 = last /\ stop \in i .. length
      /\ (stop > i + 1 <=> last > i) /\ i \in 1 .. length
  <2>1. stop \in i + 1 .. length /\ i \in 1 .. length /\ end = stop + 1
    BY <1>1
  <2> QED BY <2>1
<1>4. LiteralTo(t, i, last, escaped)
  <2>1. \A k \in i + 1 .. stop - 1 :
          IF k \in escaped THEN t[k] \in EscapeBytes ELSE t[k] \notin {"\""} \cup LineEnds
    BY StringStopIs, EscapesAre
  <2> QED BY <2>1 DEF LiteralTo
<1>5. ~ Lone(t, i, escaped, last)
  <2> SUFFICES ASSUME last > i, t[last] = "\\", last \notin escaped PROVE FALSE
    BY DEF Lone
  <2>1. stop \in escaped
    BY <1>2, <1>3 DEF EscapedRight
  <2> QED BY <1>1, <2>1
<1> PICK S : S = Range(t) \cup EscapeBytes \cup Range(Escapes)
  OBVIOUS
<1>6. EscapeBytes \cup Range(Escapes) \subseteq S /\ t \in Seq(S)
  <2>1. t \in Seq(Range(t)) /\ Range(t) \subseteq S
    BY SequenceNarrows
  <2> QED BY <2>1, SequenceWidens
<1>7. \E f \in [i .. last -> Seq(S)] : DecodesTo(t, i, last, escaped, f)
  <2>1. \A k \in i + 1 .. last : k \in escaped => t[k] \in EscapeBytes
    BY <1>4 DEF LiteralTo
  <2>2. last \in i .. Len(t) /\ i \in 1 .. Len(t)
    BY <1>3
  <2> QED BY <1>6, <2>1, <2>2, DecodedExists
<1> PICK f : f = CHOOSE g : DecodesTo(t, i, last, escaped, g)
  OBVIOUS
<1>8. DecodesTo(t, i, last, escaped, f)
  BY <1>7
<1>9. StringText(t, i, end, escaped) = f[last]
  BY <1>3 DEF StringText, DecodesTo
<1>10. f \in [i .. last -> Seq(S)]
  <2>1. PICK g \in [i .. last -> Seq(S)] : DecodesTo(t, i, last, escaped, g)
    BY <1>7
  <2>2. i \in Nat /\ last \in i .. last /\ last \in Nat /\ i <= last
    BY <1>3
  <2>3. f = g
    BY <1>8, <2>1, <2>2, DecodedUnique
  <2> QED BY <2>1, <2>3
<1>11. Spells(SubSeq(t, i + 1, last), f[last])
  <2>1. last \in i .. Len(t) /\ i \in 1 .. Len(t)
    BY <1>3
  <2> QED BY <1>2, <1>4, <1>5, <1>6, <1>8, <1>10, <2>1, DecodedSpells
<1>12. Spells(SubSeq(t, i + 1, stop - 1), StringText(t, i, end, escaped))
  BY <1>9, <1>11
<1> QED BY <1>1, <1>12


\* What is said of a token.
TokenDecoded(token) ==
  At(text, token.offset) = "\"" =>
    /\ token.kind = "string"
    /\ Spells(SubSeq(text, token.offset + 1, token.offset + token.length - 2), token.value)

LEMMA DecodedMore ==
  ASSUME LexType, StringsDecoded, text' = text,
         NEW token, TokenDecoded(token), tokens' = Append(tokens, token)
  PROVE  StringsDecoded'
<1>1. /\ DOMAIN tokens = 1 .. Len(tokens) /\ Len(tokens) \in Nat
      /\ DOMAIN tokens' = 1 .. Len(tokens) + 1
      /\ \A n \in 1 .. Len(tokens) : tokens'[n] = tokens[n]
      /\ tokens'[Len(tokens) + 1] = token
  BY AppendIs DEF LexType
<1>2. \A n \in DOMAIN tokens : TokenDecoded(tokens[n])
  BY DEF StringsDecoded, TokenDecoded
<1>3. \A n \in DOMAIN tokens' : TokenDecoded(tokens'[n])
  <2>1. \A n \in DOMAIN tokens' : n \in DOMAIN tokens \/ n = Len(tokens) + 1
    BY <1>1
  <2> QED BY <1>1, <1>2, <2>1
<1> QED BY <1>3 DEF StringsDecoded, TokenDecoded

LEMMA DecodedKept ==
  ASSUME StringsDecoded, text' = text, tokens' = tokens
  PROVE  StringsDecoded'
BY DEF StringsDecoded

\* No other token begins with a quote.
LEMMA DecodedOther ==
  ASSUME LexType, StringsDecoded, At(text, index) # "\"",
         NEW kind, NEW value, NEW e, Emit(kind, value, e)
  PROVE  StringsDecoded'
<1> PICK token : token = NewToken(kind, value, e)
  OBVIOUS
<1>1. token.offset = index
  BY DEF NewToken
<1>2. TokenDecoded(token)
  BY <1>1 DEF TokenDecoded
<1>3. text' = text /\ tokens' = Append(tokens, token)
  BY DEF Emit
<1> QED BY <1>2, <1>3, DecodedMore

LEMMA DecodedCharacters ==
  ASSUME LexType, StringsDecoded, index <= Len(text),
         NEW bytes, "\"" \notin bytes, NEW leads, leads \subseteq Leads,
         RuneAt(text, index) \in Runes(bytes) \cup Wide(leads),
         NEW kind, NEW value, NEW e, Emit(kind, value, e)
  PROVE  StringsDecoded'
<1>1. text \in Seq(STRING) /\ index \in 1 .. Len(text)
  BY AtIndex
<1>2. text[index] \in bytes \/ text[index] \in leads
  BY <1>1, RuneOf
<1>3. "\"" \notin leads
  <2>1. "\"" \in Characters
    BY CharactersAre
  <2> QED BY <2>1, RunesApart
<1>4. At(text, index) # "\""
  BY <1>1, <1>2, <1>3, AtInside
<1> QED BY <1>4, DecodedOther

LEMMA DecodedBytes ==
  ASSUME LexType, StringsDecoded, index <= Len(text),
         NEW bytes, "\"" \notin bytes, RuneAt(text, index) \in Runes(bytes),
         NEW kind, NEW value, NEW e, Emit(kind, value, e)
  PROVE  StringsDecoded'
<1>1. text \in Seq(STRING) /\ index \in 1 .. Len(text) /\ {} \subseteq Leads
  BY AtIndex
<1>2. text[index] \in bytes
  BY <1>1, RuneOf
<1>3. At(text, index) # "\""
  BY <1>1, <1>2, AtInside
<1> QED BY <1>3, DecodedOther

LEMMA DecodedString ==
  ASSUME LexInv, StringsDecoded, String PROVE StringsDecoded'
<1>1. LexType
  BY DEF LexInv
<1>2. index <= Len(text)
  BY DEF String, Meets
<1>3. text \in Seq(STRING) /\ index \in 1 .. Len(text)
  BY <1>1, <1>2, AtIndex
<1> PICK t \in Seq(STRING) : t = text
  BY <1>3
<1> PICK i \in 1 .. Len(t) : i = index
  BY <1>3
<1> PICK escaped : escaped = Escaped(t, i)
  OBVIOUS
<1> PICK stop : stop = StringStop(t, i, escaped)
  OBVIOUS
<1> PICK end : end = StringEnd(t, stop, escaped)
  OBVIOUS
<1> PICK value : value = StringText(t, i, end, escaped)
  OBVIOUS
<1> PICK token : token = NewToken("string", value, end)
  OBVIOUS
<1>4. end # NoToken /\ text' = text /\ tokens' = Append(tokens, token)
  BY DEF String, EmitString, Closed, Emit
<1>5. /\ stop \in i + 1 .. Len(t) /\ end = stop + 1
      /\ Spells(SubSeq(t, i + 1, stop - 1), value)
  BY <1>4, LiteralSpelled
<1>7. token.offset = i /\ token.length = end - i /\ token.kind = "string" /\ token.value = value
  BY DEF NewToken
<1>8. i + (end - i) - 2 = stop - 1
  BY <1>5
<1>9. TokenDecoded(token)
  <2>1. token.offset + token.length - 2 = stop - 1
    BY <1>7, <1>8
  <2> QED BY <1>5, <1>7, <2>1 DEF TokenDecoded
<1> QED BY <1>1, <1>4, <1>9, DecodedMore

LEMMA StringsPreserved == LexInv /\ StringsDecoded /\ [Next]_vars => StringsDecoded'
<1> SUFFICES ASSUME LexInv, StringsDecoded, [Next]_vars PROVE StringsDecoded'
  OBVIOUS
<1>0. LexType /\ LetterLeads \subseteq Leads /\ DigitLeads \subseteq Leads
  BY DEF LexInv, Leads
<1>1. CASE NewlineToken
  <2>1. /\ index <= Len(text) /\ RuneAt(text, index) \in Runes(LineEnds)
        /\ Emit("newline", "", LineEndAfter(text, index))
    BY <1>1 DEF NewlineToken, Meets, IsLineEnd, Rune
  <2>2. "\"" \notin LineEnds
    BY DEF LineEnds
  <2> QED BY <1>0, <2>1, <2>2, DecodedBytes
<1>2. CASE Blank BY <1>2, DecodedKept DEF Blank
<1>3. CASE LineComment BY <1>3, DecodedKept DEF LineComment
<1>4. CASE BlockComment BY <1>4, DecodedKept DEF BlockComment
<1>5. CASE UnterminatedComment BY <1>5, DecodedKept DEF UnterminatedComment, Refuse
<1>6. CASE Identifier
  <2>1. /\ index <= Len(text)
        /\ RuneAt(text, index) \in Runes(AsciiLetters \cup {"_"}) \cup Wide(LetterLeads)
    BY <1>6 DEF Identifier, Meets, isIdentStart, LetterRunes, Rune
  <2>3. PICK kind, value, e : Emit(kind, value, e)
    BY <1>6 DEF Identifier, EmitWord
  <2>2. "\"" \notin AsciiLetters \cup {"_"}
    BY DEF AsciiLetters
  <2> QED BY <1>0, <2>1, <2>2, <2>3, DecodedCharacters
<1>7. CASE Number
  <2>1. /\ index <= Len(text)
        /\ RuneAt(text, index) \in Runes(Digits) \cup Wide(DigitLeads)
    BY <1>7 DEF Number, Meets, IsDigit, DigitRunes, Rune
  <2>3. PICK kind, value, e : Emit(kind, value, e)
    BY <1>7 DEF Number, EmitNumber
  <2>2. "\"" \notin Digits
    BY DEF Digits
  <2> QED BY <1>0, <2>1, <2>2, <2>3, DecodedCharacters
<1>8. CASE InvalidNumber BY <1>8, DecodedKept DEF InvalidNumber, Refuse
<1>9. CASE String BY <1>9, DecodedString
<1>10. CASE InvalidString BY <1>10, DecodedKept DEF InvalidString, Refuse
<1>11. CASE Operator
  <2>1. /\ index <= Len(text)
        /\ RuneAt(text, index) \in Runes(OperatorCharacters)
    BY <1>11 DEF Operator, Meets, isOperator, Rune
  <2>3. PICK kind, value, e : Emit(kind, value, e)
    BY <1>11 DEF Operator, EmitSymbol
  <2>2. "\"" \notin OperatorCharacters
    BY DEF OperatorCharacters
  <2> QED BY <1>0, <2>1, <2>2, <2>3, DecodedBytes
<1>12. CASE Delimiter
  <2>1. /\ index <= Len(text)
        /\ RuneAt(text, index) \in Runes(DelimiterCharacters)
    BY <1>12 DEF Delimiter, Meets, isDelimiter, Rune
  <2>3. PICK kind, value, e : Emit(kind, value, e)
    BY <1>12 DEF Delimiter, EmitSymbol
  <2>2. "\"" \notin DelimiterCharacters
    BY DEF DelimiterCharacters
  <2> QED BY <1>0, <2>1, <2>2, <2>3, DecodedBytes
<1>13. CASE Unrecognized BY <1>13, DecodedKept DEF Unrecognized, Refuse
<1>14. CASE EndOfText
  <2>1. Emit("EOF", "", index) /\ index = Len(text) + 1
    BY <1>14 DEF EndOfText
  <2>2. At(text, index) # "\""
    <3> PICK n : n = Len(text)
      OBVIOUS
    <3>1. n \in Nat /\ DOMAIN text = 1 .. n
      BY <1>0 DEF LexType
    <3>2. n + 1 \notin 1 .. n
      BY <3>1
    <3>3. index \notin DOMAIN text
      BY <2>1, <3>1, <3>2
    <3> QED BY <3>3 DEF At
  <2> QED BY <1>0, <2>1, <2>2, DecodedOther
<1>15. CASE UNCHANGED vars
  BY <1>15, DecodedKept DEF vars
<1> QED
  BY <1>1, <1>2, <1>3, <1>4, <1>5, <1>6, <1>7, <1>8, <1>9, <1>10, <1>11, <1>12, <1>13, <1>14,
     <1>15 DEF Next

(***************************************************************************)
(* Every string literal stands for what its bytes say, in any text.        *)
(***************************************************************************)
THEOREM LiteralsDecoded == Spec => []StringsDecoded
<1>1. Init => StringsDecoded
  <2>1. tokens = <<>> => DOMAIN tokens = {}
    BY EmptyRange
  <2> QED BY <2>1 DEF Init, StringsDecoded
<1>2. Init /\ [][Next]_vars => [](LexInv /\ StringsDecoded)
  BY <1>1, LexInitially, LexPreserved, StringsPreserved, PTL
<1> QED BY <1>2, PTL DEF Spec
=============================================================================
