--------------------------- MODULE CovaWordsProofs --------------------------
(***************************************************************************)
(* The proof that the lexer implements CovaWords, for every text: each     *)
(* action of CovaLexer reads the longest word, passes the longest gap or   *)
(* refuses what is neither, and the end of the text changes nothing of     *)
(* this.  What an action scans is compared with every sequence of bytes    *)
(* that could be read at that place.                                       *)
(***************************************************************************)
EXTENDS CovaLexingProofs

-----------------------------------------------------------------------------
(***************************************************************************)
(* The longest gap and the longest word at a place.                        *)
(***************************************************************************)
\* A gap that no gap is longer than is where LastOfGap says.
LEMMA GapEndsAt ==
  ASSUME text \in Seq(STRING), index \in 1 .. Len(text) + 1,
         NEW j \in index .. Len(text), Words!IsGap(SubSeq(text, index, j)),
         \A k \in index .. Len(text) : Words!IsGap(SubSeq(text, index, k)) => k <= j
  PROVE  Words!LastOfGap = j
<1> DEFINE ends == {k \in index .. Len(text) : Words!IsGap(SubSeq(text, index, k))}
<1>1. Words!LastOfGap = IF ends = {} THEN 0 ELSE CHOOSE n \in ends : \A k \in ends : k <= n
  BY DEF Words!LastOfGap, Words!Longest, Words!Bytes
<1>2. j \in ends /\ \A k \in ends : k <= j
  OBVIOUS
<1>3. \A n \in ends : (\A k \in ends : k <= n) => n = j
  BY <1>2
<1> HIDE DEF ends
<1> QED BY <1>1, <1>2, <1>3

\* Without a gap LastOfGap is 0.
LEMMA NoGap ==
  ASSUME \A k \in index .. Len(text) : ~ Words!IsGap(SubSeq(text, index, k))
  PROVE  Words!LastOfGap = 0
BY DEF Words!LastOfGap, Words!Longest, Words!Bytes

\* A word that no word is longer than is where LastOfWord says.
LEMMA WordEndsAt ==
  ASSUME text \in Seq(STRING), index \in 1 .. Len(text) + 1,
         NEW j \in index .. Len(text), Words!IsWord(SubSeq(text, index, j)),
         \A k \in index .. Len(text) : Words!IsWord(SubSeq(text, index, k)) => k <= j
  PROVE  Words!LastOfWord = j
<1> DEFINE ends == {k \in index .. Len(text) : Words!IsWord(SubSeq(text, index, k))}
<1>1. Words!LastOfWord = IF ends = {} THEN 0 ELSE CHOOSE n \in ends : \A k \in ends : k <= n
  BY DEF Words!LastOfWord, Words!Longest, Words!Bytes
<1>2. j \in ends /\ \A k \in ends : k <= j
  OBVIOUS
<1>3. \A n \in ends : (\A k \in ends : k <= n) => n = j
  BY <1>2
<1> HIDE DEF ends
<1> QED BY <1>1, <1>2, <1>3

\* Without a word LastOfWord is 0.
LEMMA NoWordHere ==
  ASSUME \A k \in index .. Len(text) : ~ Words!IsWord(SubSeq(text, index, k))
  PROVE  Words!LastOfWord = 0
BY DEF Words!LastOfWord, Words!Longest, Words!Bytes

-----------------------------------------------------------------------------
(***************************************************************************)
(* Pieces of a text.                                                       *)
(***************************************************************************)
\* The bytes of a piece of the text.
LEMMA PieceIs ==
  ASSUME NEW t \in Seq(STRING), NEW i \in Nat \ {0}, NEW j \in Nat, i <= j + 1, j <= Len(t)
  PROVE  /\ SubSeq(t, i, j) \in Seq(STRING) /\ Len(SubSeq(t, i, j)) = j + 1 - i
         /\ \A k \in 1 .. j + 1 - i : SubSeq(t, i, j)[k] = t[i + k - 1]
<1>1. PICK a \in Nat : a + 1 = i
  BY i - 1 \in Nat /\ (i - 1) + 1 = i
<1>2. a <= j
  BY <1>1
<1>3. /\ SubSeq(t, a + 1, j) \in Seq(STRING) /\ Len(SubSeq(t, a + 1, j)) = j - a
      /\ \A k \in 1 .. j - a : SubSeq(t, a + 1, j)[k] = t[a + k]
  BY <1>2, SubSeqIs
<1>4. j - a = j + 1 - i /\ \A k \in Int : a + k = i + k - 1
  BY <1>1
<1> QED BY <1>1, <1>3, <1>4

\* A piece of a piece.
LEMMA PieceOfPiece ==
  ASSUME NEW t \in Seq(STRING), NEW i \in Nat \ {0}, NEW j \in Nat, i <= j + 1, j <= Len(t),
         NEW a \in Nat \ {0}, NEW b \in Nat, a <= b + 1, b <= j + 1 - i
  PROVE  SubSeq(SubSeq(t, i, j), a, b) = SubSeq(t, i + a - 1, i + b - 1)
<1> DEFINE s == SubSeq(t, i, j)
           x == SubSeq(s, a, b)
           y == SubSeq(t, i + a - 1, i + b - 1)
<1>1. s \in Seq(STRING) /\ Len(s) = j + 1 - i /\ \A k \in 1 .. j + 1 - i : s[k] = t[i + k - 1]
  BY PieceIs
<1> HIDE DEF s
<1>2. x \in Seq(STRING) /\ Len(x) = b + 1 - a /\ \A k \in 1 .. b + 1 - a : x[k] = s[a + k - 1]
  BY <1>1, PieceIs
<1>3. /\ i + a - 1 \in Nat \ {0} /\ i + b - 1 \in Nat /\ i + a - 1 <= i + b - 1 + 1
      /\ i + b - 1 <= Len(t)
  OBVIOUS
<1>4. /\ y \in Seq(STRING) /\ Len(y) = i + b - 1 + 1 - (i + a - 1)
      /\ \A k \in 1 .. i + b - 1 + 1 - (i + a - 1) : y[k] = t[i + a - 1 + k - 1]
  BY <1>3, PieceIs
<1>5. i + b - 1 + 1 - (i + a - 1) = b + 1 - a
  OBVIOUS
<1>6. ASSUME NEW k \in 1 .. b + 1 - a PROVE x[k] = y[k]
  <2>1. a + k - 1 \in 1 .. j + 1 - i /\ i + (a + k - 1) - 1 = i + a - 1 + k - 1
    OBVIOUS
  <2> HIDE DEF x, y
  <2> QED BY <1>1, <1>2, <1>4, <1>5, <2>1
<1> HIDE DEF x, y
<1>7. x = y
  BY <1>2, <1>4, <1>5, <1>6
<1> QED BY <1>7 DEF x, y, s

\* Sequences of one byte and of two.
LEMMA ShortIs ==
  ASSUME NEW s \in Seq(STRING)
  PROVE  /\ Len(s) = 1 => s = <<s[1]>>
         /\ Len(s) = 2 => s = <<s[1], s[2]>>
         /\ Len(s) = 3 => s = <<s[1], s[2], s[3]>>
OBVIOUS

\* A stretch that is a rune.
LEMMA PieceRune ==
  ASSUME NEW t \in Seq(STRING), NEW i \in 1 .. Len(t), NEW j \in i .. Len(t), NEW bytes, NEW leads
  PROVE  /\ SubSeq(t, i, j) \in Runes(bytes) <=> j = i /\ t[i] \in bytes
         /\ SubSeq(t, i, j) \in Wide(leads) <=>
              j = i + 1 /\ t[i] \in leads /\ t[i + 1] \in Continuations
<1> DEFINE s == SubSeq(t, i, j)
<1>1. s \in Seq(STRING) /\ Len(s) = j + 1 - i /\ \A k \in 1 .. j + 1 - i : s[k] = t[i + k - 1]
  BY PieceIs
<1> HIDE DEF s
<1>2. s[1] = t[i]
  BY <1>1
<1>3. j # i => s[2] = t[i + 1]
  BY <1>1
<1>4. j = i <=> Len(s) = 1
  BY <1>1
<1>5. j = i + 1 <=> Len(s) = 2
  BY <1>1
<1>6. Len(s) = 1 => s = <<s[1]>>
  BY <1>1, ShortIs
<1>7. Len(s) = 2 => s = <<s[1], s[2]>>
  BY <1>1, ShortIs
<1>8. \A a, b : Len(<<a>>) = 1 /\ Len(<<a, b>>) = 2
  OBVIOUS
<1>9. s \in Runes(bytes) => \E a \in bytes : s = <<a>>
  BY DEF Runes
<1>10. s \in Wide(leads) => \E a \in leads, b \in Continuations : s = <<a, b>>
  BY DEF Wide
<1>11. Len(s) = 1 /\ s[1] \in bytes => s \in Runes(bytes)
  BY <1>6 DEF Runes
<1>12. Len(s) = 2 /\ s[1] \in leads /\ s[2] \in Continuations => s \in Wide(leads)
  BY <1>7 DEF Wide
<1>13. s \in Runes(bytes) <=> j = i /\ t[i] \in bytes
  BY <1>2, <1>4, <1>8, <1>9, <1>11
<1>14. i + 1 # i
  OBVIOUS
<1>15. s \in Wide(leads) <=> j = i + 1 /\ t[i] \in leads /\ t[i + 1] \in Continuations
  BY <1>2, <1>3, <1>5, <1>8, <1>10, <1>12, <1>14
<1> QED BY <1>13, <1>15 DEF s

\* It is the rune that is next.
LEMMA PieceIsRune ==
  ASSUME NEW t \in Seq(STRING), NEW i \in 1 .. Len(t), NEW j \in i .. Len(t),
         NEW bytes, bytes \subseteq Characters, NEW leads, leads \subseteq Leads
  PROVE  SubSeq(t, i, j) \in Runes(bytes) \cup Wide(leads) <=>
           RuneAt(t, i) \in Runes(bytes) \cup Wide(leads) /\ j = i + Len(RuneAt(t, i)) - 1
<1> DEFINE rune == RuneAt(t, i)
<1>1. /\ SubSeq(t, i, j) \in Runes(bytes) <=> j = i /\ t[i] \in bytes
      /\ SubSeq(t, i, j) \in Wide(leads) <=>
           j = i + 1 /\ t[i] \in leads /\ t[i + 1] \in Continuations
  BY PieceRune
<1>2. /\ rune \in Runes(bytes) => t[i] \in bytes /\ rune = <<t[i]>>
      /\ rune \in Wide(leads) =>
           t[i] \in leads /\ t[i + 1] \in Continuations /\ rune = <<t[i], t[i + 1]>>
      /\ t[i] \in bytes /\ t[i] \in Characters => rune \in Runes(bytes)
      /\ i + 1 <= Len(t) /\ t[i] \in leads /\ t[i + 1] \in Continuations => rune \in Wide(leads)
  BY RuneOf
<1>3. \A a, b : Len(<<a>>) = 1 /\ Len(<<a, b>>) = 2
  OBVIOUS
<1>4. i + 1 - 1 = i /\ i + 2 - 1 = i + 1 /\ (j = i + 1 => i + 1 <= Len(t))
  OBVIOUS
<1> HIDE DEF rune
<1>5. /\ rune \in Runes(bytes) => Len(rune) = 1
      /\ rune \in Wide(leads) => Len(rune) = 2
  BY <1>2, <1>3
<1>6. ASSUME SubSeq(t, i, j) \in Runes(bytes) \cup Wide(leads)
      PROVE  rune \in Runes(bytes) \cup Wide(leads) /\ j = i + Len(rune) - 1
  BY <1>1, <1>2, <1>4, <1>5, <1>6
<1>7. ASSUME rune \in Runes(bytes) \cup Wide(leads), j = i + Len(rune) - 1
      PROVE  SubSeq(t, i, j) \in Runes(bytes) \cup Wide(leads)
  BY <1>1, <1>2, <1>4, <1>5, <1>7
<1> QED BY <1>6, <1>7 DEF rune

-----------------------------------------------------------------------------
(***************************************************************************)
(* What can begin with the rune that is next: the classes of runes, of     *)
(* which each has its own first bytes, and the kinds of word.              *)
(***************************************************************************)
\* The bytes that runes begin with, and their classes, are apart.
LEMMA BytesApart ==
  /\ (AsciiLetters \cup {"_"}) \cap Digits = {}
  /\ (AsciiLetters \cup {"_"}) \cap AsciiSpaces = {}
  /\ (AsciiLetters \cup {"_"}) \cap {"\""} = {}
  /\ (AsciiLetters \cup {"_"}) \cap OperatorCharacters = {}
  /\ (AsciiLetters \cup {"_"}) \cap DelimiterCharacters = {}
  /\ Digits \cap AsciiSpaces = {} /\ Digits \cap {"\""} = {}
  /\ Digits \cap OperatorCharacters = {} /\ Digits \cap DelimiterCharacters = {}
  /\ AsciiSpaces \cap {"\""} = {} /\ AsciiSpaces \cap OperatorCharacters = {}
  /\ AsciiSpaces \cap DelimiterCharacters = {}
  /\ "\"" \notin OperatorCharacters /\ "\"" \notin DelimiterCharacters
  /\ OperatorCharacters \cap DelimiterCharacters = {}
<1>1. (AsciiLetters \cup {"_"}) \cap Digits = {}
  BY DEF AsciiLetters, Digits
<1>2. (AsciiLetters \cup {"_"}) \cap AsciiSpaces = {}
  BY DEF AsciiLetters, AsciiSpaces
<1>3. (AsciiLetters \cup {"_"}) \cap {"\""} = {}
  BY DEF AsciiLetters
<1>4. (AsciiLetters \cup {"_"}) \cap OperatorCharacters = {}
  BY DEF AsciiLetters, OperatorCharacters
<1>5. (AsciiLetters \cup {"_"}) \cap DelimiterCharacters = {}
  BY DEF AsciiLetters, DelimiterCharacters
<1>6. Digits \cap AsciiSpaces = {} /\ Digits \cap {"\""} = {}
  BY DEF Digits, AsciiSpaces
<1>7. Digits \cap OperatorCharacters = {} /\ Digits \cap DelimiterCharacters = {}
  BY DEF Digits, OperatorCharacters, DelimiterCharacters
<1>8. AsciiSpaces \cap {"\""} = {} /\ AsciiSpaces \cap OperatorCharacters = {}
      /\ AsciiSpaces \cap DelimiterCharacters = {}
  BY DEF AsciiSpaces, OperatorCharacters, DelimiterCharacters
<1>9. "\"" \notin OperatorCharacters /\ "\"" \notin DelimiterCharacters
  BY DEF OperatorCharacters, DelimiterCharacters
<1>10. OperatorCharacters \cap DelimiterCharacters = {}
  BY DEF OperatorCharacters, DelimiterCharacters
<1> QED BY <1>1, <1>2, <1>3, <1>4, <1>5, <1>6, <1>7, <1>8, <1>9, <1>10

\* A rune of two bytes is of one class, and so is a rune of one byte.
LEMMA ClassesApart ==
  ASSUME NEW rune
  PROVE  /\ isIdentStart(rune) =>
              /\ ~ IsDigit(rune) /\ ~ IsSpace(rune) /\ ~ IsQuote(rune)
              /\ ~ isOperator(rune) /\ ~ isDelimiter(rune)
         /\ IsDigit(rune) =>
              ~ IsSpace(rune) /\ ~ IsQuote(rune) /\ ~ isOperator(rune) /\ ~ isDelimiter(rune)
         /\ IsSpace(rune) => ~ IsQuote(rune) /\ ~ isOperator(rune) /\ ~ isDelimiter(rune)
         /\ IsQuote(rune) => ~ isOperator(rune) /\ ~ isDelimiter(rune)
         /\ isOperator(rune) => ~ isDelimiter(rune)
         /\ IsLineEnd(rune) => IsSpace(rune)
<1>1. ASSUME NEW a, rune = <<a>>
      PROVE  /\ isIdentStart(rune) <=> a \in AsciiLetters \cup {"_"}
             /\ IsDigit(rune) <=> a \in Digits
             /\ IsSpace(rune) <=> a \in AsciiSpaces
             /\ IsQuote(rune) <=> a \in {"\""}
             /\ isOperator(rune) <=> a \in OperatorCharacters
             /\ isDelimiter(rune) <=> a \in DelimiterCharacters
             /\ IsLineEnd(rune) <=> a \in LineEnds
  <2>1. \A bytes : rune \in Runes(bytes) <=> a \in bytes
    BY <1>1, RunesAre
  <2>2. \A leads : rune \notin Wide(leads)
    BY <1>1, WideIs
  <2>3. IsQuote(rune) <=> a \in {"\""}
    BY <1>1 DEF IsQuote
  <2> QED BY <2>1, <2>2, <2>3 DEF isIdentStart, IsDigit, IsSpace, isOperator, isDelimiter,
             IsLineEnd, LetterRunes, DigitRunes, SpaceRunes
<1>2. ASSUME NEW a, NEW b, rune = <<a, b>>
      PROVE  /\ isIdentStart(rune) => a \in LetterLeads
             /\ IsDigit(rune) => a \in DigitLeads
             /\ IsSpace(rune) => a \in SpaceLeads
             /\ ~ IsQuote(rune) /\ ~ isOperator(rune) /\ ~ isDelimiter(rune) /\ ~ IsLineEnd(rune)
  <2>1. \A bytes : rune \notin Runes(bytes)
    BY <1>2, RunesAre
  <2>2. \A leads : rune \in Wide(leads) => a \in leads
    BY <1>2, WideIs
  <2>3. ~ IsQuote(rune)
    BY <1>2 DEF IsQuote
  <2> QED BY <2>1, <2>2, <2>3 DEF isIdentStart, IsDigit, IsSpace, isOperator, isDelimiter,
             IsLineEnd, LetterRunes, DigitRunes, SpaceRunes
<1>3. CASE \E a : rune = <<a>>
  <2>1. PICK a : rune = <<a>>
    BY <1>3
  <2>2. LineEnds \subseteq AsciiSpaces
    BY DEF LineEnds, AsciiSpaces
  <2> QED BY <1>1, <2>1, <2>2, BytesApart
<1>4. CASE \E a, b : rune = <<a, b>>
  <2>1. PICK a, b : rune = <<a, b>>
    BY <1>4
  <2> QED BY <1>2, <2>1, RuneAssumption
<1>5. CASE (~ \E a : rune = <<a>>) /\ (~ \E a, b : rune = <<a, b>>)
  <2>1. (\A bytes : rune \notin Runes(bytes)) /\ (\A leads : rune \notin Wide(leads))
    BY <1>5 DEF Runes, Wide
  <2>2. ~ IsQuote(rune)
    BY <1>5 DEF IsQuote
  <2> QED BY <2>1, <2>2 DEF isIdentStart, IsDigit, IsSpace, isOperator, isDelimiter,
             IsLineEnd, LetterRunes, DigitRunes, SpaceRunes
<1> QED BY <1>3, <1>4, <1>5

\* What the classes of runes are made of.
LEMMA ClassesAre ==
  /\ (AsciiLetters \cup {"_"}) \subseteq Characters /\ LetterLeads \subseteq Leads
  /\ DigitLeads \subseteq Leads /\ SpaceLeads \subseteq Leads
BY CharactersAre DEF Leads

\* An identifier begins with a letter.
LEMMA IdentifierBegins ==
  ASSUME NEW t \in Seq(STRING), NEW i \in 1 .. Len(t), NEW j \in i .. Len(t),
         Words!IsIdentifier(SubSeq(t, i, j))
  PROVE  isIdentStart(RuneAt(t, i))
<1> DEFINE s == SubSeq(t, i, j)
<1>1. s \in Seq(STRING) /\ Len(s) = j + 1 - i
  BY PieceIs
<1>2. PICK k \in DOMAIN s : SubSeq(s, 1, k) \in LetterRunes
  BY DEF Words!IsIdentifier
<1>3. DOMAIN s = 1 .. Len(s)
  <2> HIDE DEF s
  <2> QED BY <1>1
<1>4. k \in 1 .. j + 1 - i
  <2> HIDE DEF s
  <2> QED BY <1>1, <1>3
<1>5. SubSeq(s, 1, k) = SubSeq(t, i, i + k - 1)
  <2>1. 1 <= k + 1 /\ k <= j + 1 - i /\ i + 1 - 1 = i /\ k \in Nat /\ i <= j + 1 /\ j <= Len(t)
    BY <1>4
  <2>2. SubSeq(s, 1, k) = SubSeq(t, i + 1 - 1, i + k - 1)
    <3> HIDE DEF s
    <3> QED BY <2>1, PieceOfPiece DEF s
  <2> QED BY <2>1, <2>2
<1>6. i + k - 1 \in i .. Len(t)
  BY <1>4
<1> HIDE DEF s
<1>7. SubSeq(t, i, i + k - 1) \in Runes(AsciiLetters \cup {"_"}) \cup Wide(LetterLeads)
  BY <1>2, <1>5 DEF LetterRunes
<1>8. RuneAt(t, i) \in Runes(AsciiLetters \cup {"_"}) \cup Wide(LetterLeads)
  <2> DEFINE m == i + k - 1
  <2> HIDE DEF m
  <2>1. m \in i .. Len(t) /\ SubSeq(t, i, m) \in Runes(AsciiLetters \cup {"_"}) \cup Wide(LetterLeads)
    BY <1>6, <1>7 DEF m
  <2> QED BY <2>1, ClassesAre, PieceIsRune
<1> QED BY <1>8 DEF isIdentStart, LetterRunes

\* A numeral begins with a digit.
LEMMA NumeralBegins ==
  ASSUME NEW s \in Seq(STRING), Words!NumeralParts(s) # {}
  PROVE  Len(s) > 0 /\ s[1] \in Digits
<1>1. PICK parts \in Words!NumeralParts(s) : TRUE
  OBVIOUS
<1>2. PICK a \in 1 .. Len(s), b \in 1 .. Len(s), c \in 1 .. Len(s) :
        parts = <<SubSeq(s, 1, a), SubSeq(s, a + 1, b), SubSeq(s, b + 1, c),
                  SubSeq(s, c + 1, Len(s))>>
  <2>1. parts \in Words!Divisions(s)
    BY <1>1 DEF Words!NumeralParts
  <2>2. PICK a \in 1 .. Len(s), b \in 1 .. Len(s), c \in 1 .. Len(s) :
          parts = Words!Cut(s, a, b, c)
    BY <2>1 DEF Words!Divisions
  <2> QED BY <2>2 DEF Words!Cut
<1>3. Words!AllDigits(SubSeq(s, 1, a))
  BY <1>1, <1>2 DEF Words!NumeralParts
<1>4. /\ SubSeq(s, 1, a) \in Seq(STRING) /\ Len(SubSeq(s, 1, a)) = a
      /\ SubSeq(s, 1, a)[1] = s[1]
  <2>1. /\ SubSeq(s, 1, a) \in Seq(STRING) /\ Len(SubSeq(s, 1, a)) = a + 1 - 1
        /\ \A k \in 1 .. a + 1 - 1 : SubSeq(s, 1, a)[k] = s[1 + k - 1]
    <3>1. 1 \in Nat \ {0} /\ a \in Nat /\ 1 <= a + 1 /\ a <= Len(s)
      OBVIOUS
    <3> QED BY <3>1, PieceIs
  <2> QED BY <2>1
<1> DEFINE d == SubSeq(s, 1, a)
<1>5. 1 \in DOMAIN d /\ d[1] = s[1]
  <2> HIDE DEF d
  <2> QED BY <1>4 DEF d
<1>6. <<s[1]>> \in DigitRunes
  <2> HIDE DEF d
  <2> QED BY <1>3, <1>5 DEF Words!AllDigits, d
<1>7. s[1] \in Digits
  BY <1>6, RunesAre, WideIs DEF DigitRunes
<1> QED BY <1>2, <1>7

\* A symbol begins with the character of an operator or a delimiter.
LEMMA SymbolBegins ==
  ASSUME NEW s, s \in Symbols
  PROVE  Len(s) > 0 /\ s[1] \in OperatorCharacters \cup DelimiterCharacters
<1>1. CASE s \in LongOperators
  BY <1>1 DEF LongOperators, OperatorCharacters
<1>2. CASE s \in PairOperators
  BY <1>2 DEF PairOperators, OperatorCharacters
<1>3. CASE s \in Runes(OperatorCharacters) \cup Runes(DelimiterCharacters)
  BY <1>3 DEF Runes
<1>4. CASE s = Ellipsis
  <2>1. s = <<".", ".", ".">> /\ "." \in DelimiterCharacters
    BY <1>4 DEF Ellipsis, DelimiterCharacters
  <2>2. Len(s) = 3 /\ s[1] = "."
    BY <2>1
  <2> QED BY <2>1, <2>2
<1>5. CASE s \in PairDelimiters
  <2>1. s = <<":", ":">> \/ s = <<"#", "#">>
    BY <1>5 DEF PairDelimiters
  <2>2. Len(s) = 2 /\ (s[1] = ":" \/ s[1] = "#")
    BY <2>1
  <2>3. ":" \in DelimiterCharacters /\ "#" \in DelimiterCharacters
    BY DEF DelimiterCharacters
  <2> QED BY <2>2, <2>3
<1> QED BY <1>1, <1>2, <1>3, <1>4, <1>5 DEF Symbols

\* What can be next, by the rune that is next.
LEMMA WordBegins ==
  ASSUME NEW t \in Seq(STRING), NEW i \in 1 .. Len(t), NEW j \in i .. Len(t)
  PROVE  LET s == SubSeq(t, i, j)
             rune == RuneAt(t, i)
         IN  /\ Words!IsIdentifier(s) => isIdentStart(rune)
             /\ Words!NumeralParts(s) # {} => IsDigit(rune)
             /\ Words!IsStringLiteral(s) => IsQuote(rune)
             /\ s \in Words!LineEnding => IsLineEnd(rune)
             /\ s \in Symbols => isOperator(rune) \/ isDelimiter(rune)
             /\ s \in Blanks => IsSpace(rune) /\ ~ IsLineEnd(rune)
<1> DEFINE s == SubSeq(t, i, j)
           rune == RuneAt(t, i)
<1>1. s \in Seq(STRING) /\ Len(s) = j + 1 - i /\ s[1] = t[i]
  BY PieceIs
<1>2. \A bytes : t[i] \in bytes /\ t[i] \in Characters => rune \in Runes(bytes)
  BY RuneOf, ClassesAre
<1>3. Words!IsIdentifier(s) => isIdentStart(rune)
  BY IdentifierBegins
<1> HIDE DEF s, rune
<1>4. Words!NumeralParts(s) # {} => IsDigit(rune)
  BY <1>1, <1>2, NumeralBegins, CharactersAre DEF IsDigit, DigitRunes
<1>5. Words!IsStringLiteral(s) => IsQuote(rune)
  <2> SUFFICES ASSUME s[1] = "\"" PROVE IsQuote(rune)
    BY DEF Words!IsStringLiteral
  <2>1. rune \in Runes({"\""})
    BY <1>1, <1>2, CharactersAre
  <2> QED BY <2>1 DEF Runes, IsQuote
<1>6. s \in Words!LineEnding => IsLineEnd(rune)
  <2> SUFFICES ASSUME s \in Words!LineEnding PROVE IsLineEnd(rune)
    OBVIOUS
  <2>1. s[1] \in LineEnds
    BY DEF Words!LineEnding, LineEnds
  <2> QED BY <1>1, <1>2, <2>1, CharactersAre DEF IsLineEnd
<1>7. s \in Symbols => isOperator(rune) \/ isDelimiter(rune)
  BY <1>1, <1>2, SymbolBegins, CharactersAre DEF isOperator, isDelimiter
<1>8. ASSUME s \in Blanks PROVE IsSpace(rune) /\ ~ IsLineEnd(rune)
  <2>1. s \in Runes(AsciiSpaces) \cup Wide(SpaceLeads) /\ s \notin Runes(LineEnds)
    BY <1>8 DEF Blanks, SpaceRunes
  <2>2. rune \in Runes(AsciiSpaces) \cup Wide(SpaceLeads) /\ j = i + Len(rune) - 1
    BY <2>1, CharactersAre, ClassesAre, PieceIsRune DEF s, rune
  <2>3. rune \notin Runes(LineEnds)
    <3> SUFFICES ASSUME rune \in Runes(LineEnds) PROVE FALSE
      OBVIOUS
    <3>1. t[i] \in LineEnds /\ rune = <<t[i]>>
      BY ClassesAre, RuneOf DEF rune
    <3>2. j = i
      BY <2>2, <3>1
    <3> QED BY <2>1, <3>1, <3>2, PieceRune DEF s
  <2> QED BY <2>2, <2>3 DEF IsSpace, SpaceRunes, IsLineEnd
<1> QED BY <1>3, <1>4, <1>5, <1>6, <1>7, <1>8 DEF s, rune

-----------------------------------------------------------------------------
(***************************************************************************)
(* Steps: a token read, a gap passed, a text refused.                      *)
(***************************************************************************)
\* A sequence is the function it is.
LEMMA AsFunction ==
  ASSUME NEW S, NEW s \in Seq(S)
  PROVE  s = [k \in 1 .. Len(s) |-> s[k]]
OBVIOUS

\* A token more is a word more.
LEMMA WordsAppend ==
  ASSUME NEW list, list \in Seq(Range(list)), NEW token
  PROVE  WordsOf(Append(list, token)) = Append(WordsOf(list), WordOf(token))
<1> DEFINE more == Append(list, token)
           words == WordsOf(list)
           new == WordsOf(more)
           x == WordOf(token)
<1>1. /\ DOMAIN list = 1 .. Len(list) /\ Len(list) \in Nat /\ DOMAIN more = 1 .. Len(list) + 1
      /\ \A n \in 1 .. Len(list) : more[n] = list[n]
      /\ more[Len(list) + 1] = token
  BY AppendIs
<1> DEFINE n == Len(list)
<1> HIDE DEF more, n
<1>2. words = [k \in 1 .. n |-> WordOf(list[k])]
  BY <1>1 DEF WordsOf, n
<1>3. words = [k \in 1 .. n |-> words[k]] /\ n \in Nat
  <2> HIDE DEF words
  <2> QED BY <1>1, <1>2 DEF n
<1> HIDE DEF words
<1>4. words \in Seq(Range(words)) /\ Len(words) = n
  BY <1>3, SequenceIs
<1> HIDE DEF x
<1>5. /\ Append(words, x) \in Seq(Range(Append(words, x)))
      /\ DOMAIN Append(words, x) = 1 .. n + 1 /\ Len(Append(words, x)) = n + 1
      /\ \A k \in 1 .. n : Append(words, x)[k] = words[k]
      /\ Append(words, x)[n + 1] = x
  BY <1>4, AppendIs
<1>6. Append(words, x) = [k \in 1 .. n + 1 |-> Append(words, x)[k]]
  <2> PICK s : s = Append(words, x)
    OBVIOUS
  <2>1. s \in Seq(Range(s)) /\ Len(s) = n + 1
    BY <1>5
  <2>2. s = [k \in 1 .. Len(s) |-> s[k]]
    BY <2>1, AsFunction
  <2> QED BY <2>1, <2>2
<1>7. new = [k \in 1 .. n + 1 |-> WordOf(more[k])]
  BY <1>1 DEF WordsOf, n
<1>8. ASSUME NEW k \in 1 .. n + 1 PROVE WordOf(more[k]) = Append(words, x)[k]
  <2>1. k \in 1 .. n \/ k = n + 1
    BY <1>3
  <2>2. CASE k \in 1 .. n
    <3>1. more[k] = list[k] /\ words[k] = WordOf(list[k])
      BY <1>1, <1>2, <2>2 DEF n
    <3> QED BY <1>5, <2>2, <3>1
  <2>3. CASE k = n + 1
    BY <1>1, <1>5, <2>3 DEF n, x
  <2> QED BY <2>1, <2>2, <2>3
<1> HIDE DEF new
<1>9. new = Append(words, x)
  <2> PICK s : s = Append(words, x)
    OBVIOUS
  <2> QED BY <1>6, <1>7, <1>8
<1> QED BY <1>9 DEF more, words, new, x

\* What is being read is what the words are of.
LEMMA StillReading ==
  ASSUME Reading, index \in Nat, index <= Len(text)
  PROVE  TokensRead = tokens /\ ~(refusal # <<>>)
BY DEF Reading, TokensRead

\* What Emit appends.
LEMMA NewTokenIs ==
  ASSUME NEW kind, NEW value, NEW end
  PROVE  /\ NewToken(kind, value, end).kind = kind
         /\ NewToken(kind, value, end).offset = index
         /\ NewToken(kind, value, end).length = end - index
BY DEF NewToken

\* A token for the longest word, which is not wrong, is a step of CovaWords.
LEMMA ReadsWord ==
  ASSUME LexType, Reading, NEW j \in index .. Len(text),
         NEW kind, NEW value, Emit(kind, value, j + 1), index' = j + 1,
         Words!LastOfGap = 0, Words!IsWord(SubSeq(text, index, j)),
         \A k \in index .. Len(text) : Words!IsWord(SubSeq(text, index, k)) => k <= j,
         kind \in Words!KindsOf(SubSeq(text, index, j)),
         ~ Words!IsWrong(SubSeq(text, index, j))
  PROVE  Words!Next
<1>1. /\ text \in Seq(STRING) /\ index \in 1 .. Len(text) + 1 /\ index \in Nat
      /\ index <= Len(text) /\ tokens \in Seq(Range(tokens)) /\ j # 0
  BY DEF LexType
<1>2. Words!LastOfWord = j
  BY <1>1, WordEndsAt
<1>3. TokensRead = tokens /\ ~(refusal # <<>>)
  BY <1>1, StillReading
<1> PICK e : e = j + 1
  OBVIOUS
<1> DEFINE token == NewToken(kind, value, e)
<1>4. tokens' = Append(tokens, token) /\ text' = text /\ refusal' = refusal
  BY DEF Emit
<1>5. WordOf(token) = <<index, j, kind>> /\ token.length # 0
  <2>1. PICK i \in Nat : i = index
    BY <1>1
  <2>2. i + (j + 1 - i) - 1 = j /\ j + 1 - i # 0
    BY <2>1
  <2>3. token.offset = index /\ token.length = e - index /\ token.kind = kind
    BY NewTokenIs
  <2> HIDE DEF token
  <2> QED BY <2>1, <2>2, <2>3 DEF WordOf
<1>6. TokensRead' = tokens'
  <2>1. Last(tokens') = token
    <3> HIDE DEF token
    <3>1. Len(tokens') = Len(tokens) + 1 /\ tokens'[Len(tokens) + 1] = token
      BY <1>1, <1>4, AppendIs
    <3> QED BY <3>1 DEF Last
  <2> HIDE DEF token
  <2> QED BY <1>5, <2>1 DEF TokensRead
<1>7. WordsOf(TokensRead)' = Append(WordsOf(TokensRead), <<index, j, kind>>)
  <2> HIDE DEF token
  <2>1. WordsOf(tokens') = Append(WordsOf(tokens), WordOf(token))
    BY <1>1, <1>4, WordsAppend
  <2>2. WordsOf(TokensRead)' = WordsOf(tokens')
    BY <1>6 DEF WordsOf, WordOf
  <2> QED BY <1>3, <1>5, <2>1, <2>2
<1>8. Words!ReadWord(j)
  BY <1>1, <1>4, <1>7 DEF Words!ReadWord, Words!Bytes
<1> QED BY <1>1, <1>2, <1>3, <1>8 DEF Words!Next

\* Passing the longest gap is a step of CovaWords.
LEMMA PassesGap ==
  ASSUME LexType, Reading, NEW j \in index .. Len(text), index' = j + 1,
         text' = text, tokens' = tokens, refusal' = refusal,
         Words!IsGap(SubSeq(text, index, j)),
         \A k \in index .. Len(text) : Words!IsGap(SubSeq(text, index, k)) => k <= j
  PROVE  Words!Next
<1>1. /\ text \in Seq(STRING) /\ index \in 1 .. Len(text) + 1 /\ index \in Nat
      /\ index <= Len(text) /\ j # 0
  BY DEF LexType
<1>2. Words!LastOfGap = j
  BY <1>1, GapEndsAt
<1>3. ~(refusal # <<>>)
  BY <1>1, StillReading
<1>4. WordsOf(TokensRead)' = WordsOf(TokensRead)
  BY DEF TokensRead, WordsOf, WordOf
<1>5. Words!PassGap(j)
  BY <1>1, <1>4 DEF Words!PassGap
<1> QED BY <1>1, <1>2, <1>3, <1>5 DEF Words!Next

\* Refusing what is no word, or a wrong one, is a step of CovaWords.
LEMMA RefusesText ==
  ASSUME LexType, Reading, index <= Len(text), NEW what, Refuse(what),
         Words!LastOfGap = 0,
         \/ Words!LastOfWord = 0
         \/ Words!IsWrong(SubSeq(text, index, Words!LastOfWord))
  PROVE  Words!Next
<1>1. index \in Nat
  BY DEF LexType
<1>2. ~(refusal # <<>>)
  BY <1>1, StillReading
<1>3. text' = text /\ index' = index /\ tokens' = tokens /\ (refusal' # <<>>)
  BY DEF Refuse
<1>4. WordsOf(TokensRead)' = WordsOf(TokensRead)
  BY <1>3 DEF TokensRead, WordsOf, WordOf
<1>5. (refusal # <<>>)' = TRUE
  BY <1>3
<1>6. Words!RefuseText(Words!LastOfWord)
  BY <1>3, <1>4, <1>5 DEF Words!RefuseText, Words!Bytes
<1> QED BY <1>2, <1>6 DEF Words!Next

-----------------------------------------------------------------------------
(***************************************************************************)
(* Comments, blanks and line endings.                                      *)
(***************************************************************************)
\* A piece begins with two bytes if the text does at that place.
LEMMA BeginsIs ==
  ASSUME NEW s \in Seq(STRING), NEW a, NEW b
  PROVE  Words!Begins(<<a, b>>, s) <=> Len(s) >= 2 /\ s[1] = a /\ s[2] = b
<1>1. Len(<<a, b>>) = 2 /\ <<a, b>>[1] = a /\ <<a, b>>[2] = b
  OBVIOUS
<1>2. CASE Len(s) >= 2
  <2> DEFINE p == SubSeq(s, 1, 2)
  <2>1. p \in Seq(STRING) /\ Len(p) = 2 /\ p[1] = s[1] /\ p[2] = s[2]
    <3>1. /\ p \in Seq(STRING) /\ Len(p) = 2 + 1 - 1
          /\ \A k \in 1 .. 2 + 1 - 1 : p[k] = s[1 + k - 1]
      <4>1. 1 \in Nat \ {0} /\ 2 \in Nat /\ 1 <= 2 + 1 /\ 2 <= Len(s)
        BY <1>2
      <4> QED BY <4>1, PieceIs
    <3> HIDE DEF p
    <3> QED BY <3>1
  <2> HIDE DEF p
  <2>2. p = <<s[1], s[2]>>
    BY <2>1, ShortIs
  <2>3. p = <<a, b>> <=> s[1] = a /\ s[2] = b
    BY <1>1, <2>1, <2>2
  <2> QED BY <1>1, <1>2, <2>3 DEF Words!Begins, p
<1>3. CASE ~(Len(s) >= 2)
  BY <1>1, <1>3 DEF Words!Begins
<1> QED BY <1>2, <1>3

\* A byte, and not the lack of one.
IsByte(b) == b # ""

\* What Opens says of the two bytes that are next.
LEMMA OpensNext ==
  ASSUME LexType, index <= Len(text), NEW a, NEW b, IsByte(b)
  PROVE  Opens(a, b) <=> index + 1 <= Len(text) /\ text[index] = a /\ text[index + 1] = b
<1>1. text \in Seq(STRING) /\ index \in 1 .. Len(text)
  BY AtIndex
<1> PICK i, n : i = index /\ n = Len(text)
  OBVIOUS
<1>2. At(text, i) = text[i]
  BY <1>1, AtInside
<1>3. i + 1 \in 1 .. n <=> i + 1 <= n
  BY <1>1
<1>4. At(text, i + 1) = IF i + 1 \in 1 .. n THEN text[i + 1] ELSE ""
  BY <1>1, AtInside, AtOutside
<1> QED BY <1>2, <1>3, <1>4 DEF Opens, IsByte

\* What begins as a comment does.
LEMMA PieceBegins ==
  ASSUME LexType, NEW j \in index .. Len(text), NEW a, NEW b, IsByte(b),
         Words!Begins(<<a, b>>, SubSeq(text, index, j))
  PROVE  Opens(a, b) /\ index + 1 <= j
<1> PICK i : i = index
  OBVIOUS
<1>1. text \in Seq(STRING) /\ i \in 1 .. Len(text) /\ i <= Len(text) /\ j \in i .. Len(text)
  BY DEF LexType
<1> DEFINE s == SubSeq(text, i, j)
<1>2. s \in Seq(STRING) /\ Len(s) = j + 1 - i /\ \A k \in 1 .. j + 1 - i : s[k] = text[i + k - 1]
  BY <1>1, PieceIs
<1>3. Words!Begins(<<a, b>>, s)
  OBVIOUS
<1> HIDE DEF s
<1>4. Len(s) >= 2 /\ s[1] = a /\ s[2] = b
  BY <1>2, <1>3, BeginsIs
<1>5. i + 1 <= j /\ 1 \in 1 .. j + 1 - i /\ 2 \in 1 .. j + 1 - i /\ i + 1 - 1 = i /\ i + 2 - 1 = i + 1
  <2>1. Len(s) >= 2 /\ Len(s) = j + 1 - i
    BY <1>2, <1>4
  <2> QED BY <1>1, <2>1
<1>6. text[i] = a /\ text[i + 1] = b
  BY <1>2, <1>4, <1>5
<1>7. i + 1 <= Len(text)
  BY <1>1, <1>5
<1> QED BY <1>1, <1>5, <1>6, <1>7, OpensNext

\* What begins no comment and is not blank begins no gap.
LEMMA NoGapHere ==
  ASSUME LexType, index <= Len(text), IsSpace(RuneAt(text, index)) => IsLineEnd(RuneAt(text, index)),
         ~ Opens("/", "/"), ~ Opens("/", "*")
  PROVE  Words!LastOfGap = 0
<1>1. text \in Seq(STRING) /\ index \in 1 .. Len(text)
  BY AtIndex
<1>2. ASSUME NEW j \in index .. Len(text) PROVE ~ Words!IsGap(SubSeq(text, index, j))
  <2>1. SubSeq(text, index, j) \notin Blanks
    BY <1>1, WordBegins
  <2>2. IsByte("/") /\ IsByte("*")
    BY DEF IsByte
  <2>3. ~ Words!IsLineComment(SubSeq(text, index, j))
    BY <2>2, PieceBegins DEF Words!IsLineComment
  <2>4. ~ Words!IsBlockComment(SubSeq(text, index, j))
    BY <2>2, PieceBegins DEF Words!IsBlockComment
  <2> QED BY <2>1, <2>3, <2>4 DEF Words!IsGap
<1> QED BY <1>2, NoGap

\* A word that is no numeral is not wrong.
LEMMA NotWrong ==
  ASSUME LexType, index <= Len(text), ~ IsDigit(RuneAt(text, index)), ~ Opens("/", "*"),
         NEW j \in index .. Len(text)
  PROVE  ~ Words!IsWrong(SubSeq(text, index, j))
<1>1. text \in Seq(STRING) /\ index \in 1 .. Len(text)
  BY AtIndex
<1> DEFINE s == SubSeq(text, index, j)
<1>2. ~ Words!OpensComment
  <2>1. Len(text) \in index .. Len(text) /\ IsByte("*")
    BY <1>1 DEF IsByte
  <2>2. ~ Words!Begins(<<"/", "*">>, SubSeq(text, index, Len(text)))
    BY <2>1, PieceBegins
  <2> QED BY <2>2 DEF Words!OpensComment, Words!Bytes
<1>3. Words!NumeralParts(s) = {}
  BY <1>1, WordBegins
<1>4. s \in Seq(STRING) /\ Len(s) > 0 /\ s[1] = text[index]
  <2> PICK i : i = index
    OBVIOUS
  <2>1. SubSeq(text, i, j) \in Seq(STRING) /\ Len(SubSeq(text, i, j)) = j + 1 - i
        /\ \A k \in 1 .. j + 1 - i : SubSeq(text, i, j)[k] = text[i + k - 1]
    BY <1>1, PieceIs
  <2>2. 1 \in 1 .. j + 1 - i /\ i + 1 - 1 = i /\ j + 1 - i > 0
    BY <1>1
  <2> QED BY <2>1, <2>2
<1> HIDE DEF s
<1>5. ~ Words!AllDigits(s)
  <2> SUFFICES ASSUME Words!AllDigits(s) PROVE FALSE
    OBVIOUS
  <2>1. 1 \in DOMAIN s
    BY <1>4
  <2>2. <<text[index]>> \in DigitRunes
    BY <1>4, <2>1 DEF Words!AllDigits
  <2>3. text[index] \in Digits
    BY <2>2, RunesAre, WideIs DEF DigitRunes
  <2>4. RuneAt(text, index) \in Runes(Digits)
    BY <1>1, <2>3, CharactersAre, ClassesAre, RuneOf
  <2> QED BY <2>4 DEF IsDigit, DigitRunes
<1> QED BY <1>2, <1>3, <1>5 DEF Words!IsWrong, Words!Dangling, s

\* What kinds of word can be next, by the rune that is next.
LEMMA KindsHere ==
  ASSUME NEW t \in Seq(STRING), NEW i \in 1 .. Len(t), NEW j \in i .. Len(t)
  PROVE  LET s == SubSeq(t, i, j)
             rune == RuneAt(t, i)
         IN  /\ isIdentStart(rune) =>
                  Words!KindsOf(s) = IF Words!IsIdentifier(s)
                                     THEN {IF Joined(s) \in keywords THEN Joined(s) ELSE "ident"}
                                     ELSE {}
             /\ IsDigit(rune) =>
                  Words!KindsOf(s) = {Words!NumeralKind(parts) : parts \in Words!NumeralParts(s)}
             /\ IsQuote(rune) =>
                  Words!KindsOf(s) = IF Words!IsStringLiteral(s) THEN {"string"} ELSE {}
             /\ IsLineEnd(rune) =>
                  Words!KindsOf(s) = IF s \in Words!LineEnding THEN {"newline"} ELSE {}
             /\ isOperator(rune) \/ isDelimiter(rune) =>
                  Words!KindsOf(s) = IF s \in Symbols THEN {Joined(s)} ELSE {}
             /\ ~ Recognized(rune) => Words!KindsOf(s) = {}
<1> DEFINE s == SubSeq(t, i, j)
           rune == RuneAt(t, i)
           numerals == {Words!NumeralKind(parts) : parts \in Words!NumeralParts(s)}
<1>1. /\ Words!IsIdentifier(s) => isIdentStart(rune)
      /\ Words!NumeralParts(s) # {} => IsDigit(rune)
      /\ Words!IsStringLiteral(s) => IsQuote(rune)
      /\ s \in Words!LineEnding => IsLineEnd(rune)
      /\ s \in Symbols => isOperator(rune) \/ isDelimiter(rune)
  BY WordBegins
<1>2. Words!NumeralParts(s) = {} => numerals = {}
  OBVIOUS
<1>3. Words!KindsOf(s) =
        (IF Words!IsIdentifier(s)
         THEN {IF Joined(s) \in keywords THEN Joined(s) ELSE "ident"} ELSE {})
        \cup numerals
        \cup (IF Words!IsStringLiteral(s) THEN {"string"} ELSE {})
        \cup (IF s \in Words!LineEnding THEN {"newline"} ELSE {})
        \cup (IF s \in Symbols THEN {Joined(s)} ELSE {})
  BY DEF Words!KindsOf
<1> HIDE DEF s, rune, numerals
<1>4. /\ isIdentStart(rune) =>
           /\ ~ IsDigit(rune) /\ ~ IsSpace(rune) /\ ~ IsQuote(rune)
           /\ ~ isOperator(rune) /\ ~ isDelimiter(rune)
      /\ IsDigit(rune) =>
           ~ IsSpace(rune) /\ ~ IsQuote(rune) /\ ~ isOperator(rune) /\ ~ isDelimiter(rune)
      /\ IsSpace(rune) => ~ IsQuote(rune) /\ ~ isOperator(rune) /\ ~ isDelimiter(rune)
      /\ IsQuote(rune) => ~ isOperator(rune) /\ ~ isDelimiter(rune)
      /\ IsLineEnd(rune) => IsSpace(rune)
  BY ClassesApart
<1>5. isIdentStart(rune) =>
        Words!KindsOf(s) = IF Words!IsIdentifier(s)
                           THEN {IF Joined(s) \in keywords THEN Joined(s) ELSE "ident"} ELSE {}
  BY <1>1, <1>2, <1>3, <1>4
<1>6. IsDigit(rune) => Words!KindsOf(s) = numerals
  BY <1>1, <1>3, <1>4
<1>7. IsQuote(rune) => Words!KindsOf(s) = IF Words!IsStringLiteral(s) THEN {"string"} ELSE {}
  BY <1>1, <1>2, <1>3, <1>4
<1>8. IsLineEnd(rune) => Words!KindsOf(s) = IF s \in Words!LineEnding THEN {"newline"} ELSE {}
  BY <1>1, <1>2, <1>3, <1>4
<1>9. isOperator(rune) \/ isDelimiter(rune) =>
        Words!KindsOf(s) = IF s \in Symbols THEN {Joined(s)} ELSE {}
  BY <1>1, <1>2, <1>3, <1>4
<1>10. ~ Recognized(rune) => Words!KindsOf(s) = {}
  BY <1>1, <1>2, <1>3, <1>4 DEF Recognized, isIdentPart
<1> QED BY <1>5, <1>6, <1>7, <1>8, <1>9, <1>10 DEF s, rune, numerals

\* What a slash begins is no blank.
LEMMA SlashRune ==
  ASSUME LexType, NEW b, IsByte(b), Opens("/", b)
  PROVE  /\ isOperator(RuneAt(text, index)) /\ ~ IsSpace(RuneAt(text, index))
         /\ text \in Seq(STRING) /\ index \in 1 .. Len(text) /\ index + 1 \in 1 .. Len(text)
         /\ index <= Len(text) /\ text[index] = "/" /\ text[index + 1] = b
<1>1. /\ index \in 1 .. Len(text) /\ index + 1 \in 1 .. Len(text)
      /\ text[index] = "/" /\ text[index + 1] = b
  <2>1. text \in Seq(STRING) /\ index \in Nat
    BY DEF LexType
  <2>2. "/" # "" /\ b # ""
    BY DEF IsByte
  <2> QED BY <2>1, <2>2, OpensIs
<1>2. text \in Seq(STRING)
  BY DEF LexType
<1>3. "/" \in OperatorCharacters /\ OperatorCharacters \subseteq Characters
  BY CharactersAre DEF OperatorCharacters
<1>4. isOperator(RuneAt(text, index))
  BY <1>1, <1>2, <1>3, ClassesAre, RuneOf DEF isOperator
<1>5. index <= Len(text)
  BY <1>1
<1> QED BY <1>1, <1>2, <1>4, <1>5, ClassesApart

\* Blank passes the longest gap.
LEMMA BlankPasses ==
  ASSUME LexType, Blank PROVE Words!Next
<1>1. Reading /\ index <= Len(text)
  BY DEF Blank, Meets
<1>2. text \in Seq(STRING) /\ index \in 1 .. Len(text)
  BY <1>1, AtIndex
<1>3. IsSpace(RuneAt(text, index)) /\ ~ IsLineEnd(RuneAt(text, index))
  BY DEF Blank, Meets, Rune
<1>4. /\ index' = index + Len(RuneAt(text, index))
      /\ text' = text /\ tokens' = tokens /\ refusal' = refusal
  BY DEF Blank, Rune
<1> PICK i : i = index
  OBVIOUS
<1> DEFINE rune == RuneAt(text, i)
           j == i + Len(rune) - 1
<1>5. \A k \in i .. Len(text) :
        SubSeq(text, i, k) \in SpaceRunes <=> rune \in SpaceRunes /\ k = j
  BY <1>2, CharactersAre, ClassesAre, PieceIsRune DEF SpaceRunes
<1>6. j \in i .. Len(text)
  <2>1. /\ rune = <<text[i]>> \/ (rune = <<text[i], text[i + 1]>> /\ i + 1 <= Len(text))
    BY <1>2, RuneAtIs
  <2>2. \A a, b : Len(<<a>>) = 1 /\ Len(<<a, b>>) = 2
    OBVIOUS
  <2>3. Len(rune) = 1 \/ (Len(rune) = 2 /\ i + 1 <= Len(text))
    BY <2>1, <2>2
  <2> PICK l : l = Len(rune)
    OBVIOUS
  <2> HIDE DEF rune
  <2>4. i + l - 1 \in i .. Len(text)
    BY <1>2, <2>3
  <2> QED BY <2>4
<1>7. i + Len(rune) = j + 1
  <2>1. Len(rune) \in Nat
    BY <1>6, <1>2, RuneAtIs
  <2> HIDE DEF rune
  <2> QED BY <1>2, <2>1
<1> HIDE DEF rune, j
<1>8. SubSeq(text, i, j) \in Blanks
  <2>1. SubSeq(text, i, j) \in SpaceRunes
    BY <1>3, <1>5, <1>6 DEF IsSpace, rune
  <2>2. SubSeq(text, i, j) \notin Runes(LineEnds)
    <3> SUFFICES ASSUME SubSeq(text, i, j) \in Runes(LineEnds) PROVE FALSE
      OBVIOUS
    <3>1. text[i] \in LineEnds
      BY <1>2, <1>6, PieceRune
    <3>2. rune \in Runes(LineEnds)
      BY <1>2, <3>1, CharactersAre, ClassesAre, RuneOf DEF rune
    <3> QED BY <1>3, <3>2 DEF rune, IsLineEnd
  <2> QED BY <2>1, <2>2 DEF Blanks
<1>9. ASSUME NEW k \in i .. Len(text), Words!IsGap(SubSeq(text, i, k)) PROVE k <= j
  <2>1. IsByte("/") /\ IsByte("*")
    BY DEF IsByte
  <2>2. ~ Opens("/", "/") /\ ~ Opens("/", "*")
    BY <1>3, <2>1, SlashRune
  <2>3. SubSeq(text, i, k) \in Blanks
    BY <1>9, <2>1, <2>2, PieceBegins DEF Words!IsGap, Words!IsLineComment, Words!IsBlockComment
  <2>4. k = j
    BY <1>5, <2>3 DEF Blanks
  <2> QED BY <1>6, <2>4
<1>10. Words!IsGap(SubSeq(text, i, j))
  BY <1>8 DEF Words!IsGap
<1>11. index' = j + 1
  BY <1>4, <1>7 DEF rune
<1> QED BY <1>1, <1>4, <1>6, <1>9, <1>10, <1>11, PassesGap

\* A stretch of one byte or two.
ShortPiece(t, i, j) ==
  /\ \A a : SubSeq(t, i, j) = <<a>> <=> j = i /\ t[i] = a
  /\ \A a, b : SubSeq(t, i, j) = <<a, b>> <=> j = i + 1 /\ t[i] = a /\ t[i + 1] = b

\* The stretches of one byte and of two.
LEMMA PieceShort ==
  ASSUME NEW t \in Seq(STRING), NEW i \in 1 .. Len(t), NEW j \in i .. Len(t)
  PROVE  ShortPiece(t, i, j)
<1> DEFINE s == SubSeq(t, i, j)
<1>1. s \in Seq(STRING) /\ Len(s) = j + 1 - i /\ \A k \in 1 .. j + 1 - i : s[k] = t[i + k - 1]
  BY PieceIs
<1> HIDE DEF s
<1>2. s[1] = t[i]
  BY <1>1
<1>3. j # i => s[2] = t[i + 1]
  BY <1>1
<1>4. (j = i <=> Len(s) = 1) /\ (j = i + 1 <=> Len(s) = 2)
  BY <1>1
<1>5. (Len(s) = 1 => s = <<s[1]>>) /\ (Len(s) = 2 => s = <<s[1], s[2]>>)
  BY <1>1, ShortIs
<1>6. \A a, b : /\ Len(<<a>>) = 1 /\ <<a>>[1] = a
                /\ Len(<<a, b>>) = 2 /\ <<a, b>>[1] = a /\ <<a, b>>[2] = b
  OBVIOUS
<1>7. i + 1 # i
  OBVIOUS
<1>8. \A a : s = <<a>> <=> j = i /\ t[i] = a
  BY <1>2, <1>4, <1>5, <1>6
<1>9. \A a, b : s = <<a, b>> <=> j = i + 1 /\ t[i] = a /\ t[i + 1] = b
  BY <1>2, <1>3, <1>4, <1>5, <1>6, <1>7
<1> QED BY <1>8, <1>9 DEF s, ShortPiece

\* NewlineToken reads the longest line ending.
LEMMA NewlineReads ==
  ASSUME LexType, NewlineToken PROVE Words!Next
<1>1. Reading /\ index <= Len(text) /\ IsLineEnd(RuneAt(text, index))
  BY DEF NewlineToken, Meets, Rune
<1>2. text \in Seq(STRING) /\ index \in 1 .. Len(text)
  BY <1>1, AtIndex
<1> PICK i : i = index
  OBVIOUS
<1> PICK e : e = LineEndAfter(text, i)
  OBVIOUS
<1>3. text[i] \in LineEnds
  BY <1>1, <1>2, ClassesAre, RuneOf DEF IsLineEnd
<1>4. /\ e \in i + 1 .. Len(text) + 1
      /\ \/ e = i + 1 /\ ~(text[i] = "\r" /\ At(text, i + 1) = "\n")
         \/ e = i + 2 /\ text[i] = "\r" /\ text[i + 1] = "\n"
  BY <1>2, <1>3, LineEndAfterIs
<1>5. Emit("newline", "", e) /\ index' = e
  BY DEF NewlineToken
<1>6. PICK j : e = j + 1 /\ j \in i .. Len(text)
  <2>1. e = (e - 1) + 1 /\ e - 1 \in i .. Len(text)
    BY <1>2, <1>4
  <2> QED BY <2>1
<1>7. \A k \in i .. Len(text) : SubSeq(text, i, k) \in Words!LineEnding <=>
        k = i \/ (k = i + 1 /\ text[i] = "\r" /\ text[i + 1] = "\n")
  <2> TAKE k \in i .. Len(text)
  <2>1. ShortPiece(text, i, k)
    BY <1>2, PieceShort
  <2>2. text[i] = "\n" \/ text[i] = "\r"
    BY <1>3 DEF LineEnds
  <2> QED BY <2>1, <2>2 DEF Words!LineEnding, ShortPiece
<1>8. \A k \in i .. Len(text) :
        Words!KindsOf(SubSeq(text, i, k)) =
          IF SubSeq(text, i, k) \in Words!LineEnding THEN {"newline"} ELSE {}
  BY <1>1, <1>2, KindsHere
<1>9. SubSeq(text, i, j) \in Words!LineEnding
  <2>1. j = i \/ (j = i + 1 /\ text[i] = "\r" /\ text[i + 1] = "\n")
    BY <1>2, <1>4, <1>6
  <2> QED BY <1>6, <1>7, <2>1
<1>10. ASSUME NEW k \in i .. Len(text), Words!IsWord(SubSeq(text, i, k)) PROVE k <= j
  <2>1. SubSeq(text, i, k) \in Words!LineEnding
    BY <1>8, <1>10 DEF Words!IsWord
  <2>2. k = i \/ (k = i + 1 /\ text[i] = "\r" /\ text[i + 1] = "\n")
    BY <1>7, <2>1
  <2>3. k = i + 1 => At(text, i + 1) = text[i + 1]
    <3>1. k = i + 1 => i + 1 \in 1 .. Len(text)
      BY <1>2
    <3> QED BY <1>2, <3>1, AtInside
  <2>4. k = i \/ (k = i + 1 /\ e = i + 2)
    BY <1>4, <2>2, <2>3
  <2> QED BY <1>2, <1>6, <2>4
<1>11. "newline" \in Words!KindsOf(SubSeq(text, i, j)) /\ Words!IsWord(SubSeq(text, i, j))
  BY <1>6, <1>8, <1>9 DEF Words!IsWord
<1>12. ~ Opens("/", "/") /\ ~ Opens("/", "*")
  <2>1. IsByte("/") /\ IsByte("*")
    BY DEF IsByte
  <2> QED BY <1>1, <2>1, SlashRune, ClassesApart
<1>13. Words!LastOfGap = 0
  BY <1>1, <1>12, NoGapHere
<1>14. ~ Words!IsWrong(SubSeq(text, index, j))
  BY <1>1, <1>6, <1>12, ClassesApart, NotWrong
<1> QED BY <1>1, <1>5, <1>6, <1>10, <1>11, <1>13, <1>14, ReadsWord

-----------------------------------------------------------------------------
(***************************************************************************)
(* Operators and delimiters: the longest symbol.                           *)
(***************************************************************************)
\* A symbol is the longest of those that can be next.
LEMMA BetweenIs ==
  ASSUME NEW t \in Seq(STRING), NEW i \in 1 .. Len(t), NEW j \in i .. Len(t)
  PROVE  Between(t, i, j + 1) = SubSeq(t, i, j)
<1> PICK n : n = (j + 1) - 1
  OBVIOUS
<1>1. n = j /\ n \in Int /\ Len(t) \in Int /\ n <= Len(t)
  OBVIOUS
<1>2. Min({n, Len(t)}) = j
  BY <1>1, MinOfTwo
<1>3. Between(t, i, j + 1) = SubSeq(t, i, Min({n, Len(t)}))
  BY Zenon DEF Between
<1> QED BY <1>2, <1>3

SymbolSets(longs, pairs) ==
  /\ \A s \in longs : Len(s) = 3
  /\ \A s \in pairs : Len(s) = 2

\* What takes three bytes, else two, else one, takes the longest symbol.
LEMMA LongestSymbol ==
  ASSUME NEW t \in Seq(STRING), NEW i \in 1 .. Len(t), NEW longs, NEW pairs,
         SymbolSets(longs, pairs), NEW chars, t[i] \in chars,
         NEW e, e = IF Between(t, i, i + 3) \in longs THEN i + 3
                    ELSE IF Between(t, i, i + 2) \in pairs THEN i + 2 ELSE i + 1
  PROVE  /\ e - 1 \in i .. Len(t)
         /\ SubSeq(t, i, e - 1) \in longs \cup pairs \cup Runes(chars)
         /\ \A k \in i .. Len(t) :
              SubSeq(t, i, k) \in longs \cup pairs \cup Runes(chars) => k <= e - 1
<1>1. \A k \in i .. Len(t) : Len(SubSeq(t, i, k)) = k + 1 - i
  BY PieceIs
<1>2. \A k \in i .. Len(t) : SubSeq(t, i, k) \in Runes(chars) <=> k = i
  BY PieceRune
<1>3. \A k \in i .. Len(t) :
        /\ SubSeq(t, i, k) \in longs => k = i + 2
        /\ SubSeq(t, i, k) \in pairs => k = i + 1
  <2> TAKE k \in i .. Len(t)
  <2> PICK s : s = SubSeq(t, i, k)
    OBVIOUS
  <2>1. Len(s) = k + 1 - i
    BY <1>1
  <2>2. s \in longs => Len(s) = 3
    BY DEF SymbolSets
  <2>3. s \in pairs => Len(s) = 2
    BY DEF SymbolSets
  <2>4. (Len(s) = 3 => k = i + 2) /\ (Len(s) = 2 => k = i + 1)
    BY <2>1
  <2> QED BY <2>2, <2>3, <2>4
<1>4. i + 2 <= Len(t) => i + 2 \in i .. Len(t) /\ Between(t, i, i + 3) = SubSeq(t, i, i + 2)
  <2> SUFFICES ASSUME i + 2 <= Len(t)
               PROVE  i + 2 \in i .. Len(t) /\ Between(t, i, i + 3) = SubSeq(t, i, i + 2)
    OBVIOUS
  <2>1. i + 2 \in i .. Len(t) /\ (i + 2) + 1 = i + 3
    OBVIOUS
  <2>2. Between(t, i, (i + 2) + 1) = SubSeq(t, i, i + 2)
    BY <2>1, BetweenIs
  <2> QED BY <2>1, <2>2
<1>5. i + 1 <= Len(t) => i + 1 \in i .. Len(t) /\ Between(t, i, i + 2) = SubSeq(t, i, i + 1)
  <2> SUFFICES ASSUME i + 1 <= Len(t)
               PROVE  i + 1 \in i .. Len(t) /\ Between(t, i, i + 2) = SubSeq(t, i, i + 1)
    OBVIOUS
  <2>1. i + 1 \in i .. Len(t) /\ (i + 1) + 1 = i + 2
    OBVIOUS
  <2>2. Between(t, i, (i + 1) + 1) = SubSeq(t, i, i + 1)
    BY <2>1, BetweenIs
  <2> QED BY <2>1, <2>2
<1>6. Between(t, i, i + 3) \in longs => i + 2 <= Len(t)
  <2>1. i + 3 - 1 > Len(t) => Len(Between(t, i, i + 3)) < 3
    <3>1. 3 \in Nat \ {0}
      OBVIOUS
    <3> QED BY <3>1, BytesFrom
  <2> PICK s : s = Between(t, i, i + 3)
    OBVIOUS
  <2>2. s \in longs => ~(Len(s) < 3)
    <3>1. s \in longs => Len(s) = 3
      BY DEF SymbolSets
    <3>2. ~(3 < 3)
      OBVIOUS
    <3> QED BY <3>1, <3>2
  <2>3. i + 3 - 1 > Len(t) \/ i + 2 <= Len(t)
    OBVIOUS
  <2> QED BY <2>1, <2>2, <2>3
<1>7. Between(t, i, i + 2) \in pairs => i + 1 <= Len(t)
  <2>1. i + 2 - 1 > Len(t) => Len(Between(t, i, i + 2)) < 2
    <3>1. 2 \in Nat \ {0}
      OBVIOUS
    <3> QED BY <3>1, BytesFrom
  <2> PICK s : s = Between(t, i, i + 2)
    OBVIOUS
  <2>2. s \in pairs => ~(Len(s) < 2)
    <3>1. s \in pairs => Len(s) = 2
      BY DEF SymbolSets
    <3>2. ~(2 < 2)
      OBVIOUS
    <3> QED BY <3>1, <3>2
  <2>3. i + 2 - 1 > Len(t) \/ i + 1 <= Len(t)
    OBVIOUS
  <2> QED BY <2>1, <2>2, <2>3
<1>11. \A k \in i .. Len(t) :
         /\ SubSeq(t, i, k) \in longs => Between(t, i, i + 3) \in longs
         /\ SubSeq(t, i, k) \in pairs => Between(t, i, i + 2) \in pairs
  <2> TAKE k \in i .. Len(t)
  <2>1. SubSeq(t, i, k) \in longs => k = i + 2 /\ i + 2 <= Len(t)
    BY <1>3
  <2>2. SubSeq(t, i, k) \in pairs => k = i + 1 /\ i + 1 <= Len(t)
    BY <1>3
  <2> QED BY <1>4, <1>5, <2>1, <2>2
<1> DEFINE Is(k) == SubSeq(t, i, k) \in longs \cup pairs \cup Runes(chars)
<1>8. CASE Between(t, i, i + 3) \in longs
  <2>1. e - 1 = i + 2 /\ i + 2 \in i .. Len(t)
    BY <1>4, <1>6, <1>8
  <2>2. Is(i + 2)
    BY <1>4, <1>6, <1>8
  <2>3. \A k \in i .. Len(t) : Is(k) => k = i \/ k = i + 1 \/ k = i + 2
    BY <1>2, <1>3
  <2> HIDE DEF Is
  <2>4. \A k \in i .. Len(t) : Is(k) => k <= e - 1
    BY <2>1, <2>3
  <2> QED BY <2>1, <2>2, <2>4 DEF Is
<1>9. CASE Between(t, i, i + 3) \notin longs /\ Between(t, i, i + 2) \in pairs
  <2>1. e - 1 = i + 1 /\ i + 1 \in i .. Len(t)
    BY <1>5, <1>7, <1>9
  <2>2. Is(i + 1)
    BY <1>5, <1>7, <1>9
  <2>3. \A k \in i .. Len(t) : Is(k) => k = i \/ k = i + 1
    BY <1>2, <1>3, <1>9, <1>11
  <2> HIDE DEF Is
  <2>4. \A k \in i .. Len(t) : Is(k) => k <= e - 1
    BY <2>1, <2>3
  <2> QED BY <2>1, <2>2, <2>4 DEF Is
<1>10. CASE Between(t, i, i + 3) \notin longs /\ Between(t, i, i + 2) \notin pairs
  <2>1. e - 1 = i /\ i \in i .. Len(t)
    BY <1>10
  <2>2. Is(i)
    BY <1>2, <2>1
  <2>3. \A k \in i .. Len(t) : Is(k) => k = i
    BY <1>2, <1>10, <1>11
  <2> HIDE DEF Is
  <2>4. \A k \in i .. Len(t) : Is(k) => k <= e - 1
    BY <2>1, <2>3
  <2> QED BY <2>1, <2>2, <2>4 DEF Is
<1> QED BY <1>8, <1>9, <1>10

\* What begins with the character of an operator is none of the delimiters.
LEMMA OperatorsBegin ==
  ASSUME NEW s
  PROVE  /\ s \in Symbols /\ s[1] \in OperatorCharacters =>
              s \in LongOperators \cup PairOperators \cup Runes(OperatorCharacters)
         /\ s \in Symbols /\ s[1] \in DelimiterCharacters =>
              s \in {Ellipsis} \cup PairDelimiters \cup Runes(DelimiterCharacters)
<1>1. s \in LongOperators \cup PairOperators \cup Runes(OperatorCharacters) =>
        s[1] \in OperatorCharacters
  <2>1. s \in LongOperators => s[1] \in OperatorCharacters
    BY DEF LongOperators, OperatorCharacters
  <2>2. s \in PairOperators => s[1] \in OperatorCharacters
    BY DEF PairOperators, OperatorCharacters
  <2>3. s \in Runes(OperatorCharacters) => s[1] \in OperatorCharacters
    BY DEF Runes
  <2> QED BY <2>1, <2>2, <2>3
<1>2. s \in {Ellipsis} \cup PairDelimiters \cup Runes(DelimiterCharacters) =>
        s[1] \in DelimiterCharacters
  <2>1. {".", ":", "#"} \subseteq DelimiterCharacters
    BY DEF DelimiterCharacters
  <2>2. s = Ellipsis => s[1] = "."
    BY DEF Ellipsis
  <2>3. s \in PairDelimiters => s[1] \in {":", "#"}
    BY DEF PairDelimiters
  <2>4. s \in Runes(DelimiterCharacters) => s[1] \in DelimiterCharacters
    BY DEF Runes
  <2> QED BY <2>1, <2>2, <2>3, <2>4
<1> QED BY <1>1, <1>2, BytesApart DEF Symbols

\* The lengths of the symbols of each set.
LEMMA SymbolLengths ==
  SymbolSets(LongOperators, PairOperators) /\ SymbolSets({Ellipsis}, PairDelimiters)
<1>1. \A s \in LongOperators : Len(s) = 3
  BY DEF LongOperators
<1>2. \A s \in PairOperators : Len(s) = 2
  BY DEF PairOperators
<1>3. \A s \in {Ellipsis} : Len(s) = 3
  BY DEF Ellipsis
<1>4. \A s \in PairDelimiters : Len(s) = 2
  BY DEF PairDelimiters
<1> QED BY <1>1, <1>2, <1>3, <1>4 DEF SymbolSets

\* A symbol that is the longest is read as a word.
LEMMA SymbolReads ==
  ASSUME LexType, Reading, index <= Len(text),
         isOperator(RuneAt(text, index)) \/ isDelimiter(RuneAt(text, index)),
         ~ Opens("/", "/"), ~ Opens("/", "*"),
         NEW e, e - 1 \in index .. Len(text), (e - 1) + 1 = e,
         SubSeq(text, index, e - 1) \in Symbols,
         \A k \in index .. Len(text) : SubSeq(text, index, k) \in Symbols => k <= e - 1,
         EmitSymbol(e)
  PROVE  Words!Next
<1>1. text \in Seq(STRING) /\ index \in 1 .. Len(text)
  BY AtIndex
<1> PICK j : j = e - 1
  OBVIOUS
<1>2. j \in index .. Len(text) /\ e = j + 1
  OBVIOUS
<1>3. \A k \in index .. Len(text) :
        Words!KindsOf(SubSeq(text, index, k)) =
          IF SubSeq(text, index, k) \in Symbols THEN {Joined(SubSeq(text, index, k))} ELSE {}
  BY <1>1, KindsHere
<1>4. Joined(SubSeq(text, index, j)) \in Words!KindsOf(SubSeq(text, index, j))
  BY <1>2, <1>3
<1>5. Words!IsWord(SubSeq(text, index, j))
  BY <1>4 DEF Words!IsWord
<1>6. \A k \in index .. Len(text) : Words!IsWord(SubSeq(text, index, k)) => k <= j
  BY <1>3 DEF Words!IsWord
<1>7. Spelled(text, index, j + 1) = Joined(SubSeq(text, index, j))
  BY <1>1, <1>2, BetweenIs DEF Spelled
<1>8. Emit(Joined(SubSeq(text, index, j)), "", j + 1) /\ index' = j + 1
  BY <1>2, <1>7 DEF EmitSymbol, MoveTo
<1>9. ~ IsSpace(RuneAt(text, index)) /\ ~ IsDigit(RuneAt(text, index))
  BY ClassesApart
<1>10. Words!LastOfGap = 0
  BY <1>9, NoGapHere
<1>11. ~ Words!IsWrong(SubSeq(text, index, j))
  BY <1>2, <1>9, NotWrong
<1> QED BY <1>2, <1>4, <1>5, <1>6, <1>8, <1>10, <1>11, ReadsWord

\* Operator reads the longest symbol.
LEMMA OperatorReads ==
  ASSUME LexType, Operator PROVE Words!Next
<1>1. /\ Reading /\ index <= Len(text) /\ isOperator(RuneAt(text, index))
      /\ ~ Opens("/", "/") /\ ~ Opens("/", "*")
      /\ EmitSymbol(tokenizeOperator(text, index))
  BY DEF Operator, Meets, Rune
<1>2. text \in Seq(STRING) /\ index \in 1 .. Len(text)
  BY <1>1, AtIndex
<1> PICK i : i = index
  OBVIOUS
<1> PICK e : e = tokenizeOperator(text, i)
  OBVIOUS
<1>3. text[i] \in OperatorCharacters
  BY <1>1, <1>2, ClassesAre, RuneOf DEF isOperator
<1>4. /\ e - 1 \in i .. Len(text)
      /\ SubSeq(text, i, e - 1) \in LongOperators \cup PairOperators \cup Runes(OperatorCharacters)
      /\ \A k \in i .. Len(text) :
           SubSeq(text, i, k) \in LongOperators \cup PairOperators \cup Runes(OperatorCharacters)
             => k <= e - 1
  BY <1>2, <1>3, SymbolLengths, LongestSymbol DEF tokenizeOperator
<1>5. e \in i + 1 .. Len(text) + 1
  BY <1>2, <1>3, OperatorHas
<1>6. (e - 1) + 1 = e
  BY <1>2, <1>5
<1>7. SubSeq(text, i, e - 1) \in Symbols
  BY <1>4 DEF Symbols
<1>8. ASSUME NEW k \in i .. Len(text), SubSeq(text, i, k) \in Symbols PROVE k <= e - 1
  <2>1. SubSeq(text, i, k)[1] = text[i]
    BY <1>2, PieceIs
  <2>2. SubSeq(text, i, k) \in LongOperators \cup PairOperators \cup Runes(OperatorCharacters)
    BY <1>3, <1>8, <2>1, OperatorsBegin
  <2> QED BY <1>4, <2>2
<1> QED BY <1>1, <1>4, <1>6, <1>7, <1>8, SymbolReads

\* Delimiter reads the longest symbol.
LEMMA DelimiterReads ==
  ASSUME LexType, Delimiter PROVE Words!Next
<1>1. /\ Reading /\ index <= Len(text) /\ isDelimiter(RuneAt(text, index))
      /\ EmitSymbol(tokenizeDelimiter(text, index))
  BY DEF Delimiter, Meets, Rune
<1>2. text \in Seq(STRING) /\ index \in 1 .. Len(text)
  BY <1>1, AtIndex
<1> PICK i : i = index
  OBVIOUS
<1> PICK e : e = tokenizeDelimiter(text, i)
  OBVIOUS
<1>3. text[i] \in DelimiterCharacters
  BY <1>1, <1>2, ClassesAre, RuneOf DEF isDelimiter
<1>4. /\ e - 1 \in i .. Len(text)
      /\ SubSeq(text, i, e - 1) \in {Ellipsis} \cup PairDelimiters \cup Runes(DelimiterCharacters)
      /\ \A k \in i .. Len(text) :
           SubSeq(text, i, k) \in {Ellipsis} \cup PairDelimiters \cup Runes(DelimiterCharacters)
             => k <= e - 1
  <2>1. e = IF Between(text, i, i + 3) \in {Ellipsis} THEN i + 3
            ELSE IF Between(text, i, i + 2) \in PairDelimiters THEN i + 2 ELSE i + 1
    BY DEF tokenizeDelimiter
  <2> QED BY <1>2, <1>3, <2>1, SymbolLengths, LongestSymbol
<1>5. e \in i + 1 .. Len(text) + 1
  BY <1>2, <1>3, DelimiterHas
<1>6. (e - 1) + 1 = e
  BY <1>2, <1>5
<1>7. SubSeq(text, i, e - 1) \in Symbols
  BY <1>4 DEF Symbols
<1>8. ASSUME NEW k \in i .. Len(text), SubSeq(text, i, k) \in Symbols PROVE k <= e - 1
  <2>1. SubSeq(text, i, k)[1] = text[i]
    BY <1>2, PieceIs
  <2>2. SubSeq(text, i, k) \in {Ellipsis} \cup PairDelimiters \cup Runes(DelimiterCharacters)
    BY <1>3, <1>8, <2>1, OperatorsBegin
  <2> QED BY <1>4, <2>2
<1>9. ~ Opens("/", "/") /\ ~ Opens("/", "*")
  <2>1. IsByte("/") /\ IsByte("*")
    BY DEF IsByte
  <2> QED BY <1>1, <2>1, SlashRune, ClassesApart
<1> QED BY <1>1, <1>4, <1>6, <1>7, <1>8, <1>9, SymbolReads

\* The two bytes that a comment begins with are all that it can begin with.
LEMMA OpensOne ==
  ASSUME LexType, NEW b, IsByte(b), Opens("/", b), NEW c, c # b,
         NEW k \in index .. Len(text)
  PROVE  SubSeq(text, index, k) \notin Blanks
         /\ (IsByte(c) => ~ Words!Begins(<<"/", c>>, SubSeq(text, index, k)))
<1>1. /\ ~ IsSpace(RuneAt(text, index)) /\ text \in Seq(STRING) /\ index \in 1 .. Len(text)
  BY SlashRune
<1>2. SubSeq(text, index, k) \notin Blanks
  BY <1>1, WordBegins
<1>3. ASSUME IsByte(c), Words!Begins(<<"/", c>>, SubSeq(text, index, k)) PROVE FALSE
  <2>1. Opens("/", c)
    BY <1>3, PieceBegins
  <2> QED BY <2>1 DEF Opens
<1> QED BY <1>2, <1>3

\* LineComment passes all that the comment can be.
LEMMA LineCommentPasses ==
  ASSUME LexType, LineComment PROVE Words!Next
<1>1. Reading /\ Opens("/", "/") /\ IsByte("/") /\ IsByte("*")
  BY DEF LineComment, IsByte
<1> PICK i : i = index
  OBVIOUS
<1>2. /\ text \in Seq(STRING) /\ i \in 1 .. Len(text) /\ i + 1 \in 1 .. Len(text)
      /\ text[i] = "/" /\ text[i + 1] = "/"
  BY <1>1, SlashRune
<1> PICK e : e = NextOf(text, i + 2, LineEnds)
  OBVIOUS
<1>3. /\ e \in i + 2 .. Len(text) + 1
      /\ \A k \in i + 2 .. e - 1 : text[k] \notin LineEnds
      /\ e <= Len(text) => text[e] \in LineEnds
  <2>1. i + 2 \in 1 .. Len(text) + 1
    BY <1>2
  <2> QED BY <1>2, <2>1, NextOfIs
<1>4. index' = e /\ text' = text /\ tokens' = tokens /\ refusal' = refusal
  BY DEF LineComment, MoveTo
<1> PICK j : j = e - 1
  OBVIOUS
<1>5. e = j + 1 /\ j \in i .. Len(text) /\ i + 1 <= j
  BY <1>2, <1>3
<1> DEFINE s == SubSeq(text, i, j)
<1>6. s \in Seq(STRING) /\ Len(s) = j + 1 - i /\ \A k \in 1 .. j + 1 - i : s[k] = text[i + k - 1]
  BY <1>2, <1>5, PieceIs
<1>7. Words!IsLineComment(s)
  <2> HIDE DEF s
  <2>1. /\ 1 \in 1 .. j + 1 - i /\ 2 \in 1 .. j + 1 - i /\ j + 1 - i >= 2
        /\ i + 1 - 1 = i /\ i + 2 - 1 = i + 1
    BY <1>2, <1>5
  <2>2. Len(s) >= 2 /\ s[1] = "/" /\ s[2] = "/"
    BY <1>2, <1>6, <2>1
  <2>3. Words!Begins(<<"/", "/">>, s)
    BY <1>6, <2>2, BeginsIs
  <2>4. ASSUME NEW k \in DOMAIN s PROVE s[k] \notin LineEnds
    <3>1. k \in 1 .. j + 1 - i
      BY <1>6, <2>4
    <3>2. i + k - 1 = i \/ i + k - 1 = i + 1 \/ i + k - 1 \in i + 2 .. e - 1
      <4>1. i \in Nat /\ j \in Nat /\ e = j + 1
        BY <1>2, <1>5
      <4> QED BY <3>1, <4>1
    <3>3. "/" \notin LineEnds
      BY DEF LineEnds
    <3> QED BY <1>2, <1>3, <1>6, <3>1, <3>2, <3>3
  <2> QED BY <2>3, <2>4 DEF Words!IsLineComment, LineEnds
<1>8. ASSUME NEW k \in i .. Len(text), Words!IsGap(SubSeq(text, i, k)) PROVE k <= j
  <2> DEFINE p == SubSeq(text, i, k)
  <2>1. p \in Seq(STRING) /\ Len(p) = k + 1 - i /\ \A n \in 1 .. k + 1 - i : p[n] = text[i + n - 1]
    BY <1>2, PieceIs
  <2>2. "*" # "/"
    OBVIOUS
  <2>3. p \notin Blanks /\ ~ Words!Begins(<<"/", "*">>, p)
    BY <1>1, <2>2, OpensOne
  <2>4. Words!IsLineComment(p)
    BY <1>8, <2>3 DEF Words!IsGap, Words!IsBlockComment
  <2> HIDE DEF p
  <2>5. \A n \in DOMAIN p : p[n] \notin LineEnds
    BY <2>4 DEF Words!IsLineComment, LineEnds
  <2> SUFFICES ASSUME k > j PROVE FALSE
    BY <1>5
  <2>6. e <= k /\ e <= Len(text) /\ e + 1 - i \in 1 .. k + 1 - i /\ i + (e + 1 - i) - 1 = e
    <3>1. i \in 1 .. Len(text) /\ e \in i + 2 .. Len(text) + 1 /\ e = j + 1 /\ j \in i .. Len(text)
      BY <1>2, <1>3, <1>5
    <3> QED BY <3>1
  <2>7. p[e + 1 - i] = text[e]
    BY <2>1, <2>6
  <2>8. e + 1 - i \in DOMAIN p
    BY <2>1, <2>6
  <2> QED BY <1>3, <2>5, <2>6, <2>7, <2>8
<1>9. Words!IsGap(SubSeq(text, i, j))
  BY <1>7 DEF Words!IsGap
<1> QED BY <1>1, <1>4, <1>5, <1>8, <1>9, PassesGap

-----------------------------------------------------------------------------
(***************************************************************************)
(* Block comments: what ends one.                                          *)
(***************************************************************************)
\* Where a block comment ends, in the text and in the comment.
LEMMA ClosingsIn ==
  ASSUME LexType, NEW j \in index .. Len(text), Opens("/", "*"),
         NEW s, s = SubSeq(text, index, j)
  PROVE  /\ \A k \in 3 .. Len(s) - 1 : <<s[k], s[k + 1]>> = <<"*", "/">> <=> index + k - 1 \in Closings
         /\ Words!IsBlockComment(s) <=>
              j - 1 \in Closings /\ \A m \in Closings : j - 1 <= m
<1>1. IsByte("*")
  BY DEF IsByte
<1> PICK i : i = index
  OBVIOUS
<1>2. /\ text \in Seq(STRING) /\ i \in 1 .. Len(text) /\ i + 1 \in 1 .. Len(text)
      /\ text[i] = "/" /\ text[i + 1] = "*"
  BY <1>1, SlashRune
<1> PICK n : n = Len(s)
  OBVIOUS
<1>3. s \in Seq(STRING) /\ n = j + 1 - i /\ \A k \in 1 .. n : s[k] = text[i + k - 1]
  BY <1>2, PieceIs
<1>4. Closings = {k \in i + 2 .. Len(text) - 1 : text[k] = "*" /\ text[k + 1] = "/"}
  BY DEF Closings
<1>5. ASSUME NEW k \in 3 .. n - 1
      PROVE  /\ <<s[k], s[k + 1]>> = <<"*", "/">> <=> i + k - 1 \in Closings
             /\ i + k - 1 \in i + 2 .. j - 1
  <2>1. /\ k \in 1 .. n /\ k + 1 \in 1 .. n /\ i + (k + 1) - 1 = (i + k - 1) + 1
        /\ i + k - 1 \in i + 2 .. Len(text) - 1 /\ i + k - 1 \in i + 2 .. j - 1
    BY <1>2, <1>3
  <2>2. s[k] = text[i + k - 1] /\ s[k + 1] = text[(i + k - 1) + 1]
    BY <1>3, <2>1
  <2>3. <<s[k], s[k + 1]>> = <<"*", "/">> <=> s[k] = "*" /\ s[k + 1] = "/"
    OBVIOUS
  <2> PICK m : m = i + k - 1
    OBVIOUS
  <2>4. m \in Closings <=> text[m] = "*" /\ text[m + 1] = "/"
    BY <1>4, <2>1
  <2> QED BY <2>1, <2>2, <2>3, <2>4
<1> DEFINE ends == {k \in 3 .. n - 1 : <<s[k], s[k + 1]>> = <<"*", "/">>}
<1>6. \A k \in 3 .. n - 1 : k \in ends <=> i + k - 1 \in Closings
  BY <1>5
<1>7. ends \subseteq 3 .. n - 1
  OBVIOUS
<1>8. n >= 2 => Words!Begins(<<"/", "*">>, s)
  <2> SUFFICES ASSUME n >= 2 PROVE Words!Begins(<<"/", "*">>, s)
    OBVIOUS
  <2>1. 1 \in 1 .. n /\ 2 \in 1 .. n /\ i + 1 - 1 = i /\ i + 2 - 1 = i + 1
    BY <1>2, <1>3
  <2>2. s[1] = "/" /\ s[2] = "*"
    BY <1>2, <1>3, <2>1
  <2> QED BY <1>3, <2>2, BeginsIs
<1>9. Words!IsBlockComment(s) <=> n >= 4 /\ Words!Begins(<<"/", "*">>, s) /\ ends = {n - 1}
  BY DEF Words!IsBlockComment
<1> HIDE DEF ends
<1>10. ASSUME n >= 4, ends = {n - 1}
       PROVE  j - 1 \in Closings /\ \A m \in Closings : j - 1 <= m
  <2>1. n - 1 \in 3 .. n - 1 /\ n - 1 \in ends /\ i + (n - 1) - 1 = j - 1
    BY <1>2, <1>3, <1>10
  <2>2. j - 1 \in Closings
    BY <1>6, <2>1
  <2>3. ASSUME NEW m \in Closings, ~(j - 1 <= m) PROVE FALSE
    <3>1. m \in i + 2 .. Len(text) - 1
      BY <1>4
    <3>2. m + 1 - i \in 3 .. n - 1 /\ i + (m + 1 - i) - 1 = m /\ m + 1 - i # n - 1
      BY <1>2, <1>3, <2>3, <3>1
    <3>3. m + 1 - i \in ends
      BY <1>6, <2>3, <3>2
    <3> QED BY <1>10, <3>2, <3>3
  <2> QED BY <2>2, <2>3
<1>11. ASSUME j - 1 \in Closings, \A m \in Closings : j - 1 <= m
       PROVE  n >= 4 /\ ends = {n - 1}
  <2>1. j - 1 \in i + 2 .. Len(text) - 1
    BY <1>4, <1>11
  <2>2. n >= 4 /\ n - 1 \in 3 .. n - 1 /\ i + (n - 1) - 1 = j - 1
    BY <1>2, <1>3, <2>1
  <2>3. n - 1 \in ends
    BY <1>6, <1>11, <2>2
  <2>4. ASSUME NEW k \in ends PROVE k = n - 1
    <3>1. k \in 3 .. n - 1
      BY <1>7
    <3>2. i + k - 1 \in Closings
      BY <1>6, <3>1
    <3>3. j - 1 <= i + k - 1
      BY <1>11, <3>2
    <3> QED BY <1>2, <1>3, <3>1, <3>3
  <2> QED BY <2>2, <2>3, <2>4
<1>12. Words!IsBlockComment(s) <=>
         j - 1 \in Closings /\ \A m \in Closings : j - 1 <= m
  <2>1. n >= 4 => n >= 2
    BY <1>3
  <2> QED BY <1>8, <1>9, <1>10, <1>11, <2>1
<1> QED BY <1>5, <1>12

\* BlockComment passes the comment to its first closing.
LEMMA BlockCommentPasses ==
  ASSUME LexType, BlockComment PROVE Words!Next
<1>1. Reading /\ Opens("/", "*") /\ Closings # {} /\ IsByte("*")
  BY DEF BlockComment, IsByte
<1> PICK i : i = index
  OBVIOUS
<1>2. text \in Seq(STRING) /\ i \in 1 .. Len(text) /\ i + 1 \in 1 .. Len(text)
  BY <1>1, SlashRune
<1> PICK m : m = Min(Closings)
  OBVIOUS
<1>3. /\ m \in Closings /\ \A k \in Closings : m <= k
      /\ Closings \subseteq i + 2 .. Len(text) - 1
  <2>1. Closings \subseteq i + 2 .. Len(text) - 1
    BY DEF Closings
  <2>2. Closings \subseteq Nat
    BY <1>2, <2>1
  <2> QED BY <1>1, <2>1, <2>2, MinIs
<1>4. index' = m + 2 /\ text' = text /\ tokens' = tokens /\ refusal' = refusal
  BY DEF BlockComment, PassComment
<1> PICK j : j = m + 1
  OBVIOUS
<1>5. m + 2 = j + 1 /\ j \in i .. Len(text) /\ j - 1 = m
  BY <1>2, <1>3
<1>6. Words!IsGap(SubSeq(text, i, j))
  <2> PICK s : s = SubSeq(text, i, j)
    OBVIOUS
  <2>1. Words!IsBlockComment(s) <=> j - 1 \in Closings /\ \A k \in Closings : j - 1 <= k
    BY <1>1, <1>5, ClosingsIn
  <2>2. Words!IsBlockComment(s)
    BY <1>3, <1>5, <2>1
  <2> QED BY <2>2 DEF Words!IsGap
<1>7. ASSUME NEW k \in i .. Len(text), Words!IsGap(SubSeq(text, i, k)) PROVE k <= j
  <2>1. "/" # "*" /\ IsByte("/")
    BY DEF IsByte
  <2>2. Words!IsBlockComment(SubSeq(text, i, k))
    BY <1>1, <1>7, <2>1, OpensOne DEF Words!IsGap, Words!IsLineComment
  <2>3. k - 1 \in Closings /\ k - 1 <= m
    BY <1>1, <1>3, <2>2, ClosingsIn
  <2> QED BY <1>2, <1>5, <2>3
<1> QED BY <1>1, <1>4, <1>5, <1>6, <1>7, PassesGap

\* UnterminatedComment refuses a comment without a closing.
LEMMA UnterminatedRefuses ==
  ASSUME LexType, UnterminatedComment PROVE Words!Next
<1>1. /\ Reading /\ Opens("/", "*") /\ Closings = {} /\ IsByte("*")
      /\ Refuse("unterminated block comment")
  BY DEF UnterminatedComment, IsByte
<1>2. text \in Seq(STRING) /\ index \in 1 .. Len(text) /\ index <= Len(text)
  BY <1>1, SlashRune
<1>3. ASSUME NEW k \in index .. Len(text) PROVE ~ Words!IsGap(SubSeq(text, index, k))
  <2>1. "/" # "*" /\ IsByte("/")
    BY DEF IsByte
  <2>2. ~ Words!IsBlockComment(SubSeq(text, index, k))
    BY <1>1, ClosingsIn
  <2> PICK s : s = SubSeq(text, index, k)
    OBVIOUS
  <2>3. s \notin Blanks /\ ~ Words!Begins(<<"/", "/">>, s)
    BY <1>1, <2>1, OpensOne
  <2> QED BY <2>2, <2>3 DEF Words!IsGap, Words!IsLineComment
<1>4. Words!LastOfGap = 0
  BY <1>3, NoGap
<1>5. Words!OpensComment
  <2> PICK i, n : i = index /\ n = Len(text)
    OBVIOUS
  <2> DEFINE s == SubSeq(text, i, n)
  <2>1. i \in 1 .. n /\ n = Len(text) /\ i + 1 <= n /\ text[i] = "/" /\ text[i + 1] = "*"
    <3>1. index \in 1 .. Len(text) /\ index + 1 \in 1 .. Len(text)
          /\ text[index] = "/" /\ text[index + 1] = "*"
      BY <1>1, SlashRune
    <3>2. i + 1 <= n
      <4>1. i + 1 \in 1 .. n /\ n \in Nat
        BY <1>2, <3>1
      <4> QED BY <4>1
    <3> QED BY <3>1, <3>2
  <2>2. s \in Seq(STRING) /\ Len(s) = n + 1 - i /\ \A k \in 1 .. n + 1 - i : s[k] = text[i + k - 1]
    BY <1>2, <2>1, PieceIs
  <2>3. /\ 1 \in 1 .. n + 1 - i /\ 2 \in 1 .. n + 1 - i /\ n + 1 - i >= 2
        /\ i + 1 - 1 = i /\ i + 2 - 1 = i + 1
    BY <2>1
  <2> HIDE DEF s
  <2>4. Len(s) >= 2 /\ s[1] = "/" /\ s[2] = "*"
    BY <2>1, <2>2, <2>3
  <2>5. Words!Begins(<<"/", "*">>, s)
    BY <2>2, <2>4, BeginsIs
  <2> QED BY <2>5 DEF Words!OpensComment, Words!Bytes, s
<1>6. Words!IsWrong(SubSeq(text, index, Words!LastOfWord))
  BY <1>5 DEF Words!IsWrong
<1> QED BY <1>1, <1>2, <1>4, <1>6, RefusesText

-----------------------------------------------------------------------------
(***************************************************************************)
(* What is no word, and the end of the text.                               *)
(***************************************************************************)
\* A rune that is of no class begins no word.
LEMMA UnrecognizedRefuses ==
  ASSUME LexType, Unrecognized PROVE Words!Next
<1>1. /\ Reading /\ index <= Len(text) /\ ~ Recognized(RuneAt(text, index))
      /\ Refuse("unrecognized symbol")
  BY DEF Unrecognized, Meets, Rune
<1>2. text \in Seq(STRING) /\ index \in 1 .. Len(text)
  BY <1>1, AtIndex
<1>3. ~ Opens("/", "/") /\ ~ Opens("/", "*")
  <2>1. IsByte("/") /\ IsByte("*")
    BY DEF IsByte
  <2> QED BY <1>1, <2>1, SlashRune DEF Recognized
<1>4. Words!LastOfGap = 0
  BY <1>1, <1>3, NoGapHere DEF Recognized
<1>5. \A k \in index .. Len(text) : ~ Words!IsWord(SubSeq(text, index, k))
  BY <1>1, <1>2, KindsHere DEF Words!IsWord
<1>6. Words!LastOfWord = 0
  BY <1>5, NoWordHere
<1> QED BY <1>1, <1>4, <1>6, RefusesText

\* The last token is no word.
LEMMA EndOfTextStutters ==
  ASSUME LexType, EndOfText PROVE UNCHANGED Words!vars
<1>1. Reading /\ Emit("EOF", "", index) /\ index' = index
  BY DEF EndOfText
<1> DEFINE token == NewToken("EOF", "", index)
<1>2. tokens' = Append(tokens, token) /\ text' = text /\ refusal' = refusal
  BY <1>1 DEF Emit
<1>3. token.length = 0
  <2>1. index - index = 0
    BY DEF LexType
  <2> QED BY <2>1 DEF NewToken
<1> HIDE DEF token
<1>4. TokensRead = tokens
  BY <1>1 DEF Reading, TokensRead
<1>5. /\ tokens \in Seq(Range(tokens)) /\ Len(tokens) \in Nat
      /\ tokens' \in Seq(Range(tokens')) /\ Len(tokens') = Len(tokens) + 1
      /\ tokens'[Len(tokens) + 1] = token
      /\ \A n \in 1 .. Len(tokens) : tokens'[n] = tokens[n]
  BY <1>2, AppendIs DEF LexType
<1>6. Last(tokens').length = 0 /\ tokens' # <<>>
  <2>1. Last(tokens') = token
    BY <1>5 DEF Last
  <2>2. Len(<<>>) = 0
    OBVIOUS
  <2> QED BY <1>3, <1>5, <2>1, <2>2
<1>7. Front(tokens') = tokens
  <2>1. /\ Len(Front(tokens')) = Len(tokens') - 1
        /\ \A i \in 1 .. Len(tokens') - 1 : Front(tokens')[i] = tokens'[i]
        /\ Front(tokens') \in Seq(Range(tokens'))
    BY <1>5, <1>6, FrontShorter
  <2> PICK n, f : n = Len(tokens) /\ f = Front(tokens')
    OBVIOUS
  <2>2. n \in Nat /\ Len(tokens') - 1 = n
    BY <1>5
  <2>3. f = [k \in 1 .. Len(f) |-> f[k]] /\ Len(f) = n
    BY <2>1, <2>2, AsFunction
  <2>4. tokens = [k \in 1 .. n |-> tokens[k]]
    BY <1>5, AsFunction
  <2>5. \A k \in 1 .. n : f[k] = tokens[k]
    BY <1>5, <2>1, <2>2
  <2> QED BY <2>3, <2>4, <2>5
<1>8. TokensRead' = tokens
  BY <1>6, <1>7 DEF TokensRead
<1>9. WordsOf(TokensRead)' = WordsOf(TokensRead)
  BY <1>4, <1>8 DEF WordsOf, WordOf
<1> QED BY <1>1, <1>2, <1>9 DEF Words!vars

PartBytes == AsciiLetters \cup {"_"} \cup Digits
PartLeads == LetterLeads \cup DigitLeads

-----------------------------------------------------------------------------
(***************************************************************************)
(* Identifiers: runes of letters and digits, of one byte or more.          *)
(***************************************************************************)
\* Runes that may be in an identifier.
LEMMA PartRunes ==
  /\ LetterRunes \cup DigitRunes = Runes(PartBytes) \cup Wide(PartLeads)
  /\ PartBytes \subseteq Characters /\ PartLeads \subseteq Leads
  /\ \A rune : isIdentPart(rune) <=> rune \in Runes(PartBytes) \cup Wide(PartLeads)
<1>1. LetterRunes \cup DigitRunes = Runes(PartBytes) \cup Wide(PartLeads)
  <2>1. Runes(PartBytes) = Runes(AsciiLetters \cup {"_"}) \cup Runes(Digits)
    BY DEF Runes, PartBytes
  <2>2. Wide(PartLeads) = Wide(LetterLeads) \cup Wide(DigitLeads)
    BY DEF Wide, PartLeads
  <2> QED BY <2>1, <2>2 DEF LetterRunes, DigitRunes
<1>2. PartBytes \subseteq Characters /\ PartLeads \subseteq Leads
  BY CharactersAre, ClassesAre DEF PartBytes, PartLeads
<1>3. \A rune : isIdentPart(rune) <=> rune \in LetterRunes \cup DigitRunes
  BY DEF isIdentPart, isIdentStart, IsDigit
<1> QED BY <1>1, <1>2, <1>3

\* Every byte of a stretch of the text is of a rune in it that may be in an identifier.
HasPart(t, i, j, p) ==
  \E a \in i .. p, b \in p .. j : SubSeq(t, a, b) \in Runes(PartBytes) \cup Wide(PartLeads)

\* A stretch of whole runes that may be in an identifier is of their bytes.
LEMMA PartsBelong ==
  ASSUME NEW t \in Seq(STRING), NEW i \in 1 .. Len(t), NEW j \in i .. Len(t),
         NEW s, s = SubSeq(t, i, j)
  PROVE  (\A k \in DOMAIN s :
            Words!Belongs(s, k, LetterRunes) \/ Words!Belongs(s, k, DigitRunes))
         <=> \A p \in i .. j : HasPart(t, i, j, p)
<1> PICK n : n = j + 1 - i
  OBVIOUS
<1>1. s \in Seq(STRING) /\ Len(s) = n
  BY PieceIs
<1>2. DOMAIN s = 1 .. n
  BY <1>1
<1>3. \A c \in 1 .. n, d \in 1 .. n :
        c <= d => SubSeq(s, c, d) = SubSeq(t, i + c - 1, i + d - 1)
  <2> TAKE c \in 1 .. n, d \in 1 .. n
  <2> SUFFICES ASSUME c <= d PROVE SubSeq(s, c, d) = SubSeq(t, i + c - 1, i + d - 1)
    OBVIOUS
  <2>1. /\ i \in Nat \ {0} /\ j \in Nat /\ i <= j + 1 /\ j <= Len(t)
        /\ c \in Nat \ {0} /\ d \in Nat /\ c <= d + 1 /\ d <= j + 1 - i
    OBVIOUS
  <2> QED BY <2>1, PieceOfPiece
<1> DEFINE P == Runes(PartBytes) \cup Wide(PartLeads)
           In(k) == \E c \in 1 .. k, d \in k .. n : SubSeq(s, c, d) \in P
<1>4. \A k \in 1 .. n :
        Words!Belongs(s, k, LetterRunes) \/ Words!Belongs(s, k, DigitRunes) <=> In(k)
  <2> TAKE k \in 1 .. n
  <2>1. In(k) <=> \E c \in 1 .. k, d \in k .. n : SubSeq(s, c, d) \in LetterRunes \cup DigitRunes
    BY PartRunes
  <2>2. \A runes : Words!Belongs(s, k, runes) <=>
                     \E c \in 1 .. k : \E d \in k .. n : SubSeq(s, c, d) \in runes
    BY <1>1 DEF Words!Belongs
  <2> HIDE DEF In
  <2> QED BY <2>1, <2>2
<1>5. ASSUME NEW k \in 1 .. n PROVE In(k) <=> HasPart(t, i, j, i + k - 1)
  <2> PICK p : p = i + k - 1
    OBVIOUS
  <2>1. ASSUME NEW c \in 1 .. k, NEW d \in k .. n, SubSeq(s, c, d) \in P
        PROVE  HasPart(t, i, j, p)
    <3>1. i + c - 1 \in i .. p /\ i + d - 1 \in p .. j /\ c \in 1 .. n /\ d \in 1 .. n /\ c <= d
      OBVIOUS
    <3>2. SubSeq(t, i + c - 1, i + d - 1) \in P
      BY <1>3, <2>1, <3>1
    <3> QED BY <3>1, <3>2 DEF HasPart
  <2>2. ASSUME NEW a \in i .. p, NEW b \in p .. j, SubSeq(t, a, b) \in P
        PROVE  In(k)
    <3>1. /\ a + 1 - i \in 1 .. k /\ b + 1 - i \in k .. n
          /\ a + 1 - i \in 1 .. n /\ b + 1 - i \in 1 .. n /\ a + 1 - i <= b + 1 - i
          /\ i + (a + 1 - i) - 1 = a /\ i + (b + 1 - i) - 1 = b
      OBVIOUS
    <3>2. SubSeq(s, a + 1 - i, b + 1 - i) = SubSeq(t, a, b)
      BY <1>3, <3>1
    <3> HIDE DEF P
    <3> QED BY <2>2, <3>1, <3>2
  <2>3. HasPart(t, i, j, p) => In(k)
    <3> HIDE DEF In
    <3> QED BY <2>2 DEF HasPart
  <2>4. In(k) => HasPart(t, i, j, p)
    <3> HIDE DEF P
    <3> QED BY <2>1
  <2> QED BY <2>3, <2>4
<1> HIDE DEF In
<1>6. \A p \in i .. j : p + 1 - i \in 1 .. n /\ i + (p + 1 - i) - 1 = p
  OBVIOUS
<1>7. \A k \in 1 .. n : i + k - 1 \in i .. j
  OBVIOUS
<1>8. (\A k \in 1 .. n : In(k)) <=> (\A p \in i .. j : HasPart(t, i, j, p))
  BY <1>5, <1>6, <1>7
<1> QED BY <1>2, <1>4, <1>8

\* The rune at p, if it may be in an identifier, is not cut.
LEMMA RuneFits ==
  ASSUME NEW t \in Seq(STRING), NEW i \in 1 .. Len(t), isIdentStart(RuneAt(t, i)),
         NEW e, e = IdentifierEnd(t, i), NEW p \in i .. e - 1, isIdentPart(RuneAt(t, p))
  PROVE  p + Len(RuneAt(t, p)) - 1 \in p .. e - 1
<1>1. /\ e \in i + 1 .. Len(t) + 1
      /\ e <= Len(t) => ~ InsideRune(t, e)
  BY IdentifierEndIs
<1>2. p \in 1 .. Len(t) /\ e \in Nat /\ i \in Nat
  BY <1>1
<1> PICK l : l = Len(RuneAt(t, p))
  OBVIOUS
<1>3. l = 1 \/ (l = 2 /\ p + 1 <= Len(t) /\ t[p] \in Leads /\ t[p + 1] \in Continuations)
  <2>1. \A a, b : Len(<<a>>) = 1 /\ Len(<<a, b>>) = 2
    OBVIOUS
  <2> QED BY <1>2, <2>1, RuneAtIs
<1>4. CASE l = 1
  BY <1>2, <1>4
<1>5. CASE l # 1
  <2>1. InsideRune(t, p + 1)
    <3>1. p + 1 \in 1 .. Len(t) /\ p + 1 > 1 /\ (p + 1) - 1 = p
      BY <1>2, <1>3, <1>5
    <3> QED BY <1>3, <1>5, <3>1, InsideRuneIs
  <2>2. p + 1 # e
    BY <1>1, <1>3, <1>5, <2>1
  <2>3. p + 1 \in p .. e - 1 /\ p + l - 1 = p + 1
    BY <1>2, <1>3, <1>5, <2>2
  <2> QED BY <2>3
<1> QED BY <1>4, <1>5

\* What begins an identifier is not the second byte of a rune.
LEMMA NotInside ==
  ASSUME NEW t \in Seq(STRING), NEW i \in 1 .. Len(t), isIdentStart(RuneAt(t, i))
  PROVE  ~ InsideRune(t, i)
<1>1. t[i] \in (AsciiLetters \cup {"_"}) \cup LetterLeads
  BY ClassesAre, RuneOf DEF isIdentStart, LetterRunes
<1>2. t[i] \notin Continuations
  BY <1>1, ClassesAre, RunesApart
<1> QED BY <1>2, InsideRuneIs

\* Where the parts of an identifier end.
LEMMA IdentifierParts ==
  ASSUME NEW t \in Seq(STRING), NEW i \in 1 .. Len(t), isIdentStart(RuneAt(t, i)),
         NEW e, e = IdentifierEnd(t, i)
  PROVE  \A p \in i .. e - 1 : HasPart(t, i, e - 1, p)
<1>1. /\ e \in i + 1 .. Len(t) + 1
      /\ \A k \in i .. e - 1 : InsideRune(t, k) \/ isIdentPart(RuneAt(t, k))
  BY IdentifierEndIs
<1>2. ASSUME NEW p \in i .. e - 1, isIdentPart(RuneAt(t, p))
      PROVE  SubSeq(t, p, p + Len(RuneAt(t, p)) - 1) \in Runes(PartBytes) \cup Wide(PartLeads)
  <2> PICK b : b = p + Len(RuneAt(t, p)) - 1
    OBVIOUS
  <2>1. b \in p .. e - 1
    BY <1>2, RuneFits
  <2>2. p \in 1 .. Len(t) /\ b \in p .. Len(t)
    BY <1>1, <2>1
  <2>3. RuneAt(t, p) \in Runes(PartBytes) \cup Wide(PartLeads)
    BY <1>2, PartRunes
  <2> QED BY <2>2, <2>3, PartRunes, PieceIsRune
<1>3. ASSUME NEW p \in i .. e - 1 PROVE HasPart(t, i, e - 1, p)
  <2>1. CASE isIdentPart(RuneAt(t, p))
    <3>1. p + Len(RuneAt(t, p)) - 1 \in p .. e - 1 /\ p \in i .. p
      BY <2>1, RuneFits
    <3> QED BY <1>2, <2>1, <3>1 DEF HasPart
  <2>2. CASE InsideRune(t, p)
    <3> PICK q : q = p - 1
      OBVIOUS
    <3>1. p \in 1 .. Len(t) /\ p # i
      BY <1>1, <2>2, NotInside
    <3>2. q \in i .. e - 1 /\ q \in 1 .. Len(t) /\ p = q + 1 /\ q \in i .. p
      BY <1>1, <3>1
    <3>3. t[q] \in Leads /\ t[q + 1] \in Continuations /\ q + 1 <= Len(t)
      BY <2>2, <3>1, <3>2, InsideRuneIs
    <3>4. ~ InsideRune(t, q)
      BY <3>2, <3>3, RunesApart, InsideRuneIs
    <3>5. isIdentPart(RuneAt(t, q))
      BY <1>1, <3>2, <3>4
    <3>6. Len(RuneAt(t, q)) = 2
      <4>1. \A a, b : Len(<<a, b>>) = 2
        OBVIOUS
      <4> QED BY <3>2, <3>3, <4>1, RuneAtIs
    <3>7. q + Len(RuneAt(t, q)) - 1 = p /\ p \in p .. e - 1
      <4> PICK l : l = Len(RuneAt(t, q))
        OBVIOUS
      <4>1. l = 2
        BY <3>6
      <4>2. q \in Nat /\ e \in Nat /\ p \in Nat
        BY <1>1, <3>1, <3>2
      <4>3. q + 2 - 1 = p /\ p \in p .. e - 1
        BY <3>2, <4>2
      <4> QED BY <4>1, <4>3
    <3>8. SubSeq(t, q, p) \in Runes(PartBytes) \cup Wide(PartLeads)
      BY <1>2, <3>2, <3>5, <3>7
    <3> QED BY <3>2, <3>7, <3>8 DEF HasPart
  <2> QED BY <1>1, <2>1, <2>2
<1> QED BY <1>3

\* What ends where the parts do is an identifier.
LEMMA IdentifierIs ==
  ASSUME NEW t \in Seq(STRING), NEW i \in 1 .. Len(t), isIdentStart(RuneAt(t, i)),
         NEW e, e = IdentifierEnd(t, i)
  PROVE  Words!IsIdentifier(SubSeq(t, i, e - 1))
<1>1. e \in i + 1 .. Len(t) + 1
  BY IdentifierEndIs
<1> PICK j : j = e - 1
  OBVIOUS
<1>2. j \in i .. Len(t)
  BY <1>1
<1> PICK s : s = SubSeq(t, i, j)
  OBVIOUS
<1>3. \A k \in DOMAIN s :
        Words!Belongs(s, k, LetterRunes) \/ Words!Belongs(s, k, DigitRunes)
  <2>1. \A p \in i .. j : HasPart(t, i, j, p)
    BY IdentifierParts
  <2> QED BY <1>2, <2>1, PartsBelong
<1> PICK l : l = Len(RuneAt(t, i))
  OBVIOUS
<1>4. i + l - 1 \in i .. j
  <2>1. i \in i .. e - 1
    BY <1>1
  <2>2. isIdentPart(RuneAt(t, i))
    BY DEF isIdentPart
  <2> QED BY <2>1, <2>2, RuneFits
<1>5. s \in Seq(STRING) /\ Len(s) = j + 1 - i
  BY <1>2, PieceIs
<1>6. l \in 1 .. j + 1 - i /\ l \in Nat
  <2>1. l \in Nat
    BY RuneAtIs
  <2> QED BY <1>2, <1>4, <2>1
<1>7. SubSeq(s, 1, l) = SubSeq(t, i, i + l - 1)
  <2>1. /\ i \in Nat \ {0} /\ j \in Nat /\ i <= j + 1 /\ j <= Len(t) /\ 1 \in Nat \ {0}
        /\ 1 <= l + 1 /\ l <= j + 1 - i /\ i + 1 - 1 = i
    BY <1>2, <1>6
  <2>2. SubSeq(s, 1, l) = SubSeq(t, i + 1 - 1, i + l - 1)
    BY <1>6, <2>1, PieceOfPiece
  <2> QED BY <2>1, <2>2
<1>8. SubSeq(t, i, i + l - 1) \in LetterRunes
  <2>1. i + l - 1 \in i .. Len(t)
    BY <1>2, <1>4
  <2>2. RuneAt(t, i) \in Runes(AsciiLetters \cup {"_"}) \cup Wide(LetterLeads)
    BY DEF isIdentStart, LetterRunes
  <2>3. SubSeq(t, i, i + l - 1) \in Runes(AsciiLetters \cup {"_"}) \cup Wide(LetterLeads)
    <3> PICK b : b = i + l - 1
      OBVIOUS
    <3> QED BY <2>1, <2>2, ClassesAre, PieceIsRune
  <2> QED BY <2>3 DEF LetterRunes
<1>9. l \in DOMAIN s
  BY <1>5, <1>6
<1> QED BY <1>3, <1>7, <1>8, <1>9 DEF Words!IsIdentifier

\* Nothing that is longer is an identifier.
LEMMA IdentifierLongest ==
  ASSUME NEW t \in Seq(STRING), NEW i \in 1 .. Len(t), isIdentStart(RuneAt(t, i)),
         NEW e, e = IdentifierEnd(t, i), NEW k \in i .. Len(t),
         Words!IsIdentifier(SubSeq(t, i, k))
  PROVE  k <= e - 1
<1>1. /\ e \in i + 1 .. Len(t) + 1
      /\ e <= Len(t) => ~ InsideRune(t, e) /\ ~ isIdentPart(RuneAt(t, e))
  BY IdentifierEndIs
<1> SUFFICES ASSUME ~(k <= e - 1) PROVE FALSE
  OBVIOUS
<1>2. e \in i .. k /\ e \in 1 .. Len(t) /\ e <= Len(t)
  BY <1>1
<1>3. HasPart(t, i, k, e)
  <2> PICK s : s = SubSeq(t, i, k)
    OBVIOUS
  <2>1. \A n \in DOMAIN s :
          Words!Belongs(s, n, LetterRunes) \/ Words!Belongs(s, n, DigitRunes)
    BY DEF Words!IsIdentifier
  <2> QED BY <1>2, <2>1, PartsBelong
<1>4. PICK a \in i .. e, b \in e .. k : SubSeq(t, a, b) \in Runes(PartBytes) \cup Wide(PartLeads)
  BY <1>3 DEF HasPart
<1>5. a \in 1 .. Len(t) /\ b \in a .. Len(t)
  BY <1>2
<1>6. CASE SubSeq(t, a, b) \in Runes(PartBytes)
  <2>1. b = a /\ t[a] \in PartBytes
    BY <1>5, <1>6, PieceRune
  <2>2. a = e
    BY <1>2, <2>1
  <2>3. RuneAt(t, e) \in Runes(PartBytes)
    BY <1>2, <2>1, <2>2, PartRunes, RuneOf
  <2> QED BY <1>1, <1>2, <2>3, PartRunes
<1>7. CASE SubSeq(t, a, b) \in Wide(PartLeads)
  <2>1. b = a + 1 /\ t[a] \in PartLeads /\ t[a + 1] \in Continuations
    BY <1>5, <1>7, PieceRune
  <2>2. a = e \/ a = e - 1
    BY <1>2, <2>1
  <2>3. CASE a = e
    <3>1. e + 1 <= Len(t)
      BY <1>5, <2>1, <2>3
    <3>2. RuneAt(t, e) \in Wide(PartLeads)
      BY <1>2, <2>1, <2>3, <3>1, PartRunes, RuneOf
    <3> QED BY <1>1, <1>2, <3>2, PartRunes
  <2>4. CASE a = e - 1
    <3>1. e > 1 /\ a + 1 = e
      BY <1>2, <1>5, <2>4
    <3>2. InsideRune(t, e)
      BY <1>2, <2>1, <2>4, <3>1, PartRunes, InsideRuneIs
    <3> QED BY <1>1, <1>2, <3>2
  <2> QED BY <2>2, <2>3, <2>4
<1> QED BY <1>4, <1>6, <1>7

\* Identifier reads the longest identifier, or the keyword it is.
LEMMA IdentifierReads ==
  ASSUME LexType, Identifier PROVE Words!Next
<1> PICK i : i = index
  OBVIOUS
<1> PICK e : e = IdentifierEnd(text, i)
  OBVIOUS
<1>1. /\ Reading /\ index <= Len(text) /\ isIdentStart(RuneAt(text, i))
      /\ EmitWord(e, Spelled(text, i, e))
  BY DEF Identifier, Meets, Rune
<1>2. text \in Seq(STRING) /\ i \in 1 .. Len(text)
  BY <1>1, AtIndex
<1>3. e \in i + 1 .. Len(text) + 1
  BY <1>1, <1>2, IdentifierEndIs
<1> PICK j : j = e - 1
  OBVIOUS
<1>4. e = j + 1 /\ j \in i .. Len(text)
  BY <1>2, <1>3
<1> PICK s : s = SubSeq(text, i, j)
  OBVIOUS
<1> DEFINE kind == IF Joined(s) \in keywords THEN Joined(s) ELSE "ident"
<1>5. Words!IsIdentifier(s)
  BY <1>1, <1>2, IdentifierIs
<1>6. \A k \in i .. Len(text) :
        Words!KindsOf(SubSeq(text, i, k)) =
          IF Words!IsIdentifier(SubSeq(text, i, k))
          THEN {IF Joined(SubSeq(text, i, k)) \in keywords THEN Joined(SubSeq(text, i, k))
                ELSE "ident"}
          ELSE {}
  BY <1>1, <1>2, KindsHere
<1>7. kind \in Words!KindsOf(s)
  BY <1>4, <1>5, <1>6
<1>8. \A k \in i .. Len(text) : Words!IsWord(SubSeq(text, i, k)) => k <= j
  <2> TAKE k \in i .. Len(text)
  <2> SUFFICES ASSUME Words!IsWord(SubSeq(text, i, k)) PROVE k <= j
    OBVIOUS
  <2>1. Words!IsIdentifier(SubSeq(text, i, k))
    BY <1>6 DEF Words!IsWord
  <2> QED BY <1>1, <1>2, <2>1, IdentifierLongest
<1>9. Spelled(text, i, j + 1) = Joined(s)
  BY <1>2, <1>4, BetweenIs DEF Spelled
<1>10. Emit(kind, Joined(s), j + 1) /\ index' = j + 1
  BY <1>1, <1>4, <1>9 DEF EmitWord
<1>11. ~ Opens("/", "/") /\ ~ Opens("/", "*")
  <2>1. IsByte("/") /\ IsByte("*")
    BY DEF IsByte
  <2> QED BY <1>1, <2>1, SlashRune, ClassesApart
<1>12. Words!LastOfGap = 0
  BY <1>1, <1>11, NoGapHere, ClassesApart
<1>13. ~ Words!IsWrong(SubSeq(text, index, j))
  BY <1>1, <1>4, <1>11, ClassesApart, NotWrong
<1>14. Words!IsWord(s)
  BY <1>7 DEF Words!IsWord
<1> HIDE DEF kind
<1> QED BY <1>1, <1>4, <1>7, <1>8, <1>10, <1>12, <1>13, <1>14, ReadsWord

-----------------------------------------------------------------------------
(***************************************************************************)
(* Strings: which quote ends one.                                          *)
(***************************************************************************)
\* The backslashes right before the byte at k.
SlashesAt(s, k) == {m \in 1 .. k - 1 : \A n \in m .. k - 1 : s[n] = "\\"}

\* A backslash is one more, and anything else is none.
LEMMA SlashesStep ==
  ASSUME NEW s, NEW k \in Nat \ {0}
  PROVE  /\ Words!Slashes(s, 1) = 0
         /\ Words!Slashes(s, k) \in Nat
         /\ s[k] = "\\" => Words!Slashes(s, k + 1) = Words!Slashes(s, k) + 1
         /\ s[k] # "\\" => Words!Slashes(s, k + 1) = 0
<1>1. \A n : Words!Slashes(s, n) = Cardinality(SlashesAt(s, n))
  <2> TAKE n
  <2>1. Words!Slashes(s, n) =
          Words!Cardinality({j \in 1 .. n - 1 : \A i \in j .. n - 1 : s[i] = "\\"})
    BY DEF Words!Slashes
  <2>2. SlashesAt(s, n) = {j \in 1 .. n - 1 : \A i \in j .. n - 1 : s[i] = "\\"}
    BY DEF SlashesAt
  <2>3. \A S : Words!Cardinality(S) = Cardinality(S)
    BY DEF Cardinality, Words!Cardinality
  <2> QED BY <2>1, <2>2, <2>3
<1>2. Cardinality({}) = 0
  BY FS_EmptySet
<1>3. SlashesAt(s, 1) = {}
  BY DEF SlashesAt
<1>4. IsFiniteSet(SlashesAt(s, k)) /\ Cardinality(SlashesAt(s, k)) \in Nat
  <2>1. SlashesAt(s, k) \subseteq 1 .. k - 1 /\ k - 1 \in Int
    BY DEF SlashesAt
  <2> QED BY <2>1, CountSome
<1>5. k + 1 - 1 = k
  OBVIOUS
<1>6. ASSUME s[k] = "\\"
      PROVE  SlashesAt(s, k + 1) = SlashesAt(s, k) \cup {k} /\ k \notin SlashesAt(s, k)
  <2>1. k \notin SlashesAt(s, k)
    BY DEF SlashesAt
  <2> DEFINE All(m, n) == \A p \in m .. n : s[p] = "\\"
  <2>2. \A m \in 1 .. k : All(m, k) <=> m = k \/ (m \in 1 .. k - 1 /\ All(m, k - 1))
    <3> TAKE m \in 1 .. k
    <3>1. \A p \in m .. k : p = k \/ p \in m .. k - 1
      OBVIOUS
    <3>2. m = k => m .. k = {k}
      OBVIOUS
    <3>3. m # k => m \in 1 .. k - 1
      OBVIOUS
    <3>4. m .. k - 1 \subseteq m .. k
      OBVIOUS
    <3> QED BY <1>6, <3>1, <3>2, <3>3, <3>4
  <2>3. 1 .. k - 1 \subseteq 1 .. k /\ k \in 1 .. k
    OBVIOUS
  <2>4. \A n : SlashesAt(s, n) = {m \in 1 .. n - 1 : All(m, n - 1)}
    BY DEF SlashesAt
  <2>5. SlashesAt(s, k + 1) = {m \in 1 .. k : All(m, k)}
    BY <1>5, <2>4
  <2> HIDE DEF All
  <2>6. SlashesAt(s, k + 1) = SlashesAt(s, k) \cup {k}
    BY <2>2, <2>3, <2>4, <2>5
  <2> QED BY <2>1, <2>6
<1>7. ASSUME s[k] # "\\" PROVE SlashesAt(s, k + 1) = {}
  <2>1. \A m \in 1 .. k : k \in m .. k
    OBVIOUS
  <2> QED BY <1>5, <1>7, <2>1 DEF SlashesAt
<1>8. s[k] = "\\" => Cardinality(SlashesAt(s, k + 1)) = Cardinality(SlashesAt(s, k)) + 1
  BY <1>4, <1>6, FS_AddElement
<1> QED BY <1>1, <1>2, <1>3, <1>4, <1>7, <1>8

\* What follows a backslash is escaped if the backslash is not.
LEMMA EscapedStep ==
  ASSUME NEW s, NEW k \in Nat \ {0}
  PROVE  /\ ~ Words!IsEscaped(s, 1)
         /\ Words!IsEscaped(s, k + 1) <=> s[k] = "\\" /\ ~ Words!IsEscaped(s, k)
<1>1. /\ Words!Slashes(s, 1) = 0
      /\ Words!Slashes(s, k) \in Nat
      /\ s[k] = "\\" => Words!Slashes(s, k + 1) = Words!Slashes(s, k) + 1
      /\ s[k] # "\\" => Words!Slashes(s, k + 1) = 0
  BY SlashesStep
<1> PICK a, b, c : a = Words!Slashes(s, k) /\ b = Words!Slashes(s, k + 1) /\ c = Words!Slashes(s, 1)
  OBVIOUS
<1>2. 0 % 2 # 1
  OBVIOUS
<1>3. \A n \in Nat : (n + 1) % 2 = 1 <=> n % 2 # 1
  OBVIOUS
<1>4. /\ Words!IsEscaped(s, 1) <=> c % 2 = 1
      /\ Words!IsEscaped(s, k) <=> a % 2 = 1
      /\ Words!IsEscaped(s, k + 1) <=> b % 2 = 1
  BY DEF Words!IsEscaped
<1> QED BY <1>1, <1>2, <1>3, <1>4

\* What is escaped in the text is so in the literal, and the other way round.
LEMMA EscapedAlike ==
  ASSUME NEW t \in Seq(STRING), NEW i \in 1 .. Len(t), t[i] # "\\", NEW j \in i .. Len(t),
         NEW s, s = SubSeq(t, i, j), NEW k \in 1 .. j + 1 - i
  PROVE  Words!IsEscaped(s, k) <=> i + k - 1 \in Escaped(t, i)
<1> PICK n : n = j + 1 - i
  OBVIOUS
<1>1. n \in Nat /\ \A m \in 1 .. n : s[m] = t[i + m - 1]
  BY PieceIs
<1> PICK E : E = Escaped(t, i)
  OBVIOUS
<1>2. /\ E \subseteq i .. Len(t)
      /\ \A p \in i .. Len(t) : p \in E <=> p > i + 1 /\ t[p - 1] = "\\" /\ p - 1 \notin E
  BY EscapedIs
<1> DEFINE Same(m) == Words!IsEscaped(s, m) <=> i + m - 1 \in E
           bad == {m \in 1 .. n : ~ Same(m)}
<1>3. Same(1)
  <2>1. i + 1 - 1 = i /\ ~(i > i + 1) /\ i \in i .. Len(t) /\ 1 \in Nat \ {0}
    OBVIOUS
  <2> QED BY <1>2, <2>1, EscapedStep
<1>4. ASSUME NEW m \in 1 .. n, m + 1 \in 1 .. n, Same(m) PROVE Same(m + 1)
  <2> PICK p : p = i + m
    OBVIOUS
  <2>1. /\ p \in i .. Len(t) /\ i + (m + 1) - 1 = p /\ i + m - 1 = p - 1
        /\ (p > i + 1 <=> m # 1) /\ m \in Nat \ {0}
    BY <1>1, <1>4
  <2>2. Words!IsEscaped(s, m + 1) <=> s[m] = "\\" /\ ~ Words!IsEscaped(s, m)
    BY <2>1, EscapedStep
  <2>3. s[m] = t[p - 1]
    BY <1>1, <2>1
  <2>4. m = 1 => t[p - 1] = t[i]
    <3>1. m = 1 => p - 1 = i
      BY <2>1
    <3> QED BY <3>1
  <2>5. p \in E <=> p > i + 1 /\ t[p - 1] = "\\" /\ p - 1 \notin E
    BY <1>2, <2>1
  <2>6. p \in E <=> t[p - 1] = "\\" /\ p - 1 \notin E
    BY <2>1, <2>4, <2>5
  <2> QED BY <1>4, <2>1, <2>2, <2>3, <2>6
<1> HIDE DEF Same
<1>5. bad = {}
  <2> SUFFICES ASSUME bad # {} PROVE FALSE
    OBVIOUS
  <2>1. bad \subseteq Nat /\ bad \subseteq 1 .. n
    BY <1>1
  <2>2. PICK m \in bad : \A l \in bad : m <= l
    BY <2>1, LeastMember
  <2> PICK q : q = m - 1
    OBVIOUS
  <2>3. m \in 1 .. n /\ ~ Same(m)
    OBVIOUS
  <2>4. m # 1
    BY <1>3, <2>3
  <2>5. q \in 1 .. n /\ q + 1 = m /\ ~(m <= q)
    BY <1>1, <2>3, <2>4
  <2>6. Same(q)
    BY <2>2, <2>5
  <2> QED BY <1>4, <2>3, <2>5, <2>6
<1>6. Same(k)
  BY <1>5
<1> QED BY <1>6 DEF Same

IsQuoteAt(t, k) == t[k] = "\""

\* From a quote to the first one that is not escaped is a literal, and only that.
LEMMA LiteralIs ==
  ASSUME NEW t \in Seq(STRING), NEW i \in 1 .. Len(t), IsQuoteAt(t, i), NEW j \in i .. Len(t),
         NEW stop, stop = StringStop(t, i, Escaped(t, i))
  PROVE  Words!IsStringLiteral(SubSeq(t, i, j)) <=>
           j = stop /\ StringEnd(t, stop, Escaped(t, i)) # NoToken
<1> PICK E : E = Escaped(t, i)
  OBVIOUS
<1> PICK s : s = SubSeq(t, i, j)
  OBVIOUS
<1> PICK n : n = j + 1 - i
  OBVIOUS
<1>1. n \in Nat /\ s \in Seq(STRING) /\ Len(s) = n /\ \A k \in 1 .. n : s[k] = t[i + k - 1]
  BY PieceIs
<1>2. \A k \in 1 .. n : Words!IsEscaped(s, k) <=> i + k - 1 \in E
  <2>1. t[i] # "\\"
    BY DEF IsQuoteAt
  <2> QED BY <2>1, EscapedAlike
<1>3. Words!IsStringLiteral(s) <=>
        j > i /\ IsQuoteAt(t, j) /\ j \notin E /\ LiteralTo(t, i, j - 1, E)
  <2>1. n > 1 <=> j > i
    BY <1>1
  <2>2. n \in 1 .. n /\ 1 \in 1 .. n /\ i + n - 1 = j /\ i + 1 - 1 = i
    BY <1>1
  <2>3. s[1] = t[i] /\ s[n] = t[j] /\ (Words!IsEscaped(s, n) <=> j \in E)
    BY <1>1, <1>2, <2>2
  <2> DEFINE Right(k) == IF Words!IsEscaped(s, k) THEN s[k] \in EscapeBytes
                         ELSE s[k] \notin {"\""} \cup LineEnds
             There(p) == IF p \in E THEN t[p] \in EscapeBytes ELSE t[p] \notin {"\""} \cup LineEnds
  <2>4. \A k \in 2 .. n - 1 : Right(k) <=> There(i + k - 1)
    <3>1. \A k \in 2 .. n - 1 : k \in 1 .. n
      BY <1>1
    <3> QED BY <1>1, <1>2, <3>1
  <2>5. Words!IsStringLiteral(s) <=>
          n > 1 /\ s[1] = "\"" /\ s[n] = "\"" /\ ~ Words!IsEscaped(s, n)
          /\ \A k \in 2 .. n - 1 : Right(k)
    BY <1>1 DEF Words!IsStringLiteral, EscapeBytes, LineEnds
  <2>6. LiteralTo(t, i, j - 1, E) <=> \A p \in i + 1 .. j - 1 : There(p)
    BY DEF LiteralTo
  <2> HIDE DEF Right, There
  <2>7. \A k \in 2 .. n - 1 : i + k - 1 \in i + 1 .. j - 1
    BY <1>1
  <2>8. \A p \in i + 1 .. j - 1 : p + 1 - i \in 2 .. n - 1 /\ i + (p + 1 - i) - 1 = p
    BY <1>1
  <2>9. (\A k \in 2 .. n - 1 : Right(k)) <=> (\A p \in i + 1 .. j - 1 : There(p))
    BY <2>4, <2>7, <2>8
  <2> QED BY <2>1, <2>3, <2>5, <2>6, <2>9 DEF IsQuoteAt
<1>4. /\ stop \in i + 1 .. Len(t) + 1
      /\ LiteralTo(t, i, stop - 1, E)
  BY StringStopIs, EscapesAre DEF LiteralTo
<1>5. StringEnd(t, stop, E) # NoToken <=> stop <= Len(t) /\ IsQuoteAt(t, stop) /\ stop \notin E
  <2>1. StringEnd(t, stop, E) # NoToken => stop <= Len(t) /\ IsQuoteAt(t, stop) /\ stop \notin E
    <3> SUFFICES ASSUME StringEnd(t, stop, E) # NoToken
                 PROVE  stop <= Len(t) /\ IsQuoteAt(t, stop) /\ stop \notin E
      OBVIOUS
    <3>1. stop \in i + 1 .. Len(t) /\ t[stop] = "\"" /\ stop \notin E
      BY StringEndIs
    <3>2. \A k \in i + 1 .. Len(t) : k <= Len(t)
      OBVIOUS
    <3> QED BY <3>1, <3>2 DEF IsQuoteAt
  <2>2. ASSUME stop <= Len(t), IsQuoteAt(t, stop), stop \notin E PROVE StringEnd(t, stop, E) # NoToken
    <3>1. stop \in 1 .. Len(t) /\ stop + 1 # 0
      BY <1>4, <2>2
    <3>2. At(t, stop) = "\""
      BY <2>2, <3>1, AtInside DEF IsQuoteAt
    <3> QED BY <2>2, <3>1, <3>2 DEF StringEnd, NoToken
  <2> QED BY <2>1, <2>2
<1>6. ASSUME j > i, IsQuoteAt(t, j), j \notin E, LiteralTo(t, i, j - 1, E) PROVE j = stop
  <2>1. CASE stop < j
    <3>1. stop \in i + 1 .. j - 1 /\ stop <= Len(t)
      BY <1>4, <2>1
    <3>2. IF stop \in E THEN t[stop] \notin DOMAIN Escapes ELSE t[stop] \in {"\""} \cup LineEnds
      BY <3>1, StringStopIs
    <3> QED BY <1>6, <3>1, <3>2, EscapesAre DEF LiteralTo
  <2>2. CASE stop > j
    <3>1. j \in i + 1 .. stop - 1
      BY <1>4, <1>6, <2>2
    <3> QED BY <1>4, <1>6, <3>1 DEF LiteralTo, IsQuoteAt
  <2> QED BY <1>4, <2>1, <2>2
<1>7. stop > i
  BY <1>4
<1>8. j <= Len(t)
  OBVIOUS
<1> QED BY <1>3, <1>4, <1>5, <1>6, <1>7, <1>8

\* Where StringEnd finds the literal to end.
LEMMA LiteralEnds ==
  ASSUME NEW t \in Seq(STRING), NEW i \in 1 .. Len(t), NEW E,
         NEW stop, stop = StringStop(t, i, E), StringEnd(t, stop, E) # NoToken
  PROVE  stop \in i + 1 .. Len(t) /\ StringEnd(t, stop, E) = stop + 1
BY StringEndIs

\* What begins with a quote begins neither a gap nor another word.
LEMMA QuoteHere ==
  ASSUME LexType, index <= Len(text), IsQuote(RuneAt(text, index))
  PROVE  /\ text \in Seq(STRING) /\ index \in 1 .. Len(text) /\ IsQuoteAt(text, index)
         /\ Words!LastOfGap = 0
         /\ \A j \in index .. Len(text) : ~ Words!IsWrong(SubSeq(text, index, j))
<1>1. text \in Seq(STRING) /\ index \in 1 .. Len(text)
  BY AtIndex
<1>2. text[index] = "\""
  <2>1. RuneAt(text, index) \in Runes({"\""})
    BY DEF IsQuote, Runes
  <2>2. text[index] \in {"\""}
    BY <1>1, <2>1, ClassesAre, RuneOf
  <2> QED BY <2>2
<1>3. ~ Opens("/", "/") /\ ~ Opens("/", "*")
  <2>1. IsByte("/") /\ IsByte("*")
    BY DEF IsByte
  <2> QED BY <2>1, SlashRune, ClassesApart
<1>4. Words!LastOfGap = 0
  BY <1>3, NoGapHere, ClassesApart
<1>5. \A j \in index .. Len(text) : ~ Words!IsWrong(SubSeq(text, index, j))
  BY <1>3, ClassesApart, NotWrong
<1> QED BY <1>1, <1>2, <1>4, <1>5 DEF IsQuoteAt

\* String reads the literal.
LEMMA StringReads ==
  ASSUME LexType, String PROVE Words!Next
<1> PICK i : i = index
  OBVIOUS
<1> PICK E : E = Escaped(text, i)
  OBVIOUS
<1> PICK stop : stop = StringStop(text, i, E)
  OBVIOUS
<1> PICK e : e = StringEnd(text, stop, E)
  OBVIOUS
<1>1. Reading /\ index <= Len(text) /\ IsQuote(RuneAt(text, index)) /\ EmitString(e, E)
  BY DEF String, Meets, Rune, Closed
<1>2. /\ text \in Seq(STRING) /\ i \in 1 .. Len(text) /\ IsQuoteAt(text, i)
      /\ Words!LastOfGap = 0
      /\ \A j \in index .. Len(text) : ~ Words!IsWrong(SubSeq(text, index, j))
  BY <1>1, QuoteHere
<1>3. e # NoToken /\ Emit("string", StringText(text, i, e, E), e) /\ index' = e
  BY <1>1 DEF EmitString, MoveTo
<1>4. stop \in i + 1 .. Len(text) /\ e = stop + 1
  BY <1>2, <1>3, LiteralEnds
<1>5. stop \in i .. Len(text)
  BY <1>2, <1>4
<1>6. \A j \in i .. Len(text) : Words!IsStringLiteral(SubSeq(text, i, j)) <=> j = stop
  BY <1>2, <1>3, LiteralIs
<1>7. \A j \in i .. Len(text) :
        Words!KindsOf(SubSeq(text, i, j)) =
          IF Words!IsStringLiteral(SubSeq(text, i, j)) THEN {"string"} ELSE {}
  BY <1>1, <1>2, KindsHere
<1>8. "string" \in Words!KindsOf(SubSeq(text, i, stop)) /\ Words!IsWord(SubSeq(text, i, stop))
  BY <1>5, <1>6, <1>7 DEF Words!IsWord
<1>9. \A j \in i .. Len(text) : Words!IsWord(SubSeq(text, i, j)) => j <= stop
  <2>1. \A j \in i .. Len(text) : Words!IsWord(SubSeq(text, i, j)) => j = stop
    BY <1>6, <1>7 DEF Words!IsWord
  <2>2. stop <= stop
    BY <1>2, <1>4
  <2> QED BY <2>1, <2>2
<1> QED BY <1>1, <1>2, <1>3, <1>4, <1>5, <1>8, <1>9, ReadsWord

\* InvalidString refuses what is no literal.
LEMMA InvalidStringRefuses ==
  ASSUME LexType, InvalidString PROVE Words!Next
<1> PICK i : i = index
  OBVIOUS
<1>1. /\ Reading /\ index <= Len(text) /\ IsQuote(RuneAt(text, index))
      /\ StringEnd(text, StringStop(text, i, Escaped(text, i)), Escaped(text, i)) = NoToken
      /\ Refuse("unterminated string or unsupported escape")
  BY DEF InvalidString, Meets, Rune, Closed
<1>2. /\ text \in Seq(STRING) /\ i \in 1 .. Len(text) /\ IsQuoteAt(text, i)
      /\ Words!LastOfGap = 0
  BY <1>1, QuoteHere
<1>3. \A j \in i .. Len(text) : ~ Words!IsStringLiteral(SubSeq(text, i, j))
  BY <1>1, <1>2, LiteralIs
<1>4. \A j \in i .. Len(text) : ~ Words!IsWord(SubSeq(text, i, j))
  BY <1>1, <1>2, <1>3, KindsHere DEF Words!IsWord
<1>5. Words!LastOfWord = 0
  BY <1>4, NoWordHere
<1> QED BY <1>1, <1>2, <1>5, RefusesText

-----------------------------------------------------------------------------
(***************************************************************************)
(* Numerals: digits, a fraction, an exponent and a suffix.  First the      *)
(* stretches of a text that they are.                                      *)
(***************************************************************************)
DigAt(t, k) == At(t, k) \in Digits
PointAt(t, k) == At(t, k) = "."
ExpAt(t, k) == At(t, k) \in {"e", "E"}
SignAt(t, k) == At(t, k) \in {"+", "-"}
SufAt(t, k) == At(t, k) \in SuffixBytes

\* The bytes of numerals are apart, and they are in the text.
LEMMA BytesOfNumerals ==
  ASSUME NEW t \in Seq(STRING), NEW k \in Nat
  PROVE  /\ DigAt(t, k) => ~ PointAt(t, k) /\ ~ ExpAt(t, k) /\ ~ SignAt(t, k) /\ ~ SufAt(t, k)
         /\ PointAt(t, k) => ~ ExpAt(t, k) /\ ~ SufAt(t, k)
         /\ ExpAt(t, k) => ~ SufAt(t, k)
         /\ DigAt(t, k) \/ PointAt(t, k) \/ ExpAt(t, k) \/ SignAt(t, k) \/ SufAt(t, k) =>
              k \in 1 .. Len(t)
<1>1. k \notin 1 .. Len(t) => At(t, k) = ""
  BY AtOutside
<1> PICK b : b = At(t, k)
  OBVIOUS
<1>2. DigAt(t, k) => ~ PointAt(t, k) /\ ~ ExpAt(t, k) /\ ~ SignAt(t, k) /\ ~ SufAt(t, k)
  <2>1. b \in Digits => b # "." /\ b \notin {"e", "E"} /\ b \notin {"+", "-"} /\ b \notin SuffixBytes
    BY DEF Digits, SuffixBytes
  <2> QED BY <2>1 DEF DigAt, PointAt, ExpAt, SignAt, SufAt
<1>3. PointAt(t, k) => ~ ExpAt(t, k) /\ ~ SufAt(t, k)
  BY DEF PointAt, ExpAt, SufAt, SuffixBytes
<1>4. ExpAt(t, k) => ~ SufAt(t, k)
  BY DEF ExpAt, SufAt, SuffixBytes
<1>5. DigAt(t, k) \/ PointAt(t, k) \/ ExpAt(t, k) \/ SignAt(t, k) \/ SufAt(t, k) => b # ""
  <2>1. "" \notin Digits /\ "" \notin SuffixBytes
    BY DEF Digits, SuffixBytes
  <2> QED BY <2>1 DEF DigAt, PointAt, ExpAt, SignAt, SufAt
<1> QED BY <1>1, <1>2, <1>3, <1>4, <1>5

DigitsFrom(t, x, y) == x < y /\ \A k \in x .. y - 1 : DigAt(t, k)
FractionFrom(t, x, y) == PointAt(t, x) /\ DigitsFrom(t, x + 1, y)
ExponentFrom(t, x, y) ==
  /\ ExpAt(t, x)
  /\ DigitsFrom(t, x + 1, y) \/ (SignAt(t, x + 1) /\ DigitsFrom(t, x + 2, y))

\* The bytes from x until y.
Stretch(t, x, y) == SubSeq(t, x, y - 1)

\* An empty stretch is the empty sequence.
LEMMA EmptyIs ==
  ASSUME NEW s \in Seq(STRING)
  PROVE  s = <<>> <=> Len(s) = 0
<1>1. Len(s) = 0 => s = <<>>
  BY AsFunction
<1> QED BY <1>1

IsStretch(s, t, x, n) ==
  /\ s \in Seq(STRING) /\ Len(s) = n
  /\ \A k \in 1 .. n : s[k] = At(t, x + k - 1)
  /\ s = <<>> <=> n = 0

\* The bytes of a stretch.
LEMMA StretchIs ==
  ASSUME NEW t \in Seq(STRING), NEW x \in 1 .. Len(t) + 1, NEW y \in x .. Len(t) + 1
  PROVE  IsStretch(Stretch(t, x, y), t, x, y - x)
<1> PICK z : z = y - 1
  OBVIOUS
<1> PICK s : s = SubSeq(t, x, z)
  OBVIOUS
<1>1. x \in Nat \ {0} /\ z \in Nat /\ x <= z + 1 /\ z <= Len(t) /\ z + 1 - x = y - x
  OBVIOUS
<1>2. s \in Seq(STRING) /\ Len(s) = y - x /\ \A k \in 1 .. y - x : s[k] = t[x + k - 1]
  BY <1>1, PieceIs
<1>3. \A k \in 1 .. y - x : At(t, x + k - 1) = t[x + k - 1]
  <2> TAKE k \in 1 .. y - x
  <2>1. x + k - 1 \in 1 .. Len(t)
    OBVIOUS
  <2> QED BY <2>1, AtInside
<1>4. s = <<>> <=> y - x = 0
  <2> PICK n : n = y - x
    OBVIOUS
  <2>1. s \in Seq(STRING) /\ Len(s) = n
    BY <1>2
  <2> QED BY <2>1, EmptyIs
<1> QED BY <1>2, <1>3, <1>4 DEF Stretch, IsStretch

\* The tail of a sequence.
LEMMA TailIs ==
  ASSUME NEW s \in Seq(STRING), s # <<>>
  PROVE  Tail(s) = [k \in 1 .. Len(s) - 1 |-> s[k + 1]]
<1>1. /\ Tail(s) \in Seq(STRING) /\ Len(Tail(s)) = Len(s) - 1
      /\ \A k \in 1 .. Len(s) - 1 : Tail(s)[k] = s[k + 1]
  OBVIOUS
<1> PICK r : r = Tail(s)
  OBVIOUS
<1>2. r = [k \in 1 .. Len(r) |-> r[k]]
  BY <1>1, AsFunction
<1> QED BY <1>1, <1>2

\* The tail of a stretch is a stretch.
LEMMA StretchTail ==
  ASSUME NEW t \in Seq(STRING), NEW x \in 1 .. Len(t) + 1, NEW y \in x .. Len(t) + 1, x < y
  PROVE  /\ Tail(Stretch(t, x, y)) = Stretch(t, x + 1, y)
         /\ x + 1 < y =>
              SubSeq(Stretch(t, x, y), 3, Len(Stretch(t, x, y))) = Stretch(t, x + 2, y)
<1> PICK n : n = y - x
  OBVIOUS
<1> PICK s : s = Stretch(t, x, y)
  OBVIOUS
<1> PICK r : r = Stretch(t, x + 1, y)
  OBVIOUS
<1>1. s \in Seq(STRING) /\ Len(s) = n /\ \A k \in 1 .. n : s[k] = At(t, x + k - 1)
  <2>1. IsStretch(s, t, x, n)
    BY StretchIs
  <2> QED BY <2>1 DEF IsStretch
<1>2. x + 1 \in 1 .. Len(t) + 1 /\ y \in x + 1 .. Len(t) + 1 /\ y - (x + 1) = n - 1 /\ n \in Nat \ {0}
  OBVIOUS
<1>3. r \in Seq(STRING) /\ Len(r) = n - 1 /\ \A k \in 1 .. n - 1 : r[k] = At(t, x + 1 + k - 1)
  <2>1. IsStretch(r, t, x + 1, n - 1)
    BY <1>2, StretchIs
  <2> QED BY <2>1 DEF IsStretch
<1>4. Tail(s) = [k \in 1 .. n - 1 |-> s[k + 1]]
  <2>1. s # <<>>
    BY <1>1, <1>2, EmptyIs
  <2> QED BY <1>1, <2>1, TailIs
<1>5. r = [k \in 1 .. n - 1 |-> r[k]]
  BY <1>3, AsFunction
<1>6. \A k \in 1 .. n - 1 : k + 1 \in 1 .. n /\ x + (k + 1) - 1 = x + 1 + k - 1
  BY <1>2
<1>7. \A k \in 1 .. n - 1 : s[k + 1] = r[k]
  BY <1>1, <1>3, <1>6
<1>8. Tail(s) = r
  BY <1>4, <1>5, <1>7
<1>9. ASSUME x + 1 < y PROVE SubSeq(s, 3, n) = Stretch(t, x + 2, y)
  <2> PICK z : z = y - 1
    OBVIOUS
  <2>1. /\ x \in Nat \ {0} /\ z \in Nat /\ x <= z + 1 /\ z <= Len(t) /\ 3 \in Nat \ {0} /\ n \in Nat
        /\ 3 <= n + 1 /\ n <= z + 1 - x /\ x + 3 - 1 = x + 2 /\ x + n - 1 = z
    BY <1>2, <1>9
  <2>2. SubSeq(SubSeq(t, x, z), 3, n) = SubSeq(t, x + 3 - 1, x + n - 1)
    BY <2>1, PieceOfPiece
  <2> QED BY <2>1, <2>2 DEF Stretch
<1> QED BY <1>1, <1>8, <1>9

\* A stretch that is of digits.
LEMMA AllDigitsIs ==
  ASSUME NEW t \in Seq(STRING), NEW x \in 1 .. Len(t) + 1, NEW y \in x .. Len(t) + 1
  PROVE  Words!AllDigits(Stretch(t, x, y)) <=> DigitsFrom(t, x, y)
<1> PICK s : s = Stretch(t, x, y)
  OBVIOUS
<1> PICK n : n = y - x
  OBVIOUS
<1>1. /\ s \in Seq(STRING) /\ Len(s) = n /\ \A k \in 1 .. n : s[k] = At(t, x + k - 1)
      /\ s = <<>> <=> n = 0
  <2>1. IsStretch(s, t, x, n)
    BY StretchIs
  <2> QED BY <2>1 DEF IsStretch
<1>2. DOMAIN s = 1 .. n
  BY <1>1
<1>3. \A b : <<b>> \in DigitRunes <=> b \in Digits
  BY RunesAre, WideIs DEF DigitRunes
<1>4. Words!AllDigits(s) <=> s # <<>> /\ \A k \in 1 .. n : DigAt(t, x + k - 1)
  BY <1>1, <1>2, <1>3 DEF Words!AllDigits, DigAt
<1>5. \A k \in 1 .. n : x + k - 1 \in x .. y - 1
  OBVIOUS
<1>6. \A k \in x .. y - 1 : k + 1 - x \in 1 .. n /\ x + (k + 1 - x) - 1 = k
  OBVIOUS
<1>7. s # <<>> <=> x < y
  BY <1>1
<1> QED BY <1>4, <1>5, <1>6, <1>7 DEF DigitsFrom

\* A stretch that is a fraction.
LEMMA IsFractionIs ==
  ASSUME NEW t \in Seq(STRING), NEW x \in 1 .. Len(t) + 1, NEW y \in x .. Len(t) + 1
  PROVE  Words!IsFraction(Stretch(t, x, y)) <=> FractionFrom(t, x, y)
<1> PICK s : s = Stretch(t, x, y)
  OBVIOUS
<1>1. CASE y = x
  <2>1. s = <<>>
    <3>1. IsStretch(s, t, x, y - x) /\ y - x = 0
      BY <1>1, StretchIs
    <3> QED BY <3>1 DEF IsStretch
  <2>2. ~(x + 1 < y)
    BY <1>1
  <2> QED BY <2>1, <2>2 DEF Words!IsFraction, FractionFrom, DigitsFrom
<1>2. CASE y # x
  <2>1. x < y /\ 1 \in 1 .. y - x /\ x + 1 - 1 = x /\ x + 1 \in 1 .. Len(t) + 1 /\ y \in x + 1 .. Len(t) + 1
    BY <1>2
  <2>2. s # <<>> /\ s[1] = At(t, x)
    <3>1. IsStretch(s, t, x, y - x) /\ y - x # 0
      BY <2>1, StretchIs
    <3>2. s[1] = At(t, x + 1 - 1) /\ s # <<>>
      BY <2>1, <3>1 DEF IsStretch
    <3> QED BY <2>1, <3>2
  <2>3. Tail(s) = Stretch(t, x + 1, y)
    BY <2>1, StretchTail
  <2>4. Words!AllDigits(Tail(s)) <=> DigitsFrom(t, x + 1, y)
    BY <2>1, <2>3, AllDigitsIs
  <2> QED BY <2>2, <2>4 DEF Words!IsFraction, FractionFrom, PointAt
<1> QED BY <1>1, <1>2

\* A stretch that is an exponent.
LEMMA IsExponentIs ==
  ASSUME NEW t \in Seq(STRING), NEW x \in 1 .. Len(t) + 1, NEW y \in x .. Len(t) + 1
  PROVE  Words!IsExponent(Stretch(t, x, y)) <=> ExponentFrom(t, x, y)
<1> PICK s : s = Stretch(t, x, y)
  OBVIOUS
<1>1. IsStretch(s, t, x, y - x) /\ Len(s) = y - x
  <2>1. IsStretch(s, t, x, y - x)
    BY StretchIs
  <2> QED BY <2>1 DEF IsStretch
<1>2. CASE ~(x + 1 < y)
  <2>1. ~(Len(s) > 1) /\ ~(x + 2 < y)
    BY <1>1, <1>2
  <2> QED BY <1>2, <2>1 DEF Words!IsExponent, ExponentFrom, DigitsFrom
<1>3. CASE x + 1 < y
  <2>1. /\ x < y /\ 1 \in 1 .. y - x /\ 2 \in 1 .. y - x /\ x + 1 - 1 = x /\ x + 2 - 1 = x + 1
        /\ x + 1 \in 1 .. Len(t) + 1 /\ y \in x + 1 .. Len(t) + 1
        /\ x + 2 \in 1 .. Len(t) + 1 /\ y \in x + 2 .. Len(t) + 1 /\ y - x > 1
    BY <1>3
  <2>2. s[1] = At(t, x) /\ s[2] = At(t, x + 1) /\ Len(s) > 1
    <3>1. s[1] = At(t, x + 1 - 1) /\ s[2] = At(t, x + 2 - 1)
      BY <1>1, <2>1 DEF IsStretch
    <3> QED BY <1>1, <2>1, <3>1
  <2>3. Tail(s) = Stretch(t, x + 1, y) /\ SubSeq(s, 3, Len(s)) = Stretch(t, x + 2, y)
    BY <1>3, <2>1, StretchTail
  <2>4. Words!AllDigits(Tail(s)) <=> DigitsFrom(t, x + 1, y)
    BY <2>1, <2>3, AllDigitsIs
  <2>5. Words!AllDigits(SubSeq(s, 3, Len(s))) <=> DigitsFrom(t, x + 2, y)
    BY <2>1, <2>3, AllDigitsIs
  <2> QED BY <2>2, <2>4, <2>5 DEF Words!IsExponent, ExponentFrom, ExpAt, SignAt
<1> QED BY <1>2, <1>3

\* A stretch that is a suffix or empty.
LEMMA SuffixIs ==
  ASSUME NEW t \in Seq(STRING), NEW x \in 1 .. Len(t) + 1, NEW y \in x .. Len(t) + 1
  PROVE  /\ Stretch(t, x, y) \in Words!Suffixes <=> y = x \/ (y = x + 1 /\ SufAt(t, x))
         /\ y = x + 1 => Stretch(t, x, y) = <<At(t, x)>>
<1> PICK s : s = Stretch(t, x, y)
  OBVIOUS
<1> PICK b : b = At(t, x)
  OBVIOUS
<1> PICK n : n = y - x
  OBVIOUS
<1>1. s \in Seq(STRING) /\ Len(s) = n /\ (s = <<>> <=> y = x) /\ IsStretch(s, t, x, n)
  <2>1. IsStretch(s, t, x, n)
    BY StretchIs
  <2>2. n = 0 <=> y = x
    OBVIOUS
  <2> QED BY <2>1, <2>2 DEF IsStretch
<1>2. y = x + 1 <=> Len(s) = 1
  BY <1>1
<1>3. y = x + 1 => s = <<b>>
  <2>1. y = x + 1 => 1 \in 1 .. n /\ x + 1 - 1 = x
    OBVIOUS
  <2>2. y = x + 1 => s[1] = b
    BY <1>1, <2>1 DEF IsStretch
  <2> QED BY <1>1, <1>2, <2>2, ShortIs
<1>4. s \in Words!Suffixes <=> s = <<>> \/ \E a \in SuffixBytes : s = <<a>>
  BY DEF Words!Suffixes, SuffixBytes
<1>5. \A a : Len(<<a>>) = 1 /\ (<<a>> = <<b>> <=> a = b)
  OBVIOUS
<1>6. s \in Words!Suffixes <=> y = x \/ (y = x + 1 /\ b \in SuffixBytes)
  BY <1>1, <1>2, <1>3, <1>4, <1>5
<1> QED BY <1>3, <1>6 DEF SufAt

-----------------------------------------------------------------------------
(***************************************************************************)
(* The division of a numeral into its parts.                               *)
(***************************************************************************)
\* From i until y is a numeral, whose parts end before d, f and e.
NumeralAt(t, i, d, f, e, y) ==
  /\ DigitsFrom(t, i, d)
  /\ f = d \/ FractionFrom(t, d, f)
  /\ e = f \/ ExponentFrom(t, f, e)
  /\ y = e \/ (y = e + 1 /\ SufAt(t, e))
PartsOf(t, i, d, f, e, y) ==
  <<Stretch(t, i, d), Stretch(t, d, f), Stretch(t, f, e), Stretch(t, e, y)>>
PartsFit(parts) ==
  /\ Words!AllDigits(parts[1])
  /\ parts[2] = <<>> \/ Words!IsFraction(parts[2])
  /\ parts[3] = <<>> \/ Words!IsExponent(parts[3])
  /\ parts[4] \in Words!Suffixes

\* Stretches that fit together as a numeral.
LEMMA PartsFitAt ==
  ASSUME NEW t \in Seq(STRING), NEW i \in 1 .. Len(t), NEW y \in i + 1 .. Len(t) + 1,
         NEW d \in i + 1 .. y, NEW f \in d .. y, NEW e \in f .. y
  PROVE  PartsFit(PartsOf(t, i, d, f, e, y)) <=> NumeralAt(t, i, d, f, e, y)
<1> PICK parts : parts = PartsOf(t, i, d, f, e, y)
  OBVIOUS
<1>1. /\ i \in 1 .. Len(t) + 1 /\ d \in i .. Len(t) + 1
      /\ d \in 1 .. Len(t) + 1 /\ f \in d .. Len(t) + 1
      /\ f \in 1 .. Len(t) + 1 /\ e \in f .. Len(t) + 1
      /\ e \in 1 .. Len(t) + 1 /\ y \in e .. Len(t) + 1
  OBVIOUS
<1>2. /\ parts[1] = Stretch(t, i, d) /\ parts[2] = Stretch(t, d, f)
      /\ parts[3] = Stretch(t, f, e) /\ parts[4] = Stretch(t, e, y)
  BY DEF PartsOf
<1>3. Words!AllDigits(parts[1]) <=> DigitsFrom(t, i, d)
  BY <1>1, <1>2, AllDigitsIs
<1>4. Words!IsFraction(parts[2]) <=> FractionFrom(t, d, f)
  BY <1>1, <1>2, IsFractionIs
<1>5. Words!IsExponent(parts[3]) <=> ExponentFrom(t, f, e)
  BY <1>1, <1>2, IsExponentIs
<1>6. parts[4] \in Words!Suffixes <=> y = e \/ (y = e + 1 /\ SufAt(t, e))
  BY <1>1, <1>2, SuffixIs
<1>7. (parts[2] = <<>> <=> f - d = 0) /\ (parts[3] = <<>> <=> e - f = 0)
  <2>1. IsStretch(parts[2], t, d, f - d) /\ IsStretch(parts[3], t, f, e - f)
    BY <1>1, <1>2, StretchIs
  <2> QED BY <2>1 DEF IsStretch
<1>8. (f - d = 0 <=> f = d) /\ (e - f = 0 <=> e = f)
  OBVIOUS
<1> QED BY <1>3, <1>4, <1>5, <1>6, <1>7, <1>8 DEF PartsFit, NumeralAt

OfLength(s, parts) ==
  Len(s) = Len(parts[1]) + Len(parts[2]) + Len(parts[3]) + Len(parts[4])

\* A division whose parts have the length of the whole is one into stretches.
LEMMA CutLengths ==
  ASSUME NEW s \in Seq(STRING), NEW a \in 1 .. Len(s), NEW b \in 1 .. Len(s),
         NEW c \in 1 .. Len(s), NEW parts, parts = Words!Cut(s, a, b, c)
  PROVE  OfLength(s, parts) <=> a <= b /\ b <= c
<1> PICK n : n = Len(s)
  OBVIOUS
<1>1. \A p \in 1 .. n + 1, q \in 0 .. n : Len(SubSeq(s, p, q)) = IF p <= q THEN q + 1 - p ELSE 0
  OBVIOUS
<1>2. /\ parts[1] = SubSeq(s, 1, a) /\ parts[2] = SubSeq(s, a + 1, b)
      /\ parts[3] = SubSeq(s, b + 1, c) /\ parts[4] = SubSeq(s, c + 1, n)
  BY DEF Words!Cut
<1>3. /\ 1 \in 1 .. n + 1 /\ a \in 0 .. n /\ a + 1 \in 1 .. n + 1 /\ b \in 0 .. n
      /\ b + 1 \in 1 .. n + 1 /\ c \in 0 .. n /\ c + 1 \in 1 .. n + 1 /\ n \in 0 .. n
  OBVIOUS
<1> PICK w, x, y, z : w = Len(parts[1]) /\ x = Len(parts[2]) /\ y = Len(parts[3]) /\ z = Len(parts[4])
  OBVIOUS
<1>4. /\ w = IF 1 <= a THEN a + 1 - 1 ELSE 0
      /\ x = IF a + 1 <= b THEN b + 1 - (a + 1) ELSE 0
      /\ y = IF b + 1 <= c THEN c + 1 - (b + 1) ELSE 0
      /\ z = IF c + 1 <= n THEN n + 1 - (c + 1) ELSE 0
  BY <1>1, <1>2, <1>3
<1>5. a \in 1 .. n /\ b \in 1 .. n /\ c \in 1 .. n /\ n \in Nat
  OBVIOUS
<1>6. w = a /\ z = n - c /\ x = (IF a <= b THEN b - a ELSE 0) /\ y = (IF b <= c THEN c - b ELSE 0)
  BY <1>4, <1>5
<1>7. n = w + x + y + z <=> a <= b /\ b <= c
  BY <1>5, <1>6
<1> QED BY <1>7 DEF OfLength

\* The divisions of a sequence.
LEMMA DivisionIs ==
  ASSUME NEW s, NEW parts
  PROVE  parts \in Words!Divisions(s) <=>
           \E a \in 1 .. Len(s), b \in 1 .. Len(s), c \in 1 .. Len(s) :
             parts = Words!Cut(s, a, b, c)
BY DEF Words!Divisions

\* Stretches that follow one another are a division.
LEMMA CutIs ==
  ASSUME NEW t \in Seq(STRING), NEW i \in 1 .. Len(t), NEW y \in i + 1 .. Len(t) + 1,
         NEW d \in i + 1 .. y, NEW f \in d .. y, NEW e \in f .. y
  PROVE  Words!Cut(Stretch(t, i, y), d - i, f - i, e - i) = PartsOf(t, i, d, f, e, y)
<1> PICK j : j = y - 1
  OBVIOUS
<1> PICK a, b, c, n : a = d - i /\ b = f - i /\ c = e - i /\ n = y - i
  OBVIOUS
<1> PICK s : s = SubSeq(t, i, j)
  OBVIOUS
<1>1. /\ i \in Nat \ {0} /\ j \in Nat /\ i <= j + 1 /\ j <= Len(t)
      /\ a \in 1 .. n /\ b \in a .. n /\ c \in b .. n /\ n \in Nat /\ n <= j + 1 - i
  OBVIOUS
<1>2. \A p \in 1 .. n + 1, q \in 0 .. n :
        p <= q + 1 => SubSeq(s, p, q) = SubSeq(t, i + p - 1, i + q - 1)
  <2> TAKE p \in 1 .. n + 1, q \in 0 .. n
  <2> SUFFICES ASSUME p <= q + 1 PROVE SubSeq(s, p, q) = SubSeq(t, i + p - 1, i + q - 1)
    OBVIOUS
  <2>1. p \in Nat \ {0} /\ q \in Nat /\ q <= j + 1 - i
    BY <1>1
  <2> QED BY <1>1, <2>1, PieceOfPiece
<1>3. /\ 1 \in 1 .. n + 1 /\ a \in 0 .. n /\ 1 <= a + 1
      /\ a + 1 \in 1 .. n + 1 /\ b \in 0 .. n /\ a + 1 <= b + 1
      /\ b + 1 \in 1 .. n + 1 /\ c \in 0 .. n /\ b + 1 <= c + 1
      /\ c + 1 \in 1 .. n + 1 /\ n \in 0 .. n /\ c + 1 <= n + 1
  BY <1>1
<1>4. /\ i + 1 - 1 = i /\ i + a - 1 = d - 1 /\ i + (a + 1) - 1 = d /\ i + b - 1 = f - 1
      /\ i + (b + 1) - 1 = f /\ i + c - 1 = e - 1 /\ i + (c + 1) - 1 = e /\ i + n - 1 = y - 1
  OBVIOUS
<1>5. SubSeq(s, 1, a) = SubSeq(t, i + 1 - 1, i + a - 1)
  BY <1>2, <1>3
<1>6. SubSeq(s, a + 1, b) = SubSeq(t, i + (a + 1) - 1, i + b - 1)
  BY <1>2, <1>3
<1>7. SubSeq(s, b + 1, c) = SubSeq(t, i + (b + 1) - 1, i + c - 1)
  BY <1>2, <1>3
<1>8. SubSeq(s, c + 1, n) = SubSeq(t, i + (c + 1) - 1, i + n - 1)
  BY <1>2, <1>3
<1>9. Len(s) = n /\ s = Stretch(t, i, y)
  <2>1. Len(s) = j + 1 - i
    BY <1>1, PieceIs
  <2>2. j + 1 - i = n
    OBVIOUS
  <2> QED BY <2>1, <2>2 DEF Stretch
<1>10. /\ SubSeq(s, 1, a) = Stretch(t, i, d) /\ SubSeq(s, a + 1, b) = Stretch(t, d, f)
       /\ SubSeq(s, b + 1, c) = Stretch(t, f, e) /\ SubSeq(s, c + 1, n) = Stretch(t, e, y)
  BY <1>4, <1>5, <1>6, <1>7, <1>8 DEF Stretch
<1>11. Words!Cut(s, a, b, c) = PartsOf(t, i, d, f, e, y)
  BY <1>9, <1>10 DEF Words!Cut, PartsOf
<1> QED BY <1>9, <1>11

\* The divisions of a stretch as a numeral are those that NumeralAt names.
LEMMA NumeralPartsAre ==
  ASSUME NEW t \in Seq(STRING), NEW i \in 1 .. Len(t), NEW y \in i + 1 .. Len(t) + 1
  PROVE  /\ \A parts \in Words!NumeralParts(Stretch(t, i, y)) :
              \E d \in i + 1 .. y : \E f \in d .. y : \E e \in f .. y :
                NumeralAt(t, i, d, f, e, y) /\ parts = PartsOf(t, i, d, f, e, y)
         /\ \A d \in i + 1 .. y : \A f \in d .. y : \A e \in f .. y :
              NumeralAt(t, i, d, f, e, y) =>
                PartsOf(t, i, d, f, e, y) \in Words!NumeralParts(Stretch(t, i, y))
<1> PICK s : s = Stretch(t, i, y)
  OBVIOUS
<1> PICK n : n = y - i
  OBVIOUS
<1>1. s \in Seq(STRING) /\ Len(s) = n /\ n \in Nat
  <2>1. i \in 1 .. Len(t) + 1 /\ y \in i .. Len(t) + 1 /\ n \in Nat
    OBVIOUS
  <2>2. IsStretch(s, t, i, n)
    BY <2>1, StretchIs
  <2> QED BY <2>1, <2>2 DEF IsStretch
<1>2. \A parts : parts \in Words!NumeralParts(s) <=>
        parts \in Words!Divisions(s) /\ PartsFit(parts) /\ OfLength(s, parts)
  BY DEF Words!NumeralParts, PartsFit, OfLength
<1>3. ASSUME NEW parts \in Words!NumeralParts(s)
      PROVE  \E d \in i + 1 .. y : \E f \in d .. y : \E e \in f .. y :
               NumeralAt(t, i, d, f, e, y) /\ parts = PartsOf(t, i, d, f, e, y)
  <2>0. parts \in Words!Divisions(s) /\ PartsFit(parts) /\ OfLength(s, parts)
    BY <1>2
  <2>9. PICK a \in 1 .. Len(s), b \in 1 .. Len(s), c \in 1 .. Len(s) :
          parts = Words!Cut(s, a, b, c)
    BY <2>0, DivisionIs
  <2>2. a <= b /\ b <= c
    BY <1>1, <2>0, <2>9, CutLengths
  <2>1. a \in 1 .. n /\ b \in 1 .. n /\ c \in 1 .. n /\ parts = Words!Cut(s, a, b, c)
    BY <1>1, <2>9
  <2> PICK d, f, e : d = i + a /\ f = i + b /\ e = i + c
    OBVIOUS
  <2>3. d \in i + 1 .. y /\ f \in d .. y /\ e \in f .. y /\ a = d - i /\ b = f - i /\ c = e - i
    BY <2>1, <2>2
  <2>4. parts = PartsOf(t, i, d, f, e, y)
    BY <2>1, <2>3, CutIs
  <2>5. NumeralAt(t, i, d, f, e, y)
    BY <1>2, <2>3, <2>4, PartsFitAt
  <2> QED BY <2>3, <2>4, <2>5
<1>4. ASSUME NEW d \in i + 1 .. y, NEW f \in d .. y, NEW e \in f .. y,
             NumeralAt(t, i, d, f, e, y)
      PROVE  PartsOf(t, i, d, f, e, y) \in Words!NumeralParts(s)
  <2> PICK a, b, c : a = d - i /\ b = f - i /\ c = e - i
    OBVIOUS
  <2> PICK parts : parts = PartsOf(t, i, d, f, e, y)
    OBVIOUS
  <2>1. a \in 1 .. n /\ b \in 1 .. n /\ c \in 1 .. n /\ a <= b /\ b <= c
    OBVIOUS
  <2>2. parts = Words!Cut(s, a, b, c)
    BY CutIs
  <2>3. parts \in Words!Divisions(s)
    BY <1>1, <2>1, <2>2, DivisionIs
  <2>4. OfLength(s, parts)
    <3>1. a \in 1 .. Len(s) /\ b \in 1 .. Len(s) /\ c \in 1 .. Len(s)
      BY <1>1, <2>1
    <3> QED BY <1>1, <2>1, <2>2, <3>1, CutLengths
  <2>5. PartsFit(parts)
    BY <1>4, PartsFitAt
  <2> QED BY <1>2, <2>3, <2>4, <2>5
<1> QED BY <1>3, <1>4

-----------------------------------------------------------------------------
(***************************************************************************)
(* How far the lexer scans: as far as any numeral goes.                    *)
(***************************************************************************)
\* Nothing of the kind begins here, or it can end at `end` and no later, nor can
\* anything but a digit follow where it ends before.
Reaches(t, y, end) == y <= end /\ (y < end => DigAt(t, y))

\* Where DigitsEnd stops.
LEMMA ScanDigits ==
  ASSUME NEW t \in Seq(STRING), NEW x \in 1 .. Len(t) + 1, NEW e, e = DigitsEnd(t, x)
  PROVE  /\ e \in x .. Len(t) + 1 /\ \A k \in x .. e - 1 : DigAt(t, k)
         /\ DigAt(t, x) => x < e /\ DigitsFrom(t, x, e)
         /\ ~ DigAt(t, x) => e = x
         /\ \A y \in Nat : DigitsFrom(t, x, y) => Reaches(t, y, e)
<1>1. /\ e \in x .. Len(t) + 1 /\ \A k \in x .. e - 1 : t[k] \in Digits
      /\ ~ DigAt(t, e)
  BY DigitsEndIs DEF DigAt
<1>2. \A k \in x .. e - 1 : DigAt(t, k)
  <2> TAKE k \in x .. e - 1
  <2>1. k \in 1 .. Len(t)
    BY <1>1
  <2> QED BY <1>1, <2>1, AtInside DEF DigAt
<1>3. ASSUME DigAt(t, x) PROVE x < e /\ DigitsFrom(t, x, e)
  <2>1. x # e
    BY <1>1, <1>3
  <2>2. x < e
    BY <1>1, <2>1
  <2> QED BY <1>2, <2>2 DEF DigitsFrom
<1>4. ASSUME ~ DigAt(t, x) PROVE e = x
  <2>1. x \notin x .. e - 1
    BY <1>2, <1>4
  <2> QED BY <1>1, <2>1
<1>5. ASSUME NEW y \in Nat, DigitsFrom(t, x, y) PROVE Reaches(t, y, e)
  <2>1. x < y /\ \A k \in x .. y - 1 : DigAt(t, k)
    BY <1>5 DEF DigitsFrom
  <2>2. e \notin x .. y - 1
    BY <1>1, <2>1
  <2>3. y <= e
    BY <1>1, <2>1, <2>2
  <2>4. y < e => y \in x .. e - 1
    BY <1>1, <2>1
  <2> QED BY <1>2, <2>3, <2>4 DEF Reaches
<1> QED BY <1>1, <1>2, <1>3, <1>4, <1>5

\* Where FractionEnd stops.
LEMMA ScanFraction ==
  ASSUME NEW t \in Seq(STRING), NEW x \in 1 .. Len(t) + 1, NEW e, e = FractionEnd(t, x)
  PROVE  /\ ~ PointAt(t, x) => e = x /\ e # NoToken
         /\ PointAt(t, x) /\ e # NoToken => e \in x + 2 .. Len(t) + 1 /\ FractionFrom(t, x, e)
         /\ \A y \in Nat : FractionFrom(t, x, y) => e # NoToken /\ Reaches(t, y, e)
<1>1. CASE ~ PointAt(t, x)
  <2>1. e = x
    BY <1>1 DEF FractionEnd, PointAt
  <2>2. x # 0
    OBVIOUS
  <2> QED BY <1>1, <2>1, <2>2 DEF NoToken, FractionFrom
<1>2. CASE PointAt(t, x) /\ ~ DigAt(t, x + 1)
  <2>1. e = NoToken
    BY <1>2 DEF FractionEnd, PointAt, DigAt
  <2>2. \A y \in Nat : ~ DigitsFrom(t, x + 1, y)
    <3>1. \A y \in Nat : x + 1 < y => x + 1 \in x + 1 .. y - 1
      OBVIOUS
    <3> QED BY <1>2, <3>1 DEF DigitsFrom
  <2> QED BY <1>2, <2>1, <2>2 DEF FractionFrom
<1>3. CASE PointAt(t, x) /\ DigAt(t, x + 1)
  <2>1. e = DigitsEnd(t, x + 1)
    BY <1>3 DEF FractionEnd, PointAt, DigAt
  <2>2. x + 1 \in 1 .. Len(t)
    BY <1>3, BytesOfNumerals
  <2> PICK z : z = x + 1
    OBVIOUS
  <2>3. z \in 1 .. Len(t) + 1
    BY <2>2
  <2>4. /\ e \in z .. Len(t) + 1 /\ z < e /\ DigitsFrom(t, z, e)
        /\ \A y \in Nat : DigitsFrom(t, z, y) => Reaches(t, y, e)
    BY <1>3, <2>1, <2>3, ScanDigits
  <2>5. e \in x + 2 .. Len(t) + 1 /\ e # 0
    BY <2>3, <2>4
  <2> QED BY <1>3, <2>4, <2>5 DEF FractionFrom, NoToken
<1> QED BY <1>1, <1>2, <1>3

\* Where ExponentEnd stops.
LEMMA ScanExponent ==
  ASSUME NEW t \in Seq(STRING), NEW x \in 1 .. Len(t) + 1, NEW e, e = ExponentEnd(t, x)
  PROVE  /\ ~ ExpAt(t, x) => e = x /\ e # NoToken
         /\ ExpAt(t, x) /\ e # NoToken => e \in x + 2 .. Len(t) + 1 /\ ExponentFrom(t, x, e)
         /\ \A y \in Nat : ExponentFrom(t, x, y) => e # NoToken /\ Reaches(t, y, e)
<1>1. CASE ~ ExpAt(t, x)
  <2>1. e = x
    BY <1>1 DEF ExponentEnd, ExpAt
  <2>2. x # 0
    OBVIOUS
  <2> QED BY <1>1, <2>1, <2>2 DEF NoToken, ExponentFrom
<1>2. CASE ExpAt(t, x)
  <2> PICK s : s = SignEnd(t, x + 1)
    OBVIOUS
  <2>0. \A z \in Nat : \A y \in Nat : DigitsFrom(t, z, y) => DigAt(t, z)
    <3>1. \A z \in Nat : \A y \in Nat : z < y => z \in z .. y - 1
      OBVIOUS
    <3> QED BY <3>1 DEF DigitsFrom
  <2>1. x + 1 \in Nat /\ x + 2 \in Nat /\ (x + 1) + 1 = x + 2
    OBVIOUS
  <2>2. s = IF SignAt(t, x + 1) THEN x + 2 ELSE x + 1
    BY <2>1 DEF SignEnd, SignAt
  <2>3. \A y \in Nat : ExponentFrom(t, x, y) <=> DigitsFrom(t, s, y)
    <3>1. \A y \in Nat : DigitsFrom(t, x + 1, y) => ~ SignAt(t, x + 1)
      BY <2>0, <2>1, BytesOfNumerals
    <3> QED BY <1>2, <2>2, <3>1 DEF ExponentFrom
  <2>4. e = IF DigAt(t, s) THEN DigitsEnd(t, s) ELSE NoToken
    BY <1>2 DEF ExponentEnd, ExpAt, DigAt
  <2>5. s \in Nat /\ s >= x + 1
    BY <2>2
  <2>6. CASE ~ DigAt(t, s)
    BY <1>2, <2>0, <2>3, <2>4, <2>5, <2>6
  <2>7. CASE DigAt(t, s)
    <3>1. s \in 1 .. Len(t) + 1
      <4>1. s \in 1 .. Len(t)
        BY <2>5, <2>7, BytesOfNumerals
      <4> QED BY <4>1
    <3>2. /\ e \in s .. Len(t) + 1 /\ s < e /\ DigitsFrom(t, s, e)
          /\ \A y \in Nat : DigitsFrom(t, s, y) => Reaches(t, y, e)
      BY <2>4, <2>7, <3>1, ScanDigits
    <3>3. e \in x + 2 .. Len(t) + 1 /\ e # 0 /\ e \in Nat
      BY <2>5, <3>1, <3>2
    <3> QED BY <1>2, <2>3, <3>2, <3>3 DEF NoToken
  <2> QED BY <2>6, <2>7
<1> QED BY <1>1, <1>2

\* Where the parts of a numeral can end, and where they do if it ends last.
EndsBy(t, D, F, X, d, f, e, y) ==
  \/ d = y /\ f = y /\ e = y /\ y <= D
  \/ d = D /\ F # NoToken /\ f = y /\ e = y /\ y <= F
  \/ d = D /\ F # NoToken /\ f = F /\ X # NoToken /\ e = y /\ y <= X
  \/ d = D /\ F # NoToken /\ f = F /\ X # NoToken /\ e = X /\ y = X + 1 /\ SufAt(t, X)

\* Where a numeral can end, by where DigitsEnd, FractionEnd and ExponentEnd stop.
LEMMA NumeralReaches ==
  ASSUME NEW t \in Seq(STRING), NEW i \in 1 .. Len(t), NEW y \in i + 1 .. Len(t) + 1,
         NEW d \in i + 1 .. y, NEW f \in d .. y, NEW e \in f .. y,
         NumeralAt(t, i, d, f, e, y),
         NEW D, D = DigitsEnd(t, i), NEW F, F = FractionEnd(t, D), NEW X, X = ExponentEnd(t, F)
  PROVE  EndsBy(t, D, F, X, d, f, e, y)
<1> SUFFICES \/ d = y /\ f = y /\ e = y /\ y <= D
             \/ d = D /\ F # NoToken /\ f = y /\ e = y /\ y <= F
             \/ d = D /\ F # NoToken /\ f = F /\ X # NoToken /\ e = y /\ y <= X
             \/ d = D /\ F # NoToken /\ f = F /\ X # NoToken /\ e = X /\ y = X + 1 /\ SufAt(t, X)
  BY DEF EndsBy
<1>1. d \in Nat /\ f \in Nat /\ e \in Nat /\ y \in Nat /\ i \in 1 .. Len(t) + 1
  OBVIOUS
<1>2. /\ DigitsFrom(t, i, d) /\ (f = d \/ FractionFrom(t, d, f))
      /\ (e = f \/ ExponentFrom(t, f, e)) /\ (y = e \/ (y = e + 1 /\ SufAt(t, e)))
  BY DEF NumeralAt
<1>3. Reaches(t, d, D) /\ D \in i .. Len(t) + 1
  BY <1>1, <1>2, ScanDigits
<1>4. D \in 1 .. Len(t) + 1
  BY <1>3
\* What a digit, or a point, or an exponent follows, ends there.
<1>5. ASSUME DigAt(t, d) \/ (PointAt(t, d) /\ f = d) PROVE f = d /\ e = d /\ y = d
  BY <1>1, <1>2, <1>5, BytesOfNumerals DEF FractionFrom, ExponentFrom
<1>6. ASSUME DigAt(t, f) \/ (ExpAt(t, f) /\ e = f) PROVE e = f /\ y = f
  BY <1>1, <1>2, <1>6, BytesOfNumerals DEF ExponentFrom
<1>7. ASSUME DigAt(t, e) PROVE y = e
  BY <1>1, <1>2, <1>7, BytesOfNumerals
<1>8. CASE d < D
  <2>1. f = d /\ e = d /\ y = d
    BY <1>3, <1>5, <1>8 DEF Reaches
  <2> QED BY <1>3, <2>1 DEF Reaches
<1>9. CASE ~(d < D)
  <2>1. d = D
    BY <1>1, <1>3, <1>9 DEF Reaches
  <2>2. CASE PointAt(t, d) /\ f = d
    BY <1>3, <1>5, <2>2 DEF Reaches
  <2>3. CASE ~(PointAt(t, d) /\ f = d)
    <3>1. F # NoToken /\ Reaches(t, f, F) /\ F \in 1 .. Len(t) + 1
      <4>1. CASE f = d
        <5>1. F = D /\ F # NoToken
          BY <1>4, <2>1, <2>3, <4>1, ScanFraction
        <5>2. F <= F /\ ~(F < F)
          BY <1>4, <5>1
        <5> QED BY <1>4, <2>1, <4>1, <5>1, <5>2 DEF Reaches
      <4>2. CASE FractionFrom(t, d, f)
        <5>1. F # NoToken /\ Reaches(t, f, F)
          BY <1>1, <1>4, <2>1, <4>2, ScanFraction
        <5>2. PointAt(t, D)
          BY <2>1, <4>2 DEF FractionFrom
        <5>3. F \in D + 2 .. Len(t) + 1
          BY <1>4, <5>1, <5>2, ScanFraction
        <5>4. F \in 1 .. Len(t) + 1
          BY <1>4, <5>3
        <5> QED BY <5>1, <5>4
      <4> QED BY <1>2, <4>1, <4>2
    <3>2. CASE f < F
      <4>1. e = f /\ y = f
        BY <1>6, <3>1, <3>2 DEF Reaches
      <4> QED BY <2>1, <3>1, <4>1 DEF Reaches
    <3>3. CASE ~(f < F)
      <4>1. f = F
        BY <1>1, <3>1, <3>3 DEF Reaches
      <4>2. CASE ExpAt(t, f) /\ e = f
        <5>1. e = f /\ y = f
          BY <1>6, <4>2
        <5> QED BY <2>1, <3>1, <5>1 DEF Reaches
      <4>3. CASE ~(ExpAt(t, f) /\ e = f)
        <5>1. X # NoToken /\ Reaches(t, e, X) /\ X \in Nat
          <6>1. CASE e = f
            <7>1. X = F /\ X # NoToken
              BY <3>1, <4>1, <4>3, <6>1, ScanExponent
            <7>2. F <= F /\ ~(F < F) /\ F \in Nat
              BY <3>1
            <7> QED BY <4>1, <6>1, <7>1, <7>2 DEF Reaches
          <6>2. CASE ExponentFrom(t, f, e)
            <7>1. X # NoToken /\ Reaches(t, e, X)
              BY <1>1, <3>1, <4>1, <6>2, ScanExponent
            <7>2. ExpAt(t, F)
              BY <4>1, <6>2 DEF ExponentFrom
            <7>3. X \in F + 2 .. Len(t) + 1
              BY <3>1, <7>1, <7>2, ScanExponent
            <7>4. X \in Nat
              BY <3>1, <7>3
            <7> QED BY <7>1, <7>4
          <6> QED BY <1>2, <6>1, <6>2
        <5>2. CASE y = e
          BY <2>1, <3>1, <4>1, <5>1, <5>2 DEF Reaches
        <5>3. CASE y # e
          <6>1. y = e + 1 /\ SufAt(t, e)
            BY <1>2, <5>3
          <6>2. ~ DigAt(t, e)
            BY <1>7, <5>3
          <6>3. e = X
            BY <1>1, <5>1, <6>2 DEF Reaches
          <6> QED BY <2>1, <3>1, <4>1, <5>1, <6>1, <6>3
        <5> QED BY <5>2, <5>3
      <4> QED BY <4>2, <4>3
    <3> QED BY <3>2, <3>3
  <2> QED BY <2>2, <2>3
<1> QED BY <1>8, <1>9

\* What Number reads is a numeral.
LEMMA NumeralEnds ==
  ASSUME NEW t \in Seq(STRING), NEW i \in 1 .. Len(t), DigAt(t, i),
         NEW D, D = DigitsEnd(t, i), NEW F, F = FractionEnd(t, D), F # NoToken,
         NEW X, X = ExponentEnd(t, F), X # NoToken, NEW Z, Z = Suffixed(t, X)
  PROVE  /\ Z \in i + 1 .. Len(t) + 1 /\ D \in i + 1 .. Z /\ F \in D .. Z /\ X \in F .. Z
         /\ NumeralAt(t, i, D, F, X, Z)
         /\ (Z = X /\ ~ SufAt(t, X)) \/ (Z = X + 1 /\ SufAt(t, X))
<1>1. i \in 1 .. Len(t) + 1
  OBVIOUS
<1>2. D \in i + 1 .. Len(t) + 1 /\ D \in 1 .. Len(t) + 1 /\ DigitsFrom(t, i, D)
  <2>1. D \in i .. Len(t) + 1 /\ i < D /\ DigitsFrom(t, i, D)
    BY <1>1, ScanDigits
  <2> QED BY <2>1
<1>3. F \in D .. Len(t) + 1 /\ F \in 1 .. Len(t) + 1 /\ (F = D \/ FractionFrom(t, D, F))
  <2>1. F = D \/ (F \in D + 2 .. Len(t) + 1 /\ FractionFrom(t, D, F))
    BY <1>2, ScanFraction
  <2> QED BY <1>2, <2>1
<1>4. X \in F .. Len(t) + 1 /\ X \in 1 .. Len(t) + 1 /\ (X = F \/ ExponentFrom(t, F, X))
  <2>1. X = F \/ (X \in F + 2 .. Len(t) + 1 /\ ExponentFrom(t, F, X))
    BY <1>3, ScanExponent
  <2> QED BY <1>3, <2>1
<1>5. (Z = X /\ ~ SufAt(t, X)) \/ (Z = X + 1 /\ X \in 1 .. Len(t) /\ SufAt(t, X))
  <2>1. \/ Z = X /\ At(t, X) \notin SuffixBytes
        \/ Z = X + 1 /\ X \in 1 .. Len(t) /\ t[X] \in SuffixBytes
    BY <1>4, SuffixedIs
  <2>2. X \in 1 .. Len(t) => At(t, X) = t[X]
    BY AtInside
  <2> QED BY <2>1, <2>2 DEF SufAt
<1>6. Z \in i + 1 .. Len(t) + 1 /\ D \in i + 1 .. Z /\ F \in D .. Z /\ X \in F .. Z
  BY <1>2, <1>3, <1>4, <1>5
<1>7. NumeralAt(t, i, D, F, X, Z)
  BY <1>2, <1>3, <1>4, <1>5 DEF NumeralAt
<1> QED BY <1>5, <1>6, <1>7

\* It is the longest, and it has no other division.
LEMMA LongestNumeral ==
  ASSUME NEW t \in Seq(STRING), NEW i \in 1 .. Len(t), DigAt(t, i),
         NEW D, D = DigitsEnd(t, i), NEW F, F = FractionEnd(t, D), F # NoToken,
         NEW X, X = ExponentEnd(t, F), X # NoToken, NEW Z, Z = Suffixed(t, X),
         NEW y \in i + 1 .. Len(t) + 1,
         NEW d \in i + 1 .. y, NEW f \in d .. y, NEW e \in f .. y,
         NumeralAt(t, i, d, f, e, y)
  PROVE  y <= Z /\ (y = Z => d = D /\ f = F /\ e = X)
<1>1. /\ Z \in i + 1 .. Len(t) + 1 /\ D \in i + 1 .. Z /\ F \in D .. Z /\ X \in F .. Z
      /\ (Z = X /\ ~ SufAt(t, X)) \/ (Z = X + 1 /\ SufAt(t, X))
  BY NumeralEnds
<1>2. \/ d = y /\ f = y /\ e = y /\ y <= D
      \/ d = D /\ F # NoToken /\ f = y /\ e = y /\ y <= F
      \/ d = D /\ F # NoToken /\ f = F /\ X # NoToken /\ e = y /\ y <= X
      \/ d = D /\ F # NoToken /\ f = F /\ X # NoToken /\ e = X /\ y = X + 1 /\ SufAt(t, X)
  BY NumeralReaches DEF EndsBy
<1> QED BY <1>1, <1>2

\* The bytes of a stretch.
LEMMA StretchBytes ==
  ASSUME NEW t \in Seq(STRING), NEW x \in 1 .. Len(t) + 1, NEW y \in x .. Len(t) + 1
  PROVE  /\ \A b : b \in Range(Stretch(t, x, y)) => \E k \in x .. y - 1 : b = At(t, k)
         /\ \A k \in x .. y - 1 : At(t, k) \in Range(Stretch(t, x, y))
<1> PICK n : n = y - x
  OBVIOUS
<1> PICK s : s = Stretch(t, x, y)
  OBVIOUS
<1>1. IsStretch(s, t, x, n)
  BY StretchIs
<1>2. DOMAIN s = 1 .. n /\ \A k \in 1 .. n : s[k] = At(t, x + k - 1)
  BY <1>1 DEF IsStretch
<1>3. Range(s) = {s[k] : k \in DOMAIN s}
  BY DEF Range
<1>4. \A k \in 1 .. n : x + k - 1 \in x .. y - 1
  OBVIOUS
<1>5. \A k \in x .. y - 1 : k + 1 - x \in 1 .. n /\ x + (k + 1 - x) - 1 = k
  OBVIOUS
<1>6. \A k \in x .. y - 1 : At(t, k) = s[k + 1 - x]
  BY <1>2, <1>5
<1>7. \A k \in x .. y - 1 : At(t, k) \in Range(s)
  BY <1>2, <1>3, <1>5, <1>6
<1>8. \A b : b \in Range(s) => \E k \in x .. y - 1 : b = At(t, k)
  BY <1>2, <1>3, <1>4
<1> QED BY <1>7, <1>8

-----------------------------------------------------------------------------
(***************************************************************************)
(* The kind of a numeral.                                                  *)
(***************************************************************************)
\* Whether the bytes until y are an integer.
Plain(t, x, y) == Range(SubSeq(t, x, y - 1)) \cap {".", "e", "E"} = {}

\* A stretch is plain that has neither a point nor an exponent.
LEMMA PlainIs ==
  ASSUME NEW t \in Seq(STRING), NEW x \in 1 .. Len(t) + 1, NEW y \in x .. Len(t) + 1
  PROVE  Plain(t, x, y) <=> \A k \in x .. y - 1 : ~ PointAt(t, k) /\ ~ ExpAt(t, k)
<1> PICK R : R = Range(Stretch(t, x, y))
  OBVIOUS
<1>1. /\ \A b : b \in R => \E k \in x .. y - 1 : b = At(t, k)
      /\ \A k \in x .. y - 1 : At(t, k) \in R
  BY StretchBytes
<1>2. Plain(t, x, y) <=> \A b \in R : b # "." /\ b \notin {"e", "E"}
  BY DEF Plain, Stretch
<1> QED BY <1>1, <1>2 DEF PointAt, ExpAt

\* The kind by the parts is the kind by the bytes (NumericKind).
LEMMA NumeralKindIs ==
  ASSUME NEW t \in Seq(STRING), NEW i \in 1 .. Len(t), DigAt(t, i),
         NEW D, D = DigitsEnd(t, i), NEW F, F = FractionEnd(t, D), F # NoToken,
         NEW X, X = ExponentEnd(t, F), X # NoToken, NEW Z, Z = Suffixed(t, X)
  PROVE  /\ Words!NumeralKind(PartsOf(t, i, D, F, X, Z)) = NumericKind(t, i, X)
         /\ NumericKind(t, i, X) = "integer" <=> D = F /\ F = X /\ X = Z
<1> PICK parts : parts = PartsOf(t, i, D, F, X, Z)
  OBVIOUS
<1> PICK b : b = At(t, X)
  OBVIOUS
<1>1. /\ Z \in i + 1 .. Len(t) + 1 /\ D \in i + 1 .. Z /\ F \in D .. Z /\ X \in F .. Z
      /\ (Z = X /\ ~ SufAt(t, X)) \/ (Z = X + 1 /\ SufAt(t, X))
      /\ NumeralAt(t, i, D, F, X, Z)
  BY NumeralEnds
<1>2. /\ D \in 1 .. Len(t) + 1 /\ F \in D .. Len(t) + 1
      /\ F \in 1 .. Len(t) + 1 /\ X \in F .. Len(t) + 1
      /\ X \in 1 .. Len(t) + 1 /\ Z \in X .. Len(t) + 1
      /\ i \in 1 .. Len(t) + 1 /\ X \in i .. Len(t) + 1
  BY <1>1
<1>3. /\ parts[2] = Stretch(t, D, F) /\ parts[3] = Stretch(t, F, X) /\ parts[4] = Stretch(t, X, Z)
  BY DEF PartsOf
<1>4. /\ parts[2] = <<>> <=> D = F
      /\ parts[3] = <<>> <=> F = X
      /\ parts[4] = <<>> <=> X = Z
  <2>1. /\ IsStretch(parts[2], t, D, F - D) /\ IsStretch(parts[3], t, F, X - F)
        /\ IsStretch(parts[4], t, X, Z - X)
    BY <1>2, <1>3, StretchIs
  <2>2. (F - D = 0 <=> D = F) /\ (X - F = 0 <=> F = X) /\ (Z - X = 0 <=> X = Z)
    BY <1>2
  <2> QED BY <2>1, <2>2 DEF IsStretch
<1>5. Z = X + 1 => parts[4] = <<b>>
  BY <1>2, <1>3, SuffixIs
<1>6. Plain(t, i, X) <=> D = F /\ F = X
  <2>1. ASSUME F # D PROVE ~ Plain(t, i, X)
    <3>1. FractionFrom(t, D, F)
      BY <1>1, <2>1 DEF NumeralAt
    <3>2. PointAt(t, D) /\ D \in i .. X - 1
      BY <1>1, <2>1, <3>1 DEF FractionFrom
    <3> QED BY <1>2, <3>2, PlainIs
  <2>2. ASSUME X # F PROVE ~ Plain(t, i, X)
    <3>1. ExponentFrom(t, F, X)
      BY <1>1, <2>2 DEF NumeralAt
    <3>2. ExpAt(t, F) /\ F \in i .. X - 1
      BY <1>1, <2>2, <3>1 DEF ExponentFrom
    <3> QED BY <1>2, <3>2, PlainIs
  <2>3. ASSUME D = X PROVE Plain(t, i, X)
    <3>1. \A k \in i .. X - 1 : DigAt(t, k)
      BY <1>2, <2>3, ScanDigits
    <3>2. \A k \in i .. X - 1 : k \in Nat
      BY <1>2
    <3>3. \A k \in i .. X - 1 : ~ PointAt(t, k) /\ ~ ExpAt(t, k)
      BY <3>1, <3>2, BytesOfNumerals
    <3> QED BY <1>2, <3>3, PlainIs
  <2> QED BY <2>1, <2>2, <2>3
<1>7. /\ b \in {"f", "F"} => NumericKind(t, i, X) = "float32"
      /\ b \in {"d", "D"} => NumericKind(t, i, X) = "float64"
      /\ b \notin SuffixBytes =>
           NumericKind(t, i, X) = IF Plain(t, i, X) THEN "integer" ELSE "float32"
  BY DEF NumericKind, SuffixBytes, Plain
<1>8. /\ parts[4] \in {<<"d">>, <<"D">>} => Words!NumeralKind(parts) = "float64"
      /\ parts[4] = <<>> =>
           Words!NumeralKind(parts) =
             IF parts[2] = <<>> /\ parts[3] = <<>> THEN "integer" ELSE "float32"
      /\ parts[4] \in {<<"f">>, <<"F">>} => Words!NumeralKind(parts) = "float32"
  <2>1. \A a, c : (<<a>> = <<c>> <=> a = c) /\ <<a>> # <<>>
    OBVIOUS
  <2> QED BY <2>1 DEF Words!NumeralKind
<1>9. CASE Z = X + 1 /\ SufAt(t, X)
  <2>1. b \in {"f", "F"} \/ b \in {"d", "D"}
    BY <1>9 DEF SufAt, SuffixBytes
  <2>2. X # Z
    BY <1>2, <1>9
  <2>3. "float32" # "integer" /\ "float64" # "integer"
    OBVIOUS
  <2>4. CASE b \in {"f", "F"}
    BY <1>5, <1>7, <1>8, <1>9, <2>2, <2>3, <2>4
  <2>5. CASE b \in {"d", "D"}
    BY <1>5, <1>7, <1>8, <1>9, <2>2, <2>3, <2>5
  <2> QED BY <2>1, <2>4, <2>5
<1>10. CASE Z = X /\ ~ SufAt(t, X)
  <2>1. b \notin SuffixBytes
    BY <1>10 DEF SufAt
  <2>2. "float32" # "integer"
    OBVIOUS
  <2> QED BY <1>4, <1>6, <1>7, <1>8, <1>10, <2>1, <2>2
<1> QED BY <1>1, <1>9, <1>10

-----------------------------------------------------------------------------
(***************************************************************************)
(* Numbers read, and numbers refused.                                      *)
(***************************************************************************)
\* What begins with a digit begins neither a gap nor a comment.
LEMMA DigitHere ==
  ASSUME LexType, index <= Len(text), IsDigit(RuneAt(text, index))
  PROVE  /\ text \in Seq(STRING) /\ index \in 1 .. Len(text)
         /\ Words!LastOfGap = 0 /\ ~ Words!OpensComment
<1>1. text \in Seq(STRING) /\ index \in 1 .. Len(text)
  BY AtIndex
<1>2. ~ Opens("/", "/") /\ ~ Opens("/", "*")
  <2>1. IsByte("/") /\ IsByte("*")
    BY DEF IsByte
  <2> QED BY <2>1, SlashRune, ClassesApart
<1>3. Words!LastOfGap = 0
  BY <1>2, NoGapHere, ClassesApart
<1>4. ~ Words!OpensComment
  <2>1. Len(text) \in index .. Len(text) /\ IsByte("*")
    BY <1>1 DEF IsByte
  <2>2. ~ Words!Begins(<<"/", "*">>, SubSeq(text, index, Len(text)))
    BY <1>2, <2>1, PieceBegins
  <2> QED BY <2>2 DEF Words!OpensComment, Words!Bytes
<1> QED BY <1>1, <1>3, <1>4

\* The words that begin with a digit are the numerals.
LEMMA NumeralWords ==
  ASSUME NEW t \in Seq(STRING), NEW i \in 1 .. Len(t), IsDigit(RuneAt(t, i)),
         NEW j \in i .. Len(t)
  PROVE  /\ SubSeq(t, i, j) = Stretch(t, i, j + 1) /\ j + 1 \in i + 1 .. Len(t) + 1
         /\ Words!KindsOf(SubSeq(t, i, j)) =
              {Words!NumeralKind(parts) : parts \in Words!NumeralParts(SubSeq(t, i, j))}
         /\ Words!IsWord(SubSeq(t, i, j)) <=> Words!NumeralParts(SubSeq(t, i, j)) # {}
<1>1. Words!KindsOf(SubSeq(t, i, j)) =
        {Words!NumeralKind(parts) : parts \in Words!NumeralParts(SubSeq(t, i, j))}
  BY KindsHere
<1>2. (j + 1) - 1 = j /\ j + 1 \in i + 1 .. Len(t) + 1
  OBVIOUS
<1> QED BY <1>1, <1>2 DEF Stretch, Words!IsWord

\* No numeral that begins at i goes on beyond y.
NothingLonger(t, i, y) ==
  \A z \in i + 1 .. Len(t) + 1 : \A a \in i + 1 .. z : \A b \in a .. z : \A c \in b .. z :
    NumeralAt(t, i, a, b, c, z) => z <= y

\* No numeral goes on beyond digits whose fraction does not end.
LEMMA NothingBeyondDigits ==
  ASSUME NEW t \in Seq(STRING), NEW i \in 1 .. Len(t),
         NEW D, D = DigitsEnd(t, i), NEW F, F = FractionEnd(t, D), F = NoToken
  PROVE  NothingLonger(t, i, D)
<1> PICK X : X = ExponentEnd(t, F)
  OBVIOUS
<1>1. ASSUME NEW z \in i + 1 .. Len(t) + 1, NEW a \in i + 1 .. z, NEW b \in a .. z, NEW c \in b .. z,
             NumeralAt(t, i, a, b, c, z)
      PROVE  z <= D
  <2>1. EndsBy(t, D, F, X, a, b, c, z)
    BY <1>1, NumeralReaches
  <2> QED BY <2>1 DEF EndsBy
<1> QED BY <1>1 DEF NothingLonger

\* No numeral goes on beyond what an exponent follows that does not end.
LEMMA NothingBeyondFraction ==
  ASSUME NEW t \in Seq(STRING), NEW i \in 1 .. Len(t),
         NEW D \in Nat, D = DigitsEnd(t, i), NEW F \in Nat, F = FractionEnd(t, D), D <= F,
         NEW X, X = ExponentEnd(t, F), X = NoToken
  PROVE  NothingLonger(t, i, F)
<1>1. ASSUME NEW z \in i + 1 .. Len(t) + 1, NEW a \in i + 1 .. z, NEW b \in a .. z, NEW c \in b .. z,
             NumeralAt(t, i, a, b, c, z)
      PROVE  z <= F
  <2>1. EndsBy(t, D, F, X, a, b, c, z)
    BY <1>1, NumeralReaches
  <2> QED BY <2>1 DEF EndsBy
<1> QED BY <1>1 DEF NothingLonger

\* No numeral goes on beyond the suffix.
LEMMA NothingBeyondSuffix ==
  ASSUME NEW t \in Seq(STRING), NEW i \in 1 .. Len(t), DigAt(t, i),
         NEW D, D = DigitsEnd(t, i), NEW F, F = FractionEnd(t, D), F # NoToken,
         NEW X, X = ExponentEnd(t, F), X # NoToken, NEW Z, Z = Suffixed(t, X)
  PROVE  NothingLonger(t, i, Z)
<1>1. ASSUME NEW z \in i + 1 .. Len(t) + 1, NEW a \in i + 1 .. z, NEW b \in a .. z, NEW c \in b .. z,
             NumeralAt(t, i, a, b, c, z)
      PROVE  z <= Z
  BY <1>1, LongestNumeral
<1> QED BY <1>1 DEF NothingLonger

\* No numeral is longer than what ends at y.
LEMMA NumeralLast ==
  ASSUME LexType, index <= Len(text), IsDigit(RuneAt(text, index)),
         NEW i, i = index, NEW y \in i + 1 .. Len(text) + 1,
         NEW d \in i + 1 .. y, NEW f \in d .. y, NEW e \in f .. y,
         NumeralAt(text, i, d, f, e, y),
         NothingLonger(text, i, y)
  PROVE  /\ y - 1 \in i .. Len(text) /\ (y - 1) + 1 = y
         /\ SubSeq(text, i, y - 1) = Stretch(text, i, y)
         /\ PartsOf(text, i, d, f, e, y) \in Words!NumeralParts(Stretch(text, i, y))
         /\ Words!KindsOf(Stretch(text, i, y)) =
              {Words!NumeralKind(parts) : parts \in Words!NumeralParts(Stretch(text, i, y))}
         /\ Words!IsWord(Stretch(text, i, y))
         /\ \A k \in i .. Len(text) : Words!IsWord(SubSeq(text, i, k)) => k <= y - 1
         /\ Words!LastOfWord = y - 1
<1>1. text \in Seq(STRING) /\ i \in 1 .. Len(text)
  BY AtIndex
<1> PICK j : j = y - 1
  OBVIOUS
<1>2. j \in i .. Len(text) /\ j + 1 = y
  BY <1>1
<1>3. PartsOf(text, i, d, f, e, y) \in Words!NumeralParts(Stretch(text, i, y))
  BY <1>1, NumeralPartsAre
<1>4. /\ SubSeq(text, i, j) = Stretch(text, i, y)
      /\ Words!KindsOf(Stretch(text, i, y)) =
           {Words!NumeralKind(parts) : parts \in Words!NumeralParts(Stretch(text, i, y))}
      /\ Words!IsWord(Stretch(text, i, y))
  BY <1>1, <1>2, <1>3, NumeralWords
<1>5. ASSUME NEW k \in i .. Len(text), Words!IsWord(SubSeq(text, i, k)) PROVE k <= j
  <2> PICK z : z = k + 1
    OBVIOUS
  <2>1. z \in i + 1 .. Len(text) + 1 /\ Words!NumeralParts(Stretch(text, i, z)) # {}
    BY <1>1, <1>5, NumeralWords
  <2>2. PICK parts : parts \in Words!NumeralParts(Stretch(text, i, z))
    BY <2>1
  <2>3. \E a \in i + 1 .. z : \E b \in a .. z : \E c \in b .. z :
          NumeralAt(text, i, a, b, c, z) /\ parts = PartsOf(text, i, a, b, c, z)
    BY <1>1, <2>1, <2>2, NumeralPartsAre
  <2>4. z <= y
    BY <2>1, <2>3 DEF NothingLonger
  <2> QED BY <1>1, <1>2, <2>4
<1>6. Words!LastOfWord = j
  <2>1. Words!IsWord(SubSeq(text, index, j)) /\ j \in index .. Len(text)
    BY <1>2, <1>4
  <2>2. text \in Seq(STRING) /\ index \in 1 .. Len(text) + 1
    BY <1>1
  <2> QED BY <1>5, <2>1, <2>2, WordEndsAt
<1> QED BY <1>2, <1>3, <1>4, <1>5, <1>6

\* A part is empty that ends where it begins.
LEMMA PartsEmpty ==
  ASSUME NEW t \in Seq(STRING), NEW i \in 1 .. Len(t), NEW y \in i + 1 .. Len(t) + 1,
         NEW d \in i + 1 .. y, NEW f \in d .. y, NEW e \in f .. y,
         NEW parts, parts = PartsOf(t, i, d, f, e, y)
  PROVE  /\ parts[2] = <<>> <=> d = f
         /\ parts[3] = <<>> <=> f = e
         /\ parts[4] = <<>> <=> e = y
<1>1. /\ d \in 1 .. Len(t) + 1 /\ f \in d .. Len(t) + 1
      /\ f \in 1 .. Len(t) + 1 /\ e \in f .. Len(t) + 1
      /\ e \in 1 .. Len(t) + 1 /\ y \in e .. Len(t) + 1
  OBVIOUS
<1>2. /\ parts[2] = Stretch(t, d, f) /\ parts[3] = Stretch(t, f, e) /\ parts[4] = Stretch(t, e, y)
  BY DEF PartsOf
<1>3. /\ IsStretch(parts[2], t, d, f - d) /\ IsStretch(parts[3], t, f, e - f)
      /\ IsStretch(parts[4], t, e, y - e)
  BY <1>1, <1>2, StretchIs
<1>4. (f - d = 0 <=> d = f) /\ (e - f = 0 <=> f = e) /\ (y - e = 0 <=> e = y)
  OBVIOUS
<1> QED BY <1>3, <1>4 DEF IsStretch

\* A numeral is refused that goes on with what would have to be ended.
LEMMA RefusesNumeral ==
  ASSUME LexType, Reading, index <= Len(text), IsDigit(RuneAt(text, index)),
         NEW what, Refuse(what),
         NEW i, i = index, NEW y \in i + 1 .. Len(text) + 1,
         NEW d \in i + 1 .. y, NEW f \in d .. y, NumeralAt(text, i, d, f, y, y), f = y,
         NothingLonger(text, i, y),
         ExpAt(text, y) \/ (PointAt(text, y) /\ d = y)
  PROVE  Words!Next
<1>1. /\ text \in Seq(STRING) /\ i \in 1 .. Len(text) /\ Words!LastOfGap = 0
  BY DigitHere
<1>2. y \in f .. y
  BY <1>1
<1> PICK s : s = Stretch(text, i, y)
  OBVIOUS
<1> PICK parts : parts = PartsOf(text, i, d, f, y, y)
  OBVIOUS
<1>3. /\ Words!LastOfWord = y - 1 /\ SubSeq(text, i, y - 1) = s
      /\ parts \in Words!NumeralParts(s)
  BY <1>2, NumeralLast
<1>4. parts[4] = <<>> /\ parts[3] = <<>> /\ (d = y => parts[2] = <<>>)
  <2>1. /\ parts[2] = <<>> <=> d = f
        /\ parts[3] = <<>> <=> f = y
        /\ parts[4] = <<>> <=> y = y
    BY <1>1, <1>2, PartsEmpty
  <2> QED BY <2>1
<1>5. y \in Nat /\ y \in 1 .. Len(text)
  <2>1. y \in Nat
    BY <1>1
  <2> QED BY <1>1, <2>1, BytesOfNumerals
<1>6. At(text, y) = text[y]
  BY <1>1, <1>5, AtInside
<1>7. i + Len(s) = y
  <2>1. i \in 1 .. Len(text) + 1 /\ y \in i .. Len(text) + 1
    BY <1>1
  <2>2. IsStretch(s, text, i, y - i)
    BY <1>1, <2>1, StretchIs
  <2>3. Len(s) = y - i
    BY <2>2 DEF IsStretch
  <2> QED BY <1>1, <1>5, <2>3
<1>8. Words!Dangling(s, text[y])
  BY <1>3, <1>4, <1>6 DEF Words!Dangling, ExpAt, PointAt
<1>9. y <= Len(text)
  BY <1>5
<1>10. Words!IsWrong(SubSeq(text, index, Words!LastOfWord))
  BY <1>3, <1>7, <1>8, <1>9 DEF Words!IsWrong
<1> QED BY <1>1, <1>10, RefusesText

\* Number reads the longest numeral.
LEMMA NumberReads ==
  ASSUME LexType, Number PROVE Words!Next
<1> PICK i : i = index
  OBVIOUS
<1> PICK D : D = DigitsEnd(text, i)
  OBVIOUS
<1> PICK F : F = FractionEnd(text, D)
  OBVIOUS
<1> PICK X : X = ExponentEnd(text, F)
  OBVIOUS
<1> PICK Z : Z = Suffixed(text, X)
  OBVIOUS
<1> PICK kind : kind = NumericKind(text, i, X)
  OBVIOUS
<1>1. /\ Reading /\ index <= Len(text) /\ IsDigit(RuneAt(text, i))
      /\ X # NoToken /\ EmitNumber(kind, X)
  BY DEF Number, Meets, Rune, Numeral, NumeralEnd
<1>2. /\ text \in Seq(STRING) /\ i \in 1 .. Len(text)
      /\ Words!LastOfGap = 0 /\ ~ Words!OpensComment
  BY <1>1, DigitHere
<1>3. kind = "integer" => IsInteger(text, i, X)
  BY <1>1 DEF EmitNumber
<1>4. PICK value : Emit(kind, value, Z) /\ index' = Z
  BY <1>1 DEF EmitNumber, MoveTo
<1>5. DigAt(text, i) /\ F # NoToken
  <2>1. X = NumeralEnd(text, i)
    BY DEF NumeralEnd
  <2>2. text[i] \in Digits
    BY <1>1, <1>2, <1>3, <2>1, NumberBegins
  <2>3. F # NoToken
    BY <1>1, <1>2, <2>1, NumeralEndIs
  <2> QED BY <1>2, <2>2, <2>3, AtInside DEF DigAt
<1>6. /\ Z \in i + 1 .. Len(text) + 1 /\ D \in i + 1 .. Z /\ F \in D .. Z /\ X \in F .. Z
      /\ NumeralAt(text, i, D, F, X, Z)
      /\ (Z = X /\ ~ SufAt(text, X)) \/ (Z = X + 1 /\ SufAt(text, X))
  BY <1>1, <1>2, <1>5, NumeralEnds
<1>7. \A y \in i + 1 .. Len(text) + 1 : \A d \in i + 1 .. y : \A f \in d .. y : \A e \in f .. y :
        NumeralAt(text, i, d, f, e, y) => y <= Z /\ (y = Z => d = D /\ f = F /\ e = X)
  BY <1>1, <1>2, <1>5, LongestNumeral
<1>14. NothingLonger(text, i, Z)
  BY <1>1, <1>2, <1>5, NothingBeyondSuffix
<1>15. \A parts \in Words!NumeralParts(Stretch(text, i, Z)) :
        \E d \in i + 1 .. Z : \E f \in d .. Z : \E e \in f .. Z :
          NumeralAt(text, i, d, f, e, Z) /\ parts = PartsOf(text, i, d, f, e, Z)
  <2>1. i \in 1 .. Len(text) /\ Z \in i + 1 .. Len(text) + 1
    BY <1>2, <1>6
  <2> QED BY <1>2, <2>1, NumeralPartsAre
<1> PICK s : s = Stretch(text, i, Z)
  OBVIOUS
<1> PICK j : j = Z - 1
  OBVIOUS
<1>8. /\ j \in i .. Len(text) /\ j + 1 = Z /\ SubSeq(text, i, j) = s
      /\ PartsOf(text, i, D, F, X, Z) \in Words!NumeralParts(s)
      /\ Words!KindsOf(s) = {Words!NumeralKind(parts) : parts \in Words!NumeralParts(s)}
      /\ Words!IsWord(s)
      /\ \A k \in i .. Len(text) : Words!IsWord(SubSeq(text, i, k)) => k <= j
  BY <1>1, <1>6, <1>14, NumeralLast
<1>9. /\ Words!NumeralKind(PartsOf(text, i, D, F, X, Z)) = kind
      /\ kind = "integer" <=> D = F /\ F = X /\ X = Z
  BY <1>1, <1>2, <1>5, NumeralKindIs
<1>10. kind \in Words!KindsOf(s)
  BY <1>8, <1>9
<1>11. ASSUME Words!AllDigits(s), ~ (ValueOf(s) <= MaxInteger) PROVE FALSE
  <2>1. i \in 1 .. Len(text) + 1 /\ Z \in i .. Len(text) + 1 /\ Z \in Nat
    BY <1>2, <1>6
  <2>2. DigitsFrom(text, i, Z)
    BY <1>2, <1>11, <2>1, AllDigitsIs
  <2>3. Reaches(text, Z, D)
    BY <1>2, <2>1, <2>2, ScanDigits
  <2>4. D = F /\ F = X /\ X = Z
    BY <1>6, <2>3 DEF Reaches
  <2>5. IsInteger(text, i, X)
    BY <1>3, <1>9, <2>4
  <2>6. IntegerValue(text, i, X) = ValueOf(s)
    BY <2>4 DEF IntegerValue, Stretch
  <2> QED BY <1>11, <2>5, <2>6 DEF IsInteger
<1>12. ASSUME index + Len(s) <= Len(text), Words!Dangling(s, text[index + Len(s)]) PROVE FALSE
  <2>1. Len(s) = Z - i
    <3>1. i \in 1 .. Len(text) + 1 /\ Z \in i .. Len(text) + 1
      BY <1>2, <1>6
    <3>2. IsStretch(s, text, i, Z - i)
      BY <1>2, <3>1, StretchIs
    <3> QED BY <3>2 DEF IsStretch
  <2>2. index + Len(s) = Z
    BY <1>2, <1>6, <2>1
  <2>3. Z \in 1 .. Len(text)
    BY <1>2, <1>6, <1>12, <2>2
  <2> PICK b : b = At(text, Z)
    OBVIOUS
  <2>4. b = text[index + Len(s)]
    BY <1>2, <2>2, <2>3, AtInside
  <2>5. PICK parts \in Words!NumeralParts(s) :
          /\ parts[4] = <<>>
          /\ \/ b \in {"e", "E"} /\ parts[3] = <<>>
             \/ b = "." /\ parts[2] = <<>> /\ parts[3] = <<>>
    BY <1>12, <2>4 DEF Words!Dangling
  <2>6. parts = PartsOf(text, i, D, F, X, Z)
    <3>1. PICK d \in i + 1 .. Z : \E f \in d .. Z : \E e \in f .. Z :
            NumeralAt(text, i, d, f, e, Z) /\ parts = PartsOf(text, i, d, f, e, Z)
      <4>1. parts \in Words!NumeralParts(Stretch(text, i, Z))
        BY <2>5
      <4> QED BY <1>15, <4>1
    <3> PICK f \in d .. Z : \E e \in f .. Z :
            NumeralAt(text, i, d, f, e, Z) /\ parts = PartsOf(text, i, d, f, e, Z)
      BY <3>1
    <3>2. PICK e \in f .. Z :
            NumeralAt(text, i, d, f, e, Z) /\ parts = PartsOf(text, i, d, f, e, Z)
      OBVIOUS
    <3>3. d = D /\ f = F /\ e = X
      BY <1>6, <1>7, <3>2
    <3> QED BY <3>2, <3>3
  <2>7. /\ parts[2] = <<>> <=> D = F
        /\ parts[3] = <<>> <=> F = X
        /\ parts[4] = <<>> <=> X = Z
    BY <1>2, <1>6, <2>6, PartsEmpty
  <2>8. D \in 1 .. Len(text) + 1 /\ F \in 1 .. Len(text) + 1
    BY <1>2, <1>6
  <2>9. CASE ExpAt(text, Z) /\ F = X /\ X = Z
    <3>1. X \in F + 2 .. Len(text) + 1
      <4>1. ExpAt(text, F)
        BY <2>9
      <4> QED BY <1>1, <1>2, <2>8, <4>1, ScanExponent
    <3>2. X # F
      BY <1>2, <2>8, <3>1
    <3> QED BY <2>9, <3>2
  <2>10. CASE PointAt(text, Z) /\ D = F /\ F = X /\ X = Z
    <3>1. F \in D + 2 .. Len(text) + 1
      <4>1. PointAt(text, D)
        BY <2>10
      <4> QED BY <1>2, <1>5, <2>8, <4>1, ScanFraction
    <3>2. F # D
      BY <1>2, <2>8, <3>1
    <3> QED BY <2>10, <3>2
  <2> QED BY <2>5, <2>7, <2>9, <2>10 DEF ExpAt, PointAt
<1>13. ~ Words!IsWrong(s)
  BY <1>2, <1>11, <1>12 DEF Words!IsWrong
<1> QED BY <1>1, <1>2, <1>4, <1>8, <1>10, <1>13, ReadsWord

\* InvalidNumber refuses what is no numeral or a wrong one.
LEMMA InvalidNumberRefuses ==
  ASSUME LexType, InvalidNumber PROVE Words!Next
<1> PICK i : i = index
  OBVIOUS
<1> PICK D : D = DigitsEnd(text, i)
  OBVIOUS
<1> PICK F : F = FractionEnd(text, D)
  OBVIOUS
<1> PICK X : X = ExponentEnd(text, F)
  OBVIOUS
<1>1. /\ Reading /\ index <= Len(text) /\ IsDigit(RuneAt(text, i))
      /\ X # NoToken => NumericKind(text, i, X) = "integer" /\ ~ IsInteger(text, i, X)
      /\ Refuse("invalid number")
  BY DEF InvalidNumber, Meets, Rune, Numeral, NumeralEnd
<1>2. /\ text \in Seq(STRING) /\ i \in 1 .. Len(text)
      /\ Words!LastOfGap = 0 /\ ~ Words!OpensComment
  BY <1>1, DigitHere
<1>3. CASE ~ DigAt(text, i)
  <2>1. ASSUME NEW j \in i .. Len(text) PROVE ~ Words!IsWord(SubSeq(text, i, j))
    <3> PICK s : s = SubSeq(text, i, j)
      OBVIOUS
    <3>1. s \in Seq(STRING) /\ s[1] = text[i]
      BY <1>2, PieceIs
    <3>2. s[1] \notin Digits
      BY <1>2, <1>3, <3>1, AtInside DEF DigAt
    <3>3. Words!NumeralParts(s) = {}
      BY <3>1, <3>2, NumeralBegins
    <3> QED BY <1>1, <1>2, <3>3, NumeralWords
  <2>2. Words!LastOfWord = 0
    BY <2>1, NoWordHere
  <2> QED BY <1>1, <1>2, <2>2, RefusesText
<1>4. CASE DigAt(text, i)
  <2>1. D \in i + 1 .. Len(text) + 1 /\ DigitsFrom(text, i, D) /\ D \in Nat
    <3>1. i \in 1 .. Len(text) + 1
      BY <1>2
    <3>2. D \in i .. Len(text) + 1 /\ i < D /\ DigitsFrom(text, i, D)
      BY <1>2, <1>4, <3>1, ScanDigits
    <3> QED BY <3>1, <3>2
  <2>2. CASE F = NoToken
    <3>0. D \in 1 .. Len(text) + 1
      BY <1>2, <2>1
    <3>1. PointAt(text, D)
      BY <1>2, <2>2, <3>0, ScanFraction
    <3>2. NumeralAt(text, i, D, D, D, D)
      BY <2>1 DEF NumeralAt
    <3>3. NothingLonger(text, i, D)
      BY <1>2, <2>2, NothingBeyondDigits
    <3>4. D \in i + 1 .. D /\ D \in D .. D
      BY <1>2, <2>1
    <3> QED BY <1>1, <1>2, <2>1, <3>1, <3>2, <3>3, <3>4, RefusesNumeral
  <2>3. CASE F # NoToken /\ X = NoToken
    <3>0. F \in D .. Len(text) + 1 /\ (F = D \/ FractionFrom(text, D, F))
      <4>1. D \in 1 .. Len(text) + 1
        BY <1>2, <2>1
      <4>2. F = D \/ (F \in D + 2 .. Len(text) + 1 /\ FractionFrom(text, D, F))
        BY <1>2, <2>3, <4>1, ScanFraction
      <4> QED BY <2>1, <4>2
    <3>1. ExpAt(text, F) /\ F \in i + 1 .. Len(text) + 1 /\ D \in i + 1 .. F /\ F \in D .. F
          /\ F \in F .. F
      <4>1. F \in 1 .. Len(text) + 1
        BY <1>2, <2>1, <3>0
      <4>2. ExpAt(text, F)
        BY <1>2, <2>3, <4>1, ScanExponent
      <4> QED BY <1>2, <2>1, <3>0, <4>1, <4>2
    <3>2. NumeralAt(text, i, D, F, F, F)
      BY <2>1, <3>0 DEF NumeralAt
    <3>3. NothingLonger(text, i, F)
      <4>1. D \in Nat /\ F \in Nat /\ D <= F
        BY <1>2, <2>1, <3>0
      <4> QED BY <1>2, <2>3, <4>1, NothingBeyondFraction
    <3> QED BY <1>1, <1>2, <3>1, <3>2, <3>3, RefusesNumeral
  <2>4. CASE F # NoToken /\ X # NoToken
    <3> PICK Z : Z = Suffixed(text, X)
      OBVIOUS
    <3>1. D = F /\ F = X /\ X = Z /\ ~ IsInteger(text, i, X)
      <4>1. NumericKind(text, i, X) = "integer" <=> D = F /\ F = X /\ X = Z
        BY <1>2, <1>4, <2>4, NumeralKindIs
      <4> QED BY <1>1, <2>4, <4>1
    <3>2. NothingLonger(text, i, D)
      <4>1. NothingLonger(text, i, Z)
        BY <1>2, <1>4, <2>4, NothingBeyondSuffix
      <4> QED BY <3>1, <4>1
    <3>3. NumeralAt(text, i, D, D, D, D)
      BY <2>1 DEF NumeralAt
    <3>4. D \in i + 1 .. D /\ D \in D .. D
      BY <2>1, <1>2
    <3>5. Words!LastOfWord = D - 1 /\ SubSeq(text, i, D - 1) = Stretch(text, i, D)
      BY <1>1, <2>1, <3>1, <3>2, <3>3, <3>4, NumeralLast
    <3>6. Words!AllDigits(Stretch(text, i, D))
      <4>1. i \in 1 .. Len(text) + 1 /\ D \in i .. Len(text) + 1
        BY <1>2, <2>1
      <4> QED BY <1>2, <2>1, <4>1, AllDigitsIs
    <3>7. ~ (ValueOf(Stretch(text, i, D)) <= MaxInteger)
      <4>1. D > i
        BY <1>2, <2>1
      <4>2. IntegerValue(text, i, D) = ValueOf(Stretch(text, i, D))
        BY DEF IntegerValue, Stretch
      <4> QED BY <3>1, <4>1, <4>2 DEF IsInteger
    <3>8. Words!IsWrong(SubSeq(text, index, Words!LastOfWord))
      BY <3>5, <3>6, <3>7 DEF Words!IsWrong
    <3> QED BY <1>1, <1>2, <3>8, RefusesText
  <2> QED BY <2>2, <2>3, <2>4
<1> QED BY <1>3, <1>4

-----------------------------------------------------------------------------
(***************************************************************************)
(* Every step is one of CovaWords.                                         *)
(***************************************************************************)
\* At first nothing is read.
LEMMA NothingReadYet == Init => Words!Init
<1> SUFFICES ASSUME Init PROVE Words!Init
  OBVIOUS
<1>1. index = 1 /\ tokens = <<>> /\ refusal = <<>>
  BY DEF Init
<1>2. TokensRead = <<>>
  BY <1>1 DEF TokensRead
<1>3. WordsOf(TokensRead) = <<>>
  BY <1>2 DEF WordsOf
<1>4. (refusal # <<>>) = FALSE
  BY <1>1
<1> QED BY <1>1, <1>3, <1>4 DEF Words!Init

\* Every step of the lexer reads one word, passes one gap, refuses the text
\* or, at its end, changes nothing of this.
LEMMA WordsStep == LexType /\ [Next]_vars => [Words!Next]_(Words!vars)
<1> SUFFICES ASSUME LexType, [Next]_vars PROVE Words!Next \/ UNCHANGED Words!vars
  BY Zenon
<1>1. CASE NewlineToken BY <1>1, NewlineReads
<1>2. CASE Blank BY <1>2, BlankPasses
<1>3. CASE LineComment BY <1>3, LineCommentPasses
<1>4. CASE BlockComment BY <1>4, BlockCommentPasses
<1>5. CASE UnterminatedComment BY <1>5, UnterminatedRefuses
<1>6. CASE Identifier BY <1>6, IdentifierReads
<1>7. CASE Number BY <1>7, NumberReads
<1>8. CASE InvalidNumber BY <1>8, InvalidNumberRefuses
<1>9. CASE String BY <1>9, StringReads
<1>10. CASE InvalidString BY <1>10, InvalidStringRefuses
<1>11. CASE Operator BY <1>11, OperatorReads
<1>12. CASE Delimiter BY <1>12, DelimiterReads
<1>13. CASE Unrecognized BY <1>13, UnrecognizedRefuses
<1>14. CASE EndOfText BY <1>14, EndOfTextStutters
<1>15. CASE UNCHANGED vars
  <2>1. text' = text /\ index' = index /\ tokens' = tokens /\ refusal' = refusal
    BY <1>15 DEF vars
  <2>2. TokensRead' = TokensRead
    BY <2>1 DEF TokensRead
  <2>3. WordsOf(TokensRead)' = WordsOf(TokensRead)
    BY <2>2 DEF WordsOf
  <2>4. (refusal # <<>>)' = (refusal # <<>>)
    BY <2>1
  <2>5. UNCHANGED Words!vars
    BY <2>1, <2>3, <2>4 DEF Words!vars
  <2> QED BY <2>5
<1> QED
  BY <1>1, <1>2, <1>3, <1>4, <1>5, <1>6, <1>7, <1>8, <1>9, <1>10, <1>11, <1>12, <1>13,
     <1>14, <1>15 DEF Next

\* The lexer implements CovaWords: nothing of the text is lost or read twice,
\* what lies between two tokens is blank or a comment, every token is as long
\* as it can be and of the kind it looks like, and a text is refused only
\* where no token can be or what was begun does not end (Tokenize and the
\* functions it calls).
THEOREM TextDividedIntoWords == Spec => ImplementsWords
<1>1. LexInv /\ [Next]_vars => [Words!Next]_(Words!vars)
  BY WordsStep DEF LexInv
<1>2. Spec => []LexInv
  BY LexInitially, LexPreserved, PTL DEF Spec
<1>3. Init /\ [][Next]_vars /\ []LexInv => Words!Init /\ [][Words!Next]_(Words!vars)
  BY <1>1, NothingReadYet, PTL
<1> QED BY <1>2, <1>3, PTL DEF Spec, ImplementsWords, Words!Spec
=============================================================================
