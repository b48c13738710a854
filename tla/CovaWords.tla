------------------------------ MODULE CovaWords ------------------------------
(***************************************************************************)
(* What the lexer promises: a text is divided into words and what lies     *)
(* between them, and each word is as long as it can be.                    *)
(*                                                                         *)
(* The words are described by what they are made of, not by how they are   *)
(* found.                                                                  *)
(***************************************************************************)
EXTENDS Integers, FiniteSets, Sequences

CONSTANTS
  Letters, DigitRunes, Blanks,   \* sets of runes, each a sequence of bytes
  Keywords, Symbols,             \* a set of names, and one of sequences of bytes
  Name(_),                       \* the name that some bytes spell
  Value(_),                      \* the number that some digits write
  Largest                        \* the largest integer

VARIABLES
  text,     \* what is read
  place,    \* what lies before it has been read
  words,    \* the words in it: <<first, last, kind>>
  refused   \* whether the text goes on with nothing that is a word

vars == <<text, place, words, refused>>

-----------------------------------------------------------------------------
(***************************************************************************)
(* What a sequence of bytes may be.                                        *)
(***************************************************************************)
Bytes(i, j) == SubSeq(text, i, j)
Begins(rune, s) == Len(rune) <= Len(s) /\ SubSeq(s, 1, Len(rune)) = rune
\* The byte at k belongs to a rune of this set.
Belongs(s, k, runes) ==
  \E i \in 1 .. k : \E j \in k .. Len(s) : SubSeq(s, i, j) \in runes
IsIdentifier(s) ==
  /\ \E k \in DOMAIN s : SubSeq(s, 1, k) \in Letters
  /\ \A k \in DOMAIN s : Belongs(s, k, Letters) \/ Belongs(s, k, DigitRunes)

AllDigits(s) == s # <<>> /\ \A k \in DOMAIN s : <<s[k]>> \in DigitRunes
IsFraction(s) == s # <<>> /\ s[1] = "." /\ AllDigits(Tail(s))
IsExponent(s) ==
  /\ Len(s) > 1 /\ s[1] \in {"e", "E"}
  /\ \/ AllDigits(Tail(s))
     \/ s[2] \in {"+", "-"} /\ AllDigits(SubSeq(s, 3, Len(s)))
Suffixes == {<<>>, <<"f">>, <<"F">>, <<"d">>, <<"D">>}
\* The four parts that s may be divided into as a numeral.
Cut(s, a, b, c) ==
  <<SubSeq(s, 1, a), SubSeq(s, a + 1, b), SubSeq(s, b + 1, c), SubSeq(s, c + 1, Len(s))>>
Divisions(s) ==
  {Cut(s, a, b, c) : a \in 1 .. Len(s), b \in 1 .. Len(s), c \in 1 .. Len(s)}
NumeralParts(s) ==
  {parts \in Divisions(s) :
     /\ AllDigits(parts[1])
     /\ parts[2] = <<>> \/ IsFraction(parts[2])
     /\ parts[3] = <<>> \/ IsExponent(parts[3])
     /\ parts[4] \in Suffixes
     /\ Len(s) = Len(parts[1]) + Len(parts[2]) + Len(parts[3]) + Len(parts[4])}
IsNumeral(s) == NumeralParts(s) # {}
NumeralKind(parts) ==
  CASE parts[4] \in {<<"d">>, <<"D">>} -> "float64"
    [] parts[4] = <<>> /\ parts[2] = <<>> /\ parts[3] = <<>> -> "integer"
    [] OTHER -> "float32"

\* A backslash escapes the byte that follows it, one more backslash too.
Slashes(s, k) ==
  Cardinality({j \in 1 .. k - 1 : \A i \in j .. k - 1 : s[i] = "\\"})
IsEscaped(s, k) == Slashes(s, k) % 2 = 1
IsStringLiteral(s) ==
  /\ Len(s) > 1 /\ s[1] = "\"" /\ s[Len(s)] = "\"" /\ ~ IsEscaped(s, Len(s))
  /\ \A k \in 2 .. Len(s) - 1 :
       IF IsEscaped(s, k) THEN s[k] \in {"\"", "\\", "n", "r", "t", "0"}
       ELSE s[k] \notin {"\"", "\n", "\r"}

LineEnding == {<<"\n">>, <<"\r">>, <<"\r", "\n">>}
IsLineComment(s) ==
  /\ Begins(<<"/", "/">>, s)
  /\ \A k \in DOMAIN s : s[k] \notin {"\n", "\r"}
IsBlockComment(s) ==
  /\ Len(s) >= 4 /\ Begins(<<"/", "*">>, s)
  /\ {k \in 3 .. Len(s) - 1 : <<s[k], s[k + 1]>> = <<"*", "/">>} = {Len(s) - 1}

\* The kinds of word that s is.
KindsOf(s) ==
  (IF IsIdentifier(s) THEN {IF Name(s) \in Keywords THEN Name(s) ELSE "ident"} ELSE {})
  \cup {NumeralKind(parts) : parts \in NumeralParts(s)}
  \cup (IF IsStringLiteral(s) THEN {"string"} ELSE {})
  \cup (IF s \in LineEnding THEN {"newline"} ELSE {})
  \cup (IF s \in Symbols THEN {Name(s)} ELSE {})
IsWord(s) == KindsOf(s) # {}
\* What lies between words.
IsGap(s) == s \in Blanks \/ IsLineComment(s) \/ IsBlockComment(s)

-----------------------------------------------------------------------------
(***************************************************************************)
(* The last byte of the longest gap, or else word, at `place`; 0 if there  *)
(* is none.                                                                *)
(***************************************************************************)
Longest(Is(_)) ==
  LET ends == {j \in place .. Len(text) : Is(Bytes(place, j))}
  IN  IF ends = {} THEN 0 ELSE CHOOSE j \in ends : \A k \in ends : k <= j
LastOfGap == Longest(IsGap)
LastOfWord == Longest(IsWord)

(***************************************************************************)
(* What has been begun has to be ended: a comment, the fraction or the     *)
(* exponent of a numeral.                                                  *)
(***************************************************************************)
OpensComment == Begins(<<"/", "*">>, Bytes(place, Len(text)))
Dangling(s, byte) ==
  \E parts \in NumeralParts(s) :
    /\ parts[4] = <<>>
    /\ \/ byte \in {"e", "E"} /\ parts[3] = <<>>
       \/ byte = "." /\ parts[2] = <<>> /\ parts[3] = <<>>
IsWrong(s) ==
  \/ OpensComment
  \/ AllDigits(s) /\ ~ (Value(s) <= Largest)
  \/ place + Len(s) <= Len(text) /\ Dangling(s, text[place + Len(s)])

PassGap(last) ==
  /\ last # 0
  /\ place' = last + 1
  /\ UNCHANGED <<text, words, refused>>
ReadWord(last) ==
  /\ last # 0 /\ ~ IsWrong(Bytes(place, last))
  /\ \E kind \in KindsOf(Bytes(place, last)) :
       words' = Append(words, <<place, last, kind>>)
  /\ place' = last + 1
  /\ UNCHANGED <<text, refused>>
RefuseText(last) ==
  /\ last = 0 \/ IsWrong(Bytes(place, last))
  /\ refused' = TRUE
  /\ UNCHANGED <<text, place, words>>

Init == place = 1 /\ words = <<>> /\ refused = FALSE
Next ==
  /\ ~ refused /\ place <= Len(text)
  /\ IF LastOfGap # 0 THEN PassGap(LastOfGap)
     ELSE ReadWord(LastOfWord) \/ RefuseText(LastOfWord)
Spec == Init /\ [][Next]_vars
=============================================================================
