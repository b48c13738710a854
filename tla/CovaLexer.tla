------------------------------ MODULE CovaLexer ------------------------------
(***************************************************************************)
(* The lexer, cova/lex.go: Tokenize reads a text from its first byte to    *)
(* its last; every action is one turn of its loop, for one case of its     *)
(* switch.                                                                 *)
(*                                                                         *)
(* An ASCII byte of the text is the character it encodes, any other byte   *)
(* is named by its value ("C3").  A rune is the sequence of its bytes.     *)
(***************************************************************************)
EXTENDS Integers, FiniteSets, SequencesExt

CONSTANTS
  Texts,                                  \* what is read
  LetterLeads, DigitLeads, SpaceLeads,    \* first bytes of runes beyond ASCII
  Continuations,                          \* their second bytes
  MaxInteger                              \* of an integer literal, 2^63 - 1

ASSUME MaxIntegerAssumption == MaxInteger \in Nat
ASSUME TextsAssumption == \A t \in Texts : t \in Seq(STRING)

Digits == {"0", "1", "2", "3", "4", "5", "6", "7", "8", "9"}
AsciiLetters ==
  {"a", "b", "c", "d", "e", "f", "g", "h", "i", "j", "k", "l", "m",
   "n", "o", "p", "q", "r", "s", "t", "u", "v", "w", "x", "y", "z",
   "A", "B", "C", "D", "E", "F", "G", "H", "I", "J", "K", "L", "M",
   "N", "O", "P", "Q", "R", "S", "T", "U", "V", "W", "X", "Y", "Z"}
\* The vertical tab by its name: TLA+ has no escape for it.
AsciiSpaces == {" ", "\t", "VT", "\f", "\n", "\r"}
LineEnds == {"\n", "\r"}

\* The runes of one byte, and of two: what they are is told by their first byte.
Runes(bytes) == {<<byte>> : byte \in bytes}
Wide(leads) == {<<lead, byte>> : lead \in leads, byte \in Continuations}
LetterRunes == Runes(AsciiLetters \cup {"_"}) \cup Wide(LetterLeads)
DigitRunes == Runes(Digits) \cup Wide(DigitLeads)
SpaceRunes == Runes(AsciiSpaces) \cup Wide(SpaceLeads)
WideRunes == Wide(LetterLeads \cup DigitLeads \cup SpaceLeads)

keywords ==
  {"break", "case", "const", "continue", "default", "else", "extern", "false",
   "bool", "byte", "float32", "float64", "for", "if", "int8", "int16", "int32",
   "int64", "return", "switch", "true", "uint8", "uint16", "uint32", "uint64",
   "void", "while", "int", "float"}
LongOperators == {<<"<", "<", "=">>, <<">", ">", "=">>}
PairOperators ==
  {<<"+", "+">>, <<"-", "-">>, <<"-", ">">>, <<"=", "=">>, <<"!", "=">>, <<"<", "=">>,
   <<">", "=">>, <<"&", "&">>, <<"|", "|">>, <<"<", "<">>, <<">", ">">>, <<"+", "=">>,
   <<"-", "=">>, <<"*", "=">>, <<"/", "=">>, <<"%", "=">>, <<"&", "=">>, <<"|", "=">>,
   <<"^", "=">>}
OperatorCharacters ==
  {"+", "-", "*", "/", "%", "=", "!", "<", ">", "&", "|", "^", "~"}
Ellipsis == <<".", ".", ".">>
PairDelimiters == {<<":", ":">>, <<"#", "#">>}
DelimiterCharacters ==
  {"(", ")", "{", "}", "[", "]", ";", ",", ":", ".", "?", "#"}
Escapes ==
  [byte \in {"\"", "\\", "n", "r", "t", "0"} |->
     CASE byte = "n" -> "\n" [] byte = "r" -> "\r" [] byte = "t" -> "\t"
       [] byte = "0" -> "NUL" [] OTHER -> byte]

\* A rune is one thing or another, and its bytes are no characters.
Characters ==
  Digits \cup AsciiLetters \cup AsciiSpaces \cup OperatorCharacters
    \cup DelimiterCharacters \cup {"_", "\"", "\\"}
ASSUME RuneAssumption ==
  /\ (LetterLeads \cup DigitLeads \cup SpaceLeads \cup Continuations) \subseteq STRING \ Characters
  /\ Continuations \cap (LetterLeads \cup DigitLeads \cup SpaceLeads) = {}
  /\ LetterLeads \cap DigitLeads = {}
  /\ SpaceLeads \cap (LetterLeads \cup DigitLeads) = {}

VARIABLES
  text,      \* what is read
  index,     \* the position of the next byte, from 1
  line,      \* its line
  column,    \* and its column
  tokens,    \* the tokens so far
  refusal    \* the error that ended the reading, with its line and column

vars == <<text, index, line, column, tokens, refusal>>

-----------------------------------------------------------------------------
\* The byte at k, "" beyond the end; the bytes from i until j; and as one name.
At(t, k) == IF k \in DOMAIN t THEN t[k] ELSE ""
Between(t, i, j) == SubSeq(t, i, Min({j - 1, Len(t)}))
Joined(bytes) == FoldLeft(LAMBDA name, byte : name \o byte, "", bytes)
Spelled(t, i, j) == Joined(Between(t, i, j))

\* The first position from i with one of these bytes.
NextOf(t, i, bytes) == Min({k \in i .. Len(t) : t[k] \in bytes} \cup {Len(t) + 1})

RuneAt(t, k) ==
  IF Between(t, k, k + 2) \in WideRunes THEN <<t[k], t[k + 1]>> ELSE <<At(t, k)>>
\* The second byte of a rune is at k.
InsideRune(t, k) == k > 1 /\ <<t[k - 1], t[k]>> \in WideRunes
RunesBetween(t, i, j) == Cardinality({k \in i .. j - 1 : ~ InsideRune(t, k)})

isIdentStart(rune) == rune \in LetterRunes
IsDigit(rune) == rune \in DigitRunes
IsSpace(rune) == rune \in SpaceRunes
isIdentPart(rune) == isIdentStart(rune) \/ IsDigit(rune)
isOperator(rune) == rune \in Runes(OperatorCharacters)
isDelimiter(rune) == rune \in Runes(DelimiterCharacters)

-----------------------------------------------------------------------------
(***************************************************************************)
(* Where the token at i ends: the position after its last byte, or 0 if it *)
(* is not a token.                                                         *)
(***************************************************************************)
NoToken == 0
IdentifierEnd(t, i) ==
  Min({k \in i .. Len(t) : ~ InsideRune(t, k) /\ ~ isIdentPart(RuneAt(t, k))}
      \cup {Len(t) + 1})

DigitsEnd(t, i) == NextOf(t, i, Range(t) \ Digits)
FractionEnd(t, k) ==
  IF At(t, k) # "." THEN k
  ELSE IF At(t, k + 1) \in Digits THEN DigitsEnd(t, k + 1) ELSE NoToken
SignEnd(t, k) == IF At(t, k) \in {"+", "-"} THEN k + 1 ELSE k
ExponentEnd(t, k) ==
  IF At(t, k) \notin {"e", "E"} THEN k
  ELSE IF At(t, SignEnd(t, k + 1)) \in Digits
       THEN DigitsEnd(t, SignEnd(t, k + 1)) ELSE NoToken
NumeralEnd(t, i) == ExponentEnd(t, FractionEnd(t, DigitsEnd(t, i)))
NumericKind(t, i, end) ==
  CASE At(t, end) \in {"f", "F"} -> "float32"
    [] At(t, end) \in {"d", "D"} -> "float64"
    [] OTHER -> IF Range(SubSeq(t, i, end - 1)) \cap {".", "e", "E"} = {}
                THEN "integer" ELSE "float32"
Suffixed(t, end) == IF At(t, end) \in {"f", "F", "d", "D"} THEN end + 1 ELSE end
Digit == [digit \in Digits |-> CHOOSE n \in 0 .. 9 : ToString(n) = digit]
ValueOf(digits) == FoldLeft(LAMBDA n, digit : 10 * n + Digit[digit], 0, digits)
IntegerValue(t, i, end) == ValueOf(SubSeq(t, i, end - 1))
IsInteger(t, i, end) == end > i /\ IntegerValue(t, i, end) <= MaxInteger

\* Mutant of Escaped: the backslash before a byte may be an escaped one.
EscapedByAny(t, i) == {k \in i + 2 .. Len(t) : t[k - 1] = "\\"}
\* The bytes of a string literal, from its first, that a backslash escapes.
Escaped(t, i) ==
  LET escaped[k \in i .. Len(t)] ==
        k > i + 1 /\ t[k - 1] = "\\" /\ ~ escaped[k - 1]
  IN  {k \in i .. Len(t) : escaped[k]}
\* The first byte that ends it, or should not be in it.
StringStop(t, i, escaped) ==
  Min({k \in i + 1 .. Len(t) :
         IF k \in escaped THEN t[k] \notin DOMAIN Escapes
         ELSE t[k] \in {"\""} \cup LineEnds} \cup {Len(t) + 1})
StringEnd(t, stop, escaped) ==
  IF At(t, stop) = "\"" /\ stop \notin escaped THEN stop + 1 ELSE NoToken
StringText(t, i, end, escaped) ==
  LET decoded[k \in i .. end - 2] ==
        IF k = i THEN <<>>
        ELSE IF k \in escaped THEN Append(decoded[k - 1], Escapes[t[k]])
        ELSE IF t[k] = "\\" THEN decoded[k - 1] ELSE Append(decoded[k - 1], t[k])
  IN  decoded[end - 2]

\* Mutant of tokenizeOperator: an operator of two characters is looked for first.
tokenizeOperatorPairsFirst(t, i) ==
  IF Between(t, i, i + 2) \in PairOperators THEN i + 2
  ELSE IF Between(t, i, i + 3) \in LongOperators THEN i + 3 ELSE i + 1
tokenizeOperator(t, i) ==
  IF Between(t, i, i + 3) \in LongOperators THEN i + 3
  ELSE IF Between(t, i, i + 2) \in PairOperators THEN i + 2 ELSE i + 1
tokenizeDelimiter(t, i) ==
  IF Between(t, i, i + 3) = Ellipsis THEN i + 3
  ELSE IF Between(t, i, i + 2) \in PairDelimiters THEN i + 2 ELSE i + 1

-----------------------------------------------------------------------------
\* The token of the end is the one without bytes.
Reading == refusal = <<>> /\ (tokens # <<>> => Last(tokens).length # 0)
Rune == RuneAt(text, index)
\* One of these runes is next.
Meets(Class(_)) == Reading /\ index <= Len(text) /\ Class(Rune)

NewToken(kind, value, end) ==
  [kind |-> kind, value |-> value, line |-> line, column |-> column,
   offset |-> index, length |-> end - index]
\* What lies before `end` has been read, and makes a token.
MoveTo(end) == index' = end /\ column' = column + (end - index)
Emit(kind, value, end) ==
  /\ tokens' = Append(tokens, NewToken(kind, value, end))
  /\ UNCHANGED <<text, refusal>>
Refuse(what) ==
  /\ refusal' = <<what, line, column>>
  /\ UNCHANGED <<text, index, line, column, tokens>>

IsLineEnd(rune) == rune \in Runes(LineEnds)
\* Mutant of LineEndAfter: a carriage return is a line end of its own.
LineEndAfterOne(t, i) == i + 1
LineEndAfter(t, i) == IF t[i] = "\r" /\ At(t, i + 1) = "\n" THEN i + 2 ELSE i + 1
NewlineToken ==
  /\ Meets(IsLineEnd)
  /\ Emit("newline", "", LineEndAfter(text, index))
  /\ index' = LineEndAfter(text, index)
  /\ line' = line + 1
  /\ column' = 1

Blank ==
  /\ Meets(LAMBDA rune : IsSpace(rune) /\ ~ IsLineEnd(rune))
  /\ index' = index + Len(Rune)
  /\ column' = column + 1
  /\ UNCHANGED <<text, line, tokens, refusal>>

Opens(first, second) == At(text, index) = first /\ At(text, index + 1) = second
LineComment ==
  /\ Reading /\ Opens("/", "/")
  /\ MoveTo(NextOf(text, index + 2, LineEnds))
  /\ UNCHANGED <<text, line, tokens, refusal>>

\* The lines that end between two positions, each at its last byte.
LinesEnded(t, i, j) ==
  {k \in i .. j - 1 : t[k] \in LineEnds /\ ~ (t[k] = "\r" /\ At(t, k + 1) = "\n")}
Closings == {k \in index + 2 .. Len(text) - 1 : text[k] = "*" /\ text[k + 1] = "/"}
PassComment(end, ended) ==
  /\ index' = end
  /\ line' = line + Cardinality(ended)
  /\ column' = IF ended = {} THEN column + (end - index) ELSE end - Max(ended)
BlockComment ==
  /\ Reading /\ Opens("/", "*")
  /\ Closings # {}
  /\ PassComment(Min(Closings) + 2, LinesEnded(text, index, Min(Closings)))
  /\ UNCHANGED <<text, tokens, refusal>>
UnterminatedComment ==
  /\ Reading /\ Opens("/", "*")
  /\ Closings = {}
  /\ Refuse("unterminated block comment")

EmitWord(end, spelling) ==
  /\ Emit(IF spelling \in keywords THEN spelling ELSE "ident", spelling, end)
  /\ index' = end
  /\ column' = column + RunesBetween(text, index, end)
  /\ UNCHANGED line
Identifier ==
  /\ Meets(isIdentStart)
  /\ EmitWord(IdentifierEnd(text, index), Spelled(text, index, IdentifierEnd(text, index)))

EmitNumber(kind, numeral) ==
  /\ kind = "integer" => IsInteger(text, index, numeral)
  /\ Emit(kind, IF kind = "integer" THEN IntegerValue(text, index, numeral) ELSE 0,
          Suffixed(text, numeral))
  /\ MoveTo(Suffixed(text, numeral))
  /\ UNCHANGED line
Numeral == NumeralEnd(text, index)
Number ==
  /\ Meets(IsDigit)
  /\ Numeral # NoToken
  /\ EmitNumber(NumericKind(text, index, Numeral), Numeral)
InvalidNumber ==
  /\ Meets(IsDigit)
  /\ Numeral # NoToken =>
       /\ NumericKind(text, index, Numeral) = "integer"
       /\ ~ IsInteger(text, index, Numeral)
  /\ Refuse("invalid number")

IsQuote(rune) == rune = <<"\"">>
EmitString(end, escaped) ==
  /\ end # NoToken
  /\ Emit("string", StringText(text, index, end, escaped), end)
  /\ MoveTo(end)
  /\ UNCHANGED line
Closed(escaped) == StringEnd(text, StringStop(text, index, escaped), escaped)
String ==
  /\ Meets(IsQuote)
  /\ EmitString(Closed(Escaped(text, index)), Escaped(text, index))
InvalidString ==
  /\ Meets(IsQuote)
  /\ Closed(Escaped(text, index)) = NoToken
  /\ Refuse("unterminated string or unsupported escape")

EmitSymbol(end) ==
  /\ Emit(Spelled(text, index, end), "", end)
  /\ MoveTo(end)
  /\ UNCHANGED line
Operator ==
  /\ Meets(isOperator)
  /\ ~ Opens("/", "/") /\ ~ Opens("/", "*")
  /\ EmitSymbol(tokenizeOperator(text, index))
Delimiter ==
  /\ Meets(isDelimiter)
  /\ EmitSymbol(tokenizeDelimiter(text, index))

\* Mutant of Recognized: the switch has no default.
RecognizedAlways(rune) == TRUE
Recognized(rune) ==
  \/ IsSpace(rune) \/ isIdentPart(rune) \/ IsQuote(rune)
  \/ isOperator(rune) \/ isDelimiter(rune)
Unrecognized ==
  /\ Meets(LAMBDA rune : ~ Recognized(rune))
  /\ Refuse("unrecognized symbol")

EndOfText ==
  /\ Reading /\ index = Len(text) + 1
  /\ Emit("EOF", "", index)
  /\ UNCHANGED <<index, line, column>>

Init ==
  /\ text \in Texts
  /\ index = 1 /\ line = 1 /\ column = 1
  /\ tokens = <<>> /\ refusal = <<>>

Next ==
  \/ NewlineToken \/ Blank \/ LineComment \/ BlockComment \/ UnterminatedComment
  \/ Identifier \/ Number \/ InvalidNumber \/ String \/ InvalidString
  \/ Operator \/ Delimiter \/ Unrecognized \/ EndOfText

Spec == Init /\ [][Next]_vars
FairSpec == Spec /\ WF_vars(Next)
=============================================================================
