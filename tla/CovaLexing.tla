----------------------------- MODULE CovaLexing -----------------------------
(***************************************************************************)
(* What is right about the tokens of a text.                               *)
(***************************************************************************)
EXTENDS CovaLexer

(***************************************************************************)
(* The lexer divides the text as CovaWords promises: nothing of the text   *)
(* is lost or read twice, what lies between the tokens is blank or a       *)
(* comment, every token is as long as it can be and of the kind it looks   *)
(* like, and the text is refused only where no token can be.               *)
(***************************************************************************)
Blanks == SpaceRunes \ Runes(LineEnds)
Symbols ==
  LongOperators \cup PairOperators \cup Runes(OperatorCharacters) \cup {Ellipsis}
    \cup PairDelimiters \cup Runes(DelimiterCharacters)
WordOf(token) == <<token.offset, token.offset + token.length - 1, token.kind>>
WordsOf(list) == [k \in DOMAIN list |-> WordOf(list[k])]
TokensRead ==
  IF tokens # <<>> /\ Last(tokens).length = 0 THEN Front(tokens) ELSE tokens
Words == INSTANCE CovaWords
  WITH Letters <- LetterRunes,
       Blanks <- Blanks,
       Keywords <- keywords,
       Symbols <- Symbols,
       Name <- Joined,
       Value <- ValueOf,
       Largest <- MaxInteger,
       place <- index,
       words <- WordsOf(TokensRead),
       refused <- refusal # <<>>
ImplementsWords == Words!Spec

\* Every text is read to its end or refused.
Finishes == <>(~ Reading)

(***************************************************************************)
(* The line of a token is one more than the lines that end before it, and  *)
(* its column is the number of runes before it on its line; but the bytes  *)
(* of a rune in a string or a comment are counted one by one.              *)
(***************************************************************************)
EndsLine(t, k) ==
  t[k] = "\n" \/ (t[k] = "\r" /\ ~ (k < Len(t) /\ t[k + 1] = "\n"))
LineEndsBefore(t, k) == {j \in 1 .. k - 1 : EndsLine(t, j)}
LineStart(t, k) == Max({1} \cup {j + 1 : j \in LineEndsBefore(t, k)})
Covers(token, k) == k \in token.offset .. token.offset + token.length - 1
InWord(list, k) == \E n \in DOMAIN list : list[n].kind = "ident" /\ Covers(list[n], k)
InsideRunes(t, k) == {j \in LineStart(t, k) .. k - 1 : InsideRune(t, j)}
PositionTrue(t, list, k, atLine, atColumn) ==
  LET bytes == k - LineStart(t, k)
      runes == bytes - Cardinality(InsideRunes(t, k))
  IN  /\ atLine = 1 + Cardinality(LineEndsBefore(t, k))
      /\ atColumn \in 1 + runes .. 1 + bytes
      /\ (\A j \in InsideRunes(t, k) : InWord(list, j)) => atColumn = 1 + runes
PositionsTrue ==
  /\ \A n \in DOMAIN tokens :
       PositionTrue(text, tokens, tokens[n].offset, tokens[n].line, tokens[n].column)
  /\ refusal # <<>> => PositionTrue(text, tokens, index, refusal[2], refusal[3])

(***************************************************************************)
(* What begins with a quote is a string literal, and the text it stands    *)
(* for, written with the escapes it has, is what was read: no escape is    *)
(* lost, doubled or taken for another.  A tab may be written as an escape  *)
(* or as it is; a quote, a backslash and a line end have to be escaped.    *)
(***************************************************************************)
MustEscape == {"\"", "\\"} \cup LineEnds
Written(byte, isEscaped) ==
  IF isEscaped
  THEN <<"\\", CHOOSE escape \in DOMAIN Escapes : Escapes[escape] = byte>>
  ELSE <<byte>>
Spells(bytes, value) ==
  \E escaped \in SUBSET DOMAIN value :
    /\ \A k \in DOMAIN value : IF k \in escaped THEN value[k] \in Range(Escapes)
                                ELSE value[k] \notin MustEscape
    /\ bytes = FlattenSeq([k \in DOMAIN value |-> Written(value[k], k \in escaped)])
StringsDecoded ==
  \A n \in DOMAIN tokens :
    At(text, tokens[n].offset) = "\"" =>
      /\ tokens[n].kind = "string"
      /\ Spells(SubSeq(text, tokens[n].offset + 1, tokens[n].offset + tokens[n].length - 2),
                tokens[n].value)
=============================================================================
