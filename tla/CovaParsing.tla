----------------------------- MODULE CovaParsing -----------------------------
(***************************************************************************)
(* A script is written, changed and parsed.                                *)
(***************************************************************************)
EXTENDS CovaWriting

CONSTANT
  Drafts            \* what is written, see Sketch and WritingOf

VARIABLES
  draft,            \* one of them
  text,             \* the tokens so far
  parsed            \* what the parser makes of them

vars == <<draft, text, parsed>>

(***************************************************************************)
(* A sketch is a beginning, to which some words are added up to a length.  *)
(* A writing is the text of a program, in which some words may be put in   *)
(* the place of others.                                                    *)
(***************************************************************************)
Draft(program, tokens, words, length) ==
  [program |-> program, text |-> tokens, words |-> words, length |-> length]
Sketch(tokens, words, length) == Draft(<<>>, tokens, words, length)
WritingOf(program, words) == Draft(<<program>>, WrittenProgram(program), words, 0)
IsWriting == draft.program # <<>>

Init ==
  /\ draft \in Range(Drafts)
  /\ text = draft.text
  /\ parsed = Parse(text)

\* A word more, as long as the text begins a program.
NextWords ==
  IF parsed.err \in {0, Len(text) + 1} \/ BeginsText(DocumentedGrammar, text)
       \/ BeginsText(AcceptedGrammar, text)
  THEN draft.words ELSE {}
WriteWord ==
  /\ Len(text) < draft.length
  /\ \E word \in NextWords : text' = Append(text, word)
  /\ parsed' = Parse(text')
  /\ UNCHANGED draft

\* One token of a writing is left out, or another put in its place.
ChangeWord ==
  /\ IsWriting /\ text = draft.text
  /\ \E k \in DOMAIN text, word \in draft.words :
       text' \in {RemoveAt(text, k), ReplaceAt(text, k, word)}
  /\ parsed' = Parse(text')
  /\ UNCHANGED draft

\* A line of a writing ends before some token.
BreakLine ==
  /\ IsWriting /\ text = draft.text
  /\ \E k \in DOMAIN text : text' = InsertAt(text, k, Word("newline"))
  /\ parsed' = Parse(text')
  /\ UNCHANGED draft

Next == WriteWord \/ ChangeWord \/ BreakLine

Spec == Init /\ [][Next]_vars

-----------------------------------------------------------------------------
(***************************************************************************)
(* A program is read as it was written: its trees come back from their     *)
(* tokens, every operator with the operands its precedence gives it, every *)
(* else with the nearest if, every declaration with its segment.           *)
(***************************************************************************)
ReadAsWritten ==
  IsWriting /\ text = draft.text => parsed = draft.program[1]

(***************************************************************************)
(* The parser accepts the texts of the language and no other, which is the *)
(* documented one but for the forms of AcceptedInstead.                    *)
(***************************************************************************)
AcceptsTheLanguage == parsed.err = 0 <=> InLanguage(AcceptedGrammar, text)

(***************************************************************************)
(* A refusal names the first token with which the text cannot be that of a *)
(* program any more; but a wrong assignment or a variable of type void is  *)
(* named by its first token.                                               *)
(***************************************************************************)
FirstWrong(k) ==
  /\ BeginsText(AcceptedGrammar, SubSeq(text, 1, k - 1))
  /\ k > Len(text) \/ ~ BeginsText(AcceptedGrammar, SubSeq(text, 1, k))
RefusedWhereItGoesWrong ==
  parsed.err # 0 =>
    \/ FirstWrong(parsed.err)
    \/ \E k \in parsed.err + 1 .. Len(text) + 1 :
         /\ FirstWrong(k)
         /\ text[parsed.err].kind \notin {"void", "const"} =>
              k <= Len(text) /\ text[k].kind \in assignmentOps

\* Where a line ends is nothing to the parser.
LinesDoNotMatter ==
  [][BreakLine => /\ parsed'.err = 0 <=> parsed.err = 0
                  /\ parsed'.decls = parsed.decls
                  /\ parsed'.functions = parsed.functions]_vars
=============================================================================
