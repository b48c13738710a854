------------------------------- MODULE MCLexer -------------------------------
(***************************************************************************)
(* Every text up to some length, over some alphabets.                      *)
(***************************************************************************)
EXTENDS CovaLexing

TextsOver(alphabet, length) == UNION {[1 .. n -> alphabet] : n \in 0 .. length}

Comments == TextsOver({"/", "*", "\n", "\r"}, 6) \cup TextsOver({"/", "*", "\n", "C3", "A0"}, 5)
Numerals ==
  TextsOver({"1", ".", "e", "+"}, 6) \cup TextsOver({"1", "9", "e", "f"}, 5)
    \cup TextsOver({"1", "E", "D", "-", " "}, 4)
Strings ==
  TextsOver({"\"", "\\", "n"}, 7) \cup TextsOver({"\"", "\\", "C3", "A0", "0"}, 4)
    \cup TextsOver({"\"", "\\", "\n", "/"}, 5)
    \cup TextsOver({"\"", "\\", "t", "\t"}, 5)
Names == TextsOver({"i", "f", "1", " "}, 5) \cup TextsOver({"a", "_", "C2", "C3", "A0", "D9"}, 4)
Marks == TextsOver({"<", ">", "=", "-"}, 5) \cup TextsOver({".", ":", "#", "&", "$", "VT"}, 4)
MCTexts == Comments \cup Numerals \cup Strings \cup Names \cup Marks
=============================================================================
