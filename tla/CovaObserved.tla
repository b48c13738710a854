----------------------------- MODULE CovaObserved ----------------------------
(***************************************************************************)
(* A source program as its host sees it: the extern calls it means, one    *)
(* after the other, and the end it means.                                  *)
(***************************************************************************)
EXTENDS CovaMeaning

CONSTANT Units      \* the programs, a sequence of Unit

VARIABLES
  unit,             \* one of them
  meant,            \* what it means, fixed at the start
  shown,            \* the extern calls seen so far
  outcome           \* how it ended, empty while it runs

vars == <<unit, meant, shown, outcome>>

Init ==
  /\ unit \in Range(Units)
  /\ meant = Meaning(unit)
  /\ shown = <<>>
  /\ outcome = <<>>

ShowCall ==
  /\ Len(shown) < Len(meant.events)
  /\ shown' = Append(shown, meant.events[Len(shown) + 1])
  /\ UNCHANGED <<unit, meant, outcome>>

End ==
  /\ outcome = <<>>
  /\ shown = meant.events
  /\ outcome' = <<meant.outcome>>
  /\ UNCHANGED <<unit, meant, shown>>

Next == ShowCall \/ End

Spec == Init /\ [][Next]_vars /\ WF_vars(Next)
=============================================================================
