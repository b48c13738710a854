----------------------------- MODULE CovaFolding -----------------------------
(***************************************************************************)
(* A program of one expression, wanted in a type, before and after it is   *)
(* folded: the initializer of a global if it is constant, otherwise what a *)
(* function returns.                                                       *)
(***************************************************************************)
EXTENDS CovaOptimizer

CONSTANTS
  FoldSources,      \* the expressions, see Source
  FoldSymbols,      \* the variables and functions they name
  FoldValues,       \* the values of the variables
  FoldAnswers       \* what the extern functions will answer

VARIABLES
  source,           \* one of them
  folded            \* what became of it: the optimizer, empty before

vars == <<source, folded>>

\* constant says that e is made of literals and operators only.
Source(e, kind, constant) == [expression |-> e, kind |-> kind, constant |-> constant]

M == INSTANCE CovaMeaning
Evaluated(e) ==
  M!Evaluate(M!StartOf(M!Unit(FoldSymbols, FoldValues, <<>>, FoldAnswers)), e, source.kind)

Init == source \in Range(FoldSources) /\ folded = <<>>

Declarations ==
  IF source.constant
  THEN <<GlobalDecl("value", NamedType(source.kind), source.expression, "Data")>> ELSE <<>>
Functions ==
  IF source.constant THEN <<>>
  ELSE <<FunctionNode("script_main", <<>>, NamedType(source.kind),
                      BlockStmt(<<ReturnStmt(source.expression)>>))>>

Fold ==
  /\ folded = <<>>
  /\ folded' = <<Optimize(FoldSymbols, Declarations, Functions)>>
  /\ UNCHANGED source
FoldedExpression ==
  IF source.constant THEN Rewritten(folded[1]).initializer
  ELSE Rewritten(folded[1]).body.statements[1].value

Next == Fold

Spec == Init /\ [][Next]_vars

-----------------------------------------------------------------------------
(***************************************************************************)
(* Folding changes neither the value of an expression, nor the extern      *)
(* calls made for it, nor the fault that ends it: the optimizer's types,   *)
(* conversions and arithmetic are those the program runs with.             *)
(***************************************************************************)
FoldedMeansSame ==
  folded # <<>> /\ folded[1].error = "none" =>
    Evaluated(FoldedExpression) = Evaluated(source.expression)

(***************************************************************************)
(* A constant expression is refused if and only if evaluating it divides   *)
(* by zero: what && and || never reach is not reported, the rest is.       *)
(***************************************************************************)
ZeroDivisionReported ==
  folded # <<>> /\ source.constant =>
    (folded[1].error # "none" <=> Evaluated(source.expression).status = "DivisionByZero")
=============================================================================
