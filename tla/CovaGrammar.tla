----------------------------- MODULE CovaGrammar -----------------------------
(***************************************************************************)
(* The language a script is written in: the compact grammar of             *)
(* docs/LANGUAGE.md as data, and the few rules in which the parser's       *)
(* language differs from it.                                               *)
(*                                                                         *)
(* A grammar gives every nonterminal the set of forms it may stand for; a  *)
(* form is a sequence of nonterminals and token kinds.  The repetitions    *)
(* and options of the document have nonterminals of their own.             *)
(***************************************************************************)
EXTENDS CovaParser

Listing(rest, item, separator) == rest :> {<<>>, separator \o <<item, rest>>}
\* One level of binary operators over the next.
Level(name, next, ops) ==
  name :> {<<next, name \o "*">>} @@
  (name \o "*") :> {<<>>} \cup {<<op, next, name \o "*">> : op \in ops}

DocumentedDeclarations ==
  "program" :> {<<>>, <<"extern_decl", "program">>, <<"global_decl", "program">>,
                <<"function_decl", "program">>} @@
  "extern_decl" :> {<<"extern", "(", "number", ")", "type", "ident", "extern_tail", ";">>} @@
  "extern_tail" :> {<<>>, <<"(", "param_list", ")">>} @@
  "global_decl" :> {<<"type", "ident", "initializer", ";">>} @@
  "initializer" :> {<<>>, <<"=", "expr">>} @@
  "function_decl" :> {<<"type", "ident", "(", "param_list", ")", "block">>} @@
  "param_list" :> {<<>>, <<"type", "ident", "params">>} @@
  "params" :> {<<>>, <<",", "type", "ident", "params">>} @@
  "const?" :> {<<>>, <<"const">>} @@
  "type" :> {<<"const?", "named_type", "const?", "pointers">>} @@
  "pointers" :> {<<>>, <<"*", "const?", "pointers">>} @@
  "named_type" :> {<<name>> : name \in DOMAIN tokenTypes \ {"float"}}

AssignOps ==
  {"=", "+=", "-=", "*=", "/=", "%=", "<<=", ">>=", "&=", "^=", "|="}
DocumentedStatements ==
  "block" :> {<<"{", "stmts", "}">>} @@ Listing("stmts", "stmt", <<>>) @@
  "stmt" :> {<<"block">>, <<"local_decl">>, <<"if_stmt">>, <<"while_stmt">>, <<"for_stmt">>,
             <<"switch_stmt">>, <<"return_stmt">>, <<"break", ";">>, <<"continue", ";">>,
             <<"clause", ";">>} @@
  "if_stmt" :> {<<"if", "(", "expr", ")", "stmt", "else?">>} @@
  "else?" :> {<<>>, <<"else", "stmt">>} @@
  "while_stmt" :> {<<"while", "(", "expr", ")", "stmt">>} @@
  "for_stmt" :> {<<"for", "(", "clause?", ";", "expr?", ";", "clause?", ")", "stmt">>} @@
  "clause?" :> {<<>>, <<"clause">>} @@ "expr?" :> {<<>>, <<"expr">>} @@
  "switch_stmt" :> {<<"switch", "(", "expr", ")", "{", "switch_cases", "default?", "}">>} @@
  Listing("switch_cases", "switch_case", <<>>) @@
  "switch_case" :> {<<"case", "expr", ":", "stmts">>} @@
  "default?" :> {<<>>, <<"default_case">>} @@
  "default_case" :> {<<"default", ":", "stmts">>} @@
  "return_stmt" :> {<<"return", "expr?", ";">>} @@
  "local_decl" :> {<<"const?", "type", "ident", "initializer", ";">>} @@
  "clause" :> {<<"lvalue", "assign_op", "expr">>, <<"expr">>} @@
  "lvalue" :> {<<"ident">>} @@
  "assign_op" :> {<<op>> : op \in AssignOps}

UnaryOps == {"!", "~", "-"}
DocumentedExpressions ==
  "expr" :> {<<"||-level">>} @@
  Level("||-level", "&&-level", {"||"}) @@ Level("&&-level", "|-level", {"&&"}) @@
  Level("|-level", "^-level", {"|"}) @@ Level("^-level", "&-level", {"^"}) @@
  Level("&-level", "equality", {"&"}) @@ Level("equality", "relational", {"==", "!="}) @@
  Level("relational", "shift", {"<", "<=", ">", ">="}) @@
  Level("shift", "additive", {"<<", ">>"}) @@
  Level("additive", "multiplicative", {"+", "-"}) @@
  Level("multiplicative", "unary", {"*", "/", "%"}) @@
  "unary" :> {<<"primary">>} \cup {<<op, "unary">> : op \in UnaryOps} @@
  "primary" :> {<<"operand">>, <<"call">>} @@
  "operand" :> {<<"true">>, <<"false">>, <<"number">>, <<"string">>, <<"ident">>,
                <<"(", "expr", ")">>} @@
  "number" :> {<<"integer">>, <<"Float32">>, <<"Float64">>} @@
  "call" :> {<<"ident", "(", "arg_list", ")">>} @@
  "arg_list" :> {<<>>, <<"expr", "args">>} @@ Listing("args", "expr", <<",">>)

DocumentedGrammar ==
  DocumentedDeclarations @@ DocumentedStatements @@ DocumentedExpressions

(***************************************************************************)
(* What the parser accepts instead:                                        *)
(*   - a unary operator is not applied to a call, unless parenthesised;    *)
(*   - a called or assigned identifier may be parenthesised;               *)
(*   - the clauses of a switch come in any order, and any number of them   *)
(*     is a default;                                                       *)
(*   - float is a type;                                                    *)
(*   - a variable of the script is not void, an extern not leadingly const;*)
(*   - an extern has an integer, a local one leading const at most.        *)
(***************************************************************************)
AcceptedInstead ==
  "unary" :> {<<"primary">>} \cup {<<op, "prefixed">> : op \in UnaryOps} @@
  "prefixed" :> {<<"operand">>} \cup {<<op, "prefixed">> : op \in UnaryOps} @@
  "call" :> {<<"lvalue", "(", "arg_list", ")">>} @@
  "lvalue" :> {<<"ident">>, <<"(", "lvalue", ")">>} @@
  "switch_cases" :> {<<>>, <<"switch_case", "switch_cases">>, <<"default_case", "switch_cases">>} @@
  "default?" :> {<<>>} @@
  "named_type" :> {<<name>> : name \in DOMAIN tokenTypes} @@
  "value_type" :> {<<name>> : name \in DOMAIN tokenTypes \ {"void"}} @@
  "variable_type" :> {<<"const?", "value_type", "const?", "pointers">>,
                      <<"const?", "void", "const?", "*", "const?", "pointers">>} @@
  "global_decl" :> {<<"variable_type", "ident", "initializer", ";">>} @@
  "local_decl" :> {<<"variable_type", "ident", "initializer", ";">>} @@
  "extern_decl" :> {<<"extern", "(", "integer", ")", "named_type", "const?", "pointers",
                      "ident", "extern_tail", ";">>}
AcceptedGrammar == AcceptedInstead @@ DocumentedGrammar

(***************************************************************************)
(* Where a text may end, if it begins after the first `from` of some token *)
(* kinds and a form stands for it; with `cut`, the text may also be cut    *)
(* off where the kinds are.                                                *)
(***************************************************************************)
RECURSIVE Ends(_, _, _, _, _)
EndsOfHead(grammar, kinds, cut, head, from) ==
  IF head \in DOMAIN grammar
  THEN UNION {Ends(grammar, kinds, cut, form, from) : form \in grammar[head]}
  ELSE {i \in {from + 1} : i <= Len(kinds) /\ kinds[i] = head}
Ends(grammar, kinds, cut, form, from) ==
  IF form = <<>> \/ (cut /\ from = Len(kinds)) THEN {from}
  ELSE UNION {Ends(grammar, kinds, cut, Tail(form), i) :
                i \in EndsOfHead(grammar, kinds, cut, Head(form), from)}

KindsOf(tokens) ==
  LET written == SelectSeq(tokens, LAMBDA t : t.kind # "newline")
  IN  [k \in DOMAIN written |-> written[k].kind] \o <<>>
ReadsWhole(grammar, kinds, cut) == Len(kinds) \in Ends(grammar, kinds, cut, <<"program">>, 0)
InLanguage(grammar, tokens) == ReadsWhole(grammar, KindsOf(tokens), FALSE)
BeginsText(grammar, tokens) == ReadsWhole(grammar, KindsOf(tokens), TRUE)
=============================================================================
