----------------------------- MODULE MCToolchain -----------------------------
(***************************************************************************)
(* The programs the toolchain is model-checked with.                       *)
(***************************************************************************)
EXTENDS CovaToolchainProperties

Slot(name, kind) == [name |-> name, kind |-> kind]
Variable(name, kind, scope, index, init, value) ==
  [declares |-> "variable", name |-> name, kind |-> kind, scope |-> scope,
   index |-> index, init |-> init, value |-> value]
ExternFunction(name, params, index) ==
  [declares |-> "function", name |-> name, kind |-> "Void", scope |-> "Extern",
   index |-> index, params |-> params, init |-> "none", value |-> 0]
Function(name, params, locals, body) ==
  [name |-> name, kind |-> "Void", params |-> params, locals |-> locals,
   body |-> body]
CallOf(name, text) == [do |-> "call", callee |-> name, text |-> text]
Loop == [do |-> "loop"]
Acos == [do |-> "acos"]
Return == [do |-> "return"]

-----------------------------------------------------------------------------
(* Every call graph of three functions, an extern call in one of them, a   *)
(* loop in another; parameters of all alignments.                          *)
Names == <<"helper", "script_main", "leaf">>
CallSets == SUBSET {1, 2, 3}
BodyCalling(callees) ==
  SetToSortSeq({k \in {1, 2, 3} : k \in callees}, <)
Calls(callees) ==
  LET list == BodyCalling(callees)
  IN  [i \in DOMAIN list |-> CallOf(Names[list[i]], <<1>>)]

GraphUnit(calls, main) ==
  [decls |-> <<ExternFunction("print", <<Slot("s", "Address")>>, 2),
               ExternFunction("beep", <<>>, 0)>>,
   functions |->
     <<Function("helper", <<Slot("a", "Byte"), Slot("b", "Int32")>>,
                <<Slot("x", "Float64")>>, Calls(calls[1])),
       Function("script_main", <<>>, main,
                Calls(calls[2]) \o <<CallOf("print", <<4, 2>>)>>),
       Function("leaf", <<Slot("a", "Int16")>>, <<>>,
                <<Loop>> \o Calls(calls[3]) \o <<CallOf("beep", <<>>)>>)>>]

GraphUnits ==
  {GraphUnit(calls, <<Slot("i", "Int32"), Slot("j", "Byte"), Slot("k", "Byte")>>) :
     calls \in [{1, 2, 3} -> CallSets]}

-----------------------------------------------------------------------------
(* Declarations: all triples of a palette that has each scope, alignment,  *)
(* kind of initializer, and what is refused.                               *)
Palette ==
  <<Variable("e1", "Int32", "Extern", 4, "none", 0),
    Variable("e2", "Int16", "Extern", 3, "none", 0),
    Variable("b1", "Byte", "BSS", -1, "none", 0),
    Variable("b2", "Int64", "BSS", -1, "none", 0),
    Variable("d1", "Byte", "Data", -1, "number", 23),
    Variable("d2", "Int32", "Data", -1, "number", 300),
    Variable("d3", "Address", "Data", -1, "string", <<4, 2>>),
    Variable("d4", "Byte", "Data", -1, "string", <<1>>),
    Variable("d5", "Int32", "Data", -1, "expression", 0),
    Variable("c1", "Int16", "Const", -1, "number", 9),
    Variable("c2", "Byte", "Const", -1, "none", 0),
    Variable("c3", "Address", "Const", -1, "string", <<3>>),
    Variable("sin", "Byte", "BSS", -1, "none", 0),
    ExternFunction("f", <<Slot("s", "Address")>>, 9)>>

Main(body) == Function("script_main", <<>>, <<>>, body)
LayoutUnits ==
  {[decls |-> <<Palette[i], Palette[j], Palette[k]>>,
    functions |-> <<Function("show", <<Slot("s", "Address")>>, <<>>, <<Return>>),
                    Main(<<CallOf("show", <<3>>), CallOf("show", <<5, 5, 5>>)>>)>>] :
     i, j, k \in DOMAIN Palette}

-----------------------------------------------------------------------------
(* What is refused elsewhere, and what should have been accepted.          *)
RefusedUnits ==
  {[decls |-> <<>>, functions |-> <<>>],
   [decls |-> <<>>, functions |-> <<Function("f", <<>>, <<>>, <<>>)>>],
   [decls |-> <<>>, functions |-> <<Main(<<CallOf("missing", <<>>)>>)>>],
   [decls |-> <<>>, functions |-> <<Main(<<>>), Main(<<>>)>>],
   [decls |-> <<>>, functions |-> <<Main(<<>>), Function("cos", <<>>, <<>>, <<>>)>>],
   [decls |-> <<>>, functions |->
      <<Function("script_main", <<Slot("a", "Byte"), Slot("a", "Byte")>>, <<>>, <<>>)>>],
   [decls |-> <<>>, functions |->
      <<Function("script_main", <<>>, <<Slot("a", "Void")>>, <<>>)>>],
   [decls |-> <<>>, functions |->
      <<Function("script_main", <<Slot("a", "Void")>>, <<>>, <<>>)>>],
   [decls |-> <<ExternFunction("f", <<>>, 9)>>, functions |-> <<Main(<<>>)>>],
   [decls |-> <<ExternFunction("script_main", <<>>, 0)>>,
    functions |-> <<Function("f", <<>>, <<>>, <<>>)>>],
   [decls |-> <<Variable("p", "Address", "Data", -1, "number", 1)>>,
    functions |-> <<Main(<<>>)>>],
   [decls |-> <<>>, functions |->
      <<Function("f", <<Slot("a", "Byte")>>, <<>>, <<Acos>>), Main(<<CallOf("f", <<>>)>>)>>]}
MCUnits == RefusedUnits \cup GraphUnits \cup LayoutUnits

\* Two functions with three parameters between them, a recursive one that
\* nobody calls, and a body that ends in a call of acos.
DocumentedUnits ==
  {[decls |-> <<>>,
    functions |-> <<Function("f", <<Slot("a", "Byte"), Slot("b", "Byte")>>, <<>>, <<>>),
                    Function("g", <<Slot("a", "Byte")>>, <<>>, <<>>),
                    Function("again", <<>>, <<>>, <<CallOf("again", <<>>)>>),
                    Main(<<CallOf("f", <<>>), CallOf("g", <<>>), Acos>>)>>]}
MCDocumentedUnits == DocumentedUnits
=============================================================================
