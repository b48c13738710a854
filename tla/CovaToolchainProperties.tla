----------------------- MODULE CovaToolchainProperties -----------------------
(***************************************************************************)
(* What makes the toolchain correct.                                       *)
(***************************************************************************)
EXTENDS CovaToolchain

Overlap(a, m, b, n) == a < b + n /\ b < a + m

\* No two variables of a segment share a byte, each is aligned and inside its
\* segment, and no string literal interned later, by an initializer or in a
\* function body, overlaps a constant or another string (registerTopLevelDecl,
\* internStringLiteral).
StorageDisjoint ==
  LET size == [s \in {"BSS", "Data", "Const"} |->
                 CASE s = "BSS" -> bssByteSize [] s = "Data" -> Len(dataImage)
                   [] s = "Const" -> Len(constImage)]
  IN  /\ \A s \in DOMAIN size : \A i, j \in DOMAIN symbols[s] :
           LET v == symbols[s][i]
               w == symbols[s][j]
           IN  /\ v.offset % Alignment(v.kind) = 0
               /\ v.offset + Size(v.kind) <= size[s]
               /\ Overlap(v.offset, Size(v.kind), w.offset, Size(w.kind)) => i = j
      /\ \A s, t \in DOMAIN literals :
           Overlap(literals[s], Len(s) + 1, literals[t], Len(t) + 1) => s = t
      /\ \A s \in DOMAIN literals : \A i \in DOMAIN symbols["Const"] :
           LET v == symbols["Const"][i]
           IN  ~Overlap(literals[s], Len(s) + 1, v.offset, Size(v.kind))

\* What an initializer wrote stays: in the linked program every initialized
\* variable has its value, as far as its kind holds it, a pointer the address
\* of its NUL-terminated string, and everything else of DATA is zero; and
\* every string a body uses is there.
InitializersSurvive ==
  linked # NoLink =>
    /\ \A i \in DOMAIN unit.decls :
         LET d == unit.decls[i]
             image == IF d.scope = "Const" THEN linked.constData ELSE linked.dataData
             bytes == ReadBytes(image, SymbolNamed(d.scope, d.name).offset,
                                Size(d.kind))
             text == AddressIndex(Decode(bytes))
         IN  CASE d.declares = "function" \/ d.scope \in {"Extern", "BSS"} -> TRUE
               [] d.init = "string" ->
                    /\ AddressSegment(Decode(bytes)) = segmentConst
                    /\ ReadBytes(linked.constData, text, Len(d.value) + 1)
                         = d.value \o <<0>>
               [] OTHER -> Decode(bytes)
                             = IF d.init = "none" THEN 0
                               ELSE d.value % Modulus(Size(d.kind))
    /\ \A i \in DOMAIN unit.functions : \A k \in DOMAIN unit.functions[i].body :
         LET s == unit.functions[i].body[k]
         IN  s.do = "call" /\ s.text \in DOMAIN literals =>
               ReadBytes(linked.constData, literals[s.text], Len(s.text) + 1)
                 = s.text \o <<0>>

-----------------------------------------------------------------------------
\* The call graph as the source has it, whatever markReachable did.
ScriptNames == {unit.functions[i].name : i \in DOMAIN unit.functions}
SourceBody(name) ==
  unit.functions[CHOOSE i \in DOMAIN unit.functions :
                   unit.functions[i].name = name].body
SourceCallees(name) ==
  LET body == SourceBody(name)
  IN  {body[k].callee : k \in {l \in DOMAIN body : body[l].do = "call"}}

ReachedFrom(names) ==
  LET callees == [f \in ScriptNames |-> ScriptNames \cap SourceCallees(f)]
      reached[n \in 0 .. Len(unit.functions)] ==
        IF n = 0 THEN names
        ELSE LET before == reached[n - 1]
             IN  before \cup UNION {callees[g] : g \in before}
  IN  reached[Len(unit.functions)]
Recursive(name) == name \in ReachedFrom(ScriptNames \cap SourceCallees(name))
LiveNames == ReachedFrom({EntryName})
Marked == phase \in {"assemble", "link", "image", "done"}

\* The traversal marks exactly the functions the entry function reaches, and
\* refuses a program exactly when one of those is recursive.
ReachabilityExact ==
  /\ Marked =>
       LET live == LiveNames
       IN  /\ \A i \in DOMAIN blocks :
                callGraph[i] = "Visited" <=> blocks[i].binding.name \in live
           /\ \A f \in live : ~Recursive(f)
  /\ result = "recursion" => \E f \in LiveNames : Recursive(f)

\* The code kept of each block, and where it went, counted from the blocks
\* alone.
LiveCode ==
  LET live == LiveNames
  IN  [i \in DOMAIN blocks |->
         IF blocks[i].binding.name \in live THEN blocks[i].code ELSE <<>>]
Base(list, i) == Len(FlattenSeq([k \in 1 .. i - 1 |-> list[k]]))

\* In the linked text a call names the table entry of the function its source
\* called, whose body is that function's code; a jump stays in its own block;
\* nothing of the code but these operands has changed.
CallsReachTheirCallee ==
  linked # NoLink =>
    LET names == LiveNames
        live == {i \in DOMAIN blocks : blocks[i].binding.name \in names}
        code == LiveCode
        base == [i \in 1 .. Len(blocks) + 1 |-> Base(code, i)] \o <<>>
    IN  /\ Len(linked.text) = base[Len(blocks) + 1]
        /\ \A i \in live : \A a \in DOMAIN blocks[i].code :
             LET old == blocks[i].code[a]
                 new == linked.text[base[i] + a]
             IN  CASE old.op = "Call" ->
                        \E j \in live :
                          /\ blocks[j].binding.id = old.operand
                          /\ linked.functions[new.operand + 1].bodyAddress = base[j]
                   [] old.op \in {"Jump", "JumpIfFalse"} ->
                        /\ new.operand \in base[i] .. base[i + 1] - 1
                        /\ new.operand - base[i] = old.operand
                   [] OTHER -> new = old

\* Linking a compiled program only fails for what the host does not provide:
\* it never finds a call to a function that was dropped, or no entry.
LinkNeverUnresolved == result \notin {"unresolved function", "entry"}

\* Every descriptor of a linked program passes the checks the machine makes
\* when it is called: code inside the text, parameters inside the pool, of a
\* size, inside the frame and apart from each other; and the descriptors
\* share the pool out among them.
DescriptorsAccepted ==
  linked # NoLink =>
    /\ Len(linked.paramKinds) = Len(linked.paramOffsets)
    /\ \A i \in DOMAIN linked.functions :
         LET f == linked.functions[i]
             size(k) == Size(linked.paramKinds[f.paramStart + k])
             offset(k) == linked.paramOffsets[f.paramStart + k]
         IN  /\ f.bodyAddress < Len(linked.text)
             /\ f.paramStart + f.paramCount
                  = IF i = Len(linked.functions) THEN Len(linked.paramKinds)
                    ELSE linked.functions[i + 1].paramStart
             /\ \A k \in 1 .. f.paramCount :
                  /\ size(k) # 0
                  /\ offset(k) + size(k) <= f.frameByteSize
                  /\ \A l \in 1 .. f.paramCount :
                       Overlap(offset(k), size(k), offset(l), size(l)) => k = l
             /\ f.frameByteSize <= linked.frameByteSize

\* The extern functions the link report calls used are those the retained
\* code calls, each once.
ExternUseReported ==
  linked # NoLink =>
    LET used == output.usedExternals
        live == LiveNames
        called == {f \in {functions[i] : i \in DOMAIN functions} :
                     f.scope = "Extern"
                       /\ \E g \in live : f.name \in SourceCallees(g)}
    IN  /\ \A i, j \in DOMAIN used : used[i] = used[j] => i = j
        /\ {used[i] : i \in DOMAIN used} = {f.id : f \in called}

-----------------------------------------------------------------------------
\* Compiling and linking end, cycles in the call graph included.
FairSpec == Spec /\ WF_vars(Next)
ToolchainEnds == <>(phase \in {"done", "failed"})

-----------------------------------------------------------------------------
(***************************************************************************)
(* What the repository says of a linked program and the code does not do:  *)
(* it can be made into an image (image_test.go builds one of whatever the  *)
(* linker returns); "Recursive script call cycles are rejected at compile  *)
(* time" (README.md); functions are independent blocks of code             *)
(* (docs/LANGUAGE.md), so that control never runs from the end of one into *)
(* the next: each ends in a return.                                        *)
(***************************************************************************)
ImageAccepted == result = "OK"
RecursionRejected == \A f \in ScriptNames : ~Recursive(f)
BlocksEndInReturn ==
  \A i \in DOMAIN blocks :
    LET code == blocks[i].code
    IN  Len(code) >= 2 /\ code[Len(code) - 1].op = "Ret"
LinkedAsDocumented ==
  phase = "done" => ImageAccepted /\ RecursionRejected /\ BlocksEndInReturn
=============================================================================
