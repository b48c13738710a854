---------------------------- MODULE CovaToolchain ----------------------------
(***************************************************************************)
(* From a parsed program to a linked one and its image: the whole of       *)
(* Compiler.Compile around the statement compiler, Linker.Link and         *)
(* BuildProgramImage (cova/compile.go, cova/link.go, cova/image.go).       *)
(*                                                                         *)
(* `unit` is the program; one step handles one declaration, function or    *)
(* block, or one edge of the call graph.  Function bodies are reduced to   *)
(* what the later stages see of them: calls, a loop, a call of a built-in, *)
(* a return, and the locals.  Line numbers and the 2^32 limits on          *)
(* addresses are left out.                                                 *)
(***************************************************************************)
EXTENDS CovaMemory, CovaAsm

CONSTANTS
  Units,              \* the programs to compile
  VariableCapacity,   \* Linker.VariableCapacity
  FunctionCapacity    \* Linker.FunctionCapacity

(***************************************************************************)
(* A unit is what the parser has accepted: internal variables and locals   *)
(* have a size, an initializer goes with static storage, only host-linked  *)
(* functions are declared.  `value` is the bits of a number or the text of *)
(* a string; the text of a call is what it passes for every string.        *)
(***************************************************************************)
SourceKinds == Kinds \ {"None", "Undefined"}
VariableScopes == {"Extern", "BSS", "Data", "Const"}
Initializers == {"none", "number", "string", "expression"}

IsSlots(slots) ==
  slots \in Seq({slots[i] : i \in DOMAIN slots})
    /\ \A i \in DOMAIN slots : slots[i].kind \in SourceKinds

IsDeclaration(d) ==
  /\ d.declares \in {"variable", "function"}
  /\ d.kind \in SourceKinds
  /\ d.scope \in VariableScopes
  /\ d.init \in Initializers
  /\ d.declares = "function" => d.scope = "Extern" /\ IsSlots(d.params)
  /\ d.scope = "Extern" => d.index \in Nat
  /\ d.scope # "Extern" => d.kind # "Void"
  /\ d.init # "none" => d.scope \in {"Data", "Const"}
  /\ d.init = "number" => d.value \in Nat
  /\ d.init = "string" => d.value \in Seq(Byte)

IsFunctionDefinition(f) ==
  /\ f.kind \in SourceKinds
  /\ IsSlots(f.params)
  /\ IsSlots(f.locals)
  /\ f.body \in Seq({f.body[i] : i \in DOMAIN f.body})
  /\ \A i \in DOMAIN f.body :
       /\ f.body[i].do \in {"call", "acos", "loop", "return"}
       /\ f.body[i].do = "call" => f.body[i].text \in Seq(Byte)

IsUnit(u) ==
  /\ u.decls \in Seq({u.decls[i] : i \in DOMAIN u.decls})
  /\ u.functions \in Seq({u.functions[i] : i \in DOMAIN u.functions})
  /\ \A i \in DOMAIN u.decls : IsDeclaration(u.decls[i])
  /\ \A i \in DOMAIN u.functions : IsFunctionDefinition(u.functions[i])

ASSUME UnitsAssumption == \A u \in Units : IsUnit(u)

BuiltInNames == {"abs", "sin", "cos", "tan", "asin", "acos", "atan", "pow",
                 "sqrt"}

VARIABLES
  unit,
  phase,
  at,         \* position in the list the phase goes through
  symbols,    \* the variables registered, a sequence per scope
  functions,  \* compiler.functions
  entryFunction, \* TempFuncID of script_main, NoEntry while !hasEntryFunction
  bssByteSize,
  dataImage,
  constImage,
  literals,   \* stringLiteralOffsets: offset of each string interned
  blocks,     \* compiled function bodies, in source order
  callGraph,  \* callGraphState of each block
  dfs,        \* the recursion of markReachable: <<block, next patch>> pairs
  output,     \* what assembleFunctionBlocks has put together
  linked,     \* the linked program
  result      \* the error, or the status of BuildProgramImage

vars == <<unit, phase, at, symbols, functions, entryFunction, bssByteSize,
          dataImage, constImage, literals, blocks, callGraph, dfs, output, linked, result>>

layout == <<symbols, bssByteSize>>
table == <<functions, entryFunction>>
images == <<dataImage, constImage, literals>>
backend == <<callGraph, dfs, output, linked>>

NoLink == <<>>
EntryName == "script_main"
NoEntry == -1

Init ==
  /\ unit \in Units
  /\ phase = "declare"
  /\ at = 1
  /\ symbols = [s \in VariableScopes |-> <<>>]
  /\ functions = <<>>
  /\ entryFunction = NoEntry
  /\ bssByteSize = 0
  /\ dataImage = <<>>
  /\ constImage = <<>>
  /\ literals = <<>>
  /\ blocks = <<>>
  /\ callGraph = <<>>
  /\ dfs = <<>>
  /\ output = [text |-> <<>>, patches |-> <<>>, retained |-> <<>>,
               usedExternals |-> <<>>, maxLocalSlots |-> 0, maxFrameByteSize |-> 0]
  /\ linked = NoLink
  /\ result = "none"

Fail(error) ==
  /\ phase' = "failed"
  /\ result' = error
  /\ UNCHANGED <<unit, at, layout, table, images, blocks, backend>>

Done(p, list) == phase = p /\ at > Len(list)
Item(p, list) == phase = p /\ at <= Len(list)
GoTo(p) == phase' = p /\ at' = 1
Forward == at' = at + 1 /\ UNCHANGED phase

-----------------------------------------------------------------------------
(***************************************************************************)
(* Registering declarations.                                               *)
(***************************************************************************)
Padded(image, size) ==
  IF size <= Len(image) THEN image ELSE image \o Zeros(size - Len(image))

Variables == UNION {{symbols[s][i] : i \in DOMAIN symbols[s]} : s \in VariableScopes}
NameTaken(name) ==
  \/ \E v \in Variables : v.name = name
  \/ \E i \in DOMAIN functions : functions[i].name = name

\* Where a variable goes: an extern one where the script says, the others at
\* the end of their segment, aligned.
VariableOffset(d) ==
  CASE d.scope = "Extern" -> d.index
    [] d.scope = "BSS" -> alignUp(bssByteSize, Alignment(d.kind))
    [] d.scope = "Data" -> alignUp(Len(dataImage), Alignment(d.kind))
    [] d.scope = "Const" -> alignUp(Len(constImage), Alignment(d.kind))

DeclareVariable(d) ==
  LET offset == VariableOffset(d)
      end == offset + Size(d.kind)
  IN  /\ symbols' = [symbols EXCEPT ![d.scope] =
                       Append(@, [name |-> d.name, kind |-> d.kind,
                                  offset |-> offset])]
      /\ bssByteSize' = IF d.scope = "BSS" THEN end ELSE bssByteSize
      /\ dataImage' = IF d.scope = "Data" THEN Padded(dataImage, end) ELSE dataImage
      /\ constImage' = IF d.scope = "Const" THEN Padded(constImage, end) ELSE constImage
      /\ UNCHANGED functions

\* tempFuncID counts the functions, extern ones included.
FunctionBinding(f, scope, slot) ==
  [name |-> f.name, id |-> Len(functions), scope |-> scope, slot |-> slot,
   returnKind |-> f.kind, paramKinds |-> [i \in DOMAIN f.params |-> f.params[i].kind],
   paramOffsets |-> <<>>, slotCount |-> 0, frameByteSize |-> 0, address |-> 0]

DeclareExternFunction(d) ==
  /\ functions' = Append(functions, FunctionBinding(d, "Extern", d.index))
  /\ UNCHANGED <<layout, dataImage, constImage>>

RegisterDecl ==
  /\ Item("declare", unit.decls)
  /\ unit.functions # <<>>
  /\ LET d == unit.decls[at]
     IN  \/ d.name \in BuiltInNames /\ Fail("reserved name")
         \/ d.name \notin BuiltInNames /\ NameTaken(d.name) /\ Fail("duplicate")
         \/ /\ d.name \notin BuiltInNames /\ ~NameTaken(d.name)
            /\ IF d.declares = "variable" THEN DeclareVariable(d)
                                          ELSE DeclareExternFunction(d)
            /\ Forward
            /\ UNCHANGED <<unit, entryFunction, literals, blocks, backend, result>>

-----------------------------------------------------------------------------
(***************************************************************************)
(* Initializers and string literals.  A string is appended to the CONST    *)
(* image, NUL-terminated, the first time it is met.                        *)
(***************************************************************************)
Interned(pool, s) ==
  IF s \in DOMAIN pool.offsets THEN pool
  ELSE [offsets |-> [t \in DOMAIN pool.offsets \cup {s} |->
                      IF t = s THEN Len(pool.image) ELSE pool.offsets[t]],
        image |-> pool.image \o s \o <<0>>]

SymbolNamed(scope, name) ==
  LET list == symbols[scope]
  IN  list[CHOOSE i \in DOMAIN list : list[i].name = name]

\* globalInitializerBits: what it refuses.
InitializerError(d) ==
  CASE d.init = "number" -> d.kind = "Address" /\ d.value # 0
    [] d.init = "string" -> d.kind # "Address"
    [] OTHER -> TRUE

InitializeGlobal ==
  /\ Item("initialize", unit.decls)
  /\ LET d == unit.decls[at]
         pool == [offsets |-> literals, image |-> constImage]
         interned == IF d.init = "string" THEN Interned(pool, d.value) ELSE pool
         bits == IF d.init = "string"
                 THEN makeAddress(segmentConst, interned.offsets[d.value])
                 ELSE d.value
         bytes == Encode(bits, Size(d.kind))
         offset == SymbolNamed(d.scope, d.name).offset
     IN  \/ /\ d.init = "none"
            /\ Forward
            /\ UNCHANGED <<unit, layout, table, images, blocks, backend, result>>
         \/ d.init # "none" /\ InitializerError(d) /\ Fail("initializer")
         \/ /\ d.init # "none" /\ ~InitializerError(d)
            /\ constImage' = IF d.scope = "Const"
                             THEN WriteBytes(interned.image, offset, bytes)
                             ELSE interned.image
            /\ dataImage' = IF d.scope = "Data"
                            THEN WriteBytes(dataImage, offset, bytes) ELSE dataImage
            /\ literals' = interned.offsets
            /\ Forward
            /\ UNCHANGED <<unit, layout, table, blocks, backend, result>>

RegisterFunction ==
  /\ Item("register", unit.functions)
  /\ LET f == unit.functions[at]
     IN  \/ f.name \in BuiltInNames /\ Fail("reserved name")
         \/ f.name \notin BuiltInNames /\ NameTaken(f.name) /\ Fail("duplicate")
         \/ /\ f.name \notin BuiltInNames /\ ~NameTaken(f.name)
            /\ functions' = Append(functions, FunctionBinding(f, "BSS", 0))
            /\ entryFunction' = IF f.name = EntryName THEN Len(functions)
                                                      ELSE entryFunction
            /\ Forward
            /\ UNCHANGED <<unit, layout, images, blocks, backend, result>>

FunctionNamed(name) ==
  functions[CHOOSE i \in DOMAIN functions : functions[i].name = name]
IsFunction(name) == \E i \in DOMAIN functions : functions[i].name = name

-----------------------------------------------------------------------------
(***************************************************************************)
(* Compiling a function.  Parameters and then locals get the next aligned  *)
(* offsets of the frame.                                                   *)
(***************************************************************************)
Frame(slots) ==
  LET end[i \in 0 .. Len(slots)] ==
        IF i = 0 THEN 0
        ELSE alignUp(end[i - 1], Alignment(slots[i].kind)) + Size(slots[i].kind)
  IN  [bytes |-> end[Len(slots)],
       offsets |-> [i \in 1 .. Len(slots) |->
                      alignUp(end[i - 1], Alignment(slots[i].kind))]]

DistinctNames(slots) ==
  \A i, j \in DOMAIN slots : slots[i].name = slots[j].name => i = j

LocalsAllowed(locals) ==
  DistinctNames(locals) /\ \A i \in DOMAIN locals : locals[i].kind # "Void"

\* What a statement compiles to.  A call pushes its arguments first, a string
\* for a pointer and a number for the other kinds; strings maps the texts of
\* the body to their offsets; a jump names the instruction it goes to.
CallCode(s, strings) ==
  LET callee == FunctionNamed(s.callee)
  IN  [k \in DOMAIN callee.paramKinds |->
         IF callee.paramKinds[k] = "Address"
         THEN Addr(segmentConst, strings[s.text]) ELSE Push(callee.paramKinds[k], 0)]
      \o <<IF callee.scope = "Extern" THEN CallExtern(callee.slot)
                                      ELSE Call(callee.id)>>

\* while (true) {} as instructions first, first + 1 and first + 2.
LoopCode(first) == <<Push("Bool", 1), JumpIfFalse(first + 3), Jump(first)>>

CodeLength(s) ==
  CASE s.do = "call" -> Len(FunctionNamed(s.callee).paramKinds) + 1
    [] s.do = "acos" -> 2
    [] s.do = "loop" -> 3
    [] s.do = "return" -> 1
FirstInstruction(body, i) ==
  LET before[k \in 0 .. Len(body)] ==
        IF k = 0 THEN 0 ELSE before[k - 1] + CodeLength(body[k])
  IN  1 + before[i - 1]

BodyCode(body, strings) ==
  FlattenSeq([i \in DOMAIN body |->
    CASE body[i].do = "call" -> CallCode(body[i], strings)
      [] body[i].do = "acos" -> <<Push("Float64", 0), BuiltIn("Acos", "Float64")>>
      [] body[i].do = "loop" -> LoopCode(FirstInstruction(body, i))
      [] body[i].do = "return" -> <<Ret>>])

\* The strings of a body in the order they are met.
Strings(body) ==
  FlattenSeq([i \in DOMAIN body |->
    IF body[i].do # "call" THEN <<>>
    ELSE LET kinds == FunctionNamed(body[i].callee).paramKinds
         IN  [k \in 1 .. Cardinality({l \in DOMAIN kinds : kinds[l] = "Address"}) |->
                body[i].text]])

CallsExtern(s) == s.do = "call" /\ FunctionNamed(s.callee).scope = "Extern"
\* Mutant of ExternCalls: the slots instead of the function IDs.
ExternSlots(body) ==
  FlattenSeq([i \in DOMAIN body |->
    IF CallsExtern(body[i]) THEN <<FunctionNamed(body[i].callee).slot>> ELSE <<>>])
\* The extern functions a body calls (usedExternalFunctionIDs).
ExternCalls(body) ==
  FlattenSeq([i \in DOMAIN body |->
    IF CallsExtern(body[i]) THEN <<FunctionNamed(body[i].callee).id>> ELSE <<>>])

\* The operands of the instructions with these opcodes, in code order: the
\* patches emitOpWithOperand and the call expression record.
Operands(code, ops) ==
  FlattenSeq([k \in DOMAIN code |->
    IF code[k].op \in ops
    THEN <<[op |-> code[k].op, pos |-> At(code, k) + 2, id |-> code[k].operand]>>
    ELSE <<>>])

\* The strings of its body are interned.
Interning(f) ==
  LET texts == Strings(f.body)
      pool[k \in 0 .. Len(texts)] ==
        IF k = 0 THEN [offsets |-> literals, image |-> constImage]
                 ELSE Interned(pool[k - 1], texts[k])
  IN  pool[Len(texts)]

\* What is kept of a compiled function.
CompiledBlock(f, frame, code) ==
  [binding |-> [FunctionNamed(f.name) EXCEPT
     !.paramOffsets = SubSeq(frame.offsets, 1, Len(f.params)),
     !.slotCount = Len(f.params) + Len(f.locals),
     !.frameByteSize = frame.bytes],
   code |-> Text(code),
   calls |-> Operands(code, {"Call"}),
   jumps |-> Operands(code, {"Jump", "JumpIfFalse"}),
   externals |-> ExternCalls(f.body)]

\* (\E over one value names it, computed once.)
CompileFunction ==
  /\ Item("compile", unit.functions)
  /\ LET f == unit.functions[at]
     IN  \/ ~DistinctNames(f.params) /\ Fail("duplicate parameter")
         \/ /\ DistinctNames(f.params)
            /\ ~LocalsAllowed(f.locals)
            /\ Fail("local")
         \/ /\ DistinctNames(f.params) /\ LocalsAllowed(f.locals)
            /\ \E i \in DOMAIN f.body : f.body[i].do = "call"
                                          /\ ~IsFunction(f.body[i].callee)
            /\ Fail("unknown function")
         \/ /\ DistinctNames(f.params) /\ LocalsAllowed(f.locals)
            /\ \A i \in DOMAIN f.body : f.body[i].do = "call"
                                          => IsFunction(f.body[i].callee)
            /\ \E interned \in {Interning(f)} :
                 /\ \E code \in {WithEpilogue(BodyCode(f.body, interned.offsets))} :
                      blocks' = Append(blocks, CompiledBlock(f, Frame(f.params \o f.locals), code))
                 /\ literals' = interned.offsets
                 /\ constImage' = interned.image
            /\ Forward
            /\ UNCHANGED <<unit, layout, table, dataImage, backend, result>>

-----------------------------------------------------------------------------
(***************************************************************************)
(* markReachable: depth first from the entry function along the calls.     *)
(***************************************************************************)
BlockOf(id) == CHOOSE i \in DOMAIN blocks : blocks[i].binding.id = id

StartMarking ==
  /\ phase = "compile" /\ at > Len(unit.functions)
  /\ LET entry == BlockOf(entryFunction)
     IN  /\ callGraph' = [i \in DOMAIN blocks |->
                            IF i = entry THEN "Visiting" ELSE "Unvisited"]
         /\ dfs' = <<<<entry, 1>>>>
  /\ GoTo("mark")
  /\ UNCHANGED <<unit, layout, table, images, blocks, output, linked, result>>

FollowCall ==
  /\ phase = "mark" /\ dfs # <<>>
  /\ LET block == Last(dfs)[1]
         next == Last(dfs)[2]
         advanced == [dfs EXCEPT ![Len(dfs)] = <<block, next + 1>>]
     IN  /\ next <= Len(blocks[block].calls)
         /\ LET callee == BlockOf(blocks[block].calls[next].id)
            IN  \/ callGraph[callee] = "Visiting" /\ Fail("recursion")
                \/ /\ callGraph[callee] = "Visited"
                   /\ dfs' = advanced
                   /\ UNCHANGED <<unit, phase, at, layout, table, images,
                                  blocks, callGraph, output, linked, result>>
                \/ /\ callGraph[callee] = "Unvisited"
                   /\ dfs' = Append(advanced, <<callee, 1>>)
                   /\ callGraph' = [callGraph EXCEPT ![callee] = "Visiting"]
                   /\ UNCHANGED <<unit, phase, at, layout, table, images,
                                  blocks, output, linked, result>>

\* Mutants of LeaveBlock: the block stays marked as being visited; the whole
\* traversal returns; nothing returns.
LeaveBlockUnmarked ==
  /\ phase = "mark" /\ dfs # <<>>
  /\ Last(dfs)[2] > Len(blocks[Last(dfs)[1]].calls)
  /\ dfs' = Front(dfs)
  /\ UNCHANGED <<unit, phase, at, layout, table, images, blocks, callGraph,
                 output, linked, result>>
LeaveTraversal ==
  /\ phase = "mark" /\ dfs # <<>>
  /\ Last(dfs)[2] > Len(blocks[Last(dfs)[1]].calls)
  /\ callGraph' = [callGraph EXCEPT ![Last(dfs)[1]] = "Visited"]
  /\ dfs' = <<>>
  /\ UNCHANGED <<unit, phase, at, layout, table, images, blocks, output,
                 linked, result>>
StayInBlock ==
  /\ phase = "mark" /\ dfs # <<>>
  /\ Last(dfs)[2] > Len(blocks[Last(dfs)[1]].calls)
  /\ callGraph' = [callGraph EXCEPT ![Last(dfs)[1]] = "Visited"]
  /\ UNCHANGED <<unit, phase, at, layout, table, images, blocks, dfs, output,
                 linked, result>>
LeaveBlock ==
  /\ phase = "mark" /\ dfs # <<>>
  /\ Last(dfs)[2] > Len(blocks[Last(dfs)[1]].calls)
  /\ callGraph' = [callGraph EXCEPT ![Last(dfs)[1]] = "Visited"]
  /\ dfs' = Front(dfs)
  /\ UNCHANGED <<unit, phase, at, layout, table, images, blocks, output,
                 linked, result>>

-----------------------------------------------------------------------------
(***************************************************************************)
(* assembleFunctionBlocks: the visited blocks one behind the other, their  *)
(* jumps relocated and their call patches moved.                           *)
(***************************************************************************)
\* PatchUint32 of value[i] at the position of patches[i], for every i;
\* positions are those of operands, two bytes into their instruction.
Patched(text, patches, value) ==
  [a \in DOMAIN text |->
     IF \E i \in DOMAIN patches : patches[i].pos = a + 1
     THEN [text[a] EXCEPT !.operand =
             value[CHOOSE i \in DOMAIN patches : patches[i].pos = a + 1]]
     ELSE text[a]]

\* Mutant of Relocated: jumps keep their place in the block.
RelocatedNowhere(block, base) == block.code
Relocated(block, base) ==
  Patched(block.code, block.jumps,
          [i \in DOMAIN block.jumps |->
             block.code[block.jumps[i].pos - 1].operand + base])

Larger(a, b) == IF a < b THEN b ELSE a

\* The functions of a scope, in order.
OfScope(list, scope) ==
  FlattenSeq([i \in DOMAIN list |->
    IF list[i].scope = scope THEN <<list[i]>> ELSE <<>>])

\* usedExternalFunctionIDs of a block joined to those of the ones before it.
Joined(used, ids) ==
  LET join[k \in 0 .. Len(ids)] ==
        IF k = 0 THEN used
        ELSE LET before == join[k - 1]
             IN  IF Contains(before, ids[k]) THEN before ELSE Append(before, ids[k])
  IN  join[Len(ids)]

StartAssembling ==
  /\ phase = "mark" /\ dfs = <<>>
  /\ output' = [output EXCEPT !.retained = OfScope(functions, "Extern")]
  /\ GoTo("assemble")
  /\ UNCHANGED <<unit, layout, table, images, blocks, callGraph, dfs, linked,
                 result>>

AssembleBlock ==
  /\ Item("assemble", blocks)
  /\ LET block == blocks[at]
         base == Len(output.text)
     IN  output' =
           IF callGraph[at] # "Visited" THEN output
           ELSE [text |-> output.text \o Relocated(block, base),
                 patches |-> output.patches
                   \o [i \in DOMAIN block.calls |->
                         [block.calls[i] EXCEPT !.pos = @ + base]],
                 retained |-> Append(output.retained,
                                [block.binding EXCEPT !.address = base]),
                 usedExternals |-> Joined(output.usedExternals, block.externals),
                 maxLocalSlots |->
                   Larger(output.maxLocalSlots, block.binding.slotCount),
                 maxFrameByteSize |->
                   Larger(output.maxFrameByteSize, block.binding.frameByteSize)]
  /\ Forward
  /\ UNCHANGED <<unit, layout, table, images, blocks, callGraph, dfs, linked,
                 result>>

-----------------------------------------------------------------------------
(***************************************************************************)
(* Linker.Link.                                                            *)
(***************************************************************************)
ExternMisplaced(v) == v.offset + Size(v.kind) > VariableCapacity
ExternMisaligned(v) == v.offset % Alignment(v.kind) # 0

\* The errors of the loop over the functions, in their order.
BindingError(f) ==
  IF f.scope = "Extern"
  THEN IF f.slot >= FunctionCapacity THEN "slot" ELSE "none"
  ELSE IF \E i \in DOMAIN f.paramKinds : f.paramKinds[i] \in {"None", "Void"}
  THEN "parameter kind" ELSE "none"

LocalFunctions == OfScope(functions, "BSS")

\* Index of a function in the linked table, -1 if it is not there.
LinkedIndex(id) ==
  IF \E i \in DOMAIN LocalFunctions : LocalFunctions[i].id = id
  THEN (CHOOSE i \in DOMAIN LocalFunctions : LocalFunctions[i].id = id) - 1
  ELSE -1

\* Mutant of PoolStart: past the function's own parameters.
PoolEnd(i) == Len(FlattenSeq([k \in 1 .. i |-> LocalFunctions[k].paramKinds]))
PoolStart(i) == Len(FlattenSeq([k \in 1 .. i - 1 |-> LocalFunctions[k].paramKinds]))

LinkError ==
  LET externs == symbols["Extern"]
      bad == {i \in DOMAIN functions : BindingError(functions[i]) # "none"}
      unresolved == {i \in DOMAIN output.patches : LinkedIndex(output.patches[i].id) = -1}
  IN  IF \E i \in DOMAIN externs :
           ExternMisplaced(externs[i]) \/ ExternMisaligned(externs[i])
      THEN "extern variable"
      ELSE IF bad # {}
      THEN BindingError(functions[CHOOSE i \in bad : \A j \in bad : i <= j])
      ELSE IF unresolved # {} THEN "unresolved function"
      ELSE IF LinkedIndex(entryFunction) = -1 THEN "entry"
      ELSE "none"

LinkedProgram ==
  [text |-> Patched(output.text, output.patches,
                    [i \in DOMAIN output.patches |->
                       LinkedIndex(output.patches[i].id)]),
   functions |-> [i \in DOMAIN LocalFunctions |->
     LET f == LocalFunctions[i]
     IN  [bodyAddress |-> f.address, paramStart |-> PoolStart(i),
          paramCount |-> Len(f.paramKinds), frameByteSize |-> f.frameByteSize,
          returnKind |-> f.returnKind]],
   paramKinds |-> FlattenSeq([i \in DOMAIN LocalFunctions |->
                                LocalFunctions[i].paramKinds]),
   paramOffsets |-> FlattenSeq([i \in DOMAIN LocalFunctions |->
                                  LocalFunctions[i].paramOffsets]),
   entryPoint |-> LinkedIndex(entryFunction),
   bssByteSize |-> bssByteSize,
   constByteSize |-> Len(constImage), constData |-> constImage,
   dataByteSize |-> Len(dataImage), dataData |-> dataImage,
   frameSize |-> output.maxLocalSlots,
   frameByteSize |-> output.maxFrameByteSize]

\* The compiler hands its retained functions to the linker.
FinishAssembling ==
  /\ phase = "assemble" /\ at > Len(blocks)
  /\ functions' = output.retained
  /\ GoTo("link")
  /\ UNCHANGED <<unit, layout, entryFunction, images, blocks, backend, result>>

Link ==
  /\ phase = "link"
  /\ \/ LinkError # "none" /\ Fail(LinkError)
     \/ /\ LinkError = "none"
        /\ linked' = LinkedProgram
        /\ GoTo("image")
        /\ UNCHANGED <<unit, layout, table, images, blocks, callGraph, dfs,
                       output, result>>

-----------------------------------------------------------------------------
(***************************************************************************)
(* BuildProgramImage: linkedProgramToImage and validateProgramImage on a   *)
(* linked program, whose kinds are all defined.                            *)
(***************************************************************************)
FunctionImageStatus(p, f) ==
  IF f.bodyAddress >= Len(p.text) THEN "InvalidDescriptor"
  ELSE IF \/ f.paramStart > Len(p.paramKinds)
          \/ f.paramCount > Len(p.paramKinds) - f.paramStart
          \/ f.paramStart + f.paramCount > p.frameSize
  THEN "InvalidParameter"
  ELSE IF f.frameByteSize > p.frameByteSize THEN "InvalidDescriptor" ELSE "OK"

ImageStatus(p) ==
  IF p.constByteSize # Len(p.constData) \/ p.dataByteSize # Len(p.dataData)
  THEN "InvalidImage"
  ELSE IF p.entryPoint >= Len(p.functions) THEN "InvalidDescriptor"
  ELSE IF Len(p.paramKinds) # Len(p.paramOffsets) THEN "InvalidParameter"
  ELSE LET bad == {i \in DOMAIN p.functions :
                     FunctionImageStatus(p, p.functions[i]) # "OK"}
       IN  IF bad = {} THEN "OK"
           ELSE FunctionImageStatus(p,
                  p.functions[CHOOSE i \in bad : \A j \in bad : i <= j])

BuildProgramImage ==
  /\ phase = "image"
  /\ result' = ImageStatus(linked)
  /\ GoTo("done")
  /\ UNCHANGED <<unit, layout, table, images, blocks, backend>>

-----------------------------------------------------------------------------
\* From one loop of Compile to the next.
NextPhase ==
  \/ phase = "declare" /\ unit.functions = <<>> /\ Fail("no function definitions")
  \/ /\ Done("register", unit.functions)
     /\ entryFunction = NoEntry
     /\ Fail("no entry function")
  \/ /\ \/ /\ Done("declare", unit.decls) /\ unit.functions # <<>>
           /\ GoTo("initialize")
        \/ Done("initialize", unit.decls) /\ GoTo("register")
        \/ /\ Done("register", unit.functions) /\ entryFunction # NoEntry
           /\ GoTo("compile")
     /\ UNCHANGED <<unit, layout, table, images, blocks, backend, result>>

Compile ==
  \/ RegisterDecl \/ InitializeGlobal \/ RegisterFunction \/ CompileFunction
  \/ StartMarking \/ FollowCall \/ LeaveBlock
  \/ StartAssembling \/ AssembleBlock \/ FinishAssembling

Next == Compile \/ NextPhase \/ Link \/ BuildProgramImage

Spec == Init /\ [][Next]_vars
=============================================================================
