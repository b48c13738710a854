--------------------------- MODULE CovaStackTyping ---------------------------
(***************************************************************************)
(* What the machine's operand stack holds while compiled code runs, by     *)
(* kind: the code of one function is followed along every branch it could  *)
(* take, each instruction popping and pushing kinds instead of values      *)
(* (the pops and pushes of cova/vm.go).  A call is its effect: the kinds   *)
(* of the parameters off, the kind of the result on.                       *)
(***************************************************************************)
EXTENDS CovaCompiler

CONSTANTS
  Blocks,       \* the TypedBlocks to follow, a list for every unit
  StackBound    \* operands after which a path is not followed further

VARIABLES
  block,        \* one of them
  at,           \* position in its code, Returned at its end
  kinds         \* the kinds on the operand stack, the top last

vars == <<block, at, kinds>>

Returned == -1

KindsLeft(type) == SelectSeq(<<valueKindFromType(type)>>, hasStackValueKind)

\* What the calls of a script or extern function pop and push.
CallEffect(binding) ==
  [op |-> IF binding.scope = "Extern" THEN "CallExtern" ELSE "Call",
   index |-> binding.index,
   pops |-> [p \in DOMAIN binding.paramTypes |->
               valueKindFromType(binding.paramTypes[p])] \o <<>>,
   pushes |-> KindsLeft(binding.type)]

ParamSlots(f, offsets) ==
  {offsets[p] .. offsets[p] + Size(valueKindFromType(f.params[p].type)) - 1 :
     p \in DOMAIN offsets}

\* The compiled function f: its code, what it leaves, what its calls do.
TypedBlock(symbols, f, compiled) ==
  [err |-> compiled.err, code |-> compiled.code, result |-> KindsLeft(f.returnType),
   frameByteSize |-> compiled.frameByteSize,
   paramSlots |-> ParamSlots(f, compiled.paramOffsets),
   calls |-> {CallEffect(symbols[name]) : name \in
                {n \in DOMAIN symbols : symbols[n].declares = "function"}}]

instruction == block.code[at]

\* The call effect a call instruction has.
Effect(i) ==
  CHOOSE effect \in block.calls : effect.op = i.op /\ effect.index = i.operand

Pops(i) ==
  CASE i.op \in {"Push", "Addr", "Jump"} -> <<>>
    [] i.op \in {"Arithmetic", "Compare"} -> <<i.kind, i.kind>>
    [] i.op = "Convert" -> <<i.sub>>
    [] i.op = "BuiltIn" -> IF i.sub = "Pow" THEN <<i.kind, i.kind>> ELSE <<i.kind>>
    [] i.op = "Dereference" -> <<"Address">>
    [] i.op = "Assign" -> <<i.kind, "Address">>
    [] i.op = "JumpIfFalse" -> <<"Bool">>
    [] i.op = "Ret" -> block.result
    [] i.op \in {"Call", "CallExtern"} -> Effect(i).pops

Pushes(i) ==
  CASE i.op \in {"Push", "Arithmetic", "Convert", "BuiltIn", "Dereference"} -> <<i.kind>>
    [] i.op = "Compare" -> <<"Bool">>
    [] i.op = "Addr" -> <<"Address">>
    [] i.op \in {"Call", "CallExtern"} -> Effect(i).pushes
    [] i.op \in {"Assign", "JumpIfFalse", "Jump", "Ret"} -> <<>>

OperandsThere == IsSuffix(Pops(instruction), kinds)

Init ==
  /\ \E u \in DOMAIN Blocks : \E f \in DOMAIN Blocks[u] : block = Blocks[u][f]
  /\ at = 1
  /\ kinds = <<>>

\* The instruction's operands are replaced by its result.
Executes ==
  /\ at # Returned
  /\ Len(kinds) < StackBound
  /\ OperandsThere
  /\ kinds' = SubSeq(kinds, 1, Len(kinds) - Len(Pops(instruction)))
                \o Pushes(instruction)
  /\ UNCHANGED block

GoOn == Executes /\ instruction.op \notin {"Jump", "Ret"} /\ at' = at + 1
TakeJump ==
  /\ Executes
  /\ instruction.op \in {"Jump", "JumpIfFalse"}
  /\ at' = instruction.operand
Return == Executes /\ instruction.op = "Ret" /\ at' = Returned

Next == GoOn \/ TakeJump \/ Return

Spec == Init /\ [][Next]_vars

-----------------------------------------------------------------------------
(***************************************************************************)
(* Every instruction, on every path to it, finds operands of exactly the   *)
(* kinds it pops: the widths compileExprAs leaves are the widths the next  *)
(* handler expects, whatever conversions lie between.                      *)
(***************************************************************************)
OperandsInPlace == at # Returned => OperandsThere

(***************************************************************************)
(* Control stays within the function: each jump has been patched to an     *)
(* instruction of it, and no path runs off its end.                        *)
(***************************************************************************)
ControlStaysInside == at = Returned \/ at \in DOMAIN block.code

(***************************************************************************)
(* A function returns with its result and nothing else above what its      *)
(* caller had on the stack.                                                *)
(***************************************************************************)
NothingLeftBehind == at = Returned => kinds = <<>>

(***************************************************************************)
(* Compiling ends in code or an error, never in a panic of the compiler.   *)
(***************************************************************************)
NeverPanics == block.err # Panic

\* The frame bytes the instruction at k takes the address of, to read or
\* write the value of the instruction behind it; parameters included.
FrameAccess(code, k) ==
  code[k].operand .. code[k].operand + Size(code[k + 1].kind) - 1
FrameAccesses(code) ==
  {FrameAccess(code, k) : k \in {i \in DOMAIN code :
     code[i].op = "Addr" /\ code[i].segment = segmentFrame}}
(***************************************************************************)
(* Locals and parameters share no byte of the frame unless they are one    *)
(* variable, shadowing and padding between kinds of different sizes        *)
(* notwithstanding, and all lie in the frame the function declares.        *)
(***************************************************************************)
FrameSlotsDisjoint ==
  LET slots == FrameAccesses(block.code) \cup block.paramSlots
  IN  /\ \A s, t \in slots : s = t \/ s \cap t = {}
      /\ UNION slots \subseteq 0 .. block.frameByteSize - 1
=============================================================================
