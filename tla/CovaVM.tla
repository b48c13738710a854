------------------------------- MODULE CovaVM --------------------------------
(***************************************************************************)
(* The Go virtual machine (cova/vm.go): its lifecycle (load, reset, run),  *)
(* the instruction loop, script calls and returns, the stack API the host  *)
(* uses, and extern calls, during which the host's dispatcher runs and may *)
(* call the machine again.                                                 *)
(*                                                                         *)
(* Everything is one goroutine; what interleaves is the interpreter loop   *)
(* and the host.  `activations` is the stack of RunLoaded calls in         *)
(* progress, `inHost` says whether the host (outermost caller or           *)
(* dispatcher) or the innermost loop has control.  One instruction, or     *)
(* one call of the host API, is one step.                                  *)
(*                                                                         *)
(* Program text is decoded: position a + 1 of text holds the instruction   *)
(* whose first byte is at address a, for every address a of the code,      *)
(* because a jump may land anywhere.                                       *)
(* Of VMFaultInfo the model keeps Status, PC and HostStatus; Target,       *)
(* Required and Available are numbers for a message.                       *)
(***************************************************************************)
EXTENDS CovaArith, CovaMemory, SequencesExt

CONSTANTS
  Programs,           \* sequence of linked programs the host may load
  ReloadPrograms,     \* indices of those it may load over another one
  FrameCapacity,      \* VMConfig.FrameCapacity
  StackCapacity,      \* VMConfig.StackCapacity
  CallFrameCapacity,  \* VMConfig.CallFrameCapacity
  ExternBlocks,       \* byte blocks the host may bind as extern memory
  HostValues,         \* <<kind, bits>> pairs the host pushes
  HostPopKinds,       \* kinds the host pops
  HostStatuses,       \* statuses a dispatcher may return
  HostCalls,          \* API calls the host makes outside a run
  DispatcherCalls,    \* API calls a dispatcher makes during an extern call
  DispatcherSwallows, \* whether a dispatcher may return OK after a failed call
  MaxDepth            \* bound on nested RunLoaded calls

Instruction == [op : Opcodes, kind : Kinds, sub : STRING, segment : Byte,
                operand : Nat]

Descriptor == [bodyAddress : Nat, paramStart : Nat, paramCount : Nat,
               frameByteSize : Nat, returnKind : Kinds]

IsLinkedProgram(p) ==
  /\ p.text \in Seq(Instruction)
  /\ p.functions \in Seq(Descriptor)
  /\ p.paramKinds \in Seq(Kinds)
  /\ p.paramOffsets \in Seq(Nat)
  /\ p.entryPoint \in Nat
  /\ p.bssByteSize \in Nat
  /\ p.constByteSize \in Nat
  /\ p.constData \in Seq(Byte)
  /\ p.dataByteSize \in Nat
  /\ p.dataData \in Seq(Byte)

ApiCalls == {"load", "loadImage", "reset", "run", "push", "pop", "extern",
             "register"}

ASSUME ProgramsAssumption ==
  /\ \A p \in DOMAIN Programs : IsLinkedProgram(Programs[p])
  /\ DOMAIN Programs = 1 .. Len(Programs)
  /\ Len(Programs) \in Nat
  /\ ReloadPrograms \subseteq 1 .. Len(Programs)
ASSUME CapacityAssumption ==
  /\ FrameCapacity \in Nat
  /\ StackCapacity \in Nat
  /\ CallFrameCapacity \in Nat
  /\ MaxDepth \in Nat
ASSUME HostAssumption ==
  /\ ExternBlocks \subseteq Seq(Byte)
  /\ HostValues \subseteq Kinds \X Nat
  /\ HostPopKinds \subseteq Kinds
  /\ HostStatuses \subseteq Statuses
  /\ HostCalls \subseteq ApiCalls
  /\ DispatcherCalls \subseteq ApiCalls
  /\ DispatcherSwallows \in BOOLEAN

\* NewVMWithConfig makes at least one call frame.
MaxCallFrames == IF CallFrameCapacity < 1 THEN 1 ELSE CallFrameCapacity

NoProgram == 0
NoPC == -1

VARIABLES
  memory,         \* [Segments -> Seq(Byte)]
  pc,
  program,        \* index of the loaded program, NoProgram for nil
  dispatcher,     \* whether an extern dispatcher is registered
  callFrames,     \* callFrames[0 .. callFrameTop - 1]; its length is callFrameTop
  frameTop,
  fault,
  instructionPC,  \* NoPC while hasInstructionPC is false (and the field is 0)
  activations,    \* the local variable `program` of every RunLoaded in progress
  inHost,
  status          \* what the last completed API call returned

vars == <<memory, pc, program, dispatcher, callFrames, frameTop, fault,
          instructionPC, activations, inHost, status>>

CallFrame == [returnPC : Nat, localBase : Nat, returnKind : Kinds]
FaultInfo == [status : Statuses, pc : Nat \cup {NoPC}, hostStatus : Statuses]

noVMFault == [status |-> "OK", pc |-> NoPC, hostStatus |-> "OK"]

TypeOK ==
  /\ memory \in [Segments -> Seq(Byte)]
  /\ pc \in Nat
  /\ program \in 0 .. Len(Programs)
  /\ dispatcher \in BOOLEAN
  /\ callFrames \in Seq(CallFrame)
  /\ frameTop \in Nat
  /\ fault \in FaultInfo
  /\ instructionPC \in Nat \cup {NoPC}
  /\ activations \in Seq(1 .. Len(Programs))
  /\ inHost \in BOOLEAN
  /\ status \in Statuses

\* NewVMWithConfig: every segment empty except the frame, which is zero.
Init ==
  /\ memory = [s \in Segments |->
                 IF s = segmentFrame THEN Zeros(FrameCapacity) ELSE <<>>]
  /\ pc = 0
  /\ program = NoProgram
  /\ dispatcher = FALSE
  /\ callFrames = <<>>
  /\ frameTop = 0
  /\ fault = noVMFault
  /\ instructionPC = NoPC
  /\ activations = <<>>
  /\ inHost = TRUE
  /\ status = "OK"

stack == memory[segmentStack]
frameMemory == memory[segmentFrame]

-----------------------------------------------------------------------------
(***************************************************************************)
(* Entering a script function (enterScriptFunction).                       *)
(*                                                                         *)
(* An argument byte is a pair <<k, b>>: byte b of parameter k, both from   *)
(* 1.  Arguments are pushed left to right, so byte b of parameter k lies   *)
(* above the bytes of the parameters before it.                            *)
(***************************************************************************)
ParamKind(p, d, k) == Programs[p].paramKinds[d.paramStart + k]
ParamOffset(p, d, k) == Programs[p].paramOffsets[d.paramStart + k]

\* No kind is larger than 8 bytes.
Arguments(p, d) ==
  {a \in (1 .. d.paramCount) \X (1 .. 8) : a[2] <= Size(ParamKind(p, d, a[1]))}
ArgumentsBefore(p, d, k) == {a \in Arguments(p, d) : a[1] < k}
argumentBytes(p, d) == Cardinality(Arguments(p, d))

\* Mutant of ArgumentPosition: the first parameter is popped first.
ArgumentPositionFromTop(p, d, stk, k, b) ==
  Len(stk) - Cardinality(ArgumentsBefore(p, d, k)) - Size(ParamKind(p, d, k)) + b
\* Where byte b of argument k is on operand stack stk before the call.
ArgumentPosition(p, d, stk, k, b) ==
  Len(stk) - argumentBytes(p, d) + Cardinality(ArgumentsBefore(p, d, k)) + b

ParamsInPool(p, d) ==
  /\ d.paramStart + d.paramCount <= Len(Programs[p].paramKinds)
  /\ d.paramStart + d.paramCount <= Len(Programs[p].paramOffsets)

ParamsFit(p, d) ==
  \A k \in 1 .. d.paramCount :
    LET n == Size(ParamKind(p, d, k))
    IN  n # 0 /\ ParamOffset(p, d, k) + n <= d.frameByteSize

\* The checks of enterScriptFunction, in its order, for function index f of
\* program p with operand stack stk, frameTop base and callFrameTop depth.
EntryStatus(p, f, stk, base, depth) ==
  IF f >= Len(Programs[p].functions) THEN "InvalidTarget"
  ELSE LET d == Programs[p].functions[f + 1]
       IN  IF d.bodyAddress >= Len(Programs[p].text) THEN "InvalidDescriptor"
           ELSE IF ~ParamsInPool(p, d) THEN "InvalidParameter"
           ELSE IF ~ParamsFit(p, d) THEN "InvalidParameter"
           ELSE IF argumentBytes(p, d) > Len(stk) THEN "StackUnderflow"
           ELSE IF base + d.frameByteSize > FrameCapacity THEN "FrameOverflow"
           ELSE IF depth >= MaxCallFrames THEN "CallFrameOverflow"
           ELSE "OK"

\* Parameters are copied last to first, so where two overlap the first wins.
ParamsAt(p, d, o) ==
  {k \in 1 .. d.paramCount :
     o \in ParamOffset(p, d, k) + 1
             .. ParamOffset(p, d, k) + Size(ParamKind(p, d, k))}

\* Mutant of EnteredFrame: the callee's region is not cleared.
EnteredFrameUncleared(p, d, frm, stk, base) ==
  [i \in 1 .. Len(frm) |->
     IF ParamsAt(p, d, i - base) = {} THEN frm[i]
     ELSE LET k == CHOOSE j \in ParamsAt(p, d, i - base) :
                     \A l \in ParamsAt(p, d, i - base) : j <= l
          IN  stk[ArgumentPosition(p, d, stk, k,
                                   i - base - ParamOffset(p, d, k))]]
\* The frame segment after entry: the callee's region is cleared, then the
\* arguments are moved into it.
EnteredFrame(p, d, frm, stk, base) ==
  [i \in 1 .. Len(frm) |->
     IF i \notin base + 1 .. base + d.frameByteSize THEN frm[i]
     ELSE IF ParamsAt(p, d, i - base) = {} THEN 0
     ELSE LET k == CHOOSE j \in ParamsAt(p, d, i - base) :
                     \A l \in ParamsAt(p, d, i - base) : j <= l
          IN  stk[ArgumentPosition(p, d, stk, k,
                                   i - base - ParamOffset(p, d, k))]]

-----------------------------------------------------------------------------
(***************************************************************************)
(* Faults.  setFault overwrites the diagnostics; recordStatus fills them   *)
(* in only if they are clear.  `at` is the instruction being executed.     *)
(***************************************************************************)
\* Mutant of FaultAt: the position behind the opcode.
FaultBehind(at, st) == [status |-> st, pc |-> at + 2, hostStatus |-> "OK"]
FaultAt(at, st) == [status |-> st, pc |-> at, hostStatus |-> "OK"]
setFault(at, st) == fault' = FaultAt(at, st)
\* Mutant of recordStatus: the status is returned but not recorded.
recordStatusNowhere(at, st) == fault' = fault
recordStatus(at, st) ==
  fault' = IF st # "OK" /\ fault.status = "OK" THEN FaultAt(at, st) ELSE fault

clearFault == fault' = noVMFault /\ instructionPC' = NoPC

-----------------------------------------------------------------------------
(***************************************************************************)
(* The host API.  The host is in control outside a run and inside an       *)
(* extern call.                                                            *)
(***************************************************************************)
HostMay(call) ==
  /\ inHost
  /\ call \in IF activations = <<>> THEN HostCalls ELSE DispatcherCalls

loopState == <<pc, callFrames, frameTop>>
hostControl == <<activations, inHost>>

\* vm.LoadProgram(programs p), with p = NoProgram for nil.
LoadStatus(p) ==
  IF p = NoProgram THEN "InvalidProgram"
  ELSE IF \/ Programs[p].constByteSize # Len(Programs[p].constData)
          \/ Programs[p].dataByteSize # Len(Programs[p].dataData)
  THEN "InvalidImage" ELSE "OK"

\* Which programs the host may load next.
Loadable == IF program = NoProgram THEN 1 .. Len(Programs) ELSE ReloadPrograms

Resized(segment, n) == IF Len(segment) = n THEN segment ELSE Zeros(n)

InstallProgram(p) ==
  /\ memory' = [memory EXCEPT
       ![segmentBSS] = Resized(@, Programs[p].bssByteSize),
       ![segmentData] = Resized(@, Programs[p].dataByteSize),
       ![segmentConst] = Programs[p].constData]
  /\ program' = p

LoadProgram(p) ==
  /\ HostMay("load")
  /\ status' = LoadStatus(p)
  /\ instructionPC' = NoPC
  /\ fault' = IF status' = "OK" THEN noVMFault ELSE FaultAt(NoPC, status')
  /\ IF status' = "OK" THEN InstallProgram(p) ELSE UNCHANGED <<memory, program>>
  /\ UNCHANGED <<loopState, dispatcher, hostControl>>

\* vm.LoadProgramImage with an image that does not decode or validate.
\* (One that does is LoadProgram of the program it holds.)
ImageErrors == {"InvalidImage", "UnsupportedImage", "InvalidParameter",
                "InvalidTarget", "InvalidDescriptor"}
LoadRejectedImage(st) ==
  /\ HostMay("loadImage")
  /\ status' = st
  /\ instructionPC' = NoPC
  /\ fault' = FaultAt(NoPC, st)
  /\ UNCHANGED <<memory, program, loopState, dispatcher, hostControl>>

\* What Reset finds, and the state it leaves when a program is loaded; the
\* memory is reset before the entry point is checked.
ResetStatus ==
  IF program = NoProgram THEN "NoProgramLoaded"
  ELSE LET p == Programs[program]
       IN  IF p.entryPoint >= Len(p.functions) THEN "InvalidTarget"
           ELSE IF p.functions[p.entryPoint + 1].paramCount # 0
           THEN "InvalidDescriptor"
           ELSE EntryStatus(program, p.entryPoint, <<>>, 0, 0)

\* Mutant of ResetMemory: BSS keeps what the last run left.
ResetMemoryButBSS ==
  [memory EXCEPT
     ![segmentData] = CopyInto(@, Programs[program].dataData),
     ![segmentStack] = <<>>,
     ![segmentFrame] = Zeros(Len(@))]

ResetMemory ==
  [memory EXCEPT
     ![segmentBSS] = Zeros(Len(@)),
     ![segmentData] = CopyInto(@, Programs[program].dataData),
     ![segmentStack] = <<>>,
     ![segmentFrame] = Zeros(Len(@))]

EntryFunction == Programs[program].functions[Programs[program].entryPoint + 1]

ResetEffect ==
  /\ instructionPC' = NoPC
  /\ fault' = IF ResetStatus = "OK" THEN noVMFault ELSE FaultAt(NoPC, ResetStatus)
  /\ IF program = NoProgram THEN UNCHANGED <<memory, loopState>>
     ELSE /\ memory' = ResetMemory
          /\ IF ResetStatus = "OK"
             THEN /\ pc' = EntryFunction.bodyAddress
                  /\ callFrames' = <<[returnPC |-> 0, localBase |-> 0,
                                      returnKind |-> EntryFunction.returnKind]>>
                  /\ frameTop' = EntryFunction.frameByteSize
             ELSE pc' = 0 /\ callFrames' = <<>> /\ frameTop' = 0
  /\ UNCHANGED <<program, dispatcher>>

Reset ==
  /\ HostMay("reset")
  /\ ResetEffect
  /\ status' = ResetStatus
  /\ UNCHANGED hostControl

\* vm.RunLoaded up to the loop.  The loop keeps the program it started with
\* in a local variable.
RunLoaded ==
  /\ HostMay("run")
  /\ Len(activations) < MaxDepth
  /\ ResetEffect
  /\ IF ResetStatus = "OK"
     THEN /\ activations' = Append(activations, program)
          /\ inHost' = FALSE
          /\ UNCHANGED status
     ELSE status' = ResetStatus /\ UNCHANGED hostControl

\* vm.PushBits and the typed pushes.
PushStatus(stk, n) ==
  IF n = 0 THEN "InvalidValueKind"
  ELSE IF ~HasRoom(stk, n, StackCapacity) THEN "StackOverflow" ELSE "OK"

HostPush(kind, bits) ==
  LET st == PushStatus(stack, Size(kind))
  IN  /\ HostMay("push")
      /\ memory' = IF st = "OK"
                   THEN [memory EXCEPT ![segmentStack] =
                           @ \o Encode(bits, Size(kind))]
                   ELSE memory
      /\ IF st = "StackOverflow" THEN setFault(instructionPC, st)
                                 ELSE recordStatus(instructionPC, st)
      /\ status' = st
      /\ UNCHANGED <<program, loopState, dispatcher, instructionPC, hostControl>>

\* vm.PopBits and the typed pops.
PopStatus(stk, n) ==
  IF n = 0 THEN "InvalidValueKind"
  ELSE IF ~Holds(stk, n) THEN "StackUnderflow" ELSE "OK"

HostPop(kind) ==
  LET st == PopStatus(stack, Size(kind))
  IN  /\ HostMay("pop")
      /\ memory' = IF st = "OK"
                   THEN [memory EXCEPT ![segmentStack] = Drop(@, Size(kind))]
                   ELSE memory
      /\ recordStatus(instructionPC, st)
      /\ status' = st
      /\ UNCHANGED <<program, loopState, dispatcher, instructionPC, hostControl>>

\* vm.BindExternBlock, vm.AllocateExternMemory, vm.StoreExternInt32 and the
\* host's own writes to a block it has bound: new contents of extern memory.
SetExternMemory(block) ==
  /\ HostMay("extern")
  /\ memory' = [memory EXCEPT ![segmentExtern] = block]
  /\ UNCHANGED <<program, loopState, dispatcher, fault, instructionPC,
                 hostControl, status>>

RegisterExternDispatcher(bound) ==
  /\ HostMay("register")
  /\ dispatcher' = bound
  /\ UNCHANGED <<memory, program, loopState, fault, instructionPC,
                 hostControl, status>>

\* The dispatcher returns to callExtern.  One that propagates failures does
\* not answer OK after a stack call of its own has failed.
DispatcherReturn(st) ==
  /\ inHost
  /\ activations # <<>>
  /\ st = "OK" => (DispatcherSwallows \/ fault.status = "OK")
  /\ IF st = "OK"
     THEN /\ inHost' = FALSE
          /\ UNCHANGED <<fault, activations, status>>
     ELSE /\ fault' = [status |-> "HostFailure",
                       pc |-> IF instructionPC = NoPC THEN 0 ELSE instructionPC,
                       hostStatus |-> st]
          /\ activations' = Front(activations)
          /\ status' = "HostFailure"
          /\ UNCHANGED inHost
  /\ UNCHANGED <<memory, program, dispatcher, loopState, instructionPC>>

-----------------------------------------------------------------------------
(***************************************************************************)
(* The instruction loop of RunLoaded.                                      *)
(***************************************************************************)
loopProgram == Programs[Last(activations)]
textLen == Len(loopProgram.text)
instr == loopProgram.text[pc + 1]

\* Mutant of operandSize: a call returns to its own operand.
operandSizeButCall(i) ==
  CASE i.op = "Push" -> IF i.kind = "Address" THEN 0 ELSE Size(i.kind)
    [] i.op \in {"Addr", "JumpIfFalse", "Jump", "CallExtern"} -> 4
    [] OTHER -> 0
operandSize(i) ==
  CASE i.op = "Push" -> IF i.kind = "Address" THEN 0 ELSE Size(i.kind)
    [] i.op \in {"Addr", "JumpIfFalse", "Jump", "Call", "CallExtern"} -> 4
    [] OTHER -> 0

opcodeEnd == pc + 2
nextPC == pc + 2 + operandSize(instr)

\* An instruction with opcode op is at pc, its operand included.
Fetched(op) ==
  /\ ~inHost
  /\ opcodeEnd <= textLen
  /\ instr.op = op
  /\ nextPC <= textLen
  /\ instructionPC' = pc
  /\ UNCHANGED <<program, dispatcher>>

\* RunLoaded returns st to the host that called it.
ReturnToHost(st) ==
  /\ status' = st
  /\ activations' = Front(activations)
  /\ inHost' = TRUE

frameState == <<callFrames, frameTop>>
runState == <<fault, status, activations, inHost>>

\* The instruction completes, leaving operand stack stk.
Continue(stk) ==
  /\ memory' = [memory EXCEPT ![segmentStack] = stk]
  /\ pc' = nextPC
  /\ UNCHANGED <<frameState, runState>>

\* The run ends with status st: Trap where the code calls setFault, Abort
\* where it calls recordStatus.
Stop(stk, st) ==
  /\ memory' = [memory EXCEPT ![segmentStack] = stk]
  /\ pc' = nextPC
  /\ ReturnToHost(st)
  /\ UNCHANGED frameState
Trap(stk, st) == setFault(pc, st) /\ Stop(stk, st)
Abort(stk, st) == recordStatus(pc, st) /\ Stop(stk, st)

\* Push n bytes on stk as the last effect of the instruction.
PushOnto(stk, bytes) ==
  \/ HasRoom(stk, Len(bytes), StackCapacity) /\ Continue(stk \o bytes)
  \/ ~HasRoom(stk, Len(bytes), StackCapacity) /\ Trap(stk, "StackOverflow")

\* The stack left by the pops of n bytes that succeed before one underflows.
AfterUnderflow(n) == SubSeq(stack, 1, Len(stack) % n)

\* The value of n bytes at the top of stk.
TopBits(stk, n) == Decode(Top(stk, n))

RunOffEnd ==
  /\ ~inHost
  /\ pc >= textLen
  /\ ReturnToHost("OK")
  /\ UNCHANGED <<memory, pc, program, dispatcher, frameState, fault,
                 instructionPC>>

\* ReadInstructionChecked, ReadImmediateChecked or ReadUint32Checked meets
\* the end of the text.
TruncatedInstruction ==
  /\ ~inHost
  /\ pc < textLen
  /\ \/ opcodeEnd > textLen /\ pc' = pc
     \/ /\ opcodeEnd <= textLen
        /\ nextPC > textLen
        /\ pc' = opcodeEnd
  /\ instructionPC' = pc
  /\ recordStatus(pc, "MalformedBytecode")
  /\ ReturnToHost("MalformedBytecode")
  /\ UNCHANGED <<memory, program, dispatcher, frameState>>

ExecUndefined == Fetched("Undefined") /\ Trap(stack, "InvalidOpcode")

ExecPush ==
  /\ Fetched("Push")
  /\ \/ instr.kind \in {"None", "Address"} /\ Trap(stack, "InvalidValueKind")
     \/ /\ instr.kind \notin {"None", "Address"}
        /\ Size(instr.kind) = 0
        /\ Abort(stack, "InvalidValueKind")
     \/ /\ instr.kind # "Address"
        /\ Size(instr.kind) # 0
        /\ PushOnto(stack, Encode(instr.operand, Size(instr.kind)))

ExecArithmetic ==
  LET n == Size(instr.kind)
      right == TopBits(stack, n)
      left == TopBits(Drop(stack, n), n)
      st == ArithmeticStatus(instr.kind, instr.sub, right)
  IN  /\ Fetched("Arithmetic")
      /\ \/ instr.kind \notin ArithmeticKinds /\ Abort(stack, "InvalidOpcode")
         \/ /\ instr.kind \in ArithmeticKinds
            /\ ~Holds(stack, 2 * n)
            /\ Abort(AfterUnderflow(n), "StackUnderflow")
         \/ /\ instr.kind \in ArithmeticKinds
            /\ Holds(stack, 2 * n)
            /\ st # "OK"
            /\ Abort(Drop(stack, 2 * n), st)
         \/ /\ instr.kind \in ArithmeticKinds
            /\ Holds(stack, 2 * n)
            /\ st = "OK"
            /\ \E r \in ArithmeticResults(instr.kind, instr.sub, left, right) :
                 Continue(Drop(stack, 2 * n) \o Encode(r, n))

ExecCompare ==
  LET n == Size(instr.kind)
      right == TopBits(stack, n)
      left == TopBits(Drop(stack, n), n)
      st == CompareStatus(instr.kind, instr.sub)
  IN  /\ Fetched("Compare")
      /\ \/ instr.kind \notin CompareKinds /\ Abort(stack, "InvalidValueKind")
         \/ /\ instr.kind \in CompareKinds
            /\ ~Holds(stack, 2 * n)
            /\ Abort(AfterUnderflow(n), "StackUnderflow")
         \/ /\ instr.kind \in CompareKinds
            /\ Holds(stack, 2 * n)
            /\ st # "OK"
            /\ Abort(Drop(stack, 2 * n), st)
         \/ /\ instr.kind \in CompareKinds
            /\ Holds(stack, 2 * n)
            /\ st = "OK"
            /\ \E r \in CompareResults(instr.kind, instr.sub, left, right) :
                 Continue(Drop(stack, 2 * n) \o Encode(r, 1))

\* instr.sub is the kind converted from.
ExecConvert ==
  LET from == instr.sub
      n == Size(from)
  IN  /\ Fetched("Convert")
      /\ \/ from \notin ConvertKinds /\ Abort(stack, "InvalidValueKind")
         \/ /\ from \in ConvertKinds
            /\ ~Holds(stack, n)
            /\ Abort(stack, "StackUnderflow")
         \/ /\ from \in ConvertKinds
            /\ Holds(stack, n)
            /\ instr.kind \notin ConvertKinds
            /\ Abort(Drop(stack, n), "InvalidValueKind")
         \/ /\ from \in ConvertKinds
            /\ Holds(stack, n)
            /\ instr.kind \in ConvertKinds
            /\ \E r \in ConvertResults(from, instr.kind, TopBits(stack, n)) :
                 PushOnto(Drop(stack, n), Encode(r, Size(instr.kind)))

ExecBuiltIn ==
  LET n == Size(instr.kind)
      pops == IF instr.sub = "Pow" THEN 2 ELSE 1
  IN  /\ Fetched("BuiltIn")
      /\ \/ /\ instr.sub = "Abs" /\ n = 0
            /\ Abort(stack, "InvalidValueKind")
         \/ /\ instr.sub = "Abs" /\ n # 0 /\ ~Holds(stack, n)
            /\ Abort(stack, "StackUnderflow")
         \/ /\ instr.sub = "Abs" /\ n # 0 /\ Holds(stack, n)
            /\ instr.kind \notin AbsKinds
            /\ Abort(Drop(stack, n), "InvalidValueKind")
         \/ /\ instr.sub = "Abs" /\ instr.kind \in AbsKinds /\ Holds(stack, n)
            /\ \E r \in AbsResults(instr.kind, TopBits(stack, n)) :
                 Continue(Drop(stack, n) \o Encode(r, n))
         \/ /\ instr.sub # "Abs" /\ instr.kind \notin FloatKinds
            /\ Abort(stack, "InvalidValueKind")
         \/ /\ instr.sub \notin BuiltInOps /\ instr.kind \in FloatKinds
            /\ Abort(stack, "InvalidOpcode")
         \/ /\ instr.sub \in BuiltInOps \ {"Abs"} /\ instr.kind \in FloatKinds
            /\ ~Holds(stack, pops * n)
            /\ Abort(AfterUnderflow(n), "StackUnderflow")
         \/ /\ instr.sub \in BuiltInOps \ {"Abs"} /\ instr.kind \in FloatKinds
            /\ Holds(stack, pops * n)
            /\ \E r \in FloatBits :
                 Continue(Drop(stack, pops * n) \o Encode(r, n))

\* Frame offsets are relative to the current call frame.
ExecAddr ==
  LET base == IF instr.segment = segmentFrame THEN Last(callFrames).localBase
              ELSE 0
  IN  /\ Fetched("Addr")
      /\ \/ /\ instr.segment = segmentFrame
            /\ callFrames = <<>>
            /\ Abort(stack, "InvalidLifecycle")
         \/ /\ instr.segment = segmentFrame => callFrames # <<>>
            /\ base + instr.operand > addressIndexMask
            /\ Trap(stack, "InvalidAddress")
         \/ /\ instr.segment = segmentFrame => callFrames # <<>>
            /\ base + instr.operand <= addressIndexMask
            /\ PushOnto(stack, Encode(makeAddress(instr.segment,
                                                  base + instr.operand), 4))

ExecOffset ==
  LET address == TopBits(Drop(stack, 4), 4)
      index == AddressIndex(address) + Signed(TopBits(stack, 4), 4)
  IN  /\ Fetched("Offset")
      /\ \/ ~Holds(stack, 8) /\ Abort(AfterUnderflow(4), "StackUnderflow")
         \/ /\ Holds(stack, 8)
            /\ index \notin 0 .. addressIndexMask
            /\ Trap(Drop(stack, 8), "InvalidAddress")
         \/ /\ Holds(stack, 8)
            /\ index \in 0 .. addressIndexMask
            /\ Continue(Drop(stack, 8)
                          \o Encode(makeAddress(AddressSegment(address), index), 4))

\* The segment an address names, once the address is off the stack.
SegmentWith(stk, segment) ==
  IF segment = segmentStack THEN stk ELSE memory[segment]

ExecDereference ==
  LET n == Size(instr.kind)
      address == TopBits(stack, 4)
      rest == Drop(stack, 4)
      segment == AddressSegment(address)
      source == SegmentWith(rest, segment)
  IN  /\ Fetched("Dereference")
      /\ \/ instr.kind = "None" /\ Trap(stack, "InvalidValueKind")
         \/ /\ instr.kind # "None"
            /\ ~Holds(stack, 4)
            /\ Abort(stack, "StackUnderflow")
         \/ /\ instr.kind # "None"
            /\ Holds(stack, 4)
            /\ \/ ~ValidSegment(segment) /\ Trap(rest, "InvalidAddressSegment")
               \/ /\ ValidSegment(segment)
                  /\ n = 0
                  /\ Abort(rest, "InvalidValueKind")
               \/ /\ ValidSegment(segment)
                  /\ n # 0
                  /\ ~InRange(source, AddressIndex(address), n)
                  /\ Abort(rest, "InvalidAddress")
               \/ /\ ValidSegment(segment)
                  /\ n # 0
                  /\ InRange(source, AddressIndex(address), n)
                  /\ PushOnto(rest, ReadBytes(source, AddressIndex(address), n))

\* Mutant of AssignStatus: CONST memory is writable.
AssignStatusEverywhere(stk, address, n) ==
  LET segment == AddressSegment(address)
  IN  IF ~ValidSegment(segment) THEN "InvalidAddressSegment"
      ELSE IF n = 0 THEN "InvalidValueKind"
      ELSE IF ~InRange(SegmentWith(stk, segment), AddressIndex(address), n)
      THEN "InvalidAddress"
      ELSE IF ~Holds(stk, n) THEN "StackUnderflow" ELSE "OK"
\* popToMemory up to its pop, stk the stack without the address.
AssignStatus(stk, address, n) ==
  LET segment == AddressSegment(address)
  IN  IF segment = segmentConst THEN "ReadOnlyMemory"
      ELSE IF ~ValidSegment(segment) THEN "InvalidAddressSegment"
      ELSE IF n = 0 THEN "InvalidValueKind"
      ELSE IF ~InRange(SegmentWith(stk, segment), AddressIndex(address), n)
      THEN "InvalidAddress"
      ELSE IF ~Holds(stk, n) THEN "StackUnderflow" ELSE "OK"

\* The pop comes before the write, which checks its range again: a write into
\* the operand stack can find that its own pop has removed the destination.
ExecAssign ==
  LET n == Size(instr.kind)
      address == TopBits(stack, 4)
      segment == AddressSegment(address)
      offset == AddressIndex(address)
      rest == Drop(stack, 4)
      value == Top(rest, n)
      left == Drop(rest, n)
      st == AssignStatus(rest, address, n)
  IN  /\ Fetched("Assign")
      /\ \/ instr.kind = "None" /\ Trap(stack, "InvalidValueKind")
         \/ /\ instr.kind # "None"
            /\ ~Holds(stack, 4)
            /\ Abort(stack, "StackUnderflow")
         \/ /\ instr.kind # "None"
            /\ Holds(stack, 4)
            /\ \/ st # "OK" /\ Trap(rest, st)
               \/ /\ st = "OK"
                  /\ ~InRange(SegmentWith(left, segment), offset, n)
                  /\ Trap(left, "InvalidAddress")
               \/ /\ st = "OK"
                  /\ segment = segmentStack
                  /\ InRange(left, offset, n)
                  /\ Continue(WriteBytes(left, offset, value))
               \/ /\ st = "OK"
                  /\ segment # segmentStack
                  /\ memory' = [memory EXCEPT
                       ![segmentStack] = left,
                       ![segment] = WriteBytes(@, offset, value)]
                  /\ pc' = nextPC
                  /\ UNCHANGED <<frameState, runState>>

\* A jump whose target is in the text; the operand stack becomes stk.
JumpTo(stk) ==
  \/ instr.operand >= textLen /\ Trap(stk, "InvalidTarget")
  \/ /\ instr.operand < textLen
     /\ memory' = [memory EXCEPT ![segmentStack] = stk]
     /\ pc' = instr.operand
     /\ UNCHANGED <<frameState, runState>>

ExecJump == Fetched("Jump") /\ JumpTo(stack)

ExecJumpIfFalse ==
  /\ Fetched("JumpIfFalse")
  /\ \/ ~Holds(stack, 1) /\ Abort(stack, "StackUnderflow")
     \/ Holds(stack, 1) /\ TopBits(stack, 1) # 0 /\ Continue(Drop(stack, 1))
     \/ Holds(stack, 1) /\ TopBits(stack, 1) = 0 /\ JumpTo(Drop(stack, 1))

\* The callee is a function of vm.program, not of the loop's program.
ExecCall ==
  LET st == EntryStatus(program, instr.operand, stack, frameTop, Len(callFrames))
      d == Programs[program].functions[instr.operand + 1]
  IN  /\ Fetched("Call")
      /\ \/ st # "OK" /\ Trap(stack, st)
         \/ /\ st = "OK"
            /\ memory' = [memory EXCEPT
                 ![segmentFrame] = EnteredFrame(program, d, @, stack, frameTop),
                 ![segmentStack] = Drop(@, argumentBytes(program, d))]
            /\ callFrames' = Append(callFrames,
                 [returnPC |-> nextPC, localBase |-> frameTop,
                  returnKind |-> d.returnKind])
            /\ frameTop' = frameTop + d.frameByteSize
            /\ pc' = d.bodyAddress
            /\ UNCHANGED runState

ExecCallExtern ==
  /\ Fetched("CallExtern")
  /\ \/ ~dispatcher /\ Trap(stack, "MissingExtern")
     \/ /\ dispatcher
        /\ inHost' = TRUE
        /\ pc' = nextPC
        /\ UNCHANGED <<memory, frameState, fault, status, activations>>

\* returnFromFunction; the call frame is gone even when the result is missing.
ResultStatus(kind) ==
  IF ~hasStackValueKind(kind) THEN "OK"
  ELSE IF Size(kind) = 0 THEN "InvalidValueKind"
  ELSE IF ~Holds(stack, Size(kind)) THEN "StackUnderflow" ELSE "OK"

\* Mutant of EndsRun: asked before the frame is taken off.
EndsRunTooLate == callFrames = <<>>
\* The frame being left is the entry function's.
EndsRun == Len(callFrames) = 1
ExecRet ==
  LET st == ResultStatus(Last(callFrames).returnKind)
  IN  /\ Fetched("Ret")
      /\ UNCHANGED memory
      /\ \/ /\ callFrames = <<>>
            /\ recordStatus(pc, "InvalidLifecycle")
            /\ ReturnToHost("InvalidLifecycle")
            /\ pc' = nextPC
            /\ UNCHANGED frameState
         \/ /\ callFrames # <<>>
            /\ st # "OK"
            /\ recordStatus(pc, st)
            /\ ReturnToHost(st)
            /\ pc' = nextPC
            /\ callFrames' = Front(callFrames)
            /\ UNCHANGED frameTop
         \/ /\ callFrames # <<>>
            /\ st = "OK"
            /\ callFrames' = Front(callFrames)
            /\ frameTop' = Last(callFrames).localBase
            /\ IF EndsRun
               THEN pc' = nextPC /\ UNCHANGED fault /\ ReturnToHost("OK")
               ELSE pc' = Last(callFrames).returnPC /\ UNCHANGED runState

Execute ==
  \/ RunOffEnd \/ TruncatedInstruction \/ ExecUndefined
  \/ ExecPush \/ ExecArithmetic \/ ExecCompare \/ ExecConvert \/ ExecBuiltIn
  \/ ExecAddr \/ ExecOffset \/ ExecDereference \/ ExecAssign
  \/ ExecJump \/ ExecJumpIfFalse \/ ExecCall \/ ExecCallExtern \/ ExecRet

HostStep ==
  \/ \E p \in {NoProgram} \cup Loadable : LoadProgram(p)
  \/ \E st \in ImageErrors : LoadRejectedImage(st)
  \/ Reset
  \/ RunLoaded
  \/ \E v \in HostValues : HostPush(v[1], v[2])
  \/ \E kind \in HostPopKinds : HostPop(kind)
  \/ \E block \in ExternBlocks : SetExternMemory(block)
  \/ \E bound \in BOOLEAN : RegisterExternDispatcher(bound)

DispatcherReturns == \E st \in HostStatuses : DispatcherReturn(st)

Next == Execute \/ HostStep \/ DispatcherReturns

Spec == Init /\ [][Next]_vars
=============================================================================
