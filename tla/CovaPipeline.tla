----------------------------- MODULE CovaPipeline ----------------------------
(***************************************************************************)
(* From source to result: the functions of a unit are optimized, compiled  *)
(* (CovaOptimizer, CovaCompiler), laid out, loaded into the machine        *)
(* (CovaVM) and run by a host that answers extern calls as the unit says,  *)
(* takes their arguments off the stack last to first, and takes the result *)
(* of script_main.  Shown to implement what the source means.              *)
(***************************************************************************)
EXTENDS CovaCompiler, CovaOptimizer

CONSTANTS
  Units,              \* the source programs, see CovaMeaning
  Optimized,          \* which of them are optimized before they are compiled
  FrameCapacity, StackCapacity, CallFrameCapacity   \* of the machine

VARIABLES
  memory, pc, program, dispatcher, callFrames, frameTop, fault, instructionPC,
  activations, inHost, status,      \* the machine's
  unit, meant,        \* the unit, and what it means
  phase,              \* what the host does next
  call,               \* the extern function being answered, NoCall if none
  script,             \* the answers it has left
  taken,              \* arguments of the extern call in progress
  shown,              \* extern calls that have been made
  result              \* what script_main left

machine == <<memory, pc, program, dispatcher, callFrames, frameTop, fault,
             instructionPC, activations, inHost, status>>
vars == <<machine, unit, meant, phase, call, script, taken, shown, result>>

-----------------------------------------------------------------------------
(***************************************************************************)
(* The linked program of a unit all of whose functions are reachable: one  *)
(* text, the blocks in source order, jumps moved by the length of the      *)
(* blocks before theirs.                                                   *)
(***************************************************************************)
FlatLengths(lists) == FoldLeft(LAMBDA sums, l : Append(sums, Last(sums) + Len(l)),
                               <<0>>, lists)

\* Jump operands count from the start of the text.
MovedCode(code, base) ==
  [k \in DOMAIN code |-> IF code[k].op \in {"Jump", "JumpIfFalse"}
                         THEN [code[k] EXCEPT !.operand = @ + base]
                         ELSE code[k]] \o <<>>
MovedBlocks(blocks, starts) ==
  FlattenSeq([b \in DOMAIN blocks |-> MovedCode(blocks[b].code, starts[b])])

ParamKinds(f) == [p \in DOMAIN f.params |-> valueKindFromType(f.params[p].type)] \o <<>>
Descriptors(functions, blocks, starts, pools) ==
  [b \in DOMAIN blocks |->
     Fn(starts[b] + 1, pools[b], Len(functions[b].params), blocks[b].frameByteSize,
        valueKindFromType(functions[b].returnType))] \o <<>>

Variables(symbols) == {name \in DOMAIN symbols : symbols[name].declares = "variable"}
InScope(symbols, scope) ==
  {name \in Variables(symbols) : symbols[name].scope = scope}
BytesOf(symbols, name) ==
  symbols[name].index + 1 ..
    symbols[name].index + Size(valueKindFromType(symbols[name].type))
\* A segment as it is when the program starts.
SegmentImage(u, scope) ==
  LET names == InScope(u.symbols, scope)
  IN  [o \in 1 .. Max(UNION {BytesOf(u.symbols, name) : name \in names} \cup {0}) |->
         IF \E name \in names : o \in BytesOf(u.symbols, name)
         THEN LET name == CHOOSE name \in names : o \in BytesOf(u.symbols, name)
              IN  Encode(u.initial[name],
                         Size(valueKindFromType(u.symbols[name].type)))[
                           o - u.symbols[name].index]
         ELSE 0] \o <<>>

LaidOut(u, functions, blocks, starts, pools) ==
  [Listing(MovedBlocks(blocks, starts), Descriptors(functions, blocks, starts, pools),
           FlattenSeq([f \in DOMAIN functions |-> ParamKinds(functions[f])]),
           FlattenSeq([b \in DOMAIN blocks |-> blocks[b].paramOffsets]))
     EXCEPT !.bssByteSize = Len(SegmentImage(u, "BSS")),
            !.dataData = SegmentImage(u, "Data"),
            !.dataByteSize = Len(SegmentImage(u, "Data")),
            !.constData = SegmentImage(u, "Const"),
            !.constByteSize = Len(SegmentImage(u, "Const"))]
LinkedAs(u, functions, blocks) ==
  LaidOut(u, functions, blocks, FlatLengths([b \in DOMAIN blocks |-> blocks[b].code]),
          FlatLengths([f \in DOMAIN functions |-> functions[f].params]))
LinkedUnit(u, functions) ==
  LinkedAs(u, functions, CompiledUnit(u.symbols, functions).blocks)
\* The functions that are compiled; the globals of a unit have their values, no
\* initializers (CovaFolding folds those).
Prepared(u, optimized) ==
  IF optimized THEN Optimize(u.symbols, <<>>, u.functions).nodes ELSE u.functions
LinkedUnits(units, optimized) ==
  Assembled([k \in DOMAIN units |->
               LinkedUnit(units[k], Prepared(units[k], k \in optimized))] \o <<>>)
\* TLC computes what a variable is bound to once, a constant at each use here.
LinkedPrograms ==
  CHOOSE programs \in {LinkedUnits(of.units, of.optimized) :
                        of \in {[units |-> Units, optimized |-> Optimized]}} : TRUE

VM == INSTANCE CovaVM WITH
        Programs <- LinkedPrograms, ReloadPrograms <- {},
        ExternBlocks <- {}, HostValues <- {}, HostPopKinds <- {},
        HostStatuses <- {"OK"},
        HostCalls <- {"load", "extern", "register", "run", "pop"},
        DispatcherCalls <- {"push", "pop"},
        DispatcherSwallows <- FALSE, MaxDepth <- 1

-----------------------------------------------------------------------------
(***************************************************************************)
(* The host.                                                               *)
(***************************************************************************)
symbolsOf == unit.symbols

Global(name) ==
  Decode(ReadBytes(memory[SegmentOf(symbolsOf[name].scope)], symbolsOf[name].index,
                   Size(valueKindFromType(symbolsOf[name].type))))
GlobalValues == [name \in Variables(symbolsOf) |-> Global(name)]

NoCall == "none"
Outcome ==
  IF phase = "done"
  THEN <<[status |-> status, result |-> result, globals |-> GlobalValues]>>
  ELSE <<>>

Observed == INSTANCE CovaObserved WITH outcome <- Outcome

Init ==
  /\ VM!Init
  /\ phase = "load"
  /\ call = NoCall
  /\ Observed!Init
  /\ script = unit.answers
  /\ taken = <<>>
  /\ result = <<>>

LoadUnit ==
  /\ phase = "load"
  /\ \E p \in DOMAIN Units : Units[p] = unit /\ VM!LoadProgram(p)
  /\ phase' = "bind"
  /\ UNCHANGED <<unit, meant, call, script, taken, shown, result>>

BindExtern ==
  /\ phase = "bind"
  /\ VM!SetExternMemory(SegmentImage(unit, "Extern"))
  /\ phase' = "register"
  /\ UNCHANGED <<unit, meant, call, script, taken, shown, result>>

Register ==
  /\ phase = "register"
  /\ VM!RegisterExternDispatcher(TRUE)
  /\ phase' = "start"
  /\ UNCHANGED <<unit, meant, call, script, taken, shown, result>>

Start ==
  /\ phase = "start"
  /\ VM!RunLoaded
  /\ phase' = "run"
  /\ UNCHANGED <<unit, meant, call, script, taken, shown, result>>

Step ==
  /\ phase = "run"
  /\ VM!Execute
  /\ UNCHANGED <<unit, meant, phase, call, script, taken, shown, result>>

\* The dispatcher is called, with the slot the instruction names.
slot == VM!loopProgram.text[instructionPC + 1].operand
Dispatch ==
  /\ phase = "run"
  /\ inHost
  /\ activations # <<>>
  /\ \E name \in DOMAIN symbolsOf :
       /\ symbolsOf[name].declares = "function"
       /\ symbolsOf[name].scope = "Extern"
       /\ symbolsOf[name].index = slot
       /\ call' = name
  /\ phase' = "call"
  /\ UNCHANGED <<machine, unit, meant, script, taken, shown, result>>

answerKind == valueKindFromType(symbolsOf[call].type)
nextArgument == Len(symbolsOf[call].paramTypes) - Len(taken)

TakeArgument ==
  LET kind == valueKindFromType(symbolsOf[call].paramTypes[nextArgument])
  IN  /\ phase = "call"
      /\ nextArgument > 0
      /\ VM!HostPop(kind)
      /\ taken' = <<Decode(Top(memory[segmentStack], Size(kind)))>> \o taken
      /\ UNCHANGED <<unit, meant, phase, call, script, shown, result>>

GiveAnswer ==
  /\ phase = "call"
  /\ nextArgument = 0
  /\ hasStackValueKind(answerKind)
  /\ VM!HostPush(answerKind, IF script = <<>> THEN 0 ELSE Head(script))
  /\ script' = IF script = <<>> THEN script ELSE Tail(script)
  /\ phase' = "answered"
  /\ UNCHANGED <<unit, meant, call, taken, shown, result>>

EndCall ==
  /\ \/ phase = "answered"
     \/ phase = "call" /\ nextArgument = 0 /\ ~hasStackValueKind(answerKind)
  /\ VM!DispatcherReturn("OK")
  /\ shown' = Append(shown, [slot |-> symbolsOf[call].index, arguments |-> taken,
                             globals |-> GlobalValues])
  /\ taken' = <<>>
  /\ call' = NoCall
  /\ phase' = "run"
  /\ UNCHANGED <<unit, meant, script, result>>

\* The run is over: the host takes the result, if there is one.
resultKind == valueKindFromType(unit.functions[1].returnType)
Collect ==
  /\ phase = "run"
  /\ inHost
  /\ activations = <<>>
  /\ phase' = "done"
  /\ IF status = "OK" /\ hasStackValueKind(resultKind)
     THEN /\ VM!HostPop(resultKind)
          /\ result' = <<Decode(Top(memory[segmentStack], Size(resultKind)))>>
     ELSE UNCHANGED <<machine, result>>
  /\ UNCHANGED <<unit, meant, call, script, taken, shown>>

Next ==
  \/ LoadUnit \/ BindExtern \/ Register \/ Start \/ Step
  \/ Dispatch \/ TakeArgument \/ GiveAnswer \/ EndCall \/ Collect

Spec == Init /\ [][Next]_vars
\* The loop, once started, runs on, and so does its host.
FairSpec == Spec /\ WF_vars(Next)

-----------------------------------------------------------------------------
(***************************************************************************)
(* The compiled program does what the source means: the same extern calls  *)
(* in the same order, with the same arguments and the same values of all   *)
(* globals, then the same result, fault and globals; and it does come to   *)
(* its end.                                                                *)
(***************************************************************************)
ImplementsMeaning == Observed!Spec

(***************************************************************************)
(* Its safety half: what has been seen so far is a beginning of what is    *)
(* meant, and the end is the end that is meant.                            *)
(***************************************************************************)
AsMeant ==
  /\ IsPrefix(shown, meant.events)
  /\ phase = "done" => shown = meant.events /\ Outcome = <<meant.outcome>>

(***************************************************************************)
(* A run that ends well leaves the operand stack as it found it, the call  *)
(* frames and the frame memory are given back.                             *)
(***************************************************************************)
StackGivenBack ==
  phase = "done" /\ status = "OK" =>
    memory[segmentStack] = <<>> /\ callFrames = <<>> /\ frameTop = 0
=============================================================================
