-------------------------- MODULE CovaVMProperties ---------------------------
(***************************************************************************)
(* What makes the virtual machine correct.                                 *)
(***************************************************************************)
EXTENDS CovaVM

-----------------------------------------------------------------------------
(***************************************************************************)
(* Properties that hold whatever the dispatcher does, nested LoadProgram,  *)
(* Reset and RunLoaded calls included.                                     *)
(***************************************************************************)

\* The fixed workspace is never exceeded: the operand stack, the frame buffer
\* and the call-frame array stay within the capacities of VMConfig, and the
\* active frames lie one above the other below frameTop, also after a run
\* that stopped half way through a return or a nested run.
WorkspaceRespected ==
  /\ Len(stack) <= StackCapacity
  /\ Len(frameMemory) = FrameCapacity
  /\ frameTop <= FrameCapacity
  /\ Len(callFrames) <= MaxCallFrames
  /\ \A i \in 1 .. Len(callFrames) : callFrames[i].localBase <= frameTop
  /\ \A i, j \in 1 .. Len(callFrames) :
       i <= j => callFrames[i].localBase <= callFrames[j].localBase

\* Once a program is loaded its constants are in CONST memory unchanged and
\* BSS and DATA have the sizes it asks for, through every store a script
\* makes, every rejected load and every run (Assign's read-only check,
\* LoadProgram's validation before it touches memory).
ProgramImageIntact ==
  program # NoProgram =>
    /\ memory[segmentConst] = Programs[program].constData
    /\ Len(memory[segmentBSS]) = Programs[program].bssByteSize
    /\ Len(memory[segmentData]) = Programs[program].dataByteSize

\* A step that starts a run leaves it the memory of a fresh one.
StartFresh ==
  Len(activations') > Len(activations) =>
    LET p == Programs[program']
    IN  /\ \A i \in 1 .. p.bssByteSize : memory'[segmentBSS][i] = 0
        /\ memory'[segmentData] = p.dataData
        /\ memory'[segmentStack] = <<>>
        /\ \A i \in 1 .. FrameCapacity : memory'[segmentFrame][i] = 0
        /\ Len(callFrames') = 1
        /\ frameTop' = p.functions[p.entryPoint + 1].frameByteSize
        /\ fault' = noVMFault
\* Every run starts from the same memory, whatever ran before it and however
\* that ended: BSS and frame zero, DATA as linked, the operand stack empty,
\* one call frame, no fault (Reset).
RunsStartFresh == [][StartFresh]_vars

-----------------------------------------------------------------------------
(***************************************************************************)
(* Properties of a machine whose dispatcher only uses the stack API.       *)
(***************************************************************************)

\* The function that call frame i belongs to: the entry function for the
\* first, for the others the operand of the Call before its return address.
CallSize == 6
CalleeOf(p, i) ==
  LET call == Programs[p].text[callFrames[i].returnPC - CallSize + 1]
  IN  Programs[p].functions[
        1 + (IF i = 1 THEN Programs[p].entryPoint ELSE call.operand)]

FrameEnd(i) ==
  IF i = Len(callFrames) THEN frameTop ELSE callFrames[i + 1].localBase

\* During a run the call frames are the chain of calls in progress: each one
\* above the first returns to just behind a Call instruction, carries the
\* return kind of the function that instruction names, and owns exactly the
\* frame bytes that function declares, up to where the next one begins.
CallChain ==
  activations # <<>> =>
    /\ callFrames # <<>>
    /\ callFrames[1].localBase = 0
    /\ \A i \in 2 .. Len(callFrames) :
         /\ callFrames[i].returnPC - CallSize \in 0 .. Len(Programs[program].text) - 1
         /\ Programs[program].text[callFrames[i].returnPC - CallSize + 1].op = "Call"
    /\ \A i \in 1 .. Len(callFrames) :
         /\ callFrames[i].returnKind = CalleeOf(program, i).returnKind
         /\ FrameEnd(i) = callFrames[i].localBase + CalleeOf(program, i).frameByteSize

\* No two parameter slots of a descriptor share a byte.
Disjoint(p, d) ==
  \A o \in 1 .. d.frameByteSize : Cardinality(ParamsAt(p, d, o)) <= 1
\* What a script call does with its arguments.
DeliverArguments ==
  Len(callFrames') > Len(callFrames) /\ ~inHost =>
    LET d == Programs[program].functions[instr.operand + 1]
        slot(k) == SubSeq(memory'[segmentFrame],
                          frameTop + ParamOffset(program, d, k) + 1,
                          frameTop + ParamOffset(program, d, k)
                            + Size(ParamKind(program, d, k)))
    IN  Disjoint(program, d) =>
          stack = memory'[segmentStack]
                    \o FlattenSeq([k \in 1 .. d.paramCount |-> slot(k)])
\* A script call moves its arguments, whole and in order, from the caller's
\* operand stack into the parameter slots, and takes nothing else: the old
\* stack is the new one followed by the parameters read back from the frame.
\* (Stated for descriptors whose parameter slots do not overlap.)
ArgumentsDelivered == [][DeliverArguments]_vars

\* What a call or a return leaves of the frame buffer.
IsolateFrames ==
  ~inHost /\ callFrames' # callFrames =>
    /\ \A i \in 1 .. FrameCapacity :
         i <= frameTop => memory'[segmentFrame][i] = frameMemory[i]
    /\ \A i \in frameTop + 1 .. frameTop' :
         \/ memory'[segmentFrame][i] = 0
         \/ ParamsAt(program, Programs[program].functions[instr.operand + 1],
                     i - frameTop) # {}
\* A call or a return never changes a byte of a frame below it, and a callee
\* finds its own locals zero, not what an earlier call left there.
FramesIsolated == [][IsolateFrames]_vars

\* The interpreter never meets Ret or a frame address without a call frame:
\* a script cannot return more often than it was called.
NoLifecycleFault == status # "InvalidLifecycle"

\* A run that ends reports the status it returns.
ReportStatus ==
  Len(activations') < Len(activations) => fault'.status = status'
\* A run that fails reports what it failed with: the status RunLoaded returns
\* is the status in FaultInfo, and one that succeeds leaves FaultInfo clear.
\* (vm-status.go: "diagnostics for the most recent fault".)
FaultIsMostRecent == [][ReportStatus]_vars

\* A run that fails reports where.
NameInstruction ==
  Len(activations') < Len(activations) /\ status' # "OK" =>
    IF inHost
    THEN /\ fault'.pc = pc - CallSize
         /\ loopProgram.text[fault'.pc + 1].op = "CallExtern"
    ELSE fault'.pc = pc
\* FaultInfo points at the instruction that failed, not at the one after it;
\* for a host failure that is the CallExtern.
FaultNamesInstruction == [][NameInstruction]_vars

-----------------------------------------------------------------------------
(***************************************************************************)
(* Liveness.  The loop runs until it returns, and a dispatcher returns.    *)
(***************************************************************************)
FairSpec == Spec /\ WF_vars(Execute) /\ WF_vars(DispatcherReturns)

\* Every RunLoaded returns, for programs whose loops terminate; unbounded
\* recursion ends in an overflow of the call frames or of the frame buffer.
RunsReturn == activations # <<>> ~> activations = <<>>
=============================================================================
