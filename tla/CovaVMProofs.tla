---------------------------- MODULE CovaVMProofs ----------------------------
(***************************************************************************)
(* Proofs about the virtual machine, for every program, host and size of   *)
(* the workspace: its state, and its runs - what a step of a run may do to *)
(* call frames, frame buffer, faults and the memory a run starts from.     *)
(***************************************************************************)
EXTENDS CovaVMProperties, CovaDataProofs,
        FiniteSetTheorems, TLAPS

-----------------------------------------------------------------------------
(***************************************************************************)
(* Values and addresses.                                                   *)
(***************************************************************************)

\* The values of a width are integers.
LEMMA ValuesType ==
  ASSUME NEW n \in {1, 2, 4, 8}
  PROVE  Values(n) \subseteq Int
<1>1. /\ ByteBase \in Nat \ {0} /\ Base2 \in Nat \ {0} /\ Base4 \in Nat \ {0}
      /\ Base7 \in Nat \ {0}
  <2>1. \A i \in {2, 3, 5, 8} : Place(i) \in Nat \ {0} BY PlaceType
  <2> QED BY <2>1 DEF Place
<1>2. Base7 * ByteBase \in Nat
  BY <1>1, ProductNatural
<1>3. Modulus(n) \in Nat
  <2> CASE n = 1 BY <1>1 DEF Modulus
  <2> CASE n = 2 BY <1>1 DEF Modulus
  <2> CASE n = 4 BY <1>1 DEF Modulus
  <2> CASE n = 8 BY <1>2 DEF Modulus
  <2> QED OBVIOUS
<1> QED BY <1>3 DEF Values

\* Four bytes are a number, whose address parts are natural.
LEMMA AddressType ==
  ASSUME NEW stk \in Seq(Byte), Holds(stk, 4)
  PROVE  /\ TopBits(stk, 4) \in Nat
         /\ AddressIndex(TopBits(stk, 4)) \in Nat
         /\ AddressSegment(TopBits(stk, 4)) \in Nat
<1>1. Top(stk, 4) \in Seq(Byte) /\ Len(Top(stk, 4)) = 4
  BY TopType
<1>2. \A i \in 1 .. 4 : Top(stk, 4)[i] \in Nat
  BY <1>1, ByteAssumption DEF Byte
<1>3. ASSUME NEW i \in 1 .. 4 PROVE Top(stk, 4)[i] * Place(i) \in Nat
  <2>1. Place(i) \in Nat BY SMTT(20), PlaceType
  <2> QED BY <1>2, <2>1, ProductNatural
<1>4. TopBits(stk, 4) \in Nat
  <2> DEFINE b(i) == Top(stk, 4)[i] * Place(i)
  <2>1. TopBits(stk, 4) = b(1) + b(2) + b(3) + b(4)
    BY <1>1 DEF TopBits, Decode
  <2>2. b(1) \in Nat /\ b(2) \in Nat /\ b(3) \in Nat /\ b(4) \in Nat
    BY <1>3
  <2> HIDE DEF b
  <2> QED BY <2>1, <2>2
<1>5. Base3 \in Nat \ {0}
  BY PlaceType DEF Place
<1> QED BY <1>4, <1>5 DEF AddressIndex, AddressSegment

-----------------------------------------------------------------------------
(***************************************************************************)
(* The inductive invariant.  Typing needs to know that a run has a loop    *)
(* and a program; the sizes of the segments need the capacities; and the   *)
(* return of a call restores a frame top that was within bounds, hence the *)
(* order of the call frames that WorkspaceRespected states.                *)
(***************************************************************************)
Running ==
  /\ ~inHost => activations # <<>>
  /\ activations # <<>> => program # NoProgram

IInv == TypeOK /\ Running /\ WorkspaceRespected /\ ProgramImageIntact

StackFits(stk) == stk \in Seq(Byte) /\ Len(stk) <= StackCapacity

LEMMA StackType ==
  ASSUME IInv
  PROVE  /\ StackFits(stack)
         /\ stack \in Seq(Byte)
         /\ \A s \in Segments : memory[s] \in Seq(Byte)
BY DEF IInv, TypeOK, WorkspaceRespected, StackFits, stack, Segments,
       segmentStack, segmentCount

\* The instruction at pc is one of the program whose loop is running.
LEMMA FetchedType ==
  ASSUME IInv, NEW op, Fetched(op)
  PROVE  /\ instr \in Instruction
         /\ pc \in Nat
         /\ nextPC \in Nat
         /\ activations # <<>>
         /\ activations \in Seq(1 .. Len(Programs))
         /\ program \in 1 .. Len(Programs)
<1>1. /\ activations # <<>>
      /\ activations \in Seq(1 .. Len(Programs))
      /\ program \in 1 .. Len(Programs)
      /\ pc \in Nat
  BY ProgramsAssumption DEF IInv, Running, TypeOK, Fetched, NoProgram
<1>2. Last(activations) \in 1 .. Len(Programs)
  BY <1>1 DEF Last
<1>3. loopProgram.text \in Seq(Instruction)
  BY <1>2, ProgramsAssumption DEF loopProgram, IsLinkedProgram
<1>4. pc + 1 \in 1 .. Len(loopProgram.text)
  BY <1>1, <1>3 DEF Fetched, opcodeEnd, textLen
<1>5. instr \in Instruction
  BY <1>3, <1>4 DEF instr
<1>6. operandSize(instr) \in Nat
  BY SizeType DEF operandSize
<1> QED BY <1>1, <1>5, <1>6 DEF nextPC

\* Replacing the operand stack by one that fits.
LEMMA NewStack ==
  ASSUME IInv, NEW stk, StackFits(stk),
         memory' = [memory EXCEPT ![segmentStack] = stk]
  PROVE  /\ memory' \in [Segments -> Seq(Byte)]
         /\ Len(stack') <= StackCapacity
         /\ Len(frameMemory') = FrameCapacity
         /\ memory'[segmentConst] = memory[segmentConst]
         /\ memory'[segmentBSS] = memory[segmentBSS]
         /\ memory'[segmentData] = memory[segmentData]
<1>1. memory \in [Segments -> Seq(Byte)] /\ stk \in Seq(Byte)
  BY DEF IInv, TypeOK, StackFits
<1>2. segmentStack \in Segments
      /\ {segmentFrame, segmentBSS, segmentConst, segmentData}
           \subseteq Segments \ {segmentStack}
  BY DEF Segments, segmentStack, segmentFrame, segmentBSS, segmentConst,
         segmentData, segmentCount
<1>3. memory'[segmentStack] = stk
  BY <1>1, <1>2
<1>4. \A s \in Segments \ {segmentStack} : memory'[s] = memory[s]
  BY <1>1
<1>5. memory' \in [Segments -> Seq(Byte)]
  BY <1>1
<1> QED BY <1>2, <1>3, <1>4, <1>5
        DEF IInv, WorkspaceRespected, StackFits, stack, frameMemory

\* A run that stops keeps the invariant, whichever way it reports.
LEMMA StopStep ==
  ASSUME IInv, NEW op, Fetched(op), NEW stk, StackFits(stk), NEW st \in Statuses,
         Trap(stk, st) \/ Abort(stk, st)
  PROVE  IInv'
<1>1. Stop(stk, st) /\ (setFault(pc, st) \/ recordStatus(pc, st))
  BY DEF Trap, Abort
<1>2. memory' = [memory EXCEPT ![segmentStack] = stk]
  BY <1>1 DEF Stop
<1>3. fault' \in FaultInfo
  <2>1. FaultAt(pc, st) \in FaultInfo
    BY FetchedType DEF FaultAt, FaultInfo, Statuses
  <2> QED BY <1>1, <2>1 DEF setFault, recordStatus, IInv, TypeOK
<1>4. activations' \in Seq(1 .. Len(Programs)) /\ inHost' = TRUE /\ status' = st
  BY <1>1, FetchedType DEF Stop, ReturnToHost, Front
<1>5. UNCHANGED <<program, dispatcher, callFrames, frameTop>>
      /\ instructionPC' = pc /\ pc' = nextPC
  BY <1>1 DEF Stop, Fetched, frameState
<1>6. TypeOK'
  BY <1>2, <1>3, <1>4, <1>5, NewStack, FetchedType DEF IInv, TypeOK
<1>7. Running'
  BY <1>4, <1>5, FetchedType DEF Running, NoProgram
<1>8. WorkspaceRespected'
  BY <1>2, <1>5, NewStack DEF IInv, WorkspaceRespected
<1>9. ProgramImageIntact'
  BY <1>2, <1>5, NewStack DEF IInv, ProgramImageIntact
<1> QED BY <1>6, <1>7, <1>8, <1>9 DEF IInv

\* A memory of the same shape: no segment but the operand stack changes size
\* and CONST does not change at all.
SameShape ==
  /\ memory' \in [Segments -> Seq(Byte)]
  /\ Len(stack') <= StackCapacity
  /\ Len(frameMemory') = FrameCapacity
  /\ memory'[segmentConst] = memory[segmentConst]
  /\ Len(memory'[segmentBSS]) = Len(memory[segmentBSS])
  /\ Len(memory'[segmentData]) = Len(memory[segmentData])

\* An instruction that touches memory and the program counter alone.
LEMMA MemoryStep ==
  ASSUME IInv, NEW op, Fetched(op), SameShape, pc' \in Nat,
         UNCHANGED <<frameState, runState>>
  PROVE  IInv'
<1>1. UNCHANGED <<program, dispatcher, callFrames, frameTop, fault, status,
                  activations, inHost>>
      /\ instructionPC' = pc
  BY DEF Fetched, frameState, runState
<1>2. TypeOK'
  BY <1>1, FetchedType DEF SameShape, IInv, TypeOK
<1>3. Running'
  BY <1>1 DEF IInv, Running
<1>4. WorkspaceRespected'
  BY <1>1 DEF SameShape, IInv, WorkspaceRespected
<1>5. ProgramImageIntact'
  BY <1>1 DEF SameShape, IInv, ProgramImageIntact
<1> QED BY <1>2, <1>3, <1>4, <1>5 DEF IInv

\* An instruction that completes with a stack that fits.
LEMMA ContinueStep ==
  ASSUME IInv, NEW op, Fetched(op), NEW stk, StackFits(stk), Continue(stk)
  PROVE  IInv'
<1>1. memory' = [memory EXCEPT ![segmentStack] = stk] /\ pc' = nextPC
      /\ UNCHANGED <<frameState, runState>>
  BY DEF Continue
<1>2. SameShape
  BY <1>1, NewStack DEF SameShape
<1> QED BY <1>1, <1>2, FetchedType, MemoryStep

LEMMA PushStep ==
  ASSUME IInv, NEW op, Fetched(op), NEW stk, StackFits(stk),
         NEW bytes \in Seq(Byte), PushOnto(stk, bytes)
  PROVE  IInv'
<1>1. CASE HasRoom(stk, Len(bytes), StackCapacity) /\ Continue(stk \o bytes)
  <2>1. StackFits(stk \o bytes)
    BY <1>1 DEF StackFits, HasRoom
  <2> QED BY <1>1, <2>1, ContinueStep
<1>2. CASE Trap(stk, "StackOverflow")
  BY <1>2, StopStep DEF Statuses
<1> QED BY <1>1, <1>2 DEF PushOnto

\* Truncating leaves a stack that fits.
LEMMA DropFits ==
  ASSUME NEW stk, StackFits(stk), NEW n \in Nat
  PROVE  StackFits(Drop(stk, n))
BY DropType, CapacityAssumption DEF StackFits

\* Popping m bytes and pushing no more than that many.
LEMMA ReplaceFits ==
  ASSUME NEW stk, StackFits(stk), NEW m \in Nat, Holds(stk, m),
         NEW bytes \in Seq(Byte), Len(bytes) <= m
  PROVE  StackFits(Drop(stk, m) \o bytes)
<1>1. Drop(stk, m) \in Seq(Byte) /\ Len(Drop(stk, m)) = Len(stk) - m
  BY DropType DEF StackFits
<1> QED BY <1>1, CapacityAssumption DEF StackFits

\* What an underflowing pair of pops leaves.
LEMMA UnderflowFits ==
  ASSUME NEW n \in {1, 2, 4, 8}, StackFits(stack)
  PROVE  StackFits(AfterUnderflow(n))
<1>1. Len(stack) \in Nat /\ stack \in Seq(Byte) BY DEF StackFits
<1>2. Len(stack) % n \in 0 .. Len(stack) BY <1>1
<1>3. AfterUnderflow(n) \in Seq(Byte) /\ Len(AfterUnderflow(n)) <= Len(stack)
  BY <1>1, <1>2 DEF AfterUnderflow
<1> QED BY <1>1, <1>3, CapacityAssumption DEF StackFits

\* Every kind the typed instructions have a case for has a size, and its
\* values are integers.
LEMMA NumericKinds ==
  ASSUME NEW kind \in ConvertKinds
  PROVE  Size(kind) \in {1, 2, 4, 8} /\ Values(Size(kind)) \subseteq Int
<1>1. Size(kind) \in {1, 2, 4, 8}
  BY DEF ConvertKinds, IntegerKinds, SignedKinds, UnsignedKinds, FloatKinds, Size
<1> QED BY <1>1, ValuesType

\* An instruction that pops m bytes and pushes a value of at most m bytes.
LEMMA ResultStep ==
  ASSUME IInv, NEW op, Fetched(op), NEW m \in Nat, Holds(stack, m),
         NEW r \in Int, NEW n \in 0 .. 8, n <= m,
         Continue(Drop(stack, m) \o Encode(r, n))
  PROVE  IInv'
<1>1. Encode(r, n) \in Seq(Byte) /\ Len(Encode(r, n)) = n
  BY EncodeType
<1>2. StackFits(Drop(stack, m) \o Encode(r, n))
  BY <1>1, StackType, ReplaceFits
<1> QED BY <1>2, ContinueStep

\* An instruction that fails after popping m bytes.
LEMMA FailStep ==
  ASSUME IInv, NEW op, Fetched(op), NEW m \in Nat, NEW st \in Statuses,
         Trap(Drop(stack, m), st) \/ Abort(Drop(stack, m), st)
  PROVE  IInv'
BY StackType, DropFits, StopStep

-----------------------------------------------------------------------------
(***************************************************************************)
(* Instructions that only change the operand stack.                        *)
(***************************************************************************)

LEMMA UndefinedKeeps == IInv /\ ExecUndefined => IInv'
BY StackType, StopStep DEF ExecUndefined, Statuses

LEMMA PushKeeps ==
  ASSUME IInv, ExecPush
  PROVE  IInv'
<1>1. Fetched("Push") /\ StackFits(stack)
  BY StackType DEF ExecPush
<1>2. CASE \/ Trap(stack, "InvalidValueKind")
           \/ Abort(stack, "InvalidValueKind")
  BY <1>1, <1>2, StopStep DEF Statuses
<1>3. CASE PushOnto(stack, Encode(instr.operand, Size(instr.kind)))
  <2>1. instr.operand \in Int /\ Size(instr.kind) \in 0 .. 8
    BY <1>1, FetchedType, SizeType DEF Instruction
  <2>2. Encode(instr.operand, Size(instr.kind)) \in Seq(Byte)
    BY <2>1, EncodeType
  <2> QED BY <1>1, <1>3, <2>2, PushStep
<1> QED BY <1>2, <1>3 DEF ExecPush

LEMMA ArithmeticKeeps ==
  ASSUME IInv, ExecArithmetic
  PROVE  IInv'
<1> DEFINE n == Size(instr.kind)
<1>1. Fetched("Arithmetic") /\ StackFits(stack) /\ n \in 0 .. 8 /\ 2 * n \in Nat
  BY StackType, SizeType DEF ExecArithmetic
<1>2. CASE Abort(stack, "InvalidOpcode")
  BY <1>1, <1>2, StopStep DEF Statuses
<1>3. ASSUME instr.kind \in ArithmeticKinds
      PROVE  n \in {1, 2, 4, 8} /\ Values(n) \subseteq Int
  BY <1>3, NumericKinds DEF ArithmeticKinds, ConvertKinds
<1>4. CASE instr.kind \in ArithmeticKinds /\ Abort(AfterUnderflow(n), "StackUnderflow")
  BY <1>1, <1>3, <1>4, UnderflowFits, StopStep DEF Statuses
<1>5. CASE \E right : Abort(Drop(stack, 2 * n),
                           ArithmeticStatus(instr.kind, instr.sub, right))
  <2>1. \A right : ArithmeticStatus(instr.kind, instr.sub, right) \in Statuses
    BY DEF ArithmeticStatus, Statuses
  <2> QED BY <1>1, <1>5, <2>1, FailStep
<1>6. CASE /\ instr.kind \in ArithmeticKinds
           /\ Holds(stack, 2 * n)
           /\ \E left, right :
               \E r \in ArithmeticResults(instr.kind, instr.sub, left, right) :
                 Continue(Drop(stack, 2 * n) \o Encode(r, n))
  <2>1. \A left, right :
          \/ ArithmeticResults(instr.kind, instr.sub, left, right) = FloatBits
          \/ ArithmeticResults(instr.kind, instr.sub, left, right) \subseteq Values(n)
    BY DEF ArithmeticResults
  <2>2. FloatBits \subseteq Int
    BY FloatBitsAssumption
  <2>3. n <= 2 * n
    BY <1>1
  <2> HIDE DEF n
  <2> QED BY <1>1, <1>3, <1>6, <2>1, <2>2, <2>3, ResultStep
<1> QED BY <1>2, <1>4, <1>5, <1>6 DEF ExecArithmetic

LEMMA CompareKeeps ==
  ASSUME IInv, ExecCompare
  PROVE  IInv'
<1> DEFINE n == Size(instr.kind)
<1>1. Fetched("Compare") /\ StackFits(stack) /\ n \in 0 .. 8 /\ 2 * n \in Nat
  BY StackType, SizeType DEF ExecCompare
<1>2. CASE Abort(stack, "InvalidValueKind")
  BY <1>1, <1>2, StopStep DEF Statuses
<1>3. ASSUME instr.kind \in CompareKinds PROVE n \in {1, 2, 4, 8}
  BY <1>3, NumericKinds DEF CompareKinds, ConvertKinds
<1>4. CASE instr.kind \in CompareKinds /\ Abort(AfterUnderflow(n), "StackUnderflow")
  BY <1>1, <1>3, <1>4, UnderflowFits, StopStep DEF Statuses
<1>5. CASE Abort(Drop(stack, 2 * n), CompareStatus(instr.kind, instr.sub))
  <2>1. CompareStatus(instr.kind, instr.sub) \in Statuses
    BY DEF CompareStatus, Statuses
  <2> QED BY <1>1, <1>5, <2>1, FailStep
<1>6. CASE /\ instr.kind \in CompareKinds
           /\ Holds(stack, 2 * n)
           /\ \E left, right :
               \E r \in CompareResults(instr.kind, instr.sub, left, right) :
                 Continue(Drop(stack, 2 * n) \o Encode(r, 1))
  <2>1. \A left, right :
          CompareResults(instr.kind, instr.sub, left, right) \subseteq {0, 1}
    BY DEF CompareResults
  <2>2. 1 <= 2 * n
    BY <1>3, <1>6
  <2> HIDE DEF n
  <2> QED BY <1>1, <1>6, <2>1, <2>2, ResultStep
<1> QED BY <1>2, <1>4, <1>5, <1>6 DEF ExecCompare

LEMMA ConvertKeeps ==
  ASSUME IInv, ExecConvert
  PROVE  IInv'
<1> DEFINE from == instr.sub
           n == Size(from)
           m == Size(instr.kind)
<1>1. /\ Fetched("Convert") /\ StackFits(stack)
      /\ n \in 0 .. 8 /\ n \in Nat /\ m \in 0 .. 8
  BY StackType, SizeType DEF ExecConvert
<1>2. CASE \E st \in {"InvalidValueKind", "StackUnderflow"} : Abort(stack, st)
  BY <1>1, <1>2, StopStep DEF Statuses
<1>3. CASE Abort(Drop(stack, n), "InvalidValueKind")
  BY <1>1, <1>3, FailStep DEF Statuses
<1>4. CASE /\ from \in ConvertKinds
           /\ instr.kind \in ConvertKinds
           /\ \E r \in ConvertResults(from, instr.kind, TopBits(stack, n)) :
                PushOnto(Drop(stack, n), Encode(r, m))
  <2>1. \/ ConvertResults(from, instr.kind, TopBits(stack, n)) = FloatBits
        \/ ConvertResults(from, instr.kind, TopBits(stack, n)) \subseteq {0, 1}
        \/ ConvertResults(from, instr.kind, TopBits(stack, n)) \subseteq Values(m)
    BY DEF ConvertResults
  <2>2. FloatBits \subseteq Int /\ {0, 1} \subseteq Int /\ Values(m) \subseteq Int
    BY <1>4, FloatBitsAssumption, NumericKinds
  <2>3. PICK r \in Int : PushOnto(Drop(stack, n), Encode(r, m))
    BY <1>4, <2>1, <2>2
  <2>4. StackFits(Drop(stack, n)) /\ Encode(r, m) \in Seq(Byte)
    BY <1>1, DropFits, EncodeType
  <2> QED BY <1>1, <2>3, <2>4, PushStep
<1> QED BY <1>2, <1>3, <1>4 DEF ExecConvert
LEMMA BuiltInKeeps ==
  ASSUME IInv, ExecBuiltIn
  PROVE  IInv'
<1> DEFINE n == Size(instr.kind)
           pops == IF instr.sub = "Pow" THEN 2 ELSE 1
           total == pops * n
<1>1. /\ Fetched("BuiltIn") /\ StackFits(stack)
      /\ n \in 0 .. 8 /\ n \in Nat /\ pops \in {1, 2}
  BY StackType, SizeType DEF ExecBuiltIn
<1>2. total \in Nat /\ n <= total
  <2>1. CASE pops = 1 BY <1>1, <2>1
  <2>2. CASE pops = 2 BY <1>1, <2>2
  <2> QED BY <1>1, <2>1, <2>2
<1>3. CASE \E st \in {"InvalidValueKind", "StackUnderflow", "InvalidOpcode"} :
             Abort(stack, st)
  BY <1>1, <1>3, StopStep DEF Statuses
<1>4. CASE Abort(Drop(stack, n), "InvalidValueKind")
  BY <1>1, <1>4, FailStep DEF Statuses
<1>5. CASE instr.kind \in FloatKinds /\ Abort(AfterUnderflow(n), "StackUnderflow")
  <2>1. n \in {1, 2, 4, 8}
    BY <1>5, NumericKinds DEF ConvertKinds
  <2> QED BY <1>1, <1>5, <2>1, UnderflowFits, StopStep DEF Statuses
<1>6. CASE /\ instr.kind \in AbsKinds
           /\ Holds(stack, n)
           /\ \E r \in AbsResults(instr.kind, TopBits(stack, n)) :
                Continue(Drop(stack, n) \o Encode(r, n))
  <2>1. \/ AbsResults(instr.kind, TopBits(stack, n)) = FloatBits
        \/ AbsResults(instr.kind, TopBits(stack, n)) \subseteq Values(n)
    BY DEF AbsResults
  <2>2. FloatBits \subseteq Int /\ Values(n) \subseteq Int
    BY <1>6, FloatBitsAssumption, NumericKinds DEF AbsKinds, ConvertKinds
  <2>3. PICK r \in Int : Continue(Drop(stack, n) \o Encode(r, n))
    BY <1>6, <2>1, <2>2
  <2>4. n <= n BY <1>1
  <2> HIDE DEF n
  <2> QED BY <1>1, <1>6, <2>3, <2>4, ResultStep
<1>7. CASE Holds(stack, total) /\ \E r \in FloatBits :
             Continue(Drop(stack, total) \o Encode(r, n))
  <2>1. PICK r \in Int : Continue(Drop(stack, total) \o Encode(r, n))
    BY <1>7, FloatBitsAssumption
  <2> HIDE DEF n, total
  <2> QED BY <1>1, <1>2, <1>7, <2>1, ResultStep
<1> QED BY <1>3, <1>4, <1>5, <1>6, <1>7 DEF ExecBuiltIn

\* Addresses are numbers, so pushing one is pushing four bytes.
LEMMA MakeAddressType ==
  ASSUME NEW segment \in Nat, NEW index \in Int
  PROVE  makeAddress(segment, index) \in Int
<1>1. Base3 \in Nat \ {0}
  BY PlaceType DEF Place
<1>2. segment * Base3 \in Nat /\ index % Base3 \in Int
  BY <1>1, ProductNatural
<1> QED BY <1>2 DEF makeAddress

LEMMA AddrKeeps ==
  ASSUME IInv, ExecAddr
  PROVE  IInv'
<1> DEFINE base == IF instr.segment = segmentFrame THEN Last(callFrames).localBase
                   ELSE 0
<1>1. Fetched("Addr") /\ StackFits(stack)
  BY StackType DEF ExecAddr
<1>2. CASE Abort(stack, "InvalidLifecycle") \/ Trap(stack, "InvalidAddress")
  BY <1>1, <1>2, StopStep DEF Statuses
<1>3. CASE /\ instr.segment = segmentFrame => callFrames # <<>>
           /\ PushOnto(stack, Encode(makeAddress(instr.segment,
                                                 base + instr.operand), 4))
  <2>1. instr.segment \in Nat /\ instr.operand \in Nat
    BY <1>1, FetchedType, ByteAssumption DEF Instruction, Byte
  <2>2. base \in Nat
    <3>1. CASE callFrames # <<>>
      <4>1. callFrames \in Seq(CallFrame) /\ Len(callFrames) \in 1 .. Len(callFrames)
        BY <3>1 DEF IInv, TypeOK
      <4>2. callFrames[Len(callFrames)] \in CallFrame
        BY <4>1
      <4> QED BY <4>2 DEF CallFrame, Last
    <3>2. CASE instr.segment # segmentFrame
      BY <3>2
    <3> QED BY <1>3, <3>1, <3>2
  <2>3. base + instr.operand \in Int
    BY <2>1, <2>2
  <2>4. Encode(makeAddress(instr.segment, base + instr.operand), 4) \in Seq(Byte)
    <3> HIDE DEF base
    <3>1. makeAddress(instr.segment, base + instr.operand) \in Int
      BY <2>1, <2>3, MakeAddressType
    <3> QED BY <3>1, EncodeType
  <2> QED BY <1>1, <1>3, <2>4, PushStep
<1> QED BY <1>2, <1>3 DEF ExecAddr

LEMMA OffsetKeeps ==
  ASSUME IInv, ExecOffset
  PROVE  IInv'
<1>1. Fetched("Offset") /\ StackFits(stack) /\ stack \in Seq(Byte)
  BY StackType DEF ExecOffset
<1>2. CASE Abort(AfterUnderflow(4), "StackUnderflow")
  BY <1>1, <1>2, UnderflowFits, StopStep DEF Statuses
<1>3. CASE Trap(Drop(stack, 8), "InvalidAddress")
  BY <1>1, <1>3, FailStep DEF Statuses
<1>4. ASSUME Holds(stack, 8), NEW index \in 0 .. addressIndexMask,
             Continue(Drop(stack, 8)
               \o Encode(makeAddress(AddressSegment(TopBits(Drop(stack, 4), 4)),
                                     index), 4))
      PROVE  IInv'
  <2>1. Drop(stack, 4) \in Seq(Byte) /\ Holds(Drop(stack, 4), 4)
    BY <1>1, <1>4, DropType DEF Holds
  <2>2. AddressSegment(TopBits(Drop(stack, 4), 4)) \in Nat
    BY <2>1, AddressType
  <2>3. index \in Int
    BY <1>4, PlaceType DEF addressIndexMask, Place
  <2>4. makeAddress(AddressSegment(TopBits(Drop(stack, 4), 4)), index) \in Int
    BY <2>2, <2>3, MakeAddressType
  <2> QED BY <1>1, <1>4, <2>4, ResultStep
<1> QED BY <1>2, <1>3, <1>4 DEF ExecOffset

LEMMA DereferenceKeeps ==
  ASSUME IInv, ExecDereference
  PROVE  IInv'
<1> DEFINE n == Size(instr.kind)
           address == TopBits(stack, 4)
           rest == Drop(stack, 4)
           segment == AddressSegment(address)
           source == SegmentWith(rest, segment)
<1>1. Fetched("Dereference") /\ StackFits(stack) /\ stack \in Seq(Byte) /\ n \in Nat
  BY StackType, SizeType DEF ExecDereference
<1>2. CASE Trap(stack, "InvalidValueKind") \/ Abort(stack, "StackUnderflow")
  BY <1>1, <1>2, StopStep DEF Statuses
<1>3. CASE \/ Trap(rest, "InvalidAddressSegment") \/ Abort(rest, "InvalidValueKind")
           \/ Abort(rest, "InvalidAddress")
  BY <1>1, <1>3, FailStep DEF Statuses
<1>4. CASE /\ Holds(stack, 4)
           /\ ValidSegment(segment)
           /\ InRange(source, AddressIndex(address), n)
           /\ PushOnto(rest, ReadBytes(source, AddressIndex(address), n))
  <2>1. StackFits(rest) /\ rest \in Seq(Byte)
    BY <1>1, DropFits DEF StackFits
  <2>2. source \in Seq(Byte)
    BY <1>4, <2>1, StackType DEF SegmentWith, ValidSegment
  <2>3. AddressIndex(address) \in Nat
    BY <1>1, <1>4, AddressType
  <2>4. ReadBytes(source, AddressIndex(address), n) \in Seq(Byte)
    <3> HIDE DEF n, address, source
    <3> QED BY <1>1, <1>4, <2>2, <2>3, ReadType
  <2> QED BY <1>1, <1>4, <2>1, <2>4, PushStep
<1> QED BY <1>2, <1>3, <1>4 DEF ExecDereference
LEMMA AssignKeeps ==
  ASSUME IInv, ExecAssign
  PROVE  IInv'
<1> DEFINE n == Size(instr.kind)
           address == TopBits(stack, 4)
           segment == AddressSegment(address)
           offset == AddressIndex(address)
           rest == Drop(stack, 4)
           value == Top(rest, n)
           left == Drop(rest, n)
           st == AssignStatus(rest, address, n)
<1>1. Fetched("Assign") /\ StackFits(stack) /\ stack \in Seq(Byte) /\ n \in Nat
  BY StackType, SizeType DEF ExecAssign
<1>2. StackFits(rest) /\ rest \in Seq(Byte)
  BY <1>1, DropFits DEF StackFits
<1>3. StackFits(left) /\ left \in Seq(Byte)
  BY <1>1, <1>2, DropFits DEF StackFits
<1>4. CASE Trap(stack, "InvalidValueKind") \/ Abort(stack, "StackUnderflow")
  BY <1>1, <1>4, StopStep DEF Statuses
<1>5. CASE Trap(rest, st)
  <2>1. st \in Statuses
    BY DEF AssignStatus, Statuses
  <2> QED BY <1>1, <1>5, <2>1, FailStep
<1>6. CASE Trap(left, "InvalidAddress")
  BY <1>1, <1>3, <1>6, StopStep DEF Statuses
<1>7. ASSUME Holds(stack, 4), st = "OK"
      PROVE  /\ offset \in Nat
             /\ value \in Seq(Byte)
             /\ segment \in Segments \ {segmentConst}
  <2>1. offset \in Nat
    BY <1>1, <1>7, AddressType
  <2>2. Holds(rest, n) /\ segment \in Segments \ {segmentConst}
    BY <1>7 DEF AssignStatus, ValidSegment
  <2>3. value \in Seq(Byte)
    BY <1>1, <1>2, <2>2, TopType
  <2> QED BY <2>1, <2>2, <2>3
<1>8. CASE /\ Holds(stack, 4)
           /\ st = "OK"
           /\ Continue(WriteBytes(left, offset, value))
  <2>1. StackFits(WriteBytes(left, offset, value))
    <3>1. offset \in Nat /\ value \in Seq(Byte)
      BY <1>7, <1>8
    <3> HIDE DEF left, offset, value
    <3> QED BY <1>3, <3>1, WriteType DEF StackFits
  <2> QED BY <1>1, <1>8, <2>1, ContinueStep
<1>9. CASE /\ Holds(stack, 4)
           /\ st = "OK"
           /\ segment # segmentStack
           /\ memory' = [memory EXCEPT
                ![segmentStack] = left,
                ![segment] = WriteBytes(@, offset, value)]
           /\ pc' = nextPC
           /\ UNCHANGED <<frameState, runState>>
  <2>1. memory \in [Segments -> Seq(Byte)]
    BY DEF IInv, TypeOK
  <2>2. /\ segment \in Segments \ {segmentConst, segmentStack}
        /\ offset \in Nat /\ value \in Seq(Byte)
    BY <1>7, <1>9
  <2>3. /\ WriteBytes(memory[segment], offset, value) \in Seq(Byte)
        /\ Len(WriteBytes(memory[segment], offset, value)) = Len(memory[segment])
    <3> HIDE DEF segment, offset, value
    <3> QED BY <2>1, <2>2, WriteType
  <2>4. {segmentStack, segmentFrame, segmentBSS, segmentData, segmentConst}
          \subseteq Segments
    BY DEF Segments, segmentStack, segmentFrame, segmentBSS, segmentConst,
           segmentData, segmentCount
  <2>5. segmentConst # segmentStack /\ segmentFrame # segmentStack
        /\ segmentBSS # segmentStack /\ segmentData # segmentStack
    BY DEF segmentStack, segmentFrame, segmentBSS, segmentConst, segmentData
  <2>6. /\ memory' \in [Segments -> Seq(Byte)]
        /\ memory'[segmentStack] = left
        /\ memory'[segmentConst] = memory[segmentConst]
        /\ \A s \in Segments \ {segmentStack} : Len(memory'[s]) = Len(memory[s])
    <3> HIDE DEF segment, offset, value, left, st
    <3> QED BY <1>3, <1>9, <2>1, <2>2, <2>3, <2>4, <2>5
  <2>7. SameShape
    <3> HIDE DEF left
    <3> QED BY <1>3, <2>4, <2>5, <2>6
            DEF SameShape, IInv, WorkspaceRespected, StackFits, stack, frameMemory
  <2> QED BY <1>1, <1>9, <2>7, FetchedType, MemoryStep
<1> QED BY <1>4, <1>5, <1>6, <1>8, <1>9 DEF ExecAssign
-----------------------------------------------------------------------------
(***************************************************************************)
(* Jumps, calls and returns.                                               *)
(***************************************************************************)

LEMMA JumpStep ==
  ASSUME IInv, NEW op, Fetched(op), NEW stk, StackFits(stk), JumpTo(stk)
  PROVE  IInv'
<1>1. CASE Trap(stk, "InvalidTarget")
  BY <1>1, StopStep DEF Statuses
<1>2. CASE /\ memory' = [memory EXCEPT ![segmentStack] = stk]
           /\ pc' = instr.operand
           /\ UNCHANGED <<frameState, runState>>
  <2>1. SameShape
    BY <1>2, NewStack DEF SameShape
  <2>2. pc' \in Nat
    BY <1>2, FetchedType DEF Instruction
  <2> QED BY <1>2, <2>1, <2>2, MemoryStep
<1> QED BY <1>1, <1>2 DEF JumpTo

LEMMA JumpKeeps == IInv /\ ExecJump => IInv'
BY StackType, JumpStep DEF ExecJump

LEMMA JumpIfFalseKeeps ==
  ASSUME IInv, ExecJumpIfFalse
  PROVE  IInv'
<1>1. Fetched("JumpIfFalse") /\ StackFits(stack)
  BY StackType DEF ExecJumpIfFalse
<1>2. StackFits(Drop(stack, 1))
  BY <1>1, DropFits
<1>3. CASE Abort(stack, "StackUnderflow")
  BY <1>1, <1>3, StopStep DEF Statuses
<1>4. CASE Continue(Drop(stack, 1))
  BY <1>1, <1>2, <1>4, ContinueStep
<1>5. CASE JumpTo(Drop(stack, 1))
  BY <1>1, <1>2, <1>5, JumpStep
<1> QED BY <1>3, <1>4, <1>5 DEF ExecJumpIfFalse

LEMMA CallExternKeeps ==
  ASSUME IInv, ExecCallExtern
  PROVE  IInv'
<1>1. Fetched("CallExtern") /\ StackFits(stack)
  BY StackType DEF ExecCallExtern
<1>2. CASE Trap(stack, "MissingExtern")
  BY <1>1, <1>2, StopStep DEF Statuses
<1>3. CASE /\ inHost' = TRUE
           /\ pc' = nextPC
           /\ UNCHANGED <<memory, frameState, fault, status, activations>>
  <2>1. UNCHANGED <<program, dispatcher, memory, callFrames, frameTop, fault, status,
                    activations>>
        /\ instructionPC' = pc /\ inHost' = TRUE /\ pc' = nextPC
    BY <1>1, <1>3 DEF Fetched, frameState
  <2>2. TypeOK'
    BY <1>1, <2>1, FetchedType DEF IInv, TypeOK
  <2>3. Running' /\ WorkspaceRespected' /\ ProgramImageIntact'
    BY <2>1 DEF IInv, Running, WorkspaceRespected, ProgramImageIntact, stack,
                frameMemory
  <2> QED BY <2>2, <2>3 DEF IInv
<1> QED BY <1>2, <1>3 DEF ExecCallExtern

\* A call has finitely many argument bytes.
LEMMA ArgumentsFinite ==
  ASSUME NEW p, NEW d \in Descriptor
  PROVE  IsFiniteSet(Arguments(p, d)) /\ Cardinality(Arguments(p, d)) \in Nat
<1> DEFINE pairs == (1 .. d.paramCount) \X (1 .. 8)
<1>1. d.paramCount \in Int
  BY DEF Descriptor
<1>2. IsFiniteSet(1 .. d.paramCount)
  BY <1>1, FS_Interval
<1>3. IsFiniteSet(1 .. 8)
  <2>1. PICK m \in Int : m = 8
    OBVIOUS
  <2>2. IsFiniteSet(1 .. m)
    BY FS_Interval
  <2> QED BY <2>1, <2>2
<1>4. IsFiniteSet(pairs)
  BY <1>2, <1>3, FS_Product
<1>5. Arguments(p, d) \in SUBSET pairs
  BY DEF Arguments
<1> HIDE DEF pairs
<1>6. IsFiniteSet(Arguments(p, d))
  BY <1>4, <1>5, FS_Subset
<1> QED BY <1>6, FS_CardinalityType

\* A call that passes the checks of enterScriptFunction has room for its frame.
LEMMA EntryAdmitted ==
  ASSUME NEW p \in 1 .. Len(Programs), NEW f \in Nat, NEW stk \in Seq(Byte),
         NEW base \in Nat, NEW depth \in Nat, EntryStatus(p, f, stk, base, depth) = "OK"
  PROVE  /\ Programs[p].functions[f + 1] \in Descriptor
         /\ base + Programs[p].functions[f + 1].frameByteSize <= FrameCapacity
         /\ argumentBytes(p, Programs[p].functions[f + 1]) <= Len(stk)
         /\ ParamsInPool(p, Programs[p].functions[f + 1])
         /\ depth < MaxCallFrames
<1> DEFINE d == Programs[p].functions[f + 1]
<1>1. Programs[p].functions \in Seq(Descriptor)
  BY ProgramsAssumption DEF IsLinkedProgram
<1>2. f < Len(Programs[p].functions)
  BY <1>1 DEF EntryStatus
<1>3. d \in Descriptor
  BY <1>1, <1>2
<1>4. /\ ~(argumentBytes(p, d) > Len(stk))
      /\ ~(base + d.frameByteSize > FrameCapacity)
      /\ ~(depth >= MaxCallFrames)
      /\ ParamsInPool(p, d)
  BY DEF EntryStatus
<1>5. argumentBytes(p, d) \in Nat /\ d.frameByteSize \in Nat /\ MaxCallFrames \in Nat
  BY <1>3, ArgumentsFinite, CapacityAssumption
     DEF argumentBytes, Descriptor, MaxCallFrames
<1> HIDE DEF d
<1>6. /\ argumentBytes(p, d) <= Len(stk)
      /\ base + d.frameByteSize <= FrameCapacity
      /\ depth < MaxCallFrames
  BY <1>4, <1>5, CapacityAssumption
<1> QED BY <1>3, <1>4, <1>6 DEF d

\* The argument bytes of a call are as many as the checks counted, and the
\* copied byte lies among them.
LEMMA ArgumentOnStack ==
  ASSUME NEW p \in 1 .. Len(Programs), NEW d \in Descriptor, NEW stk \in Seq(Byte),
         argumentBytes(p, d) <= Len(stk), NEW k \in 1 .. d.paramCount,
         NEW b \in 1 .. Size(ParamKind(p, d, k))
  PROVE  ArgumentPosition(p, d, stk, k, b) \in 1 .. Len(stk)
<1> DEFINE all == Arguments(p, d)
           before == ArgumentsBefore(p, d, k)
           these == {k} \X (1 .. b)
<1>1. d.paramCount \in Nat
  BY DEF Descriptor
<1>2. b \in 1 .. 8 /\ b \in Nat
  BY SizeType
<1>3. IsFiniteSet(all) /\ Cardinality(all) \in Nat
  BY ArgumentsFinite
<1>5. before \in SUBSET all /\ these \in SUBSET all /\ before \cap these = {}
  <2>1. before \in SUBSET all
    BY DEF ArgumentsBefore
  <2>2. these \in SUBSET all
    <3>1. SUFFICES ASSUME NEW c \in 1 .. b PROVE <<k, c>> \in all
      BY <3>1
    <3>2. c \in 1 .. 8 /\ c <= Size(ParamKind(p, d, k))
      BY <1>2, SizeType
    <3> QED BY <3>2 DEF Arguments
  <2>3. before \cap these = {}
    BY <1>1 DEF ArgumentsBefore
  <2> QED BY <2>1, <2>2, <2>3
<1>6. IsFiniteSet(these) /\ Cardinality(these) = b
  <2>1. IsFiniteSet({k}) /\ Cardinality({k}) = 1
    BY FS_Singleton
  <2>2. IsFiniteSet(1 .. b) /\ Cardinality(1 .. b) = b
    BY <1>2, FS_Interval
  <2>3. IsFiniteSet(these) /\ Cardinality(these) = 1 * b
    BY ZenonT(30), <2>1, <2>2, FS_Product
  <2> QED BY <1>2, <2>3
<1>7. IsFiniteSet(before) /\ Cardinality(before) \in Nat
  BY <1>3, <1>5, FS_Subset, FS_CardinalityType
<1>8. Cardinality(before \cup these) = Cardinality(before) + b
  <2>1. Cardinality(before \cup these)
          = Cardinality(before) + Cardinality(these) - Cardinality(before \cap these)
    BY <1>6, <1>7, FS_Union
  <2>2. Cardinality(before \cap these) = 0
    BY <1>5, FS_EmptySet
  <2> QED BY <1>2, <1>6, <1>7, <2>1, <2>2
<1>9. Cardinality(before \cup these) <= Cardinality(all) /\ Cardinality(all) \in Nat
  <2>1. before \cup these \in SUBSET all
    BY <1>5
  <2> QED BY <1>3, <2>1, FS_Subset
<1>10. /\ argumentBytes(p, d) = Cardinality(all)
       /\ ArgumentPosition(p, d, stk, k, b)
            = Len(stk) - Cardinality(all) + Cardinality(before) + b
  BY DEF argumentBytes, ArgumentPosition
<1> HIDE DEF all, before, these
<1> QED BY <1>2, <1>7, <1>8, <1>9, <1>10
\* Entering a function changes bytes of the frame buffer, never its size.
LEMMA EnteredFrameType ==
  ASSUME NEW p \in 1 .. Len(Programs), NEW d \in Descriptor, ParamsInPool(p, d),
         NEW frm \in Seq(Byte), NEW stk \in Seq(Byte), NEW base \in Nat,
         argumentBytes(p, d) <= Len(stk)
  PROVE  /\ EnteredFrame(p, d, frm, stk, base) \in Seq(Byte)
         /\ Len(EnteredFrame(p, d, frm, stk, base)) = Len(frm)
<1> DEFINE at(i) == ParamsAt(p, d, i - base)
           first(i) == CHOOSE j \in at(i) : \A l \in at(i) : j <= l
           b(i) == i - base - ParamOffset(p, d, first(i))
           entered == EnteredFrame(p, d, frm, stk, base)
<1>1. \A k \in 1 .. d.paramCount : ParamOffset(p, d, k) \in Nat
  <2>1. Programs[p].paramOffsets \in Seq(Nat)
    BY ProgramsAssumption DEF IsLinkedProgram
  <2>2. d.paramStart \in Nat /\ d.paramCount \in Nat
    BY DEF Descriptor
  <2>3. d.paramStart + d.paramCount <= Len(Programs[p].paramOffsets)
    BY DEF ParamsInPool
  <2>4. ASSUME NEW k \in 1 .. d.paramCount
        PROVE  d.paramStart + k \in 1 .. Len(Programs[p].paramOffsets)
    <3> DEFINE start == d.paramStart
               count == d.paramCount
               length == Len(Programs[p].paramOffsets)
    <3>1. /\ start \in Nat /\ count \in Nat /\ length \in Nat
          /\ start + count <= length /\ k \in 1 .. count
      BY <2>1, <2>2, <2>3
    <3> HIDE DEF start, count, length
    <3>2. start + k \in 1 .. length
      BY <3>1
    <3> QED BY <3>2 DEF start, length
  <2> QED BY SMTT(20), <2>1, <2>4 DEF ParamOffset
<1>2. ASSUME NEW i \in 1 .. Len(frm), at(i) # {}
      PROVE  stk[ArgumentPosition(p, d, stk, first(i), b(i))] \in Byte
  <2>1. at(i) \subseteq 1 .. d.paramCount /\ d.paramCount \in Nat
    <3>1. at(i) \subseteq 1 .. d.paramCount
      BY DEF ParamsAt
    <3>2. d.paramCount \in Nat
      BY DEF Descriptor
    <3> QED BY <3>1, <3>2
  <2>2. at(i) \subseteq Nat
    BY <2>1
  <2>3. \E j \in at(i) : \A l \in at(i) : j <= l
    <3> HIDE DEF at
    <3> QED BY <1>2, <2>2, LeastMember
  <2>4. first(i) \in at(i)
    <3> HIDE DEF at
    <3> QED BY <2>3
  <2> DEFINE k == first(i)
  <2>5. k \in 1 .. d.paramCount
    BY <2>1, <2>4
  <2>6. i - base \in ParamOffset(p, d, k) + 1
                        .. ParamOffset(p, d, k) + Size(ParamKind(p, d, k))
    <3> HIDE DEF k
    <3>1. k \in ParamsAt(p, d, i - base)
      BY <2>4 DEF k
    <3> QED BY <3>1 DEF ParamsAt
  <2> HIDE DEF k
  <2>7. i - base - ParamOffset(p, d, k) \in 1 .. Size(ParamKind(p, d, k))
    <3>1. ParamOffset(p, d, k) \in Nat /\ Size(ParamKind(p, d, k)) \in Nat
      BY <1>1, <2>5, SizeType
    <3> QED BY <2>6, <3>1
  <2>8. ArgumentPosition(p, d, stk, k, i - base - ParamOffset(p, d, k))
          \in 1 .. Len(stk)
    BY <2>5, <2>7, ArgumentOnStack
  <2> QED BY <2>8 DEF k
<1>3. ASSUME NEW i \in 1 .. Len(frm)
      PROVE  \/ entered[i] = frm[i]
             \/ entered[i] = 0
             \/ at(i) # {} /\ entered[i]
                  = stk[ArgumentPosition(p, d, stk, first(i), b(i))]
  BY DEF EnteredFrame
<1>4. \A i \in 1 .. Len(frm) : entered[i] \in Byte
  <2>1. 0 \in Byte /\ \A i \in 1 .. Len(frm) : frm[i] \in Byte
    BY ByteAssumption DEF Byte
  <2> HIDE DEF at, first, b, entered
  <2> QED BY <1>2, <1>3, <2>1
<1>5. entered = [i \in 1 .. Len(frm) |-> entered[i]]
  BY DEF EnteredFrame
<1> HIDE DEF entered
<1>6. entered \in Seq(Byte) /\ Len(entered) = Len(frm)
  BY <1>4, <1>5
<1> QED BY <1>6 DEF entered
\* The part of WorkspaceRespected that is about call frames.
FramesOrdered(frames, top) ==
  /\ Len(frames) <= MaxCallFrames
  /\ \A i \in 1 .. Len(frames) : frames[i].localBase <= top
  /\ \A i, j \in 1 .. Len(frames) :
       i <= j => frames[i].localBase <= frames[j].localBase

\* A frame on top of the others.
LEMMA AppendOrdered ==
  ASSUME NEW frames \in Seq(CallFrame), NEW top \in Nat, FramesOrdered(frames, top),
         Len(frames) < MaxCallFrames, NEW size \in Nat,
         NEW frame \in CallFrame, frame.localBase = top
  PROVE  /\ Append(frames, frame) \in Seq(CallFrame)
         /\ FramesOrdered(Append(frames, frame), top + size)
<1> DEFINE new == Append(frames, frame)
<1>1. /\ new \in Seq(CallFrame)
      /\ Len(new) = Len(frames) + 1
      /\ new[Len(frames) + 1] = frame
      /\ \A i \in 1 .. Len(frames) : new[i] = frames[i]
  OBVIOUS
<1>2. MaxCallFrames \in Nat
  BY CapacityAssumption DEF MaxCallFrames
<1>3. \A i \in 1 .. Len(new) : new[i].localBase \in Nat
  <2>1. \A i \in 1 .. Len(new) : new[i] \in CallFrame
    BY <1>1
  <2> QED BY <2>1 DEF CallFrame
<1>4. \A i \in 1 .. Len(new) : i <= Len(frames) \/ i = Len(frames) + 1
  BY <1>1
<1>5. \A i \in 1 .. Len(new) : new[i].localBase <= top
  <2>1. \A i \in 1 .. Len(new) : i <= Len(frames) => new[i].localBase <= top
    BY <1>1 DEF FramesOrdered
  <2> QED BY <1>1, <1>4, <2>1
<1>6. ASSUME NEW i \in 1 .. Len(new), NEW j \in 1 .. Len(new), i <= j
      PROVE  new[i].localBase <= new[j].localBase
  <2>1. CASE j = Len(frames) + 1
    BY <1>1, <1>5, <2>1
  <2>2. CASE j <= Len(frames)
    <3>1. i \in 1 .. Len(frames) /\ j \in 1 .. Len(frames)
      BY <1>6, <2>2
    <3>2. new[i] = frames[i] /\ new[j] = frames[j]
      BY <1>1, <3>1
    <3> QED BY <1>6, <3>1, <3>2 DEF FramesOrdered
  <2> QED BY <1>4, <2>1, <2>2
<1>7. \A i \in 1 .. Len(new) : new[i].localBase <= top + size
  <2> HIDE DEF new
  <2> QED BY <1>3, <1>5
<1>8. Len(new) <= MaxCallFrames
  BY <1>1, <1>2
<1> HIDE DEF new
<1>9. FramesOrdered(new, top + size)
  BY <1>6, <1>7, <1>8 DEF FramesOrdered
<1> QED BY <1>1, <1>9 DEF new

\* Leaving a frame uncovers the ones below, which end where it began.
LEMMA FrontOrdered ==
  ASSUME NEW frames \in Seq(CallFrame), frames # <<>>, NEW top \in Nat,
         FramesOrdered(frames, top)
  PROVE  /\ Last(frames) \in CallFrame
         /\ Last(frames).localBase <= top
         /\ Front(frames) \in Seq(CallFrame)
         /\ FramesOrdered(Front(frames), top)
         /\ FramesOrdered(Front(frames), Last(frames).localBase)
<1>1. Len(frames) \in 1 .. Len(frames) /\ Len(frames) \in Nat
  OBVIOUS
<1>2. Last(frames) = frames[Len(frames)] /\ Last(frames) \in CallFrame
  BY <1>1 DEF Last
<1>3. /\ Front(frames) \in Seq(CallFrame)
      /\ Len(Front(frames)) = Len(frames) - 1
      /\ \A i \in 1 .. Len(frames) - 1 : Front(frames)[i] = frames[i]
  <2>1. Front(frames) = [i \in 1 .. Len(frames) - 1 |-> frames[i]]
    BY <1>1 DEF Front
  <2>2. \A i \in 1 .. Len(frames) - 1 : frames[i] \in CallFrame
    BY <1>1
  <2>3. Len(frames) - 1 \in Nat
    BY <1>1
  <2> QED BY <2>1, <2>2, <2>3
<1>4. MaxCallFrames \in Nat
  BY CapacityAssumption DEF MaxCallFrames
<1>5. Len(Front(frames)) <= MaxCallFrames
  BY <1>1, <1>3, <1>4 DEF FramesOrdered
<1>6. \A i \in 1 .. Len(frames) - 1 : i \in 1 .. Len(frames) /\ i <= Len(frames)
  BY <1>1
<1>7. \A i, j \in 1 .. Len(frames) - 1 :
        i <= j => Front(frames)[i].localBase <= Front(frames)[j].localBase
  BY <1>3, <1>6 DEF FramesOrdered
<1>8. \A i \in 1 .. Len(frames) - 1 :
        /\ Front(frames)[i].localBase <= top
        /\ Front(frames)[i].localBase <= Last(frames).localBase
  BY <1>1, <1>2, <1>3, <1>6 DEF FramesOrdered
<1> QED BY <1>1, <1>2, <1>3, <1>5, <1>7, <1>8 DEF FramesOrdered

LEMMA CallKeeps ==
  ASSUME IInv, ExecCall
  PROVE  IInv'
<1> DEFINE st == EntryStatus(program, instr.operand, stack, frameTop, Len(callFrames))
           d == Programs[program].functions[instr.operand + 1]
           entered == EnteredFrame(program, d, frameMemory, stack, frameTop)
           dropped == Drop(stack, argumentBytes(program, d))
           frame == [returnPC |-> nextPC, localBase |-> frameTop,
                     returnKind |-> d.returnKind]
<1>1. /\ Fetched("Call") /\ StackFits(stack) /\ stack \in Seq(Byte)
      /\ frameMemory \in Seq(Byte)
  <2>1. segmentFrame \in Segments
    BY DEF segmentFrame, Segments, segmentCount
  <2> QED BY <2>1, StackType DEF ExecCall, frameMemory
<1>2. CASE Trap(stack, st)
  <2>1. st \in Statuses
    BY DEF EntryStatus, Statuses
  <2> QED BY <1>1, <1>2, <2>1, StopStep
<1>3. CASE /\ st = "OK"
           /\ memory' = [memory EXCEPT
                ![segmentFrame] = EnteredFrame(program, d, @, stack, frameTop),
                ![segmentStack] = Drop(@, argumentBytes(program, d))]
           /\ callFrames' = Append(callFrames, frame)
           /\ frameTop' = frameTop + d.frameByteSize
           /\ pc' = d.bodyAddress
           /\ UNCHANGED runState
  <2>1. /\ program \in 1 .. Len(Programs) /\ nextPC \in Nat
        /\ activations # <<>> /\ activations \in Seq(1 .. Len(Programs))
        /\ instr.operand \in Nat /\ pc \in Nat
    BY <1>1, FetchedType DEF Instruction
  <2>2. /\ frameTop \in Nat /\ callFrames \in Seq(CallFrame)
        /\ memory \in [Segments -> Seq(Byte)]
    BY DEF IInv, TypeOK
  <2>3. /\ d \in Descriptor
        /\ frameTop + d.frameByteSize <= FrameCapacity
        /\ argumentBytes(program, d) <= Len(stack)
        /\ ParamsInPool(program, d)
        /\ Len(callFrames) < MaxCallFrames
    <3>1. Len(callFrames) \in Nat
      BY <2>2
    <3> QED BY <1>1, <1>3, <2>1, <2>2, <3>1, EntryAdmitted
  <2>4. /\ d.bodyAddress \in Nat /\ d.frameByteSize \in Nat
        /\ d.returnKind \in Kinds /\ argumentBytes(program, d) \in Nat
    BY <2>3, ArgumentsFinite DEF Descriptor, argumentBytes
  <2>5. entered \in Seq(Byte) /\ Len(entered) = Len(frameMemory)
    <3> HIDE DEF d
    <3> QED BY <1>1, <2>1, <2>2, <2>3, EnteredFrameType
  <2>6. StackFits(dropped) /\ dropped \in Seq(Byte)
    <3> HIDE DEF d
    <3> QED BY <1>1, <2>4, DropFits DEF StackFits
  <2>7. Append(callFrames, frame) \in Seq(CallFrame)
        /\ FramesOrdered(Append(callFrames, frame), frameTop + d.frameByteSize)
    <3>1. frame \in CallFrame /\ frame.localBase = frameTop
      BY <2>1, <2>2, <2>4 DEF CallFrame
    <3>2. FramesOrdered(callFrames, frameTop)
      BY DEF IInv, WorkspaceRespected, FramesOrdered
    <3> HIDE DEF d, frame
    <3> QED BY <2>2, <2>3, <2>4, <3>1, <3>2, AppendOrdered
  <2>8. /\ memory' \in [Segments -> Seq(Byte)]
        /\ memory'[segmentStack] = dropped
        /\ memory'[segmentFrame] = entered
        /\ memory'[segmentConst] = memory[segmentConst]
        /\ memory'[segmentBSS] = memory[segmentBSS]
        /\ memory'[segmentData] = memory[segmentData]
    <3>1. memory' = [memory EXCEPT ![segmentFrame] = entered, ![segmentStack] = dropped]
      BY <1>3, <2>2 DEF frameMemory, stack, segmentFrame, segmentStack
    <3>2. /\ {segmentStack, segmentFrame, segmentBSS, segmentData, segmentConst}
               \subseteq Segments
          /\ segmentStack # segmentFrame
          /\ {segmentBSS, segmentData, segmentConst} \cap
               {segmentStack, segmentFrame} = {}
      BY DEF Segments, segmentStack, segmentFrame, segmentBSS, segmentConst,
             segmentData, segmentCount
    <3> HIDE DEF entered, dropped
    <3>3. memory'[segmentStack] = dropped /\ memory'[segmentFrame] = entered
      BY <2>2, <3>1, <3>2
    <3>4. \A s \in Segments \ {segmentStack, segmentFrame} : memory'[s] = memory[s]
      BY <2>2, <3>1
    <3>5. memory' \in [Segments -> Seq(Byte)]
      BY <2>2, <2>5, <2>6, <3>1
    <3> QED BY <3>2, <3>3, <3>4, <3>5
  <2>9. UNCHANGED <<program, dispatcher, fault, status, activations, inHost>>
        /\ instructionPC' = pc
    <3>1. UNCHANGED <<program, dispatcher>> /\ instructionPC' = pc
      BY <1>1 DEF Fetched
    <3>2. UNCHANGED runState
      BY <1>3
    <3>3. UNCHANGED <<fault, status, activations, inHost>>
      BY <3>2 DEF runState
    <3> QED BY <3>1, <3>3
  <2>10. frameTop' \in Nat
    <3>1. frameTop' = frameTop + d.frameByteSize
      BY <1>3
    <3> HIDE DEF d
    <3> QED BY <2>2, <2>4, <3>1
  <2> HIDE DEF d, entered, dropped, frame
  <2>11. TypeOK'
    BY <1>3, <2>1, <2>4, <2>7, <2>8, <2>9, <2>10 DEF IInv, TypeOK
  <2>12. Running'
    BY <2>9 DEF IInv, Running
  <2>13. WorkspaceRespected'
    <3>1. Len(stack') <= StackCapacity
      BY <2>6, <2>8 DEF StackFits, stack
    <3>2. Len(frameMemory') = FrameCapacity
      BY <2>5, <2>8 DEF IInv, WorkspaceRespected, frameMemory
    <3>3. FramesOrdered(callFrames', frameTop')
      BY <1>3, <2>7
    <3>4. frameTop' <= FrameCapacity
      BY <1>3, <2>3
    <3> QED BY <3>1, <3>2, <3>3, <3>4 DEF WorkspaceRespected, FramesOrdered
  <2>14. ProgramImageIntact'
    BY <2>8, <2>9 DEF IInv, ProgramImageIntact
  <2> QED BY <2>11, <2>12, <2>13, <2>14 DEF IInv
<1> QED BY <1>2, <1>3 DEF ExecCall
\* Fault diagnostics stay well formed.
LEMMA FaultType ==
  ASSUME IInv, NEW at \in Nat \cup {NoPC}, NEW st \in Statuses,
         setFault(at, st) \/ recordStatus(at, st)
  PROVE  fault' \in FaultInfo
<1>1. FaultAt(at, st) \in FaultInfo
  BY DEF FaultAt, FaultInfo, Statuses
<1> QED BY <1>1 DEF setFault, recordStatus, IInv, TypeOK

\* What is left of the running loops when the innermost one returns.
LEMMA OuterLoops ==
  ASSUME activations \in Seq(1 .. Len(Programs)), activations # <<>>
  PROVE  Front(activations) \in Seq(1 .. Len(Programs))
<1>1. Len(activations) - 1 \in Nat
  OBVIOUS
<1>2. \A i \in 1 .. Len(activations) - 1 : activations[i] \in 1 .. Len(Programs)
  OBVIOUS
<1>3. Front(activations) = [i \in 1 .. Len(activations) - 1 |-> activations[i]]
  BY <1>1 DEF Front
<1> QED BY <1>1, <1>2, <1>3

LEMMA RetKeeps ==
  ASSUME IInv, ExecRet
  PROVE  IInv'
<1> DEFINE st == ResultStatus(Last(callFrames).returnKind)
<1>1. Fetched("Ret") /\ UNCHANGED memory
  BY DEF ExecRet
<1>2. /\ activations # <<>> /\ activations \in Seq(1 .. Len(Programs))
      /\ program \in 1 .. Len(Programs) /\ nextPC \in Nat /\ pc \in Nat
  BY <1>1, FetchedType
<1>3. UNCHANGED <<memory, program, dispatcher>> /\ instructionPC' = pc
  BY <1>1 DEF Fetched
<1>4. callFrames \in Seq(CallFrame) /\ frameTop \in Nat
      /\ FramesOrdered(callFrames, frameTop) /\ frameTop <= FrameCapacity
      /\ FrameCapacity \in Nat
  BY CapacityAssumption DEF IInv, TypeOK, WorkspaceRespected, FramesOrdered
<1>5. st \in Statuses
  BY DEF ResultStatus, Statuses
\* Whatever the return does, it is of this form.
<1>6. /\ callFrames' \in Seq(CallFrame) /\ frameTop' \in Nat
      /\ FramesOrdered(callFrames', frameTop') /\ frameTop' <= FrameCapacity
      /\ pc' \in Nat
      /\ fault' \in FaultInfo
      /\ \/ /\ status' \in Statuses
            /\ activations' = Front(activations)
            /\ inHost' = TRUE
         \/ UNCHANGED <<status, activations, inHost>>
  <2>1. CASE /\ callFrames = <<>>
             /\ recordStatus(pc, "InvalidLifecycle")
             /\ ReturnToHost("InvalidLifecycle")
             /\ pc' = nextPC
             /\ UNCHANGED frameState
    <3>1. fault' \in FaultInfo
      BY <1>2, <2>1, FaultType DEF Statuses
    <3> QED BY <1>2, <1>4, <2>1, <3>1 DEF ReturnToHost, frameState, Statuses
  <2>2. CASE /\ callFrames # <<>>
             /\ recordStatus(pc, st)
             /\ ReturnToHost(st)
             /\ pc' = nextPC
             /\ callFrames' = Front(callFrames)
             /\ UNCHANGED frameTop
    <3> HIDE DEF st
    <3>1. fault' \in FaultInfo
      BY <1>2, <1>5, <2>2, FaultType
    <3>2. /\ Front(callFrames) \in Seq(CallFrame)
          /\ FramesOrdered(Front(callFrames), frameTop)
      BY <1>4, <2>2, FrontOrdered
    <3> QED BY <1>2, <1>4, <1>5, <2>2, <3>1, <3>2 DEF ReturnToHost
  <2>3. CASE /\ callFrames # <<>>
             /\ callFrames' = Front(callFrames)
             /\ frameTop' = Last(callFrames).localBase
             /\ IF EndsRun
                THEN pc' = nextPC /\ UNCHANGED fault /\ ReturnToHost("OK")
                ELSE pc' = Last(callFrames).returnPC /\ UNCHANGED runState
    <3>1. /\ Last(callFrames) \in CallFrame
          /\ Last(callFrames).localBase <= frameTop
          /\ Front(callFrames) \in Seq(CallFrame)
          /\ FramesOrdered(Front(callFrames), Last(callFrames).localBase)
      BY <1>4, <2>3, FrontOrdered
    <3>2. Last(callFrames).returnPC \in Nat /\ Last(callFrames).localBase \in Nat
      BY <3>1 DEF CallFrame
    <3>3. frameTop' \in Nat /\ frameTop' <= FrameCapacity
      BY <1>4, <2>3, <3>1, <3>2
    <3>4. UNCHANGED fault /\ pc' \in Nat
      BY <1>2, <2>3, <3>2 DEF runState
    <3>5. \/ /\ status' \in Statuses
             /\ activations' = Front(activations)
             /\ inHost' = TRUE
          \/ UNCHANGED <<status, activations, inHost>>
      BY <2>3 DEF runState, ReturnToHost, Statuses
    <3>6. fault' \in FaultInfo
      BY <3>4 DEF IInv, TypeOK
    <3> QED BY <2>3, <3>1, <3>3, <3>4, <3>5, <3>6
  <2> QED BY <2>1, <2>2, <2>3 DEF ExecRet
<1>7. Front(activations) \in Seq(1 .. Len(Programs))
  BY <1>2, OuterLoops
<1>8. TypeOK'
  BY <1>2, <1>3, <1>6, <1>7 DEF IInv, TypeOK
<1>9. Running'
  BY <1>2, <1>3, <1>6 DEF IInv, Running, NoProgram
<1>10. WorkspaceRespected'
  BY <1>3, <1>6 DEF IInv, WorkspaceRespected, FramesOrdered, stack, frameMemory
<1>11. ProgramImageIntact'
  BY <1>3 DEF IInv, ProgramImageIntact
<1> QED BY <1>8, <1>9, <1>10, <1>11 DEF IInv

\* The two ways a loop stops without executing an instruction.
LEMMA LoopEndKeeps ==
  ASSUME IInv, RunOffEnd \/ TruncatedInstruction
  PROVE  IInv'
<1>1. ~inHost /\ activations # <<>> /\ activations \in Seq(1 .. Len(Programs))
      /\ program \in 1 .. Len(Programs) /\ pc \in Nat
  BY ProgramsAssumption
     DEF RunOffEnd, TruncatedInstruction, IInv, Running, TypeOK, NoProgram
<1>2. /\ UNCHANGED <<memory, program, dispatcher, callFrames, frameTop>>
      /\ activations' = Front(activations) /\ inHost' = TRUE
      /\ status' \in Statuses
      /\ instructionPC' \in Nat \cup {NoPC}
  BY <1>1 DEF RunOffEnd, TruncatedInstruction, ReturnToHost, frameState, Statuses,
              IInv, TypeOK
<1>3. pc' \in Nat
  BY <1>1 DEF RunOffEnd, TruncatedInstruction, opcodeEnd
<1>4. fault' \in FaultInfo
  <2>1. CASE RunOffEnd
    BY <2>1 DEF RunOffEnd, IInv, TypeOK
  <2>2. CASE TruncatedInstruction
    BY <1>1, <2>2, FaultType DEF TruncatedInstruction, Statuses
  <2> QED BY <2>1, <2>2
<1>5. TypeOK'
  BY <1>1, <1>2, <1>3, <1>4, OuterLoops DEF IInv, TypeOK
<1>6. Running'
  BY <1>1, <1>2 DEF IInv, Running, NoProgram
<1>7. WorkspaceRespected' /\ ProgramImageIntact'
  BY <1>2 DEF IInv, WorkspaceRespected, ProgramImageIntact, stack, frameMemory
<1> QED BY <1>5, <1>6, <1>7 DEF IInv
LEMMA ExecuteKeeps == IInv /\ Execute => IInv'
BY LoopEndKeeps, UndefinedKeeps, PushKeeps, ArithmeticKeeps, CompareKeeps,
   ConvertKeeps, BuiltInKeeps, AddrKeeps, OffsetKeeps, DereferenceKeeps,
   AssignKeeps, JumpKeeps, JumpIfFalseKeeps, CallKeeps, CallExternKeeps, RetKeeps
   DEF Execute

-----------------------------------------------------------------------------
(***************************************************************************)
(* The host API.                                                           *)
(***************************************************************************)

\* A call of the host that leaves the call frames alone.
LEMMA HostStepFrames ==
  ASSUME IInv, UNCHANGED <<loopState, hostControl>>,
         memory' \in [Segments -> Seq(Byte)],
         Len(stack') <= StackCapacity, Len(frameMemory') = FrameCapacity,
         program' \in 0 .. Len(Programs),
         program # NoProgram => program' # NoProgram,
         ProgramImageIntact',
         dispatcher' \in BOOLEAN, fault' \in FaultInfo,
         instructionPC' \in Nat \cup {NoPC}, status' \in Statuses
  PROVE  IInv'
<1>1. UNCHANGED <<pc, callFrames, frameTop, activations, inHost>>
  BY DEF loopState, hostControl
<1>2. TypeOK'
  BY <1>1 DEF IInv, TypeOK
<1>3. Running'
  BY <1>1 DEF IInv, Running
<1>4. WorkspaceRespected'
  BY <1>1 DEF IInv, WorkspaceRespected
<1> QED BY <1>2, <1>3, <1>4 DEF IInv

\* Segment numbers are distinct members of Segments.
LEMMA SegmentNumbers ==
  /\ {segmentFrame, segmentBSS, segmentExtern, segmentConst, segmentData,
      segmentStack} \subseteq Segments
  /\ segmentFrame = 1 /\ segmentBSS = 2 /\ segmentExtern = 3
  /\ segmentConst = 4 /\ segmentData = 5 /\ segmentStack = 6
BY DEF Segments, segmentFrame, segmentBSS, segmentExtern, segmentConst,
       segmentData, segmentStack, segmentCount

LEMMA ResizedType ==
  ASSUME NEW segment \in Seq(Byte), NEW n \in Nat
  PROVE  Resized(segment, n) \in Seq(Byte) /\ Len(Resized(segment, n)) = n
BY ZerosType DEF Resized

LEMMA LoadProgramKeeps ==
  ASSUME IInv, NEW p \in {NoProgram} \cup Loadable, LoadProgram(p)
  PROVE  IInv'
<1>1. p \in 0 .. Len(Programs)
  BY ProgramsAssumption DEF Loadable, NoProgram
<1>2. LoadStatus(p) \in Statuses /\ (LoadStatus(p) = "OK" => p \in 1 .. Len(Programs))
  BY <1>1 DEF LoadStatus, Statuses, NoProgram
<1>3. /\ fault' \in FaultInfo /\ status' \in Statuses
      /\ instructionPC' \in Nat \cup {NoPC}
  BY <1>2 DEF LoadProgram, FaultAt, noVMFault, FaultInfo, Statuses
<1>4. UNCHANGED <<loopState, dispatcher, hostControl>> /\ dispatcher' \in BOOLEAN
  BY DEF LoadProgram, IInv, TypeOK
<1>5. memory \in [Segments -> Seq(Byte)]
  BY DEF IInv, TypeOK
<1>6. CASE status' = "OK"
  <2>1. InstallProgram(p) /\ p \in 1 .. Len(Programs)
    BY <1>2, <1>6 DEF LoadProgram
  <2>2. /\ Programs[p].bssByteSize \in Nat /\ Programs[p].dataByteSize \in Nat
        /\ Programs[p].constData \in Seq(Byte)
    BY <2>1, ProgramsAssumption DEF IsLinkedProgram
  <2> DEFINE bss == Resized(memory[segmentBSS], Programs[p].bssByteSize)
             data == Resized(memory[segmentData], Programs[p].dataByteSize)
             const == Programs[p].constData
  <2>3. /\ bss \in Seq(Byte) /\ Len(bss) = Programs[p].bssByteSize
        /\ data \in Seq(Byte) /\ Len(data) = Programs[p].dataByteSize
    BY <1>5, <2>2, SegmentNumbers, ResizedType
  <2>4. memory' = [memory EXCEPT ![segmentBSS] = bss, ![segmentData] = data,
                                 ![segmentConst] = const]
    BY <1>5, <2>1, SegmentNumbers DEF InstallProgram
  <2> HIDE DEF bss, data, const
  <2>5. memory' \in [Segments -> Seq(Byte)]
    BY <1>5, <2>2, <2>3, <2>4 DEF const
  <2>6. /\ memory'[segmentBSS] = bss /\ memory'[segmentData] = data
        /\ memory'[segmentConst] = const
        /\ memory'[segmentStack] = memory[segmentStack]
        /\ memory'[segmentFrame] = memory[segmentFrame]
    <3>1. memory'[segmentBSS] = bss
      BY <1>5, <2>4, SegmentNumbers
    <3>2. memory'[segmentData] = data
      BY <1>5, <2>4, SegmentNumbers
    <3>3. memory'[segmentConst] = const
      BY <1>5, <2>4, SegmentNumbers
    <3>4. \A s \in Segments \ {segmentBSS, segmentData, segmentConst} :
            memory'[s] = memory[s]
      BY <1>5, <2>4
    <3>5. {segmentStack, segmentFrame}
            \subseteq Segments \ {segmentBSS, segmentData, segmentConst}
      BY SegmentNumbers
    <3> QED BY <3>1, <3>2, <3>3, <3>4, <3>5
  <2>7. program' = p /\ p # NoProgram
    BY <2>1 DEF InstallProgram, NoProgram
  <2>8. ProgramImageIntact'
    BY <2>3, <2>6, <2>7 DEF ProgramImageIntact, const
  <2>9. Len(stack') <= StackCapacity /\ Len(frameMemory') = FrameCapacity
    BY <2>6 DEF IInv, WorkspaceRespected, stack, frameMemory
  <2> QED BY <1>1, <1>3, <1>4, <2>5, <2>7, <2>8, <2>9, HostStepFrames
<1>7. CASE status' # "OK"
  <2>1. UNCHANGED <<memory, program>>
    BY <1>7 DEF LoadProgram
  <2>2. ProgramImageIntact' /\ Len(stack') <= StackCapacity
        /\ Len(frameMemory') = FrameCapacity /\ program' \in 0 .. Len(Programs)
    BY <2>1 DEF IInv, TypeOK, WorkspaceRespected, ProgramImageIntact, stack,
                frameMemory
  <2> QED BY <1>3, <1>4, <1>5, <2>1, <2>2, HostStepFrames
<1> QED BY <1>6, <1>7

\* What the host does to extern memory, to the dispatcher and by loading an
\* image that is refused.
LEMMA HostSetupKeeps ==
  ASSUME IInv,
         \/ \E st \in ImageErrors : LoadRejectedImage(st)
         \/ \E block \in ExternBlocks : SetExternMemory(block)
         \/ \E bound \in BOOLEAN : RegisterExternDispatcher(bound)
  PROVE  IInv'
<1>1. memory \in [Segments -> Seq(Byte)]
  BY DEF IInv, TypeOK
<1>2. /\ UNCHANGED <<loopState, hostControl, program>>
      /\ dispatcher' \in BOOLEAN /\ status' \in Statuses
      /\ fault' \in FaultInfo /\ instructionPC' \in Nat \cup {NoPC}
  BY DEF LoadRejectedImage, SetExternMemory, RegisterExternDispatcher, IInv, TypeOK,
         ImageErrors, FaultAt, FaultInfo, Statuses
<1>3. /\ memory' \in [Segments -> Seq(Byte)]
      /\ \A s \in Segments \ {segmentExtern} : memory'[s] = memory[s]
  BY <1>1, HostAssumption DEF LoadRejectedImage, SetExternMemory,
                              RegisterExternDispatcher
<1>4. /\ Len(stack') <= StackCapacity /\ Len(frameMemory') = FrameCapacity
      /\ ProgramImageIntact'
  <2>1. {segmentStack, segmentFrame, segmentConst, segmentBSS, segmentData}
          \subseteq Segments \ {segmentExtern}
    BY SegmentNumbers
  <2>2. \A s \in {segmentStack, segmentFrame, segmentConst, segmentBSS, segmentData} :
          memory'[s] = memory[s]
    BY <1>3, <2>1
  <2>3. program' = program
    BY <1>2
  <2> QED BY <2>2, <2>3
          DEF IInv, WorkspaceRespected, ProgramImageIntact, stack, frameMemory
<1>5. program' \in 0 .. Len(Programs)
  BY <1>2 DEF IInv, TypeOK
<1> QED BY <1>2, <1>3, <1>4, <1>5, HostStepFrames
\* A call of the stack API.
LEMMA HostStackStep ==
  ASSUME IInv, UNCHANGED <<program, loopState, dispatcher, instructionPC, hostControl>>,
         status' \in Statuses, fault' \in FaultInfo,
         NEW stk, StackFits(stk), memory' = [memory EXCEPT ![segmentStack] = stk]
  PROVE  IInv'
<1>1. ProgramImageIntact'
  BY NewStack DEF IInv, ProgramImageIntact
<1>2. /\ program' \in 0 .. Len(Programs) /\ dispatcher' \in BOOLEAN
      /\ instructionPC' \in Nat \cup {NoPC}
  BY DEF IInv, TypeOK
<1> QED BY <1>1, <1>2, NewStack, HostStepFrames

LEMMA HostPushKeeps ==
  ASSUME IInv, NEW v \in HostValues, HostPush(v[1], v[2])
  PROVE  IInv'
<1> DEFINE n == Size(v[1])
           bytes == Encode(v[2], n)
           st == PushStatus(stack, n)
<1>1. v[2] \in Int /\ n \in 0 .. 8
  BY HostAssumption, SizeType
<1>2. bytes \in Seq(Byte) /\ Len(bytes) = n
  BY <1>1, EncodeType
<1>3. StackFits(stack) /\ stack \in Seq(Byte) /\ memory \in [Segments -> Seq(Byte)]
  BY StackType DEF IInv, TypeOK
<1>4. /\ UNCHANGED <<program, loopState, dispatcher, instructionPC, hostControl>>
      /\ status' = st
  BY DEF HostPush
<1>5. st \in Statuses
  BY DEF PushStatus, Statuses
<1>6. fault' \in FaultInfo
  <2>1. instructionPC \in Nat \cup {NoPC}
    BY DEF IInv, TypeOK
  <2>2. setFault(instructionPC, st) \/ recordStatus(instructionPC, st)
    BY DEF HostPush
  <2> HIDE DEF st
  <2> QED BY <1>5, <2>1, <2>2, FaultType
<1>7. \E stk : StackFits(stk) /\ memory' = [memory EXCEPT ![segmentStack] = stk]
  <2>1. CASE st = "OK"
    <3>1. memory' = [memory EXCEPT ![segmentStack] = stack \o bytes]
      BY <1>3, <2>1, SegmentNumbers DEF HostPush, stack
    <3>2. Len(stack) + n <= StackCapacity
      BY <2>1 DEF PushStatus, HasRoom
    <3>3. StackFits(stack \o bytes)
      <4> HIDE DEF n, bytes
      <4>1. stack \o bytes \in Seq(Byte) /\ Len(stack \o bytes) = Len(stack) + n
        BY <1>2, <1>3
      <4> QED BY <3>2, <4>1 DEF StackFits
    <3> QED BY <3>1, <3>3
  <2>2. CASE st # "OK"
    <3>1. memory' = memory
      BY <2>2 DEF HostPush
    <3>2. memory' = [memory EXCEPT ![segmentStack] = stack]
      BY <1>3, <3>1 DEF stack
    <3> QED BY <1>3, <3>2
  <2> QED BY <2>1, <2>2
<1> QED BY <1>4, <1>5, <1>6, <1>7, HostStackStep

LEMMA HostPopKeeps ==
  ASSUME IInv, NEW kind \in HostPopKinds, HostPop(kind)
  PROVE  IInv'
<1> DEFINE n == Size(kind)
           st == PopStatus(stack, n)
<1>1. n \in Nat
  BY SizeType
<1>2. StackFits(stack) /\ memory \in [Segments -> Seq(Byte)]
  BY StackType DEF IInv, TypeOK
<1>3. /\ UNCHANGED <<program, loopState, dispatcher, instructionPC, hostControl>>
      /\ status' = st
  BY DEF HostPop
<1>4. st \in Statuses
  BY DEF PopStatus, Statuses
<1>5. fault' \in FaultInfo
  <2>1. instructionPC \in Nat \cup {NoPC} /\ recordStatus(instructionPC, st)
    BY DEF IInv, TypeOK, HostPop
  <2> HIDE DEF st
  <2> QED BY <1>4, <2>1, FaultType
<1>6. \E stk : StackFits(stk) /\ memory' = [memory EXCEPT ![segmentStack] = stk]
  <2>1. CASE st = "OK"
    <3>1. memory' = [memory EXCEPT ![segmentStack] = Drop(stack, n)]
      BY <1>2, <2>1, SegmentNumbers DEF HostPop, stack
    <3>2. StackFits(Drop(stack, n))
      BY <1>1, <1>2, DropFits
    <3> QED BY <3>1, <3>2
  <2>2. CASE st # "OK"
    <3>1. memory' = [memory EXCEPT ![segmentStack] = stack]
      BY <1>2, <2>2 DEF HostPop, stack
    <3> QED BY <1>2, <3>1
  <2> QED BY <2>1, <2>2
<1> QED BY <1>3, <1>4, <1>5, <1>6, HostStackStep

\* The dispatcher returns: to the loop, or with a failure out of the run.
LEMMA DispatcherReturnKeeps ==
  ASSUME IInv, NEW st \in HostStatuses, DispatcherReturn(st)
  PROVE  IInv'
<1>1. /\ UNCHANGED <<memory, program, dispatcher, pc, callFrames, frameTop,
                     instructionPC>>
      /\ activations # <<>> /\ activations \in Seq(1 .. Len(Programs)) /\ inHost
  BY DEF DispatcherReturn, loopState, IInv, TypeOK
<1>2. /\ fault' \in FaultInfo /\ status' \in Statuses
      /\ activations' \in Seq(1 .. Len(Programs)) /\ inHost' \in BOOLEAN
      /\ ~inHost' => activations' # <<>>
      /\ activations' # <<>> => program # NoProgram
  <2>1. program # NoProgram
    BY <1>1 DEF IInv, Running
  <2>2. CASE st = "OK"
    BY <1>1, <2>1, <2>2 DEF DispatcherReturn, IInv, TypeOK
  <2>3. CASE st # "OK"
    <3>1. /\ activations' = Front(activations) /\ inHost' = inHost
          /\ status' = "HostFailure"
          /\ fault' = [status |-> "HostFailure",
                       pc |-> IF instructionPC = NoPC THEN 0 ELSE instructionPC,
                       hostStatus |-> st]
      BY <2>3 DEF DispatcherReturn
    <3>2. fault' \in FaultInfo
      BY <3>1, HostAssumption DEF FaultInfo, Statuses, IInv, TypeOK
    <3>3. status' \in Statuses
      BY <3>1 DEF Statuses
    <3> QED BY <1>1, <2>1, <3>1, <3>2, <3>3, OuterLoops DEF IInv, TypeOK
  <2> QED BY <2>2, <2>3
<1>3. TypeOK'
  BY <1>1, <1>2 DEF IInv, TypeOK
<1>4. Running'
  BY <1>1, <1>2 DEF Running
<1>5. WorkspaceRespected' /\ ProgramImageIntact'
  BY <1>1 DEF IInv, WorkspaceRespected, ProgramImageIntact, stack, frameMemory
<1> QED BY <1>3, <1>4, <1>5 DEF IInv
\* Reset, on its own or as the first half of RunLoaded.
LEMMA ResetStep ==
  ASSUME IInv, ResetEffect
  PROVE  /\ memory' \in [Segments -> Seq(Byte)]
         /\ pc' \in Nat /\ callFrames' \in Seq(CallFrame) /\ frameTop' \in Nat
         /\ fault' \in FaultInfo /\ instructionPC' \in Nat \cup {NoPC}
         /\ UNCHANGED <<program, dispatcher>>
         /\ ResetStatus \in Statuses
         /\ ResetStatus = "OK" => program # NoProgram
         /\ WorkspaceRespected' /\ ProgramImageIntact'
<1>1. /\ memory \in [Segments -> Seq(Byte)] /\ callFrames \in Seq(CallFrame)
      /\ program \in 0 .. Len(Programs) /\ pc \in Nat /\ frameTop \in Nat
  BY DEF IInv, TypeOK
<1>2. ResetStatus \in Statuses /\ (ResetStatus = "OK" => program # NoProgram)
  BY DEF ResetStatus, EntryStatus, Statuses
<1>3. fault' \in FaultInfo /\ instructionPC' \in Nat \cup {NoPC}
  BY <1>2 DEF ResetEffect, FaultAt, noVMFault, FaultInfo, Statuses
<1>4. UNCHANGED <<program, dispatcher>>
  BY DEF ResetEffect
<1>5. CASE program = NoProgram
  <2>1. UNCHANGED <<memory, pc, callFrames, frameTop>>
    BY <1>5 DEF ResetEffect, loopState
  <2>2. WorkspaceRespected' /\ ProgramImageIntact'
    BY <1>4, <2>1 DEF IInv, WorkspaceRespected, ProgramImageIntact, stack, frameMemory
  <2> QED BY <1>1, <1>2, <1>3, <1>4, <2>1, <2>2
<1>6. CASE program # NoProgram
  <2>1. program \in 1 .. Len(Programs)
    BY <1>1, <1>6 DEF NoProgram
  <2>2. /\ Programs[program].dataData \in Seq(Byte)
        /\ Programs[program].entryPoint \in Nat
    BY <2>1, ProgramsAssumption DEF IsLinkedProgram
  <2>3. memory' = ResetMemory
    BY <1>6 DEF ResetEffect
  <2> DEFINE bss == Zeros(Len(memory[segmentBSS]))
             data == CopyInto(memory[segmentData], Programs[program].dataData)
             frm == Zeros(Len(memory[segmentFrame]))
  <2>4. /\ bss \in Seq(Byte) /\ Len(bss) = Len(memory[segmentBSS])
        /\ data \in Seq(Byte) /\ Len(data) = Len(memory[segmentData])
        /\ frm \in Seq(Byte) /\ Len(frm) = Len(memory[segmentFrame])
    <3>1. /\ memory[segmentBSS] \in Seq(Byte) /\ memory[segmentData] \in Seq(Byte)
          /\ memory[segmentFrame] \in Seq(Byte)
      BY <1>1, SegmentNumbers
    <3> QED BY <2>2, <3>1, ZerosType, CopyType
  <2>5. memory' = [memory EXCEPT ![segmentBSS] = bss, ![segmentData] = data,
                                 ![segmentStack] = <<>>, ![segmentFrame] = frm]
    BY <1>1, <2>3, SegmentNumbers DEF ResetMemory
  <2> HIDE DEF bss, data, frm
  <2>6. memory' \in [Segments -> Seq(Byte)]
    <3> DEFINE m1 == [memory EXCEPT ![segmentBSS] = bss, ![segmentData] = data]
               empty == <<>>
    <3>1. empty \in Seq(Byte)
      OBVIOUS
    <3>2. m1 \in [Segments -> Seq(Byte)]
      BY <1>1, <2>4
    <3>3. memory' = [m1 EXCEPT ![segmentStack] = empty, ![segmentFrame] = frm]
      BY <2>5
    <3> HIDE DEF m1, empty
    <3> QED BY <2>4, <3>1, <3>2, <3>3
  <2>7. memory'[segmentBSS] = bss
    BY <1>1, <2>5, SegmentNumbers
  <2>8. memory'[segmentData] = data
    BY <1>1, <2>5, SegmentNumbers
  <2>9. memory'[segmentStack] = <<>>
    BY <1>1, <2>5, SegmentNumbers
  <2>10. memory'[segmentFrame] = frm
    BY <1>1, <2>5, SegmentNumbers
  <2>11. memory'[segmentConst] = memory[segmentConst]
    <3>1. segmentConst \in Segments
            \ {segmentBSS, segmentData, segmentStack, segmentFrame}
      BY SegmentNumbers
    <3>2. \A s \in Segments
              \ {segmentBSS, segmentData, segmentStack, segmentFrame} :
            memory'[s] = memory[s]
      BY <1>1, <2>5
    <3> QED BY <3>1, <3>2
  <2>12. ProgramImageIntact'
    BY <1>4, <2>4, <2>7, <2>8, <2>11 DEF IInv, ProgramImageIntact
  <2>13. Len(stack') <= StackCapacity /\ Len(frameMemory') = FrameCapacity
    <3>1. Len(memory[segmentFrame]) = FrameCapacity
      BY DEF IInv, WorkspaceRespected, frameMemory
    <3> QED BY <2>4, <2>9, <2>10, <3>1, CapacityAssumption DEF stack, frameMemory
  <2>14. /\ pc' \in Nat /\ callFrames' \in Seq(CallFrame) /\ frameTop' \in Nat
         /\ FramesOrdered(callFrames', frameTop') /\ frameTop' <= FrameCapacity
    <3> DEFINE entry == [returnPC |-> 0, localBase |-> 0,
                         returnKind |-> EntryFunction.returnKind]
    <3>1. CASE ResetStatus = "OK"
      <4>1. pc' = EntryFunction.bodyAddress /\ frameTop' = EntryFunction.frameByteSize
            /\ callFrames' = <<entry>>
        BY <1>6, <3>1 DEF ResetEffect
      <4>2. EntryStatus(program, Programs[program].entryPoint, <<>>, 0, 0) = "OK"
        BY <1>6, <3>1 DEF ResetStatus
      <4>3. <<>> \in Seq(Byte) /\ 0 \in Nat
        OBVIOUS
      <4>4. EntryFunction \in Descriptor
            /\ 0 + EntryFunction.frameByteSize <= FrameCapacity
        BY <2>1, <2>2, <4>2, <4>3, EntryAdmitted DEF EntryFunction
      <4>5. /\ EntryFunction.bodyAddress \in Nat
            /\ EntryFunction.frameByteSize \in Nat
            /\ EntryFunction.returnKind \in Kinds
        BY <4>4 DEF Descriptor
      <4>6. entry \in CallFrame /\ entry.localBase = 0
        BY <4>5 DEF CallFrame
      <4>7. MaxCallFrames >= 1 /\ MaxCallFrames \in Nat
        BY CapacityAssumption DEF MaxCallFrames
      <4> HIDE DEF entry
      <4>8. FramesOrdered(<<entry>>, EntryFunction.frameByteSize)
        BY <4>5, <4>6, <4>7 DEF FramesOrdered
      <4>9. <<entry>> \in Seq(CallFrame)
        BY <4>6
      <4>10. EntryFunction.frameByteSize <= FrameCapacity
        BY <4>4, <4>5, CapacityAssumption
      <4> QED BY <4>1, <4>5, <4>8, <4>9, <4>10
    <3>2. CASE ResetStatus # "OK"
      <4>1. pc' = 0 /\ callFrames' = <<>> /\ frameTop' = 0
        BY <1>6, <3>2 DEF ResetEffect
      <4> QED BY <4>1, CapacityAssumption DEF FramesOrdered, MaxCallFrames
    <3> QED BY <3>1, <3>2
  <2>15. WorkspaceRespected'
    BY <2>13, <2>14 DEF WorkspaceRespected, FramesOrdered
  <2> QED BY <1>2, <1>3, <1>4, <2>6, <2>12, <2>14, <2>15
<1> QED BY <1>5, <1>6
LEMMA ResetKeeps ==
  ASSUME IInv, Reset
  PROVE  IInv'
<1>1. ResetEffect /\ status' = ResetStatus /\ UNCHANGED <<activations, inHost>>
  BY DEF Reset, hostControl
<1>2. program # NoProgram => program' # NoProgram
  BY <1>1, ResetStep
<1>3. TypeOK'
  BY <1>1, ResetStep DEF IInv, TypeOK
<1>4. Running'
  BY <1>1, ResetStep DEF IInv, Running
<1> QED BY <1>1, <1>3, <1>4, ResetStep DEF IInv

LEMMA RunLoadedKeeps ==
  ASSUME IInv, RunLoaded
  PROVE  IInv'
<1>1. ResetEffect
  BY DEF RunLoaded
<1>2. activations \in Seq(1 .. Len(Programs)) /\ program \in 0 .. Len(Programs)
      /\ inHost \in BOOLEAN /\ status \in Statuses
  BY DEF IInv, TypeOK
<1>3. \/ /\ program # NoProgram
         /\ activations' = Append(activations, program)
         /\ inHost' = FALSE
         /\ status' = status
      \/ /\ status' = ResetStatus
         /\ UNCHANGED <<activations, inHost>>
  BY <1>1, ResetStep DEF RunLoaded, hostControl
<1>4. /\ activations' \in Seq(1 .. Len(Programs)) /\ inHost' \in BOOLEAN
      /\ status' \in Statuses
  <2>1. program # NoProgram => program \in 1 .. Len(Programs)
    BY <1>2 DEF NoProgram
  <2>2. ResetStatus \in Statuses
    BY <1>1, ResetStep
  <2>3. CASE /\ program # NoProgram
             /\ activations' = Append(activations, program)
             /\ inHost' = FALSE
             /\ status' = status
    <3>1. activations' \in Seq(1 .. Len(Programs))
      BY <1>2, <2>1, <2>3
    <3> QED BY <1>2, <2>3, <3>1
  <2>4. CASE /\ status' = ResetStatus
             /\ UNCHANGED <<activations, inHost>>
    BY <1>2, <2>2, <2>4
  <2> QED BY <1>3, <2>3, <2>4
<1>5. TypeOK'
  BY <1>1, <1>4, ResetStep DEF IInv, TypeOK
<1>6. Running'
  <2>1. CASE /\ program # NoProgram
             /\ activations' = Append(activations, program)
    <3>1. activations' # <<>>
      BY <1>2, <2>1
    <3> QED BY <1>1, <2>1, <3>1, ResetStep DEF Running
  <2>2. CASE UNCHANGED <<activations, inHost>>
    BY <1>1, <2>2, ResetStep DEF IInv, Running
  <2> QED BY <1>3, <2>1, <2>2
<1> QED BY <1>1, <1>5, <1>6, ResetStep DEF IInv

-----------------------------------------------------------------------------
(***************************************************************************)
(* The theorems.                                                           *)
(***************************************************************************)

LEMMA HostKeeps == IInv /\ HostStep => IInv'
BY LoadProgramKeeps, HostSetupKeeps, ResetKeeps, RunLoadedKeeps, HostPushKeeps,
   HostPopKeeps DEF HostStep

LEMMA StutterKeeps ==
  ASSUME IInv, UNCHANGED vars
  PROVE  IInv'
<1>1. UNCHANGED <<memory, pc, program, dispatcher, callFrames, frameTop, fault,
                  instructionPC, activations, inHost, status>>
  BY DEF vars
<1>2. TypeOK'
  BY <1>1 DEF IInv, TypeOK
<1>3. Running'
  BY <1>1 DEF IInv, Running
<1>4. WorkspaceRespected'
  BY <1>1 DEF IInv, WorkspaceRespected, stack, frameMemory
<1>5. ProgramImageIntact'
  BY <1>1 DEF IInv, ProgramImageIntact
<1> QED BY <1>2, <1>3, <1>4, <1>5 DEF IInv

\* Every step of the machine and its host keeps the inductive invariant.
LEMMA NextKeeps == IInv /\ [Next]_vars => IInv'
BY ExecuteKeeps, HostKeeps, DispatcherReturnKeeps, StutterKeeps
   DEF Next, DispatcherReturns

\* NewVMWithConfig establishes it.
LEMMA InitHolds == Init => IInv
<1> SUFFICES ASSUME Init PROVE IInv
  OBVIOUS
<1>1. Zeros(FrameCapacity) \in Seq(Byte) /\ Len(Zeros(FrameCapacity)) = FrameCapacity
  BY ZerosType, CapacityAssumption
<1>2. memory \in [Segments -> Seq(Byte)]
  BY <1>1 DEF Init
<1>3. stack = <<>> /\ frameMemory = Zeros(FrameCapacity)
  BY SegmentNumbers DEF Init, stack, frameMemory
<1>4. TypeOK
  <2>1. fault \in FaultInfo /\ status \in Statuses
    BY DEF Init, noVMFault, FaultInfo, Statuses
  <2>2. program \in 0 .. Len(Programs)
    BY ProgramsAssumption DEF Init, NoProgram
  <2>3. callFrames \in Seq(CallFrame) /\ activations \in Seq(1 .. Len(Programs))
    BY DEF Init
  <2>4. /\ pc \in Nat /\ frameTop \in Nat /\ dispatcher \in BOOLEAN /\ inHost \in BOOLEAN
        /\ instructionPC \in Nat \cup {NoPC}
    BY DEF Init
  <2> QED BY <1>2, <2>1, <2>2, <2>3, <2>4 DEF TypeOK
<1>5. Running
  BY DEF Init, Running
<1>6. WorkspaceRespected
  BY <1>1, <1>3, CapacityAssumption DEF Init, WorkspaceRespected, MaxCallFrames
<1>7. ProgramImageIntact
  BY DEF Init, ProgramImageIntact
<1> QED BY <1>4, <1>5, <1>6, <1>7 DEF IInv

LEMMA Invariance == Spec => []IInv
BY InitHolds, NextKeeps, PTL DEF Spec

\* Every state of the machine is well typed, whatever program is loaded and
\* whatever its dispatcher does: no pop, jump, return or nested run leaves a
\* value, an address or a program counter the next instruction cannot take.
THEOREM TypeCorrect == Spec => []TypeOK
<1>1. IInv => TypeOK
  BY DEF IInv
<1> QED BY <1>1, Invariance, PTL

\* The bytecode of any program, valid or not, and a dispatcher that may load,
\* reset and run again, never grow the operand stack, the frame buffer or the
\* call frames beyond what VMConfig allows, and keep the frames in order.
THEOREM WorkspaceSafe == Spec => []WorkspaceRespected
<1>1. IInv => WorkspaceRespected
  BY DEF IInv
<1> QED BY <1>1, Invariance, PTL

\* No sequence of instructions and host calls changes a constant of the loaded
\* program or the size of its BSS and DATA.
THEOREM ImageSafe == Spec => []ProgramImageIntact
<1>1. IInv => ProgramImageIntact
  BY DEF IInv
<1> QED BY <1>1, Invariance, PTL

-----------------------------------------------------------------------------
(***************************************************************************)
(* The shapes of the steps of a run.  An instruction goes on, hands over   *)
(* to the dispatcher, or ends the run with a status and its diagnostics;   *)
(* only Call and Ret touch the call frames.                                *)
(***************************************************************************)
GoesOn == UNCHANGED <<frameState, runState>>

Fails(st) ==
  /\ setFault(pc, st) \/ recordStatus(pc, st)
  /\ ReturnToHost(st)
  /\ st \in Statuses
  /\ st = "InvalidLifecycle" => callFrames = <<>>

FailsInPlace == \E st \in Statuses : Fails(st) /\ UNCHANGED frameState

PlainStatuses == Statuses \ {"InvalidLifecycle"}

LEMMA StopShape ==
  ASSUME NEW stk, NEW st \in PlainStatuses, Trap(stk, st) \/ Abort(stk, st)
  PROVE  FailsInPlace
BY DEF Trap, Abort, Stop, FailsInPlace, Fails, PlainStatuses

LEMMA ContinueShape ==
  ASSUME NEW stk, Continue(stk)
  PROVE  GoesOn
BY DEF Continue, GoesOn

LEMMA PushShape ==
  ASSUME NEW stk, NEW bytes, PushOnto(stk, bytes)
  PROVE  GoesOn \/ FailsInPlace
BY StopShape, ContinueShape DEF PushOnto, PlainStatuses, Statuses

LEMMA JumpShape ==
  ASSUME NEW stk, JumpTo(stk)
  PROVE  GoesOn \/ FailsInPlace
BY StopShape DEF JumpTo, GoesOn, PlainStatuses, Statuses

LEMMA StatusesReturned ==
  /\ {"InvalidOpcode", "InvalidValueKind", "StackUnderflow", "StackOverflow",
      "InvalidAddress", "InvalidAddressSegment", "MalformedBytecode",
      "MissingExtern", "OK"} \subseteq PlainStatuses
  /\ \A kind, sub, right : ArithmeticStatus(kind, sub, right) \in PlainStatuses
  /\ \A kind, sub : CompareStatus(kind, sub) \in PlainStatuses
  /\ \A stk, address, n : AssignStatus(stk, address, n) \in PlainStatuses
  /\ \A p, f, stk, base, depth : EntryStatus(p, f, stk, base, depth) \in PlainStatuses
  /\ \A kind : ResultStatus(kind) \in PlainStatuses
BY DEF PlainStatuses, Statuses, ArithmeticStatus, CompareStatus, AssignStatus,
       EntryStatus, ResultStatus

LEMMA TypedShapes ==
  ExecUndefined \/ ExecPush \/ ExecArithmetic \/ ExecCompare \/ ExecConvert
    => GoesOn \/ FailsInPlace
<1>1. ASSUME ExecUndefined PROVE FailsInPlace
  BY <1>1, StopShape, StatusesReturned DEF ExecUndefined
<1>2. ASSUME ExecPush PROVE GoesOn \/ FailsInPlace
  BY <1>2, StopShape, PushShape, StatusesReturned DEF ExecPush
<1>3. ASSUME ExecArithmetic PROVE GoesOn \/ FailsInPlace
  BY <1>3, StopShape, ContinueShape, StatusesReturned DEF ExecArithmetic
<1>4. ASSUME ExecCompare PROVE GoesOn \/ FailsInPlace
  BY <1>4, StopShape, ContinueShape, StatusesReturned DEF ExecCompare
<1>5. ASSUME ExecConvert PROVE GoesOn \/ FailsInPlace
  BY <1>5, StopShape, PushShape, StatusesReturned DEF ExecConvert
<1> QED BY <1>1, <1>2, <1>3, <1>4, <1>5

LEMMA MemoryShapes ==
  ExecBuiltIn \/ ExecAddr \/ ExecOffset \/ ExecDereference \/ ExecAssign
    \/ ExecJump \/ ExecJumpIfFalse
    => GoesOn \/ FailsInPlace
<1>1. ASSUME ExecBuiltIn PROVE GoesOn \/ FailsInPlace
  BY <1>1, StopShape, ContinueShape, StatusesReturned DEF ExecBuiltIn
<1>2. ASSUME ExecAddr PROVE GoesOn \/ FailsInPlace
  <2>1. CASE callFrames = <<>> /\ Abort(stack, "InvalidLifecycle")
    BY <2>1 DEF Abort, Stop, FailsInPlace, Fails, Statuses
  <2>2. CASE Trap(stack, "InvalidAddress")
    BY <2>2, StopShape, StatusesReturned
  <2>3. CASE \E bytes : PushOnto(stack, bytes)
    BY <2>3, PushShape
  <2> QED BY <1>2, <2>1, <2>2, <2>3 DEF ExecAddr
<1>3. ASSUME ExecOffset PROVE GoesOn \/ FailsInPlace
  BY <1>3, StopShape, ContinueShape, StatusesReturned DEF ExecOffset
<1>4. ASSUME ExecDereference PROVE GoesOn \/ FailsInPlace
  BY <1>4, StopShape, PushShape, StatusesReturned DEF ExecDereference
<1>5. ASSUME ExecAssign PROVE GoesOn \/ FailsInPlace
  BY <1>5, StopShape, ContinueShape, StatusesReturned DEF ExecAssign, GoesOn
<1>6. ASSUME ExecJump \/ ExecJumpIfFalse PROVE GoesOn \/ FailsInPlace
  BY <1>6, StopShape, ContinueShape, JumpShape, StatusesReturned
     DEF ExecJump, ExecJumpIfFalse
<1> QED BY <1>1, <1>2, <1>3, <1>4, <1>5, <1>6

\* The steps of the interpreter loop.
LEMMA ExecuteShape ==
  ASSUME Execute
  PROVE  \/ GoesOn
         \/ FailsInPlace
         \/ RunOffEnd
         \/ ExecCall
         \/ ExecCallExtern
         \/ ExecRet
<1>1. ASSUME TruncatedInstruction PROVE FailsInPlace
  BY <1>1 DEF TruncatedInstruction, FailsInPlace, Fails, frameState, Statuses
<1> QED BY <1>1, TypedShapes, MemoryShapes DEF Execute

\* The loop runs when the host is not in control, and loads nothing.
LEMMA LoopKeeps ==
  ASSUME Execute
  PROVE  ~inHost /\ UNCHANGED <<program, dispatcher>>
BY DEF Execute, RunOffEnd, TruncatedInstruction, ExecUndefined, ExecPush,
       ExecArithmetic, ExecCompare, ExecConvert, ExecBuiltIn, ExecAddr, ExecOffset,
       ExecDereference, ExecAssign, ExecJump, ExecJumpIfFalse, ExecCall,
       ExecCallExtern, ExecRet, Fetched

\* A host call other than RunLoaded starts and ends no run.
LEMMA HostShape ==
  ASSUME HostStep
  PROVE  RunLoaded \/ UNCHANGED hostControl
BY DEF HostStep, LoadProgram, LoadRejectedImage, Reset, HostPush, HostPop,
       SetExternMemory, RegisterExternDispatcher

\* Only RunLoaded starts a run.
LEMMA OnlyRunStarts ==
  ASSUME IInv, [Next]_vars, Len(activations') > Len(activations)
  PROVE  RunLoaded /\ ResetStatus = "OK"
<1>1. activations \in Seq(1 .. Len(Programs)) /\ (~inHost => activations # <<>>)
  BY DEF IInv, TypeOK, Running
<1>2. Len(activations) \in Nat
  BY <1>1
<1>3. activations # <<>> => Len(Front(activations)) < Len(activations)
  BY <1>1, <1>2, FrontShorter
<1>4. ASSUME Execute PROVE FALSE
  <2>1. activations # <<>>
    BY <1>1, <1>4, LoopKeeps
  <2>2. activations' = activations \/ activations' = Front(activations)
    BY <1>4, ExecuteShape DEF GoesOn, FailsInPlace, Fails, runState, ReturnToHost,
       RunOffEnd, ExecCall, ExecCallExtern, ExecRet, Trap, Stop
  <2> QED BY <1>2, <1>3, <2>1, <2>2
<1>5. ASSUME DispatcherReturns PROVE FALSE
  <2>1. activations # <<>>
        /\ (activations' = activations \/ activations' = Front(activations))
    BY <1>5 DEF DispatcherReturns, DispatcherReturn
  <2> QED BY <1>2, <1>3, <2>1
<1>6. ASSUME UNCHANGED activations PROVE FALSE
  BY <1>2, <1>6
<1>7. HostStep
  BY <1>4, <1>5, <1>6 DEF Next, vars
<1>8. RunLoaded
  BY <1>6, <1>7, HostShape DEF hostControl
<1> QED BY <1>6, <1>8 DEF RunLoaded, hostControl

-----------------------------------------------------------------------------
(***************************************************************************)
(* A fresh start.  Reset copies DATA into a segment whose size the loaded  *)
(* program gave, so the copy is whole only because LoadProgram refuses a   *)
(* program whose data is not of the size it declares.                      *)
(***************************************************************************)
Accepted == program # NoProgram => LoadStatus(program) = "OK"

LEMMA AcceptedKept == Spec => []Accepted
<1>1. Init => Accepted
  BY DEF Init, Accepted
<1>2. Accepted /\ [Next]_vars => Accepted'
  <2> SUFFICES ASSUME Accepted, [Next]_vars PROVE Accepted'
    OBVIOUS
  <2>1. CASE UNCHANGED program
    BY <2>1 DEF Accepted, LoadStatus, NoProgram
  <2>2. ASSUME NEW p, LoadProgram(p) PROVE Accepted'
    <3>1. CASE LoadStatus(p) = "OK"
      <4>1. program' = p
        BY <2>2, <3>1 DEF LoadProgram, InstallProgram
      <4> QED BY <3>1, <4>1 DEF Accepted, LoadStatus, NoProgram
    <3>2. CASE LoadStatus(p) # "OK"
      BY <2>1, <2>2, <3>2 DEF LoadProgram
    <3> QED BY <3>1, <3>2
  <2>3. ASSUME Execute PROVE UNCHANGED program
    BY <2>3, LoopKeeps
  <2>4. ASSUME DispatcherReturns PROVE UNCHANGED program
    BY <2>4 DEF DispatcherReturns, DispatcherReturn
  <2>5. ASSUME HostStep PROVE (\E p : LoadProgram(p)) \/ UNCHANGED program
    BY <2>5 DEF HostStep, LoadRejectedImage, Reset, ResetEffect, RunLoaded, HostPush,
       HostPop, SetExternMemory, RegisterExternDispatcher
  <2> QED BY <2>1, <2>2, <2>3, <2>4, <2>5 DEF Next, vars
<1> QED BY <1>1, <1>2, PTL DEF Spec

LEMMA FreshStep ==
  ASSUME IInv, Accepted, [Next]_vars
  PROVE  StartFresh
<1> SUFFICES ASSUME Len(activations') > Len(activations)
             PROVE  LET p == Programs[program']
                    IN  /\ \A i \in 1 .. p.bssByteSize : memory'[segmentBSS][i] = 0
                        /\ memory'[segmentData] = p.dataData
                        /\ memory'[segmentStack] = <<>>
                        /\ \A i \in 1 .. FrameCapacity : memory'[segmentFrame][i] = 0
                        /\ Len(callFrames') = 1
                        /\ frameTop' = p.functions[p.entryPoint + 1].frameByteSize
                        /\ fault' = noVMFault
  BY DEF StartFresh
<1>1. ResetEffect /\ ResetStatus = "OK"
  BY OnlyRunStarts DEF RunLoaded
<1>2. program # NoProgram /\ program' = program /\ program \in 1 .. Len(Programs)
  BY <1>1 DEF ResetStatus, ResetEffect, IInv, TypeOK, NoProgram
<1> DEFINE p == Programs[program]
<1>3. /\ p.dataData \in Seq(Byte) /\ p.dataByteSize = Len(p.dataData)
      /\ p.bssByteSize \in Nat
  BY <1>2, ProgramsAssumption DEF Accepted, LoadStatus, IsLinkedProgram
<1>4. /\ memory \in [Segments -> Seq(Byte)]
      /\ Len(memory[segmentBSS]) = p.bssByteSize
      /\ Len(memory[segmentData]) = p.dataByteSize
      /\ Len(memory[segmentFrame]) = FrameCapacity
  BY <1>2 DEF IInv, TypeOK, ProgramImageIntact, WorkspaceRespected, frameMemory
<1>5. memory' = ResetMemory
  BY <1>1, <1>2 DEF ResetEffect
<1>6. /\ memory'[segmentBSS] = Zeros(p.bssByteSize)
      /\ memory'[segmentData] = CopyInto(memory[segmentData], p.dataData)
      /\ memory'[segmentStack] = <<>>
      /\ memory'[segmentFrame] = Zeros(FrameCapacity)
  BY <1>4, <1>5, SegmentNumbers DEF ResetMemory
<1>7. CopyInto(memory[segmentData], p.dataData) = p.dataData
  <2>1. memory[segmentData] \in Seq(Byte)
    BY <1>4, SegmentNumbers
  <2>2. CopyInto(memory[segmentData], p.dataData)
          = [i \in 1 .. Len(p.dataData) |-> p.dataData[i]]
    <3> HIDE DEF p
    <3> QED BY <1>3, <1>4, <2>1 DEF CopyInto
  <2> HIDE DEF p
  <2> QED BY <1>3, <2>2
<1>8. /\ \A i \in 1 .. p.bssByteSize : Zeros(p.bssByteSize)[i] = 0
      /\ \A i \in 1 .. FrameCapacity : Zeros(FrameCapacity)[i] = 0
  BY DEF Zeros
<1>9. /\ Len(callFrames') = 1
      /\ frameTop' = p.functions[p.entryPoint + 1].frameByteSize
      /\ fault' = noVMFault
  BY <1>1, <1>2 DEF ResetEffect, EntryFunction
<1> HIDE DEF p
<1>10. /\ \A i \in 1 .. p.bssByteSize : memory'[segmentBSS][i] = 0
       /\ memory'[segmentData] = p.dataData
       /\ memory'[segmentStack] = <<>>
       /\ \A i \in 1 .. FrameCapacity : memory'[segmentFrame][i] = 0
  BY <1>6, <1>7, <1>8
<1> QED BY <1>2, <1>9, <1>10 DEF p

\* Whatever the runs, stores, faults and nested calls before it, a run begins
\* with BSS and frame zero, DATA as linked, an empty operand stack, one call
\* frame and no fault.
THEOREM FreshStart == Spec => RunsStartFresh
<1>1. IInv /\ Accepted /\ [Next]_vars => [StartFresh]_vars
  BY FreshStep
<1> QED BY <1>1, Invariance, AcceptedKept, PTL DEF Spec, RunsStartFresh

-----------------------------------------------------------------------------
(***************************************************************************)
(* Frames.                                                                 *)
(***************************************************************************)

LEMMA EnteredBytes ==
  ASSUME NEW p, NEW d, NEW frm, NEW stk, NEW base \in Nat, NEW i \in 1 .. Len(frm),
         d.frameByteSize \in Nat
  PROVE  /\ i <= base => EnteredFrame(p, d, frm, stk, base)[i] = frm[i]
         /\ i \in base + 1 .. base + d.frameByteSize =>
              \/ EnteredFrame(p, d, frm, stk, base)[i] = 0
              \/ ParamsAt(p, d, i - base) # {}
BY DEF EnteredFrame

\* While a loop has control the call frames change by a call that is admitted
\* or by a return.
LEMMA OnlyCallAndRet ==
  ASSUME [Next]_vars, ~inHost, callFrames' # callFrames
  PROVE  ExecCall \/ ExecRet
<1>1. ~DispatcherReturns
  BY DEF DispatcherReturns, DispatcherReturn
<1>2. ~HostStep
  BY DEF HostStep, HostMay, LoadProgram, LoadRejectedImage, Reset, RunLoaded,
         HostPush, HostPop, SetExternMemory, RegisterExternDispatcher
<1>3. Execute
  BY <1>1, <1>2 DEF Next, vars
<1> QED BY <1>3, ExecuteShape
        DEF GoesOn, FailsInPlace, RunOffEnd, ExecCallExtern, frameState, Trap, Stop

\* What a call that is admitted does, in the names of its parts.
Callee == Programs[program].functions[instr.operand + 1]
LEMMA CallEffect ==
  ASSUME IInv, ExecCall, callFrames' # callFrames
  PROVE  /\ Fetched("Call") /\ instr \in Instruction /\ pc \in Nat
         /\ program \in 1 .. Len(Programs)
         /\ EntryStatus(program, instr.operand, stack, frameTop, Len(callFrames)) = "OK"
         /\ Callee \in Descriptor
         /\ argumentBytes(program, Callee) <= Len(stack)
         /\ argumentBytes(program, Callee) \in Nat
         /\ ParamsInPool(program, Callee)
         /\ frameTop \in Nat /\ frameTop + Callee.frameByteSize <= FrameCapacity
         /\ memory'[segmentFrame]
              = EnteredFrame(program, Callee, frameMemory, stack, frameTop)
         /\ memory'[segmentStack] = Drop(stack, argumentBytes(program, Callee))
         /\ callFrames' = Append(callFrames,
              [returnPC |-> nextPC, localBase |-> frameTop,
               returnKind |-> Callee.returnKind])
         /\ frameTop' = frameTop + Callee.frameByteSize
         /\ UNCHANGED runState
<1>1. Fetched("Call")
  BY DEF ExecCall
<1>2. /\ instr \in Instruction /\ pc \in Nat /\ program \in 1 .. Len(Programs)
      /\ instr.operand \in Nat
  BY <1>1, FetchedType DEF Instruction
<1>3. /\ frameTop \in Nat /\ stack \in Seq(Byte) /\ Len(callFrames) \in Nat
      /\ memory \in [Segments -> Seq(Byte)]
  BY StackType DEF IInv, TypeOK
<1>4. ~Trap(stack, EntryStatus(program, instr.operand, stack, frameTop,
                               Len(callFrames)))
  BY DEF Trap, Stop, frameState
<1>5. /\ EntryStatus(program, instr.operand, stack, frameTop, Len(callFrames)) = "OK"
      /\ memory' = [memory EXCEPT
           ![segmentFrame] = EnteredFrame(program, Callee, @, stack, frameTop),
           ![segmentStack] = Drop(@, argumentBytes(program, Callee))]
      /\ callFrames' = Append(callFrames,
           [returnPC |-> nextPC, localBase |-> frameTop,
            returnKind |-> Callee.returnKind])
      /\ frameTop' = frameTop + Callee.frameByteSize
      /\ UNCHANGED runState
  BY <1>4 DEF ExecCall, Callee
<1>6. /\ Callee \in Descriptor
      /\ argumentBytes(program, Callee) <= Len(stack)
      /\ ParamsInPool(program, Callee)
      /\ frameTop + Callee.frameByteSize <= FrameCapacity
  BY <1>2, <1>3, <1>5, EntryAdmitted DEF Callee
<1>7. argumentBytes(program, Callee) \in Nat
  BY <1>6, ArgumentsFinite DEF argumentBytes
<1>8. /\ memory'[segmentFrame]
           = EnteredFrame(program, Callee, frameMemory, stack, frameTop)
      /\ memory'[segmentStack] = Drop(stack, argumentBytes(program, Callee))
  <2>1. memory' = [memory EXCEPT
          ![segmentFrame] = EnteredFrame(program, Callee, frameMemory, stack, frameTop),
          ![segmentStack] = Drop(stack, argumentBytes(program, Callee))]
    BY <1>3, <1>5, SegmentNumbers DEF frameMemory, stack
  <2> QED BY <1>3, <2>1, SegmentNumbers
<1> QED BY <1>1, <1>2, <1>3, <1>5, <1>6, <1>7, <1>8

LEMMA IsolationStep ==
  ASSUME IInv, [Next]_vars
  PROVE  IsolateFrames
<1> SUFFICES ASSUME ~inHost, callFrames' # callFrames
             PROVE  /\ \A i \in 1 .. FrameCapacity :
                         i <= frameTop => memory'[segmentFrame][i] = frameMemory[i]
                    /\ \A i \in frameTop + 1 .. frameTop' :
                         \/ memory'[segmentFrame][i] = 0
                         \/ ParamsAt(program, Callee, i - frameTop) # {}
  BY DEF IsolateFrames, Callee
<1>1. /\ Len(frameMemory) = FrameCapacity /\ frameTop \in Nat
      /\ FrameCapacity \in Nat
  BY CapacityAssumption DEF IInv, WorkspaceRespected, TypeOK
<1>2. CASE ExecCall
  <2>1. Callee.frameByteSize \in Nat
    BY <1>2, CallEffect DEF Descriptor
  <2>2. /\ frameTop' = frameTop + Callee.frameByteSize
        /\ frameTop + Callee.frameByteSize <= FrameCapacity
        /\ memory'[segmentFrame]
             = EnteredFrame(program, Callee, frameMemory, stack, frameTop)
    BY <1>2, CallEffect
  <2>3. \A i \in frameTop + 1 .. frameTop' : i \in 1 .. FrameCapacity
    BY <1>1, <2>1, <2>2
  <2> DEFINE entered == EnteredFrame(program, Callee, frameMemory, stack, frameTop)
  <2>4. ASSUME NEW i \in 1 .. FrameCapacity
        PROVE  /\ i <= frameTop => entered[i] = frameMemory[i]
               /\ i \in frameTop + 1 .. frameTop + Callee.frameByteSize =>
                    entered[i] = 0 \/ ParamsAt(program, Callee, i - frameTop) # {}
    <3>1. i \in 1 .. Len(frameMemory)
      BY <1>1
    <3> QED BY <1>1, <2>1, <3>1, EnteredBytes
  <2> HIDE DEF entered
  <2>5. memory'[segmentFrame] = entered
    BY <2>2 DEF entered
  <2> QED BY <2>2, <2>3, <2>4, <2>5
<1>3. CASE ExecRet
  <2>1. UNCHANGED memory /\ callFrames # <<>>
        /\ frameTop' \in {frameTop, Last(callFrames).localBase}
    BY <1>3 DEF ExecRet, frameState
  <2>2. frameTop' <= frameTop /\ frameTop' \in Nat
    <3>1. callFrames \in Seq(CallFrame) /\ FramesOrdered(callFrames, frameTop)
      BY DEF IInv, TypeOK, WorkspaceRespected, FramesOrdered
    <3>2. Last(callFrames) \in CallFrame /\ Last(callFrames).localBase <= frameTop
      BY <1>1, <2>1, <3>1, FrontOrdered
    <3> QED BY <1>1, <2>1, <3>2 DEF CallFrame
  <2> QED BY <1>1, <2>1, <2>2 DEF frameMemory
<1> QED BY <1>2, <1>3, OnlyCallAndRet

\* Calls and returns leave the frames below alone and clear what they enter:
\* for every program, also one that jumps into operands or calls with a
\* dispatcher that loads and runs others in between.
THEOREM FramesApart == Spec => FramesIsolated
<1>1. IInv /\ [Next]_vars => [IsolateFrames]_vars
  BY IsolationStep
<1> QED BY <1>1, Invariance, PTL DEF Spec, FramesIsolated

-----------------------------------------------------------------------------
(***************************************************************************)
(* The chain of calls.  A dispatcher that is given the stack API alone     *)
(* (and may rebind its own memory and registration) neither loads, resets  *)
(* nor runs while a run is in progress; one that does can leave the outer  *)
(* loop with the frames of another run.                                    *)
(***************************************************************************)
StackApi == DispatcherCalls \subseteq {"push", "pop", "extern", "register"}

\* With such a dispatcher at most one run is in progress, that of the program
\* that is loaded.
SingleRun == activations # <<>> => activations = <<program>>

\* The function that frame i of a call stack belongs to, and where it ends.
Owner(p, frames, i) ==
  Programs[p].functions[
    1 + (IF i = 1 THEN Programs[p].entryPoint
         ELSE Programs[p].text[frames[i].returnPC - CallSize + 1].operand)]
End(frames, top, i) ==
  IF i = Len(frames) THEN top ELSE frames[i + 1].localBase

ReturnsBehindCall(p, frame) ==
  /\ frame.returnPC - CallSize \in 0 .. Len(Programs[p].text) - 1
  /\ Programs[p].text[frame.returnPC - CallSize + 1].op = "Call"

Chain(p, frames, top) ==
  /\ frames # <<>>
  /\ frames[1].localBase = 0
  /\ \A i \in 2 .. Len(frames) : ReturnsBehindCall(p, frames[i])
  /\ \A i \in 1 .. Len(frames) :
       /\ frames[i].returnKind = Owner(p, frames, i).returnKind
       /\ End(frames, top, i) = frames[i].localBase + Owner(p, frames, i).frameByteSize

LEMMA ChainIsCallChain ==
  CallChain <=> (activations # <<>> => Chain(program, callFrames, frameTop))
BY DEF CallChain, Chain, ReturnsBehindCall, FrameEnd, End, CalleeOf, Owner

\* A call puts one link on the chain.
LEMMA ChainGrows ==
  ASSUME NEW p, NEW frames \in Seq(CallFrame), NEW top, Chain(p, frames, top),
         NEW frame \in CallFrame, ReturnsBehindCall(p, frame),
         NEW callee,
         callee = Programs[p].functions[
                    Programs[p].text[frame.returnPC - CallSize + 1].operand + 1],
         Programs[p].text[frame.returnPC - CallSize + 1].operand \in Nat,
         frame.localBase = top, frame.returnKind = callee.returnKind
  PROVE  Chain(p, Append(frames, frame), top + callee.frameByteSize)
<1> DEFINE new == Append(frames, frame)
<1>1. /\ Len(frames) \in Nat /\ Len(frames) >= 1
      /\ Len(new) = Len(frames) + 1
      /\ new[Len(frames) + 1] = frame
      /\ \A i \in 1 .. Len(frames) : new[i] = frames[i]
  BY DEF Chain
<1>2. new # <<>> /\ new[1].localBase = 0
  BY <1>1 DEF Chain
<1>3. \A i \in 1 .. Len(new) : i \in 1 .. Len(frames) \/ i = Len(frames) + 1
  BY <1>1
<1>4. ASSUME NEW i \in 2 .. Len(new) PROVE ReturnsBehindCall(p, new[i])
  <2>1. CASE i = Len(frames) + 1
    BY <1>1, <2>1
  <2>2. CASE i \in 1 .. Len(frames)
    <3>1. i \in 2 .. Len(frames)
      BY <1>1, <2>2
    <3> QED BY <1>1, <2>2, <3>1 DEF Chain
  <2> QED BY <1>1, <1>3, <2>1, <2>2
<1>5. ASSUME NEW i \in 1 .. Len(frames)
      PROVE  /\ new[i].returnKind = Owner(p, new, i).returnKind
             /\ End(new, top + callee.frameByteSize, i)
                  = new[i].localBase + Owner(p, new, i).frameByteSize
  <2>1. Owner(p, new, i) = Owner(p, frames, i)
    BY <1>1 DEF Owner
  <2>2. End(new, top + callee.frameByteSize, i) = End(frames, top, i)
    <3>1. CASE i = Len(frames)
      BY SMTT(20), <1>1, <3>1 DEF End
    <3>2. CASE i # Len(frames)
      <4>1. i + 1 \in 1 .. Len(frames) /\ i # Len(new)
        BY <1>1, <3>2
      <4> QED BY <1>1, <3>2, <4>1 DEF End
    <3> QED BY <3>1, <3>2
  <2> HIDE DEF new
  <2> QED BY <1>1, <2>1, <2>2 DEF Chain
<1>6. /\ new[Len(new)].returnKind = Owner(p, new, Len(new)).returnKind
      /\ End(new, top + callee.frameByteSize, Len(new))
           = new[Len(new)].localBase + Owner(p, new, Len(new)).frameByteSize
  <2>1. Owner(p, new, Len(new)) = callee
    <3>1. Len(new) # 1 /\ new[Len(new)] = frame
      BY <1>1
    <3>2. 1 + Programs[p].text[frame.returnPC - CallSize + 1].operand
            = Programs[p].text[frame.returnPC - CallSize + 1].operand + 1
      OBVIOUS
    <3> QED BY <3>1, <3>2 DEF Owner
  <2> QED BY <1>1, <2>1 DEF End
<1> HIDE DEF new
<1>7. Chain(p, new, top + callee.frameByteSize)
  BY <1>1, <1>2, <1>3, <1>4, <1>5, <1>6 DEF Chain
<1> QED BY <1>7 DEF new

\* A return takes the last one off.
LEMMA ChainShrinks ==
  ASSUME NEW p, NEW frames \in Seq(CallFrame), NEW top, Chain(p, frames, top),
         Len(frames) # 1
  PROVE  Chain(p, Front(frames), Last(frames).localBase)
<1> DEFINE new == Front(frames)
<1>1. /\ Len(frames) \in Nat /\ Len(frames) >= 2
      /\ Len(new) = Len(frames) - 1
      /\ \A i \in 1 .. Len(frames) - 1 : new[i] = frames[i]
  <2>1. frames # <<>>
    BY DEF Chain
  <2>2. Len(frames) \in Nat /\ Len(frames) # 0
    BY <2>1
  <2>3. /\ Len(new) = Len(frames) - 1
        /\ \A i \in 1 .. Len(frames) - 1 : new[i] = frames[i]
    BY <2>1, FrontShorter
  <2> QED BY <2>2, <2>3
<1>2. new # <<>> /\ new[1].localBase = 0
  BY <1>1 DEF Chain
<1>3. \A i \in 2 .. Len(new) : ReturnsBehindCall(p, new[i])
  BY <1>1 DEF Chain
<1>4. ASSUME NEW i \in 1 .. Len(new)
      PROVE  /\ new[i].returnKind = Owner(p, new, i).returnKind
             /\ End(new, Last(frames).localBase, i)
                  = new[i].localBase + Owner(p, new, i).frameByteSize
  <2>1. i \in 1 .. Len(frames) /\ i # Len(frames) /\ new[i] = frames[i]
    BY <1>1
  <2>2. Owner(p, new, i) = Owner(p, frames, i)
    BY <2>1 DEF Owner
  <2>3. End(new, Last(frames).localBase, i) = End(frames, top, i)
    <3>1. CASE i = Len(new)
      BY <1>1, <2>1, <3>1 DEF End, Last
    <3>2. CASE i # Len(new)
      <4>1. i + 1 \in 1 .. Len(frames) - 1
        BY <1>1, <3>2
      <4> QED BY <1>1, <2>1, <3>2, <4>1 DEF End
    <3> QED BY <3>1, <3>2
  <2> HIDE DEF new
  <2> QED BY <2>1, <2>2, <2>3 DEF Chain
<1> HIDE DEF new
<1>5. Chain(p, new, Last(frames).localBase)
  BY <1>2, <1>3, <1>4 DEF Chain
<1> QED BY <1>5 DEF new


\* A call is admitted or ends the run; so does an extern call.
LEMMA CallShape ==
  ASSUME IInv, ExecCall
  PROVE  FailsInPlace \/ callFrames' # callFrames
<1>1. CASE Trap(stack, EntryStatus(program, instr.operand, stack, frameTop,
                                   Len(callFrames)))
  BY <1>1, StopShape, StatusesReturned
<1>2. CASE \E frame : callFrames' = Append(callFrames, frame)
  <2>1. callFrames \in Seq(CallFrame)
    BY DEF IInv, TypeOK
  <2>2. Len(callFrames') = Len(callFrames) + 1 /\ Len(callFrames) \in Nat
    BY <1>2, <2>1
  <2>3. Len(callFrames') # Len(callFrames)
    BY <2>2
  <2> QED BY <2>3
<1> QED BY <1>1, <1>2 DEF ExecCall

HandsOver ==
  /\ inHost' = TRUE
  /\ pc' = nextPC
  /\ UNCHANGED <<callFrames, frameTop, fault, status, activations>>

LEMMA ExternShape ==
  ASSUME ExecCallExtern
  PROVE  FailsInPlace \/ HandsOver
BY StopShape, StatusesReturned DEF ExecCallExtern, HandsOver, frameState

\* The ways out of a function.
LEMMA ReturnShape ==
  ASSUME ExecRet
  PROVE  \/ /\ callFrames # <<>> /\ Len(callFrames) # 1
            /\ callFrames' = Front(callFrames)
            /\ frameTop' = Last(callFrames).localBase
            /\ pc' = Last(callFrames).returnPC
            /\ UNCHANGED runState
         \/ ReturnToHost("OK") /\ UNCHANGED fault
         \/ \E st \in Statuses : Fails(st)
<1> DEFINE st == ResultStatus(Last(callFrames).returnKind)
<1>1. CASE callFrames = <<>> /\ recordStatus(pc, "InvalidLifecycle")
             /\ ReturnToHost("InvalidLifecycle")
  <2>1. Fails("InvalidLifecycle")
    BY <1>1 DEF Fails, Statuses
  <2> QED BY <2>1 DEF Statuses
<1>2. CASE recordStatus(pc, st) /\ ReturnToHost(st)
  <2>1. st \in PlainStatuses
    BY StatusesReturned
  <2> QED BY <1>2, <2>1 DEF Fails, PlainStatuses
<1>3. CASE /\ callFrames # <<>>
           /\ callFrames' = Front(callFrames)
           /\ frameTop' = Last(callFrames).localBase
           /\ IF EndsRun
              THEN pc' = nextPC /\ UNCHANGED fault /\ ReturnToHost("OK")
              ELSE pc' = Last(callFrames).returnPC /\ UNCHANGED runState
  BY <1>3 DEF EndsRun
<1> QED BY <1>1, <1>2, <1>3 DEF ExecRet

\* During the run of a stack-API dispatcher the host changes neither the
\* program nor the loop.
LEMMA HostDuringRun ==
  ASSUME StackApi, HostStep, activations # <<>>
  PROVE  /\ UNCHANGED <<program, loopState, hostControl, instructionPC>>
         /\ status' = status \/ status' \in PlainStatuses
<1>1. \A call : HostMay(call) => call \in {"push", "pop", "extern", "register"}
  BY DEF HostMay, StackApi
<1>2. ~HostMay("load") /\ ~HostMay("loadImage") /\ ~HostMay("reset") /\ ~HostMay("run")
  BY <1>1
<1>3. \/ \E v \in HostValues : HostPush(v[1], v[2])
      \/ \E kind \in HostPopKinds : HostPop(kind)
      \/ \E block \in ExternBlocks : SetExternMemory(block)
      \/ \E bound \in BOOLEAN : RegisterExternDispatcher(bound)
  BY <1>2 DEF HostStep, LoadProgram, LoadRejectedImage, Reset, RunLoaded
<1>4. \A stk, n : PushStatus(stk, n) \in PlainStatuses /\ PopStatus(stk, n) \in PlainStatuses
  BY DEF PushStatus, PopStatus, PlainStatuses, Statuses
<1> QED BY <1>3, <1>4 DEF HostPush, HostPop, SetExternMemory, RegisterExternDispatcher

\* Outside a run, what the host's calls return.
LEMMA HostStatusReturned ==
  ASSUME HostStep
  PROVE  status' = status \/ status' \in PlainStatuses
<1>1. \A stk, n : PushStatus(stk, n) \in PlainStatuses /\ PopStatus(stk, n) \in PlainStatuses
  BY DEF PushStatus, PopStatus, PlainStatuses, Statuses
<1>2. /\ \A p : LoadStatus(p) \in PlainStatuses
      /\ ImageErrors \subseteq PlainStatuses
      /\ ResetStatus \in PlainStatuses
  BY StatusesReturned
     DEF LoadStatus, ImageErrors, ResetStatus, PlainStatuses, Statuses
<1> QED BY <1>1, <1>2
        DEF HostStep, LoadProgram, LoadRejectedImage, Reset, RunLoaded, HostPush,
            HostPop, SetExternMemory, RegisterExternDispatcher

RunInv == SingleRun /\ CallChain /\ NoLifecycleFault

\* When the only run ends, none is left.
LEMMA LastRun ==
  ASSUME IInv, SingleRun, activations # <<>>, activations' = Front(activations)
  PROVE  activations' = <<>>
<1>1. activations \in Seq(1 .. Len(Programs)) /\ activations = <<program>>
  BY DEF IInv, TypeOK, SingleRun
<1>2. Len(activations) = 1
  BY <1>1
<1>3. /\ Len(Front(activations)) = Len(activations) - 1
      /\ Front(activations) \in Seq(1 .. Len(Programs))
  <2>1. activations \in Seq(1 .. Len(Programs))
    BY <1>1
  <2> QED BY <2>1, FrontShorter
<1>4. activations' \in Seq(1 .. Len(Programs)) /\ Len(activations') = 0
  BY <1>2, <1>3
<1> QED BY <1>4

LEMMA RunKeptByCall ==
  ASSUME IInv, RunInv, ExecCall, callFrames' # callFrames
  PROVE  RunInv'
<1>1. /\ Fetched("Call") /\ instr \in Instruction /\ pc \in Nat
      /\ callFrames' = Append(callFrames,
           [returnPC |-> nextPC, localBase |-> frameTop,
            returnKind |-> Callee.returnKind])
      /\ frameTop' = frameTop + Callee.frameByteSize
      /\ UNCHANGED runState
      /\ Callee \in Descriptor /\ program \in 1 .. Len(Programs)
  BY CallEffect
<1>2. UNCHANGED <<status, activations, program>>
  BY <1>1, LoopKeeps DEF runState, Execute
<1>3. /\ activations = <<program>> /\ Chain(program, callFrames, frameTop)
      /\ callFrames \in Seq(CallFrame) /\ frameTop \in Nat /\ nextPC \in Nat
  BY <1>1, FetchedType, ChainIsCallChain DEF RunInv, SingleRun, IInv, TypeOK
<1>4. loopProgram = Programs[program] /\ instr = Programs[program].text[pc + 1]
  BY <1>3 DEF loopProgram, instr, Last
<1>5. nextPC = pc + 6 /\ pc + 6 <= Len(Programs[program].text)
      /\ Programs[program].text[pc + 1].op = "Call"
  <2>1. operandSize(instr) = 4 /\ instr.op = "Call"
    BY <1>1 DEF Fetched, operandSize
  <2>2. nextPC = pc + 6
    BY <1>1, <2>1 DEF nextPC
  <2> QED BY <1>1, <1>4, <2>1, <2>2 DEF Fetched, textLen
<1> DEFINE frame == [returnPC |-> nextPC, localBase |-> frameTop,
                     returnKind |-> Callee.returnKind]
<1>6. /\ frame \in CallFrame /\ frame.localBase = frameTop
      /\ frame.returnKind = Callee.returnKind /\ frame.returnPC = pc + 6
  BY <1>1, <1>3, <1>5 DEF CallFrame, Descriptor
<1>7. frame.returnPC - CallSize = pc
  BY <1>1, <1>6 DEF CallSize
<1> HIDE DEF frame
<1>8. ReturnsBehindCall(program, frame)
  <2>1. Len(Programs[program].text) \in Nat
    <3>1. Programs[program].text \in Seq(Instruction)
      BY <1>1, ProgramsAssumption DEF IsLinkedProgram
    <3> QED BY <3>1
  <2> QED BY <1>1, <1>5, <1>7, <2>1 DEF ReturnsBehindCall
<1>9. /\ Callee = Programs[program].functions[
                    Programs[program].text[frame.returnPC - CallSize + 1].operand + 1]
      /\ Programs[program].text[frame.returnPC - CallSize + 1].operand \in Nat
  BY <1>1, <1>4, <1>7 DEF Callee, Instruction
<1>10. Chain(program, Append(callFrames, frame), frameTop + Callee.frameByteSize)
  BY <1>3, <1>6, <1>8, <1>9, ChainGrows
<1>11. Chain(program', callFrames', frameTop')
  BY <1>1, <1>2, <1>10 DEF frame
<1>12. CallChain'
  BY <1>11, ChainIsCallChain DEF CallChain, Chain, ReturnsBehindCall, FrameEnd, End,
     CalleeOf, Owner
<1> QED BY <1>2, <1>12 DEF RunInv, SingleRun, NoLifecycleFault

LEMMA RunKeptByLoop ==
  ASSUME IInv, RunInv, Execute
  PROVE  RunInv'
<1>1. /\ ~inHost /\ UNCHANGED program /\ activations # <<>>
      /\ Chain(program, callFrames, frameTop)
      /\ callFrames \in Seq(CallFrame)
  BY LoopKeeps, ChainIsCallChain DEF IInv, Running, RunInv, TypeOK
<1>2. ASSUME activations' = Front(activations), status' # "InvalidLifecycle"
      PROVE  RunInv'
  BY <1>1, <1>2, LastRun DEF RunInv, SingleRun, CallChain, NoLifecycleFault
<1>3. ASSUME UNCHANGED <<callFrames, frameTop, status, activations>>
      PROVE  RunInv'
  BY <1>1, <1>3 DEF RunInv, SingleRun, CallChain, CalleeOf, FrameEnd, NoLifecycleFault
<1>4. ASSUME NEW st \in Statuses, Fails(st) PROVE RunInv'
  <2>1. callFrames # <<>>
    BY <1>1 DEF Chain
  <2> QED BY <1>2, <1>4, <2>1 DEF Fails, ReturnToHost
<1>5. CASE GoesOn
  BY <1>3, <1>5 DEF GoesOn, frameState, runState
<1>6. CASE FailsInPlace
  BY <1>4, <1>6 DEF FailsInPlace
<1>7. CASE RunOffEnd
  BY <1>2, <1>7 DEF RunOffEnd, ReturnToHost
<1>8. CASE ExecCall
  BY <1>6, <1>8, CallShape, RunKeptByCall
<1>9. CASE ExecCallExtern
  BY <1>3, <1>6, <1>9, ExternShape DEF HandsOver
<1>10. CASE ExecRet
  <2>1. ASSUME callFrames # <<>>, Len(callFrames) # 1,
               callFrames' = Front(callFrames),
               frameTop' = Last(callFrames).localBase,
               UNCHANGED runState
        PROVE  RunInv'
    <3>1. Chain(program', callFrames', frameTop')
      BY <1>1, <2>1, ChainShrinks
    <3>2. CallChain'
      BY <3>1 DEF CallChain, Chain, ReturnsBehindCall, FrameEnd, End, CalleeOf, Owner
    <3> QED BY <1>1, <2>1, <3>2 DEF RunInv, SingleRun, NoLifecycleFault, runState
  <2>2. ASSUME ReturnToHost("OK") PROVE RunInv'
    BY <1>2, <2>2 DEF ReturnToHost
  <2> QED BY <1>4, <1>10, <2>1, <2>2, ReturnShape
<1> QED BY <1>5, <1>6, <1>7, <1>8, <1>9, <1>10, ExecuteShape

\* RunLoaded enters the entry function: the chain begins.
LEMMA RunBegins ==
  ASSUME IInv, RunLoaded, ResetStatus = "OK", activations = <<>>
  PROVE  SingleRun' /\ CallChain'
<1>1. /\ ResetEffect /\ program # NoProgram /\ program \in 1 .. Len(Programs)
      /\ activations' = Append(activations, program) /\ program' = program
  BY DEF RunLoaded, ResetStatus, ResetEffect, IInv, TypeOK, NoProgram
<1>2. activations' = <<program>>
  BY <1>1
<1> DEFINE frame == [returnPC |-> 0, localBase |-> 0,
                     returnKind |-> EntryFunction.returnKind]
<1>3. callFrames' = <<frame>> /\ frameTop' = EntryFunction.frameByteSize
  BY <1>1 DEF ResetEffect
<1>4. /\ Programs[program].entryPoint \in Nat
      /\ EntryFunction = Programs[program].functions[1 + Programs[program].entryPoint]
      /\ EntryFunction.frameByteSize \in Nat
  <2>1. Programs[program].entryPoint \in Nat
    BY <1>1, ProgramsAssumption DEF IsLinkedProgram
  <2>2. EntryStatus(program, Programs[program].entryPoint, <<>>, 0, 0) = "OK"
    BY <1>1 DEF ResetStatus
  <2>3. <<>> \in Seq(Byte) /\ 0 \in Nat
    OBVIOUS
  <2>4. EntryFunction \in Descriptor
    BY <1>1, <2>1, <2>2, <2>3, EntryAdmitted DEF EntryFunction
  <2> QED BY <2>1, <2>4 DEF EntryFunction, Descriptor
<1>5. frame.localBase = 0 /\ frame.returnKind = EntryFunction.returnKind
  OBVIOUS
<1> HIDE DEF frame
<1>6. Chain(program, <<frame>>, EntryFunction.frameByteSize)
  BY <1>4, <1>5 DEF Chain, Owner, End
<1>7. CallChain'
  BY <1>1, <1>3, <1>6 DEF CallChain, Chain, ReturnsBehindCall, FrameEnd, End,
     CalleeOf, Owner
<1> QED BY <1>1, <1>2, <1>7 DEF SingleRun

LEMMA RunKept ==
  ASSUME StackApi, IInv, RunInv, [Next]_vars
  PROVE  RunInv'
<1>1. ASSUME UNCHANGED <<program, callFrames, frameTop, activations>>,
             status' # "InvalidLifecycle"
      PROVE  RunInv'
  BY <1>1 DEF RunInv, SingleRun, CallChain, CalleeOf, FrameEnd, NoLifecycleFault
<1>2. "InvalidLifecycle" \notin PlainStatuses
  BY DEF PlainStatuses
<1>3. CASE UNCHANGED vars
  BY <1>1, <1>3 DEF vars, RunInv, NoLifecycleFault
<1>4. CASE Execute
  BY <1>4, RunKeptByLoop
<1>5. CASE DispatcherReturns
  <2>1. PICK st : DispatcherReturn(st)
    BY <1>5 DEF DispatcherReturns
  <2>2. CASE st = "OK"
    BY <1>1, <2>1, <2>2 DEF DispatcherReturn, loopState, RunInv, NoLifecycleFault
  <2>3. CASE st # "OK"
    <3>1. activations' = <<>> /\ status' = "HostFailure"
      BY <2>1, <2>3, LastRun DEF DispatcherReturn, RunInv
    <3> QED BY <3>1 DEF RunInv, SingleRun, CallChain, NoLifecycleFault
  <2> QED BY <2>2, <2>3
<1>6. CASE HostStep /\ activations # <<>>
  BY <1>1, <1>2, <1>6, HostDuringRun DEF loopState, hostControl, RunInv, NoLifecycleFault
<1>7. CASE HostStep /\ activations = <<>>
  <2>1. NoLifecycleFault'
    BY <1>2, <1>7, HostStatusReturned DEF RunInv, NoLifecycleFault
  <2>2. CASE UNCHANGED activations
    BY <1>7, <2>1, <2>2 DEF RunInv, SingleRun, CallChain
  <2>3. CASE RunLoaded /\ ResetStatus = "OK"
    BY <1>7, <2>1, <2>3, RunBegins DEF RunInv
  <2> QED BY <1>7, <2>2, <2>3, HostShape DEF RunLoaded, hostControl
<1> QED BY <1>3, <1>4, <1>5, <1>6, <1>7 DEF Next

LEMMA RunInvariance ==
  ASSUME StackApi
  PROVE  Spec => []RunInv
<1>1. Init => RunInv
  BY DEF Init, RunInv, SingleRun, CallChain, NoLifecycleFault
<1>2. IInv /\ RunInv /\ [Next]_vars => RunInv'
  BY RunKept
<1> QED BY <1>1, <1>2, Invariance, PTL DEF Spec

\* With a dispatcher that is given the stack API alone, the call frames of a
\* run are the chain of calls in progress, each returning behind the Call
\* that made it and owning the bytes its function declares, for every program:
\* also for one whose jumps land inside other functions or inside operands.
THEOREM CallsChained ==
  ASSUME StackApi
  PROVE  Spec => []CallChain
<1>1. RunInv => CallChain
  BY DEF RunInv
<1> QED BY <1>1, RunInvariance, PTL

\* Such a machine never executes Ret, or takes the address of a local, without
\* a call frame: no bytecode returns more often than it was called.
THEOREM NeverWithoutFrame ==
  ASSUME StackApi
  PROVE  Spec => []NoLifecycleFault
<1>1. RunInv => NoLifecycleFault
  BY DEF RunInv
<1> QED BY <1>1, RunInvariance, PTL

-----------------------------------------------------------------------------
(***************************************************************************)
(* Faults.  The loop has control only while the diagnostics are clear, and *)
(* a dispatcher only while they would be recorded at its CallExtern.       *)
(***************************************************************************)
FaultInv ==
  /\ ~inHost => fault.status = "OK"
  /\ inHost /\ activations # <<>> =>
       /\ instructionPC = pc - CallSize /\ instructionPC \in Nat
       /\ loopProgram.text[instructionPC + 1].op = "CallExtern"

\* The ways a step ends a run, and what it leaves in the diagnostics.
LEMMA EndShape ==
  ASSUME IInv, [Next]_vars, Len(activations') < Len(activations)
  PROVE  \/ ~inHost /\ \E st \in Statuses : Fails(st)
         \/ ~inHost /\ ReturnToHost("OK") /\ UNCHANGED fault
         \/ \E st \in HostStatuses : DispatcherReturn(st) /\ st # "OK"
<1>1. Len(activations) \in Nat
  BY DEF IInv, TypeOK
<1>2. ~UNCHANGED activations
  BY <1>1
<1>3. CASE Execute
  <2>1. ~inHost
    BY <1>3, LoopKeeps
  <2>2. ~GoesOn
    BY <1>2 DEF GoesOn, runState
  <2>3. CASE FailsInPlace
    BY <2>1, <2>3 DEF FailsInPlace
  <2>4. CASE RunOffEnd
    BY <2>1, <2>4 DEF RunOffEnd
  <2>5. CASE ExecCall
    <3>1. callFrames' = callFrames
      BY <1>2, <2>5, CallEffect DEF runState
    <3> QED BY <2>3, <2>5, <3>1, CallShape
  <2>6. CASE ExecCallExtern
    BY <1>2, <2>3, <2>6, ExternShape DEF HandsOver
  <2>7. CASE ExecRet
    BY <1>2, <2>1, <2>7, ReturnShape DEF runState
  <2> QED BY <1>3, <2>2, <2>3, <2>4, <2>5, <2>6, <2>7, ExecuteShape
<1>4. CASE HostStep
  <2>1. RunLoaded
    BY <1>2, <1>4, HostShape DEF hostControl
  <2>2. activations' = Append(activations, program)
    BY <1>2, <2>1 DEF RunLoaded, hostControl
  <2>3. activations \in Seq(1 .. Len(Programs))
    BY DEF IInv, TypeOK
  <2>4. Len(activations') = Len(activations) + 1
    BY <2>2, <2>3
  <2> QED BY <1>1, <2>4
<1>5. CASE DispatcherReturns
  BY <1>2, <1>5 DEF DispatcherReturns, DispatcherReturn
<1> QED BY <1>2, <1>3, <1>4, <1>5 DEF Next, vars

LEMMA FaultKept ==
  ASSUME StackApi, ~DispatcherSwallows, IInv, RunInv, FaultInv, [Next]_vars
  PROVE  FaultInv'
<1>1. ASSUME UNCHANGED <<fault, activations, inHost, instructionPC, pc>>
      PROVE  FaultInv'
  BY <1>1 DEF FaultInv, loopProgram
<1>2. ASSUME inHost' = TRUE, activations' = <<>>
      PROVE  FaultInv'
  BY <1>2 DEF FaultInv
<1>3. CASE UNCHANGED vars
  BY <1>1, <1>3 DEF vars
<1>4. CASE Execute
  <2>1. ~inHost /\ activations # <<>> /\ fault.status = "OK"
    BY <1>4, LoopKeeps DEF IInv, Running, FaultInv
  <2>2. ASSUME UNCHANGED <<fault, inHost>> PROVE FaultInv'
    BY <2>1, <2>2 DEF FaultInv
  <2>3. ASSUME NEW st, ReturnToHost(st) PROVE FaultInv'
    <3>1. inHost' = TRUE /\ activations' = <<>>
      BY <2>1, <2>3, LastRun DEF ReturnToHost, RunInv
    <3> QED BY <1>2, <3>1
  <2>4. CASE GoesOn
    BY <2>2, <2>4 DEF GoesOn, runState
  <2>5. CASE FailsInPlace
    BY <2>3, <2>5 DEF FailsInPlace, Fails
  <2>6. CASE RunOffEnd
    BY <2>3, <2>6 DEF RunOffEnd
  <2>7. CASE ExecCall
    BY <2>2, <2>5, <2>7, CallShape, CallEffect DEF runState
  <2>8. CASE ExecCallExtern
    <3>1. CASE HandsOver
      <4>1. /\ instr.op = "CallExtern" /\ instructionPC' = pc /\ pc \in Nat
        BY <2>8, FetchedType DEF ExecCallExtern, Fetched
      <4>2. operandSize(instr) = 4
        BY <4>1 DEF operandSize
      <4>3. nextPC = pc + 6
        BY <4>1, <4>2 DEF nextPC
      <4>4. inHost' = TRUE /\ pc' = pc + 6 /\ UNCHANGED activations
        BY <3>1, <4>3 DEF HandsOver
      <4>5. instructionPC' = pc' - CallSize /\ instructionPC' \in Nat
        BY <4>1, <4>4 DEF CallSize
      <4>6. loopProgram'.text[instructionPC' + 1].op = "CallExtern"
        BY <4>1, <4>4 DEF loopProgram, instr
      <4> QED BY <4>4, <4>5, <4>6 DEF FaultInv
    <3> QED BY <2>5, <2>8, <3>1, ExternShape
  <2>9. CASE ExecRet
    BY <2>2, <2>3, <2>9, ReturnShape DEF runState, Fails
  <2> QED BY <1>4, <2>4, <2>5, <2>6, <2>7, <2>8, <2>9, ExecuteShape
<1>5. CASE DispatcherReturns
  <2>1. PICK st : DispatcherReturn(st)
    BY <1>5 DEF DispatcherReturns
  <2>2. CASE st = "OK"
    BY <2>1, <2>2 DEF DispatcherReturn, FaultInv
  <2>3. CASE st # "OK"
    <3>1. inHost' = TRUE /\ activations' = <<>>
      BY <2>1, <2>3, LastRun DEF DispatcherReturn, RunInv, IInv, TypeOK
    <3> QED BY <1>2, <3>1
  <2> QED BY <2>2, <2>3
<1>6. CASE HostStep /\ activations # <<>>
  <2>1. UNCHANGED <<activations, inHost, instructionPC, pc>>
    BY <1>6, HostDuringRun DEF loopState, hostControl
  <2>2. inHost = TRUE
    BY <1>6 DEF HostStep, LoadProgram, LoadRejectedImage, Reset, RunLoaded, HostPush,
       HostPop, SetExternMemory, RegisterExternDispatcher, HostMay, IInv, TypeOK
  <2> QED BY <2>1, <2>2 DEF FaultInv, loopProgram
<1>7. CASE HostStep /\ activations = <<>>
  <2>1. CASE RunLoaded /\ ResetStatus = "OK"
    <3>1. fault'.status = "OK" /\ inHost' = FALSE
      BY <2>1 DEF RunLoaded, ResetEffect, noVMFault
    <3> QED BY <3>1 DEF FaultInv
  <2>2. CASE UNCHANGED <<activations, inHost>>
    <3>1. inHost = TRUE
      BY <1>7 DEF IInv, Running, TypeOK
    <3> QED BY <1>2, <1>7, <2>2, <3>1
  <2> QED BY <1>7, <2>1, <2>2, HostShape DEF RunLoaded, hostControl
<1> QED BY <1>3, <1>4, <1>5, <1>6, <1>7 DEF Next

LEMMA FaultInvariance ==
  ASSUME StackApi, ~DispatcherSwallows
  PROVE  Spec => []FaultInv
<1>1. Init => FaultInv
  BY DEF Init, FaultInv, noVMFault
<1>2. IInv /\ RunInv /\ FaultInv /\ [Next]_vars => FaultInv'
  BY FaultKept
<1> QED BY <1>1, <1>2, Invariance, RunInvariance, PTL DEF Spec

LEMMA ReportStep ==
  ASSUME IInv, FaultInv, [Next]_vars
  PROVE  ReportStatus
<1> SUFFICES ASSUME Len(activations') < Len(activations)
             PROVE  fault'.status = status'
  BY DEF ReportStatus
<1>1. ASSUME NEW st \in Statuses, ~inHost, Fails(st)
      PROVE  fault'.status = status'
  BY <1>1 DEF Fails, setFault, recordStatus, FaultAt, ReturnToHost, FaultInv
<1>2. ASSUME ~inHost, ReturnToHost("OK"), UNCHANGED fault
      PROVE  fault'.status = status'
  BY <1>2 DEF ReturnToHost, FaultInv
<1>3. ASSUME NEW st, DispatcherReturn(st), st # "OK"
      PROVE  fault'.status = status'
  BY <1>3 DEF DispatcherReturn
<1> QED BY <1>1, <1>2, <1>3, EndShape

LEMMA NameStep ==
  ASSUME IInv, FaultInv, [Next]_vars
  PROVE  NameInstruction
<1> SUFFICES ASSUME Len(activations') < Len(activations), status' # "OK"
             PROVE  IF inHost
                    THEN /\ fault'.pc = pc - CallSize
                         /\ loopProgram.text[fault'.pc + 1].op = "CallExtern"
                    ELSE fault'.pc = pc
  BY DEF NameInstruction
<1>1. ASSUME NEW st \in Statuses, ~inHost, Fails(st)
      PROVE  fault'.pc = pc
  BY <1>1 DEF Fails, setFault, recordStatus, FaultAt, ReturnToHost, FaultInv
<1>2. ASSUME ~inHost, ReturnToHost("OK")
      PROVE  FALSE
  BY <1>2 DEF ReturnToHost
<1>3. ASSUME NEW st, DispatcherReturn(st), st # "OK"
      PROVE  /\ inHost /\ fault'.pc = pc - CallSize
             /\ loopProgram.text[fault'.pc + 1].op = "CallExtern"
  BY <1>3 DEF DispatcherReturn, FaultInv, NoPC
<1> QED BY <1>1, <1>2, <1>3, EndShape

\* With a stack-API dispatcher that does not hide its failures, the status a
\* run returns is the status of its diagnostics, for every program.
THEOREM FaultRecent ==
  ASSUME StackApi, ~DispatcherSwallows
  PROVE  Spec => FaultIsMostRecent
<1>1. IInv /\ FaultInv /\ [Next]_vars => [ReportStatus]_vars
  BY ReportStep
<1> QED BY <1>1, Invariance, FaultInvariance, PTL DEF Spec, FaultIsMostRecent

\* Such a run's diagnostics name the instruction that failed, the CallExtern
\* when it was the host that failed.
THEOREM FaultNamed ==
  ASSUME StackApi, ~DispatcherSwallows
  PROVE  Spec => FaultNamesInstruction
<1>1. IInv /\ FaultInv /\ [Next]_vars => [NameInstruction]_vars
  BY NameStep
<1> QED BY <1>1, Invariance, FaultInvariance, PTL DEF Spec, FaultNamesInstruction

-----------------------------------------------------------------------------
(***************************************************************************)
(* The arguments of a script call: enterScriptFunction copies them one     *)
(* parameter at a time, last to first, from the operand stack to the       *)
(* offsets the descriptor names.  First, where they are on the stack.      *)
(***************************************************************************)

\* The next argument lies behind the bytes of the ones before it.
LEMMA NextArgument ==
  ASSUME NEW p, NEW d \in Descriptor, NEW k \in 1 .. d.paramCount
  PROVE  /\ Cardinality(ArgumentsBefore(p, d, k)) \in Nat
         /\ Cardinality(ArgumentsBefore(p, d, k + 1))
              = Cardinality(ArgumentsBefore(p, d, k)) + Size(ParamKind(p, d, k))
<1> DEFINE n == Size(ParamKind(p, d, k))
           before == ArgumentsBefore(p, d, k)
           these == {k} \X (1 .. n)
<1>1. d.paramCount \in Nat /\ k \in Nat
  BY DEF Descriptor
<1>2. n \in Nat /\ n <= 8
  BY SizeType
<1>3. ArgumentsBefore(p, d, k + 1) = before \cup these
  <2>1. ASSUME NEW a \in (1 .. d.paramCount) \X (1 .. 8)
        PROVE  a \in ArgumentsBefore(p, d, k + 1) <=> a \in before \/ a \in these
    <3>1. a[1] \in Nat /\ a[2] \in 1 .. 8 /\ a = <<a[1], a[2]>>
      BY <1>1
    <3>2. a[1] < k + 1 <=> a[1] < k \/ a[1] = k
      BY <1>1, <3>1
    <3>3. a \in these <=> a[1] = k /\ a[2] <= Size(ParamKind(p, d, a[1]))
      BY <1>2, <3>1
    <3>4. ~(a[1] = k /\ a[1] < k)
      BY <1>1
    <3> QED BY <3>2, <3>3 DEF ArgumentsBefore, Arguments
  <2>2. /\ ArgumentsBefore(p, d, k + 1) \subseteq (1 .. d.paramCount) \X (1 .. 8)
        /\ before \subseteq (1 .. d.paramCount) \X (1 .. 8)
    BY DEF ArgumentsBefore, Arguments
  <2>3. these \subseteq (1 .. d.paramCount) \X (1 .. 8)
    BY <1>2
  <2> HIDE DEF before, these
  <2> QED BY <2>1, <2>2, <2>3
<1>4. before \cap these = {}
  BY <1>1 DEF ArgumentsBefore
<1>5. IsFiniteSet(these) /\ Cardinality(these) = n
  <2>1. IsFiniteSet({k}) /\ Cardinality({k}) = 1
    BY FS_Singleton
  <2>2. IsFiniteSet(1 .. n) /\ Cardinality(1 .. n) = n
    BY <1>2, FS_Interval
  <2>3. IsFiniteSet(these) /\ Cardinality(these) = 1 * n
    BY ZenonT(30), <2>1, <2>2, FS_Product
  <2> QED BY <1>2, <2>3
<1>6. IsFiniteSet(before) /\ Cardinality(before) \in Nat
  <2>1. before \in SUBSET Arguments(p, d) /\ IsFiniteSet(Arguments(p, d))
    BY ArgumentsFinite DEF ArgumentsBefore
  <2> QED BY <2>1, FS_Subset, FS_CardinalityType
<1> HIDE DEF before, these
<1>7. Cardinality(before \cup these)
        = Cardinality(before) + Cardinality(these) - Cardinality(before \cap these)
  BY <1>5, <1>6, FS_Union
<1>8. Cardinality(before \cap these) = 0
  BY <1>4, FS_EmptySet
<1>9. Cardinality(before \cup these) = Cardinality(before) + n
  BY <1>2, <1>5, <1>6, <1>7, <1>8
<1> QED BY <1>3, <1>6, <1>9 DEF before

\* Before the first argument there is none, before the end there are all.
LEMMA ArgumentEnds ==
  ASSUME NEW p, NEW d \in Descriptor
  PROVE  /\ Cardinality(ArgumentsBefore(p, d, 1)) = 0
         /\ Cardinality(ArgumentsBefore(p, d, d.paramCount + 1))
              = argumentBytes(p, d)
<1>1. d.paramCount \in Nat
  BY DEF Descriptor
<1>2. \A a \in Arguments(p, d) : a[1] \in 1 .. d.paramCount
  BY DEF Arguments
<1>3. ArgumentsBefore(p, d, 1) = {}
  BY <1>1, <1>2 DEF ArgumentsBefore
<1>4. ArgumentsBefore(p, d, d.paramCount + 1) = Arguments(p, d)
  BY <1>1, <1>2 DEF ArgumentsBefore
<1> QED BY <1>3, <1>4, FS_EmptySet DEF argumentBytes

-----------------------------------------------------------------------------
(***************************************************************************)
(* Where they go.                                                          *)
(***************************************************************************)

LEMMA SingleMember ==
  ASSUME NEW S, IsFiniteSet(S), Cardinality(S) <= 1, NEW j \in S, NEW k \in S
  PROVE  j = k
<1> SUFFICES ASSUME j # k PROVE FALSE
  OBVIOUS
<1>1. IsFiniteSet({j}) /\ Cardinality({j}) = 1
  BY FS_Singleton
<1>2. Cardinality({j} \cup {k}) = Cardinality({j}) + 1
  BY <1>1, FS_AddElement
<1>3. {j} \cup {k} \in SUBSET S
  OBVIOUS
<1>4. Cardinality({j} \cup {k}) <= Cardinality(S) /\ Cardinality(S) \in Nat
  BY <1>3, FS_Subset, FS_CardinalityType
<1> QED BY <1>1, <1>2, <1>4

LEMMA OffsetType ==
  ASSUME NEW p \in 1 .. Len(Programs), NEW d \in Descriptor, ParamsInPool(p, d),
         NEW k \in 1 .. d.paramCount
  PROVE  ParamOffset(p, d, k) \in Nat
<1>1. Programs[p].paramOffsets \in Seq(Nat)
  BY ProgramsAssumption DEF IsLinkedProgram
<1> DEFINE start == d.paramStart
           count == d.paramCount
           offsets == Programs[p].paramOffsets
<1>2. /\ start \in Nat /\ count \in Nat /\ start + count <= Len(offsets)
      /\ k \in 1 .. count /\ offsets \in Seq(Nat)
  BY <1>1 DEF Descriptor, ParamsInPool
<1> HIDE DEF start, count, offsets
<1>3. offsets[start + k] \in Nat
  BY <1>2
<1> QED BY <1>3 DEF start, offsets, ParamOffset

LEMMA OwnersFinite ==
  ASSUME NEW p, NEW d \in Descriptor, NEW o
  PROVE  IsFiniteSet(ParamsAt(p, d, o))
<1>1. d.paramCount \in Int
  BY DEF Descriptor
<1>2. IsFiniteSet(1 .. d.paramCount)
  BY <1>1, FS_Interval
<1>3. ParamsAt(p, d, o) \in SUBSET (1 .. d.paramCount)
  BY DEF ParamsAt
<1> QED BY <1>2, <1>3, FS_Subset

\* Byte b of argument k is found at the offset of parameter k.
LEMMA ArgumentInSlot ==
  ASSUME NEW p \in 1 .. Len(Programs), NEW d \in Descriptor, ParamsInPool(p, d),
         ParamsFit(p, d), Disjoint(p, d), NEW frm \in Seq(Byte),
         NEW stk \in Seq(Byte), NEW base \in Nat, base + d.frameByteSize <= Len(frm),
         NEW k \in 1 .. d.paramCount, NEW b \in 1 .. Size(ParamKind(p, d, k))
  PROVE  /\ base + ParamOffset(p, d, k) + b \in 1 .. Len(frm)
         /\ EnteredFrame(p, d, frm, stk, base)[base + ParamOffset(p, d, k) + b]
              = stk[ArgumentPosition(p, d, stk, k, b)]
<1> DEFINE off == ParamOffset(p, d, k)
           n == Size(ParamKind(p, d, k))
           i == base + off + b
           owners == ParamsAt(p, d, off + b)
<1>1. /\ off \in Nat /\ n \in Nat /\ b \in 1 .. n /\ base \in Nat
      /\ d.frameByteSize \in Nat /\ d.paramCount \in Nat
  <2>1. off \in Nat
    BY OffsetType
  <2>2. n \in Nat
    BY SizeType
  <2>3. d.frameByteSize \in Nat /\ d.paramCount \in Nat
    BY DEF Descriptor
  <2>4. b \in 1 .. n
    OBVIOUS
  <2> HIDE DEF off, n
  <2> QED BY <2>1, <2>2, <2>3, <2>4
<1>2. off + n <= d.frameByteSize
  BY DEF ParamsFit
<1>3. owners \subseteq 1 .. d.paramCount /\ k \in owners
  <2>1. off + b \in off + 1 .. off + n
    <3> HIDE DEF off, n
    <3> QED BY <1>1
  <2> QED BY <2>1 DEF ParamsAt
<1>4. Cardinality(owners) <= 1
  <2>1. off + b \in 1 .. d.frameByteSize
    <3> HIDE DEF off, n
    <3> QED BY <1>1, <1>2
  <2> QED BY <2>1 DEF Disjoint
<1>5. IsFiniteSet(owners)
  BY OwnersFinite
<1> HIDE DEF owners
<1>6. \A j \in owners : j = k
  BY <1>3, <1>4, <1>5, SingleMember
<1>7. (CHOOSE j \in owners : \A l \in owners : j <= l) = k
  <2>1. k <= k
    BY <1>1
  <2>2. \A l \in owners : k <= l
    BY <1>6, <2>1
  <2> QED BY <1>3, <1>6, <2>2
<1>8. /\ i \in 1 .. Len(frm) /\ i \in base + 1 .. base + d.frameByteSize
      /\ i - base = off + b /\ i - base - off = b
  <2> HIDE DEF off, n
  <2> QED BY <1>1, <1>2
<1>9. ParamsAt(p, d, i - base) = owners /\ owners # {}
  <2> HIDE DEF i, off
  <2> QED BY <1>3, <1>8 DEF owners
<1>10. EnteredFrame(p, d, frm, stk, base)[i]
         = stk[ArgumentPosition(p, d, stk, k, i - base - off)]
  <2> DEFINE first == CHOOSE j \in ParamsAt(p, d, i - base) :
                        \A l \in ParamsAt(p, d, i - base) : j <= l
  <2>1. first = k
    <3> HIDE DEF i
    <3> QED BY <1>7, <1>9
  <2>2. EnteredFrame(p, d, frm, stk, base)[i]
          = stk[ArgumentPosition(p, d, stk, first, i - base - ParamOffset(p, d, first))]
    <3> HIDE DEF i
    <3> QED BY <1>8, <1>9 DEF EnteredFrame
  <2> HIDE DEF i, first
  <2> QED BY <2>1, <2>2
<1>11. EnteredFrame(p, d, frm, stk, base)[i]
         = stk[ArgumentPosition(p, d, stk, k, b)]
  <2> HIDE DEF i, off
  <2> QED BY <1>8, <1>10
<1> QED BY <1>8, <1>11

-----------------------------------------------------------------------------
(***************************************************************************)
(* All of them.                                                            *)
(***************************************************************************)
Slot(p, d, frm, base, k) ==
  SubSeq(frm, base + ParamOffset(p, d, k) + 1,
              base + ParamOffset(p, d, k) + Size(ParamKind(p, d, k)))

\* A parameter slot of the entered frame is the stretch of the old operand
\* stack that holds the argument.
LEMMA SlotIsArgument ==
  ASSUME NEW p \in 1 .. Len(Programs), NEW d \in Descriptor, ParamsInPool(p, d),
         ParamsFit(p, d), Disjoint(p, d), NEW frm \in Seq(Byte),
         NEW stk \in Seq(Byte), NEW base \in Nat,
         base + d.frameByteSize <= Len(frm), argumentBytes(p, d) <= Len(stk),
         NEW k \in 1 .. d.paramCount
  PROVE  LET low == Len(stk) - argumentBytes(p, d)
                      + Cardinality(ArgumentsBefore(p, d, k))
         IN  /\ low \in Nat /\ low + Size(ParamKind(p, d, k)) <= Len(stk)
             /\ Slot(p, d, EnteredFrame(p, d, frm, stk, base), base, k)
                  = SubSeq(stk, low + 1, low + Size(ParamKind(p, d, k)))
<1> DEFINE low == Len(stk) - argumentBytes(p, d)
                    + Cardinality(ArgumentsBefore(p, d, k))
           n == Size(ParamKind(p, d, k))
           off == ParamOffset(p, d, k)
           entered == EnteredFrame(p, d, frm, stk, base)
           slot == SubSeq(entered, base + off + 1, base + off + n)
           argument == SubSeq(stk, low + 1, low + n)
<1>1. /\ n \in Nat /\ n # 0 /\ off \in Nat /\ Len(stk) \in Nat
      /\ argumentBytes(p, d) \in Nat
      /\ Cardinality(ArgumentsBefore(p, d, k)) \in Nat
  BY SizeType, OffsetType, ArgumentsFinite, NextArgument
     DEF ParamsFit, argumentBytes
<1>2. \A b \in 1 .. n : ArgumentPosition(p, d, stk, k, b) = low + b
  BY <1>1 DEF ArgumentPosition
<1>3. \A b \in 1 .. n : low + b \in 1 .. Len(stk)
  BY <1>2, ArgumentOnStack
<1>4. low \in Nat /\ low + n <= Len(stk)
  <2>1. low \in Nat
    BY <1>1
  <2> HIDE DEF low, n
  <2> QED BY <1>1, <1>3, <2>1
<1>5. entered \in Seq(Byte)
  BY EnteredFrameType
<1>6. ASSUME NEW b \in 1 .. n
      PROVE  base + off + b \in 1 .. Len(frm) /\ entered[base + off + b] = stk[low + b]
  <2>1. Len(frm) \in Nat /\ b \in 1 .. Size(ParamKind(p, d, k))
    OBVIOUS
  <2> HIDE DEF n, low, off, entered, slot, argument
  <2>2. /\ base + ParamOffset(p, d, k) + b \in 1 .. Len(frm)
        /\ EnteredFrame(p, d, frm, stk, base)[base + ParamOffset(p, d, k) + b]
             = stk[ArgumentPosition(p, d, stk, k, b)]
    BY <2>1, ArgumentInSlot
  <2>3. ArgumentPosition(p, d, stk, k, b) = low + b
    BY <1>2
  <2> QED BY <2>2, <2>3 DEF off, entered
<1>7. Len(entered) = Len(frm) /\ Len(frm) \in Nat
  BY EnteredFrameType
<1> HIDE DEF low, n, off, entered
<1>8. base + off + n \in Nat /\ base + off \in Nat /\ base + off + n <= Len(entered)
  <2>1. base + off + n \in 1 .. Len(frm)
    BY <1>1, <1>6
  <2> QED BY <1>1, <1>7, <2>1
<1>9. /\ slot \in Seq(Byte) /\ Len(slot) = n
      /\ \A b \in 1 .. n : slot[b] = entered[base + off + b]
  <2> DEFINE from == base + off
             to == base + off + n
  <2>1. /\ from \in Nat /\ to \in Nat /\ from <= to /\ to <= Len(entered)
        /\ to - from = n
    BY <1>1, <1>8
  <2> HIDE DEF from, to
  <2>2. /\ SubSeq(entered, from + 1, to) \in Seq(Byte)
        /\ Len(SubSeq(entered, from + 1, to)) = to - from
        /\ \A b \in 1 .. to - from :
             SubSeq(entered, from + 1, to)[b] = entered[from + b]
    BY <1>5, <2>1, SubSeqIs
  <2>3. slot = SubSeq(entered, from + 1, to)
    BY DEF from, to
  <2> HIDE DEF slot
  <2>4. \A b \in 1 .. n : slot[b] = entered[from + b]
    BY <2>1, <2>2, <2>3
  <2> QED BY <2>1, <2>2, <2>3, <2>4 DEF from
<1>10. /\ argument \in Seq(Byte) /\ Len(argument) = n
       /\ \A b \in 1 .. n : argument[b] = stk[low + b]
  <2> DEFINE to == low + n
  <2>1. low \in Nat /\ to \in Nat /\ low <= to /\ to <= Len(stk) /\ to - low = n
    BY <1>1, <1>4
  <2> HIDE DEF to
  <2>2. /\ SubSeq(stk, low + 1, to) \in Seq(Byte)
        /\ Len(SubSeq(stk, low + 1, to)) = to - low
        /\ \A b \in 1 .. to - low : SubSeq(stk, low + 1, to)[b] = stk[low + b]
    BY <2>1, SubSeqIs
  <2>3. argument = SubSeq(stk, low + 1, to)
    BY DEF to
  <2> HIDE DEF argument
  <2> QED BY <2>1, <2>2, <2>3
<1> HIDE DEF slot, argument
<1>11. slot = argument
  BY <1>6, <1>9, <1>10, SeqEqual
<1> QED BY <1>4, <1>11 DEF low, n, off, entered, slot, argument, Slot

\* The parameters read back from the frame are what the call took.
LEMMA ArgumentsMoved ==
  ASSUME NEW p \in 1 .. Len(Programs), NEW d \in Descriptor, ParamsInPool(p, d),
         ParamsFit(p, d), Disjoint(p, d), NEW frm \in Seq(Byte),
         NEW stk \in Seq(Byte), NEW base \in Nat,
         base + d.frameByteSize <= Len(frm), argumentBytes(p, d) <= Len(stk),
         NEW entered, entered = EnteredFrame(p, d, frm, stk, base)
  PROVE  stk = Drop(stk, argumentBytes(p, d))
                 \o FlattenSeq([k \in 1 .. d.paramCount |->
                                  Slot(p, d, entered, base, k)])
<1> DEFINE low == Len(stk) - argumentBytes(p, d)
           before(k) == Cardinality(ArgumentsBefore(p, d, k))
           slot(k) == Slot(p, d, entered, base, k)
           slots(m) == [k \in 1 .. m |-> slot(k)]
           Good == {m \in 0 .. d.paramCount :
                      /\ slots(m) \in Seq(Seq(Byte))
                      /\ low + before(m + 1) <= Len(stk)
                      /\ FlattenSeq(slots(m))
                           = SubSeq(stk, low + 1, low + before(m + 1))}
<1>1. /\ d.paramCount \in Nat /\ argumentBytes(p, d) \in Nat /\ Len(stk) \in Nat
      /\ low \in Nat
  BY ArgumentsFinite DEF Descriptor, argumentBytes
<1>2. \A k \in 1 .. d.paramCount :
        /\ before(k) \in Nat
        /\ before(k + 1) = before(k) + Size(ParamKind(p, d, k))
        /\ Size(ParamKind(p, d, k)) \in Nat
  BY NextArgument, SizeType
<1>3. before(1) = 0 /\ before(d.paramCount + 1) = argumentBytes(p, d)
  BY ArgumentEnds
<1>4. \A k \in 1 .. d.paramCount :
        /\ low + before(k) + Size(ParamKind(p, d, k)) <= Len(stk)
        /\ slot(k) = SubSeq(stk, low + before(k) + 1,
                            low + before(k) + Size(ParamKind(p, d, k)))
  BY SlotIsArgument
<1> HIDE DEF low, before, slot
<1>5. 0 \in Good
  <2>1. slots(0) = <<>>
    OBVIOUS
  <2>2. SubSeq(stk, low + 1, low + before(0 + 1)) = <<>>
    BY <1>1, <1>3, SubSeqEmpty
  <2>3. <<>> \in Seq(Seq(Byte))
    OBVIOUS
  <2>4. low + before(0 + 1) <= Len(stk)
    BY <1>1, <1>3 DEF low
  <2>5. 0 \in 0 .. d.paramCount
    BY <1>1
  <2> HIDE DEF slots
  <2>6. /\ slots(0) \in Seq(Seq(Byte))
        /\ FlattenSeq(slots(0)) = SubSeq(stk, low + 1, low + before(0 + 1))
    BY <2>1, <2>2, <2>3, FlattenEmpty
  <2> QED BY <2>4, <2>5, <2>6
<1>6. ASSUME NEW m \in 0 .. d.paramCount - 1, m \in Good
      PROVE  m + 1 \in Good
  <2>1. m + 1 \in 1 .. d.paramCount /\ m \in Nat
    BY <1>1
  <2> DEFINE b == low + before(m + 1)
             c == low + before(m + 1 + 1)
  <2>2. /\ b \in Nat /\ c \in Nat /\ b <= c /\ c <= Len(stk) /\ low <= b
        /\ slot(m + 1) = SubSeq(stk, b + 1, c)
    <3>1. /\ before(m + 1) \in Nat /\ Size(ParamKind(p, d, m + 1)) \in Nat
          /\ before(m + 1 + 1) = before(m + 1) + Size(ParamKind(p, d, m + 1))
      BY <1>2, <2>1
    <3>2. /\ low + before(m + 1) + Size(ParamKind(p, d, m + 1)) <= Len(stk)
          /\ slot(m + 1) = SubSeq(stk, low + before(m + 1) + 1,
                            low + before(m + 1) + Size(ParamKind(p, d, m + 1)))
      BY <1>4, <2>1
    <3>3. low + before(m + 1) + Size(ParamKind(p, d, m + 1)) = c
      BY <1>1, <3>1
    <3>4. /\ b \in Nat /\ b + Size(ParamKind(p, d, m + 1)) = c
          /\ b + Size(ParamKind(p, d, m + 1)) <= Len(stk)
          /\ slot(m + 1) = SubSeq(stk, b + 1, b + Size(ParamKind(p, d, m + 1)))
      <4>1. b \in Nat /\ b = low + before(m + 1)
        BY SMTT(20), <1>1, <3>1
      <4> HIDE DEF b, c
      <4> QED BY <3>1, <3>2, <3>3, <4>1
    <3>5. low <= b
      BY <1>1, <3>1
    <3> HIDE DEF b, c
    <3> QED BY SMTT(20), <3>1, <3>4, <3>5
  <2>3. slot(m + 1) \in Seq(Byte)
    <3> HIDE DEF b, c
    <3>1. SubSeq(stk, b + 1, c) \in Seq(Byte)
      BY <2>2, SubSeqIs
    <3> QED BY <2>2, <3>1
  <2>4. /\ slots(m) \in Seq(Seq(Byte))
        /\ FlattenSeq(slots(m)) = SubSeq(stk, low + 1, b)
    <3> HIDE DEF slots
    <3> QED BY <1>6
  <2>5. slots(m + 1) = Append(slots(m), slot(m + 1))
    <3>1. slots(m) = [k \in 1 .. m |-> slot(k)] /\ Len(slots(m)) = m
      BY <2>1
    <3>2. slots(m + 1) = [k \in 1 .. m + 1 |-> slot(k)]
      OBVIOUS
    <3>3. Append(slots(m), slot(m + 1))
            = [k \in 1 .. m + 1 |-> IF k = m + 1 THEN slot(m + 1) ELSE slots(m)[k]]
      BY <2>1, <3>1
    <3>4. \A k \in 1 .. m + 1 : k # m + 1 => k \in 1 .. m
      BY <2>1
    <3>5. \A k \in 1 .. m + 1 :
            slot(k) = IF k = m + 1 THEN slot(m + 1) ELSE slots(m)[k]
      BY <3>1, <3>4
    <3> HIDE DEF slots
    <3> QED BY <3>2, <3>3, <3>5
  <2>6. SubSeq(stk, low + 1, b) \o SubSeq(stk, b + 1, c) = SubSeq(stk, low + 1, c)
    <3> HIDE DEF b, c
    <3>1. low + 1 \in 1 .. Len(stk) + 1 /\ b \in (low + 1) - 1 .. Len(stk)
          /\ c \in b .. Len(stk)
      BY <1>1, <2>2
    <3> QED BY <3>1, ConcatAdjacentSubSeq
  <2> HIDE DEF slots, b, c
  <2>7. FlattenSeq(slots(m + 1)) = SubSeq(stk, low + 1, c)
    BY <2>2, <2>3, <2>4, <2>5, <2>6, FlattenAppend
  <2>8. slots(m + 1) \in Seq(Seq(Byte))
    <3> HIDE DEF Good
    <3>1. Append(slots(m), slot(m + 1)) \in Seq(Seq(Byte))
      BY <2>3, <2>4, AppendProperties
    <3> QED BY <2>5, <3>1
  <2> QED BY <1>1, <2>1, <2>2, <2>7, <2>8 DEF c
<1> HIDE DEF Good
<1>7. d.paramCount \in Good
  <2>1. 0 .. d.paramCount \subseteq Good
    BY <1>1, <1>5, <1>6, SetInduction
  <2> QED BY <1>1, <2>1
<1>8. FlattenSeq(slots(d.paramCount)) = SubSeq(stk, low + 1, Len(stk))
  <2>1. low + before(d.paramCount + 1) = Len(stk)
    BY <1>1, <1>3 DEF low
  <2> HIDE DEF slots
  <2> QED BY <1>7, <2>1 DEF Good
<1>9. SubSeq(stk, 1, low) \o SubSeq(stk, low + 1, Len(stk)) = stk
  <2>1. low <= Len(stk)
    BY <1>1 DEF low
  <2>2. 1 \in 1 .. Len(stk) + 1 /\ low \in 1 - 1 .. Len(stk)
        /\ Len(stk) \in low .. Len(stk)
    BY <1>1, <2>1
  <2>3. SubSeq(stk, 1, low) \o SubSeq(stk, low + 1, Len(stk)) = SubSeq(stk, 1, Len(stk))
    BY <2>2, ConcatAdjacentSubSeq
  <2> QED BY <2>3, SubSeqFull
<1> HIDE DEF slots
<1>10. Drop(stk, argumentBytes(p, d)) = SubSeq(stk, 1, low)
  BY DEF Drop, low
<1> QED BY <1>8, <1>9, <1>10 DEF slots, slot

LEMMA ArgumentsStep ==
  ASSUME IInv, [Next]_vars
  PROVE  [DeliverArguments]_vars
<1> SUFFICES ASSUME Len(callFrames') > Len(callFrames), ~inHost,
                    Disjoint(program, Callee)
             PROVE  stack = memory'[segmentStack]
                      \o FlattenSeq([k \in 1 .. Callee.paramCount |->
                           Slot(program, Callee, memory'[segmentFrame], frameTop, k)])
  BY DEF DeliverArguments, Callee, Slot
<1>1. /\ callFrames \in Seq(CallFrame) /\ stack \in Seq(Byte)
      /\ frameMemory \in Seq(Byte) /\ Len(frameMemory) = FrameCapacity
  BY StackType DEF IInv, TypeOK, frameMemory, Segments, segmentFrame, segmentCount,
                   WorkspaceRespected
<1>2. callFrames' # callFrames
  <2> SUFFICES ASSUME callFrames' = callFrames PROVE FALSE
    OBVIOUS
  <2>1. Len(callFrames) \in Nat
    BY <1>1
  <2> QED BY <2>1
<1>3. ~ExecRet
  <2> SUFFICES ASSUME ExecRet PROVE FALSE
    OBVIOUS
  <2>1. callFrames # <<>> /\ callFrames' = Front(callFrames)
    BY <1>2 DEF ExecRet, frameState
  <2>2. Len(Front(callFrames)) = Len(callFrames) - 1 /\ Len(callFrames) \in Nat
    BY <1>1, <2>1, FrontShorter
  <2> QED BY <2>1, <2>2
<1>4. ExecCall
  BY <1>2, <1>3, OnlyCallAndRet
<1>5. /\ program \in 1 .. Len(Programs) /\ Callee \in Descriptor
      /\ argumentBytes(program, Callee) <= Len(stack)
      /\ ParamsInPool(program, Callee)
      /\ frameTop \in Nat /\ frameTop + Callee.frameByteSize <= Len(frameMemory)
      /\ memory'[segmentFrame]
           = EnteredFrame(program, Callee, frameMemory, stack, frameTop)
      /\ memory'[segmentStack] = Drop(stack, argumentBytes(program, Callee))
  BY <1>1, <1>2, <1>4, CallEffect
<1>6. ParamsFit(program, Callee)
  <2>1. EntryStatus(program, instr.operand, stack, frameTop, Len(callFrames)) = "OK"
    BY <1>2, <1>4, CallEffect
  <2> QED BY <2>1 DEF EntryStatus, Callee
<1> QED BY SMTT(20), <1>1, <1>5, <1>6, ArgumentsMoved

\* A script call takes its arguments off the operand stack, whole and in
\* order, and puts them into the parameter slots: for every descriptor whose
\* slots do not overlap, every stack below the arguments and every host.
THEOREM ArgumentsWhole == Spec => ArgumentsDelivered
<1>1. IInv /\ [Next]_vars => [DeliverArguments]_vars
  BY ArgumentsStep
<1> QED BY <1>1, Invariance, PTL DEF Spec, ArgumentsDelivered
=============================================================================
