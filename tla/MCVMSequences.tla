---------------------------- MODULE MCVMSequences ----------------------------
(***************************************************************************)
(* Every instruction of an alphabet that has each opcode, well used and    *)
(* badly used, after each of a few operand stacks, with each of a few      *)
(* instructions after it, and before a fixed tail: a return and a          *)
(* one-parameter function.  All jumps go forward, so that every run ends;  *)
(* the programs of MCVM are there too.                                     *)
(***************************************************************************)
EXTENDS MCVM

Alphabet ==
  <<Push("Byte", 5), Push("Float64", 9), Push("Address", 0), Push("Void", 0),
    Arith("Byte", "Div"), Arith("Int32", "Add"), Arith("Float64", "Div"),
    Arith("Address", "Add"), Arith("Byte", "none"),
    Comp("Byte", "Less"), Comp("Bool", "Less"), Comp("None", "Equal"),
    Comp("Float64", "Equal"),
    Convert("Byte", "Int16"), Convert("Int32", "Void"), Convert("None", "Byte"),
    BuiltIn("Abs", "Byte"), BuiltIn("Abs", "Void"), BuiltIn("Abs", "Bool"),
    BuiltIn("Sin", "Byte"), BuiltIn("Sqrt", "Float64"),
    BuiltIn("Pow", "Float64"), BuiltIn("none", "Float64"),
    Addr(segmentFrame, 1), Addr(segmentConst, 0), Addr(segmentStack, 0),
    Addr(segmentBSS, 16 * 16 * 16), Addr(0, 0), Addr(9, 0), Offset,
    Deref("Byte"), Deref("Int32"), Deref("Void"), Deref("None"),
    Assign("Byte"), Assign("Int32"), Assign("Void"), Assign("None"),
    JumpIfFalse(6), JumpIfFalse(99), Jump(6), Jump(99),
    Call(1), Call(2), CallExtern(0), Ret, Bad>>
Followers ==
  <<Push("Byte", 5), Offset, Assign("Byte"), JumpIfFalse(6), Call(1), Ret>>
A == Len(Alphabet)
F == Len(Followers)

\* Nothing; two bytes, the upper one zero; an address of frame memory above a
\* value; an address of the operand stack; a stack with no room for four more.
Prologues ==
  <<<<>>,
    <<Push("Byte", 7), Push("Byte", 0)>>,
    <<Push("Int32", 1), Push("Int32", 16 * 256)>>,
    <<Push("Byte", 3), Push("Byte", 2), Addr(segmentStack, 0)>>,
    <<Push("Float64", 0)>>>>

FixedTail == <<Ret, Addr(segmentFrame, 0), Deref("Byte"), Ret>>

SequenceListing(code) ==
  Listing(code \o FixedTail,
          <<Fn(1, 0, 0, 2, "Void"), Fn(Len(code) + 2, 0, 1, 1, "Byte")>>,
          <<"Byte">>, <<0>>)

SequencePrograms ==
  Assembled(
    [n \in 1 .. Len(Prologues) * A * F |->
       SequenceListing(Prologues[1 + (n - 1) \div (A * F)]
                         \o <<Alphabet[1 + (((n - 1) \div F) % A)],
                              Followers[1 + ((n - 1) % F)]>>)])
  \o LET pushes == Assembled(<<SequenceListing(<<Push("Int32", 0)>>)>>)
      IN  [n \in 1 .. 5 |-> Truncated(pushes[1], n)]

AllPrograms == CallPrograms \o SequencePrograms
MCPrograms == AllPrograms
=============================================================================
