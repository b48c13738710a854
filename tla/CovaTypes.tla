------------------------------ MODULE CovaTypes ------------------------------
(***************************************************************************)
(* The vocabulary shared by the Cova toolchain and the virtual machine:    *)
(* value kinds and their sizes, opcodes, statuses, and the little-endian   *)
(* byte encoding of values (cova/types.go, cova/vm-status.go and           *)
(* encoding/binary as cova/segment-memory.go uses it).                     *)
(*                                                                         *)
(* A byte of the code has 8 bits.  The model keeps every width in bytes    *)
(* and makes the number of bits in a byte a parameter, so that a 4-byte    *)
(* value still wraps, but at a modulus TLC can enumerate.                  *)
(***************************************************************************)
EXTENDS Integers, Sequences, FiniteSets

CONSTANTS
  BitsPerByte,      \* 8 in the code
  ByteBase          \* TwoTo(BitsPerByte), 256 in the code

\* 2 to the power of k.
TwoTo(k) ==
  LET power[i \in 0 .. k] == IF i = 0 THEN 1 ELSE 2 * power[i - 1]
  IN  power[k]

ASSUME ByteAssumption ==
  /\ BitsPerByte \in Nat
  /\ ByteBase \in Nat
  /\ ByteBase > 1
  /\ ByteBase = TwoTo(BitsPerByte)

Byte == 0 .. ByteBase - 1

-----------------------------------------------------------------------------
(***************************************************************************)
(* Value kinds.  "Undefined" stands for a kind number no constant names.   *)
(***************************************************************************)
SignedKinds == {"Int8", "Int16", "Int32", "Int64"}
UnsignedKinds == {"Byte", "Uint8", "Uint16", "Uint32", "Uint64"}
FloatKinds == {"Float32", "Float64"}
IntegerKinds == SignedKinds \cup UnsignedKinds
Kinds == IntegerKinds \cup FloatKinds
           \cup {"None", "Void", "Bool", "Address", "Undefined"}

\* Bytes a value of the kind takes on the operand stack and in memory.
Size(kind) ==
  CASE kind \in {"Bool", "Byte", "Int8", "Uint8"} -> 1
    [] kind \in {"Int16", "Uint16"} -> 2
    [] kind \in {"Int32", "Uint32", "Float32", "Address"} -> 4
    [] kind \in {"Int64", "Uint64", "Float64"} -> 8
    [] OTHER -> 0

\* A function of this return kind leaves a value on the operand stack.
hasStackValueKind(kind) == kind \notin {"None", "Void"}

ArithmeticOps == {"Add", "Sub", "Mul", "Div", "Modulo", "BitwiseAnd",
                  "BitwiseOr", "BitwiseXor", "ShiftLeft", "ShiftRight"}
FloatOps == {"Add", "Sub", "Mul", "Div"}
CompareOps == {"Equal", "NotEqual", "Less", "LessEqual", "Greater",
               "GreaterEqual"}
BuiltInOps == {"Abs", "Sin", "Cos", "Tan", "Asin", "Acos", "Atan", "Pow",
               "Sqrt"}

Opcodes == {"Push", "Arithmetic", "Convert", "Addr", "Offset", "Dereference",
            "Assign", "Compare", "JumpIfFalse", "Jump", "Call", "CallExtern",
            "Ret", "BuiltIn", "Undefined"}

\* The statuses the Go runtime can return.  ExternABIViolation exists as a
\* number but no statement of the runtime produces it.
Statuses == {"OK", "NoProgramLoaded", "InvalidLifecycle", "InvalidProgram",
             "InvalidImage", "UnsupportedImage", "MalformedBytecode",
             "InvalidDescriptor", "InvalidParameter", "InvalidValueKind",
             "InvalidAddress", "InvalidAddressSegment", "ReadOnlyMemory",
             "InvalidTarget", "InvalidOpcode", "StackUnderflow",
             "StackOverflow", "FrameOverflow", "CallFrameOverflow",
             "DivisionByZero", "MissingExtern", "ExternABIViolation",
             "HostFailure"}

-----------------------------------------------------------------------------
(***************************************************************************)
(* Little-endian encoding.  Place(i) is the weight of byte i, counted from *)
(* 1; the powers are written as products so that the provers see them.     *)
(***************************************************************************)
Base2 == ByteBase * ByteBase
Base3 == Base2 * ByteBase
Base4 == Base3 * ByteBase
Base5 == Base4 * ByteBase
Base6 == Base5 * ByteBase
Base7 == Base6 * ByteBase

Place(i) ==
  CASE i = 1 -> 1
    [] i = 2 -> ByteBase
    [] i = 3 -> Base2
    [] i = 4 -> Base3
    [] i = 5 -> Base4
    [] i = 6 -> Base5
    [] i = 7 -> Base6
    [] i = 8 -> Base7

\* How many values n bytes can hold, n = 1, 2, 4 or 8.
Modulus(n) ==
  CASE n = 1 -> ByteBase
    [] n = 2 -> Base2
    [] n = 4 -> Base4
    [] n = 8 -> Base7 * ByteBase

\* Mutants of Encode: the bits above a byte stay in it; the upper byte first.
EncodeUnmasked(bits, n) == [i \in 1 .. n |-> bits \div Place(i)]
EncodeBigEndian(bits, n) ==
  [i \in 1 .. n |-> (bits \div Place(n + 1 - i)) % ByteBase]
Encode(bits, n) == [i \in 1 .. n |-> (bits \div Place(i)) % ByteBase]

Decode(bytes) ==
  LET b(i) == bytes[i] * Place(i)
  IN  CASE Len(bytes) = 1 -> b(1)
        [] Len(bytes) = 2 -> b(1) + b(2)
        [] Len(bytes) = 4 -> b(1) + b(2) + b(3) + b(4)
        [] Len(bytes) = 8 -> b(1) + b(2) + b(3) + b(4)
                               + b(5) + b(6) + b(7) + b(8)
=============================================================================
