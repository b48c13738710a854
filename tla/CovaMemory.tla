------------------------------ MODULE CovaMemory -----------------------------
(***************************************************************************)
(* Memory segments and addresses (cova/segment-memory.go and               *)
(* cova/program-memory.go).  A segment is a sequence of bytes; offset o of *)
(* the code is position o + 1 of the sequence.  The operand stack is the   *)
(* one segment whose length changes while a program runs.                  *)
(***************************************************************************)
EXTENDS CovaTypes

segmentFrame == 1
segmentBSS == 2
segmentExtern == 3
segmentConst == 4
segmentData == 5
segmentStack == 6
segmentCount == 9

\* Segment 0 is invalid; 7 and 8 are reserved and always empty.
Segments == 1 .. segmentCount - 1

addressIndexMask == Base3 - 1
makeAddress(segment, index) == (segment * Base3) + (index % Base3)
AddressSegment(address) == address \div Base3
AddressIndex(address) == address % Base3

\* segmentForAddress: the segment numbers an address may name.
ValidSegment(segment) == segment \in Segments

Zeros(n) == [i \in 1 .. n |-> 0]

\* The bounds check every checked read and write starts with.
InRange(segment, offset, n) == offset + n <= Len(segment)

ReadBytes(segment, offset, n) == SubSeq(segment, offset + 1, offset + n)

\* Mutant of WriteBytes: offsets counted from one.
WriteBytesOneHigher(segment, offset, bytes) ==
  [i \in 1 .. Len(segment) |->
     IF i \in offset + 2 .. offset + 1 + Len(bytes)
     THEN bytes[i - offset - 1] ELSE segment[i]]
WriteBytes(segment, offset, bytes) ==
  [i \in 1 .. Len(segment) |->
     IF i \in offset + 1 .. offset + Len(bytes)
     THEN bytes[i - offset] ELSE segment[i]]

\* Go's copy(destination, source).
CopyInto(destination, source) ==
  [i \in 1 .. Len(destination) |->
     IF i <= Len(source) THEN source[i] ELSE destination[i]]

\* The operand stack grows at its end; Top and Drop are the two halves of a
\* Truncate of n bytes, Holds its underflow check, HasRoom the overflow check
\* of an Append.
Holds(stack, n) == n <= Len(stack)
Top(stack, n) == SubSeq(stack, Len(stack) - n + 1, Len(stack))
Drop(stack, n) == SubSeq(stack, 1, Len(stack) - n)
\* Mutant of HasRoom: one byte too many.
HasRoomForOneMore(stack, n, capacity) == Len(stack) + n <= capacity + 1
HasRoom(stack, n, capacity) == Len(stack) + n <= capacity

-----------------------------------------------------------------------------
(* Layout: where a value may lie, and the next such offset.                *)
Alignment(kind) == IF Size(kind) <= 1 THEN 1 ELSE Size(kind)
\* Mutant of alignUp: rounds down.
alignDown(offset, alignment) ==
  IF alignment <= 1 THEN offset ELSE (offset \div alignment) * alignment
alignUp(offset, alignment) ==
  IF alignment <= 1 THEN offset
  ELSE ((offset + alignment - 1) \div alignment) * alignment
=============================================================================
