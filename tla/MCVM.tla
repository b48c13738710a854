--------------------------------- MODULE MCVM --------------------------------
(***************************************************************************)
(* The programs and hosts the virtual machine is model-checked with.       *)
(***************************************************************************)
EXTENDS CovaVMProperties, CovaAsm

\* f(byte, int16, byte) with slots out of order, one local, and an inner call
\* that dirties its own frame; called twice.
ArgsProgram ==
  Listing(<<Push("Byte", 3), Push("Int16", 81), Push("Byte", 5), Call(1),
            Push("Byte", 6), Push("Int16", 82), Push("Byte", 4), Call(1), Ret,
            Call(2), Addr(segmentFrame, 0), Deref("Byte"), Ret,
            Push("Byte", 9), Addr(segmentFrame, 1), Assign("Byte"), Ret>>,
          <<Fn(1, 0, 0, 2, "Byte"), Fn(10, 0, 3, 5, "Byte"),
            Fn(14, 0, 0, 2, "Void")>>,
          <<"Byte", "Int16", "Byte">>, <<0, 2, 1>>)

\* Recursion without end: with a frame of its own, and without.
RecursionProgram(bytes) ==
  Listing(<<Call(1), Ret, Call(1), Ret>>,
          <<Fn(1, 0, 0, 1, "Void"), Fn(3, 0, 0, bytes, "Void")>>, <<>>, <<>>)

\* Two functions deep, an extern call takes a byte and leaves a byte.
ExternProgram ==
  Listing(<<Push("Byte", 1), Call(1), Ret,
            Addr(segmentFrame, 0), Deref("Byte"), CallExtern(0), Ret>>,
          <<Fn(1, 0, 0, 1, "Byte"), Fn(4, 0, 1, 2, "Byte")>>,
          <<"Byte">>, <<1>>)

\* Counts the DATA byte down to zero, storing each value in BSS.
LoopProgram ==
  Listing(<<Addr(segmentData, 0), Deref("Byte"), Push("Byte", 1),
            Arith("Byte", "Sub"), Addr(segmentData, 0), Assign("Byte"),
            Addr(segmentData, 0), Deref("Byte"),
            Addr(segmentBSS, 0), Assign("Byte"),
            Addr(segmentData, 0), Deref("Byte"), Convert("Byte", "Bool"),
            JumpIfFalse(16), Jump(1), Ret>>,
          <<Fn(1, 0, 0, 0, "Void")>>, <<>>, <<>>)

\* A function that promises a result and leaves none; a store to CONST; a call
\* without its argument; a program that runs off its end.
NoResultProgram ==
  Listing(<<Call(1), Ret, Ret>>,
          <<Fn(1, 0, 0, 1, "Void"), Fn(3, 0, 0, 3, "Int32")>>, <<>>, <<>>)
BadResultProgram ==
  Listing(<<Call(1), Ret, Ret>>,
          <<Fn(1, 0, 0, 1, "Void"), Fn(3, 0, 0, 3, "Undefined")>>, <<>>, <<>>)
ConstStoreProgram ==
  Listing(<<Push("Byte", 1), Addr(segmentConst, 0), Assign("Byte"), Ret>>,
          <<Fn(1, 0, 0, 0, "Void")>>, <<>>, <<>>)
MissingArgumentProgram ==
  Listing(<<Push("Byte", 1), Call(1), Ret, Ret>>,
          <<Fn(1, 0, 0, 1, "Void"), Fn(4, 0, 1, 4, "Void")>>,
          <<"Int32">>, <<0>>)
FallOffProgram ==
  Listing(<<Push("Byte", 1), Addr(segmentFrame, 1), Assign("Byte")>>,
          <<Fn(1, 0, 0, 2, "Void")>>, <<>>, <<>>)

\* Descriptors the linker does not produce but LoadProgram accepts.
Broken(fn, kinds, offsets) ==
  Listing(<<Push("Byte", 1), Call(1), Ret>>,
          <<Fn(1, 0, 0, 1, "Void"), fn>>, kinds, offsets)
OverlapProgram == Broken(Fn(3, 0, 2, 2, "Void"), <<"Byte", "Byte">>, <<0, 0>>)
BodyOutsideProgram == Broken(Fn(4, 0, 0, 0, "Void"), <<>>, <<>>)
PoolOutsideProgram == Broken(Fn(3, 0, 2, 2, "Void"), <<"Byte">>, <<0>>)
VoidParamProgram == Broken(Fn(3, 0, 1, 2, "Void"), <<"Void">>, <<0>>)
SlotOutsideProgram == Broken(Fn(3, 0, 1, 2, "Void"), <<"Byte">>, <<2>>)

CallPrograms == Assembled(
  <<ArgsProgram, RecursionProgram(2), RecursionProgram(0), ExternProgram,
    LoopProgram, NoResultProgram, BadResultProgram, ConstStoreProgram,
    MissingArgumentProgram, FallOffProgram, OverlapProgram,
    BodyOutsideProgram, PoolOutsideProgram, VoidParamProgram,
    SlotOutsideProgram>>)

-----------------------------------------------------------------------------
(* Lifecycle: programs LoadProgram or Reset refuses among good ones, of    *)
(* different segment sizes.                                                *)
StoresProgram ==
  Listing(<<Push("Byte", 1), Addr(segmentBSS, 0), Assign("Byte"),
            Push("Byte", 1), Addr(segmentConst, 0), Assign("Byte"), Ret>>,
          <<Fn(1, 0, 0, 0, "Void")>>, <<>>, <<>>)
BadConstSize == [ConstStoreProgram EXCEPT !.constByteSize = 2,
                   !.bssByteSize = 2]
BadDataSize == [ConstStoreProgram EXCEPT !.dataByteSize = 0,
                  !.constData = <<6>>]
BadEntry == [ConstStoreProgram EXCEPT !.entryPoint = 1]
EntryWithParams == [ExternProgram EXCEPT !.entryPoint = 1]
OtherSizes == [LoopProgram EXCEPT !.bssByteSize = 3, !.dataByteSize = 2,
                 !.dataData = <<1, 4>>, !.constByteSize = 0, !.constData = <<>>]
-----------------------------------------------------------------------------
(* Re-entrancy: what a dispatcher can do to a run in progress.  Two        *)
(* programs with extern calls at different depths and other sizes.         *)
ReenterDeep ==
  Listing(<<Call(1), Ret, CallExtern(0), Push("Byte", 1),
            Addr(segmentFrame, 0), Assign("Byte"), Ret>>,
          <<Fn(1, 0, 0, 1, "Void"), Fn(3, 0, 0, 1, "Void")>>, <<>>, <<>>)
ReenterFlat ==
  [Listing(<<CallExtern(1), Push("Byte", 3), Addr(segmentBSS, 2),
             Assign("Byte"), Call(1), Ret, CallExtern(2), Ret>>,
           <<Fn(1, 0, 0, 2, "Void"), Fn(7, 0, 0, 3, "Byte")>>, <<>>, <<>>)
     EXCEPT !.bssByteSize = 3, !.constData = <<5>>]
HostPrograms == Assembled(
  <<ReenterDeep, ReenterFlat, OtherSizes, BadConstSize, BadEntry, StoresProgram,
    BadDataSize, EntryWithParams>>)
\* TLC computes a definition once, and what replaces a constant each time.
MCHostPrograms == HostPrograms

-----------------------------------------------------------------------------
(* Hosts.                                                                  *)
MCExternBlocks == {<<1>>}
MCHostValues == {<<"Byte", 2>>, <<"Void", 0>>}
MCHostPopKinds == {"Byte", "None"}
MCHostStatuses == {"OK", "InvalidParameter"}
MCFloatBits == {0, 3}
=============================================================================
