------------------------------- MODULE CovaAsm -------------------------------
(***************************************************************************)
(* Writing linked programs by hand for the model checker: instructions,    *)
(* their layout in the text, function descriptors.  `\o <<>>` only makes    *)
(* TLC compute a sequence once instead of at each application.             *)
(***************************************************************************)
EXTENDS CovaTypes, SequencesExt

Ins(op, kind, sub, segment, operand) ==
  [op |-> op, kind |-> kind, sub |-> sub, segment |-> segment,
   operand |-> operand]

Push(kind, bits) == Ins("Push", kind, "none", 0, bits)
Arith(kind, op) == Ins("Arithmetic", kind, op, 0, 0)
Comp(kind, op) == Ins("Compare", kind, op, 0, 0)
Convert(from, to) == Ins("Convert", to, from, 0, 0)
BuiltIn(op, kind) == Ins("BuiltIn", kind, op, 0, 0)
Addr(segment, offset) == Ins("Addr", "None", "none", segment, offset)
Offset == Ins("Offset", "None", "none", 0, 0)
Deref(kind) == Ins("Dereference", kind, "none", 0, 0)
Assign(kind) == Ins("Assign", kind, "none", 0, 0)
Call(f) == Ins("Call", "None", "none", 0, f)
CallExtern(i) == Ins("CallExtern", "None", "none", 0, i)
Ret == Ins("Ret", "None", "none", 0, 0)
Bad == Ins("Undefined", "None", "none", 0, 0)
\* Jump operands are written as instruction numbers and resolved by Text.
Jump(k) == Ins("Jump", "None", "none", 0, k)
JumpIfFalse(k) == Ins("JumpIfFalse", "None", "none", 0, k)

Width(i) ==
  2 + (CASE i.op = "Push" -> Size(i.kind)
         [] i.op \in {"Addr", "Jump", "JumpIfFalse", "Call", "CallExtern"} -> 4
         [] OTHER -> 0)

\* The text one byte at a time: an instruction at its first byte, Bad at the
\* bytes of its operand.
Bytes(code) ==
  FlattenSeq([k \in 1 .. Len(code) |->
                <<code[k]>> \o [b \in 1 .. Width(code[k]) - 1 |-> Bad]])

\* Address of instruction k of the list code (k = Len(code) + 1: the end).
At(code, k) == Len(Bytes(SubSeq(code, 1, k - 1)))

Text(code) ==
  Bytes([k \in 1 .. Len(code) |->
           IF code[k].op \in {"Jump", "JumpIfFalse"}
              /\ code[k].operand \in 1 .. Len(code)
           THEN [code[k] EXCEPT !.operand = At(code, @)] ELSE code[k]] \o <<>>)

Fn(body, start, count, bytes, kind) ==
  [bodyAddress |-> body, paramStart |-> start, paramCount |-> count,
   frameByteSize |-> bytes, returnKind |-> kind]

\* A listing: the code as a list of instructions, the descriptors with bodies
\* as instruction numbers.
Listing(code, fns, kinds, offsets) ==
  [text |-> code, functions |-> fns,
   paramKinds |-> kinds, paramOffsets |-> offsets, entryPoint |-> 0,
   bssByteSize |-> 1, constByteSize |-> 1, constData |-> <<7>>,
   dataByteSize |-> 1, dataData |-> <<2>>]

\* The programs of a list of listings.
Assembled(listings) ==
  [n \in 1 .. Len(listings) |->
     [listings[n] EXCEPT
        !.text = Text(@),
        !.functions = [f \in 1 .. Len(@) |->
          [@[f] EXCEPT !.bodyAddress = At(listings[n].text, @)]] \o <<>>]] \o <<>>

\* The same program cut after n bytes of text.
Truncated(p, n) ==
  [p EXCEPT !.text = SubSeq(@, 1, n)]

-----------------------------------------------------------------------------
\* The body's code ends in a byte equal to OpRet.  The last byte of an
\* instruction is its upper one; acos of a float is the instruction whose
\* upper byte is 13, and Ret itself is not.
EndsInRetByte(code) ==
  /\ code # <<>>
  /\ Last(code).op = "BuiltIn"
  /\ Last(code).sub = "Acos"
  /\ Last(code).kind \in {"Float32", "Float64"}

WithEpilogue(code) == IF EndsInRetByte(code) THEN code ELSE Append(code, Ret)
=============================================================================
