------------------------- MODULE CovaProgramProofs --------------------------
(***************************************************************************)
(* Proofs about the linked program, for every source: what a block's       *)
(* patches name, where a block goes in the text, what the linker writes    *)
(* into it; and the contents of the DATA and CONST images, from the step   *)
(* that writes an initializer to the image the program starts from.        *)
(***************************************************************************)
EXTENDS CovaLinkProofs

-----------------------------------------------------------------------------
(***************************************************************************)
(* The text of a listing.                                                  *)
(***************************************************************************)
IsIns(i) == i = Ins(i.op, i.kind, i.sub, i.segment, i.operand)
JumpOps == {"Jump", "JumpIfFalse"}

\* An instruction, and Bad at the bytes behind its first.
Piece(i) == <<i>> \o [b \in 1 .. Width(i) - 1 |-> Bad]
Pieces(code) == [k \in 1 .. Len(code) |-> Piece(code[k])]

LEMMA PieceIs ==
  ASSUME NEW S, NEW i \in S, Bad \in S
  PROVE  /\ Piece(i) \in Seq(S) /\ Len(Piece(i)) = Width(i) /\ Width(i) \in Nat \ {0, 1}
         /\ Piece(i)[1] = i
         /\ \A b \in 2 .. Width(i) : Piece(i)[b] = Bad
<1> DEFINE w == Width(i)
           first == <<i>>
           rest == [b \in 1 .. w - 1 |-> Bad]
<1>1. w \in Nat \ {0, 1}
  <2>1. Size(i.kind) \in Nat
    BY SizeType
  <2>2. (CASE i.op = "Push" -> Size(i.kind)
           [] i.op \in {"Addr", "Jump", "JumpIfFalse", "Call", "CallExtern"} -> 4
           [] OTHER -> 0) \in Nat
    BY <2>1
  <2> QED BY <2>2 DEF Width
<1> HIDE DEF w
<1>2. first \in Seq(S) /\ Len(first) = 1 /\ first[1] = i
  OBVIOUS
<1>3. rest \in Seq(S) /\ Len(rest) = w - 1 /\ \A b \in 1 .. w - 1 : rest[b] = Bad
  BY <1>1
<1> HIDE DEF first, rest
<1>4. Piece(i) = first \o rest
  BY DEF Piece, first, rest, w
<1> DEFINE last == w - 1
<1>5. last \in Nat /\ w = 1 + last /\ 1 \in 1 .. w
  BY <1>1
<1>6. Len(rest) = last /\ \A b \in 1 .. last : rest[b] = Bad
  BY <1>3
<1> HIDE DEF last
<1> DEFINE all == first \o rest
<1>7. /\ all \in Seq(S) /\ Len(all) = Len(first) + Len(rest)
      /\ \A b \in 1 .. Len(first) : all[b] = first[b]
      /\ \A b \in 1 .. Len(rest) : all[Len(first) + b] = rest[b]
  <2>1. first \in Seq(S) /\ rest \in Seq(S)
    BY <1>2, <1>3
  <2> QED BY <2>1, ConcatIs
<1> HIDE DEF all
<1>8. Len(all) = w
  BY <1>2, <1>5, <1>6, <1>7
<1>9. all[1] = i
  BY <1>2, <1>7
<1>10. ASSUME NEW b \in 2 .. w PROVE all[b] = Bad
  <2>1. b - 1 \in 1 .. last /\ 1 + (b - 1) = b
    BY <1>5
  <2>2. all[1 + (b - 1)] = rest[b - 1]
    BY <1>2, <1>6, <1>7, <2>1
  <2> QED BY <1>6, <2>1, <2>2
<1> QED BY <1>1, <1>4, <1>7, <1>8, <1>9, <1>10 DEF w, all

LEMMA PiecesAre ==
  ASSUME NEW S, Bad \in S, NEW code \in Seq(S)
  PROVE  /\ Pieces(code) \in Seq(Seq(S)) /\ Len(Pieces(code)) = Len(code)
         /\ \A k \in 1 .. Len(code) : Pieces(code)[k] = Piece(code[k])
         /\ Bytes(code) = FlattenSeq(Pieces(code))
<1> DEFINE n == Len(code)
           T == Seq(S)
           piece(k) == Piece(code[k])
           all == Pieces(code)
<1>1. n \in Nat /\ \A k \in 1 .. n : code[k] \in S
  OBVIOUS
<1>2. \A k \in 1 .. n : piece(k) \in T
  BY <1>1, PieceIs
<1>3. Pieces(code) = [k \in 1 .. n |-> piece(k)]
  BY DEF Pieces
<1>4. Bytes(code) = FlattenSeq(Pieces(code))
  BY DEF Bytes, Pieces, Piece
<1> HIDE DEF T, piece, n, all
<1>5. all \in Seq(T) /\ Len(all) = n /\ \A k \in 1 .. n : all[k] = piece(k)
  <2>1. all = [k \in 1 .. n |-> piece(k)]
    BY <1>3 DEF all
  <2> QED BY <1>1, <1>2, <2>1
<1> QED BY <1>4, <1>5 DEF T, piece, n, all

\* Where instruction k begins.
LEMMA AtIs ==
  ASSUME NEW S, Bad \in S, NEW code \in Seq(S), NEW k \in 1 .. Len(code) + 1
  PROVE  At(code, k) = Len(FirstOf(Pieces(code), k - 1))
<1> DEFINE j == k - 1
           sub == SubSeq(code, 1, j)
<1>1. Len(code) \in Nat /\ j \in 0 .. Len(code)
  OBVIOUS
<1>2. sub \in Seq(S) /\ Len(sub) = j /\ \A i \in 1 .. j : sub[i] = code[i]
  <2> HIDE DEF j
  <2>1. sub = [i \in 1 .. j |-> code[i]]
    BY <1>1
  <2>2. \A i \in 1 .. j : code[i] \in S
    BY <1>1
  <2> HIDE DEF sub
  <2> QED BY <1>1, <2>1, <2>2
<1>3. At(code, k) = Len(Bytes(sub))
  BY DEF At
<1> HIDE DEF sub, j
<1>4. Bytes(sub) = FlattenSeq(Pieces(sub))
  BY <1>2, PiecesAre
<1>5. Pieces(sub) = [i \in 1 .. j |-> Pieces(code)[i]]
  <2>1. \A i \in 1 .. j : Pieces(code)[i] = Piece(code[i])
    <3>1. \A i \in 1 .. j : i \in 1 .. Len(code)
      BY <1>1
    <3> QED BY <3>1, PiecesAre
  <2>2. \A i \in 1 .. j : Piece(sub[i]) = Pieces(code)[i]
    BY <1>2, <2>1
  <2>3. Pieces(sub) = [i \in 1 .. j |-> Piece(sub[i])]
    BY <1>2 DEF Pieces
  <2> QED BY <2>2, <2>3
<1> QED BY Zenon, <1>3, <1>4, <1>5 DEF FirstOf, j


\* What Text makes of instruction k: a jump has its target's address.
Resolved(code, k) ==
  IF code[k].op \in JumpOps /\ code[k].operand \in 1 .. Len(code)
  THEN [code[k] EXCEPT !.operand = At(code, @)] ELSE code[k]

LEMMA ResolvedIs ==
  ASSUME NEW code, NEW k, IsIns(code[k])
  PROVE  /\ IsIns(Resolved(code, k)) /\ Resolved(code, k).op = code[k].op
         /\ Width(Resolved(code, k)) = Width(code[k])
         /\ code[k].op \notin JumpOps => Resolved(code, k) = code[k]
         /\ code[k].op \in JumpOps /\ code[k].operand \in 1 .. Len(code) =>
              Resolved(code, k).operand = At(code, code[k].operand)
<1> DEFINE i == code[k]
           to == At(code, i.operand)
           new == [i EXCEPT !.operand = to]
<1>1. Resolved(code, k) = new \/ Resolved(code, k) = i
  BY DEF Resolved
<1>2. i = Ins(i.op, i.kind, i.sub, i.segment, i.operand)
  BY DEF IsIns
<1> HIDE DEF to
<1>3. /\ new.op = i.op /\ new.kind = i.kind /\ new.sub = i.sub
      /\ new.segment = i.segment /\ new.operand = to
      /\ new = Ins(i.op, i.kind, i.sub, i.segment, to)
  BY <1>2 DEF Ins
<1>4. Width(new) = Width(i)
  BY <1>3 DEF Width
<1>5. IsIns(new) /\ IsIns(i)
  BY <1>2, <1>3 DEF IsIns
<1> HIDE DEF new
<1> QED BY <1>1, <1>3, <1>4, <1>5 DEF Resolved, new, to

\* An instruction of the listing is in the text where At says, and the rest
\* of the text is operands.
LEMMA TextPlaces ==
  ASSUME NEW code, code \in Seq(Range(code)), \A i \in Range(code) : IsIns(i)
  PROVE  LET text == Text(code)
         IN  /\ text \in Seq(Range(text))
             /\ \A k \in 1 .. Len(code) :
                  /\ At(code, k) \in Nat /\ At(code, k) + 1 \in 1 .. Len(text)
                  /\ text[At(code, k) + 1] = Resolved(code, k)
             /\ \A a \in 1 .. Len(text) :
                  text[a] = Bad \/ \E k \in 1 .. Len(code) : a = At(code, k) + 1
<1> DEFINE n == Len(code)
           list == [k \in 1 .. n |-> Resolved(code, k)]
           S == Range(code) \cup Range(list) \cup {Bad}
           text == Text(code)
<1>1. n \in Nat /\ DOMAIN code = 1 .. n /\ code \in Seq(S) /\ Bad \in S
  <2>1. n \in Nat /\ DOMAIN code = 1 .. n /\ Bad \in S /\ Range(code) \subseteq S
    OBVIOUS
  <2> HIDE DEF S, n
  <2>2. code \in Seq(S)
    BY <2>1, SequenceWidens
  <2> QED BY <2>1, <2>2
<1>2. \A k \in 1 .. n : IsIns(code[k])
  BY <1>1 DEF Range
<1>3. list = [k \in 1 .. n |-> list[k]] /\ \A k \in 1 .. n : list[k] = Resolved(code, k)
  OBVIOUS
<1>4. text = Bytes(list \o <<>>)
  BY DEF Text, Resolved, JumpOps
<1> HIDE DEF n, list, text
<1>5. list \in Seq(Range(list)) /\ Len(list) = n
  BY <1>1, <1>3, SequenceIs
<1>6. list \in Seq(S)
  BY <1>5, SequenceWidens
<1> HIDE DEF S
<1>7. list \o <<>> = list
  BY <1>6
<1> DEFINE plain == Pieces(code)
           seqs == Pieces(list)
<1>8. /\ seqs \in Seq(Seq(S)) /\ Len(seqs) = n
      /\ \A k \in 1 .. n : seqs[k] = Piece(list[k])
      /\ text = FlattenSeq(seqs)
  BY <1>1, <1>4, <1>5, <1>6, <1>7, PiecesAre
<1>9. /\ plain \in Seq(Seq(S)) /\ Len(plain) = n
      /\ \A k \in 1 .. n : plain[k] = Piece(code[k])
  BY <1>1, PiecesAre DEF n
<1>10. ASSUME NEW k \in 1 .. n
       PROVE  /\ Len(seqs[k]) = Len(plain[k]) /\ Len(seqs[k]) = Width(list[k])
              /\ Width(list[k]) \in Nat \ {0, 1}
              /\ seqs[k][1] = list[k]
              /\ \A b \in 2 .. Width(list[k]) : seqs[k][b] = Bad
  <2>1. list[k] \in S /\ code[k] \in S
    BY <1>1, <1>5, <1>6
  <2>2. Width(list[k]) = Width(code[k])
    BY <1>2, <1>3, ResolvedIs
  <2>3. Len(plain[k]) = Width(code[k])
    BY <1>1, <1>9, <2>1, PieceIs
  <2> QED BY <1>1, <1>8, <2>1, <2>2, <2>3, PieceIs
<1> HIDE DEF plain, seqs
<1>11. \A i \in 0 .. n : Len(FirstOf(seqs, i)) = Len(FirstOf(plain, i))
  <2>1. Len(seqs) = Len(plain) /\ \A i \in 1 .. Len(plain) : Len(seqs[i]) = Len(plain[i])
    BY <1>8, <1>9, <1>10
  <2>2. \A i \in 0 .. Len(plain) : Len(FirstOf(seqs, i)) = Len(FirstOf(plain, i))
    BY <1>8, <1>9, <2>1, FlattenAlike
  <2> QED BY <1>9, <2>2
<1>12. ASSUME NEW k \in 1 .. n PROVE At(code, k) = Len(FirstOf(seqs, k - 1))
  <2>1. k \in 1 .. Len(code) + 1 /\ k - 1 \in 0 .. n
    BY <1>1 DEF n
  <2>2. At(code, k) = Len(FirstOf(plain, k - 1))
    BY <1>1, <2>1, AtIs DEF plain
  <2> QED BY <1>11, <2>1, <2>2
<1>13. text \in Seq(S)
  <2>1. FirstOf(seqs, Len(seqs)) = text /\ Len(seqs) \in 0 .. Len(seqs)
    BY <1>1, <1>8, FirstOfIs
  <2>2. FirstOf(seqs, Len(seqs)) \in Seq(S)
    BY <1>8, <2>1, FirstOfIs
  <2> QED BY <2>1, <2>2
<1>14. ASSUME NEW k \in 1 .. n
       PROVE  /\ At(code, k) \in Nat /\ At(code, k) + 1 \in 1 .. Len(text)
              /\ text[At(code, k) + 1] = Resolved(code, k)
              /\ \A b \in 2 .. Len(seqs[k]) : text[At(code, k) + b] = Bad
  <2> DEFINE start == Len(FirstOf(seqs, k - 1))
  <2>1. k \in 1 .. Len(seqs)
    BY <1>8
  <2>2. /\ start \in Nat /\ Len(FirstOf(seqs, k)) = start + Len(seqs[k])
        /\ \A b \in 1 .. Len(seqs[k]) : text[start + b] = seqs[k][b]
    BY <1>8, <2>1, FlattenPlaces
  <2>3. Len(FirstOf(seqs, k)) <= Len(text)
    <3>1. k \in 0 .. Len(seqs) /\ Len(seqs) \in k .. Len(seqs)
      BY <1>1, <1>8
    <3>2. Len(FirstOf(seqs, k)) <= Len(FirstOf(seqs, Len(seqs)))
      BY <1>8, <3>1, FirstOfGrows
    <3>3. FirstOf(seqs, Len(seqs)) = text
      BY <1>8, FirstOfIs
    <3> QED BY <3>2, <3>3
  <2>4. Len(seqs[k]) \in Nat \ {0, 1}
    BY <1>10
  <2>5. Len(text) \in Nat
    BY <1>13
  <2> HIDE DEF start
  <2>7. 1 \in 1 .. Len(seqs[k]) /\ \A b \in 2 .. Len(seqs[k]) : b \in 1 .. Len(seqs[k])
    BY <2>4
  <2>8. start + 1 \in 1 .. Len(text)
    BY <2>2, <2>3, <2>4, <2>5
  <2>9. text[start + 1] = list[k] /\ \A b \in 2 .. Len(seqs[k]) : text[start + b] = Bad
    BY <1>10, <2>2, <2>7
  <2>10. At(code, k) = start
    BY <1>12 DEF start
  <2> QED BY <1>3, <2>2, <2>8, <2>9, <2>10
<1>15. ASSUME NEW a \in 1 .. Len(text)
       PROVE  text[a] = Bad \/ \E k \in 1 .. n : a = At(code, k) + 1
  <2>1. PICK k \in 1 .. Len(seqs) : \E b \in 1 .. Len(seqs[k]) :
          a = Len(FirstOf(seqs, k - 1)) + b
    BY <1>8, FlattenCovers
  <2>2. PICK b \in 1 .. Len(seqs[k]) : a = Len(FirstOf(seqs, k - 1)) + b
    BY <2>1
  <2>3. k \in 1 .. n /\ a = At(code, k) + b
    BY <1>8, <1>12, <2>2
  <2>4. CASE b = 1
    BY <2>3, <2>4
  <2>5. CASE b # 1
    <3>1. b \in 2 .. Len(seqs[k])
      BY <1>10, <2>3, <2>5
    <3> QED BY <1>14, <2>3, <3>1
  <2> QED BY <2>4, <2>5
<1>16. text \in Seq(Range(text))
  BY <1>13, SequenceNarrows
<1> QED BY <1>14, <1>15, <1>16 DEF n, text


-----------------------------------------------------------------------------
(***************************************************************************)
(* The patches of a block.                                                 *)
(***************************************************************************)

\* They are at the operands of its calls and its jumps, and at no other; and
\* its jumps stay inside it.
CallsPatched(code, calls) ==
  /\ calls \in Seq(Range(calls))
  /\ \A p \in Range(calls) :
       /\ IsPatch(p)
       /\ \E a \in 1 .. Len(code) :
            p.pos = a + 1 /\ code[a].op = "Call" /\ p.id = code[a].operand
  /\ \A a \in 1 .. Len(code) :
       code[a].op = "Call" => \E p \in Range(calls) : p.pos = a + 1
JumpsPatched(code, jumps) ==
  /\ jumps \in Seq(Range(jumps))
  /\ \A p \in Range(jumps) :
       \E a \in 1 .. Len(code) : p.pos = a + 1 /\ code[a].op \in JumpOps
  /\ \A a \in 1 .. Len(code) : code[a].op \in JumpOps =>
       /\ \E p \in Range(jumps) : p.pos = a + 1
       /\ code[a].operand \in 0 .. Len(code) - 1
IsCoded(b) ==
  /\ b.code \in Seq(Range(b.code))
  /\ \A a \in 1 .. Len(b.code) : IsIns(b.code[a])
  /\ CallsPatched(b.code, b.calls)
  /\ JumpsPatched(b.code, b.jumps)

\* The code of a function before it is laid out.
IsListing(code) ==
  /\ code \in Seq(Range(code))
  /\ \A i \in Range(code) : IsIns(i)
  /\ \A i \in Range(code) : i.op \in JumpOps => i.operand \in 1 .. Len(code)

LEMMA ListingCoded ==
  ASSUME NEW code, IsListing(code), NEW b,
         b.code = Text(code), b.calls = Operands(code, {"Call"}),
         b.jumps = Operands(code, {"Jump", "JumpIfFalse"})
  PROVE  IsCoded(b)
<1> DEFINE n == Len(code)
           text == Text(code)
           calls == Operands(code, {"Call"})
           jumps == Operands(code, JumpOps)
<1>1. /\ code \in Seq(Range(code)) /\ DOMAIN code = 1 .. n
      /\ \A k \in 1 .. n : /\ IsIns(code[k])
                           /\ code[k].op \in JumpOps => code[k].operand \in 1 .. n
  <2>1. code \in Seq(Range(code)) /\ \A k \in 1 .. n : code[k] \in Range(code)
    BY DEF IsListing, Range
  <2> QED BY <2>1 DEF IsListing
<1>2. /\ text \in Seq(Range(text))
      /\ \A k \in 1 .. n : /\ At(code, k) \in Nat /\ At(code, k) + 1 \in 1 .. Len(text)
                           /\ text[At(code, k) + 1] = Resolved(code, k)
      /\ \A a \in 1 .. Len(text) :
           text[a] = Bad \/ \E k \in 1 .. n : a = At(code, k) + 1
  BY TextPlaces DEF IsListing
<1>3. /\ calls \in Seq(Range(calls)) /\ jumps \in Seq(Range(jumps))
      /\ Range(calls) = {PatchAt(code, k) : k \in {j \in 1 .. n : code[j].op \in {"Call"}}}
      /\ Range(jumps) = {PatchAt(code, k) : k \in {j \in 1 .. n : code[j].op \in JumpOps}}
  BY <1>1, OperandsFrom
<1>4. \A k \in 1 .. n : /\ IsPatch(PatchAt(code, k))
                        /\ PatchAt(code, k).pos = (At(code, k) + 1) + 1
                        /\ PatchAt(code, k).id = code[k].operand
  BY <1>2 DEF PatchAt, IsPatch
<1>5. Bad.op \notin JumpOps \cup {"Call"} /\ IsIns(Bad)
  BY DEF Bad, Ins, IsIns, JumpOps
<1>6. b.code = text /\ b.calls = calls /\ b.jumps = jumps
  BY DEF JumpOps
<1> HIDE DEF n, text, calls, jumps
<1>7. \A k \in 1 .. n : /\ IsIns(Resolved(code, k)) /\ Resolved(code, k).op = code[k].op
                        /\ code[k].op = "Call" => Resolved(code, k) = code[k]
                        /\ code[k].op \in JumpOps =>
                             Resolved(code, k).operand = At(code, code[k].operand)
  BY <1>1, ResolvedIs DEF JumpOps, n
<1>8. \A a \in 1 .. Len(text) : IsIns(text[a])
  BY <1>2, <1>5, <1>7
<1>9. CallsPatched(text, calls)
  <2>1. ASSUME NEW p \in Range(calls)
        PROVE  /\ IsPatch(p)
               /\ \E a \in 1 .. Len(text) :
                    p.pos = a + 1 /\ text[a].op = "Call" /\ p.id = text[a].operand
    <3>1. PICK k \in 1 .. n : p = PatchAt(code, k) /\ code[k].op = "Call"
      BY <1>3
    <3>2. At(code, k) + 1 \in 1 .. Len(text) /\ text[At(code, k) + 1] = code[k]
      BY <1>2, <1>7, <3>1
    <3>3. p.pos = (At(code, k) + 1) + 1 /\ p.id = code[k].operand /\ IsPatch(p)
      BY <1>4, <3>1
    <3> QED BY <3>1, <3>2, <3>3
  <2>2. ASSUME NEW a \in 1 .. Len(text), text[a].op = "Call"
        PROVE  \E p \in Range(calls) : p.pos = a + 1
    <3>1. PICK k \in 1 .. n : a = At(code, k) + 1
      BY <1>2, <1>5, <2>2
    <3>2. code[k].op = "Call"
      BY <1>2, <1>7, <2>2, <3>1
    <3>3. PatchAt(code, k) \in Range(calls)
      BY <1>3, <3>2
    <3> QED BY <1>4, <3>1, <3>3
  <2> QED BY <1>3, <2>1, <2>2 DEF CallsPatched
<1>10. JumpsPatched(text, jumps)
  <2>1. ASSUME NEW p \in Range(jumps)
        PROVE  \E a \in 1 .. Len(text) : p.pos = a + 1 /\ text[a].op \in JumpOps
    <3>1. PICK k \in 1 .. n : p = PatchAt(code, k) /\ code[k].op \in JumpOps
      BY <1>3
    <3> QED BY <1>2, <1>4, <1>7, <3>1
  <2>2. ASSUME NEW a \in 1 .. Len(text), text[a].op \in JumpOps
        PROVE  /\ \E p \in Range(jumps) : p.pos = a + 1
               /\ text[a].operand \in 0 .. Len(text) - 1
    <3>1. PICK k \in 1 .. n : a = At(code, k) + 1
      BY <1>2, <1>5, <2>2
    <3>2. code[k].op \in JumpOps /\ text[a] = Resolved(code, k)
      BY <1>2, <1>7, <2>2, <3>1
    <3>3. PatchAt(code, k) \in Range(jumps)
      BY <1>3, <3>2
    <3>4. text[a].operand = At(code, code[k].operand) /\ code[k].operand \in 1 .. n
      BY <1>1, <1>7, <3>2
    <3>5. text[a].operand \in Nat /\ text[a].operand + 1 \in 1 .. Len(text)
      BY <1>2, <3>4
    <3>6. Len(text) \in Nat
      BY <1>2
    <3>7. text[a].operand \in 0 .. Len(text) - 1
      BY <3>5, <3>6
    <3> QED BY <1>4, <3>1, <3>3, <3>7
  <2> QED BY <1>3, <2>1, <2>2 DEF JumpsPatched
<1> QED BY <1>2, <1>6, <1>8, <1>9, <1>10 DEF IsCoded

-----------------------------------------------------------------------------
(***************************************************************************)
(* The code of a body is a listing.                                        *)
(***************************************************************************)
LEMMA InsIs ==
  ASSUME NEW op, NEW kind, NEW sub, NEW segment, NEW operand
  PROVE  LET i == Ins(op, kind, sub, segment, operand)
         IN  IsIns(i) /\ i.op = op /\ i.operand = operand
BY DEF Ins, IsIns

\* The instructions of a statement: only those of a loop jump, to its first
\* instruction, number `first`, and behind its last.
IsStatement(do, first, code) ==
  /\ code \in Seq(Range(code))
  /\ \A i \in Range(code) :
       /\ IsIns(i)
       /\ i.op \in JumpOps => do = "loop" /\ i.operand \in {first, first + 3}
  /\ do = "loop" => Len(code) = 3 /\ code[3].op = "Jump"

LEMMA CallStatement ==
  ASSUME NEW s, NEW strings, FunctionNamed(s.callee).paramKinds \in Seq(SourceKinds), NEW first
  PROVE  /\ IsStatement("call", first, CallCode(s, strings))
         /\ Len(CallCode(s, strings)) = Len(FunctionNamed(s.callee).paramKinds) + 1
<1> DEFINE callee == FunctionNamed(s.callee)
           kinds == callee.paramKinds
           arg(k) == IF kinds[k] = "Address"
                     THEN Addr(segmentConst, strings[s.text]) ELSE Push(kinds[k], 0)
           args == [k \in 1 .. Len(kinds) |-> arg(k)]
           call == IF callee.scope = "Extern" THEN CallExtern(callee.slot) ELSE Call(callee.id)
           last == <<call>>
<1>1. DOMAIN kinds = 1 .. Len(kinds) /\ Len(kinds) \in Nat
  OBVIOUS
<1>2. CallCode(s, strings) = args \o last
  BY <1>1 DEF CallCode
<1>3. \A k \in 1 .. Len(kinds) : IsIns(arg(k)) /\ arg(k).op \notin JumpOps
  BY DEF Addr, Push, Ins, IsIns, JumpOps
<1>4. args = [k \in 1 .. Len(kinds) |-> args[k]] /\ \A k \in 1 .. Len(kinds) : args[k] = arg(k)
  OBVIOUS
<1>5. IsIns(call) /\ call.op \notin JumpOps
  BY DEF CallExtern, Call, Ins, IsIns, JumpOps
<1>6. last \in Seq(Range(last)) /\ Range(last) = {call} /\ Len(last) = 1
  <2>1. Len(last) = 1
    OBVIOUS
  <2> HIDE DEF call
  <2> QED BY <2>1, SingleRange
<1>7. Len(kinds) = Len(FunctionNamed(s.callee).paramKinds)
  OBVIOUS
<1> HIDE DEF callee, kinds, arg, args, call, last
<1>8. args \in Seq(Range(args)) /\ DOMAIN args = 1 .. Len(kinds) /\ Len(args) = Len(kinds)
  BY <1>1, <1>4, SequenceIs
<1>9. /\ args \o last \in Seq(Range(args \o last))
      /\ Range(args \o last) = Range(args) \cup {call}
      /\ Len(args \o last) = Len(args) + 1
  BY <1>6, <1>8, ConcatAny
<1>10. \A i \in Range(args) : IsIns(i) /\ i.op \notin JumpOps
  BY <1>3, <1>4, <1>8 DEF Range
<1>11. \A i \in Range(args \o last) : IsIns(i) /\ i.op \notin JumpOps
  BY <1>5, <1>9, <1>10
<1>12. Len(args \o last) = Len(kinds) + 1
  BY <1>8, <1>9
<1>13. IsStatement("call", first, args \o last)
  BY Zenon, <1>9, <1>11 DEF IsStatement
<1> QED BY <1>2, <1>7, <1>12, <1>13

LEMMA PlainStatement ==
  ASSUME NEW do, NEW first
  PROVE  /\ do # "loop" => IsStatement(do, first, <<Push("Float64", 0), BuiltIn("Acos", "Float64")>>)
         /\ do # "loop" => IsStatement(do, first, <<Ret>>)
         /\ do = "loop" => IsStatement(do, first, LoopCode(first))
<1>1. ASSUME NEW a, NEW b PROVE <<a, b>> \in Seq({a, b}) /\ Range(<<a, b>>) = {a, b}
  BY DEF Range
<1>2. ASSUME NEW a, NEW b, NEW c
      PROVE  <<a, b, c>> \in Seq({a, b, c}) /\ Range(<<a, b, c>>) = {a, b, c}
               /\ Len(<<a, b, c>>) = 3 /\ <<a, b, c>>[3] = c
  BY DEF Range
<1>3. ASSUME do # "loop"
      PROVE  IsStatement(do, first, <<Push("Float64", 0), BuiltIn("Acos", "Float64")>>)
  <2> DEFINE a == Push("Float64", 0)
             b == BuiltIn("Acos", "Float64")
  <2>1. IsIns(a) /\ IsIns(b) /\ a.op \notin JumpOps /\ b.op \notin JumpOps
    BY DEF Push, BuiltIn, Ins, IsIns, JumpOps
  <2> HIDE DEF a, b
  <2>2. <<a, b>> \in Seq(Range(<<a, b>>)) /\ Range(<<a, b>>) = {a, b}
    BY <1>1
  <2> DEFINE code == <<a, b>>
  <2>3. code \in Seq(Range(code)) /\ \A i \in Range(code) : i = a \/ i = b
    BY <2>2
  <2> HIDE DEF code
  <2>4. IsStatement(do, first, code)
    BY <1>3, <2>1, <2>3 DEF IsStatement
  <2> QED BY <2>4 DEF code, a, b
<1>4. ASSUME do # "loop" PROVE IsStatement(do, first, <<Ret>>)
  <2> DEFINE a == Ret
             code == <<a>>
  <2>1. IsIns(a) /\ a.op \notin JumpOps
    BY DEF Ret, Ins, IsIns, JumpOps
  <2> HIDE DEF a
  <2>2. code \in Seq(Range(code)) /\ \A i \in Range(code) : i = a
    BY SingleRange
  <2> HIDE DEF code
  <2>3. IsStatement(do, first, code)
    BY <1>4, <2>1, <2>2 DEF IsStatement
  <2> QED BY <2>3 DEF code, a
<1>5. ASSUME do = "loop" PROVE IsStatement(do, first, LoopCode(first))
  <2> DEFINE a == Push("Bool", 1)
             b == JumpIfFalse(first + 3)
             c == Jump(first)
             code == <<a, b, c>>
  <2>1. /\ IsIns(a) /\ IsIns(b) /\ IsIns(c) /\ a.op \notin JumpOps
        /\ b.operand = first + 3 /\ c.operand = first /\ c.op = "Jump"
    BY DEF Push, JumpIfFalse, Jump, Ins, IsIns, JumpOps
  <2>2. LoopCode(first) = code
    BY DEF LoopCode
  <2> HIDE DEF a, b, c
  <2>3. /\ code \in Seq(Range(code)) /\ \A i \in Range(code) : i = a \/ i = b \/ i = c
        /\ Len(code) = 3 /\ code[3] = c
    BY <1>2
  <2> HIDE DEF code
  <2>4. \A i \in Range(code) :
          IsIns(i) /\ (i.op \in JumpOps => do = "loop" /\ i.operand \in {first, first + 3})
    BY <1>5, <2>1, <2>3
  <2>5. IsStatement(do, first, code)
    BY <2>1, <2>3, <2>4 DEF IsStatement
  <2> QED BY <2>2, <2>5
<1> QED BY <1>3, <1>4, <1>5

\* Where statement i begins: behind the code of those before it.
LEMMA FirstInstructionIs ==
  ASSUME NEW body, NEW n \in Nat, Len(body) = n, NEW S, NEW lists \in Seq(Seq(S)),
         Len(lists) = n, \A i \in 1 .. n : CodeLength(body[i]) = Len(lists[i])
  PROVE  \A i \in 1 .. n : FirstInstruction(body, i) = 1 + Len(FirstOf(lists, i - 1))
<1> DEFINE Steps(g) == g = [k \in 0 .. n |->
                              IF k = 0 THEN 0 ELSE g[k - 1] + CodeLength(body[k])]
           before == CHOOSE g : Steps(g)
           place == [k \in 0 .. n |-> Len(FirstOf(lists, k))]
<1>1. ASSUME NEW i \in 1 .. n PROVE FirstInstruction(body, i) = 1 + before[i - 1]
  BY DEF FirstInstruction
<1>2. /\ place[0] = 0
      /\ \A k \in 1 .. n : place[k] = place[k - 1] + CodeLength(body[k])
  <2>1. place[0] = 0
    <3>1. FirstOf(lists, 0) = <<>>
      BY FirstOfIs
    <3> QED BY <3>1
  <2>2. ASSUME NEW k \in 1 .. n PROVE place[k] = place[k - 1] + CodeLength(body[k])
    <3>1. k - 1 \in 0 .. n /\ k \in 0 .. n
      OBVIOUS
    <3>2. Len(FirstOf(lists, k)) = Len(FirstOf(lists, k - 1)) + Len(lists[k])
      BY FlattenPlaces
    <3> QED BY <3>1, <3>2
  <2> QED BY <2>1, <2>2
<1>3. place = [k \in 0 .. n |-> place[k]]
  OBVIOUS
<1> HIDE DEF place
<1>4. Steps(place)
  <2>1. \A k \in 0 .. n : place[k] = IF k = 0 THEN 0 ELSE place[k - 1] + CodeLength(body[k])
    BY <1>2
  <2> QED BY <1>3, <2>1
<1>5. Steps(before)
  <2> HIDE DEF Steps
  <2> QED BY <1>4
<1>6. before[0] = 0 /\ \A k \in 1 .. n : before[k] = before[k - 1] + CodeLength(body[k])
  <2> HIDE DEF before
  <2> QED BY <1>5
<1> HIDE DEF before, Steps
<1> DEFINE R == {k \in 0 .. n : before[k] = place[k]}
<1>7. 0 \in R
  BY <1>2, <1>6
<1>8. ASSUME NEW k \in 0 .. n - 1, k \in R PROVE k + 1 \in R
  <2>1. k + 1 \in 1 .. n /\ (k + 1) - 1 = k /\ k + 1 \in 0 .. n
    OBVIOUS
  <2>2. before[k + 1] = before[k] + CodeLength(body[k + 1])
    BY <1>6, <2>1
  <2>3. place[k + 1] = place[k] + CodeLength(body[k + 1])
    BY <1>2, <2>1
  <2> QED BY <1>8, <2>1, <2>2, <2>3
<1>9. 0 .. n \subseteq R
  <2> HIDE DEF R
  <2> QED BY <1>7, <1>8, SetInduction
<1> QED
  <2> TAKE i \in 1 .. n
  <2>1. i - 1 \in 0 .. n
    OBVIOUS
  <2>2. before[i - 1] = place[i - 1]
    BY <1>9, <2>1
  <2>3. place[i - 1] = Len(FirstOf(lists, i - 1))
    BY <2>1 DEF place
  <2> QED BY <1>1, <2>2, <2>3

LEMMA BodyListing ==
  ASSUME NEW f, IsFunctionDefinition(f), NEW strings, functions \in Seq(Bindings(unit)),
         \A i \in DOMAIN f.body : f.body[i].do = "call" => IsFunction(f.body[i].callee)
  PROVE  IsListing(WithEpilogue(BodyCode(f.body, strings)))
<1> DEFINE body == f.body
           n == Len(body)
           first(i) == FirstInstruction(body, i)
           list(i) == CASE body[i].do = "call" -> CallCode(body[i], strings)
                        [] body[i].do = "acos" -> <<Push("Float64", 0), BuiltIn("Acos", "Float64")>>
                        [] body[i].do = "loop" -> LoopCode(first(i))
                        [] body[i].do = "return" -> <<Ret>>
           lists == [i \in 1 .. n |-> list(i)]
           S == Elements(lists)
           code == BodyCode(body, strings)
<1>1. /\ DOMAIN body = 1 .. n /\ n \in Nat
      /\ \A i \in DOMAIN body : body[i].do \in {"call", "acos", "loop", "return"}
  BY DEF IsFunctionDefinition
<1>2. code = FlattenSeq(lists)
  BY <1>1 DEF BodyCode
<1>3. ASSUME NEW i \in 1 .. n
      PROVE  /\ IsStatement(body[i].do, first(i), list(i))
             /\ Len(list(i)) = CodeLength(body[i])
  <2>1. CASE body[i].do = "call"
    <3>1. list(i) = CallCode(body[i], strings)
      BY <2>1
    <3>2. FunctionNamed(body[i].callee).paramKinds \in Seq(SourceKinds)
      <4>1. PICK j \in DOMAIN functions : FunctionNamed(body[i].callee) = functions[j]
        BY <1>1, <2>1, FunctionFound
      <4>2. functions[j] \in Bindings(unit)
        OBVIOUS
      <4>3. functions[j].paramKinds \in Seq(SourceKinds)
        BY <4>2 DEF Bindings
      <4> QED BY <4>1, <4>3
    <3>3. CodeLength(body[i]) = Len(FunctionNamed(body[i].callee).paramKinds) + 1
      BY <2>1 DEF CodeLength
    <3> HIDE DEF list, body, first
    <3> QED BY <2>1, <3>1, <3>2, <3>3, CallStatement
  <2>2. CASE body[i].do = "acos"
    <3>1. list(i) = <<Push("Float64", 0), BuiltIn("Acos", "Float64")>>
      BY <2>2
    <3>2. CodeLength(body[i]) = 2
      BY <2>2 DEF CodeLength
    <3>3. Len(<<Push("Float64", 0), BuiltIn("Acos", "Float64")>>) = 2
      OBVIOUS
    <3> HIDE DEF list, body, first
    <3>4. IsStatement(body[i].do, first(i), <<Push("Float64", 0), BuiltIn("Acos", "Float64")>>)
      BY <2>2, PlainStatement
    <3> QED BY <3>1, <3>2, <3>3, <3>4
  <2>3. CASE body[i].do = "loop"
    <3>1. list(i) = LoopCode(first(i))
      BY <2>3
    <3>2. CodeLength(body[i]) = 3
      BY <2>3 DEF CodeLength
    <3> HIDE DEF list, body, first
    <3>3. IsStatement(body[i].do, first(i), LoopCode(first(i)))
      BY <2>3, PlainStatement
    <3>4. Len(LoopCode(first(i))) = 3
      BY <2>3, <3>3 DEF IsStatement
    <3> QED BY <3>1, <3>2, <3>3, <3>4
  <2>4. CASE body[i].do = "return"
    <3>1. list(i) = <<Ret>>
      BY <2>4
    <3>2. CodeLength(body[i]) = 1
      BY <2>4 DEF CodeLength
    <3>3. Len(<<Ret>>) = 1
      OBVIOUS
    <3> HIDE DEF list, body, first
    <3>4. IsStatement(body[i].do, first(i), <<Ret>>)
      BY <2>4, PlainStatement
    <3> QED BY <3>1, <3>2, <3>3, <3>4
  <2> QED BY <1>1, <2>1, <2>2, <2>3, <2>4
<1>4. lists = [i \in 1 .. n |-> lists[i]] /\ DOMAIN lists = 1 .. n
      /\ \A i \in 1 .. n : lists[i] = list(i)
  <2> HIDE DEF list
  <2> QED OBVIOUS
<1> HIDE DEF list, lists, body, n, code, S
<1>5. \A i \in 1 .. n : /\ IsStatement(body[i].do, first(i), lists[i])
                        /\ CodeLength(body[i]) = Len(lists[i])
  BY <1>3, <1>4
<1>6. /\ lists \in Seq(Seq(S)) /\ Len(lists) = n
      /\ code \in Seq(S) /\ Range(code) = S
  <2>1. \A i \in 1 .. n : lists[i] \in Seq(Range(lists[i]))
    BY <1>5 DEF IsStatement
  <2>2. /\ lists \in Seq(Seq(Elements(lists)))
        /\ FlattenSeq(lists) \in Seq(Elements(lists))
        /\ Range(FlattenSeq(lists)) = Elements(lists)
    BY <1>1, <1>4, <2>1, FlattenElements
  <2>3. Len(lists) = n
    BY <1>1, <1>4, <2>2
  <2> QED BY <1>2, <2>2, <2>3 DEF S
<1>7. \A i \in 1 .. n : first(i) = 1 + Len(FirstOf(lists, i - 1))
  BY <1>1, <1>5, <1>6, FirstInstructionIs DEF n
<1> HIDE DEF first
\* A loop lies in the code and ends in a jump.
<1>8. ASSUME NEW i \in 1 .. n, body[i].do = "loop"
      PROVE  first(i) \in Nat \ {0} /\ first(i) + 2 <= Len(code) /\ code[first(i) + 2].op = "Jump"
  <2> DEFINE start == Len(FirstOf(lists, i - 1))
  <2>1. Len(lists[i]) = 3 /\ lists[i][3].op = "Jump"
    BY <1>5, <1>8 DEF IsStatement
  <2>2. i \in 1 .. Len(lists)
    BY <1>6
  <2>3. /\ start \in Nat /\ Len(FirstOf(lists, i)) = start + 3
        /\ \A k \in 1 .. 3 : code[start + k] = lists[i][k]
    <3>1. /\ start \in Nat /\ Len(FirstOf(lists, i)) = start + Len(lists[i])
          /\ \A k \in 1 .. Len(lists[i]) : FlattenSeq(lists)[start + k] = lists[i][k]
      BY <1>6, <2>2, FlattenPlaces
    <3> HIDE DEF start
    <3> QED BY Zenon, <1>2, <2>1, <3>1
  <2>4. Len(FirstOf(lists, i)) <= Len(code)
    <3>1. i \in 0 .. Len(lists) /\ Len(lists) \in i .. Len(lists)
      BY <1>1, <1>6
    <3>2. Len(FirstOf(lists, i)) <= Len(FirstOf(lists, Len(lists)))
      BY <1>6, <3>1, FirstOfGrows
    <3>3. FirstOf(lists, Len(lists)) = code
      BY <1>2, <1>6, FirstOfIs
    <3> QED BY <3>2, <3>3
  <2>5. first(i) = 1 + start
    BY <1>7
  <2> HIDE DEF start
  <2>6. 3 \in 1 .. 3 /\ first(i) + 2 = start + 3
    BY <2>3, <2>5
  <2> QED BY <2>1, <2>3, <2>4, <2>5, <2>6
<1>9. ASSUME NEW x \in Range(code)
      PROVE  /\ IsIns(x)
             /\ x.op \in JumpOps => \E i \in 1 .. n : /\ body[i].do = "loop"
                                                      /\ x.operand \in {first(i), first(i) + 3}
  <2>1. PICK i \in 1 .. n : x \in Range(lists[i])
    BY <1>4, <1>6 DEF S, Elements
  <2> QED BY <1>5, <2>1 DEF IsStatement
<1> DEFINE all == WithEpilogue(code)
<1>10. Len(code) \in Nat
  BY <1>6
<1>11. CASE EndsInRetByte(code)
  <2>1. all = code
    BY <1>11 DEF WithEpilogue
  <2>2. Last(code).op = "BuiltIn" /\ Last(code) = code[Len(code)]
    BY <1>11 DEF EndsInRetByte, Last
  <2>3. ASSUME NEW x \in Range(code), x.op \in JumpOps PROVE x.operand \in 1 .. Len(code)
    <3>1. PICK i \in 1 .. n : body[i].do = "loop" /\ x.operand \in {first(i), first(i) + 3}
      BY <1>9, <2>3
    <3>2. /\ first(i) \in Nat \ {0} /\ first(i) + 2 <= Len(code)
          /\ code[first(i) + 2].op = "Jump"
      BY <1>8, <3>1
    <3>3. first(i) + 2 # Len(code)
      BY <2>2, <3>2
    <3> QED BY <1>10, <3>1, <3>2, <3>3
  <2>4. code \in Seq(Range(code))
    BY <1>6
  <2> QED BY <1>9, <2>1, <2>3, <2>4 DEF IsListing, code, body
<1>12. CASE ~EndsInRetByte(code)
  <2> DEFINE r == Ret
             more == Append(code, r)
  <2>1. all = more
    BY <1>12 DEF WithEpilogue
  <2>2. IsIns(r) /\ r.op \notin JumpOps
    BY DEF Ret, Ins, IsIns, JumpOps
  <2> HIDE DEF r
  <2>3. code \in Seq(Range(code))
    BY <1>6
  <2>4. more \in Seq(Range(more)) /\ Range(more) = Range(code) \cup {r}
    BY <2>3, AppendAny
  <2>5. Len(more) = Len(code) + 1
    BY <1>6
  <2> HIDE DEF more
  <2>6. ASSUME NEW x \in Range(more) PROVE IsIns(x) /\ (x.op \in JumpOps => x.operand \in 1 .. Len(more))
    <3>1. CASE x = r
      BY <2>2, <3>1
    <3>2. CASE x \in Range(code)
      <4>1. IsIns(x)
        BY <1>9, <3>2
      <4>2. ASSUME x.op \in JumpOps PROVE x.operand \in 1 .. Len(more)
        <5>1. PICK i \in 1 .. n : body[i].do = "loop" /\ x.operand \in {first(i), first(i) + 3}
          BY <1>9, <3>2, <4>2
        <5>2. first(i) \in Nat \ {0} /\ first(i) + 2 <= Len(code)
          BY <1>8, <5>1
        <5> QED BY <1>10, <2>5, <5>1, <5>2
      <4> QED BY <4>1, <4>2
    <3> QED BY <2>4, <3>1, <3>2
  <2>7. IsListing(more)
    BY <2>4, <2>6 DEF IsListing
  <2> QED BY <2>1, <2>7 DEF code, body
<1> QED BY <1>11, <1>12

-----------------------------------------------------------------------------
(***************************************************************************)
(* What patching does to an instruction.                                   *)
(***************************************************************************)
LEMMA PatchedAt ==
  ASSUME NEW text, NEW patches, NEW value, NEW a \in DOMAIN text, IsIns(text[a])
  PROVE  LET new == Patched(text, patches, value)[a]
         IN  \/ new = text[a] /\ \A i \in DOMAIN patches : patches[i].pos # a + 1
             \/ \E i \in DOMAIN patches :
                  /\ patches[i].pos = a + 1
                  /\ IsIns(new) /\ new.op = text[a].op /\ new.operand = value[i]
<1> DEFINE new == Patched(text, patches, value)[a]
           old == text[a]
<1>1. CASE \A i \in DOMAIN patches : patches[i].pos # a + 1
  <2>1. new = old
    BY <1>1 DEF Patched
  <2> QED BY <1>1, <2>1
<1>2. CASE \E i \in DOMAIN patches : patches[i].pos = a + 1
  <2> DEFINE i == CHOOSE i \in DOMAIN patches : patches[i].pos = a + 1
             v == value[i]
  <2>1. i \in DOMAIN patches /\ patches[i].pos = a + 1
    BY <1>2
  <2>2. new = [old EXCEPT !.operand = v]
    BY <1>2 DEF Patched
  <2>3. old = Ins(old.op, old.kind, old.sub, old.segment, old.operand)
    BY DEF IsIns
  <2> HIDE DEF i, v, old, new
  <2>4. IsIns(new) /\ new.op = old.op /\ new.operand = v
    BY <2>2, <2>3 DEF Ins, IsIns
  <2> QED BY <2>1, <2>4 DEF v, old, new
<1> QED BY <1>1, <1>2

\* An instruction of a block that now begins at base.
IsMoved(old, new, base) ==
  /\ IsIns(new) /\ new.op = old.op
  /\ old.op \in JumpOps => new.operand = old.operand + base
  /\ old.op \notin JumpOps => new = old

LEMMA RelocatedIs ==
  ASSUME NEW b, IsCoded(b), NEW base \in Nat
  PROVE  LET code == Relocated(b, base)
         IN  /\ code \in Seq(Range(code)) /\ Len(code) = Len(b.code)
             /\ \A a \in 1 .. Len(b.code) : IsMoved(b.code[a], code[a], base)
<1> DEFINE text == b.code
           jumps == b.jumps
           value == [i \in DOMAIN jumps |-> text[jumps[i].pos - 1].operand + base]
           code == Relocated(b, base)
<1>1. /\ text \in Seq(Range(text)) /\ \A a \in 1 .. Len(text) : IsIns(text[a])
      /\ jumps \in Seq(Range(jumps))
      /\ \A p \in Range(jumps) :
           \E a \in 1 .. Len(text) : p.pos = a + 1 /\ text[a].op \in JumpOps
      /\ \A a \in 1 .. Len(text) : text[a].op \in JumpOps => \E p \in Range(jumps) : p.pos = a + 1
  BY DEF IsCoded, JumpsPatched
<1>2. code = Patched(text, jumps, value)
  BY DEF Relocated
<1>3. \A i \in DOMAIN jumps : value[i] = text[jumps[i].pos - 1].operand + base
  OBVIOUS
<1> HIDE DEF text, jumps, value, code
<1>4. code \in Seq(Range(code)) /\ Len(code) = Len(text)
  BY <1>1, <1>2, PatchedIs
<1>5. DOMAIN text = 1 .. Len(text) /\ Len(text) \in Nat
  BY <1>1
<1>6. ASSUME NEW a \in 1 .. Len(text) PROVE IsMoved(text[a], code[a], base)
  <2>1. \/ code[a] = text[a] /\ \A i \in DOMAIN jumps : jumps[i].pos # a + 1
        \/ \E i \in DOMAIN jumps : /\ jumps[i].pos = a + 1
                                   /\ IsIns(code[a]) /\ code[a].op = text[a].op
                                   /\ code[a].operand = value[i]
    <3>1. a \in DOMAIN text /\ IsIns(text[a])
      BY <1>1, <1>5
    <3>2. \/ Patched(text, jumps, value)[a] = text[a] /\ \A i \in DOMAIN jumps : jumps[i].pos # a + 1
          \/ \E i \in DOMAIN jumps : /\ jumps[i].pos = a + 1
                                     /\ IsIns(Patched(text, jumps, value)[a])
                                     /\ Patched(text, jumps, value)[a].op = text[a].op
                                     /\ Patched(text, jumps, value)[a].operand = value[i]
      BY <3>1, PatchedAt
    <3> QED BY Zenon, <1>2, <3>2
  <2>2. CASE code[a] = text[a] /\ \A i \in DOMAIN jumps : jumps[i].pos # a + 1
    <3>1. text[a].op \notin JumpOps
      BY <1>1, <2>2 DEF Range
    <3> QED BY <1>1, <2>2, <3>1 DEF IsMoved
  <2>3. ASSUME NEW i \in DOMAIN jumps, jumps[i].pos = a + 1, IsIns(code[a]),
               code[a].op = text[a].op, code[a].operand = value[i]
        PROVE  IsMoved(text[a], code[a], base)
    <3>1. jumps[i] \in Range(jumps)
      BY DEF Range
    <3>2. PICK c \in 1 .. Len(text) : jumps[i].pos = c + 1 /\ text[c].op \in JumpOps
      BY <1>1, <3>1
    <3>3. c = a /\ jumps[i].pos - 1 = a
      BY <1>5, <2>3, <3>2
    <3> QED BY <1>3, <2>3, <3>2, <3>3 DEF IsMoved
  <2> QED BY <2>1, <2>2, <2>3
<1> QED BY <1>4, <1>6 DEF text, code

\* Code put behind other code, and its patches moved with it.
LEMMA PatchesConcat ==
  ASSUME NEW text, text \in Seq(Range(text)), NEW patches, CallsPatched(text, patches),
         NEW code, code \in Seq(Range(code)), NEW calls, CallsPatched(code, calls),
         NEW moved, moved = [i \in DOMAIN calls |-> [calls[i] EXCEPT !.pos = @ + Len(text)]]
  PROVE  CallsPatched(text \o code, patches \o moved)
<1> DEFINE base == Len(text)
           n == Len(calls)
           all == text \o code
           both == patches \o moved
<1>1. /\ patches \in Seq(Range(patches)) /\ calls \in Seq(Range(calls))
      /\ DOMAIN calls = 1 .. n /\ n \in Nat
      /\ base \in Nat /\ Len(code) \in Nat
  BY DEF CallsPatched
<1>2. ASSUME NEW i \in 1 .. n
      PROVE  IsPatch(moved[i]) /\ moved[i].pos = calls[i].pos + base /\ moved[i].id = calls[i].id
  <2> DEFINE p == calls[i]
  <2>1. p \in Range(calls) /\ moved[i] = [p EXCEPT !.pos = @ + base]
    BY <1>1 DEF Range
  <2>2. p = [op |-> p.op, pos |-> p.pos, id |-> p.id]
    BY <2>1 DEF CallsPatched, IsPatch
  <2> HIDE DEF p, base
  <2>3. /\ moved[i].pos = p.pos + base /\ moved[i].id = p.id
        /\ moved[i] = [op |-> p.op, pos |-> p.pos + base, id |-> p.id]
    BY <2>1, <2>2
  <2>4. IsPatch(moved[i])
    BY <2>3 DEF IsPatch
  <2> QED BY <2>3, <2>4 DEF p
<1>3. moved \in Seq(Range(moved)) /\ DOMAIN moved = 1 .. n
  <2>1. moved = [i \in 1 .. n |-> moved[i]]
    BY <1>1
  <2> HIDE DEF n
  <2> QED BY <1>1, <2>1, SequenceIs
<1> HIDE DEF n
<1>4. both \in Seq(Range(both)) /\ Range(both) = Range(patches) \cup Range(moved)
  BY <1>1, <1>3, ConcatAny
<1>5. /\ Len(all) = base + Len(code)
      /\ \A a \in 1 .. base : all[a] = text[a]
      /\ \A a \in 1 .. Len(code) : all[base + a] = code[a]
  <2> DEFINE S == Range(text) \cup Range(code)
  <2>1. text \in Seq(S) /\ code \in Seq(S)
    <3> DEFINE A == Range(text)
               B == Range(code)
    <3>1. text \in Seq(A) /\ code \in Seq(B) /\ A \subseteq S /\ B \subseteq S
      OBVIOUS
    <3> HIDE DEF A, B, S
    <3> QED BY <3>1, SequenceWidens
  <2> HIDE DEF S, all
  <2> QED BY <2>1, ConcatIs DEF all, base
<1> HIDE DEF base, all, both
<1>6. /\ \A a \in 1 .. base : a \in 1 .. Len(all)
      /\ \A a \in 1 .. Len(code) : base + a \in 1 .. Len(all)
      /\ \A a \in 1 .. Len(all) : a \in 1 .. base \/ \E c \in 1 .. Len(code) : a = base + c
  <2>1. \A a \in 1 .. Len(all) : a \in 1 .. base \/ (a - base \in 1 .. Len(code) /\ a = base + (a - base))
    BY <1>1, <1>5
  <2>2. /\ \A a \in 1 .. base : a \in 1 .. Len(all)
        /\ \A a \in 1 .. Len(code) : base + a \in 1 .. Len(all)
    BY <1>1, <1>5
  <2> QED BY <2>1, <2>2
<1>7. ASSUME NEW p \in Range(both)
      PROVE  /\ IsPatch(p)
             /\ \E a \in 1 .. Len(all) : p.pos = a + 1 /\ all[a].op = "Call" /\ p.id = all[a].operand
  <2>1. CASE p \in Range(patches)
    <3>1. PICK a \in 1 .. base : p.pos = a + 1 /\ text[a].op = "Call" /\ p.id = text[a].operand
      BY <2>1 DEF CallsPatched, base
    <3>2. IsPatch(p)
      BY <2>1 DEF CallsPatched
    <3> QED BY <1>5, <1>6, <3>1, <3>2
  <2>2. CASE p \in Range(moved)
    <3>1. PICK i \in 1 .. n : p = moved[i]
      BY <1>3, <2>2 DEF Range
    <3>2. calls[i] \in Range(calls)
      BY <1>1 DEF Range
    <3>3. PICK a \in 1 .. Len(code) :
            calls[i].pos = a + 1 /\ code[a].op = "Call" /\ calls[i].id = code[a].operand
      BY <3>2 DEF CallsPatched
    <3>4. (a + 1) + base = (base + a) + 1
      BY <1>1
    <3>5. base + a \in 1 .. Len(all) /\ all[base + a] = code[a]
      BY <1>5, <1>6
    <3>6. p.pos = (base + a) + 1 /\ p.id = code[a].operand /\ IsPatch(p)
      BY <1>2, <3>1, <3>3, <3>4
    <3> QED BY <3>3, <3>5, <3>6
  <2> QED BY <1>4, <2>1, <2>2
<1>8. ASSUME NEW a \in 1 .. Len(all), all[a].op = "Call"
      PROVE  \E p \in Range(both) : p.pos = a + 1
  <2>1. CASE a \in 1 .. base
    <3>1. \E p \in Range(patches) : p.pos = a + 1
      BY <1>5, <1>8, <2>1 DEF CallsPatched, base
    <3> QED BY <1>4, <3>1
  <2>2. ASSUME NEW c \in 1 .. Len(code), a = base + c PROVE \E p \in Range(both) : p.pos = a + 1
    <3>1. code[c].op = "Call"
      BY <1>5, <1>8, <2>2
    <3>2. PICK q \in Range(calls) : q.pos = c + 1
      BY <3>1 DEF CallsPatched
    <3>3. PICK i \in 1 .. n : q = calls[i]
      BY <1>1 DEF Range
    <3>4. moved[i].pos = (c + 1) + base /\ moved[i] \in Range(moved)
      BY <1>2, <1>3, <3>2, <3>3 DEF Range
    <3>5. (c + 1) + base = a + 1
      BY <1>1, <2>2
    <3> QED BY <1>4, <3>4, <3>5
  <2> QED BY <1>6, <2>1, <2>2
<1>9. CallsPatched(all, both)
  BY <1>4, <1>7, <1>8 DEF CallsPatched
<1> QED BY <1>9 DEF all, both

-----------------------------------------------------------------------------
(***************************************************************************)
(* The code of every block is patched at its calls and its jumps.          *)
(***************************************************************************)
CodedInv == blocks \in Seq(Range(blocks)) /\ \A b \in Range(blocks) : IsCoded(b)

LEMMA CompileFunctionCodes == LayoutInv /\ CodedInv /\ CompileFunction => CodedInv'
<1> SUFFICES ASSUME LayoutInv, CodedInv, CompileFunction PROVE CodedInv'
  OBVIOUS
<1> DEFINE f == unit.functions[at]
           block(strings) == CompiledBlock(f, Frame(f.params \o f.locals),
                                           WithEpilogue(BodyCode(f.body, strings)))
<1>1. CASE blocks' = blocks
  BY <1>1 DEF CodedInv
<1>2. ASSUME NEW strings, blocks' = Append(blocks, block(strings)),
             \A i \in DOMAIN f.body : f.body[i].do = "call" => IsFunction(f.body[i].callee)
      PROVE  CodedInv'
  <2> DEFINE b == block(strings)
             code == WithEpilogue(BodyCode(f.body, strings))
  <2>1. IsFunctionDefinition(f) /\ functions \in Seq(Bindings(unit))
    <3>1. phase = "compile" /\ at <= Len(unit.functions) /\ unit \in Units /\ at \in Nat \ {0}
      BY DEF CompileFunction, Item, LayoutInv, LayoutTypes
    <3>2. Len(unit.functions) \in Nat /\ DOMAIN unit.functions = 1 .. Len(unit.functions)
          /\ \A i \in DOMAIN unit.functions : IsFunctionDefinition(unit.functions[i])
      BY <3>1, UnitType
    <3>3. at \in DOMAIN unit.functions
      BY <3>1, <3>2
    <3> QED BY <3>1, <3>2, <3>3 DEF LayoutInv, LayoutTypes, FrontPhases
  <2>2. IsListing(code)
    <3> HIDE DEF f
    <3> QED BY <1>2, <2>1, BodyListing
  <2>3. /\ b.code = Text(code) /\ b.calls = Operands(code, {"Call"})
        /\ b.jumps = Operands(code, {"Jump", "JumpIfFalse"})
    <3> HIDE DEF code, f
    <3> QED BY DEF CompiledBlock, code
  <2> HIDE DEF b, code
  <2>4. IsCoded(b)
    BY <2>2, <2>3, ListingCoded
  <2> DEFINE new == Append(blocks, b)
             old == blocks
  <2>5. old \in Seq(Range(old)) /\ new = Append(old, b)
    BY DEF CodedInv
  <2> HIDE DEF old, new
  <2>6. new \in Seq(Range(new)) /\ Range(new) = Range(old) \cup {b}
    BY <2>5, AppendAny
  <2>7. blocks' = new
    BY <1>2 DEF new, b
  <2>8. \A c \in Range(new) : IsCoded(c)
    BY <2>4, <2>6 DEF CodedInv, old
  <2> QED BY <2>6, <2>7, <2>8 DEF CodedInv
<1>3. \/ blocks' = blocks
      \/ \E strings :
           /\ blocks' = Append(blocks, block(strings))
           /\ \A i \in DOMAIN f.body : f.body[i].do = "call" => IsFunction(f.body[i].callee)
  BY DEF CompileFunction, Fail
<1> HIDE DEF f, block
<1> QED BY <1>1, <1>2, <1>3

LEMMA CodedStep == LayoutInv /\ CodedInv /\ [Next]_vars => CodedInv'
<1> SUFFICES ASSUME LayoutInv, CodedInv, [Next]_vars PROVE CodedInv'
  OBVIOUS
<1>1. CASE blocks' = blocks
  BY <1>1 DEF CodedInv
<1>2. CASE RegisterDecl \/ InitializeGlobal \/ RegisterFunction \/ StartMarking
             \/ FollowCall \/ LeaveBlock \/ NextPhase
  <2>1. blocks' = blocks
    BY <1>2 DEF RegisterDecl, InitializeGlobal, RegisterFunction, StartMarking, FollowCall,
                LeaveBlock, NextPhase, Fail
  <2> QED BY <1>1, <2>1
<1>3. CASE StartAssembling \/ AssembleBlock \/ FinishAssembling \/ Link \/ BuildProgramImage
  <2>1. blocks' = blocks
    BY <1>3 DEF StartAssembling, AssembleBlock, FinishAssembling, Link, BuildProgramImage, Fail
  <2> QED BY <1>1, <2>1
<1>4. CASE UNCHANGED vars
  <2>1. blocks' = blocks
    BY <1>4 DEF vars
  <2> QED BY <1>1, <2>1
<1> QED BY <1>2, <1>3, <1>4, CompileFunctionCodes DEF Next, Compile

-----------------------------------------------------------------------------
(***************************************************************************)
(* Where the blocks that are kept go.                                      *)
(***************************************************************************)
LivePieces(bs, g) ==
  [k \in DOMAIN bs |-> IF g[k] = "Visited" THEN bs[k].code ELSE <<>>]
Start(bs, g, k) == Len(FirstOf(LivePieces(bs, g), k - 1))

AreCoded(bs) == bs \in Seq(Range(bs)) /\ \A b \in Range(bs) : IsCoded(b)

LEMMA StartIs ==
  ASSUME NEW bs, AreCoded(bs), NEW g
  PROVE  /\ Len(bs) \in Nat /\ DOMAIN bs = 1 .. Len(bs)
         /\ \A k \in 1 .. Len(bs) : IsCoded(bs[k])
         /\ Start(bs, g, 1) = 0
         /\ \A k \in 1 .. Len(bs) :
              /\ Start(bs, g, k) \in Nat
              /\ Start(bs, g, k + 1)
                   = Start(bs, g, k) + (IF g[k] = "Visited" THEN Len(bs[k].code) ELSE 0)
<1> DEFINE n == Len(bs)
           live == LivePieces(bs, g)
           S == Elements(live)
<1>1. n \in Nat /\ DOMAIN bs = 1 .. n
  BY DEF AreCoded
<1>2. \A k \in 1 .. n : IsCoded(bs[k])
  BY <1>1 DEF AreCoded, Range
<1>3. /\ DOMAIN live = 1 .. n /\ live = [k \in 1 .. n |-> live[k]]
      /\ \A k \in 1 .. n : live[k] = IF g[k] = "Visited" THEN bs[k].code ELSE <<>>
  BY <1>1 DEF LivePieces
<1> HIDE DEF live, n, S
<1>4. \A k \in 1 .. n : live[k] \in Seq(Range(live[k]))
  <2> TAKE k \in 1 .. n
  <2>1. CASE g[k] = "Visited"
    BY <1>2, <1>3, <2>1 DEF IsCoded
  <2>2. CASE g[k] # "Visited"
    <3>1. live[k] = <<>>
      BY <1>3, <2>2
    <3> QED BY <3>1, EmptyRange
  <2> QED BY <2>1, <2>2
<1>5. live \in Seq(Seq(S)) /\ Len(live) = n
  <2>1. live \in Seq(Seq(S))
    BY <1>1, <1>3, <1>4, FlattenElements DEF S
  <2> QED BY <1>1, <1>3, <2>1
<1>6. FirstOf(live, 0) = <<>>
  BY <1>5, FirstOfIs
<1>7. ASSUME NEW k \in 1 .. n
      PROVE  /\ Len(FirstOf(live, k - 1)) \in Nat
             /\ Len(FirstOf(live, k))
                  = Len(FirstOf(live, k - 1)) + (IF g[k] = "Visited" THEN Len(bs[k].code) ELSE 0)
  <2>1. k \in 1 .. Len(live)
    BY <1>5
  <2>2. /\ Len(FirstOf(live, k - 1)) \in Nat
        /\ Len(FirstOf(live, k)) = Len(FirstOf(live, k - 1)) + Len(live[k])
    BY <1>5, <2>1, FlattenPlaces
  <2>3. Len(live[k]) = IF g[k] = "Visited" THEN Len(bs[k].code) ELSE 0
    BY <1>3
  <2> QED BY <2>2, <2>3
<1>8. Len(FirstOf(live, 0)) = 0
  BY <1>6
<1>9. \A k : Start(bs, g, k) = Len(FirstOf(live, k - 1))
  BY DEF Start, live
<1>10. 1 - 1 = 0 /\ \A k \in 1 .. n : (k + 1) - 1 = k
  BY <1>1
<1>11. Start(bs, g, 1) = 0
  BY <1>8, <1>9, <1>10
<1>12. ASSUME NEW k \in 1 .. n
       PROVE  /\ Start(bs, g, k) \in Nat
              /\ Start(bs, g, k + 1)
                   = Start(bs, g, k) + (IF g[k] = "Visited" THEN Len(bs[k].code) ELSE 0)
  <2>1. Start(bs, g, k + 1) = Len(FirstOf(live, k))
    BY <1>9, <1>10
  <2>2. Start(bs, g, k) = Len(FirstOf(live, k - 1))
    BY <1>9
  <2> QED BY <1>7, <2>1, <2>2
<1> QED BY <1>1, <1>2, <1>11, <1>12 DEF n

\* The code of a block stands in the text, from start on.
IsAt(text, code, start) ==
  \A a \in 1 .. Len(code) :
    start + a \in 1 .. Len(text) /\ IsMoved(code[a], text[start + a], start)

\* The first m blocks, those that are kept, stand one behind the other; the
\* calls of what is put together are patched; every local function retained
\* is one of these blocks.
IsPlacement(bs, g, m, out) ==
  /\ out.text \in Seq(Range(out.text))
  /\ CallsPatched(out.text, out.patches)
  /\ Len(out.text) = Start(bs, g, m + 1)
  /\ \A k \in 1 .. m : g[k] = "Visited" => IsAt(out.text, bs[k].code, Start(bs, g, k))
  /\ \A v \in Range(out.retained) : v.scope = "BSS" =>
       \E k \in 1 .. m : /\ g[k] = "Visited"
                         /\ v.id = bs[k].binding.id
                         /\ v.address = Start(bs, g, k)

\* The calls of a block stay patched where it goes.
LEMMA RelocatedPatched ==
  ASSUME NEW b, IsCoded(b), NEW base \in Nat
  PROVE  CallsPatched(Relocated(b, base), b.calls)
<1> DEFINE code == Relocated(b, base)
           old == b.code
<1>1. /\ Len(code) = Len(old)
      /\ \A a \in 1 .. Len(old) : IsMoved(old[a], code[a], base)
  BY RelocatedIs
<1>2. "Call" \notin JumpOps
  BY DEF JumpOps
<1>3. CallsPatched(old, b.calls)
  BY DEF IsCoded
<1> HIDE DEF code, old
<1>4. \A a \in 1 .. Len(old) : /\ code[a].op = old[a].op
                               /\ old[a].op = "Call" => code[a] = old[a]
  BY <1>1, <1>2 DEF IsMoved
<1> DEFINE calls == b.calls
<1> HIDE DEF calls
<1>5. CallsPatched(code, calls)
  <2>1. /\ calls \in Seq(Range(calls))
        /\ \A p \in Range(calls) :
             /\ IsPatch(p)
             /\ \E a \in 1 .. Len(old) : p.pos = a + 1 /\ old[a].op = "Call" /\ p.id = old[a].operand
        /\ \A a \in 1 .. Len(old) : old[a].op = "Call" => \E p \in Range(calls) : p.pos = a + 1
    BY <1>3 DEF CallsPatched, calls
  <2>2. ASSUME NEW p \in Range(calls)
        PROVE  \E a \in 1 .. Len(code) : p.pos = a + 1 /\ code[a].op = "Call" /\ p.id = code[a].operand
    <3>1. PICK a \in 1 .. Len(old) : p.pos = a + 1 /\ old[a].op = "Call" /\ p.id = old[a].operand
      BY <2>1
    <3> QED BY <1>1, <1>4, <3>1
  <2>3. \A a \in 1 .. Len(code) : code[a].op = "Call" => \E p \in Range(calls) : p.pos = a + 1
    BY <1>1, <1>4, <2>1
  <2> QED BY <2>1, <2>2, <2>3 DEF CallsPatched
<1> QED BY <1>5 DEF code, calls

LEMMA PlacementStarts ==
  ASSUME NEW bs, AreCoded(bs), NEW g, NEW out, out.text = <<>>, out.patches = <<>>,
         \A v \in Range(out.retained) : v.scope = "Extern"
  PROVE  IsPlacement(bs, g, 0, out)
<1>1. Start(bs, g, 0 + 1) = 0
  <2>1. 0 + 1 = 1
    OBVIOUS
  <2> QED BY <2>1, StartIs
<1>2. Len(out.text) = 0 /\ out.text \in Seq(Range(out.text)) /\ out.patches \in Seq(Range(out.patches))
      /\ Range(out.patches) = {}
  BY EmptyRange
<1>3. CallsPatched(out.text, out.patches)
  BY <1>2 DEF CallsPatched
<1>4. \A k \in 1 .. 0 : FALSE
  OBVIOUS
<1>5. \A v \in Range(out.retained) : v.scope # "BSS"
  OBVIOUS
<1> QED BY <1>1, <1>2, <1>3, <1>4, <1>5 DEF IsPlacement

\* A block that is not kept takes no place.
LEMMA PlacementPasses ==
  ASSUME NEW bs, AreCoded(bs), NEW g, NEW m \in Nat, m + 1 <= Len(bs), NEW out,
         IsPlacement(bs, g, m, out), g[m + 1] # "Visited"
  PROVE  IsPlacement(bs, g, m + 1, out)
<1> DEFINE k == m + 1
<1>1. k \in 1 .. Len(bs) /\ k \in Nat
  BY StartIs
<1>2. \A j \in 1 .. k : j \in 1 .. m \/ j = k
  OBVIOUS
<1>3. \A j \in 1 .. m : j \in 1 .. k
  OBVIOUS
<1>4. g[k] # "Visited" /\ Len(out.text) = Start(bs, g, k)
  BY DEF IsPlacement
<1> HIDE DEF k
<1>5. Start(bs, g, k + 1) = Start(bs, g, k)
  BY <1>1, <1>4, StartIs
<1>6. Len(out.text) = Start(bs, g, k + 1)
  BY <1>4, <1>5
<1>7. \A j \in 1 .. k : g[j] = "Visited" => IsAt(out.text, bs[j].code, Start(bs, g, j))
  BY <1>2, <1>4 DEF IsPlacement
<1>8. ASSUME NEW v \in Range(out.retained), v.scope = "BSS"
      PROVE  \E j \in 1 .. k : /\ g[j] = "Visited"
                               /\ v.id = bs[j].binding.id
                               /\ v.address = Start(bs, g, j)
  BY <1>3, <1>8 DEF IsPlacement
<1>9. out.text \in Seq(Range(out.text)) /\ CallsPatched(out.text, out.patches)
  BY DEF IsPlacement
<1>10. IsPlacement(bs, g, k, out)
  BY Zenon, <1>6, <1>7, <1>8, <1>9 DEF IsPlacement
<1> QED BY <1>10 DEF k

\* A block that is kept goes behind the others.
LEMMA PlacementGrows ==
  ASSUME NEW bs, AreCoded(bs), NEW g, NEW m \in Nat, m + 1 <= Len(bs), NEW out,
         IsPlacement(bs, g, m, out), g[m + 1] = "Visited",
         NEW u, bs[m + 1].binding \in Bindings(u), out.retained \in Seq(Range(out.retained)),
         NEW new, NEW base, base = Len(out.text),
         new.text = out.text \o Relocated(bs[m + 1], base),
         new.patches = out.patches \o [i \in DOMAIN bs[m + 1].calls |->
                                         [bs[m + 1].calls[i] EXCEPT !.pos = @ + base]],
         new.retained = Append(out.retained, [bs[m + 1].binding EXCEPT !.address = base])
  PROVE  IsPlacement(bs, g, m + 1, new)
<1> DEFINE k == m + 1
           b == bs[k]
           code == Relocated(b, base)
           text == out.text
           all == new.text
           moved == [i \in DOMAIN b.calls |-> [b.calls[i] EXCEPT !.pos = @ + base]]
           v == [b.binding EXCEPT !.address = base]
<1>1. k \in 1 .. Len(bs) /\ k \in Nat /\ IsCoded(b)
  <2>1. k \in 1 .. Len(bs)
    BY StartIs
  <2> QED BY <2>1, StartIs
<1>2. /\ \A j \in 1 .. k : j \in 1 .. m \/ j = k
      /\ \A j \in 1 .. m : j \in 1 .. k
      /\ k \in 1 .. k
  OBVIOUS
<1>3. g[k] = "Visited" /\ base = Start(bs, g, k) /\ base = Len(text)
  BY DEF IsPlacement
<1>4. text \in Seq(Range(text)) /\ CallsPatched(text, out.patches)
  BY DEF IsPlacement
<1>5. \A j \in 1 .. m : g[j] = "Visited" => IsAt(text, bs[j].code, Start(bs, g, j))
  BY DEF IsPlacement
<1>6. v.id = b.binding.id /\ v.address = base /\ v.scope = b.binding.scope
  <2>1. b.binding \in Bindings(u)
    OBVIOUS
  <2>2. DOMAIN b.binding = {"name", "id", "scope", "slot", "returnKind", "paramKinds",
                            "paramOffsets", "slotCount", "frameByteSize", "address"}
    BY <2>1 DEF Bindings
  <2> HIDE DEF b
  <2> QED BY <2>1, <2>2 DEF Bindings
<1>7. new.retained = Append(out.retained, v) /\ all = text \o code /\ new.patches = out.patches \o moved
  OBVIOUS
<1>8. moved = [i \in DOMAIN b.calls |-> [b.calls[i] EXCEPT !.pos = @ + Len(text)]]
  BY <1>3
<1> HIDE DEF k, b, code, text, moved, v
<1>9. base \in Nat
  BY <1>3, <1>4
<1>10. /\ code \in Seq(Range(code)) /\ Len(code) = Len(b.code)
       /\ \A a \in 1 .. Len(b.code) : IsMoved(b.code[a], code[a], base)
       /\ CallsPatched(code, b.calls)
  BY <1>1, <1>9, RelocatedIs, RelocatedPatched DEF code
<1>11. CallsPatched(all, new.patches)
  <2>1. CallsPatched(text \o code, out.patches \o moved)
    BY <1>4, <1>8, <1>10, PatchesConcat
  <2> QED BY <1>7, <2>1
<1>12. all \in Seq(Range(all)) /\ Len(all) = base + Len(code)
  <2>1. /\ text \o code \in Seq(Range(text \o code))
        /\ Len(text \o code) = Len(text) + Len(code)
    BY <1>4, <1>10, ConcatAny
  <2> QED BY Zenon, <1>3, <1>7, <2>1
<1>13. /\ \A a \in 1 .. base : all[a] = text[a]
       /\ \A a \in 1 .. Len(code) : all[base + a] = code[a]
  <2> DEFINE S == Range(text) \cup Range(code)
  <2>1. text \in Seq(S) /\ code \in Seq(S)
    <3> DEFINE A == Range(text)
               B == Range(code)
    <3>1. text \in Seq(A) /\ code \in Seq(B) /\ A \subseteq S /\ B \subseteq S
      BY <1>4, <1>10
    <3> HIDE DEF A, B, S
    <3> QED BY <3>1, SequenceWidens
  <2> HIDE DEF S
  <2>2. /\ \A a \in 1 .. Len(text) : (text \o code)[a] = text[a]
        /\ \A a \in 1 .. Len(code) : (text \o code)[Len(text) + a] = code[a]
    BY <2>1, ConcatIs
  <2> QED BY Zenon, <1>3, <1>7, <2>2
<1> HIDE DEF all
<1>14. Len(code) \in Nat
  BY <1>10
<1>15. \A a \in 1 .. base : a \in 1 .. Len(all)
  BY <1>9, <1>12, <1>14
<1>16. \A a \in 1 .. Len(code) : base + a \in 1 .. Len(all)
  BY <1>9, <1>12, <1>14
<1>17. Len(all) = Start(bs, g, k + 1)
  <2>1. Start(bs, g, k + 1) = Start(bs, g, k) + Len(b.code)
    <3>1. Start(bs, g, k + 1)
            = Start(bs, g, k) + (IF g[k] = "Visited" THEN Len(bs[k].code) ELSE 0)
      BY <1>1, StartIs
    <3> QED BY <1>3, <3>1 DEF b
  <2> QED BY <1>3, <1>10, <1>12, <2>1
<1>18. IsAt(all, b.code, Start(bs, g, k))
  BY <1>3, <1>10, <1>13, <1>16 DEF IsAt
<1>19. ASSUME NEW j \in 1 .. m, g[j] = "Visited" PROVE IsAt(all, bs[j].code, Start(bs, g, j))
  <2> DEFINE s == Start(bs, g, j)
             c == bs[j].code
  <2>1. \A a \in 1 .. Len(c) : s + a \in 1 .. Len(text) /\ IsMoved(c[a], text[s + a], s)
    BY <1>5, <1>19 DEF IsAt
  <2> HIDE DEF s, c
  <2>2. \A a \in 1 .. Len(c) : s + a \in 1 .. Len(all) /\ all[s + a] = text[s + a]
    BY <1>3, <1>13, <1>15, <2>1
  <2>3. \A a \in 1 .. Len(c) : s + a \in 1 .. Len(all) /\ IsMoved(c[a], all[s + a], s)
    BY <2>1, <2>2
  <2> QED BY <2>3 DEF IsAt, s, c
<1>20. \A j \in 1 .. k : g[j] = "Visited" => IsAt(all, bs[j].code, Start(bs, g, j))
  BY <1>2, <1>18, <1>19 DEF b
<1>21. Range(new.retained) = Range(out.retained) \cup {v}
  <2> DEFINE old == out.retained
  <2>1. new.retained = Append(old, v) /\ old \in Seq(Range(old))
    BY <1>7
  <2> HIDE DEF old
  <2>2. Range(new.retained) = Range(old) \cup {v}
    BY <2>1, AppendAny
  <2> QED BY <2>2 DEF old
<1>22. ASSUME NEW w \in Range(new.retained), w.scope = "BSS"
       PROVE  \E j \in 1 .. k : /\ g[j] = "Visited"
                                /\ w.id = bs[j].binding.id
                                /\ w.address = Start(bs, g, j)
  <2>1. CASE w = v
    BY <1>2, <1>3, <1>6, <2>1 DEF b
  <2>2. CASE w \in Range(out.retained)
    <3>1. PICK j \in 1 .. m : /\ g[j] = "Visited"
                              /\ w.id = bs[j].binding.id
                              /\ w.address = Start(bs, g, j)
      BY <1>22, <2>2 DEF IsPlacement
    <3> QED BY <1>2, <3>1
  <2> QED BY <1>21, <2>1, <2>2
<1>23. IsPlacement(bs, g, k, new)
  BY Zenon, <1>11, <1>12, <1>17, <1>20, <1>22 DEF IsPlacement, all
<1> QED BY <1>23 DEF k

PlacementInv ==
  /\ phase = "assemble" =>
       at - 1 \in 0 .. Len(blocks) /\ IsPlacement(blocks, callGraph, at - 1, output)
  /\ phase \in {"link", "image", "done"} =>
       IsPlacement(blocks, callGraph, Len(blocks), output) /\ functions = output.retained

LEMMA StartAssemblingPlaces ==
  ProgramInv /\ CodedInv /\ StartAssembling => PlacementInv'
<1> SUFFICES ASSUME ProgramInv, CodedInv, StartAssembling PROVE PlacementInv'
  OBVIOUS
<1>1. /\ phase = "mark" /\ phase' = "assemble" /\ at' = 1
      /\ UNCHANGED <<blocks, callGraph>>
      /\ output' = [output EXCEPT !.retained = OfScope(functions, "Extern")]
  BY DEF StartAssembling, GoTo
<1>2. LayoutInv /\ TableInv /\ BlocksInv /\ AssembleInv
  BY DEF ProgramInv, AssemblyInv, CallGraphInv
<1>3. MarkContext
  BY <1>1, <1>2, ContextIs
<1>4. output = NoOutput
  BY <1>1, <1>2 DEF AssembleInv
<1> DEFINE chosen == OfScope(functions, "Extern")
<1>5. output'.text = <<>> /\ output'.patches = <<>> /\ output'.retained = chosen
  BY <1>1, <1>4 DEF NoOutput
<1>6. functions \in Seq(Range(functions))
  <2>1. functions \in Seq(Bindings(unit))
    BY <1>3 DEF MarkContext, IsTable
  <2> QED BY <2>1, SequenceNarrows
<1>7. Range(chosen) = {f \in Range(functions) : f.scope = "Extern"}
  BY <1>6, OfScopeIs
<1> HIDE DEF chosen
<1>8. \A v \in Range(output'.retained) : v.scope = "Extern"
  BY <1>5, <1>7
<1> DEFINE out == output'
<1>9. IsPlacement(blocks, callGraph, 0, out)
  <2>1. out.text = <<>> /\ out.patches = <<>> /\ \A v \in Range(out.retained) : v.scope = "Extern"
    BY <1>5, <1>8
  <2>2. AreCoded(blocks)
    BY DEF CodedInv, AreCoded
  <2> HIDE DEF out
  <2> QED BY <2>1, <2>2, PlacementStarts
<1>10. at' - 1 = 0 /\ 0 \in 0 .. Len(blocks)
  <2>1. Len(blocks) \in Nat
    BY StartIs DEF CodedInv, AreCoded
  <2> QED BY <1>1, <2>1
<1> QED BY <1>1, <1>9, <1>10 DEF PlacementInv

LEMMA AssembleBlockPlaces ==
  ProgramInv /\ CodedInv /\ PlacementInv /\ AssembleBlock => PlacementInv'
<1> SUFFICES ASSUME ProgramInv, CodedInv, PlacementInv, AssembleBlock PROVE PlacementInv'
  OBVIOUS
<1> DEFINE m == at - 1
           b == blocks[at]
           base == Len(output.text)
<1>1. /\ phase = "assemble" /\ phase' = "assemble" /\ at' = at + 1 /\ at <= Len(blocks)
      /\ UNCHANGED <<blocks, callGraph>>
  BY DEF AssembleBlock, Item, Forward
<1>2. LayoutInv /\ TableInv /\ BlocksInv /\ AssembleInv
  BY DEF ProgramInv, AssemblyInv, CallGraphInv
<1>3. MarkContext
  BY <1>1, <1>2, ContextIs
<1>4. AreCoded(blocks) /\ Len(blocks) \in Nat
  BY StartIs DEF CodedInv, AreCoded
<1>5. m \in 0 .. Len(blocks) /\ IsPlacement(blocks, callGraph, m, output)
  BY <1>1 DEF PlacementInv
<1>6. at \in Nat
  BY <1>2 DEF LayoutInv, LayoutTypes
<1>7. m \in Nat /\ m + 1 = at /\ m + 1 <= Len(blocks) /\ at' - 1 = m + 1 /\ m + 1 \in 0 .. Len(blocks)
  BY <1>1, <1>4, <1>5, <1>6
<1>8. b.binding \in Bindings(unit)
  <2>1. AreBlocks(unit, functions, blocks, ScriptCount)
    BY <1>3 DEF MarkContext
  <2>2. at \in 1 .. ScriptCount
    BY <1>1, <1>4, <1>6, <1>7, <2>1 DEF AreBlocks
  <2>3. IsBlock(unit, functions, blocks[at], at)
    BY <2>1, <2>2 DEF AreBlocks
  <2> QED BY <2>3 DEF IsBlock
<1>9. output.retained \in Seq(Range(output.retained))
  BY <1>1, <1>2 DEF AssembleInv, IsOutput
<1> HIDE DEF m
<1>10. IsPlacement(blocks, callGraph, m + 1, output')
  <2>1. CASE callGraph[at] # "Visited"
    <3>1. output' = output
      BY <2>1 DEF AssembleBlock
    <3> QED BY <1>4, <1>5, <1>7, <2>1, <3>1, PlacementPasses
  <2>2. CASE callGraph[at] = "Visited"
    <3> DEFINE new == output'
    <3>1. /\ new.text = output.text \o Relocated(b, base)
          /\ new.patches = output.patches \o [i \in DOMAIN b.calls |->
                             [b.calls[i] EXCEPT !.pos = @ + base]]
          /\ new.retained = Append(output.retained, [b.binding EXCEPT !.address = base])
      BY <2>2 DEF AssembleBlock
    <3>2. base = Len(output.text)
      OBVIOUS
    <3>3. b = blocks[m + 1] /\ callGraph[m + 1] = "Visited"
      BY <1>7, <2>2
    <3> HIDE DEF new, b, base
    <3>4. /\ new.text = output.text \o Relocated(blocks[m + 1], base)
          /\ new.patches = output.patches \o [i \in DOMAIN blocks[m + 1].calls |->
                             [blocks[m + 1].calls[i] EXCEPT !.pos = @ + base]]
          /\ new.retained = Append(output.retained, [blocks[m + 1].binding EXCEPT !.address = base])
          /\ blocks[m + 1].binding \in Bindings(unit)
      BY <1>8, <3>1, <3>3
    <3>5. IsPlacement(blocks, callGraph, m + 1, new)
      BY <1>4, <1>5, <1>7, <1>9, <3>2, <3>3, <3>4, PlacementGrows
    <3> QED BY <3>5 DEF new
  <2> QED BY <2>1, <2>2
<1> QED BY <1>1, <1>7, <1>10 DEF PlacementInv

LEMMA FinishAssemblingPlaces ==
  ProgramInv /\ PlacementInv /\ FinishAssembling => PlacementInv'
<1> SUFFICES ASSUME ProgramInv, PlacementInv, FinishAssembling PROVE PlacementInv'
  OBVIOUS
<1>1. /\ phase = "assemble" /\ phase' = "link" /\ at > Len(blocks)
      /\ functions' = output.retained /\ UNCHANGED <<blocks, callGraph, output>>
  BY DEF FinishAssembling, GoTo, backend
<1>2. at - 1 \in 0 .. Len(blocks) /\ IsPlacement(blocks, callGraph, at - 1, output)
  BY <1>1 DEF PlacementInv
<1>3. at \in Nat
  BY DEF ProgramInv, AssemblyInv, CallGraphInv, LayoutInv, LayoutTypes
<1>4. Len(blocks) \in Nat
  <2>1. LayoutInv /\ TableInv /\ BlocksInv
    BY DEF ProgramInv, AssemblyInv, CallGraphInv
  <2>2. MarkContext
    BY <1>1, <2>1, ContextIs
  <2> QED BY <2>2 DEF MarkContext, AreBlocks
<1>5. at - 1 = Len(blocks)
  BY <1>1, <1>2, <1>3, <1>4
<1>6. IsPlacement(blocks, callGraph, Len(blocks), output)
  BY <1>2, <1>5
<1> QED BY <1>1, <1>6 DEF PlacementInv

LEMMA PlacementStep ==
  ProgramInv /\ CodedInv /\ PlacementInv /\ [Next]_vars => PlacementInv'
<1> SUFFICES ASSUME ProgramInv, CodedInv, PlacementInv, [Next]_vars PROVE PlacementInv'
  OBVIOUS
<1>1. CASE StartAssembling
  BY <1>1, StartAssemblingPlaces
<1>2. CASE AssembleBlock
  BY <1>2, AssembleBlockPlaces
<1>3. CASE FinishAssembling
  BY <1>3, FinishAssemblingPlaces
<1>4. CASE /\ phase \in {"link", "image", "done"} /\ phase' \in {"image", "done", "failed"}
           /\ UNCHANGED <<blocks, callGraph, output, functions>>
  BY <1>4 DEF PlacementInv
<1>5. CASE Link \/ BuildProgramImage
  <2>1. /\ phase \in {"link", "image", "done"} /\ phase' \in {"image", "done", "failed"}
        /\ UNCHANGED <<blocks, callGraph, output, functions>>
    BY <1>5 DEF Link, BuildProgramImage, Fail, GoTo, backend, table
  <2> QED BY <1>4, <2>1
<1>6. CASE UNCHANGED vars
  <2>1. UNCHANGED <<phase, at, blocks, callGraph, output, functions>>
    BY <1>6 DEF vars
  <2> QED BY <2>1 DEF PlacementInv
<1>7. CASE RegisterDecl \/ InitializeGlobal \/ RegisterFunction \/ CompileFunction
             \/ StartMarking \/ FollowCall \/ LeaveBlock \/ NextPhase
  <2>1. phase' \notin {"assemble", "link", "image", "done"}
    BY <1>7 DEF RegisterDecl, InitializeGlobal, RegisterFunction, CompileFunction, Item,
                Forward, Fail, StartMarking, FollowCall, LeaveBlock, NextPhase, GoTo
  <2> QED BY <2>1 DEF PlacementInv
<1> QED BY <1>1, <1>2, <1>3, <1>5, <1>6, <1>7 DEF Next, Compile

CodeInv == ProgramInv /\ CodedInv /\ PlacementInv

LEMMA CodeInductive ==
  /\ Init => CodeInv
  /\ CodeInv /\ [Next]_vars => CodeInv'
<1>1. Init => CodedInv
  BY EmptyRange DEF Init, CodedInv
<1>2. Init => PlacementInv
  BY DEF Init, PlacementInv
<1>3. ProgramInv => LayoutInv
  BY DEF ProgramInv, AssemblyInv, CallGraphInv
<1> QED BY <1>1, <1>2, <1>3, ProgramInductive, CodedStep, PlacementStep DEF CodeInv

-----------------------------------------------------------------------------
(***************************************************************************)
(* What the linker writes into the text.                                   *)
(***************************************************************************)

\* An instruction of a block that was kept, in the linked text: a call has
\* the value of a patch for the function it called, a jump has moved with
\* its block, the others are as they were.
IsLinked(old, new, start, patches, value) ==
  /\ old.op = "Call" => \E i \in DOMAIN patches :
                          patches[i].id = old.operand /\ new.operand = value[i]
  /\ old.op \in JumpOps => new.operand = old.operand + start
  /\ old.op \notin JumpOps \cup {"Call"} => new = old

LEMMA LinkedAt ==
  ASSUME NEW text, text \in Seq(Range(text)), NEW patches, CallsPatched(text, patches),
         NEW value, NEW code, NEW start, IsAt(text, code, start), NEW a \in 1 .. Len(code)
  PROVE  IsLinked(code[a], Patched(text, patches, value)[start + a], start, patches, value)
<1> DEFINE x == start + a
           old == code[a]
           mid == text[x]
           new == Patched(text, patches, value)[x]
<1>1. x \in 1 .. Len(text) /\ IsMoved(old, mid, start)
  BY DEF IsAt
<1>2. IsIns(mid) /\ mid.op = old.op
  BY <1>1 DEF IsMoved
<1>3. "Call" \notin JumpOps
  BY DEF JumpOps
<1>4. DOMAIN text = 1 .. Len(text) /\ Len(text) \in Nat
  OBVIOUS
<1>5. \/ new = mid /\ \A i \in DOMAIN patches : patches[i].pos # x + 1
      \/ \E i \in DOMAIN patches : /\ patches[i].pos = x + 1
                                   /\ IsIns(new) /\ new.op = mid.op /\ new.operand = value[i]
  <2> HIDE DEF x
  <2>1. x \in DOMAIN text /\ IsIns(text[x])
    BY <1>1, <1>2, <1>4
  <2> QED BY <2>1, PatchedAt
<1>6. /\ \A p \in Range(patches) : \E c \in 1 .. Len(text) :
           p.pos = c + 1 /\ text[c].op = "Call" /\ p.id = text[c].operand
      /\ \A c \in 1 .. Len(text) : text[c].op = "Call" => \E p \in Range(patches) : p.pos = c + 1
  BY DEF CallsPatched
<1> HIDE DEF x, old, mid, new
<1>7. CASE new = mid /\ \A i \in DOMAIN patches : patches[i].pos # x + 1
  <2>1. mid.op # "Call"
    <3>1. \A p \in Range(patches) : p.pos # x + 1
      BY <1>7 DEF Range
    <3> QED BY <1>1, <1>6, <3>1 DEF mid
  <2> QED BY <1>1, <1>2, <1>7, <2>1 DEF IsMoved, IsLinked, old, new, x
<1>8. ASSUME NEW i \in DOMAIN patches, patches[i].pos = x + 1, new.operand = value[i]
      PROVE  old.op = "Call" /\ patches[i].id = old.operand
  <2>1. patches[i] \in Range(patches)
    BY DEF Range
  <2>2. PICK c \in 1 .. Len(text) :
          patches[i].pos = c + 1 /\ text[c].op = "Call" /\ patches[i].id = text[c].operand
    BY <1>6, <2>1
  <2>3. c = x
    BY <1>1, <1>4, <1>8, <2>2
  <2>4. mid.op = "Call" /\ patches[i].id = mid.operand
    BY <2>2, <2>3 DEF mid
  <2>5. mid = old
    BY <1>1, <1>2, <1>3, <2>4 DEF IsMoved
  <2> QED BY <2>4, <2>5
<1>9. CASE \E i \in DOMAIN patches : /\ patches[i].pos = x + 1
                                     /\ IsIns(new) /\ new.op = mid.op /\ new.operand = value[i]
  <2>1. PICK i \in DOMAIN patches : patches[i].pos = x + 1 /\ new.operand = value[i]
    BY <1>9
  <2>2. old.op = "Call" /\ patches[i].id = old.operand
    BY <1>8, <2>1
  <2> QED BY <1>3, <2>1, <2>2 DEF IsLinked, old, new, x
<1> QED BY <1>5, <1>7, <1>9

\* The index the linker found for an ID is that of a function with this ID.
LEMMA LinkedIndexIs ==
  ASSUME functions \in Seq(Range(functions)), NEW id, LinkedIndex(id) # -1
  PROVE  /\ LinkedIndex(id) + 1 \in DOMAIN LocalFunctions
         /\ LocalFunctions[LinkedIndex(id) + 1].id = id
         /\ LocalFunctions[LinkedIndex(id) + 1] \in Range(functions)
         /\ LocalFunctions[LinkedIndex(id) + 1].scope = "BSS"
<1> DEFINE list == LocalFunctions
           chosen == CHOOSE i \in DOMAIN list : list[i].id = id
<1>1. list \in Seq(Range(list)) /\ Range(list) = {v \in Range(functions) : v.scope = "BSS"}
  BY OfScopeIs DEF LocalFunctions
<1>2. /\ \E i \in DOMAIN list : list[i].id = id
      /\ LinkedIndex(id) = chosen - 1
  BY DEF LinkedIndex
<1> HIDE DEF list
<1>3. chosen \in DOMAIN list /\ list[chosen].id = id
  BY <1>2
<1>4. chosen \in Nat /\ list[chosen] \in Range(list)
  <2>1. list[chosen] \in Range(list)
    BY <1>3 DEF Range
  <2> DEFINE S == Range(list)
  <2>2. list \in Seq(S)
    BY <1>1
  <2> HIDE DEF S, chosen
  <2> QED BY <1>3, <2>1, <2>2
<1> HIDE DEF chosen
<1>5. LinkedIndex(id) + 1 = chosen
  BY <1>2, <1>4
<1>6. list[chosen] \in Range(functions) /\ list[chosen].scope = "BSS"
  BY <1>1, <1>4
<1> QED BY <1>3, <1>5, <1>6 DEF list

\* What the linker emits for a program: every call goes to what it called.
LEMMA LinkedReaches == CodeInv => CallsReachTheirCallee
<1> SUFFICES ASSUME CodeInv, linked # NoLink PROVE CallsReachTheirCallee
  BY DEF CallsReachTheirCallee
<1> DEFINE n == Len(blocks)
           g == callGraph
           names == LiveNames
           live == {i \in DOMAIN blocks : blocks[i].binding.name \in names}
           code == LiveCode
           start(k) == Start(blocks, g, k)
           list == [i \in 1 .. n + 1 |-> Base(code, i)]
           base == list \o <<>>
           value == [i \in DOMAIN output.patches |-> LinkedIndex(output.patches[i].id)]
           text == Patched(output.text, output.patches, value)
<1>1. phase \in {"image", "done"} /\ linked = LinkedProgram /\ LinkError = "none"
  BY DEF CodeInv, ProgramInv, LinkedInv
<1>2. MarksExact(unit, blocks, g, names)
  BY <1>1 DEF CodeInv, ProgramInv, AssemblyInv, CallGraphInv, MarkedInv, Marked
<1>3. AreCoded(blocks)
  BY DEF CodeInv, CodedInv, AreCoded
<1>4. IsPlacement(blocks, g, n, output) /\ functions = output.retained
  BY <1>1 DEF CodeInv, PlacementInv
<1>5. IsAssembled(unit, functions, g, entryFunction, output)
  BY <1>1 DEF CodeInv, ProgramInv, AssemblyInv, AssembledInv
<1>6. functions \in Seq(Range(functions)) /\ output.patches \in Seq(Range(output.patches))
  BY <1>5 DEF IsAssembled
<1>7. \A i \in DOMAIN output.patches : LinkedIndex(output.patches[i].id) # -1
  <2>1. \A f \in Range(functions) : BindingError(f) = "none"
    BY <1>1, <1>6, BindingAllowed
  <2>2. {i \in DOMAIN functions : BindingError(functions[i]) # "none"} = {}
    BY <2>1 DEF Range
  <2>3. {i \in DOMAIN output.patches : LinkedIndex(output.patches[i].id) = -1} = {}
    BY <1>1, <2>2 DEF LinkError
  <2> QED BY <2>3
<1>8. /\ linked.text = text
      /\ \A i \in DOMAIN LocalFunctions :
           linked.functions[i].bodyAddress = LocalFunctions[i].address
  BY <1>1 DEF LinkedProgram
<1>9. /\ n \in Nat /\ DOMAIN blocks = 1 .. n
      /\ \A k \in 1 .. n : IsCoded(blocks[k])
      /\ start(1) = 0
      /\ \A k \in 1 .. n :
           /\ start(k) \in Nat
           /\ start(k + 1) = start(k) + (IF g[k] = "Visited" THEN Len(blocks[k].code) ELSE 0)
  BY <1>3, StartIs
<1>10. \A k \in 1 .. n : k \in live <=> g[k] = "Visited"
  BY <1>2, <1>9 DEF MarksExact
<1>11. code = LivePieces(blocks, g)
  BY <1>9, <1>10 DEF LiveCode, LivePieces
<1>12. \A k : Base(code, k) = start(k)
  BY <1>11 DEF Base, Start, FirstOf
<1>17. \A k \in 1 .. n + 1 : start(k) \in Nat
  <2>1. start(1) \in Nat
    <3>1. Start(blocks, g, 1) = 0
      BY ONLY <1>3, StartIs
    <3> QED BY ONLY <3>1 DEF start
  <2>2. \A j \in 1 .. n : start(j + 1) \in Nat
    <3>1. \A j \in 1 .. n : Len(blocks[j].code) \in Nat
      BY <1>9 DEF IsCoded
    <3> QED BY <1>9, <3>1
  <2>3. ASSUME NEW k \in 1 .. n + 1, k # 1 PROVE start(k) \in Nat
    <3> DEFINE j == k - 1
    <3>1. j \in 1 .. n /\ j + 1 = k
      BY <1>9, <2>3
    <3> HIDE DEF j
    <3> QED BY <2>2, <3>1
  <2> QED BY <2>1, <2>3
<1> HIDE DEF start, code
<1>13. /\ base = list /\ \A k \in 1 .. n + 1 : base[k] = start(k)
       /\ Len(blocks) + 1 = n + 1
  <2>2. \A k \in 1 .. n + 1 : list[k] = start(k)
    BY <1>12
  <2>3. list = [k \in 1 .. n + 1 |-> list[k]]
    OBVIOUS
  <2> HIDE DEF list
  <2>4. list \in Seq(Nat)
    BY <1>9, <1>17, <2>2, <2>3
  <2>5. list \o <<>> = list
    BY <2>4
  <2> QED BY <2>2, <2>5
<1>14. Len(linked.text) = base[n + 1]
  <2>1. output.text \in Seq(Range(output.text)) /\ Len(output.text) = start(n + 1)
    BY <1>4 DEF IsPlacement, start
  <2> DEFINE old == output.text
             patches == output.patches
  <2>2. old \in Seq(Range(old))
    BY <2>1
  <2> HIDE DEF value, old, patches
  <2>3. Len(Patched(old, patches, value)) = Len(old)
    BY <2>2, PatchedIs
  <2>4. n + 1 \in 1 .. n + 1
    BY <1>9
  <2>5. Len(linked.text) = start(n + 1)
    BY <1>8, <2>1, <2>3 DEF old, patches
  <2> HIDE DEF base, n
  <2> QED BY <1>13, <2>4, <2>5
<1>15. ASSUME NEW i \in live, NEW a \in DOMAIN blocks[i].code
       PROVE  LET old == blocks[i].code[a]
                  new == linked.text[base[i] + a]
              IN  CASE old.op = "Call" ->
                         \E j \in live :
                           /\ blocks[j].binding.id = old.operand
                           /\ linked.functions[new.operand + 1].bodyAddress = base[j]
                    [] old.op \in {"Jump", "JumpIfFalse"} ->
                         /\ new.operand \in base[i] .. base[i + 1] - 1
                         /\ new.operand - base[i] = old.operand
                    [] OTHER -> new = old
  <2> DEFINE old == blocks[i].code[a]
             new == linked.text[base[i] + a]
             s == start(i)
             size == Len(blocks[i].code)
             patches == output.patches
  <2>1. i \in 1 .. n /\ g[i] = "Visited" /\ i \in 1 .. n + 1 /\ i + 1 \in 1 .. n + 1
    BY <1>9, <1>10
  <2>2. IsCoded(blocks[i]) /\ size \in Nat /\ a \in 1 .. size
    BY <1>9, <2>1 DEF IsCoded
  <2>3. base[i] = s /\ base[i + 1] = s + size /\ s \in Nat
    <3>1. start(i + 1) = s + size /\ s \in Nat
      BY <1>9, <2>1
    <3> HIDE DEF base, s, size, n
    <3> QED BY <1>13, <2>1, <3>1 DEF s
  <2> HIDE DEF base, size, s
  <2>4. IsLinked(old, text[s + a], s, patches, value)
    <3>1. /\ output.text \in Seq(Range(output.text))
          /\ CallsPatched(output.text, patches)
          /\ IsAt(output.text, blocks[i].code, s)
      BY <1>4, <2>1 DEF IsPlacement, s, start
    <3>2. a \in 1 .. Len(blocks[i].code)
      BY <2>2 DEF size
    <3> DEFINE t == output.text
               c == blocks[i].code
    <3>3. /\ t \in Seq(Range(t)) /\ CallsPatched(t, patches) /\ IsAt(t, c, s) /\ a \in 1 .. Len(c)
      BY <3>1, <3>2
    <3> HIDE DEF t, c, value, patches
    <3>4. IsLinked(c[a], Patched(t, patches, value)[s + a], s, patches, value)
      BY <3>3, LinkedAt
    <3> QED BY <3>4 DEF t, c, patches
  <2>5. new = text[s + a]
    BY <1>8, <2>3
  <2> HIDE DEF text, new
  <2>6. IsLinked(old, new, s, patches, value)
    BY <2>4, <2>5
  <2>7. CASE old.op = "Call"
    <3>1. PICK p \in DOMAIN patches : patches[p].id = old.operand /\ new.operand = value[p]
      BY <2>6, <2>7 DEF IsLinked
    <3> DEFINE id == old.operand
               f == LocalFunctions[LinkedIndex(id) + 1]
    <3>2. new.operand = LinkedIndex(id) /\ LinkedIndex(id) # -1
      BY <1>7, <3>1
    <3>3. /\ LinkedIndex(id) + 1 \in DOMAIN LocalFunctions
          /\ f.id = id /\ f \in Range(functions) /\ f.scope = "BSS"
      <4> HIDE DEF id
      <4> QED BY <1>6, <3>2, LinkedIndexIs
    <3>4. linked.functions[new.operand + 1].bodyAddress = f.address
      BY <1>8, <3>2, <3>3
    <3>5. PICK j \in 1 .. n : g[j] = "Visited" /\ f.id = blocks[j].binding.id /\ f.address = start(j)
      BY <1>4, <3>3 DEF IsPlacement, start
    <3>6. j \in live /\ base[j] = start(j)
      <4>1. j \in 1 .. n + 1
        BY <1>9
      <4> HIDE DEF n, live
      <4> QED BY <1>10, <1>13, <3>5, <4>1
    <3>7. blocks[j].binding.id = old.operand
      BY <3>3, <3>5
    <3>8. linked.functions[new.operand + 1].bodyAddress = base[j]
      BY <3>4, <3>5, <3>6
    <3> HIDE DEF live, f, id
    <3> QED BY <2>7, <3>6, <3>7, <3>8 DEF new
  <2>8. CASE old.op \in JumpOps
    <3>1. new.operand = old.operand + s
      BY <2>6, <2>8 DEF IsLinked
    <3>2. old.operand \in 0 .. size - 1
      BY <2>2, <2>8 DEF IsCoded, JumpsPatched, size
    <3> DEFINE x == old.operand
               y == new.operand
    <3>3. y = x + s /\ x \in 0 .. size - 1
      BY <3>1, <3>2
    <3> HIDE DEF x, y
    <3>4. y \in s .. s + size - 1 /\ y - s = x
      BY <2>2, <2>3, <3>3
    <3>5. old.op # "Call" /\ old.op \in {"Jump", "JumpIfFalse"}
      BY <2>8 DEF JumpOps
    <3>6. y \in base[i] .. base[i + 1] - 1 /\ y - base[i] = x
      <4> DEFINE lo == base[i]
                 hi == base[i + 1]
      <4>1. lo = s /\ hi = s + size
        BY <2>3
      <4> HIDE DEF lo, hi
      <4>2. y \in lo .. hi - 1 /\ y - lo = x
        BY <2>2, <2>3, <3>4, <4>1
      <4> QED BY <4>2 DEF lo, hi
    <3> HIDE DEF live
    <3> QED BY <3>5, <3>6 DEF x, y, new
  <2>9. CASE old.op \notin JumpOps \cup {"Call"}
    <3>1. new = old
      BY <2>6, <2>9 DEF IsLinked
    <3>2. old.op # "Call" /\ old.op \notin {"Jump", "JumpIfFalse"}
      BY <2>9 DEF JumpOps
    <3> HIDE DEF live
    <3> QED BY <3>1, <3>2 DEF new
  <2> HIDE DEF live
  <2> QED BY Zenon, <2>7, <2>8, <2>9
<1>16. \A i \in live : \A a \in DOMAIN blocks[i].code :
         LET old == blocks[i].code[a]
             new == linked.text[base[i] + a]
         IN  CASE old.op = "Call" ->
                    \E j \in live :
                      /\ blocks[j].binding.id = old.operand
                      /\ linked.functions[new.operand + 1].bodyAddress = base[j]
               [] old.op \in {"Jump", "JumpIfFalse"} ->
                    /\ new.operand \in base[i] .. base[i + 1] - 1
                    /\ new.operand - base[i] = old.operand
               [] OTHER -> new = old
  <2> HIDE DEF base, live
  <2> QED BY <1>15
<1> QED BY Zenon, <1>14, <1>16 DEF CallsReachTheirCallee, code

\* In the linked text of every program a call names the table entry of the
\* function its source called, whose body is that function's code; a jump
\* stays in its own block; nothing else of the code has changed
\* (assembleFunctionBlocks, Linker.Link).
THEOREM CallsAreResolved == Spec => []CallsReachTheirCallee
BY CodeInductive, LinkedReaches, PTL DEF Spec

-----------------------------------------------------------------------------
(***************************************************************************)
(* Digits: what Encode takes apart Decode puts together.                   *)
(***************************************************************************)

\* One digit more.
LEMMA NextDigit ==
  ASSUME NEW v \in Nat, NEW m \in Nat \ {0}, NEW b \in Nat \ {0}
  PROVE  v % (m * b) = (v % m) + ((v \div m) % b) * m
<1> DEFINE q == v \div m
           r == v % m
           q2 == q \div b
           r2 == q % b
           s == r + r2 * m
<1>1. q \in Nat /\ r \in 0 .. m - 1 /\ v = m * q + r
  BY SMTT(20)
<1> HIDE DEF q, r
<1>2. q2 \in Nat /\ r2 \in 0 .. b - 1 /\ q = b * q2 + r2
  BY SMTT(20), <1>1
<1> HIDE DEF q2, r2
<1>3. r2 * m \in Nat /\ m * b \in Nat \ {0} /\ s \in Nat
  BY <1>1, <1>2, ProductNatural, ProductPositive
<1>4. s <= m * b - 1
  <2> DEFINE e == b - 1 - r2
  <2>1. e \in Nat /\ b = e + 1 + r2
    BY <1>2
  <2> HIDE DEF e
  <2>2. m * b = m * e + m + r2 * m
    BY <1>2, <2>1
  <2>3. m * e \in Nat
    BY <2>1, ProductNatural
  <2> QED BY <1>1, <1>2, <1>3, <2>2, <2>3
<1>5. v = (m * b) * q2 + s
  <2>1. m * q = m * (b * q2) + m * r2
    BY <1>2, ProductNatural
  <2>2. m * (b * q2) = (m * b) * q2
    BY <1>2
  <2>3. m * r2 = r2 * m
    BY <1>2
  <2>4. (m * b) * q2 \in Nat
    BY <1>2, <1>3, ProductNatural
  <2> QED BY <1>1, <1>3, <2>1, <2>2, <2>3, <2>4
<1>6. ((m * b) * q2 + s) % (m * b) = s
  <2> DEFINE n == m * b
  <2>1. n \in Nat \ {0} /\ q2 \in Nat /\ s \in 0 .. n - 1
    BY <1>2, <1>3, <1>4
  <2> HIDE DEF n, s
  <2>2. (n * q2 + s) % n = s
    BY <2>1, DivisionUnique
  <2> QED BY <2>2 DEF n
<1> QED BY <1>5, <1>6 DEF q, r, q2, r2


\* What is encoded and decoded keeps its lowest bits.
LEMMA DecodeEncode ==
  ASSUME NEW v \in Nat, NEW n \in {1, 2, 4, 8}
  PROVE  Decode(Encode(v, n)) = v % Modulus(n)
<1> DEFINE digit(i) == (v \div Place(i)) % ByteBase
           part(i) == digit(i) * Place(i)
           bytes == Encode(v, n)
<1>1. ByteBase \in Nat \ {0}
  BY ByteAssumption
<1>2. \A i \in 1 .. 8 : v % (Place(i) * ByteBase) = (v % Place(i)) + part(i)
  BY <1>1, PlaceType, NextDigit
<1>3. Len(bytes) = n /\ \A i \in 1 .. n : bytes[i] * Place(i) = part(i)
  BY DEF Encode
<1>4. \A i \in 1 .. 7 : Place(i) * ByteBase = Place(i + 1)
  BY <1>1 DEF Place, Base2, Base3, Base4, Base5, Base6, Base7
<1>5. v % Place(1) = 0 /\ Place(1) * ByteBase = ByteBase
  BY <1>1 DEF Place
<1>6. /\ Place(2) = ByteBase /\ Place(3) = Base2 /\ Place(4) = Base3
      /\ Place(5) = Base4 /\ Place(8) = Base7
  BY DEF Place
<1>7. \A i \in 1 .. 7 : v % Place(i + 1) = (v % Place(i)) + part(i)
  BY <1>2, <1>4
<1>8. \A i \in 1 .. 8 : part(i) \in Int /\ v % Place(i) \in Int
  BY <1>1, PlaceType
<1> HIDE DEF part, bytes
<1>9. CASE n = 1
  <2>1. Decode(bytes) = part(1) /\ Modulus(n) = Place(2)
    BY <1>3, <1>6, <1>9 DEF Decode, Modulus
  <2>2. v % Place(2) = part(1)
    BY <1>5, <1>7, <1>8
  <2> QED BY <2>1, <2>2 DEF bytes
<1>10. CASE n = 2
  <2>1. Decode(bytes) = part(1) + part(2) /\ Modulus(n) = Place(3)
    BY <1>3, <1>6, <1>10 DEF Decode, Modulus
  <2>2. v % Place(3) = part(1) + part(2)
    BY <1>5, <1>7, <1>8
  <2> QED BY <2>1, <2>2 DEF bytes
<1>11. CASE n = 4
  <2>1. Decode(bytes) = part(1) + part(2) + part(3) + part(4) /\ Modulus(n) = Place(5)
    BY <1>3, <1>6, <1>11 DEF Decode, Modulus
  <2>2. v % Place(5) = part(1) + part(2) + part(3) + part(4)
    BY <1>5, <1>7, <1>8
  <2> QED BY <2>1, <2>2 DEF bytes
<1>12. CASE n = 8
  <2>1. /\ Decode(bytes) = part(1) + part(2) + part(3) + part(4)
                             + part(5) + part(6) + part(7) + part(8)
        /\ Modulus(n) = Place(8) * ByteBase
    BY <1>3, <1>6, <1>12 DEF Decode, Modulus
  <2>2. v % Place(5) = part(1) + part(2) + part(3) + part(4)
    BY <1>5, <1>7, <1>8
  <2>3. v % Place(8) = (v % Place(5)) + part(5) + part(6) + part(7)
    BY <1>7, <1>8
  <2>4. v % (Place(8) * ByteBase) = (v % Place(8)) + part(8)
    BY <1>2
  <2> QED BY <1>8, <2>1, <2>2, <2>3, <2>4 DEF bytes
<1> QED BY <1>9, <1>10, <1>11, <1>12

\* An address keeps segment and index when it is written and read back.
LEMMA AddressSurvives ==
  ASSUME ByteBase > segmentConst, NEW index \in Nat, index < Base3
  PROVE  LET bits == Decode(Encode(makeAddress(segmentConst, index), 4))
         IN  AddressSegment(bits) = segmentConst /\ AddressIndex(bits) = index
<1> DEFINE address == makeAddress(segmentConst, index)
<1>1. Base3 \in Nat \ {0} /\ ByteBase \in Nat \ {0}
  BY PlaceType, ByteAssumption DEF Place
<1>2. index % Base3 = index
  BY <1>1
<1>3. address = Base3 * 4 + index /\ address \in Nat
  BY <1>1, <1>2 DEF makeAddress, segmentConst
<1>4. address % Base3 = index /\ address \div Base3 = 4
  <2> DEFINE n == Base3
  <2>1. n \in Nat \ {0} /\ index \in 0 .. n - 1
    BY <1>1
  <2> HIDE DEF n
  <2>2. (n * 4 + index) % n = index /\ (n * 4 + index) \div n = 4
    BY <2>1, DivisionUnique
  <2> QED BY <1>3, <2>2 DEF n
<1>5. address % Base4 = address
  <2> DEFINE q == 4
  <2>1. Base4 \in Nat \ {0} /\ Base4 = Base3 * ByteBase
    BY PlaceType DEF Place, Base4
  <2>2. address < Base4
    <3> DEFINE d == ByteBase - 5
    <3>1. d \in Nat /\ ByteBase = d + 5
      BY <1>1 DEF segmentConst
    <3> HIDE DEF d, address
    <3>2. Base4 = Base3 * d + Base3 * 5
      BY <1>1, <2>1, <3>1
    <3>3. Base3 * d \in Nat
      BY <1>1, <3>1, ProductNatural
    <3> HIDE DEF Base3, Base4
    <3> QED BY <1>1, <1>3, <3>2, <3>3
  <2> HIDE DEF address
  <2> QED BY <1>3, <2>1, <2>2
<1> HIDE DEF address
<1>6. Decode(Encode(address, 4)) = address
  <2>1. Modulus(4) = Base4
    BY DEF Modulus
  <2> QED BY <1>3, <1>5, <2>1, DecodeEncode
<1> QED BY <1>4, <1>6 DEF address, AddressSegment, AddressIndex, segmentConst


-----------------------------------------------------------------------------
(***************************************************************************)
(* A value in an image: what disturbs it and what does not.                *)
(***************************************************************************)

\* The variable d of the list has these bits in the image.
Stored(list, image, d, bits) ==
  \A j \in DOMAIN list : list[j].name = d.name =>
    \A k \in 1 .. Size(d.kind) : image[list[j].offset + k] = Encode(bits, Size(d.kind))[k]

\* The list has d, if at all, with its kind.
OfItsKind(list, d) == \A j \in DOMAIN list : list[j].name = d.name => list[j].kind = d.kind

\* Where the bytes of a variable are.
LEMMA ValuePlace ==
  ASSUME NEW u, NEW list \in Seq(Symbols(u)), NEW size \in Nat, Laid(list, size),
         NEW j \in DOMAIN list, NEW k \in 1 .. Size(list[j].kind)
  PROVE  list[j].offset \in Nat /\ list[j].offset + k \in 1 .. size
<1>1. list[j].offset \in Nat /\ Size(list[j].kind) \in Nat
  <2>1. list[j] \in Symbols(u)
    OBVIOUS
  <2> QED BY <2>1, SymbolType
<1>2. list[j].offset + Size(list[j].kind) <= size
  BY DEF Laid
<1> DEFINE o == list[j].offset
           n == Size(list[j].kind)
<1>3. k \in 1 .. n /\ o \in Nat /\ n \in Nat /\ o + n <= size
  BY <1>1, <1>2
<1> HIDE DEF o, n
<1>4. o + k \in 1 .. size
  BY <1>3
<1> QED BY <1>1, <1>4 DEF o

\* An image that grows behind its end.
LEMMA StoredGrows ==
  ASSUME NEW u, NEW list \in Seq(Symbols(u)), NEW image, NEW new, Len(image) \in Nat,
         Laid(list, Len(image)), \A k \in 1 .. Len(image) : new[k] = image[k],
         NEW d, OfItsKind(list, d), NEW bits, Stored(list, image, d, bits)
  PROVE  Stored(list, new, d, bits)
<1> SUFFICES ASSUME NEW j \in DOMAIN list, list[j].name = d.name,
                    NEW k \in 1 .. Size(d.kind)
             PROVE  new[list[j].offset + k] = Encode(bits, Size(d.kind))[k]
  BY DEF Stored
<1>1. list[j].kind = d.kind
  BY DEF OfItsKind
<1>2. list[j].offset + k \in 1 .. Len(image)
  BY <1>1, ValuePlace
<1>3. image[list[j].offset + k] = Encode(bits, Size(d.kind))[k]
  BY DEF Stored
<1> QED BY <1>2, <1>3

\* Another variable is registered.
LEMMA StoredAppended ==
  ASSUME NEW u, NEW list \in Seq(Symbols(u)), NEW v \in Symbols(u), NEW image,
         NEW d, v.name # d.name, NEW bits, Stored(list, image, d, bits)
  PROVE  Stored(Append(list, v), image, d, bits) /\ (OfItsKind(list, d) => OfItsKind(Append(list, v), d))
<1> DEFINE new == Append(list, v)
<1>1. \A j \in DOMAIN new : (j \in DOMAIN list /\ new[j] = list[j]) \/ new[j] = v
  OBVIOUS
<1> HIDE DEF new
<1>2. \A j \in DOMAIN new : new[j].name = d.name => j \in DOMAIN list /\ new[j] = list[j]
  BY <1>1
<1>3. Stored(new, image, d, bits)
  BY <1>2 DEF Stored
<1>4. OfItsKind(list, d) => OfItsKind(new, d)
  BY <1>2 DEF OfItsKind
<1> QED BY <1>3, <1>4 DEF new

\* Zero, until something is written.
LEMMA EncodeZero ==
  ASSUME NEW n \in {0, 1, 2, 4, 8}, NEW k \in 1 .. n
  PROVE  Encode(0, n)[k] = 0
<1>1. k \in 1 .. 8 /\ ByteBase \in Nat \ {0}
  BY ByteAssumption
<1>2. Place(k) \in Nat \ {0}
  BY <1>1, PlaceType
<1>3. (0 \div Place(k)) % ByteBase = 0
  <2> DEFINE p == Place(k)
  <2>1. p \in Nat \ {0}
    BY <1>2
  <2> HIDE DEF p
  <2>2. 0 \div p = 0
    BY <2>1
  <2>3. 0 % ByteBase = 0
    BY <1>1
  <2> QED BY <2>2, <2>3 DEF p
<1> QED BY <1>3 DEF Encode

LEMMA StoredFresh ==
  ASSUME NEW u, NEW list \in Seq(Symbols(u)), NEW v \in Symbols(u), NEW image,
         \A k \in 1 .. Size(v.kind) : image[v.offset + k] = 0,
         NEW d, d.name = v.name, d.kind = v.kind, \A j \in DOMAIN list : list[j].name # v.name
  PROVE  Stored(Append(list, v), image, d, 0)
<1> DEFINE new == Append(list, v)
<1>1. \A j \in DOMAIN new : (j \in DOMAIN list /\ new[j] = list[j]) \/ new[j] = v
  OBVIOUS
<1> HIDE DEF new
<1>2. \A j \in DOMAIN new : new[j].name = d.name => new[j] = v
  BY <1>1
<1>3. \A k \in 1 .. Size(d.kind) : Encode(0, Size(d.kind))[k] = 0
  BY SizeType, EncodeZero
<1> QED BY <1>2, <1>3 DEF Stored, new

\* What a write changes.
LEMMA WrittenIs ==
  ASSUME NEW image \in Seq(Byte), NEW o \in Nat, NEW bytes \in Seq(Byte),
         o + Len(bytes) <= Len(image)
  PROVE  /\ \A k \in 1 .. Len(bytes) : WriteBytes(image, o, bytes)[o + k] = bytes[k]
         /\ \A k \in 1 .. Len(image) :
              k \notin o + 1 .. o + Len(bytes) => WriteBytes(image, o, bytes)[k] = image[k]
<1> DEFINE new == WriteBytes(image, o, bytes)
           n == Len(bytes)
<1>1. new = [k \in 1 .. Len(image) |->
               IF k \in o + 1 .. o + n THEN bytes[k - o] ELSE image[k]]
  BY DEF WriteBytes
<1>2. n \in Nat /\ Len(image) \in Nat /\ o + n <= Len(image)
  OBVIOUS
<1> HIDE DEF new, n
<1>3. ASSUME NEW k \in 1 .. n PROVE new[o + k] = bytes[k]
  <2>1. o + k \in 1 .. Len(image) /\ o + k \in o + 1 .. o + n /\ o + k - o = k
    BY <1>2
  <2> QED BY <1>1, <2>1
<1>4. \A k \in 1 .. Len(image) : k \notin o + 1 .. o + n => new[k] = image[k]
  BY <1>1
<1> QED BY <1>3, <1>4 DEF new, n

\* The variable written.
LEMMA StoredWritten ==
  ASSUME NEW u, NEW list \in Seq(Symbols(u)), NEW image \in Seq(Byte),
         Laid(list, Len(image)), DistinctNames(list), NEW i \in DOMAIN list,
         NEW d, list[i].name = d.name, list[i].kind = d.kind,
         NEW bits \in Int
  PROVE  Stored(list, WriteBytes(image, list[i].offset, Encode(bits, Size(d.kind))), d, bits)
<1> DEFINE bytes == Encode(bits, Size(d.kind))
           o == list[i].offset
<1>1. bytes \in Seq(Byte) /\ Len(bytes) = Size(d.kind)
  <2>1. Size(d.kind) \in 0 .. 8
    BY SizeType
  <2> QED BY <2>1, EncodeType
<1>2. o \in Nat
  <2>1. list[i] \in Symbols(u)
    OBVIOUS
  <2> QED BY <2>1, SymbolType
<1>3. o + Size(d.kind) <= Len(image)
  BY DEF Laid
<1>4. \A j \in DOMAIN list : list[j].name = d.name => j = i
  BY DEF DistinctNames
<1> HIDE DEF bytes, o
<1>5. \A k \in 1 .. Len(bytes) : WriteBytes(image, o, bytes)[o + k] = bytes[k]
  BY <1>1, <1>2, <1>3, WrittenIs
<1> QED BY <1>1, <1>4, <1>5 DEF Stored, bytes, o

\* Another variable is written.
LEMMA StoredBeside ==
  ASSUME NEW u, NEW list \in Seq(Symbols(u)), NEW image \in Seq(Byte),
         Laid(list, Len(image)), NEW i \in DOMAIN list,
         NEW bytes \in Seq(Byte), Len(bytes) = Size(list[i].kind),
         NEW d, list[i].name # d.name, OfItsKind(list, d),
         NEW bits, Stored(list, image, d, bits)
  PROVE  Stored(list, WriteBytes(image, list[i].offset, bytes), d, bits)
<1> DEFINE o == list[i].offset
           new == WriteBytes(image, o, bytes)
<1> SUFFICES ASSUME NEW j \in DOMAIN list, list[j].name = d.name,
                    NEW k \in 1 .. Size(d.kind)
             PROVE  new[list[j].offset + k] = Encode(bits, Size(d.kind))[k]
  BY DEF Stored
<1> DEFINE a == list[j].offset + k
<1>1. list[j].kind = d.kind /\ j # i
  BY DEF OfItsKind
<1>2. list[j].offset \in Nat /\ a \in 1 .. Len(image)
  BY <1>1, ValuePlace
<1>3. o \in Nat /\ o + Len(bytes) <= Len(image)
  <2>1. list[i] \in Symbols(u)
    OBVIOUS
  <2>2. o \in Nat
    BY <2>1, SymbolType
  <2> QED BY <2>2 DEF Laid
<1>4. ~Overlap(list[j].offset, Size(d.kind), o, Len(bytes))
  BY <1>1 DEF Laid
<1>5. a \notin o + 1 .. o + Len(bytes)
  <2> DEFINE b == list[j].offset
             m == Size(d.kind)
             n == Len(bytes)
  <2>1. b \in Nat /\ m \in Nat /\ n \in Nat /\ k \in 1 .. m /\ a = b + k
    <3>1. b \in Nat /\ k \in 1 .. m /\ a = b + k
      BY <1>2
    <3>2. m \in Nat /\ n \in Nat
      BY SizeType
    <3> QED BY Zenon, <3>1, <3>2
  <2>3. ~(b < o + n /\ o < b + m)
    BY Zenon, <1>4 DEF Overlap
  <2> HIDE DEF a, b, m, n, o
  <2>2. a \notin o + 1 .. o + n
    BY <1>3, <2>1, <2>3
  <2> QED BY <2>2 DEF n
<1> HIDE DEF o
<1>6. new[a] = image[a]
  BY <1>2, <1>3, <1>5, WrittenIs
<1>7. image[a] = Encode(bits, Size(d.kind))[k]
  BY DEF Stored
<1> QED BY <1>6, <1>7


-----------------------------------------------------------------------------
(***************************************************************************)
(* The invariant: each variable has its initial value from the step that   *)
(* writes it, and zero before.                                             *)
(***************************************************************************)
ImageScopes == {"Data", "Const"}
ImageOf(scope) == IF scope = "Const" THEN constImage ELSE dataImage

\* The bits an initializer stands for: an address for a string.
InitialBits(d, offsets) ==
  CASE d.init = "string" -> makeAddress(segmentConst, offsets[d.value])
    [] d.init = "number" -> d.value
    [] OTHER -> 0

\* Declaration i is of a variable with an image, and was registered.
IsStored(i) ==
  /\ unit.decls[i].declares = "variable"
  /\ unit.decls[i].scope \in ImageScopes
  /\ phase = "declare" => i < at

\* InitializeGlobal has written its initializer.
IsInitialized(i) ==
  /\ phase # "declare"
  /\ phase = "initialize" => i < at
  /\ unit.decls[i].init # "none"

\* What it has written, of a declaration d.
IsWritten(d, offsets) ==
  /\ d.init \in {"number", "string"}
  /\ d.init = "string" => d.kind = "Address" /\ d.value \in DOMAIN offsets

DistinctDeclarations ==
  \A i, j \in DOMAIN unit.decls :
    IsStored(i) /\ IsStored(j) /\ unit.decls[i].name = unit.decls[j].name => i = j

HasValue(i) ==
  LET d == unit.decls[i]
  IN  /\ IsInitialized(i) => IsWritten(d, literals)
      /\ Stored(symbols[d.scope], ImageOf(d.scope), d,
                IF IsInitialized(i) THEN InitialBits(d, literals) ELSE 0)

ImageInv ==
  phase # "failed" =>
    DistinctDeclarations /\ \A i \in DOMAIN unit.decls : IsStored(i) => HasValue(i)

LEMMA ImageInit == Init => ImageInv
<1> SUFFICES ASSUME Init PROVE ImageInv
  OBVIOUS
<1>1. unit \in Units /\ phase = "declare" /\ at = 1
  BY DEF Init
<1>2. \A i \in DOMAIN unit.decls : ~IsStored(i)
  BY <1>1, UnitType DEF IsStored
<1> QED BY <1>2 DEF ImageInv, DistinctDeclarations

\* A step that writes nothing.
LEMMA ImageKept ==
  ASSUME ImageInv,
         phase' # "failed" =>
           /\ phase # "failed"
           /\ UNCHANGED <<unit, symbols, dataImage, constImage, literals>>
           /\ \A i \in DOMAIN unit.decls :
                IsStored(i)' => IsStored(i) /\ (IsInitialized(i)' <=> IsInitialized(i))
  PROVE  ImageInv'
<1> SUFFICES ASSUME phase' # "failed"
             PROVE  (DistinctDeclarations /\ \A i \in DOMAIN unit.decls : IsStored(i) => HasValue(i))'
  BY DEF ImageInv
<1>1. DistinctDeclarations /\ \A i \in DOMAIN unit.decls : IsStored(i) => HasValue(i)
  BY DEF ImageInv
<1>2. DistinctDeclarations'
  BY <1>1 DEF DistinctDeclarations
<1>3. ASSUME NEW i \in DOMAIN unit.decls, IsStored(i)' PROVE HasValue(i)'
  <2>1. IsStored(i) /\ (IsInitialized(i)' <=> IsInitialized(i)) /\ HasValue(i)
    BY <1>1, <1>3
  <2> QED BY <2>1 DEF HasValue, ImageOf
<1> QED BY <1>2, <1>3

\* The variables of a scope have the kinds of their declarations.
LEMMA KindsAgree ==
  ASSUME LayoutInv, phase # "failed", NEW i \in DOMAIN unit.decls, IsStored(i)
  PROVE  LET d == unit.decls[i]
         IN  IsIn(symbols, d) /\ OfItsKind(symbols[d.scope], d)
<1> DEFINE d == unit.decls[i]
<1>1. IsIn(symbols, d) /\ d.scope \in VariableScopes
  BY DEF LayoutInv, VariablesRegistered, IsStored, ImageScopes, VariableScopes
<1>2. DistinctNames(symbols[d.scope])
  BY <1>1 DEF LayoutInv, DistinctVariables
<1> HIDE DEF d
<1>3. OfItsKind(symbols[d.scope], d)
  BY <1>1, <1>2 DEF IsIn, OfItsKind, DistinctNames
<1> QED BY <1>1, <1>3 DEF d


-----------------------------------------------------------------------------
(***************************************************************************)
(* Each action keeps it.                                                   *)
(***************************************************************************)

\* Declaring a variable reserves zeros for it and moves nothing.
LEMMA DeclareVariableImages ==
  ASSUME LayoutInv, ImageInv, phase = "declare", at \in DOMAIN unit.decls,
         NEW d, d = unit.decls[at], IsDeclaration(d), d.declares = "variable",
         ~NameTaken(d.name), DeclareVariable(d), Forward, UNCHANGED <<unit, literals>>
  PROVE  ImageInv'
<1> DEFINE offset == VariableOffset(d)
           end == offset + Size(d.kind)
           v == [name |-> d.name, kind |-> d.kind, offset |-> offset]
           list(s) == symbols[s]
<1>1. /\ phase' = "declare" /\ at' = at + 1 /\ at \in Nat \ {0}
      /\ d.scope \in VariableScopes /\ d.kind \in SourceKinds /\ d.name \in DeclaredNames(unit)
  BY DEF Forward, IsDeclaration, LayoutInv, LayoutTypes, DeclaredNames
<1>2. /\ bssByteSize \in Nat
      /\ dataImage \in Seq(Byte) /\ Len(dataImage) \in Nat
      /\ constImage \in Seq(Byte) /\ Len(constImage) \in Nat
      /\ Laid(symbols["Data"], Len(dataImage)) /\ Laid(symbols["Const"], Len(constImage))
      /\ \A s \in VariableScopes : symbols[s] \in Seq(Symbols(unit))
      /\ symbols \in [VariableScopes -> Seq(Symbols(unit))]
  BY DEF LayoutInv, LayoutTypes, Placed
<1>3. /\ symbols' = [symbols EXCEPT ![d.scope] = Append(@, v)]
      /\ dataImage' = IF d.scope = "Data" THEN Padded(dataImage, end) ELSE dataImage
      /\ constImage' = IF d.scope = "Const" THEN Padded(constImage, end) ELSE constImage
  BY DEF DeclareVariable
<1>4. /\ offset \in Nat
      /\ d.scope = "Data" => Len(dataImage) <= offset
      /\ d.scope = "Const" => Len(constImage) <= offset
  <2>1. CASE d.scope = "Extern"
    BY <2>1 DEF VariableOffset, IsDeclaration
  <2>2. CASE d.scope = "BSS"
    <3>1. offset = alignUp(bssByteSize, Alignment(d.kind))
      BY <2>2 DEF VariableOffset
    <3> QED BY <1>2, <2>2, <3>1, AlignUpIs, AlignmentType
  <2>3. CASE d.scope = "Data"
    <3>1. offset = alignUp(Len(dataImage), Alignment(d.kind))
      BY <2>3 DEF VariableOffset
    <3> QED BY <1>2, <2>3, <3>1, AlignUpIs, AlignmentType
  <2>4. CASE d.scope = "Const"
    <3>1. offset = alignUp(Len(constImage), Alignment(d.kind))
      BY <2>4 DEF VariableOffset
    <3> QED BY <1>2, <2>4, <3>1, AlignUpIs, AlignmentType
  <2> QED BY <1>1, <2>1, <2>2, <2>3, <2>4 DEF VariableScopes
<1> HIDE DEF offset
<1>5. v \in Symbols(unit) /\ v.name = d.name /\ v.kind = d.kind /\ v.offset = offset
  <2>1. v \in [name : DeclaredNames(unit), kind : SourceKinds, offset : Nat]
    BY <1>1, <1>4
  <2> QED BY <2>1 DEF Symbols
<1> HIDE DEF v
<1>6. end \in Nat /\ Size(d.kind) \in Nat /\ offset <= end
  BY <1>4, SizeType
<1>7. /\ symbols'[d.scope] = Append(symbols[d.scope], v)
      /\ \A s \in VariableScopes : s # d.scope => symbols'[s] = symbols[s]
  BY <1>1, <1>2, <1>3
<1>8. \A s \in VariableScopes : \A j \in DOMAIN symbols[s] : symbols[s][j].name # d.name
  <2>1. \A s \in VariableScopes : \A j \in DOMAIN symbols[s] : symbols[s][j] \in Variables
    BY DEF Variables
  <2> QED BY <2>1 DEF NameTaken
\* What was in an image stays, and the new variable's bytes are zero.
<1>9. ASSUME NEW s \in ImageScopes
      PROVE  /\ \A k \in 1 .. Len(ImageOf(s)) : ImageOf(s)'[k] = ImageOf(s)[k]
             /\ s = d.scope => \A k \in 1 .. Size(d.kind) : ImageOf(s)'[offset + k] = 0
  <2>1. ImageOf(s) \in Seq(Byte) /\ Len(ImageOf(s)) \in Nat
    BY <1>2 DEF ImageOf
  <2>2. CASE s # d.scope
    <3>1. ImageOf(s)' = ImageOf(s)
      BY <1>3, <1>9, <2>2 DEF ImageOf, ImageScopes
    <3> QED BY <2>2, <3>1
  <2>3. CASE s = d.scope
    <3> DEFINE image == ImageOf(s)
    <3>1. ImageOf(s)' = Padded(image, end) /\ Len(image) <= offset
      BY <1>3, <1>4, <1>9, <2>3 DEF ImageOf, ImageScopes
    <3>2. image \in Seq(Byte) /\ Len(image) <= end /\ Len(image) \in Nat
      BY <1>4, <1>6, <2>1, <3>1
    <3> HIDE DEF image, end
    <3>3. /\ \A k \in 1 .. Len(image) : Padded(image, end)[k] = image[k]
          /\ \A k \in Len(image) + 1 .. end : Padded(image, end)[k] = 0
      BY <1>6, <3>2, PaddedIs
    <3>4. \A k \in 1 .. Size(d.kind) : offset + k \in Len(image) + 1 .. end
      <4> DEFINE m == Len(image)
                 n == Size(d.kind)
      <4>1. m \in Nat /\ n \in Nat /\ m <= offset /\ end = offset + n
        BY <1>6, <3>1, <3>2 DEF end
      <4> HIDE DEF m, n
      <4>2. \A k \in 1 .. n : offset + k \in m + 1 .. end
        BY <1>4, <4>1
      <4> QED BY <4>2 DEF m, n
    <3> QED BY <3>1, <3>3, <3>4 DEF image
  <2> QED BY <2>2, <2>3
<1>10. \A i \in DOMAIN unit.decls : IsStored(i)' => IsStored(i) \/ i = at
  <2>1. \A i \in DOMAIN unit.decls : i \in Int
    BY UnitType DEF LayoutInv, LayoutTypes
  <2> QED BY <1>1, <2>1 DEF IsStored
<1>11. DistinctDeclarations /\ \A i \in DOMAIN unit.decls : IsStored(i) => HasValue(i)
  BY DEF ImageInv
<1>12. \A i \in DOMAIN unit.decls : ~IsInitialized(i) /\ ~IsInitialized(i)'
  BY <1>1 DEF IsInitialized
<1>13. ASSUME NEW i \in DOMAIN unit.decls, IsStored(i)
       PROVE  unit.decls[i].name # d.name /\ HasValue(i)'
  <2>7. PICK e : e = unit.decls[i]
    OBVIOUS
  <2>8. PICK s : s = e.scope
    OBVIOUS
  <2>1. IsIn(symbols, e) /\ OfItsKind(symbols[s], e) /\ s \in ImageScopes /\ s \in VariableScopes
    BY <1>13, <2>7, <2>8, KindsAgree DEF IsStored, ImageScopes, VariableScopes
  <2>2. Stored(symbols[s], ImageOf(s), e, 0)
    BY <1>11, <1>12, <1>13, <2>7, <2>8 DEF HasValue
  <2>3. symbols[s] \in Seq(Symbols(unit)) /\ Laid(symbols[s], Len(ImageOf(s)))
        /\ Len(ImageOf(s)) \in Nat
    BY <1>2, <2>1 DEF ImageOf, ImageScopes
  <2>4. e.name # d.name
    BY <1>8, <2>1, <2>8 DEF IsIn
  <2>5. Stored(symbols[s], ImageOf(s)', e, 0)
    BY <1>9, <2>1, <2>2, <2>3, StoredGrows
  <2>6. Stored(symbols'[s], ImageOf(s)', e, 0)
    <3>1. CASE s = d.scope
      <4>1. PICK image : image = ImageOf(s)'
        OBVIOUS
      <4>2. PICK list1 : list1 = symbols[s]
        OBVIOUS
      <4>3. Stored(list1, image, e, 0) /\ list1 \in Seq(Symbols(unit)) /\ v.name # e.name
        BY <1>5, <2>3, <2>4, <2>5, <4>1, <4>2
      <4>4. Stored(Append(list1, v), image, e, 0)
        BY <1>5, <4>3, StoredAppended
      <4> QED BY <1>7, <3>1, <4>1, <4>2, <4>4
    <3>2. CASE s # d.scope
      BY <1>7, <2>1, <2>5, <3>2
    <3> QED BY <3>1, <3>2
  <2>9. unit'.decls[i] = e
    BY <2>7
  <2> QED BY <1>12, <2>4, <2>6, <2>7, <2>8, <2>9 DEF HasValue, ImageOf
<1>14. ASSUME NEW i \in DOMAIN unit.decls, i = at, IsStored(i)' PROVE HasValue(i)'
  <2>1. PICK s : s = d.scope
    OBVIOUS
  <2>2. unit'.decls[i] = d /\ s \in ImageScopes
    BY <1>14, <2>1 DEF IsStored
  <2>3. \A k \in 1 .. Size(v.kind) : ImageOf(s)'[v.offset + k] = 0
    BY <1>5, <1>9, <2>1, <2>2
  <2>4. Stored(Append(symbols[s], v), ImageOf(s)', d, 0)
    BY <1>1, <1>2, <1>5, <1>8, <2>1, <2>3, StoredFresh
  <2> QED BY <1>7, <1>12, <2>1, <2>2, <2>4 DEF HasValue, ImageOf
<1>15. DistinctDeclarations'
  <2> SUFFICES ASSUME NEW i \in DOMAIN unit.decls, NEW j \in DOMAIN unit.decls,
                      IsStored(i)', IsStored(j)', unit.decls[i].name = unit.decls[j].name
               PROVE  i = j
    BY DEF DistinctDeclarations
  <2>1. (IsStored(i) \/ i = at) /\ (IsStored(j) \/ j = at)
    BY <1>10
  <2> QED BY <1>11, <1>13, <2>1 DEF DistinctDeclarations
<1>16. \A i \in DOMAIN unit.decls : IsStored(i)' => HasValue(i)'
  BY <1>10, <1>13, <1>14
<1> QED BY <1>15, <1>16 DEF ImageInv


\* Strings that are interned leave every value where it is.
LEMMA GrownKeeps ==
  ASSUME LayoutInv, phase # "failed", Pool \in Pools, NEW q \in Pools, Grown(Pool, q),
         NEW i \in DOMAIN unit.decls, IsStored(i), HasValue(i), NEW d, d = unit.decls[i]
  PROVE  /\ IsInitialized(i) => IsWritten(d, q.offsets)
         /\ Stored(symbols[d.scope], IF d.scope = "Const" THEN q.image ELSE dataImage, d,
                   IF IsInitialized(i) THEN InitialBits(d, q.offsets) ELSE 0)
<1>1. /\ Pool.offsets = literals /\ Pool.image = constImage
      /\ constImage \in Seq(Byte) /\ Len(constImage) \in Nat
      /\ \A k \in 1 .. Len(constImage) : q.image[k] = constImage[k]
      /\ \A t \in DOMAIN literals : t \in DOMAIN q.offsets /\ q.offsets[t] = literals[t]
  <2>1. Pool.offsets = literals /\ Pool.image = constImage
    BY DEF Pool
  <2>2. constImage \in Seq(Byte)
    BY DEF LayoutInv, Placed
  <2> QED BY <2>1, <2>2 DEF Grown
<1>2. IsInitialized(i) => IsWritten(d, literals)
  BY DEF HasValue
<1>3. IsInitialized(i) =>
        IsWritten(d, q.offsets) /\ InitialBits(d, q.offsets) = InitialBits(d, literals)
  <2> SUFFICES ASSUME IsWritten(d, literals)
               PROVE  IsWritten(d, q.offsets)
                      /\ InitialBits(d, q.offsets) = InitialBits(d, literals)
    BY <1>2
  <2>1. CASE d.init = "string"
    <3>1. d.value \in DOMAIN q.offsets /\ q.offsets[d.value] = literals[d.value]
      BY <1>1, <2>1 DEF IsWritten
    <3> QED BY <2>1, <3>1 DEF IsWritten, InitialBits
  <2>2. CASE d.init # "string"
    BY <2>2 DEF IsWritten, InitialBits
  <2> QED BY <2>1, <2>2
<1>4. PICK bits : bits = IF IsInitialized(i) THEN InitialBits(d, literals) ELSE 0
  OBVIOUS
<1>5. bits = IF IsInitialized(i) THEN InitialBits(d, q.offsets) ELSE 0
  BY <1>3, <1>4
<1>6. Stored(symbols[d.scope], ImageOf(d.scope), d, bits)
  BY <1>4 DEF HasValue
<1>7. CASE d.scope = "Const"
  <2>1. Stored(symbols["Const"], constImage, d, bits) /\ OfItsKind(symbols["Const"], d)
    BY <1>6, <1>7, KindsAgree DEF ImageOf
  <2>2. symbols["Const"] \in Seq(Symbols(unit)) /\ Laid(symbols["Const"], Len(constImage))
    BY DEF LayoutInv, LayoutTypes, VariableScopes
  <2>3. Stored(symbols["Const"], q.image, d, bits)
    BY <1>1, <2>1, <2>2, StoredGrows
  <2> QED BY <1>3, <1>5, <1>7, <2>3
<1>8. CASE d.scope # "Const"
  BY <1>3, <1>5, <1>6, <1>8 DEF ImageOf
<1> QED BY <1>7, <1>8

LEMMA PoolType == LayoutInv => Pool \in Pools
<1> SUFFICES ASSUME LayoutInv PROVE Pool \in Pools
  OBVIOUS
<1>1. Placed(literals, constImage)
  BY DEF LayoutInv
<1>2. literals \in UNION {[D -> Nat] : D \in SUBSET Seq(Byte)} /\ constImage \in Seq(Byte)
  BY <1>1 DEF Placed
<1> QED BY <1>1, <1>2 DEF Pool, Pools

LEMMA CompileFunctionImages == LayoutInv /\ ImageInv /\ CompileFunction => ImageInv'
<1> SUFFICES ASSUME LayoutInv, ImageInv, CompileFunction PROVE ImageInv'
  OBVIOUS
<1> DEFINE f == unit.functions[at]
<1>1. /\ unit \in Units /\ at \in Nat \ {0} /\ functions \in Seq(Bindings(unit))
      /\ phase = "compile" /\ at <= Len(unit.functions)
  BY DEF LayoutInv, LayoutTypes, CompileFunction, Item, FrontPhases
<1>2. IsFunctionDefinition(f)
  BY <1>1, UnitType
<1>3. CASE \E e : Fail(e)
  BY <1>3, ImageKept DEF Fail
<1>4. ASSUME \A i \in DOMAIN f.body : f.body[i].do = "call" => IsFunction(f.body[i].callee),
             literals' = Interning(f).offsets, constImage' = Interning(f).image,
             Forward, UNCHANGED <<unit, layout, table, dataImage, backend, result>>
      PROVE  ImageInv'
  <2>1. UNCHANGED <<unit, symbols, dataImage>> /\ phase' = "compile"
    BY <1>1, <1>4 DEF Forward, layout
  <2>2. Strings(f.body) \in Seq(Seq(Byte))
    <3> HIDE DEF f
    <3> QED BY <1>1, <1>2, <1>4, StringsType
  <2>3. PICK q : q = Interning(f)
    OBVIOUS
  <2>4. q \in Pools /\ Grown(Pool, q)
    <3> HIDE DEF f
    <3> QED BY <2>2, <2>3, PoolType, InterningIs
  <2>5. literals' = q.offsets /\ constImage' = q.image
    BY <1>4, <2>3
  <2>6. DistinctDeclarations /\ \A i \in DOMAIN unit.decls : IsStored(i) => HasValue(i)
    BY <1>1 DEF ImageInv
  <2>7. \A i \in DOMAIN unit.decls :
          (IsStored(i)' <=> IsStored(i)) /\ (IsInitialized(i)' <=> IsInitialized(i))
    BY <1>1, <2>1 DEF IsStored, IsInitialized
  <2>8. ASSUME NEW i \in DOMAIN unit.decls, IsStored(i) PROVE HasValue(i)'
    <3>1. PICK d : d = unit.decls[i]
      OBVIOUS
    <3>2. /\ IsInitialized(i) => IsWritten(d, q.offsets)
          /\ Stored(symbols[d.scope], IF d.scope = "Const" THEN q.image ELSE dataImage, d,
                    IF IsInitialized(i) THEN InitialBits(d, q.offsets) ELSE 0)
      BY <1>1, <2>4, <2>6, <2>8, <3>1, PoolType, GrownKeeps
    <3>3. ImageOf(d.scope)' = IF d.scope = "Const" THEN q.image ELSE dataImage
      BY <2>1, <2>5 DEF ImageOf
    <3>4. unit'.decls[i] = d
      BY <2>1, <3>1
    <3> QED BY <2>1, <2>5, <2>7, <3>2, <3>3, <3>4 DEF HasValue, ImageOf
  <2>9. DistinctDeclarations'
    BY <2>1, <2>6, <2>7 DEF DistinctDeclarations
  <2> QED BY <2>1, <2>7, <2>8, <2>9 DEF ImageInv
<1>5. \/ \E e : Fail(e)
      \/ /\ \A i \in DOMAIN f.body : f.body[i].do = "call" => IsFunction(f.body[i].callee)
         /\ literals' = Interning(f).offsets
         /\ constImage' = Interning(f).image
         /\ Forward
         /\ UNCHANGED <<unit, layout, table, dataImage, backend, result>>
  BY DEF CompileFunction
<1> HIDE DEF f
<1> QED BY <1>3, <1>4, <1>5


\* An initializer changes the bytes of its own variable alone.
LEMMA InitializeGlobalImages == LayoutInv /\ ImageInv /\ InitializeGlobal => ImageInv'
<1> SUFFICES ASSUME LayoutInv, ImageInv, InitializeGlobal PROVE ImageInv'
  OBVIOUS
<1>1. PICK d : d = unit.decls[at]
  OBVIOUS
<1> DEFINE interned == IF d.init = "string" THEN Interned(Pool, d.value) ELSE Pool
           bits == IF d.init = "string"
                   THEN makeAddress(segmentConst, interned.offsets[d.value])
                   ELSE d.value
           bytes == Encode(bits, Size(d.kind))
           offset == SymbolNamed(d.scope, d.name).offset
<1>2. /\ unit \in Units /\ at \in Nat \ {0} /\ phase = "initialize"
      /\ at \in DOMAIN unit.decls /\ IsDeclaration(d)
      /\ \A i \in DOMAIN unit.decls : i \in Int
  <2>1. unit \in Units /\ at \in Nat \ {0} /\ phase = "initialize" /\ at <= Len(unit.decls)
    BY DEF LayoutInv, LayoutTypes, InitializeGlobal, Item
  <2> QED BY <1>1, <2>1, UnitType
<1>3. CASE \E e : Fail(e)
  BY <1>3, ImageKept DEF Fail
<1>4. CASE d.init = "none" /\ Forward
           /\ UNCHANGED <<unit, layout, table, images, blocks, backend, result>>
  <2>1. /\ UNCHANGED <<unit, symbols, dataImage, constImage, literals>>
        /\ at' = at + 1 /\ phase' = "initialize"
    BY <1>2, <1>4 DEF Forward, layout, images
  <2>2. ASSUME NEW i \in DOMAIN unit.decls, IsStored(i)'
        PROVE  IsStored(i) /\ (IsInitialized(i)' <=> IsInitialized(i))
    <3>1. CASE i = at
      BY <1>1, <1>2, <1>4, <2>1, <2>2, <3>1 DEF IsStored, IsInitialized
    <3>2. CASE i # at
      <4>1. i < at + 1 <=> i < at
        BY <1>2, <3>2
      <4> QED BY <1>2, <2>1, <2>2, <4>1 DEF IsStored, IsInitialized
    <3> QED BY <3>1, <3>2
  <2> QED BY <1>2, <2>1, <2>2, ImageKept
<1>5. ASSUME d.init # "none", ~InitializerError(d), Forward,
             UNCHANGED <<unit, layout, table, blocks, backend, result>>,
             literals' = interned.offsets,
             dataImage' = IF d.scope = "Data"
                          THEN WriteBytes(dataImage, offset, bytes) ELSE dataImage,
             constImage' = IF d.scope = "Const"
                           THEN WriteBytes(interned.image, offset, bytes)
                           ELSE interned.image
      PROVE  ImageInv'
  <2>1. UNCHANGED <<unit, symbols>> /\ at' = at + 1 /\ phase' = "initialize"
    BY <1>2, <1>5 DEF Forward, layout
  <2>2. /\ d.init \in {"number", "string"} /\ d.scope \in ImageScopes
        /\ d.init = "number" => d.value \in Nat
        /\ d.init = "string" => d.value \in Seq(Byte) /\ d.kind = "Address"
        /\ d.scope \in VariableScopes /\ d.declares = "variable"
    BY <1>2, <1>5 DEF IsDeclaration, InitializerError, Initializers, VariableScopes, ImageScopes
  <2>3. Pool \in Pools /\ Pool.offsets = literals /\ Pool.image = constImage
    BY PoolType DEF Pool
  <2>4. PICK q : q = interned
    OBVIOUS
  <2>5. /\ q \in Pools /\ Grown(Pool, q)
        /\ d.init = "string" => d.value \in DOMAIN q.offsets
    <3>1. CASE d.init = "string"
      BY <2>2, <2>3, <2>4, <3>1, InternedIs
    <3>2. CASE d.init # "string"
      <4>1. Grown(Pool, Pool)
        BY <2>3 DEF Grown, Pools, Placed
      <4> QED BY <2>3, <2>4, <3>2, <4>1
    <3> QED BY <3>1, <3>2
  <2>6. bits = InitialBits(d, q.offsets) /\ bits \in Nat
    <3>1. CASE d.init = "string"
      <4>1. q.offsets[d.value] \in Nat
        BY <2>5, <3>1 DEF Pools, Placed
      <4> QED BY <2>4, <3>1, <4>1, MakeAddressType DEF InitialBits
    <3>2. CASE d.init # "string"
      BY <2>2, <3>2 DEF InitialBits
    <3> QED BY <3>1, <3>2
  <2> HIDE DEF bits, interned
  <2>7. bytes \in Seq(Byte) /\ Len(bytes) = Size(d.kind)
    <3>1. Size(d.kind) \in 0 .. 8 /\ bits \in Int
      BY <2>6, SizeType
    <3> QED BY <3>1, EncodeType
  <2>8. PICK list : list = symbols[d.scope]
    OBVIOUS
  <2>9. list \in Seq(Symbols(unit)) /\ DistinctNames(list)
    BY <2>2, <2>8 DEF LayoutInv, LayoutTypes, DistinctVariables
  <2>10. IsStored(at)
    BY <1>1, <1>2, <2>2 DEF IsStored
  <2>11. PICK j \in DOMAIN list :
           list[j].name = d.name /\ list[j].kind = d.kind
           /\ SymbolNamed(d.scope, d.name) = list[j]
    <3>1. IsIn(symbols, d)
      BY <1>1, <1>2, <2>10, KindsAgree
    <3> QED BY <2>2, <2>8, <3>1, SymbolFound
  <2>12. offset = list[j].offset
    BY <2>11
  <2> HIDE DEF offset, bytes
  \* The images before the write.
  <2>13. PICK before : before = [Data |-> dataImage, Const |-> q.image]
    OBVIOUS
  <2>14. before["Data"] = dataImage /\ before["Const"] = q.image
    BY <2>13
  <2>15. \A s \in ImageScopes : /\ before[s] \in Seq(Byte)
                                /\ Laid(symbols[s], Len(before[s]))
                                /\ before[s] = IF s = "Const" THEN q.image ELSE dataImage
    <3>1. q.image \in Seq(Byte) /\ dataImage \in Seq(Byte)
      BY <2>5 DEF Pools, LayoutInv, LayoutTypes
    <3>2. Laid(symbols["Data"], Len(dataImage))
      BY DEF LayoutInv
    <3>3. Laid(symbols["Const"], Len(q.image))
      <4>1. symbols["Const"] \in Seq(Symbols(unit))
        BY DEF LayoutInv, LayoutTypes, VariableScopes
      <4>2. Laid(symbols["Const"], Len(Pool.image)) /\ Apart(Pool.offsets, symbols["Const"])
        BY <2>3 DEF LayoutInv
      <4> QED BY <2>3, <2>5, <4>1, <4>2, GrownApart
    <3> QED BY <2>14, <3>1, <3>2, <3>3 DEF ImageScopes
  <2>16. ASSUME NEW s \in ImageScopes
         PROVE  ImageOf(s)' = IF s = d.scope THEN WriteBytes(before[s], offset, bytes)
                                             ELSE before[s]
    BY <1>5, <2>2, <2>4, <2>14, <2>16 DEF ImageOf, ImageScopes
  <2>17. DistinctDeclarations /\ \A i \in DOMAIN unit.decls : IsStored(i) => HasValue(i)
    BY <1>2 DEF ImageInv
  <2>18. \A i \in DOMAIN unit.decls :
           /\ IsStored(i)' <=> IsStored(i)
           /\ i # at => (IsInitialized(i)' <=> IsInitialized(i))
           /\ i = at => IsInitialized(i)'
    <3>1. \A i \in DOMAIN unit.decls : i # at => (i < at + 1 <=> i < at)
      BY <1>2
    <3>2. at < at + 1
      BY <1>2
    <3> QED BY <1>1, <1>2, <1>5, <2>1, <3>1, <3>2 DEF IsStored, IsInitialized
  <2>19. literals' = q.offsets
    BY <1>5, <2>4
  <2>20. ASSUME NEW i \in DOMAIN unit.decls, IsStored(i), i # at PROVE HasValue(i)'
    <3>1. PICK e : e = unit.decls[i]
      OBVIOUS
    <3>2. PICK s : s = e.scope
      OBVIOUS
    <3>3. PICK value : value = IF IsInitialized(i) THEN InitialBits(e, q.offsets) ELSE 0
      OBVIOUS
    <3>4. s \in ImageScopes /\ OfItsKind(symbols[s], e) /\ e.name # d.name
      <4>1. OfItsKind(symbols[s], e)
        BY <1>2, <2>20, <3>1, <3>2, KindsAgree
      <4>2. e.name # d.name
        BY <1>1, <1>2, <2>10, <2>17, <2>20, <3>1 DEF DistinctDeclarations
      <4> QED BY <2>20, <3>1, <3>2, <4>1, <4>2 DEF IsStored
    <3>5. /\ IsInitialized(i) => IsWritten(e, q.offsets)
          /\ Stored(symbols[s], before[s], e, value)
      <4>1. /\ IsInitialized(i) => IsWritten(e, q.offsets)
            /\ Stored(symbols[s], IF s = "Const" THEN q.image ELSE dataImage, e,
                      IF IsInitialized(i) THEN InitialBits(e, q.offsets) ELSE 0)
        BY <1>2, <2>3, <2>5, <2>17, <2>20, <3>1, <3>2, GrownKeeps
      <4> QED BY <2>15, <3>3, <3>4, <4>1
    <3>6. PICK image : image = ImageOf(s)'
      OBVIOUS
    <3>7. Stored(symbols[s], image, e, value)
      <4>1. CASE s = d.scope
        <5>1. image = WriteBytes(before[s], list[j].offset, bytes)
          BY <2>12, <2>16, <3>4, <3>6, <4>1
        <5>2. /\ before[s] \in Seq(Byte) /\ Laid(list, Len(before[s]))
              /\ OfItsKind(list, e) /\ Stored(list, before[s], e, value)
              /\ Len(bytes) = Size(list[j].kind) /\ list[j].name # e.name
          BY <2>7, <2>8, <2>11, <2>15, <3>4, <3>5, <4>1
        <5>3. Stored(list, WriteBytes(before[s], list[j].offset, bytes), e, value)
          BY <2>7, <2>9, <5>2, StoredBeside
        <5> QED BY <2>8, <4>1, <5>1, <5>3
      <4>2. CASE s # d.scope
        BY <2>16, <3>4, <3>5, <3>6, <4>2
      <4> QED BY <4>1, <4>2
    <3>8. unit'.decls[i] = e
      BY <2>1, <3>1
    <3> QED BY <2>1, <2>18, <2>19, <2>20, <3>2, <3>3, <3>5, <3>6, <3>7, <3>8 DEF HasValue, ImageOf
  <2>21. ASSUME NEW i \in DOMAIN unit.decls, i = at PROVE HasValue(i)'
    <3>1. PICK s : s = d.scope
      OBVIOUS
    <3>2. PICK image : image = ImageOf(s)'
      OBVIOUS
    <3>3. image = WriteBytes(before[s], list[j].offset, bytes)
      BY <2>2, <2>12, <2>16, <3>1, <3>2
    <3>4. before[s] \in Seq(Byte) /\ Laid(list, Len(before[s]))
      BY <2>2, <2>8, <2>15, <3>1
    <3>5. Stored(list, WriteBytes(before[s], list[j].offset, Encode(bits, Size(d.kind))), d, bits)
      <4>1. bits \in Int
        BY <2>6
      <4> QED BY <2>9, <2>11, <3>4, <4>1, StoredWritten
    <3>6. Stored(symbols[s], image, d, bits)
      BY <2>8, <3>1, <3>3, <3>5 DEF bytes
    <3>7. unit'.decls[i] = d
      BY <1>1, <2>1, <2>21
    <3>8. IsWritten(d, q.offsets)
      BY <2>2, <2>5 DEF IsWritten
    <3>9. IsInitialized(i)' /\ InitialBits(d, literals)' = InitialBits(d, q.offsets)
      BY <2>18, <2>19, <2>21 DEF InitialBits
    <3> QED BY <2>1, <2>6, <2>19, <3>1, <3>2, <3>6, <3>7, <3>8, <3>9 DEF HasValue, ImageOf
  <2>22. DistinctDeclarations'
    BY <2>1, <2>17, <2>18 DEF DistinctDeclarations
  <2> QED BY <2>1, <2>18, <2>20, <2>21, <2>22 DEF ImageInv
<1>6. \/ \E e : Fail(e)
      \/ /\ d.init = "none" /\ Forward
         /\ UNCHANGED <<unit, layout, table, images, blocks, backend, result>>
      \/ /\ d.init # "none" /\ ~InitializerError(d)
         /\ constImage' = IF d.scope = "Const"
                          THEN WriteBytes(interned.image, offset, bytes)
                          ELSE interned.image
         /\ dataImage' = IF d.scope = "Data"
                         THEN WriteBytes(dataImage, offset, bytes) ELSE dataImage
         /\ literals' = interned.offsets
         /\ Forward
         /\ UNCHANGED <<unit, layout, table, blocks, backend, result>>
  BY <1>1 DEF InitializeGlobal, Pool
<1> HIDE DEF interned, bytes, offset
<1> QED BY <1>3, <1>4, <1>5, <1>6


LEMMA RegisterDeclImages == LayoutInv /\ ImageInv /\ RegisterDecl => ImageInv'
<1> SUFFICES ASSUME LayoutInv, ImageInv, RegisterDecl PROVE ImageInv'
  OBVIOUS
<1>1. PICK d : d = unit.decls[at]
  OBVIOUS
<1>2. /\ unit \in Units /\ at \in Nat \ {0} /\ phase = "declare"
      /\ at \in DOMAIN unit.decls /\ IsDeclaration(d)
      /\ \A i \in DOMAIN unit.decls : i \in Int
  <2>1. unit \in Units /\ at \in Nat \ {0} /\ phase = "declare" /\ at <= Len(unit.decls)
    BY DEF LayoutInv, LayoutTypes, RegisterDecl, Item
  <2> QED BY <1>1, <2>1, UnitType
<1>3. CASE \E e : Fail(e)
  BY <1>3, ImageKept DEF Fail
<1>4. CASE /\ ~NameTaken(d.name)
           /\ d.declares = "variable" /\ DeclareVariable(d) /\ Forward
           /\ UNCHANGED <<unit, entryFunction, literals, blocks, backend, result>>
  BY <1>1, <1>2, <1>4, DeclareVariableImages
<1>5. CASE /\ d.declares = "function" /\ DeclareExternFunction(d) /\ Forward
           /\ UNCHANGED <<unit, entryFunction, literals, blocks, backend, result>>
  <2>1. /\ UNCHANGED <<unit, symbols, dataImage, constImage, literals>>
        /\ at' = at + 1 /\ phase' = "declare"
    BY <1>2, <1>5 DEF Forward, DeclareExternFunction, layout
  <2>2. ASSUME NEW i \in DOMAIN unit.decls, IsStored(i)'
        PROVE  IsStored(i) /\ (IsInitialized(i)' <=> IsInitialized(i))
    <3>1. i # at
      BY <1>1, <1>5, <2>1, <2>2 DEF IsStored
    <3>2. i < at + 1 => i < at
      BY <1>2, <3>1
    <3> QED BY <1>2, <2>1, <2>2, <3>2 DEF IsStored, IsInitialized
  <2> QED BY <1>2, <2>1, <2>2, ImageKept
<1>6. d.declares \in {"variable", "function"}
  BY <1>2 DEF IsDeclaration
<1>7. \/ \E e : Fail(e)
      \/ /\ ~NameTaken(d.name)
         /\ IF d.declares = "variable" THEN DeclareVariable(d)
                                       ELSE DeclareExternFunction(d)
         /\ Forward
         /\ UNCHANGED <<unit, entryFunction, literals, blocks, backend, result>>
  BY <1>1 DEF RegisterDecl
<1> QED BY <1>3, <1>4, <1>5, <1>6, <1>7

\* The other steps write nothing.
LEMMA OtherImages ==
  ASSUME LayoutInv, ImageInv,
         \/ RegisterFunction \/ NextPhase \/ StartMarking \/ FollowCall \/ LeaveBlock
         \/ StartAssembling \/ AssembleBlock \/ FinishAssembling \/ Link
         \/ BuildProgramImage \/ UNCHANGED vars
  PROVE  ImageInv'
<1> DEFINE Later == {"register", "compile", "mark", "assemble", "link", "image", "done"}
<1>1. CASE \E e : Fail(e)
  BY <1>1, ImageKept DEF Fail
<1>2. CASE NextPhase
  <2>1. \/ \E e : Fail(e)
        \/ /\ UNCHANGED <<unit, symbols, dataImage, constImage, literals>>
           /\ \/ phase = "declare" /\ at > Len(unit.decls) /\ phase' = "initialize" /\ at' = 1
              \/ phase = "initialize" /\ at > Len(unit.decls) /\ phase' = "register"
              \/ phase = "register" /\ phase' = "compile"
    BY <1>2 DEF NextPhase, Done, GoTo, layout, images
  <2>2. \A i \in DOMAIN unit.decls : i \in 1 .. Len(unit.decls) /\ ~(i < 1) /\ Len(unit.decls) \in Nat
    BY UnitType DEF LayoutInv, LayoutTypes
  <2>3. at \in Nat \ {0}
    BY DEF LayoutInv, LayoutTypes
  <2>4. ASSUME at > Len(unit.decls) PROVE \A i \in DOMAIN unit.decls : i < at
    BY <2>2, <2>3, <2>4
  <2>5. CASE UNCHANGED unit /\ phase = "declare" /\ at > Len(unit.decls)
             /\ phase' = "initialize" /\ at' = 1
    <3>1. \A i \in DOMAIN unit.decls :
            IsStored(i)' => IsStored(i) /\ (IsInitialized(i)' <=> IsInitialized(i))
      BY <2>2, <2>4, <2>5 DEF IsStored, IsInitialized
    <3> QED BY <1>1, <2>1, <2>5, <3>1, ImageKept
  <2>6. CASE UNCHANGED unit /\ phase = "initialize" /\ at > Len(unit.decls) /\ phase' = "register"
    <3>1. \A i \in DOMAIN unit.decls :
            IsStored(i)' => IsStored(i) /\ (IsInitialized(i)' <=> IsInitialized(i))
      BY <2>4, <2>6 DEF IsStored, IsInitialized
    <3> QED BY <1>1, <2>1, <2>6, <3>1, ImageKept
  <2>7. CASE UNCHANGED unit /\ phase = "register" /\ phase' = "compile"
    <3>1. \A i \in DOMAIN unit.decls :
            IsStored(i)' => IsStored(i) /\ (IsInitialized(i)' <=> IsInitialized(i))
      BY <2>7 DEF IsStored, IsInitialized
    <3> QED BY <1>1, <2>1, <2>7, <3>1, ImageKept
  <2> QED BY <1>1, <2>1, <2>5, <2>6, <2>7
<1>3. ASSUME UNCHANGED <<unit, symbols, dataImage, constImage, literals>>,
             phase \in Later, phase' \in Later
      PROVE  ImageInv'
  <2>1. \A i \in DOMAIN unit.decls :
          IsStored(i)' => IsStored(i) /\ (IsInitialized(i)' <=> IsInitialized(i))
    BY <1>3 DEF IsStored, IsInitialized
  <2> QED BY <1>3, <2>1, ImageKept
<1>4. CASE RegisterFunction \/ StartMarking \/ FollowCall \/ LeaveBlock \/ StartAssembling
  <2>1. \/ \E e : Fail(e)
        \/ /\ UNCHANGED <<unit, symbols, dataImage, constImage, literals>>
           /\ phase \in Later /\ phase' \in Later
    BY <1>4 DEF RegisterFunction, StartMarking, FollowCall, LeaveBlock, StartAssembling,
                Item, Forward, GoTo, layout, images
  <2> QED BY <1>1, <1>3, <2>1
<1>5. CASE AssembleBlock \/ FinishAssembling \/ Link \/ BuildProgramImage
  <2>1. \/ \E e : Fail(e)
        \/ /\ UNCHANGED <<unit, symbols, dataImage, constImage, literals>>
           /\ phase \in Later /\ phase' \in Later
    BY <1>5 DEF AssembleBlock, FinishAssembling, Link, BuildProgramImage, GoTo,
                Forward, Item, layout, images
  <2> QED BY <1>1, <1>3, <2>1
<1>6. CASE UNCHANGED vars
  <2>1. UNCHANGED <<unit, symbols, dataImage, constImage, literals, phase, at>>
    BY <1>6 DEF vars
  <2>2. \A i \in DOMAIN unit.decls :
          IsStored(i)' => IsStored(i) /\ (IsInitialized(i)' <=> IsInitialized(i))
    BY <2>1 DEF IsStored, IsInitialized
  <2> QED BY <2>1, <2>2, ImageKept DEF ImageInv
<1> QED BY <1>2, <1>4, <1>5, <1>6

LEMMA ImageInductive ==
  /\ Init => ImageInv
  /\ LayoutInv /\ ImageInv /\ [Next]_vars => ImageInv'
BY ImageInit, RegisterDeclImages, InitializeGlobalImages, CompileFunctionImages,
   OtherImages DEF Next, Compile


-----------------------------------------------------------------------------
(***************************************************************************)
(* What is read from a linked program.                                     *)
(***************************************************************************)

\* A stretch of an image, known byte by byte.
LEMMA ReadIs ==
  ASSUME NEW image \in Seq(Byte), NEW o \in Nat, NEW bytes \in Seq(Byte),
         o + Len(bytes) <= Len(image), \A k \in 1 .. Len(bytes) : image[o + k] = bytes[k]
  PROVE  ReadBytes(image, o, Len(bytes)) = bytes
<1> DEFINE n == Len(bytes)
           read == SubSeq(image, o + 1, o + n)
<1>1. n \in Nat /\ o + n \in Nat /\ o <= o + n /\ o + n <= Len(image) /\ o + n - o = n
  OBVIOUS
<1>2. read \in Seq(Byte) /\ Len(read) = n /\ \A k \in 1 .. n : read[k] = image[o + k]
  <2> DEFINE b == o + n
  <2>1. b \in Nat /\ o <= b /\ b <= Len(image) /\ b - o = n
    BY <1>1
  <2> HIDE DEF b, n
  <2>2. /\ SubSeq(image, o + 1, b) \in Seq(Byte) /\ Len(SubSeq(image, o + 1, b)) = b - o
        /\ \A i \in 1 .. b - o : SubSeq(image, o + 1, b)[i] = image[o + i]
    BY <2>1, SubSeqIs
  <2> QED BY <2>1, <2>2 DEF b
<1>3. ReadBytes(image, o, n) = read
  BY DEF ReadBytes
<1> HIDE DEF read
<1>4. \A k \in 1 .. n : read[k] = bytes[k]
  BY <1>2
<1>5. read = bytes
  BY <1>2, <1>4
<1> QED BY <1>3, <1>5

\* A literal is read with its terminating zero.
LEMMA LiteralRead ==
  ASSUME LayoutInv, NEW t \in DOMAIN literals
  PROVE  /\ literals[t] \in Nat /\ literals[t] < Len(constImage)
         /\ ReadBytes(constImage, literals[t], Len(t) + 1) = t \o <<0>>
<1>1. /\ constImage \in Seq(Byte) /\ t \in Seq(Byte) /\ literals[t] \in Nat
      /\ literals[t] + Len(t) + 1 <= Len(constImage)
      /\ \A k \in 1 .. Len(t) : constImage[literals[t] + k] = t[k]
      /\ constImage[literals[t] + Len(t) + 1] = 0
  BY DEF LayoutInv, Placed
<1> DEFINE o == literals[t]
           bytes == t \o <<0>>
           m == Len(t)
<1>2. <<0>> \in Seq(Byte) /\ Len(<<0>>) = 1 /\ <<0>>[1] = 0
  BY ByteAssumption DEF Byte
<1>3. /\ bytes \in Seq(Byte) /\ Len(bytes) = m + 1
      /\ \A k \in 1 .. m : bytes[k] = t[k]
      /\ bytes[m + 1] = 0
  BY <1>1, <1>2, ConcatIs
<1>4. m \in Nat /\ o \in Nat /\ Len(constImage) \in Nat /\ o + m + 1 <= Len(constImage)
  BY <1>1
<1> HIDE DEF bytes, o, m
<1>5. \A k \in 1 .. m + 1 : constImage[o + k] = bytes[k]
  <2> SUFFICES ASSUME NEW k \in 1 .. m + 1 PROVE constImage[o + k] = bytes[k]
    OBVIOUS
  <2>1. CASE k \in 1 .. m
    BY <1>1, <1>3, <2>1 DEF o, m
  <2>2. CASE k = m + 1
    <3>1. o + k = o + m + 1
      BY <1>4, <2>2
    <3> QED BY <1>1, <1>3, <2>2, <3>1 DEF o, m
  <2> QED BY <1>4, <2>1, <2>2
<1>6. o < Len(constImage) /\ o + (m + 1) <= Len(constImage)
  BY <1>4
<1>7. ReadBytes(constImage, o, m + 1) = bytes
  BY <1>1, <1>3, <1>4, <1>5, <1>6, ReadIs
<1> QED BY <1>4, <1>6, <1>7 DEF o, m, bytes

\* What declaration i's variable reads as.
LEMMA ValueRead ==
  ASSUME LayoutInv, ImageInv, phase \in {"image", "done"},
         NEW i \in DOMAIN unit.decls, IsStored(i), NEW d, d = unit.decls[i]
  PROVE  LET n == Size(d.kind)
             bits == IF d.init = "none" THEN 0 ELSE InitialBits(d, literals)
         IN  /\ d.init # "none" => IsWritten(d, literals)
             /\ bits \in Nat /\ n \in {1, 2, 4, 8}
             /\ ReadBytes(ImageOf(d.scope), SymbolNamed(d.scope, d.name).offset, n)
                  = Encode(bits, n)
<1> DEFINE n == Size(d.kind)
           bits == IF d.init = "none" THEN 0 ELSE InitialBits(d, literals)
           bytes == Encode(bits, n)
           image == ImageOf(d.scope)
           list == symbols[d.scope]
<1>1. IsInitialized(i) <=> d.init # "none"
  BY DEF IsInitialized
<1>2. HasValue(i)
  BY DEF ImageInv
<1>3. (d.init # "none" => IsWritten(d, literals)) /\ Stored(list, image, d, bits)
  BY <1>1, <1>2 DEF HasValue
<1>4. IsDeclaration(d) /\ d.scope \in ImageScopes
  BY UnitType DEF LayoutInv, LayoutTypes, IsStored
<1>5. n \in {1, 2, 4, 8}
  <2>1. d.kind \in SourceKinds \ {"Void"}
    BY <1>4 DEF IsDeclaration, ImageScopes
  <2> QED BY <2>1 DEF SourceKinds, Kinds, IntegerKinds, SignedKinds, UnsignedKinds,
                      FloatKinds, Size
<1>6. bits \in Nat
  <2>1. CASE d.init = "string"
    <3>1. literals[d.value] \in Nat
      BY <1>3, <2>1, LiteralRead DEF IsWritten
    <3> QED BY <2>1, <3>1, MakeAddressType DEF InitialBits
  <2>2. CASE d.init # "string"
    BY <1>3, <1>4, <2>2 DEF IsWritten, InitialBits, IsDeclaration
  <2> QED BY <2>1, <2>2
<1>7. bytes \in Seq(Byte) /\ Len(bytes) = n
  <2>1. n \in {1, 2, 4, 8} /\ bits \in Int
    BY <1>5, <1>6
  <2>2. n \in 0 .. 8
    BY <2>1
  <2> HIDE DEF bits, n
  <2> QED BY <2>1, <2>2, EncodeType
<1>8. image \in Seq(Byte) /\ list \in Seq(Symbols(unit)) /\ Laid(list, Len(image))
      /\ d.scope \in VariableScopes
  BY <1>4 DEF ImageOf, ImageScopes, VariableScopes, LayoutInv, LayoutTypes, Placed
<1>9. PICK j \in DOMAIN list :
        /\ list[j].name = d.name /\ list[j].kind = d.kind
        /\ SymbolNamed(d.scope, d.name) = list[j]
  <2>1. IsIn(symbols, d)
    BY KindsAgree
  <2> QED BY <1>8, <2>1, SymbolFound
<1> HIDE DEF bits, image
<1>10. \A k \in 1 .. n : image[list[j].offset + k] = bytes[k]
  BY <1>3, <1>9 DEF Stored
<1> HIDE DEF bytes
<1>11. list[j].offset \in Nat /\ list[j].offset + Len(bytes) <= Len(image)
  <2>1. list[j] \in Symbols(unit)
    BY <1>8
  <2>2. list[j].offset \in Nat
    BY <2>1, SymbolType
  <2> QED BY <1>7, <1>8, <1>9, <2>2 DEF Laid
<1>12. ReadBytes(image, list[j].offset, Len(bytes)) = bytes
  BY <1>7, <1>8, <1>10, <1>11, ReadIs
<1> QED BY <1>3, <1>5, <1>6, <1>7, <1>9, <1>12 DEF bits, image, bytes


\* The bytes of declaration i's variable in the linked program mean what the
\* source says.
LEMMA ValueLinked ==
  ASSUME LayoutInv, ImageInv, phase \in {"image", "done"},
         ByteBase > segmentConst, Len(constImage) <= Base3,
         NEW i \in DOMAIN unit.decls, IsStored(i), NEW d, d = unit.decls[i]
  PROVE  LET bytes == ReadBytes(ImageOf(d.scope), SymbolNamed(d.scope, d.name).offset,
                                Size(d.kind))
             text == AddressIndex(Decode(bytes))
         IN  /\ d.init = "string" =>
                  /\ AddressSegment(Decode(bytes)) = segmentConst
                  /\ ReadBytes(constImage, text, Len(d.value) + 1) = d.value \o <<0>>
             /\ d.init # "string" =>
                  Decode(bytes) = IF d.init = "none" THEN 0
                                  ELSE d.value % Modulus(Size(d.kind))
<1> DEFINE n == Size(d.kind)
           bits == IF d.init = "none" THEN 0 ELSE InitialBits(d, literals)
           bytes == ReadBytes(ImageOf(d.scope), SymbolNamed(d.scope, d.name).offset, n)
<1>1. /\ d.init # "none" => IsWritten(d, literals)
      /\ bits \in Nat /\ n \in {1, 2, 4, 8}
      /\ bytes = Encode(bits, n)
  BY ValueRead
<1> HIDE DEF bytes
<1>2. CASE d.init = "string"
  <2> DEFINE o == literals[d.value]
  <2>1. d.value \in DOMAIN literals /\ n = 4
    BY <1>1, <1>2 DEF IsWritten, Size
  <2>2. /\ o \in Nat /\ o < Len(constImage)
        /\ ReadBytes(constImage, o, Len(d.value) + 1) = d.value \o <<0>>
    BY <2>1, LiteralRead
  <2>3. bytes = Encode(makeAddress(segmentConst, o), 4)
    BY <1>1, <1>2, <2>1 DEF InitialBits
  <2> HIDE DEF o
  <2>4. o < Base3
    <3>1. Len(constImage) \in Nat /\ Base3 \in Nat
      BY PlaceType DEF Place, LayoutInv, Placed
    <3> HIDE DEF Base3
    <3> QED BY <2>2, <3>1
  <2>5. AddressSegment(Decode(bytes)) = segmentConst /\ AddressIndex(Decode(bytes)) = o
    BY <2>2, <2>3, <2>4, AddressSurvives
  <2> QED BY <1>2, <2>2, <2>5 DEF bytes
<1>3. CASE d.init = "none"
  <2>1. Decode(bytes) = 0 % Modulus(n)
    BY <1>1, <1>3, DecodeEncode
  <2>2. 0 % Modulus(n) = 0
    <3>1. Modulus(n) \in Nat \ {0}
      BY <1>1, ModulusType
    <3> QED BY <3>1
  <2> QED BY <1>3, <2>1, <2>2 DEF bytes
<1>4. CASE d.init = "number"
  <2>1. bits = d.value
    BY <1>4 DEF InitialBits
  <2>2. Decode(bytes) = d.value % Modulus(n)
    BY <1>1, <2>1, DecodeEncode
  <2> QED BY <1>4, <2>2 DEF bytes
<1> QED BY <1>1, <1>2, <1>3, <1>4 DEF IsWritten

LEMMA ImagesLinked ==
  ASSUME ProgramInv, ImageInv, ByteBase > segmentConst, Len(constImage) <= Base3
  PROVE  InitializersSurvive
<1> SUFFICES ASSUME linked # NoLink PROVE InitializersSurvive
  BY DEF InitializersSurvive
<1>1. LayoutInv /\ phase \in {"image", "done"} /\ linked = LinkedProgram
  BY DEF ProgramInv, AssemblyInv, CallGraphInv, LinkedInv
<1>2. linked.constData = constImage /\ linked.dataData = dataImage
  BY <1>1 DEF LinkedProgram
<1>3. ASSUME NEW i \in DOMAIN unit.decls, NEW d, d = unit.decls[i],
             ~(d.declares = "function" \/ d.scope \in {"Extern", "BSS"})
      PROVE  IsStored(i)
  <2>1. IsDeclaration(d)
    BY <1>1, <1>3, UnitType DEF LayoutInv, LayoutTypes
  <2> QED BY <1>1, <1>3, <2>1 DEF IsDeclaration, VariableScopes, IsStored, ImageScopes
<1>4. \A i \in DOMAIN unit.decls :
        LET d == unit.decls[i]
            image == IF d.scope = "Const" THEN linked.constData ELSE linked.dataData
            bytes == ReadBytes(image, SymbolNamed(d.scope, d.name).offset, Size(d.kind))
            text == AddressIndex(Decode(bytes))
        IN  CASE d.declares = "function" \/ d.scope \in {"Extern", "BSS"} -> TRUE
              [] d.init = "string" ->
                   /\ AddressSegment(Decode(bytes)) = segmentConst
                   /\ ReadBytes(linked.constData, text, Len(d.value) + 1)
                        = d.value \o <<0>>
              [] OTHER -> Decode(bytes)
                            = IF d.init = "none" THEN 0
                              ELSE d.value % Modulus(Size(d.kind))
  <2> TAKE i \in DOMAIN unit.decls
  <2>1. PICK d : d = unit.decls[i]
    OBVIOUS
  <2> DEFINE image == IF d.scope = "Const" THEN linked.constData ELSE linked.dataData
             bytes == ReadBytes(image, SymbolNamed(d.scope, d.name).offset, Size(d.kind))
             text == AddressIndex(Decode(bytes))
  <2>2. image = ImageOf(d.scope)
    BY <1>2 DEF ImageOf
  <2>3. CASE d.declares = "function" \/ d.scope \in {"Extern", "BSS"}
    <3>1. IsDeclaration(d)
      BY <1>1, <2>1, UnitType DEF LayoutInv, LayoutTypes
    <3>2. d.init # "string"
      BY <2>3, <3>1 DEF IsDeclaration
    <3> HIDE DEF bytes, text
    <3> QED BY Zenon, <2>1, <2>3, <3>2 DEF bytes, text, image
  <2>4. CASE ~(d.declares = "function" \/ d.scope \in {"Extern", "BSS"})
    <3>1. IsStored(i)
      BY <1>3, <2>1, <2>4
    <3>2. /\ d.init = "string" =>
               /\ AddressSegment(Decode(bytes)) = segmentConst
               /\ ReadBytes(linked.constData, text, Len(d.value) + 1) = d.value \o <<0>>
          /\ d.init # "string" =>
               Decode(bytes) = IF d.init = "none" THEN 0
                               ELSE d.value % Modulus(Size(d.kind))
      BY <1>1, <1>2, <2>1, <2>2, <3>1, ValueLinked
    <3> HIDE DEF bytes, text
    <3> QED BY Zenon, <2>1, <2>4, <3>2 DEF bytes, text, image
  <2> QED BY <2>3, <2>4
<1>5. \A i \in DOMAIN unit.functions : \A k \in DOMAIN unit.functions[i].body :
        LET s == unit.functions[i].body[k]
        IN  s.do = "call" /\ s.text \in DOMAIN literals =>
              ReadBytes(linked.constData, literals[s.text], Len(s.text) + 1)
                = s.text \o <<0>>
  BY <1>1, <1>2, LiteralRead
<1> QED BY <1>4, <1>5 DEF InitializersSurvive

\* What the linked program holds for each variable of DATA and CONST is what
\* the source gives it (zero when it gives nothing), and what it holds for
\* each literal is that text with its terminating zero, whatever the program
\* (globalInitializerBits, internStringLiteral). An address has 24 bits for
\* its offset and eight for its segment: the CONST image must not be larger.
THEOREM ValuesSurvive ==
  ASSUME ByteBase > segmentConst
  PROVE  Spec => [](Len(constImage) <= Base3 => InitializersSurvive)
<1>1. Init => ProgramInv /\ ImageInv
  BY ProgramInductive, ImageInductive
<1>2. ProgramInv /\ ImageInv /\ [Next]_vars => (ProgramInv /\ ImageInv)'
  BY ProgramInductive, ImageInductive DEF ProgramInv, AssemblyInv, CallGraphInv
<1>3. ProgramInv /\ ImageInv => (Len(constImage) <= Base3 => InitializersSurvive)
  BY ImagesLinked
<1> QED BY <1>1, <1>2, <1>3, PTL DEF Spec
=============================================================================
