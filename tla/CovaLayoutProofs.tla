--------------------------- MODULE CovaLayoutProofs --------------------------
(***************************************************************************)
(* Proofs about what the compiler lays out, variables, string literals and *)
(* the frames of functions, and about the call graph: what markReachable   *)
(* marks, which blocks are kept, and what the linker then finds; for every *)
(* program and size of a byte.                                             *)
(***************************************************************************)
EXTENDS CovaToolchainProperties, CovaDataProofs,
        FiniteSetTheorems

-----------------------------------------------------------------------------
(***************************************************************************)
(* The variables of one segment.                                           *)
(***************************************************************************)
DeclaredNames(u) == {u.decls[i].name : i \in DOMAIN u.decls}
Symbols(u) == [name : DeclaredNames(u), kind : SourceKinds, offset : Nat]

\* Aligned, inside the first `size` bytes, and apart.
Laid(list, size) ==
  \A i, j \in DOMAIN list :
    /\ list[i].offset % Alignment(list[i].kind) = 0
    /\ list[i].offset + Size(list[i].kind) <= size
    /\ Overlap(list[i].offset, Size(list[i].kind),
               list[j].offset, Size(list[j].kind)) => i = j

LEMMA SymbolType ==
  ASSUME NEW u, NEW v \in Symbols(u)
  PROVE  v.offset \in Nat /\ v.kind \in SourceKinds /\ Size(v.kind) \in Nat
<1>1. v.offset \in Nat /\ v.kind \in SourceKinds
  BY DEF Symbols
<1> QED BY <1>1, SizeType

\* A segment may grow.
LEMMA LaidGrows ==
  ASSUME NEW u, NEW list \in Seq(Symbols(u)), NEW m \in Nat, NEW n \in Nat,
         m <= n, Laid(list, m)
  PROVE  Laid(list, n)
<1> SUFFICES ASSUME NEW i \in DOMAIN list, NEW j \in DOMAIN list
             PROVE  list[i].offset + Size(list[i].kind) <= n
  BY DEF Laid
<1>1. list[i].offset \in Nat /\ Size(list[i].kind) \in Nat
  <2>1. list[i] \in Symbols(u)
    OBVIOUS
  <2> QED BY <2>1, SymbolType
<1>2. list[i].offset + Size(list[i].kind) <= m
  BY DEF Laid
<1> QED BY <1>1, <1>2

\* A variable put behind the others.
LEMMA LaidAppend ==
  ASSUME NEW u, NEW list \in Seq(Symbols(u)), NEW size \in Nat, Laid(list, size),
         NEW v \in Symbols(u), size <= v.offset, v.offset % Alignment(v.kind) = 0
  PROVE  Laid(Append(list, v), v.offset + Size(v.kind))
<1> DEFINE new == Append(list, v)
           start(i) == new[i].offset
           bytes(i) == Size(new[i].kind)
<1>1. /\ new \in Seq(Symbols(u)) /\ DOMAIN new = 1 .. Len(list) + 1
      /\ \A i \in 1 .. Len(list) : new[i] = list[i]
      /\ new[Len(list) + 1] = v /\ DOMAIN list = 1 .. Len(list) /\ Len(list) \in Nat
  OBVIOUS
<1> HIDE DEF new
<1>2. \A i \in DOMAIN new : start(i) \in Nat /\ bytes(i) \in Nat
  <2>1. \A i \in DOMAIN new : new[i] \in Symbols(u)
    BY <1>1
  <2> QED BY <2>1, SymbolType
<1>3. \A i, j \in 1 .. Len(list) :
        /\ start(i) % Alignment(new[i].kind) = 0
        /\ start(i) + bytes(i) <= size
        /\ Overlap(start(i), bytes(i), start(j), bytes(j)) => i = j
  BY <1>1 DEF Laid
<1>4. /\ start(Len(list) + 1) = v.offset /\ bytes(Len(list) + 1) = Size(v.kind)
      /\ v.offset \in Nat /\ Size(v.kind) \in Nat
      /\ start(Len(list) + 1) % Alignment(new[Len(list) + 1].kind) = 0
  BY <1>1, <1>2
<1>5. \A i \in 1 .. Len(list) + 1 : i \in 1 .. Len(list) \/ i = Len(list) + 1
  BY <1>1
<1> HIDE DEF start, bytes
<1>6. SUFFICES ASSUME NEW i \in DOMAIN new, NEW j \in DOMAIN new
      PROVE  /\ start(i) % Alignment(new[i].kind) = 0
             /\ start(i) + bytes(i) <= v.offset + Size(v.kind)
             /\ Overlap(start(i), bytes(i), start(j), bytes(j)) => i = j
  BY DEF Laid, start, bytes, new
<1>7. /\ i \in 1 .. Len(list) + 1 /\ j \in 1 .. Len(list) + 1
      /\ start(i) \in Nat /\ bytes(i) \in Nat /\ start(j) \in Nat /\ bytes(j) \in Nat
  BY <1>1, <1>2
<1>8. start(i) % Alignment(new[i].kind) = 0
  BY <1>3, <1>4, <1>5, <1>7
<1>9. start(i) + bytes(i) <= v.offset + Size(v.kind)
  <2>1. CASE i \in 1 .. Len(list)
    BY <1>3, <1>4, <1>7, <2>1
  <2>2. CASE i = Len(list) + 1
    BY <1>4, <2>2
  <2> QED BY <1>5, <1>7, <2>1, <2>2
<1>10. Overlap(start(i), bytes(i), start(j), bytes(j)) => i = j
  <2>1. CASE i \in 1 .. Len(list) /\ j \in 1 .. Len(list)
    BY <1>3, <2>1
  <2>2. CASE i \in 1 .. Len(list) /\ j = Len(list) + 1
    BY <1>3, <1>4, <1>7, <2>2 DEF Overlap
  <2>3. CASE i = Len(list) + 1 /\ j \in 1 .. Len(list)
    BY <1>3, <1>4, <1>7, <2>3 DEF Overlap
  <2>4. CASE i = Len(list) + 1 /\ j = Len(list) + 1
    BY <2>4
  <2> QED BY <1>5, <1>7, <2>1, <2>2, <2>3, <2>4
<1> QED BY <1>8, <1>9, <1>10

-----------------------------------------------------------------------------
(***************************************************************************)
(* String literals in the CONST image.                                     *)
(***************************************************************************)

\* Each literal is in the image, NUL-terminated, apart from the others.
Placed(offsets, image) ==
  /\ image \in Seq(Byte)
  /\ DOMAIN offsets \subseteq Seq(Byte)
  /\ offsets \in [DOMAIN offsets -> Nat]
  /\ \A t \in DOMAIN offsets :
       /\ offsets[t] + Len(t) + 1 <= Len(image)
       /\ \A i \in 1 .. Len(t) : image[offsets[t] + i] = t[i]
       /\ image[offsets[t] + Len(t) + 1] = 0
  /\ \A s, t \in DOMAIN offsets :
       Overlap(offsets[s], Len(s) + 1, offsets[t], Len(t) + 1) => s = t

Pools == {p \in [offsets : UNION {[D -> Nat] : D \in SUBSET Seq(Byte)},
                 image : Seq(Byte)] : Placed(p.offsets, p.image)}

\* The pool has only grown: what was there stays, what is new is behind it.
Grown(old, new) ==
  /\ Len(old.image) <= Len(new.image)
  /\ \A i \in 1 .. Len(old.image) : new.image[i] = old.image[i]
  /\ DOMAIN old.offsets \subseteq DOMAIN new.offsets
  /\ \A t \in DOMAIN new.offsets :
       IF t \in DOMAIN old.offsets THEN new.offsets[t] = old.offsets[t]
       ELSE Len(old.image) <= new.offsets[t]

LEMMA GrownTransitive ==
  ASSUME NEW p \in Pools, NEW q \in Pools, NEW r \in Pools, Grown(p, q), Grown(q, r)
  PROVE  Grown(p, r)
<1>1. /\ Len(p.image) \in Nat /\ Len(q.image) \in Nat /\ Len(r.image) \in Nat
      /\ \A t \in DOMAIN r.offsets : r.offsets[t] \in Nat
  BY DEF Pools, Placed
<1>2. Len(p.image) <= Len(q.image) /\ Len(q.image) <= Len(r.image)
  BY DEF Grown
<1>3. \A i \in 1 .. Len(p.image) : r.image[i] = p.image[i]
  BY <1>1, <1>2 DEF Grown
<1>4. DOMAIN p.offsets \subseteq DOMAIN q.offsets /\ DOMAIN q.offsets \subseteq DOMAIN r.offsets
  BY DEF Grown
<1>5. ASSUME NEW t \in DOMAIN r.offsets
      PROVE  IF t \in DOMAIN p.offsets THEN r.offsets[t] = p.offsets[t]
             ELSE Len(p.image) <= r.offsets[t]
  <2>1. CASE t \in DOMAIN q.offsets
    BY <1>4, <2>1 DEF Grown
  <2>2. CASE t \notin DOMAIN q.offsets
    <3>1. Len(q.image) <= r.offsets[t] /\ t \notin DOMAIN p.offsets
      BY <1>4, <2>2 DEF Grown
    <3> QED BY <1>1, <1>2, <3>1
  <2> QED BY <2>1, <2>2
<1> QED BY <1>1, <1>2, <1>3, <1>4, <1>5 DEF Grown

\* Interning a string.
LEMMA InternedIs ==
  ASSUME NEW p \in Pools, NEW s \in Seq(Byte)
  PROVE  /\ Interned(p, s) \in Pools
         /\ Grown(p, Interned(p, s))
         /\ s \in DOMAIN Interned(p, s).offsets
<1>1. /\ p.image \in Seq(Byte) /\ Len(p.image) \in Nat /\ Len(s) \in Nat
      /\ DOMAIN p.offsets \subseteq Seq(Byte)
      /\ \A t \in DOMAIN p.offsets : p.offsets[t] \in Nat /\ Len(t) \in Nat
  BY DEF Pools, Placed
<1>2. CASE s \in DOMAIN p.offsets
  <2>1. Interned(p, s) = p
    BY <1>2 DEF Interned
  <2>2. Grown(p, p)
    BY <1>1 DEF Grown
  <2> QED BY <1>2, <2>1, <2>2
<1>3. CASE s \notin DOMAIN p.offsets
  <2> DEFINE m == Len(p.image)
             image == p.image \o s \o <<0>>
             D == DOMAIN p.offsets \cup {s}
             offsets == [t \in D |-> IF t = s THEN m ELSE p.offsets[t]]
  <2>1. Interned(p, s) = [offsets |-> offsets, image |-> image]
    BY <1>3 DEF Interned
  <2>2. /\ image \in Seq(Byte) /\ Len(image) = m + Len(s) + 1
        /\ \A i \in 1 .. m : image[i] = p.image[i]
        /\ \A i \in 1 .. Len(s) : image[m + i] = s[i]
        /\ image[m + Len(s) + 1] = 0
    <3>1. <<0>> \in Seq(Byte)
      BY ByteAssumption DEF Byte
    <3> QED BY <1>1, <3>1
  <2>3. /\ D \subseteq Seq(Byte) /\ offsets \in [D -> Nat] /\ DOMAIN offsets = D
        /\ offsets[s] = m
        /\ \A t \in DOMAIN p.offsets : offsets[t] = p.offsets[t]
    BY <1>1, <1>3
  <2>4. m \in Nat
    BY <1>1
  <2> HIDE DEF m, image, D, offsets
  <2>5. \A t \in DOMAIN p.offsets :
          /\ p.offsets[t] + Len(t) + 1 <= m
          /\ \A i \in 1 .. Len(t) : p.image[p.offsets[t] + i] = t[i]
          /\ p.image[p.offsets[t] + Len(t) + 1] = 0
    BY DEF Pools, Placed, m
  <2>6. \A t \in D : t \in DOMAIN p.offsets \/ t = s
    BY DEF D
  <2>7. ASSUME NEW t \in D
        PROVE  /\ offsets[t] + Len(t) + 1 <= Len(image)
               /\ \A i \in 1 .. Len(t) : image[offsets[t] + i] = t[i]
               /\ image[offsets[t] + Len(t) + 1] = 0
    <3>1. CASE t = s
      BY <1>1, <2>2, <2>3, <2>4, <3>1
    <3>2. CASE t \in DOMAIN p.offsets
      <4>1. /\ offsets[t] = p.offsets[t] /\ p.offsets[t] \in Nat /\ Len(t) \in Nat
            /\ p.offsets[t] + Len(t) + 1 <= m
        BY <1>1, <2>3, <2>5, <3>2
      <4>2. /\ \A i \in 1 .. Len(t) : p.offsets[t] + i \in 1 .. m
            /\ p.offsets[t] + Len(t) + 1 \in 1 .. m
        BY <2>4, <4>1
      <4>3. offsets[t] + Len(t) + 1 <= Len(image)
        BY <1>1, <2>2, <2>4, <4>1
      <4> QED BY <2>2, <2>5, <3>2, <4>1, <4>2, <4>3
    <3> QED BY <2>6, <3>1, <3>2
  <2>8. ASSUME NEW t \in D, NEW u \in D,
               Overlap(offsets[t], Len(t) + 1, offsets[u], Len(u) + 1)
        PROVE  t = u
    <3>1. CASE t \in DOMAIN p.offsets /\ u \in DOMAIN p.offsets
      BY <2>3, <2>8, <3>1 DEF Pools, Placed
    <3>2. CASE t \in DOMAIN p.offsets /\ u = s
      BY <1>1, <2>3, <2>4, <2>5, <2>8, <3>2 DEF Overlap
    <3>3. CASE t = s /\ u \in DOMAIN p.offsets
      BY <1>1, <2>3, <2>4, <2>5, <2>8, <3>3 DEF Overlap
    <3> QED BY <2>6, <3>1, <3>2, <3>3
  <2>9. Placed(offsets, image)
    BY <2>2, <2>3, <2>7, <2>8 DEF Placed
  <2>10. Interned(p, s) \in Pools
    BY <2>1, <2>2, <2>3, <2>9 DEF Pools
  <2>11. Grown(p, Interned(p, s))
    <3>1. DOMAIN p.offsets \subseteq D
      BY DEF D
    <3>2. m <= Len(image)
      BY <1>1, <2>2, <2>4
    <3> QED BY <2>1, <2>2, <2>3, <2>4, <2>6, <3>1, <3>2 DEF Grown, m
  <2> QED BY <2>1, <2>3, <2>10, <2>11 DEF D
<1> QED BY <1>2, <1>3

Pool == [offsets |-> literals, image |-> constImage]

\* The strings of a body, interned one after the other.
LEMMA InterningIs ==
  ASSUME NEW f, Strings(f.body) \in Seq(Seq(Byte)), Pool \in Pools
  PROVE  /\ Interning(f) \in Pools
         /\ Grown(Pool, Interning(f))
         /\ \A k \in DOMAIN Strings(f.body) :
              Strings(f.body)[k] \in DOMAIN Interning(f).offsets
<1> DEFINE texts == Strings(f.body)
           n == Len(texts)
           Steps(g) == g = [k \in 0 .. n |-> IF k = 0 THEN Pool
                                             ELSE Interned(g[k - 1], texts[k])]
           pool == CHOOSE g : Steps(g)
<1>1. texts \in Seq(Seq(Byte)) /\ n \in Nat /\ DOMAIN texts = 1 .. n
  OBVIOUS
<1>2. Interning(f) = pool[n]
  BY DEF Interning, Pool
<1> HIDE DEF texts, n
<1>3. \E g : Steps(g)
  <2> DEFINE F == [a \in (1 .. n) \X Pools |-> Interned(a[2], texts[a[1]])]
  <2>1. \A k \in 1 .. n : \A p \in Pools : F[<<k, p>>] = Interned(p, texts[k])
    OBVIOUS
  <2>2. F \in [(1 .. n) \X Pools -> Pools]
    BY <1>1, InternedIs
  <2> HIDE DEF F
  <2>3. PICK g \in [0 .. n -> Pools] :
          g[0] = Pool /\ \A k \in 1 .. n : g[k] = F[<<k, g[k - 1]>>]
    <3>1. Pool \in Pools
      OBVIOUS
    <3>2. HasIteration(Pools, n, Pool, F)
      BY <1>1, <2>2, <3>1, IterationExists
    <3> QED BY <3>2 DEF HasIteration, IsIteration
  <2>4. ASSUME NEW k \in 0 .. n
        PROVE  g[k] = IF k = 0 THEN Pool ELSE Interned(g[k - 1], texts[k])
    <3>1. k # 0 => k \in 1 .. n /\ k - 1 \in 0 .. n
      BY <1>1
    <3> QED BY <2>1, <2>3, <3>1
  <2>5. g = [k \in 0 .. n |-> g[k]]
    BY <2>3
  <2>6. Steps(g)
    BY <2>4, <2>5
  <2> HIDE DEF Steps
  <2> QED BY <2>6
<1>4. Steps(pool)
  <2> HIDE DEF Steps
  <2> QED BY <1>3
<1>5. /\ pool[0] = Pool
      /\ \A k \in 1 .. n : pool[k] = Interned(pool[k - 1], texts[k])
  <2> HIDE DEF pool
  <2>1. pool = [k \in 0 .. n |-> IF k = 0 THEN Pool
                                 ELSE Interned(pool[k - 1], texts[k])]
    BY <1>4
  <2> QED BY <1>1, <2>1
<1> HIDE DEF pool, Steps
<1> DEFINE S == {k \in 0 .. n : /\ pool[k] \in Pools /\ Grown(Pool, pool[k])
                                /\ \A j \in 1 .. k : texts[j] \in DOMAIN pool[k].offsets}
<1>6. 0 \in S
  <2>1. Grown(Pool, Pool)
    BY DEF Grown, Pools, Placed
  <2> QED BY <1>1, <1>5, <2>1
<1>7. ASSUME NEW k \in 0 .. n - 1, k \in S PROVE k + 1 \in S
  <2>1. k \in Nat /\ k + 1 \in 1 .. n /\ k + 1 \in 0 .. n /\ (k + 1) - 1 = k
    BY <1>1
  <2>2. /\ pool[k] \in Pools /\ Grown(Pool, pool[k])
        /\ \A j \in 1 .. k : texts[j] \in DOMAIN pool[k].offsets
    BY <1>7
  <2>3. pool[k + 1] = Interned(pool[k], texts[k + 1]) /\ texts[k + 1] \in Seq(Byte)
    BY <1>1, <1>5, <2>1
  <2> DEFINE q == Interned(pool[k], texts[k + 1])
  <2>4. q \in Pools /\ Grown(pool[k], q) /\ texts[k + 1] \in DOMAIN q.offsets
    BY <2>2, <2>3, InternedIs
  <2> HIDE DEF q
  <2>5. Grown(Pool, q)
    BY <2>2, <2>4, GrownTransitive
  <2>6. \A j \in 1 .. k + 1 : texts[j] \in DOMAIN q.offsets
    <3>1. DOMAIN pool[k].offsets \subseteq DOMAIN q.offsets
      BY <2>4 DEF Grown
    <3>2. \A j \in 1 .. k + 1 : j \in 1 .. k \/ j = k + 1
      BY <2>1
    <3> QED BY <2>2, <2>4, <3>1, <3>2
  <2> QED BY <2>1, <2>3, <2>4, <2>5, <2>6 DEF q
<1>8. n \in S
  <2>1. 0 .. n \subseteq S
    <3> HIDE DEF S
    <3> QED BY <1>1, <1>6, <1>7, SetInduction
  <2>2. n \in 0 .. n
    BY <1>1
  <2> HIDE DEF S
  <2> QED BY <2>1, <2>2
<1> QED BY <1>1, <1>2, <1>8 DEF texts

-----------------------------------------------------------------------------
(***************************************************************************)
(* The frame of a function.                                                *)
(***************************************************************************)

\* Slots lie one behind the other, aligned, inside the frame.
LEMMA FrameIs ==
  ASSUME NEW slots, IsSlots(slots)
  PROVE  /\ Frame(slots).bytes \in Nat
         /\ Frame(slots).offsets \in [1 .. Len(slots) -> Nat]
         /\ \A i \in 1 .. Len(slots) :
              /\ Frame(slots).offsets[i] % Alignment(slots[i].kind) = 0
              /\ Frame(slots).offsets[i] + Size(slots[i].kind) <= Frame(slots).bytes
         /\ \A i, j \in 1 .. Len(slots) :
              i < j => Frame(slots).offsets[i] + Size(slots[i].kind)
                         <= Frame(slots).offsets[j]
<1> DEFINE n == Len(slots)
           Next1(e, k) == alignUp(e, Alignment(slots[k].kind)) + Size(slots[k].kind)
           Steps(g) == g = [i \in 0 .. n |-> IF i = 0 THEN 0 ELSE
                              alignUp(g[i - 1], Alignment(slots[i].kind))
                                + Size(slots[i].kind)]
           end == CHOOSE g : Steps(g)
           off == [i \in 1 .. n |-> alignUp(end[i - 1], Alignment(slots[i].kind))]
<1>1. n \in Nat
  BY DEF IsSlots
<1>2. Frame(slots) = [bytes |-> end[n], offsets |-> off]
  BY DEF Frame
<1>3. \A k \in 1 .. n : Alignment(slots[k].kind) \in {1, 2, 4, 8}
                         /\ Size(slots[k].kind) \in Nat
  BY AlignmentType, SizeType
<1> HIDE DEF n
<1>4. ASSUME NEW e \in Nat, NEW k \in 1 .. n
      PROVE  /\ alignUp(e, Alignment(slots[k].kind)) \in Nat
             /\ e <= alignUp(e, Alignment(slots[k].kind))
             /\ alignUp(e, Alignment(slots[k].kind)) % Alignment(slots[k].kind) = 0
             /\ Next1(e, k) \in Nat
  <2>1. /\ alignUp(e, Alignment(slots[k].kind)) \in Nat
        /\ e <= alignUp(e, Alignment(slots[k].kind))
        /\ alignUp(e, Alignment(slots[k].kind)) % Alignment(slots[k].kind) = 0
    BY <1>3, AlignUpIs
  <2> QED BY <1>3, <2>1
<1>5. \E g : g \in [0 .. n -> Nat] /\ Steps(g)
  <2> DEFINE F == [a \in (1 .. n) \X Nat |-> Next1(a[2], a[1])]
  <2> HIDE DEF Next1
  <2>1. \A k \in 1 .. n : \A e \in Nat : F[<<k, e>>] = Next1(e, k)
    OBVIOUS
  <2>2. F \in [(1 .. n) \X Nat -> Nat]
    BY <1>4
  <2> HIDE DEF F
  <2>3. PICK g \in [0 .. n -> Nat] :
          g[0] = 0 /\ \A k \in 1 .. n : g[k] = F[<<k, g[k - 1]>>]
    <3>1. 0 \in Nat
      OBVIOUS
    <3>2. HasIteration(Nat, n, 0, F)
      BY <1>1, <2>2, <3>1, IterationExists
    <3> QED BY <3>2 DEF HasIteration, IsIteration
  <2>4. ASSUME NEW k \in 0 .. n
        PROVE  g[k] = IF k = 0 THEN 0 ELSE Next1(g[k - 1], k)
    <3>1. k # 0 => k \in 1 .. n /\ k - 1 \in 0 .. n
      BY <1>1
    <3> QED BY <2>1, <2>3, <3>1
  <2>5. g = [k \in 0 .. n |-> g[k]]
    BY <2>3
  <2>6. Steps(g)
    BY <2>4, <2>5 DEF Next1
  <2> HIDE DEF Steps
  <2> QED BY <2>3, <2>6
<1>6. Steps(end)
  <2> HIDE DEF Steps
  <2> QED BY <1>5
<1>7. /\ end[0] = 0
      /\ \A k \in 1 .. n : end[k] = Next1(end[k - 1], k)
  <2> HIDE DEF end
  <2>1. end = [i \in 0 .. n |-> IF i = 0 THEN 0 ELSE Next1(end[i - 1], i)]
    BY <1>6
  <2> HIDE DEF Next1
  <2> QED BY <1>1, <2>1
<1>8. \A k \in 1 .. n : off[k] = alignUp(end[k - 1], Alignment(slots[k].kind))
  <2> HIDE DEF end
  <2> QED OBVIOUS
<1>9. off = [i \in 1 .. n |-> off[i]]
  OBVIOUS
<1> HIDE DEF end, Steps, off
<1> DEFINE S == {k \in 0 .. n : \A i \in 0 .. k : end[i] \in Nat /\ end[i] <= end[k]}
<1>10. 0 \in S
  BY <1>1, <1>7
<1>11. ASSUME NEW k \in 0 .. n - 1, k \in S PROVE k + 1 \in S
  <2>1. k \in Nat /\ k + 1 \in 1 .. n /\ k + 1 \in 0 .. n /\ (k + 1) - 1 = k
    BY <1>1
  <2>2. \A i \in 0 .. k : end[i] \in Nat /\ end[i] <= end[k]
    BY <1>11
  <2>3. end[k] \in Nat
    BY <2>1, <2>2
  <2>4. end[k + 1] \in Nat /\ end[k] <= end[k + 1]
    <3>1. end[k + 1] = Next1(end[k], k + 1)
      BY <1>7, <2>1
    <3>2. alignUp(end[k], Alignment(slots[k + 1].kind)) \in Nat
          /\ end[k] <= alignUp(end[k], Alignment(slots[k + 1].kind))
      BY <1>4, <2>1, <2>3
    <3> QED BY <1>3, <2>1, <2>3, <3>1, <3>2
  <2>5. \A i \in 0 .. k + 1 : i \in 0 .. k \/ i = k + 1
    BY <2>1
  <2>6. \A i \in 0 .. k + 1 : end[i] \in Nat /\ end[i] <= end[k + 1]
    BY <2>2, <2>3, <2>4, <2>5
  <2> QED BY <2>1, <2>6
<1>12. 0 .. n \subseteq S
  <2> HIDE DEF S
  <2> QED BY <1>1, <1>10, <1>11, SetInduction
<1>13. \A k \in 0 .. n : \A i \in 0 .. k : end[i] \in Nat /\ end[i] <= end[k]
  BY <1>12
<1> HIDE DEF S
<1>14. ASSUME NEW k \in 1 .. n
       PROVE  /\ k - 1 \in 0 .. n /\ k \in 0 .. n
              /\ off[k] \in Nat /\ end[k - 1] <= off[k]
              /\ off[k] % Alignment(slots[k].kind) = 0
              /\ off[k] + Size(slots[k].kind) = end[k]
              /\ end[k] <= end[n]
  <2>1. k - 1 \in 0 .. n /\ k \in 0 .. n /\ n \in 0 .. n /\ k \in 0 .. n
        /\ k - 1 \in 0 .. k - 1
    BY <1>1
  <2>2. end[k - 1] \in Nat /\ end[k] <= end[n]
    BY <1>13, <2>1
  <2>3. off[k] \in Nat /\ end[k - 1] <= off[k]
        /\ off[k] % Alignment(slots[k].kind) = 0
    BY <1>4, <1>8, <2>2
  <2>4. off[k] + Size(slots[k].kind) = end[k]
    BY <1>7, <1>8
  <2> QED BY <2>1, <2>2, <2>3, <2>4
<1>15. n \in 0 .. n /\ end[n] \in Nat
  BY <1>1, <1>13
<1>16. off \in [1 .. n -> Nat]
  BY <1>9, <1>14
<1>17. ASSUME NEW i \in 1 .. n, NEW j \in 1 .. n, i < j
       PROVE  off[i] + Size(slots[i].kind) <= off[j]
  <2>1. i \in 0 .. j - 1 /\ j - 1 \in 0 .. n /\ j - 1 \in 0 .. j - 1
    BY <1>1, <1>17
  <2>2. end[i] <= end[j - 1] /\ end[i] \in Nat /\ end[j - 1] \in Nat
    BY <1>13, <2>1
  <2>3. off[j] \in Nat /\ end[j - 1] <= off[j] /\ off[i] + Size(slots[i].kind) = end[i]
    BY <1>14
  <2> QED BY <2>2, <2>3
<1>18. /\ Frame(slots).bytes = end[n]
       /\ Frame(slots).offsets = off
  BY <1>2
<1> QED BY <1>14, <1>15, <1>16, <1>17, <1>18 DEF n

-----------------------------------------------------------------------------
(***************************************************************************)
(* The invariant of the layout.                                            *)
(***************************************************************************)
FunctionNames(u) ==
  DeclaredNames(u) \cup {u.functions[i].name : i \in DOMAIN u.functions}
Bindings(u) ==
  [name : FunctionNames(u), id : Nat, scope : {"Extern", "BSS"}, slot : Nat,
   returnKind : SourceKinds, paramKinds : Seq(SourceKinds),
   paramOffsets : Seq(Nat), slotCount : Nat, frameByteSize : Nat, address : Nat]

FrontPhases == {"declare", "initialize", "register", "compile"}

\* No literal lies where a constant does.
Apart(offsets, list) ==
  \A s \in DOMAIN offsets : \A i \in DOMAIN list :
    ~Overlap(offsets[s], Len(s) + 1, list[i].offset, Size(list[i].kind))

LayoutTypes ==
  /\ unit \in Units
  /\ at \in Nat \ {0}
  /\ symbols \in [VariableScopes -> Seq(Symbols(unit))]
  /\ phase \in FrontPhases => functions \in Seq(Bindings(unit))
  /\ bssByteSize \in Nat
  /\ dataImage \in Seq(Byte)

\* A variable is in the list of its scope.
IsIn(scopes, d) ==
  \E j \in DOMAIN scopes[d.scope] :
    scopes[d.scope][j].name = d.name /\ scopes[d.scope][j].kind = d.kind

DistinctVariables(scopes) ==
  \A s \in VariableScopes : DistinctNames(scopes[s])

VariablesRegistered ==
  phase # "failed" =>
    \A i \in DOMAIN unit.decls :
      unit.decls[i].declares = "variable" /\ (phase = "declare" => i < at)
        => IsIn(symbols, unit.decls[i])

LayoutInv ==
  /\ LayoutTypes
  /\ VariablesRegistered
  /\ DistinctVariables(symbols)
  /\ phase = "declare" => DOMAIN literals = {}
  /\ Placed(literals, constImage)
  /\ Laid(symbols["BSS"], bssByteSize)
  /\ Laid(symbols["Data"], Len(dataImage))
  /\ Laid(symbols["Const"], Len(constImage))
  /\ Apart(literals, symbols["Const"])

\* The invariant says that storage is disjoint.
LEMMA LayoutImplies == LayoutInv => StorageDisjoint
<1> SUFFICES ASSUME LayoutInv PROVE StorageDisjoint
  OBVIOUS
<1> DEFINE size == [s \in {"BSS", "Data", "Const"} |->
                      CASE s = "BSS" -> bssByteSize [] s = "Data" -> Len(dataImage)
                        [] s = "Const" -> Len(constImage)]
<1>1. /\ DOMAIN size = {"BSS", "Data", "Const"}
      /\ size["BSS"] = bssByteSize /\ size["Data"] = Len(dataImage)
      /\ size["Const"] = Len(constImage)
  OBVIOUS
<1> HIDE DEF size
<1>2. \A s \in DOMAIN size : Laid(symbols[s], size[s])
  BY <1>1 DEF LayoutInv
<1>3. \A s \in DOMAIN size : \A i, j \in DOMAIN symbols[s] :
        LET v == symbols[s][i]
            w == symbols[s][j]
        IN  /\ v.offset % Alignment(v.kind) = 0
            /\ v.offset + Size(v.kind) <= size[s]
            /\ Overlap(v.offset, Size(v.kind), w.offset, Size(w.kind)) => i = j
  BY <1>2 DEF Laid
<1>4. \A s, t \in DOMAIN literals :
        Overlap(literals[s], Len(s) + 1, literals[t], Len(t) + 1) => s = t
  BY DEF LayoutInv, Placed
<1>5. \A s \in DOMAIN literals : \A i \in DOMAIN symbols["Const"] :
        LET v == symbols["Const"][i]
        IN  ~Overlap(literals[s], Len(s) + 1, v.offset, Size(v.kind))
  BY DEF LayoutInv, Apart
<1> QED BY <1>3, <1>4, <1>5 DEF StorageDisjoint, size

LEMMA LayoutInit == Init => LayoutInv
<1> SUFFICES ASSUME Init PROVE LayoutInv
  OBVIOUS
<1>1. /\ symbols = [s \in VariableScopes |-> <<>>] /\ functions = <<>>
      /\ literals = <<>> /\ constImage = <<>> /\ dataImage = <<>>
      /\ bssByteSize = 0 /\ phase = "declare" /\ at = 1 /\ unit \in Units
  BY DEF Init
<1>2. \A s \in VariableScopes : symbols[s] = <<>>
  BY <1>1
<1>3. DOMAIN literals = {} /\ DOMAIN <<>> = {}
  BY <1>1
<1>4. LayoutTypes
  BY <1>1 DEF LayoutTypes
<1>5. VariablesRegistered
  <2>1. IsUnit(unit)
    BY <1>1, UnitsAssumption
  <2>2. DOMAIN unit.decls = 1 .. Len(unit.decls) /\ Len(unit.decls) \in Nat
    BY <2>1 DEF IsUnit
  <2>3. \A i \in DOMAIN unit.decls : ~(i < at)
    BY <1>1, <2>2
  <2> QED BY <1>1, <2>3 DEF VariablesRegistered
<1>6. Placed(literals, constImage)
  BY <1>1, <1>3 DEF Placed
<1>7. \A s \in {"BSS", "Data", "Const"} : \A n : Laid(symbols[s], n)
  BY <1>2, <1>3 DEF Laid, VariableScopes
<1>8. DistinctVariables(symbols)
  BY <1>2, <1>3 DEF DistinctVariables, DistinctNames
<1> QED BY <1>1, <1>3, <1>4, <1>5, <1>6, <1>7, <1>8 DEF LayoutInv, Apart

\* What the unit's lists are.
LEMMA UnitType ==
  ASSUME unit \in Units
  PROVE  /\ Len(unit.decls) \in Nat /\ DOMAIN unit.decls = 1 .. Len(unit.decls)
         /\ Len(unit.functions) \in Nat
         /\ DOMAIN unit.functions = 1 .. Len(unit.functions)
         /\ \A i \in DOMAIN unit.decls : IsDeclaration(unit.decls[i])
         /\ \A i \in DOMAIN unit.functions : IsFunctionDefinition(unit.functions[i])
<1>1. IsUnit(unit)
  BY UnitsAssumption
<1> QED BY <1>1 DEF IsUnit

\* A step that leaves the layout alone.
LEMMA LayoutKept ==
  ASSUME LayoutInv,
         UNCHANGED <<unit, symbols, bssByteSize, dataImage, constImage, literals>>,
         at' \in Nat \ {0}, phase' # "declare",
         phase' # "failed" =>
           phase # "failed" /\ (phase = "declare" => at > Len(unit.decls)),
         phase' \in FrontPhases => functions' \in Seq(Bindings(unit))
  PROVE  LayoutInv'
<1>1. VariablesRegistered'
  <2> SUFFICES ASSUME phase' # "failed", NEW i \in DOMAIN unit.decls,
                      unit.decls[i].declares = "variable"
               PROVE  IsIn(symbols', unit.decls[i])
    BY DEF VariablesRegistered
  <2>1. phase = "declare" => i < at
    <3>1. unit \in Units /\ at \in Nat
      BY DEF LayoutInv, LayoutTypes
    <3>2. i \in 1 .. Len(unit.decls) /\ Len(unit.decls) \in Nat
      BY <3>1, UnitType
    <3> QED BY <3>1, <3>2
  <2>2. IsIn(symbols, unit.decls[i])
    BY <2>1 DEF LayoutInv, VariablesRegistered
  <2> QED BY <2>2 DEF IsIn
<1>2. LayoutTypes'
  BY DEF LayoutInv, LayoutTypes
<1> QED BY <1>1, <1>2 DEF LayoutInv

-----------------------------------------------------------------------------
(***************************************************************************)
(* Each action keeps it.                                                   *)
(***************************************************************************)
LEMMA BindingType ==
  ASSUME NEW f, NEW scope \in {"Extern", "BSS"}, NEW slot \in Nat,
         f.name \in FunctionNames(unit), f.kind \in SourceKinds, IsSlots(f.params),
         functions \in Seq(Bindings(unit))
  PROVE  FunctionBinding(f, scope, slot) \in Bindings(unit)
<1>1. Len(functions) \in Nat
  OBVIOUS
<1>2. [i \in DOMAIN f.params |-> f.params[i].kind] \in Seq(SourceKinds)
  <2>1. DOMAIN f.params = 1 .. Len(f.params) /\ Len(f.params) \in Nat
    BY DEF IsSlots
  <2>2. \A i \in DOMAIN f.params : f.params[i].kind \in SourceKinds
    BY DEF IsSlots
  <2> QED BY <2>1, <2>2
<1>3. <<>> \in Seq(Nat) /\ 0 \in Nat
  OBVIOUS
<1> DEFINE kinds == [i \in DOMAIN f.params |-> f.params[i].kind]
           m == Len(functions)
<1> HIDE DEF kinds, m
<1>4. [name |-> f.name, id |-> m, scope |-> scope, slot |-> slot,
       returnKind |-> f.kind, paramKinds |-> kinds,
       paramOffsets |-> <<>>, slotCount |-> 0, frameByteSize |-> 0, address |-> 0]
        \in Bindings(unit)
  <2>1. m \in Nat /\ kinds \in Seq(SourceKinds)
    BY <1>1, <1>2 DEF m, kinds
  <2> QED BY <1>3, <2>1 DEF Bindings
<1> QED BY <1>4 DEF FunctionBinding, kinds, m

\* Padding a segment.
LEMMA PaddedIs ==
  ASSUME NEW image \in Seq(Byte), NEW size \in Nat, Len(image) <= size
  PROVE  /\ Padded(image, size) \in Seq(Byte)
         /\ Len(Padded(image, size)) = size
         /\ \A i \in 1 .. Len(image) : Padded(image, size)[i] = image[i]
         /\ \A i \in Len(image) + 1 .. size : Padded(image, size)[i] = 0
<1>1. CASE size <= Len(image)
  <2>1. Padded(image, size) = image /\ size = Len(image)
    BY <1>1 DEF Padded
  <2>2. \A i \in Len(image) + 1 .. size : FALSE
    BY <2>1
  <2> QED BY <2>1, <2>2
<1>2. CASE ~(size <= Len(image))
  <2>1. Padded(image, size) = image \o Zeros(size - Len(image))
    BY <1>2 DEF Padded
  <2>2. size - Len(image) \in Nat
    BY <1>2
  <2>3. /\ Zeros(size - Len(image)) \in Seq(Byte)
        /\ Len(Zeros(size - Len(image))) = size - Len(image)
    BY <2>2, ZerosType
  <2>4. \A i \in 1 .. size - Len(image) : Zeros(size - Len(image))[i] = 0
    BY DEF Zeros
  <2> DEFINE z == Zeros(size - Len(image))
  <2> HIDE DEF z
  <2>5. /\ image \o z \in Seq(Byte) /\ Len(image \o z) = size
        /\ \A i \in 1 .. Len(image) : (image \o z)[i] = image[i]
        /\ \A i \in Len(image) + 1 .. size : (image \o z)[i] = 0
    <3>1. /\ z \in Seq(Byte) /\ Len(z) = size - Len(image)
          /\ \A i \in 1 .. size - Len(image) : z[i] = 0
      BY <2>3, <2>4 DEF z
    <3>2. \A i \in Len(image) + 1 .. size : i - Len(image) \in 1 .. size - Len(image)
      BY <2>2
    <3>3. /\ image \o z \in Seq(Byte) /\ Len(image \o z) = size
          /\ \A i \in 1 .. Len(image) : (image \o z)[i] = image[i]
      BY <3>1
    <3>4. \A i \in Len(image) + 1 .. size : (image \o z)[i] = z[i - Len(image)]
      BY <3>1
    <3> QED BY <3>1, <3>2, <3>3, <3>4
  <2> QED BY <2>1, <2>5 DEF z
<1> QED BY <1>1, <1>2

\* A variable is registered behind those of its segment.
LEMMA DeclareVariableLays ==
  ASSUME LayoutInv, NEW d, IsDeclaration(d), d.name \in DeclaredNames(unit),
         phase = "declare", ~NameTaken(d.name), DeclareVariable(d),
         UNCHANGED <<unit, literals>>
  PROVE  /\ symbols' \in [VariableScopes -> Seq(Symbols(unit))]
         /\ bssByteSize' \in Nat
         /\ dataImage' \in Seq(Byte)
         /\ Placed(literals, constImage')
         /\ Laid(symbols'["BSS"], bssByteSize')
         /\ Laid(symbols'["Data"], Len(dataImage'))
         /\ Laid(symbols'["Const"], Len(constImage'))
         /\ DistinctVariables(symbols')
         /\ IsIn(symbols', d)
         /\ \A e : IsIn(symbols, e) /\ e.scope \in VariableScopes => IsIn(symbols', e)
<1> DEFINE offset == VariableOffset(d)
           end == offset + Size(d.kind)
           v == [name |-> d.name, kind |-> d.kind, offset |-> offset]
<1>1. /\ d.scope \in VariableScopes /\ d.kind \in SourceKinds
      /\ d.scope = "Extern" => d.index \in Nat
  BY DEF IsDeclaration
<1>2. /\ symbols \in [VariableScopes -> Seq(Symbols(unit))]
      /\ bssByteSize \in Nat /\ dataImage \in Seq(Byte) /\ constImage \in Seq(Byte)
      /\ Len(dataImage) \in Nat /\ Len(constImage) \in Nat
      /\ DOMAIN literals = {}
  BY DEF LayoutInv, LayoutTypes, Placed
<1>3. Alignment(d.kind) \in {1, 2, 4, 8} /\ Size(d.kind) \in Nat
  BY AlignmentType, SizeType
<1>4. /\ offset \in Nat
      /\ d.scope = "BSS" => bssByteSize <= offset
      /\ d.scope = "Data" => Len(dataImage) <= offset
      /\ d.scope = "Const" => Len(constImage) <= offset
      /\ d.scope # "Extern" => offset % Alignment(d.kind) = 0
  <2>1. CASE d.scope = "Extern"
    BY <1>1, <2>1 DEF VariableOffset
  <2>2. CASE d.scope = "BSS"
    <3>1. offset = alignUp(bssByteSize, Alignment(d.kind))
      BY <2>2 DEF VariableOffset
    <3> QED BY ZenonT(30), <1>2, <1>3, <2>2, <3>1, AlignUpIs
  <2>3. CASE d.scope = "Data"
    <3>1. offset = alignUp(Len(dataImage), Alignment(d.kind))
      BY <2>3 DEF VariableOffset
    <3> QED BY <1>2, <1>3, <2>3, <3>1, AlignUpIs
  <2>4. CASE d.scope = "Const"
    <3>1. offset = alignUp(Len(constImage), Alignment(d.kind))
      BY <2>4 DEF VariableOffset
    <3> QED BY <1>2, <1>3, <2>4, <3>1, AlignUpIs
  <2> QED BY <1>1, <2>1, <2>2, <2>3, <2>4 DEF VariableScopes
<1>5. /\ symbols' = [symbols EXCEPT ![d.scope] = Append(@, v)]
      /\ bssByteSize' = IF d.scope = "BSS" THEN end ELSE bssByteSize
      /\ dataImage' = IF d.scope = "Data" THEN Padded(dataImage, end) ELSE dataImage
      /\ constImage' = IF d.scope = "Const" THEN Padded(constImage, end) ELSE constImage
  BY DEF DeclareVariable
<1> HIDE DEF offset
<1>6. v \in Symbols(unit) /\ v.offset = offset /\ v.kind = d.kind /\ v.name = d.name
  <2>1. v \in [name : DeclaredNames(unit), kind : SourceKinds, offset : Nat]
    BY <1>1, <1>4
  <2> QED BY <2>1 DEF Symbols
<1> HIDE DEF v
<1>7. end \in Nat /\ offset <= end
  BY <1>3, <1>4
<1>8. /\ symbols'[d.scope] = Append(symbols[d.scope], v)
      /\ \A s \in VariableScopes : s # d.scope => symbols'[s] = symbols[s]
      /\ \A s \in VariableScopes : symbols[s] \in Seq(Symbols(unit))
  BY <1>1, <1>2, <1>5
<1>9. symbols' \in [VariableScopes -> Seq(Symbols(unit))]
  <2>1. Append(symbols[d.scope], v) \in Seq(Symbols(unit))
    BY <1>1, <1>6, <1>8
  <2> QED BY <1>1, <1>2, <1>5, <2>1
<1>10. Laid(symbols["BSS"], bssByteSize) /\ Laid(symbols["Data"], Len(dataImage))
       /\ Laid(symbols["Const"], Len(constImage))
  BY DEF LayoutInv
<1>11. {"BSS", "Data", "Const"} \subseteq VariableScopes
  BY DEF VariableScopes
<1>12. ASSUME NEW s \in {"BSS", "Data", "Const"}, NEW n \in Nat, Laid(symbols[s], n),
              s = d.scope, n <= offset
       PROVE  Laid(symbols'[s], end)
  <2>1. symbols'[s] = Append(symbols[s], v) /\ symbols[s] \in Seq(Symbols(unit))
    BY <1>8, <1>11, <1>12
  <2>2. v.offset % Alignment(v.kind) = 0 /\ n <= v.offset
    BY <1>4, <1>6, <1>12
  <2>3. Laid(Append(symbols[s], v), v.offset + Size(v.kind))
    BY <1>6, <1>12, <2>1, <2>2, LaidAppend
  <2> QED BY <1>6, <2>1, <2>3
<1>13. Laid(symbols'["BSS"], bssByteSize') /\ bssByteSize' \in Nat
  <2>1. CASE d.scope = "BSS"
    BY <1>2, <1>4, <1>5, <1>7, <1>10, <1>12, <2>1
  <2>2. CASE d.scope # "BSS"
    BY <1>2, <1>5, <1>8, <1>10, <1>11, <2>2
  <2> QED BY <2>1, <2>2
<1>14. Laid(symbols'["Data"], Len(dataImage')) /\ dataImage' \in Seq(Byte)
  <2>1. CASE d.scope = "Data"
    <3>1. Len(dataImage) <= end
      BY <1>2, <1>4, <1>7, <2>1
    <3>2. dataImage' \in Seq(Byte) /\ Len(dataImage') = end
      BY <1>2, <1>5, <1>7, <2>1, <3>1, PaddedIs
    <3> QED BY <1>2, <1>4, <1>10, <1>12, <2>1, <3>2
  <2>2. CASE d.scope # "Data"
    BY <1>2, <1>5, <1>8, <1>10, <1>11, <2>2
  <2> QED BY <2>1, <2>2
<1>15. Laid(symbols'["Const"], Len(constImage')) /\ constImage' \in Seq(Byte)
  <2>1. CASE d.scope = "Const"
    <3>1. Len(constImage) <= end
      BY <1>2, <1>4, <1>7, <2>1
    <3>2. constImage' \in Seq(Byte) /\ Len(constImage') = end
      BY <1>2, <1>5, <1>7, <2>1, <3>1, PaddedIs
    <3> QED BY <1>2, <1>4, <1>10, <1>12, <2>1, <3>2
  <2>2. CASE d.scope # "Const"
    BY <1>2, <1>5, <1>8, <1>10, <1>11, <2>2
  <2> QED BY <2>1, <2>2
<1>16. Placed(literals, constImage')
  <2>1. literals \in [DOMAIN literals -> Nat]
    BY DEF LayoutInv, Placed
  <2> QED BY <1>2, <1>15, <2>1 DEF Placed
<1>17. IsIn(symbols', d)
  <2> DEFINE list == symbols'[d.scope]
             j == Len(symbols[d.scope]) + 1
  <2>1. symbols[d.scope] \in Seq(Symbols(unit))
    BY <1>1, <1>8
  <2>2. j \in DOMAIN list /\ list[j] = v
    BY <1>8, <2>1
  <2>3. \E k \in DOMAIN list : list[k].name = d.name /\ list[k].kind = d.kind
    BY <1>6, <2>2
  <2> QED BY <2>3 DEF IsIn
<1>18. ASSUME NEW e, IsIn(symbols, e), e.scope \in VariableScopes PROVE IsIn(symbols', e)
  <2>1. PICK j \in DOMAIN symbols[e.scope] : symbols[e.scope][j].name = e.name
                                             /\ symbols[e.scope][j].kind = e.kind
    BY <1>18 DEF IsIn
  <2>2. symbols[e.scope] \in Seq(Symbols(unit))
    BY <1>8, <1>18
  <2>3. j \in DOMAIN symbols'[e.scope] /\ symbols'[e.scope][j] = symbols[e.scope][j]
    <3>1. CASE e.scope = d.scope
      BY <1>6, <1>8, <2>1, <2>2, <3>1
    <3>2. CASE e.scope # d.scope
      BY <1>8, <1>18, <2>1, <3>2
    <3> QED BY <3>1, <3>2
  <2>4. \E k \in DOMAIN symbols'[e.scope] : symbols'[e.scope][k].name = e.name
                                            /\ symbols'[e.scope][k].kind = e.kind
    BY <2>1, <2>3
  <2> QED BY <2>4 DEF IsIn
<1>19. DistinctVariables(symbols')
  <2> SUFFICES ASSUME NEW s \in VariableScopes PROVE DistinctNames(symbols'[s])
    BY DEF DistinctVariables
  <2>1. DistinctNames(symbols[s])
    BY DEF LayoutInv, DistinctVariables
  <2>2. CASE s = d.scope
    <3> DEFINE list == symbols[s]
               new == Append(list, v)
    <3>1. symbols'[s] = new /\ list \in Seq(Symbols(unit))
      BY <1>8, <2>2
    <3>2. \A i \in DOMAIN list : list[i].name # v.name
      <4>1. \A i \in DOMAIN list : list[i] \in Variables
        BY DEF Variables
      <4> QED BY <1>6, <4>1 DEF NameTaken
    <3>3. DistinctNames(list)
      BY <2>1
    <3> HIDE DEF list
    <3>4. DistinctNames(new)
      <4>1. /\ DOMAIN new = 1 .. Len(list) + 1 /\ DOMAIN list = 1 .. Len(list)
            /\ Len(list) \in Nat /\ new[Len(list) + 1] = v
            /\ \A i \in 1 .. Len(list) : new[i] = list[i]
        BY <3>1
      <4> HIDE DEF new
      <4>2. \A i \in 1 .. Len(list) + 1 : i \in 1 .. Len(list) \/ i = Len(list) + 1
        BY <4>1
      <4> QED BY <3>2, <3>3, <4>1, <4>2 DEF DistinctNames
    <3> QED BY <3>1, <3>4
  <2>3. CASE s # d.scope
    BY <1>8, <2>1, <2>3
  <2> QED BY <2>2, <2>3
<1> QED BY <1>9, <1>13, <1>14, <1>15, <1>16, <1>17, <1>18, <1>19

LEMMA RegisterDeclLays == LayoutInv /\ RegisterDecl => LayoutInv'
<1> SUFFICES ASSUME LayoutInv, RegisterDecl PROVE LayoutInv'
  OBVIOUS
<1> DEFINE d == unit.decls[at]
<1>1. /\ unit \in Units /\ at \in Nat \ {0} /\ functions \in Seq(Bindings(unit))
      /\ phase = "declare" /\ at <= Len(unit.decls) /\ DOMAIN literals = {}
  BY DEF LayoutInv, LayoutTypes, RegisterDecl, Item, FrontPhases
<1>2. /\ at \in DOMAIN unit.decls /\ IsDeclaration(d)
      /\ DOMAIN unit.decls = 1 .. Len(unit.decls) /\ Len(unit.decls) \in Nat
      /\ \A i \in DOMAIN unit.decls : IsDeclaration(unit.decls[i])
  BY <1>1, UnitType
<1>3. d.name \in DeclaredNames(unit)
  BY <1>2 DEF DeclaredNames
<1>4. \A i \in DOMAIN unit.decls : unit.decls[i].scope \in VariableScopes
  BY <1>2 DEF IsDeclaration
<1>5. \A i \in DOMAIN unit.decls :
        unit.decls[i].declares = "variable" /\ i < at => IsIn(symbols, unit.decls[i])
  BY <1>1 DEF LayoutInv, VariablesRegistered
<1>6. \A i \in DOMAIN unit.decls : i < at + 1 => i < at \/ i = at
  BY <1>1, <1>2
<1>7. CASE \E e : Fail(e)
  BY <1>1, <1>7, LayoutKept DEF Fail, layout, images, FrontPhases
<1>8. CASE /\ ~NameTaken(d.name)
           /\ d.declares = "variable" /\ DeclareVariable(d) /\ Forward
           /\ UNCHANGED <<unit, entryFunction, literals, blocks, backend, result>>
  <2>1. UNCHANGED <<unit, literals>> /\ at' = at + 1 /\ phase' = phase
        /\ functions' = functions
    BY <1>8 DEF Forward, DeclareVariable
  <2>2. /\ symbols' \in [VariableScopes -> Seq(Symbols(unit))]
        /\ bssByteSize' \in Nat
        /\ dataImage' \in Seq(Byte)
        /\ Placed(literals, constImage')
        /\ Laid(symbols'["BSS"], bssByteSize')
        /\ Laid(symbols'["Data"], Len(dataImage'))
        /\ Laid(symbols'["Const"], Len(constImage'))
        /\ DistinctVariables(symbols')
        /\ IsIn(symbols', d)
        /\ \A e : IsIn(symbols, e) /\ e.scope \in VariableScopes => IsIn(symbols', e)
    BY <1>1, <1>2, <1>3, <1>8, <2>1, DeclareVariableLays
  <2>3. at + 1 \in Nat \ {0}
    BY <1>1
  <2>4. LayoutTypes'
    BY <1>1, <2>1, <2>2, <2>3 DEF LayoutTypes
  <2>5. VariablesRegistered'
    <3> SUFFICES ASSUME NEW i \in DOMAIN unit.decls, i < at + 1,
                        unit.decls[i].declares = "variable"
                 PROVE  IsIn(symbols', unit.decls[i])
      BY <1>1, <2>1 DEF VariablesRegistered
    <3>1. CASE i < at
      BY <1>4, <1>5, <2>2, <3>1
    <3>2. CASE i = at
      BY <2>2, <3>2
    <3> QED BY <1>6, <3>1, <3>2
  <2>6. Apart(literals, symbols["Const"])'
    BY <1>1, <2>1 DEF Apart
  <2> QED BY <1>1, <2>1, <2>2, <2>4, <2>5, <2>6 DEF LayoutInv
<1>9. CASE /\ d.declares = "function" /\ DeclareExternFunction(d) /\ Forward
           /\ UNCHANGED <<unit, entryFunction, literals, blocks, backend, result>>
  <2>1. /\ UNCHANGED <<unit, literals, symbols, bssByteSize, dataImage, constImage>>
        /\ at' = at + 1 /\ phase' = phase
        /\ functions' = Append(functions, FunctionBinding(d, "Extern", d.index))
    BY <1>9 DEF Forward, DeclareExternFunction, layout
  <2>2. functions' \in Seq(Bindings(unit))
    <3>1. d.name \in FunctionNames(unit)
      BY <1>3 DEF FunctionNames
    <3>2. d.kind \in SourceKinds /\ d.index \in Nat /\ IsSlots(d.params)
      BY <1>2, <1>9 DEF IsDeclaration
    <3>3. FunctionBinding(d, "Extern", d.index) \in Bindings(unit)
      BY <1>1, <3>1, <3>2, BindingType
    <3> QED BY <1>1, <2>1, <3>3
  <2>3. at + 1 \in Nat \ {0}
    BY <1>1
  <2>4. LayoutTypes'
    BY <2>1, <2>2, <2>3 DEF LayoutInv, LayoutTypes
  <2>5. VariablesRegistered'
    BY <1>1, <1>5, <1>6, <1>9, <2>1 DEF VariablesRegistered, IsIn
  <2> QED BY <2>1, <2>4, <2>5 DEF LayoutInv
<1>10. d.declares \in {"variable", "function"}
  BY <1>2 DEF IsDeclaration
<1>11. \/ \E e : Fail(e)
       \/ /\ ~NameTaken(d.name)
          /\ IF d.declares = "variable" THEN DeclareVariable(d)
                                        ELSE DeclareExternFunction(d)
          /\ Forward
          /\ UNCHANGED <<unit, entryFunction, literals, blocks, backend, result>>
  BY DEF RegisterDecl
<1> HIDE DEF d
<1> QED BY <1>7, <1>8, <1>9, <1>10, <1>11

LEMMA RegisterFunctionLays == LayoutInv /\ RegisterFunction => LayoutInv'
<1> SUFFICES ASSUME LayoutInv, RegisterFunction PROVE LayoutInv'
  OBVIOUS
<1> DEFINE f == unit.functions[at]
<1>1. /\ unit \in Units /\ at \in Nat \ {0} /\ functions \in Seq(Bindings(unit))
      /\ phase = "register" /\ at <= Len(unit.functions)
  BY DEF LayoutInv, LayoutTypes, RegisterFunction, Item, FrontPhases
<1>2. IsFunctionDefinition(f) /\ at \in DOMAIN unit.functions /\ at + 1 \in Nat \ {0}
  BY <1>1, UnitType
<1>3. CASE \E e : Fail(e)
  BY <1>1, <1>3, LayoutKept DEF Fail, layout, images, FrontPhases
<1>4. CASE /\ functions' = Append(functions, FunctionBinding(f, "BSS", 0))
           /\ Forward
           /\ UNCHANGED <<unit, layout, images, blocks, backend, result>>
  <2>1. FunctionBinding(f, "BSS", 0) \in Bindings(unit)
    <3>1. f.name \in FunctionNames(unit)
      BY <1>2 DEF FunctionNames
    <3>2. f.kind \in SourceKinds /\ IsSlots(f.params) /\ 0 \in Nat
      BY <1>2 DEF IsFunctionDefinition
    <3> HIDE DEF f
    <3> QED BY <1>1, <3>1, <3>2, BindingType
  <2>2. functions' \in Seq(Bindings(unit))
    BY <1>1, <1>4, <2>1
  <2>3. /\ UNCHANGED <<unit, symbols, bssByteSize, dataImage, constImage, literals>>
        /\ at' = at + 1 /\ phase' = "register"
    BY <1>1, <1>4 DEF Forward, layout, images
  <2> QED BY <1>1, <1>2, <2>2, <2>3, LayoutKept
<1>5. \/ \E e : Fail(e)
      \/ /\ functions' = Append(functions, FunctionBinding(f, "BSS", 0))
         /\ Forward
         /\ UNCHANGED <<unit, layout, images, blocks, backend, result>>
  BY DEF RegisterFunction
<1> QED BY <1>3, <1>4, <1>5

\* A variable that is registered has a symbol of its name.
LEMMA SymbolFound ==
  ASSUME LayoutInv, NEW d, d.scope \in VariableScopes, IsIn(symbols, d)
  PROVE  \E i \in DOMAIN symbols[d.scope] :
           /\ symbols[d.scope][i].name = d.name
           /\ symbols[d.scope][i].kind = d.kind
           /\ SymbolNamed(d.scope, d.name) = symbols[d.scope][i]
<1> DEFINE list == symbols[d.scope]
           i == CHOOSE k \in DOMAIN list : list[k].name = d.name
<1>1. i \in DOMAIN list /\ list[i].name = d.name
  BY DEF IsIn
<1>2. SymbolNamed(d.scope, d.name) = list[i]
  BY DEF SymbolNamed
<1> HIDE DEF i
<1>3. list[i].kind = d.kind
  BY <1>1 DEF IsIn, LayoutInv, DistinctVariables, DistinctNames
<1> QED BY <1>1, <1>2, <1>3

\* An address is a natural.
LEMMA MakeAddressType ==
  ASSUME NEW index \in Nat
  PROVE  makeAddress(segmentConst, index) \in Nat
<1>1. Base3 \in Nat \ {0}
  BY PlaceType DEF Place
<1>2. 4 * Base3 \in Nat /\ index % Base3 \in Nat
  BY <1>1
<1> QED BY <1>2 DEF makeAddress, segmentConst

\* The constants stay where they are when strings are interned behind them.
LEMMA GrownApart ==
  ASSUME NEW u, NEW p \in Pools, NEW q \in Pools, Grown(p, q),
         NEW list \in Seq(Symbols(u)), Laid(list, Len(p.image)), Apart(p.offsets, list)
  PROVE  Laid(list, Len(q.image)) /\ Apart(q.offsets, list)
<1>1. Len(p.image) \in Nat /\ Len(q.image) \in Nat /\ Len(p.image) <= Len(q.image)
  BY DEF Pools, Grown
<1>2. Laid(list, Len(q.image))
  BY <1>1, LaidGrows
<1>3. ASSUME NEW s \in DOMAIN q.offsets, NEW i \in DOMAIN list
      PROVE  ~Overlap(q.offsets[s], Len(s) + 1, list[i].offset, Size(list[i].kind))
  <2>1. CASE s \in DOMAIN p.offsets
    <3>1. q.offsets[s] = p.offsets[s]
      BY <2>1 DEF Grown
    <3> QED BY <2>1, <3>1 DEF Apart
  <2>2. CASE s \notin DOMAIN p.offsets
    <3>1. Len(p.image) <= q.offsets[s] /\ q.offsets[s] \in Nat
      BY <2>2 DEF Grown, Pools, Placed
    <3>2. list[i].offset \in Nat /\ Size(list[i].kind) \in Nat
      <4>1. list[i] \in Symbols(u)
        OBVIOUS
      <4> QED BY <4>1, SymbolType
    <3>3. list[i].offset + Size(list[i].kind) <= Len(p.image)
      BY DEF Laid
    <3> QED BY <1>1, <3>1, <3>2, <3>3 DEF Overlap
  <2> QED BY <2>1, <2>2
<1> QED BY <1>2, <1>3 DEF Apart

\* Writing a constant disturbs no literal.
LEMMA WriteApart ==
  ASSUME NEW u, NEW q \in Pools, NEW list \in Seq(Symbols(u)),
         Laid(list, Len(q.image)), Apart(q.offsets, list), NEW i \in DOMAIN list,
         NEW bytes \in Seq(Byte), Len(bytes) = Size(list[i].kind)
  PROVE  Placed(q.offsets, WriteBytes(q.image, list[i].offset, bytes))
<1> DEFINE o == list[i].offset
           n == Size(list[i].kind)
           image == WriteBytes(q.image, o, bytes)
<1>1. q.image \in Seq(Byte) /\ Placed(q.offsets, q.image)
  BY DEF Pools
<1>2. o \in Nat /\ n \in Nat
  <2>1. list[i] \in Symbols(u)
    OBVIOUS
  <2> QED BY <2>1, SymbolType
<1>3. image \in Seq(Byte) /\ Len(image) = Len(q.image)
  BY <1>1, <1>2, WriteType
<1>4. image = [k \in 1 .. Len(q.image) |->
                 IF k \in o + 1 .. o + n THEN bytes[k - o] ELSE q.image[k]]
  BY DEF WriteBytes
<1> HIDE DEF image, o, n
<1>5. \A k \in 1 .. Len(q.image) : k \notin o + 1 .. o + n => image[k] = q.image[k]
  BY <1>4
<1>6. ASSUME NEW t \in DOMAIN q.offsets
      PROVE  /\ q.offsets[t] + Len(t) + 1 <= Len(image)
             /\ \A k \in 1 .. Len(t) : image[q.offsets[t] + k] = t[k]
             /\ image[q.offsets[t] + Len(t) + 1] = 0
  <2>1. /\ q.offsets[t] \in Nat /\ Len(t) \in Nat
        /\ q.offsets[t] + Len(t) + 1 <= Len(q.image)
        /\ \A k \in 1 .. Len(t) : q.image[q.offsets[t] + k] = t[k]
        /\ q.image[q.offsets[t] + Len(t) + 1] = 0
    BY <1>1 DEF Placed
  <2>2. ~Overlap(q.offsets[t], Len(t) + 1, o, n)
    BY DEF Apart, o, n
  <2>3. ASSUME NEW k \in 1 .. Len(t) + 1
        PROVE  /\ q.offsets[t] + k \in 1 .. Len(q.image)
               /\ q.offsets[t] + k \notin o + 1 .. o + n
    <3> DEFINE a == q.offsets[t]
               m == Len(t)
               size == Len(q.image)
    <3>1. a \in Nat /\ m \in Nat /\ size \in Nat /\ a + m + 1 <= size
      BY <1>1, <2>1
    <3>2. ~(a < o + n /\ o < a + (m + 1))
      BY <2>2 DEF Overlap
    <3>3. k \in 1 .. m + 1
      BY <2>3
    <3> HIDE DEF a, m, size
    <3>4. a + k \in 1 .. size /\ a + k \notin o + 1 .. o + n
      BY <1>2, <3>1, <3>2, <3>3
    <3> QED BY <3>4 DEF a, size
  <2>4. \A k \in 1 .. Len(t) + 1 : image[q.offsets[t] + k] = q.image[q.offsets[t] + k]
    BY <1>5, <2>3
  <2>5. \A k \in 1 .. Len(t) : image[q.offsets[t] + k] = t[k]
    BY <2>1, <2>4
  <2>6. Len(t) + 1 \in 1 .. Len(t) + 1
    BY <2>1
  <2>7. image[q.offsets[t] + (Len(t) + 1)] = q.image[q.offsets[t] + (Len(t) + 1)]
    BY <2>4, <2>6
  <2>8. q.offsets[t] + (Len(t) + 1) = q.offsets[t] + Len(t) + 1
    <3>1. q.offsets[t] \in Nat /\ Len(t) \in Nat
      BY <2>1
    <3> QED BY <3>1
  <2>9. image[q.offsets[t] + Len(t) + 1] = 0
    BY <2>1, <2>7, <2>8
  <2>10. q.offsets[t] + Len(t) + 1 <= Len(image)
    BY <1>3, <2>1
  <2> QED BY <2>5, <2>9, <2>10
<1> QED BY <1>1, <1>3, <1>6 DEF Placed, image, o

LEMMA InitializeGlobalLays == LayoutInv /\ InitializeGlobal => LayoutInv'
<1> SUFFICES ASSUME LayoutInv, InitializeGlobal PROVE LayoutInv'
  OBVIOUS
<1> DEFINE d == unit.decls[at]
           interned == IF d.init = "string" THEN Interned(Pool, d.value) ELSE Pool
           bits == IF d.init = "string"
                   THEN makeAddress(segmentConst, interned.offsets[d.value])
                   ELSE d.value
           bytes == Encode(bits, Size(d.kind))
           offset == SymbolNamed(d.scope, d.name).offset
<1>1. /\ unit \in Units /\ at \in Nat \ {0} /\ functions \in Seq(Bindings(unit))
      /\ phase = "initialize" /\ at <= Len(unit.decls)
  BY DEF LayoutInv, LayoutTypes, InitializeGlobal, Item, FrontPhases
<1>2. IsDeclaration(d) /\ at \in DOMAIN unit.decls /\ at + 1 \in Nat \ {0}
  BY <1>1, UnitType
<1>3. CASE \E e : Fail(e)
  BY <1>1, <1>3, LayoutKept DEF Fail, layout, images, FrontPhases
<1>4. CASE Forward /\ UNCHANGED <<unit, layout, table, images, blocks, backend, result>>
  <2>1. /\ UNCHANGED <<unit, symbols, bssByteSize, dataImage, constImage, literals>>
        /\ at' = at + 1 /\ phase' = "initialize" /\ functions' = functions
    BY <1>1, <1>4 DEF Forward, layout, images, table
  <2> QED BY <1>1, <1>2, <2>1, LayoutKept
<1>5. ASSUME d.init # "none", ~InitializerError(d), Forward,
             UNCHANGED <<unit, layout, table, blocks, backend, result>>,
             literals' = interned.offsets,
             dataImage' = IF d.scope = "Data"
                          THEN WriteBytes(dataImage, offset, bytes) ELSE dataImage,
             constImage' = IF d.scope = "Const"
                           THEN WriteBytes(interned.image, offset, bytes)
                           ELSE interned.image
      PROVE  LayoutInv'
  <2>1. /\ UNCHANGED <<unit, symbols, bssByteSize>>
        /\ at' = at + 1 /\ phase' = "initialize" /\ functions' = functions
    BY <1>1, <1>5 DEF Forward, layout, table
  <2>2. /\ d.init \in {"number", "string"} /\ d.scope \in {"Data", "Const"}
        /\ d.init = "number" => d.value \in Nat
        /\ d.init = "string" => d.value \in Seq(Byte)
        /\ d.scope \in VariableScopes /\ d.declares = "variable"
    BY <1>2, <1>5 DEF IsDeclaration, InitializerError, Initializers, VariableScopes
  <2>3. Pool \in Pools /\ Pool.offsets = literals /\ Pool.image = constImage
    <3>1. Placed(literals, constImage)
      BY DEF LayoutInv
    <3>2. literals \in UNION {[D -> Nat] : D \in SUBSET Seq(Byte)} /\ constImage \in Seq(Byte)
      BY <3>1 DEF Placed
    <3> QED BY <3>1, <3>2 DEF Pool, Pools
  <2>4. /\ interned \in Pools /\ Grown(Pool, interned)
        /\ d.init = "string" => d.value \in DOMAIN interned.offsets
    <3>1. CASE d.init = "string"
      BY <2>2, <2>3, <3>1, InternedIs
    <3>2. CASE d.init # "string"
      <4>1. Grown(Pool, Pool)
        BY <2>3 DEF Grown, Pools, Placed
      <4> QED BY <2>3, <3>2, <4>1
    <3> QED BY <3>1, <3>2
  <2> HIDE DEF interned
  <2>5. bits \in Int
    <3>1. CASE d.init = "string"
      <4>1. interned.offsets[d.value] \in Nat
        BY <2>4, <3>1 DEF Pools, Placed
      <4> QED BY <3>1, <4>1, MakeAddressType
    <3>2. CASE d.init # "string"
      BY <2>2, <3>2
    <3> QED BY <3>1, <3>2
  <2> HIDE DEF bits
  <2>6. bytes \in Seq(Byte) /\ Len(bytes) = Size(d.kind)
    <3>1. Size(d.kind) \in 0 .. 8
      BY SizeType
    <3> QED BY <2>5, <3>1, EncodeType
  <2> HIDE DEF bytes
  <2>7. IsIn(symbols, d)
    BY <1>1, <1>2, <2>2 DEF LayoutInv, VariablesRegistered
  <2>8. symbols[d.scope] \in Seq(Symbols(unit)) /\ symbols["Const"] \in Seq(Symbols(unit))
    BY <2>2 DEF LayoutInv, LayoutTypes, VariableScopes
  <2> HIDE DEF d
  <2>9. PICK i \in DOMAIN symbols[d.scope] :
          /\ symbols[d.scope][i].kind = d.kind
          /\ SymbolNamed(d.scope, d.name) = symbols[d.scope][i]
    BY <2>2, <2>7, SymbolFound
  <2>10. offset = symbols[d.scope][i].offset /\ offset \in Nat
    <3>1. symbols[d.scope][i] \in Symbols(unit)
      BY <2>8
    <3> QED BY <2>9, <3>1, SymbolType
  <2> HIDE DEF offset
  <2>11. Laid(symbols["Const"], Len(interned.image)) /\ Apart(interned.offsets, symbols["Const"])
    <3>1. Laid(symbols["Const"], Len(Pool.image)) /\ Apart(Pool.offsets, symbols["Const"])
      BY <2>3 DEF LayoutInv
    <3> QED BY <2>3, <2>4, <2>8, <3>1, GrownApart
  <2>12. dataImage' \in Seq(Byte) /\ Len(dataImage') = Len(dataImage)
    <3>1. dataImage \in Seq(Byte)
      BY DEF LayoutInv, LayoutTypes
    <3>2. CASE d.scope = "Data"
      BY <1>5, <2>6, <2>10, <3>1, <3>2, WriteType
    <3>3. CASE d.scope # "Data"
      BY <1>5, <3>1, <3>3
    <3> QED BY <3>2, <3>3
  <2>13. interned.image \in Seq(Byte) /\ Placed(interned.offsets, interned.image)
    BY <2>4 DEF Pools
  <2>14. Placed(literals', constImage') /\ Len(constImage') = Len(interned.image)
    <3>1. CASE d.scope = "Const"
      <4>1. constImage' = WriteBytes(interned.image, offset, bytes)
        BY <1>5, <3>1
      <4>2. Len(constImage') = Len(interned.image)
        BY <2>6, <2>10, <2>13, <4>1, WriteType
      <4>3. Placed(interned.offsets,
                   WriteBytes(interned.image, symbols["Const"][i].offset, bytes))
        BY <2>4, <2>6, <2>8, <2>9, <2>11, <3>1, WriteApart
      <4> QED BY <1>5, <2>10, <3>1, <4>1, <4>2, <4>3
    <3>2. CASE d.scope # "Const"
      BY <1>5, <2>13, <3>2
    <3> QED BY <3>1, <3>2
  <2>15. LayoutTypes'
    BY <1>1, <1>2, <2>1, <2>12 DEF LayoutInv, LayoutTypes
  <2>16. VariablesRegistered'
    BY <1>1, <2>1 DEF LayoutInv, VariablesRegistered
  <2>17. Laid(symbols["BSS"], bssByteSize)' /\ Laid(symbols["Data"], Len(dataImage))'
    BY <2>1, <2>12 DEF LayoutInv
  <2>18. Laid(symbols["Const"], Len(constImage))' /\ Apart(literals, symbols["Const"])'
    BY <1>5, <2>1, <2>11, <2>14
  <2> QED BY <2>1, <2>14, <2>15, <2>16, <2>17, <2>18 DEF LayoutInv
<1>6. \/ \E e : Fail(e)
      \/ Forward /\ UNCHANGED <<unit, layout, table, images, blocks, backend, result>>
      \/ /\ d.init # "none" /\ ~InitializerError(d)
         /\ constImage' = IF d.scope = "Const"
                          THEN WriteBytes(interned.image, offset, bytes)
                          ELSE interned.image
         /\ dataImage' = IF d.scope = "Data"
                         THEN WriteBytes(dataImage, offset, bytes) ELSE dataImage
         /\ literals' = interned.offsets
         /\ Forward
         /\ UNCHANGED <<unit, layout, table, blocks, backend, result>>
  BY DEF InitializeGlobal, Pool
<1> HIDE DEF d, interned, bytes, offset
<1> QED BY <1>3, <1>4, <1>5, <1>6

\* The function a call names is one that was registered.
LEMMA FunctionFound ==
  ASSUME NEW name, IsFunction(name)
  PROVE  \E i \in DOMAIN functions :
           functions[i].name = name /\ FunctionNamed(name) = functions[i]
BY DEF IsFunction, FunctionNamed

\* The strings of a body whose calls are of known functions.
LEMMA StringsType ==
  ASSUME NEW f, IsFunctionDefinition(f), functions \in Seq(Bindings(unit)),
         \A i \in DOMAIN f.body : f.body[i].do = "call" => IsFunction(f.body[i].callee)
  PROVE  Strings(f.body) \in Seq(Seq(Byte))
<1> DEFINE body == f.body
           kinds(i) == FunctionNamed(body[i].callee).paramKinds
           texts(i) == [k \in 1 .. Cardinality({l \in DOMAIN kinds(i) : kinds(i)[l] = "Address"}) |->
                          body[i].text]
           lists == [i \in DOMAIN body |->
                       IF body[i].do # "call" THEN <<>> ELSE texts(i)]
<1>1. DOMAIN body = 1 .. Len(body) /\ Len(body) \in Nat
  BY DEF IsFunctionDefinition
<1>2. ASSUME NEW i \in DOMAIN body, body[i].do = "call"
      PROVE  texts(i) \in Seq(Seq(Byte))
  <2>1. kinds(i) \in Seq(SourceKinds)
    <3>1. PICK j \in DOMAIN functions : FunctionNamed(body[i].callee) = functions[j]
      BY <1>2, FunctionFound
    <3>2. functions[j] \in Bindings(unit)
      OBVIOUS
    <3>3. functions[j].paramKinds \in Seq(SourceKinds)
      BY <3>2 DEF Bindings
    <3> QED BY <3>1, <3>3
  <2> HIDE DEF kinds
  <2>2. DOMAIN kinds(i) = 1 .. Len(kinds(i)) /\ Len(kinds(i)) \in Nat
    BY <2>1
  <2> DEFINE pointers == {l \in DOMAIN kinds(i) : kinds(i)[l] = "Address"}
  <2>3. pointers \subseteq 1 .. Len(kinds(i)) /\ 1 \in Int /\ Len(kinds(i)) \in Int
    BY <2>2
  <2>4. IsFiniteSet(1 .. Len(kinds(i)))
    BY <2>3, FS_Interval
  <2>5. IsFiniteSet(pointers)
    <3> HIDE DEF pointers
    <3> QED BY <2>3, <2>4, FS_Subset
  <2>6. Cardinality(pointers) \in Nat
    <3> HIDE DEF pointers
    <3> QED BY <2>5, FS_CardinalityType
  <2>7. body[i].text \in Seq(Byte)
    BY <1>2 DEF IsFunctionDefinition
  <2> DEFINE c == Cardinality(pointers)
  <2>8. texts(i) = [k \in 1 .. c |-> body[i].text]
    OBVIOUS
  <2> HIDE DEF texts, c, body
  <2>9. [k \in 1 .. c |-> body[i].text] \in Seq(Seq(Byte))
    BY <2>6, <2>7 DEF c
  <2> QED BY <2>8, <2>9
<1> HIDE DEF texts
<1>3. lists \in Seq(Seq(Seq(Byte)))
  <2>1. \A i \in DOMAIN body : (IF body[i].do # "call" THEN <<>> ELSE texts(i)) \in Seq(Seq(Byte))
    BY <1>2
  <2> HIDE DEF body
  <2> QED BY <1>1, <2>1
<1>4. Strings(body) = FlattenSeq(lists)
  BY DEF Strings, texts
<1> HIDE DEF lists
<1> QED BY <1>3, <1>4, FlattenType

LEMMA CompileFunctionLays == LayoutInv /\ CompileFunction => LayoutInv'
<1> SUFFICES ASSUME LayoutInv, CompileFunction PROVE LayoutInv'
  OBVIOUS
<1> DEFINE f == unit.functions[at]
<1>1. /\ unit \in Units /\ at \in Nat \ {0} /\ functions \in Seq(Bindings(unit))
      /\ phase = "compile" /\ at <= Len(unit.functions)
  BY DEF LayoutInv, LayoutTypes, CompileFunction, Item, FrontPhases
<1>2. IsFunctionDefinition(f) /\ at \in DOMAIN unit.functions /\ at + 1 \in Nat \ {0}
  BY <1>1, UnitType
<1>3. CASE \E e : Fail(e)
  BY <1>1, <1>3, LayoutKept DEF Fail, layout, images, FrontPhases
<1>4. ASSUME \A i \in DOMAIN f.body : f.body[i].do = "call" => IsFunction(f.body[i].callee),
             literals' = Interning(f).offsets, constImage' = Interning(f).image,
             Forward, UNCHANGED <<unit, layout, table, dataImage, backend, result>>
      PROVE  LayoutInv'
  <2>1. /\ UNCHANGED <<unit, symbols, bssByteSize, dataImage, functions>>
        /\ at' = at + 1 /\ phase' = "compile"
    BY <1>1, <1>4 DEF Forward, layout, table
  <2>2. Strings(f.body) \in Seq(Seq(Byte))
    <3> HIDE DEF f
    <3> QED BY <1>1, <1>2, <1>4, StringsType
  <2>3. Pool \in Pools /\ Pool.offsets = literals /\ Pool.image = constImage
    <3>1. Placed(literals, constImage)
      BY DEF LayoutInv
    <3>2. literals \in UNION {[D -> Nat] : D \in SUBSET Seq(Byte)} /\ constImage \in Seq(Byte)
      BY <3>1 DEF Placed
    <3> QED BY <3>1, <3>2 DEF Pool, Pools
  <2> DEFINE q == Interning(f)
  <2>4. q \in Pools /\ Grown(Pool, q)
    <3> HIDE DEF f
    <3> QED BY <2>2, <2>3, InterningIs
  <2> HIDE DEF q
  <2>5. symbols["Const"] \in Seq(Symbols(unit))
    BY DEF LayoutInv, LayoutTypes, VariableScopes
  <2>6. Laid(symbols["Const"], Len(q.image)) /\ Apart(q.offsets, symbols["Const"])
    <3>1. Laid(symbols["Const"], Len(Pool.image)) /\ Apart(Pool.offsets, symbols["Const"])
      BY <2>3 DEF LayoutInv
    <3> QED BY <2>3, <2>4, <2>5, <3>1, GrownApart
  <2>7. literals' = q.offsets /\ constImage' = q.image
    BY <1>4 DEF q
  <2>8. Placed(literals', constImage')
    BY <2>4, <2>7 DEF Pools
  <2>9. LayoutTypes'
    BY <1>1, <1>2, <2>1 DEF LayoutInv, LayoutTypes
  <2>10. VariablesRegistered' /\ DistinctVariables(symbols')
    BY <1>1, <2>1 DEF LayoutInv, VariablesRegistered
  <2>11. Laid(symbols["BSS"], bssByteSize)' /\ Laid(symbols["Data"], Len(dataImage))'
    BY <2>1 DEF LayoutInv
  <2>12. Laid(symbols["Const"], Len(constImage))' /\ Apart(literals, symbols["Const"])'
    BY <2>1, <2>6, <2>7
  <2> QED BY <2>1, <2>8, <2>9, <2>10, <2>11, <2>12 DEF LayoutInv
<1>5. \/ \E e : Fail(e)
      \/ /\ \A i \in DOMAIN f.body : f.body[i].do = "call" => IsFunction(f.body[i].callee)
         /\ literals' = Interning(f).offsets
         /\ constImage' = Interning(f).image
         /\ Forward
         /\ UNCHANGED <<unit, layout, table, dataImage, backend, result>>
  BY DEF CompileFunction
<1> HIDE DEF f
<1> QED BY <1>3, <1>4, <1>5

LEMMA LayoutStutters == LayoutInv /\ UNCHANGED vars => LayoutInv'
BY DEF LayoutInv, LayoutTypes, VariablesRegistered, IsIn, vars

\* The later stages leave the layout alone.
LEMMA LaterLays ==
  ASSUME LayoutInv,
         \/ NextPhase \/ StartMarking \/ FollowCall \/ LeaveBlock \/ StartAssembling
         \/ AssembleBlock \/ FinishAssembling \/ Link \/ BuildProgramImage
  PROVE  LayoutInv'
<1>1. at \in Nat \ {0} /\ at + 1 \in Nat \ {0} /\ 1 \in Nat \ {0}
  BY DEF LayoutInv, LayoutTypes
<1>2. CASE \E e : Fail(e)
  BY <1>1, <1>2, LayoutKept DEF Fail, layout, images, FrontPhases
<1>3. CASE NextPhase
  <2>1. \/ \E e : Fail(e)
        \/ /\ phase \in FrontPhases /\ phase' \in FrontPhases \ {"declare"} /\ at' = 1
           /\ phase = "declare" => at > Len(unit.decls)
           /\ UNCHANGED <<unit, symbols, bssByteSize, dataImage, constImage, literals,
                          functions>>
    BY <1>3 DEF NextPhase, Done, GoTo, FrontPhases, layout, images, table
  <2>2. phase \in FrontPhases => functions \in Seq(Bindings(unit))
    BY DEF LayoutInv, LayoutTypes
  <2> QED BY <1>1, <1>2, <2>1, <2>2, LayoutKept DEF FrontPhases
<1>4. CASE StartMarking \/ FollowCall \/ LeaveBlock \/ StartAssembling
  <2>1. \/ \E e : Fail(e)
        \/ /\ UNCHANGED <<unit, symbols, bssByteSize, dataImage, constImage, literals>>
           /\ phase \in {"compile", "mark"} /\ phase' \in {"mark", "assemble"}
           /\ at' \in {1, at}
    BY <1>4 DEF StartMarking, FollowCall, LeaveBlock, StartAssembling, GoTo, layout, images
  <2> QED BY <1>1, <1>2, <2>1, LayoutKept DEF FrontPhases
<1>5. CASE AssembleBlock \/ FinishAssembling \/ Link \/ BuildProgramImage
  <2>1. \/ \E e : Fail(e)
        \/ /\ UNCHANGED <<unit, symbols, bssByteSize, dataImage, constImage, literals>>
           /\ phase \in {"assemble", "link", "image"}
           /\ phase' \in {"assemble", "link", "image", "done"}
           /\ at' \in {1, at, at + 1}
    BY <1>5 DEF AssembleBlock, FinishAssembling, Link, BuildProgramImage, GoTo,
                Forward, Item, layout, images
  <2> QED BY <1>1, <1>2, <2>1, LayoutKept DEF FrontPhases
<1> QED BY <1>3, <1>4, <1>5

LEMMA LayoutStep == LayoutInv /\ [Next]_vars => LayoutInv'
BY RegisterDeclLays, InitializeGlobalLays, RegisterFunctionLays, CompileFunctionLays,
   LaterLays, LayoutStutters DEF Next, Compile

\* The variables and string literals of a program lie apart, aligned, inside
\* their segments, whatever the program (registerTopLevelDecl,
\* internStringLiteral).
THEOREM StorageApart == Spec => []StorageDisjoint
<1>1. Init => LayoutInv
  BY LayoutInit
<1>2. LayoutInv /\ [Next]_vars => LayoutInv'
  BY LayoutStep
<1>3. LayoutInv => StorageDisjoint
  BY LayoutImplies
<1> QED BY <1>1, <1>2, <1>3, PTL DEF Spec

-----------------------------------------------------------------------------
(***************************************************************************)
(* What the source reaches.                                                *)
(***************************************************************************)
ScriptCallees(f) == ScriptNames \cap SourceCallees(f)
IsClosed(names) == \A f \in names : ScriptCallees(f) \subseteq names
Widened(names) == names \cup UNION {ScriptCallees(f) : f \in names}

LEMMA ScriptNamesFinite ==
  ASSUME unit \in Units
  PROVE  /\ IsFiniteSet(ScriptNames)
         /\ Cardinality(ScriptNames) \in Nat
         /\ Cardinality(ScriptNames) <= Len(unit.functions)
<1> DEFINE n == Len(unit.functions)
           f == [i \in 1 .. n |-> unit.functions[i].name]
<1>1. n \in Nat /\ DOMAIN unit.functions = 1 .. n
  BY UnitType
<1>2. 1 \in Int /\ n \in Int
  BY <1>1
<1>3. IsFiniteSet(1 .. n) /\ Cardinality(1 .. n) = n
  <2>1. IsFiniteSet(1 .. n) /\ Cardinality(1 .. n) = IF 1 > n THEN 0 ELSE n - 1 + 1
    BY <1>2, FS_Interval
  <2> QED BY <1>1, <2>1
<1>4. f \in Surjection(1 .. n, ScriptNames)
  <2>1. f \in [1 .. n -> ScriptNames]
    BY <1>1 DEF ScriptNames
  <2>2. \A s \in ScriptNames : \E i \in 1 .. n : f[i] = s
    BY <1>1 DEF ScriptNames
  <2> QED BY <2>1, <2>2 DEF Surjection
<1> HIDE DEF f, n
<1>5. IsFiniteSet(ScriptNames) /\ Cardinality(ScriptNames) <= n
  BY <1>3, <1>4, FS_Surjection
<1> QED BY <1>5, FS_CardinalityType DEF n

\* The functions reached from some contain them, are closed under calls, and
\* are in every closed set that contains them.
LEMMA ReachedFromIs ==
  ASSUME unit \in Units, NEW names \in SUBSET ScriptNames
  PROVE  /\ names \subseteq ReachedFrom(names)
         /\ ReachedFrom(names) \subseteq ScriptNames
         /\ IsClosed(ReachedFrom(names))
         /\ \A closed \in SUBSET ScriptNames :
              names \subseteq closed /\ IsClosed(closed)
                => ReachedFrom(names) \subseteq closed
<1> DEFINE n == Len(unit.functions)
           T == SUBSET ScriptNames
           callees == [f \in ScriptNames |-> ScriptNames \cap SourceCallees(f)]
           Steps(g) == g = [k \in 0 .. n |->
                              IF k = 0 THEN names
                              ELSE LET before == g[k - 1]
                                   IN  before \cup UNION {callees[h] : h \in before}]
           r == CHOOSE g : Steps(g)
<1>1. n \in Nat
  BY UnitType
<1>2. ReachedFrom(names) = r[n]
  BY DEF ReachedFrom
<1>3. \A X \in T : X \cup UNION {callees[h] : h \in X} = Widened(X) /\ Widened(X) \in T
  BY DEF Widened, ScriptCallees
<1> HIDE DEF n, callees
<1>4. \E g : Steps(g) /\ g \in [0 .. n -> T]
  <2> DEFINE F == [a \in (1 .. n) \X T |-> Widened(a[2])]
  <2>1. \A k \in 1 .. n : \A X \in T : F[<<k, X>>] = Widened(X)
    OBVIOUS
  <2>2. F \in [(1 .. n) \X T -> T]
    BY <1>3
  <2> HIDE DEF F
  <2>3. PICK g \in [0 .. n -> T] :
          g[0] = names /\ \A k \in 1 .. n : g[k] = F[<<k, g[k - 1]>>]
    <3>1. names \in T
      OBVIOUS
    <3> HIDE DEF T
    <3>2. HasIteration(T, n, names, F)
      BY <1>1, <2>2, <3>1, IterationExists
    <3> QED BY <3>2 DEF HasIteration, IsIteration
  <2>4. ASSUME NEW k \in 0 .. n
        PROVE  g[k] = IF k = 0 THEN names
                      ELSE LET before == g[k - 1]
                           IN  before \cup UNION {callees[h] : h \in before}
    <3>1. k # 0 => k \in 1 .. n /\ k - 1 \in 0 .. n /\ g[k - 1] \in T
      BY <1>1, <2>3
    <3>2. k # 0 => g[k] = Widened(g[k - 1])
      BY <2>1, <2>3, <3>1
    <3> QED BY <1>3, <2>3, <3>1, <3>2
  <2>5. g = [k \in 0 .. n |-> g[k]]
    BY <2>3
  <2>6. Steps(g)
    BY <2>4, <2>5
  <2> HIDE DEF Steps
  <2> QED BY <2>3, <2>6
<1>5. Steps(r)
  <2> HIDE DEF Steps
  <2> QED BY <1>4
<1>6. r[0] = names /\ \A k \in 1 .. n : r[k - 1] \in T => r[k] = Widened(r[k - 1])
  <2> HIDE DEF r
  <2>1. r[0] = names
    BY <1>1, <1>5
  <2>2. ASSUME NEW k \in 1 .. n, r[k - 1] \in T
        PROVE  r[k] = Widened(r[k - 1])
    <3>1. k \in 0 .. n /\ k # 0
      BY <1>1
    <3>2. r[k] = r[k - 1] \cup UNION {callees[h] : h \in r[k - 1]}
      BY <1>5, <3>1
    <3> QED BY <1>3, <2>2, <3>2
  <2> QED BY <2>1, <2>2
<1> HIDE DEF r, Steps
<1> DEFINE S == {k \in 0 .. n :
                   /\ r[k] \in T /\ names \subseteq r[k]
                   /\ \A closed \in T : names \subseteq closed /\ IsClosed(closed)
                                          => r[k] \subseteq closed
                   /\ IsClosed(r[k]) \/ k <= Cardinality(r[k])}
<1>7. 0 \in S
  <2>1. IsFiniteSet(names)
    BY ScriptNamesFinite, FS_Subset
  <2>2. 0 <= Cardinality(names)
    BY <2>1, FS_CardinalityType
  <2> QED BY <1>1, <1>6, <2>2
<1>8. ASSUME NEW k \in 0 .. n - 1, k \in S PROVE k + 1 \in S
  <2>1. k \in Nat /\ k + 1 \in 1 .. n /\ k + 1 \in 0 .. n /\ (k + 1) - 1 = k
    BY <1>1
  <2>2. /\ r[k] \in T /\ names \subseteq r[k]
        /\ \A closed \in T : names \subseteq closed /\ IsClosed(closed)
                               => r[k] \subseteq closed
        /\ IsClosed(r[k]) \/ k <= Cardinality(r[k])
    BY <1>8
  <2>3. r[k + 1] = Widened(r[k])
    BY <1>6, <2>1, <2>2
  <2>4. Widened(r[k]) \in T /\ names \subseteq Widened(r[k])
    BY <1>3, <2>2 DEF Widened
  <2>5. ASSUME NEW closed \in T, names \subseteq closed, IsClosed(closed)
        PROVE  Widened(r[k]) \subseteq closed
    BY <2>2, <2>5 DEF Widened, IsClosed
  <2>6. IsClosed(Widened(r[k])) \/ k + 1 <= Cardinality(Widened(r[k]))
    <3>1. CASE IsClosed(r[k])
      <4>1. Widened(r[k]) = r[k]
        BY <3>1 DEF Widened, IsClosed
      <4> QED BY <3>1, <4>1
    <3>2. CASE ~IsClosed(r[k])
      <4> DEFINE a == r[k]
                 b == Widened(r[k])
      <4>1. a \subseteq b /\ a # b
        BY <3>2 DEF Widened, IsClosed
      <4>2. k <= Cardinality(a) /\ b \in T
        BY <2>2, <2>4, <3>2
      <4> HIDE DEF a, b
      <4>3. IsFiniteSet(b)
        BY <4>2, ScriptNamesFinite, FS_Subset
      <4>4. IsFiniteSet(a) /\ Cardinality(a) <= Cardinality(b)
            /\ Cardinality(a) # Cardinality(b)
        BY <4>1, <4>3, FS_Subset
      <4>5. Cardinality(a) \in Nat /\ Cardinality(b) \in Nat
        BY <4>3, <4>4, FS_CardinalityType
      <4>6. k + 1 <= Cardinality(b)
        BY <2>1, <4>2, <4>4, <4>5
      <4> QED BY <4>6 DEF b
    <3> QED BY <3>1, <3>2
  <2> QED BY <2>1, <2>3, <2>4, <2>5, <2>6
<1>9. n \in S
  <2>1. 0 .. n \subseteq S
    <3> HIDE DEF S
    <3> QED BY <1>1, <1>7, <1>8, SetInduction
  <2>2. n \in 0 .. n
    BY <1>1
  <2> HIDE DEF S
  <2> QED BY <2>1, <2>2
<1>10. IsClosed(r[n])
  <2>1. CASE n <= Cardinality(r[n])
    <3> DEFINE a == r[n]
    <3>1. a \in T /\ IsFiniteSet(ScriptNames) /\ Cardinality(ScriptNames) <= n
          /\ Cardinality(ScriptNames) \in Nat
      BY <1>9, ScriptNamesFinite DEF n
    <3>2. n <= Cardinality(a)
      BY <2>1
    <3> HIDE DEF a
    <3>3. /\ IsFiniteSet(a) /\ Cardinality(a) <= Cardinality(ScriptNames)
          /\ Cardinality(ScriptNames) = Cardinality(a) => ScriptNames = a
      BY <3>1, FS_Subset
    <3>4. Cardinality(a) \in Nat
      BY <3>3, FS_CardinalityType
    <3>5. ScriptNames = a
      BY <1>1, <3>1, <3>2, <3>3, <3>4
    <3>6. IsClosed(ScriptNames)
      BY DEF IsClosed, ScriptCallees
    <3> QED BY <3>5, <3>6 DEF a
  <2> QED BY <1>9, <2>1
<1> QED BY <1>2, <1>9, <1>10

-----------------------------------------------------------------------------
(***************************************************************************)
(* The table of functions: the extern ones, then those of the script in    *)
(* the order of the source.                                                *)
(***************************************************************************)
ScriptCount == Len(unit.functions)
BuildPhases == FrontPhases \cup {"mark", "assemble"}

\* How many functions of the script are registered.
Registered ==
  IF phase \in {"declare", "initialize"} THEN 0
  ELSE IF phase = "register" THEN at - 1 ELSE ScriptCount

\* The table of unit u after m of its functions.
IsScriptBinding(v, f) ==
  /\ v.scope = "BSS"
  /\ v.name = f.name
  /\ v.paramKinds = [i \in DOMAIN f.params |-> f.params[i].kind]
IsTable(u, list, m) ==
  /\ list \in Seq(Bindings(u))
  /\ m \in 0 .. Len(u.functions)
  /\ m <= Len(list)
  /\ DistinctNames(list)
  /\ \A i \in 1 .. Len(list) : list[i].id = i - 1
  /\ \A i \in 1 .. Len(list) - m : list[i].scope = "Extern"
  /\ \A k \in 1 .. m : IsScriptBinding(list[Len(list) - m + k], u.functions[k])

\* The entry function is one of them.
IsEntry(u, list, m, entry) ==
  \E k \in 1 .. m : /\ u.functions[k].name = EntryName
                    /\ entry = Len(list) - m + k - 1

TableInv ==
  phase \in BuildPhases =>
    /\ IsTable(unit, functions, Registered)
    /\ \/ entryFunction = NoEntry /\ phase \in {"declare", "initialize", "register"}
       \/ IsEntry(unit, functions, Registered, entryFunction)

\* A function of a name that was free, put behind the others.
LEMMA TableAppend ==
  ASSUME NEW u, NEW list, NEW m, IsTable(u, list, m), NEW v \in Bindings(u),
         v.id = Len(list), \A i \in 1 .. Len(list) : list[i].name # v.name
  PROVE  LET new == Append(list, v)
         IN  /\ new \in Seq(Bindings(u))
             /\ Len(new) = Len(list) + 1
             /\ Len(list) \in Nat
             /\ new[Len(list) + 1] = v
             /\ \A i \in 1 .. Len(list) : new[i] = list[i]
             /\ DistinctNames(new)
             /\ \A i \in 1 .. Len(new) : new[i].id = i - 1
<1> DEFINE new == Append(list, v)
           n == Len(list)
<1>1. list \in Seq(Bindings(u)) /\ DistinctNames(list)
      /\ \A i \in 1 .. n : list[i].id = i - 1
  BY DEF IsTable
<1>2. /\ new \in Seq(Bindings(u)) /\ Len(new) = n + 1 /\ n \in Nat
      /\ new[n + 1] = v /\ \A i \in 1 .. n : new[i] = list[i]
  BY <1>1
<1>3. DOMAIN list = 1 .. n /\ DOMAIN new = 1 .. n + 1
  BY <1>1, <1>2
<1> HIDE DEF new
<1>4. v.id = n
  OBVIOUS
<1> HIDE DEF n
<1>5. \A i \in 1 .. n + 1 : i \in 1 .. n \/ i = n + 1
  BY <1>2
<1>6. DistinctNames(new)
  <2> SUFFICES ASSUME NEW i \in 1 .. n + 1, NEW j \in 1 .. n + 1, new[i].name = new[j].name
               PROVE  i = j
    BY <1>3 DEF DistinctNames
  <2>1. \A k \in 1 .. n : list[k].name # v.name
    BY DEF n
  <2>2. CASE i \in 1 .. n /\ j \in 1 .. n
    BY <1>1, <1>2, <1>3, <2>2 DEF DistinctNames
  <2> QED BY <1>2, <1>5, <2>1, <2>2
<1>7. \A i \in 1 .. Len(new) : new[i].id = i - 1
  <2> SUFFICES ASSUME NEW i \in 1 .. n + 1 PROVE new[i].id = i - 1
    BY <1>2
  <2>1. CASE i \in 1 .. n
    BY <1>1, <1>2, <2>1
  <2>2. CASE i = n + 1
    BY <1>2, <1>4, <2>2
  <2> QED BY <1>5, <2>1, <2>2
<1> QED BY <1>2, <1>6, <1>7 DEF new, n

LEMMA TableExtern ==
  ASSUME NEW u, NEW list, IsTable(u, list, 0), NEW v \in Bindings(u),
         v.id = Len(list), v.scope = "Extern",
         \A i \in 1 .. Len(list) : list[i].name # v.name
  PROVE  IsTable(u, Append(list, v), 0)
<1> DEFINE new == Append(list, v)
<1>1. /\ new \in Seq(Bindings(u)) /\ Len(new) = Len(list) + 1 /\ Len(list) \in Nat
      /\ new[Len(list) + 1] = v /\ \A i \in 1 .. Len(list) : new[i] = list[i]
      /\ DistinctNames(new) /\ \A i \in 1 .. Len(new) : new[i].id = i - 1
  BY TableAppend
<1>2. /\ 0 \in 0 .. Len(u.functions)
      /\ \A i \in 1 .. Len(list) : list[i].scope = "Extern"
  BY <1>1 DEF IsTable
<1> HIDE DEF new
<1>3. 0 <= Len(new) /\ Len(new) - 0 = Len(list) + 1
  BY <1>1
<1>4. \A i \in 1 .. Len(list) + 1 : new[i].scope = "Extern"
  <2>1. \A i \in 1 .. Len(list) + 1 : i \in 1 .. Len(list) \/ i = Len(list) + 1
    BY <1>1
  <2> QED BY <1>1, <1>2, <2>1
<1>5. \A k \in 1 .. 0 : FALSE
  OBVIOUS
<1>6. IsTable(u, new, 0)
  BY <1>1, <1>2, <1>3, <1>4, <1>5 DEF IsTable
<1> QED BY <1>6 DEF new

LEMMA TableScript ==
  ASSUME NEW u, NEW list, NEW m, IsTable(u, list, m), NEW v \in Bindings(u),
         Len(u.functions) \in Nat, m + 1 <= Len(u.functions),
         v.id = Len(list), IsScriptBinding(v, u.functions[m + 1]),
         \A i \in 1 .. Len(list) : list[i].name # v.name
  PROVE  IsTable(u, Append(list, v), m + 1)
<1> DEFINE new == Append(list, v)
<1>1. /\ new \in Seq(Bindings(u)) /\ Len(new) = Len(list) + 1 /\ Len(list) \in Nat
      /\ new[Len(list) + 1] = v /\ \A i \in 1 .. Len(list) : new[i] = list[i]
      /\ DistinctNames(new) /\ \A i \in 1 .. Len(new) : new[i].id = i - 1
  BY TableAppend
<1>2. /\ m \in 0 .. Len(u.functions) /\ m <= Len(list)
      /\ \A i \in 1 .. Len(list) - m : list[i].scope = "Extern"
      /\ \A k \in 1 .. m : IsScriptBinding(list[Len(list) - m + k], u.functions[k])
  BY DEF IsTable
<1> HIDE DEF new
<1>3. /\ m + 1 \in 0 .. Len(u.functions) /\ m + 1 <= Len(new)
      /\ Len(new) - (m + 1) = Len(list) - m
  BY <1>1, <1>2
<1>4. \A i \in 1 .. Len(list) - m : new[i].scope = "Extern"
  <2>1. \A i \in 1 .. Len(list) - m : i \in 1 .. Len(list)
    BY <1>1, <1>2
  <2> QED BY <1>1, <1>2, <2>1
<1>5. ASSUME NEW k \in 1 .. m + 1
      PROVE  IsScriptBinding(new[Len(list) - m + k], u.functions[k])
  <2>1. CASE k \in 1 .. m
    <3>1. Len(list) - m + k \in 1 .. Len(list)
      BY <1>1, <1>2, <2>1
    <3> QED BY <1>1, <1>2, <2>1, <3>1
  <2>2. CASE k = m + 1
    <3>1. Len(list) - m + k = Len(list) + 1
      BY <1>1, <1>2, <2>2
    <3> QED BY <1>1, <2>2, <3>1
  <2> QED BY <1>2, <2>1, <2>2
<1>6. IsTable(u, new, m + 1)
  BY <1>1, <1>3, <1>4, <1>5 DEF IsTable
<1> QED BY <1>6 DEF new

LEMMA TableInit == Init => TableInv
<1> SUFFICES ASSUME Init PROVE TableInv
  OBVIOUS
<1>1. /\ functions = <<>> /\ phase = "declare" /\ entryFunction = NoEntry /\ unit \in Units
  BY DEF Init
<1>2. Registered = 0 /\ 0 \in 0 .. Len(unit.functions)
  BY <1>1, UnitType DEF Registered
<1>3. IsTable(unit, <<>>, 0)
  <2>1. /\ <<>> \in Seq(Bindings(unit)) /\ Len(<<>>) = 0 /\ DOMAIN <<>> = {}
        /\ \A i \in 1 .. 0 : FALSE
    OBVIOUS
  <2> QED BY <1>2, <2>1 DEF IsTable, DistinctNames
<1> QED BY <1>1, <1>2, <1>3 DEF TableInv

\* A step that leaves the table, and what is registered, alone.
LEMMA TableKept ==
  ASSUME TableInv, UNCHANGED <<unit, functions, entryFunction>>,
         phase' \in BuildPhases => phase \in BuildPhases /\ Registered' = Registered
                                     /\ (entryFunction = NoEntry => phase' \in {"declare", "initialize", "register"})
  PROVE  TableInv'
<1> SUFFICES ASSUME phase' \in BuildPhases PROVE TableInv'
  BY DEF TableInv
<1> DEFINE m == Registered
           M == Registered'
<1>1. /\ M = m /\ IsTable(unit, functions, m)
      /\ \/ entryFunction = NoEntry
         \/ IsEntry(unit, functions, m, entryFunction)
  BY DEF TableInv
<1> HIDE DEF m, M
<1>2. /\ IsTable(unit', functions', M)
      /\ \/ entryFunction' = NoEntry /\ phase' \in {"declare", "initialize", "register"}
         \/ IsEntry(unit', functions', M, entryFunction')
  BY <1>1
<1> QED BY <1>2 DEF TableInv, M

LEMMA NameFree ==
  ASSUME NEW name, ~NameTaken(name), functions \in Seq(Bindings(unit))
  PROVE  \A i \in 1 .. Len(functions) : functions[i].name # name
<1>1. DOMAIN functions = 1 .. Len(functions)
  OBVIOUS
<1> QED BY <1>1 DEF NameTaken

LEMMA RegisterDeclTable == LayoutInv /\ TableInv /\ RegisterDecl => TableInv'
<1> SUFFICES ASSUME LayoutInv, TableInv, RegisterDecl PROVE TableInv'
  OBVIOUS
<1> DEFINE d == unit.decls[at]
<1>1. /\ phase = "declare" /\ phase \in BuildPhases /\ Registered = 0
      /\ unit \in Units /\ at \in Nat \ {0} /\ at <= Len(unit.decls)
      /\ functions \in Seq(Bindings(unit))
  BY DEF RegisterDecl, Item, BuildPhases, FrontPhases, Registered, LayoutInv, LayoutTypes
<1>2. IsTable(unit, functions, 0)
      /\ (entryFunction = NoEntry \/ IsEntry(unit, functions, 0, entryFunction))
  BY <1>1 DEF TableInv
<1>3. IsDeclaration(d) /\ at \in DOMAIN unit.decls
  BY <1>1, UnitType
<1>4. CASE \E e : Fail(e)
  BY <1>4 DEF Fail, TableInv, BuildPhases, FrontPhases
<1>5. ASSUME ~NameTaken(d.name), Forward, UNCHANGED <<unit, entryFunction>>,
             DeclareVariable(d) \/ (d.declares = "function" /\ DeclareExternFunction(d))
      PROVE  TableInv'
  <2>1. phase' = "declare" /\ Registered' = 0
    BY <1>1, <1>5 DEF Forward, Registered
  <2>2. CASE DeclareVariable(d)
    <3>1. functions' = functions
      BY <2>2 DEF DeclareVariable
    <3> QED BY <1>1, <1>5, <2>1, <3>1, TableKept
  <2>3. CASE d.declares = "function" /\ DeclareExternFunction(d)
    <3> DEFINE v == FunctionBinding(d, "Extern", d.index)
    <3>1. functions' = Append(functions, v)
      BY <2>3 DEF DeclareExternFunction
    <3>2. /\ d.index \in Nat /\ d.kind \in SourceKinds /\ IsSlots(d.params)
          /\ d.name \in FunctionNames(unit)
      BY <1>3, <2>3 DEF IsDeclaration, FunctionNames, DeclaredNames
    <3>3. v \in Bindings(unit)
      <4> HIDE DEF d
      <4> QED BY <1>1, <3>2, BindingType
    <3>4. v.id = Len(functions) /\ v.scope = "Extern" /\ v.name = d.name
      BY DEF FunctionBinding
    <3>5. \A i \in 1 .. Len(functions) : functions[i].name # v.name
      <4> HIDE DEF v
      <4> QED BY <1>1, <1>5, <3>4, NameFree
    <3> HIDE DEF v
    <3>6. IsTable(unit, Append(functions, v), 0)
      BY <1>2, <3>3, <3>4, <3>5, TableExtern
    <3>7. \A k \in 1 .. 0 : FALSE
      OBVIOUS
    <3>8. entryFunction = NoEntry
      BY <1>2, <3>7 DEF IsEntry
    <3>9. IsTable(unit', functions', Registered') /\ entryFunction' = NoEntry
      BY <1>5, <2>1, <3>1, <3>6, <3>8
    <3> QED BY <2>1, <3>9 DEF TableInv
  <2> QED BY <1>5, <2>2, <2>3
<1>6. \/ \E e : Fail(e)
      \/ /\ ~NameTaken(d.name) /\ Forward /\ UNCHANGED <<unit, entryFunction>>
         /\ DeclareVariable(d) \/ (d.declares = "function" /\ DeclareExternFunction(d))
  BY <1>3 DEF RegisterDecl, IsDeclaration
<1> QED BY <1>4, <1>5, <1>6

LEMMA RegisterFunctionTable == LayoutInv /\ TableInv /\ RegisterFunction => TableInv'
<1> SUFFICES ASSUME LayoutInv, TableInv, RegisterFunction PROVE TableInv'
  OBVIOUS
<1> DEFINE f == unit.functions[at]
           m == at - 1
           n == Len(functions)
<1>1. /\ phase = "register" /\ phase \in BuildPhases /\ Registered = m
      /\ unit \in Units /\ at \in Nat \ {0} /\ at <= Len(unit.functions)
      /\ functions \in Seq(Bindings(unit)) /\ n \in Nat
  <2>1. phase = "register" /\ at <= Len(unit.functions)
    BY DEF RegisterFunction, Item
  <2>2. phase \in BuildPhases /\ phase \in FrontPhases /\ Registered = m
    BY <2>1 DEF BuildPhases, FrontPhases, Registered
  <2>3. unit \in Units /\ at \in Nat \ {0} /\ functions \in Seq(Bindings(unit))
    BY <2>2 DEF LayoutInv, LayoutTypes
  <2> QED BY <2>1, <2>2, <2>3
<1>2. IsTable(unit, functions, m)
      /\ (entryFunction = NoEntry \/ IsEntry(unit, functions, m, entryFunction))
  BY <1>1 DEF TableInv
<1>3. IsFunctionDefinition(f) /\ at \in DOMAIN unit.functions /\ Len(unit.functions) \in Nat
  BY <1>1, UnitType
<1>4. CASE \E e : Fail(e)
  BY <1>4 DEF Fail, TableInv, BuildPhases, FrontPhases
<1>5. ASSUME ~NameTaken(f.name), functions' = Append(functions, FunctionBinding(f, "BSS", 0)),
             entryFunction' = IF f.name = EntryName THEN n ELSE entryFunction,
             Forward, unit' = unit
      PROVE  TableInv'
  <2> DEFINE v == FunctionBinding(f, "BSS", 0)
             new == Append(functions, v)
  <2>1. phase' = "register" /\ Registered' = m + 1 /\ m + 1 = at /\ m \in Nat
    BY <1>1, <1>5 DEF Forward, Registered
  <2>2. f.kind \in SourceKinds /\ IsSlots(f.params) /\ f.name \in FunctionNames(unit)
    BY <1>3 DEF IsFunctionDefinition, FunctionNames
  <2>3. v \in Bindings(unit)
    <3> HIDE DEF f
    <3> QED BY <1>1, <2>2, BindingType
  <2>4. v.id = n /\ v.name = f.name /\ IsScriptBinding(v, f)
    BY DEF FunctionBinding, IsScriptBinding
  <2>5. \A i \in 1 .. n : functions[i].name # v.name
    <3> HIDE DEF v
    <3> QED BY <1>1, <1>5, <2>4, NameFree
  <2>6. unit.functions[m + 1] = f
    BY <2>1
  <2> HIDE DEF v, f, m
  <2>7. IsTable(unit, new, m + 1)
    BY <1>1, <1>2, <1>3, <2>1, <2>3, <2>4, <2>5, <2>6, TableScript
  <2>8. Len(new) = n + 1
    BY <1>1, <2>3
  <2> HIDE DEF new
  <2>9. m <= n
    BY <1>2 DEF IsTable
  <2>10. CASE f.name = EntryName
    <3>1. m + 1 \in 1 .. m + 1 /\ n = Len(new) - (m + 1) + (m + 1) - 1
      BY <1>1, <2>1, <2>8
    <3>2. IsEntry(unit, new, m + 1, n)
      BY <2>6, <2>10, <3>1 DEF IsEntry
    <3> QED BY <1>5, <2>1, <2>7, <2>10, <3>2 DEF TableInv, new, v
  <2>11. CASE f.name # EntryName
    <3>1. IsEntry(unit, functions, m, entryFunction) => IsEntry(unit, new, m + 1, entryFunction)
      <4> SUFFICES ASSUME NEW k \in 1 .. m, unit.functions[k].name = EntryName,
                          entryFunction = n - m + k - 1
                   PROVE  IsEntry(unit, new, m + 1, entryFunction)
        BY DEF IsEntry
      <4>1. k \in 1 .. m + 1 /\ n - m + k - 1 = Len(new) - (m + 1) + k - 1
        BY <1>1, <2>1, <2>8
      <4> QED BY <4>1 DEF IsEntry
    <3> QED BY <1>2, <1>5, <2>1, <2>7, <2>11, <3>1 DEF TableInv, new, v
  <2> QED BY <2>10, <2>11
<1>6. \/ \E e : Fail(e)
      \/ /\ ~NameTaken(f.name) /\ functions' = Append(functions, FunctionBinding(f, "BSS", 0))
         /\ entryFunction' = IF f.name = EntryName THEN n ELSE entryFunction
         /\ Forward /\ unit' = unit
  BY DEF RegisterFunction
<1> QED BY <1>4, <1>5, <1>6

\* The other steps leave it alone.
LEMMA TableStep == LayoutInv /\ TableInv /\ [Next]_vars => TableInv'
<1> SUFFICES ASSUME LayoutInv, TableInv, [Next]_vars PROVE TableInv'
  OBVIOUS
<1>1. CASE \E e : Fail(e)
  BY <1>1 DEF Fail, TableInv, BuildPhases, FrontPhases
<1>2. CASE InitializeGlobal
  <2>1. \/ \E e : Fail(e)
        \/ UNCHANGED <<unit, functions, entryFunction, phase>> /\ phase = "initialize"
    BY <1>2 DEF InitializeGlobal, Item, Forward, table
  <2> QED BY <1>1, <2>1, TableKept DEF Registered, BuildPhases, FrontPhases
<1>3. CASE CompileFunction
  <2>1. \/ \E e : Fail(e)
        \/ UNCHANGED <<unit, functions, entryFunction, phase>> /\ phase = "compile"
    BY <1>3 DEF CompileFunction, Item, Forward, table
  <2>2. ASSUME UNCHANGED <<unit, functions, entryFunction, phase>>, phase = "compile"
        PROVE  TableInv'
    <3>1. Registered' = Registered /\ phase \in BuildPhases
      BY <2>2 DEF Registered, ScriptCount, BuildPhases, FrontPhases
    <3>2. UNCHANGED <<unit, functions, Registered, entryFunction, phase>>
      BY <2>2, <3>1
    <3> QED BY <2>2, <3>2 DEF TableInv
  <2> QED BY <1>1, <2>1, <2>2
<1>4. CASE StartMarking \/ FollowCall \/ LeaveBlock \/ StartAssembling \/ AssembleBlock
  <2>1. \/ \E e : Fail(e)
        \/ /\ UNCHANGED <<unit, functions, entryFunction>>
           /\ phase \in {"compile", "mark", "assemble"} /\ phase' \in {"mark", "assemble"}
    BY <1>4 DEF StartMarking, FollowCall, LeaveBlock, StartAssembling, AssembleBlock,
                Item, GoTo, Forward, table
  <2>2. ASSUME UNCHANGED <<unit, functions, entryFunction>>,
               phase \in {"compile", "mark", "assemble"}, phase' \in {"mark", "assemble"}
        PROVE  TableInv'
    <3>1. Registered = ScriptCount /\ Registered' = ScriptCount /\ ScriptCount' = ScriptCount
          /\ phase \in BuildPhases
      BY <2>2 DEF Registered, ScriptCount, BuildPhases, FrontPhases
    <3>2. IsEntry(unit, functions, ScriptCount, entryFunction)
          /\ IsTable(unit, functions, ScriptCount)
      BY <2>2, <3>1 DEF TableInv
    <3>3. IsEntry(unit', functions', Registered', entryFunction')
          /\ IsTable(unit', functions', Registered')
      BY <2>2, <3>1, <3>2
    <3> QED BY <3>3 DEF TableInv
  <2> QED BY <1>1, <2>1, <2>2
<1>5. CASE FinishAssembling \/ Link \/ BuildProgramImage
  <2>1. (\E e : Fail(e)) \/ phase' \in {"link", "image", "done"}
    BY <1>5 DEF FinishAssembling, Link, BuildProgramImage, GoTo
  <2> QED BY <1>1, <2>1 DEF TableInv, BuildPhases, FrontPhases
<1>6. CASE NextPhase
  <2>1. \/ \E e : Fail(e)
        \/ /\ UNCHANGED <<unit, functions, entryFunction>> /\ at' = 1
           /\ \/ phase = "declare" /\ phase' = "initialize"
              \/ phase = "initialize" /\ phase' = "register"
              \/ /\ phase = "register" /\ at > Len(unit.functions) /\ entryFunction # NoEntry
                 /\ phase' = "compile"
    BY <1>6 DEF NextPhase, Done, GoTo, table
  <2>2. CASE UNCHANGED <<unit, functions, entryFunction>> /\ at' = 1
             /\ phase = "declare" /\ phase' = "initialize"
    BY <2>2, TableKept DEF Registered, BuildPhases, FrontPhases
  <2>3. CASE UNCHANGED <<unit, functions, entryFunction>> /\ at' = 1
             /\ phase = "initialize" /\ phase' = "register"
    BY <2>3, TableKept DEF Registered, BuildPhases, FrontPhases
  <2>4. CASE /\ UNCHANGED <<unit, functions, entryFunction>> /\ at' = 1
             /\ phase = "register" /\ at > Len(unit.functions) /\ entryFunction # NoEntry
             /\ phase' = "compile"
    <3>1. Registered = at - 1 /\ Registered' = Len(unit.functions)
      BY <2>4 DEF Registered, ScriptCount
    <3>2. at - 1 \in 0 .. Len(unit.functions)
      BY <2>4, <3>1 DEF TableInv, IsTable, BuildPhases, FrontPhases
    <3>3. at \in Nat /\ Len(unit.functions) \in Nat
      BY UnitType DEF LayoutInv, LayoutTypes
    <3>4. Registered' = Registered
      BY <2>4, <3>1, <3>2, <3>3
    <3> QED BY <2>4, <3>4, TableKept DEF BuildPhases, FrontPhases
  <2> QED BY <1>1, <2>1, <2>2, <2>3, <2>4
<1>7. CASE UNCHANGED vars
  <2>1. UNCHANGED <<unit, phase, at, functions, entryFunction>>
    BY <1>7 DEF vars
  <2> QED BY <2>1 DEF TableInv, Registered, ScriptCount
<1> QED BY <1>2, <1>3, <1>4, <1>5, <1>6, <1>7, RegisterDeclTable, RegisterFunctionTable
        DEF Next, Compile

-----------------------------------------------------------------------------
(***************************************************************************)
(* The calls in the code of a function are those of its source.            *)
(***************************************************************************)

\* Operands of the script calls among some instructions.
CallsAmong(instructions) == {i.operand : i \in {j \in instructions : j.op = "Call"}}

IsPatch(p) == p = [op |-> p.op, pos |-> p.pos, id |-> p.id]

\* The patches of a listing.
PatchAt(code, k) ==
  [op |-> code[k].op, pos |-> At(code, k) + 2, id |-> code[k].operand]

LEMMA OperandsFrom ==
  ASSUME NEW code, code \in Seq(Range(code)), NEW ops
  PROVE  LET patches == Operands(code, ops)
         IN  /\ patches \in Seq(Range(patches))
             /\ Range(patches)
                  = {PatchAt(code, k) : k \in {j \in DOMAIN code : code[j].op \in ops}}
<1> DEFINE n == Len(code)
           patch(k) == PatchAt(code, k)
           lists == [k \in 1 .. n |-> IF code[k].op \in ops THEN <<patch(k)>> ELSE <<>>]
           patches == Operands(code, ops)
           single(k) == <<patch(k)>>
<1>1. DOMAIN code = 1 .. n /\ n \in Nat
  OBVIOUS
<1>2. patches = FlattenSeq(lists)
  BY <1>1 DEF Operands, PatchAt
<1>3. \A k \in 1 .. n : single(k) \in Seq(Range(single(k))) /\ Range(single(k)) = {patch(k)}
  <2> HIDE DEF patch
  <2> QED BY SingleRange
<1>4. \A k \in 1 .. n : /\ lists[k] = IF code[k].op \in ops THEN single(k) ELSE <<>>
                        /\ lists[k] \in Seq(Range(lists[k]))
                        /\ Range(lists[k]) = IF code[k].op \in ops THEN {patch(k)} ELSE {}
  <2>1. \A k \in 1 .. n : lists[k] = IF code[k].op \in ops THEN single(k) ELSE <<>>
    OBVIOUS
  <2> HIDE DEF lists, single, patch
  <2> QED BY <1>3, <2>1, EmptyRange
<1>5. lists = [k \in 1 .. n |-> lists[k]] /\ DOMAIN lists = 1 .. n
  OBVIOUS
<1> HIDE DEF lists, single, patch
<1>6. FlattenSeq(lists) \in Seq(Elements(lists)) /\ Range(FlattenSeq(lists)) = Elements(lists)
  BY <1>1, <1>4, <1>5, FlattenElements
<1>7. Elements(lists) = {patch(k) : k \in {j \in 1 .. n : code[j].op \in ops}}
  BY <1>4, <1>5 DEF Elements
<1>8. Range(patches) = {patch(k) : k \in {j \in 1 .. n : code[j].op \in ops}}
  BY <1>2, <1>6, <1>7
<1>9. patches \in Seq(Range(patches))
  BY <1>2, <1>6
<1> HIDE DEF patches
<1>10. Range(patches) = {PatchAt(code, k) : k \in {j \in DOMAIN code : code[j].op \in ops}}
  BY <1>1, <1>8 DEF patch
<1> QED BY <1>9, <1>10 DEF patches

LEMMA OperandsAre ==
  ASSUME NEW code, code \in Seq(Range(code))
  PROVE  LET patches == Operands(code, {"Call"})
         IN  /\ patches \in Seq(Range(patches))
             /\ \A p \in Range(patches) : IsPatch(p)
             /\ {p.id : p \in Range(patches)} = CallsAmong(Range(code))
<1> DEFINE n == Len(code)
           K == {k \in 1 .. n : code[k].op = "Call"}
           patches == Operands(code, {"Call"})
<1>1. DOMAIN code = 1 .. n /\ n \in Nat
  OBVIOUS
<1>2. patches \in Seq(Range(patches)) /\ Range(patches) = {PatchAt(code, k) : k \in K}
  <2>1. K = {j \in DOMAIN code : code[j].op \in {"Call"}}
    BY <1>1
  <2> HIDE DEF K
  <2> QED BY <2>1, OperandsFrom
<1>3. \A k \in K : PatchAt(code, k).id = code[k].operand /\ IsPatch(PatchAt(code, k))
  BY DEF PatchAt, IsPatch
<1>4. Range(code) = {code[k] : k \in 1 .. n}
  BY <1>1 DEF Range
<1>5. CallsAmong({code[k] : k \in 1 .. n}) = {code[k].operand : k \in K}
  BY DEF CallsAmong
<1> HIDE DEF K, patches, n
<1>6. {p.id : p \in Range(patches)} = {code[k].operand : k \in K}
  BY <1>2, <1>3
<1>7. \A p \in Range(patches) : IsPatch(p)
  BY <1>2, <1>3
<1> QED BY <1>2, <1>4, <1>5, <1>6, <1>7 DEF patches

\* The code of a call: arguments, and one call.
LEMMA CallCodeIs ==
  ASSUME NEW s, NEW strings, FunctionNamed(s.callee).paramKinds \in Seq(SourceKinds)
  PROVE  LET code == CallCode(s, strings)
             callee == FunctionNamed(s.callee)
         IN  /\ code \in Seq(Range(code))
             /\ CallsAmong(Range(code))
                  = IF callee.scope = "Extern" THEN {} ELSE {callee.id}
             /\ Len(code) # 0
<1> DEFINE callee == FunctionNamed(s.callee)
           kinds == callee.paramKinds
           arg(k) == IF kinds[k] = "Address"
                     THEN Addr(segmentConst, strings[s.text]) ELSE Push(kinds[k], 0)
           args == [k \in 1 .. Len(kinds) |-> arg(k)]
           call == IF callee.scope = "Extern" THEN CallExtern(callee.slot) ELSE Call(callee.id)
           last == <<call>>
<1>1. DOMAIN kinds = 1 .. Len(kinds) /\ Len(kinds) \in Nat
  OBVIOUS
<1>2. CallCode(s, strings) = args \o last
  BY <1>1 DEF CallCode
<1>3. \A k \in 1 .. Len(kinds) : arg(k).op \in {"Addr", "Push"}
  BY DEF Addr, Push, Ins
<1>4. args = [k \in 1 .. Len(kinds) |-> args[k]] /\ \A k \in 1 .. Len(kinds) : args[k] = arg(k)
  OBVIOUS
<1>5. call.op = IF callee.scope = "Extern" THEN "CallExtern" ELSE "Call"
  BY DEF CallExtern, Call, Ins
<1>6. callee.scope # "Extern" => call.operand = callee.id
  BY DEF Call, Ins
<1>7. last \in Seq(Range(last)) /\ Range(last) = {call} /\ Len(last) = 1
  <2>1. Len(last) = 1
    OBVIOUS
  <2> HIDE DEF call
  <2> QED BY <2>1, SingleRange
<1> HIDE DEF callee, kinds, arg, args, call, last
<1>8. args \in Seq(Range(args)) /\ DOMAIN args = 1 .. Len(kinds) /\ Len(args) \in Nat
  BY <1>1, <1>4, SequenceIs
<1>9. /\ args \o last \in Seq(Range(args \o last))
      /\ Range(args \o last) = Range(args) \cup {call}
      /\ Len(args \o last) = Len(args) + 1
  BY <1>7, <1>8, ConcatAny
<1>10. \A i \in Range(args) : i.op \in {"Addr", "Push"}
  BY <1>3, <1>4, <1>8 DEF Range
<1>11. CallsAmong(Range(args) \cup {call})
         = IF callee.scope = "Extern" THEN {} ELSE {callee.id}
  BY <1>5, <1>6, <1>10 DEF CallsAmong
<1>12. Len(args \o last) # 0
  BY <1>8, <1>9
<1> QED BY <1>2, <1>9, <1>11, <1>12 DEF callee

\* What a body calls among the functions registered.
ScriptIds(body) ==
  {FunctionNamed(body[i].callee).id :
     i \in {j \in DOMAIN body : body[j].do = "call"
                                  /\ FunctionNamed(body[j].callee).scope # "Extern"}}

LEMMA BodyCodeIs ==
  ASSUME NEW f, IsFunctionDefinition(f), NEW strings, functions \in Seq(Bindings(unit)),
         \A i \in DOMAIN f.body : f.body[i].do = "call" => IsFunction(f.body[i].callee)
  PROVE  LET code == BodyCode(f.body, strings)
         IN  /\ code \in Seq(Range(code))
             /\ CallsAmong(Range(code)) = ScriptIds(f.body)
<1> DEFINE body == f.body
           n == Len(body)
           acos == <<Push("Float64", 0), BuiltIn("Acos", "Float64")>>
           list(i) == CASE body[i].do = "call" -> CallCode(body[i], strings)
                        [] body[i].do = "acos" -> acos
                        [] body[i].do = "loop" -> LoopCode(FirstInstruction(body, i))
                        [] body[i].do = "return" -> <<Ret>>
           lists == [i \in 1 .. n |-> list(i)]
           ids(i) == IF body[i].do = "call" /\ FunctionNamed(body[i].callee).scope # "Extern"
                     THEN {FunctionNamed(body[i].callee).id} ELSE {}
<1>1. /\ DOMAIN body = 1 .. n /\ n \in Nat
      /\ \A i \in DOMAIN body : body[i].do \in {"call", "acos", "loop", "return"}
  BY DEF IsFunctionDefinition
<1>2. BodyCode(body, strings) = FlattenSeq(lists)
  BY <1>1 DEF BodyCode
<1>3. ASSUME NEW i \in 1 .. n
      PROVE  list(i) \in Seq(Range(list(i))) /\ CallsAmong(Range(list(i))) = ids(i)
  <2>1. CASE body[i].do = "call"
    <3>1. list(i) = CallCode(body[i], strings)
      BY <2>1
    <3>2. FunctionNamed(body[i].callee).paramKinds \in Seq(SourceKinds)
      <4>1. PICK j \in DOMAIN functions : FunctionNamed(body[i].callee) = functions[j]
        BY <1>1, <2>1, FunctionFound
      <4>2. functions[j] \in Bindings(unit)
        OBVIOUS
      <4>3. functions[j].paramKinds \in Seq(SourceKinds)
        BY <4>2 DEF Bindings
      <4> QED BY <4>1, <4>3
    <3>3. ids(i) = IF FunctionNamed(body[i].callee).scope = "Extern" THEN {}
                   ELSE {FunctionNamed(body[i].callee).id}
      BY <2>1
    <3> HIDE DEF list, ids, body
    <3> QED BY <3>1, <3>2, <3>3, CallCodeIs
  <2>2. CASE body[i].do = "acos"
    <3> DEFINE a == Push("Float64", 0)
               b == BuiltIn("Acos", "Float64")
    <3>1. list(i) = <<a, b>> /\ ids(i) = {}
      BY <2>2
    <3>2. a.op # "Call" /\ b.op # "Call"
      BY DEF Push, BuiltIn, Ins
    <3> HIDE DEF a, b, list, ids
    <3>3. Range(<<a, b>>) = {a, b}
      BY DEF Range
    <3>4. <<a, b>> \in Seq({a, b})
      OBVIOUS
    <3> QED BY <3>1, <3>2, <3>3, <3>4 DEF CallsAmong
  <2>3. CASE body[i].do = "loop"
    <3> DEFINE first == FirstInstruction(body, i)
               a == Push("Bool", 1)
               b == JumpIfFalse(first + 3)
               c == Jump(first)
    <3>1. list(i) = <<a, b, c>> /\ ids(i) = {}
      BY <2>3 DEF LoopCode
    <3>2. a.op # "Call" /\ b.op # "Call" /\ c.op # "Call"
      BY DEF Push, JumpIfFalse, Jump, Ins
    <3> HIDE DEF a, b, c, list, ids
    <3>3. Range(<<a, b, c>>) = {a, b, c}
      BY DEF Range
    <3>4. <<a, b, c>> \in Seq({a, b, c})
      OBVIOUS
    <3> QED BY <3>1, <3>2, <3>3, <3>4 DEF CallsAmong
  <2>4. CASE body[i].do = "return"
    <3> DEFINE a == Ret
    <3>1. list(i) = <<a>> /\ ids(i) = {}
      BY <2>4
    <3>2. a.op # "Call"
      BY DEF Ret, Ins
    <3> HIDE DEF a, list, ids
    <3> QED BY <3>1, <3>2, SingleRange DEF CallsAmong
  <2> QED BY <1>1, <2>1, <2>2, <2>3, <2>4
<1>4. lists = [i \in 1 .. n |-> lists[i]] /\ DOMAIN lists = 1 .. n
      /\ \A i \in 1 .. n : lists[i] = list(i)
  <2> HIDE DEF list
  <2> QED OBVIOUS
<1>5. ScriptIds(body) = UNION {ids(i) : i \in 1 .. n}
  BY <1>1 DEF ScriptIds
<1> HIDE DEF list, lists, ids, body, n
<1>6. \A i \in 1 .. n : lists[i] \in Seq(Range(lists[i]))
  BY <1>3, <1>4
<1>7. FlattenSeq(lists) \in Seq(Elements(lists)) /\ Range(FlattenSeq(lists)) = Elements(lists)
  BY <1>1, <1>4, <1>6, FlattenElements
<1>8. CallsAmong(Elements(lists)) = UNION {ids(i) : i \in 1 .. n}
  <2>1. CallsAmong(Elements(lists)) = UNION {CallsAmong(Range(lists[i])) : i \in 1 .. n}
    BY <1>4 DEF CallsAmong, Elements
  <2> QED BY <1>3, <1>4, <2>1
<1> QED BY <1>2, <1>5, <1>7, <1>8 DEF body

\* The epilogue calls nothing and leaves no function empty.
LEMMA EpilogueIs ==
  ASSUME NEW code, code \in Seq(Range(code))
  PROVE  LET all == WithEpilogue(code)
         IN  /\ all \in Seq(Range(all))
             /\ CallsAmong(Range(all)) = CallsAmong(Range(code))
             /\ Len(all) # 0
<1>1. CASE EndsInRetByte(code)
  <2>1. WithEpilogue(code) = code /\ code # <<>>
    BY <1>1 DEF WithEpilogue, EndsInRetByte
  <2>2. Len(code) # 0
    BY <2>1
  <2> QED BY <2>1, <2>2
<1>2. CASE ~EndsInRetByte(code)
  <2> DEFINE r == Ret
  <2>1. WithEpilogue(code) = Append(code, r)
    BY <1>2 DEF WithEpilogue
  <2>2. r.op # "Call"
    BY DEF Ret, Ins
  <2> HIDE DEF r
  <2>3. Append(code, r) = code \o <<r>> /\ Len(<<r>>) = 1
    <3> DEFINE C == Range(code)
    <3>1. code \in Seq(C)
      OBVIOUS
    <3> HIDE DEF C
    <3> QED BY <3>1
  <2> DEFINE s == <<r>>
  <2>4. s \in Seq(Range(s)) /\ Range(s) = {r} /\ Len(s) = 1
    BY <2>3, SingleRange
  <2>5. Len(code) \in Nat
    OBVIOUS
  <2> HIDE DEF s
  <2>6. /\ code \o s \in Seq(Range(code \o s)) /\ Range(code \o s) = Range(code) \cup {r}
        /\ Len(code \o s) = Len(code) + 1
    BY <2>4, ConcatAny
  <2>7. CallsAmong(Range(code) \cup {r}) = CallsAmong(Range(code))
    BY <2>2 DEF CallsAmong
  <2>8. Len(code) + 1 # 0
    BY <2>5
  <2> QED BY <2>1, <2>3, <2>6, <2>7, <2>8 DEF s
<1> QED BY <1>1, <1>2

-----------------------------------------------------------------------------
(***************************************************************************)
(* The compiled blocks.                                                    *)
(***************************************************************************)
CalleesOf(f) ==
  {f.body[i].callee : i \in {l \in DOMAIN f.body : f.body[l].do = "call"}}

\* The IDs of the functions of these names: the first E of the list are
\* extern, the others are those of the script.
ScriptIdsOf(u, E, names) ==
  {E + j - 1 : j \in {i \in 1 .. Len(u.functions) : u.functions[i].name \in names}}
ExternIdsOf(list, E, names) ==
  {i - 1 : i \in {j \in 1 .. E : list[j].name \in names}}

FrameOf(f) == Frame(f.params \o f.locals)

IsBlock(u, list, b, k) ==
  LET f == u.functions[k]
      E == Len(list) - Len(u.functions)
  IN  /\ b.binding.id = E + k - 1
      /\ IsScriptBinding(b.binding, f)
      /\ b.binding \in Bindings(u)
      /\ b.binding.paramOffsets = SubSeq(FrameOf(f).offsets, 1, Len(f.params))
      /\ b.binding.slotCount = Len(f.params) + Len(f.locals)
      /\ b.binding.frameByteSize = FrameOf(f).bytes
      /\ b.code \in Seq(Range(b.code)) /\ Len(b.code) # 0
      /\ b.calls \in Seq(Range(b.calls)) /\ \A p \in Range(b.calls) : IsPatch(p)
      /\ {p.id : p \in Range(b.calls)} = ScriptIdsOf(u, E, CalleesOf(f))
      /\ b.externals \in Seq(Range(b.externals))
      /\ Range(b.externals) = ExternIdsOf(list, E, CalleesOf(f))

\* How many functions are compiled.
Compiled ==
  IF phase = "compile" THEN at - 1
  ELSE IF phase \in {"mark", "assemble"} THEN ScriptCount ELSE 0

AreBlocks(u, list, compiled, m) ==
  /\ m \in 0 .. Len(u.functions)
  /\ compiled \in Seq(Range(compiled))
  /\ Len(compiled) = m
  /\ \A k \in 1 .. m : IsBlock(u, list, compiled[k], k)
BlocksInv == phase \in BuildPhases => AreBlocks(unit, functions, blocks, Compiled)

\* Text of a listing that is not empty is not empty.
LEMMA TextIs ==
  ASSUME NEW code, code \in Seq(Range(code)), Len(code) # 0
  PROVE  Text(code) \in Seq(Range(Text(code))) /\ Len(Text(code)) # 0
<1> DEFINE n == Len(code)
           resolved(k) == IF code[k].op \in {"Jump", "JumpIfFalse"}
                             /\ code[k].operand \in 1 .. Len(code)
                          THEN [code[k] EXCEPT !.operand = At(code, @)] ELSE code[k]
           list == [k \in 1 .. n |-> resolved(k)]
<1>1. n \in Nat \ {0}
  OBVIOUS
<1>2. list = [k \in 1 .. n |-> list[k]]
  <2> HIDE DEF resolved
  <2> QED OBVIOUS
<1>3. Text(code) = Bytes(list \o <<>>)
  BY DEF Text
<1> HIDE DEF list, n
<1>4. list \in Seq(Range(list)) /\ Len(list) = n
  BY <1>1, <1>2, SequenceIs
<1>5. list \o <<>> = list
  <2> DEFINE R == Range(list)
  <2>1. list \in Seq(R)
    BY <1>4
  <2> HIDE DEF R
  <2> QED BY <2>1
<1> DEFINE first(k) == <<list[k]>>
           rest(k) == [b \in 1 .. Width(list[k]) - 1 |-> Bad]
           lists == [k \in 1 .. n |-> first(k) \o rest(k)]
<1>6. Bytes(list) = FlattenSeq(lists)
  BY <1>4 DEF Bytes
<1>7. ASSUME NEW k \in 1 .. n
      PROVE  /\ first(k) \o rest(k) \in Seq(Range(first(k) \o rest(k)))
             /\ list[k] \in Range(first(k) \o rest(k))
  <2>1. first(k) \in Seq(Range(first(k))) /\ Range(first(k)) = {list[k]}
    BY SingleRange
  <2>2. Width(list[k]) \in Nat \ {0, 1}
    <3>1. Size(list[k].kind) \in Nat
      BY SizeType
    <3>2. (CASE list[k].op = "Push" -> Size(list[k].kind)
             [] list[k].op \in {"Addr", "Jump", "JumpIfFalse", "Call", "CallExtern"} -> 4
             [] OTHER -> 0) \in Nat
      BY <3>1
    <3> QED BY <3>2 DEF Width
  <2> DEFINE w == Width(list[k])
  <2>3. rest(k) = [b \in 1 .. w - 1 |-> Bad] /\ w - 1 \in Nat
    BY <2>2
  <2> HIDE DEF w, first
  <2>4. rest(k) = [b \in 1 .. w - 1 |-> rest(k)[b]]
    BY <2>3
  <2> HIDE DEF rest
  <2>5. rest(k) \in Seq(Range(rest(k)))
    BY <2>3, <2>4, SequenceIs
  <2> QED BY <2>1, <2>5, ConcatAny
<1>8. lists = [k \in 1 .. n |-> lists[k]] /\ DOMAIN lists = 1 .. n
      /\ \A k \in 1 .. n : lists[k] = first(k) \o rest(k)
  <2> HIDE DEF first, rest
  <2> QED OBVIOUS
<1> HIDE DEF lists, first, rest
<1>9. FlattenSeq(lists) \in Seq(Elements(lists)) /\ Range(FlattenSeq(lists)) = Elements(lists)
  BY <1>1, <1>7, <1>8, FlattenElements
<1>10. Elements(lists) # {}
  <2>1. 1 \in 1 .. n
    BY <1>1
  <2>2. list[1] \in Range(lists[1])
    BY <1>7, <1>8, <2>1
  <2> QED BY ZenonT(30), <1>8, <2>1, <2>2 DEF Elements
<1>11. FlattenSeq(lists) # <<>>
  BY <1>9, <1>10, EmptyRange
<1>12. Len(FlattenSeq(lists)) # 0
  BY <1>9, <1>11
<1> QED BY <1>3, <1>5, <1>6, <1>9, <1>12

\* The name of a function finds its binding.
LEMMA FunctionNamedIs ==
  ASSUME NEW u, NEW m, IsTable(u, functions, m), NEW i \in 1 .. Len(functions)
  PROVE  FunctionNamed(functions[i].name) = functions[i] /\ IsFunction(functions[i].name)
<1>1. DOMAIN functions = 1 .. Len(functions) /\ DistinctNames(functions)
  BY DEF IsTable
<1>2. \A j \in DOMAIN functions : functions[j].name = functions[i].name => j = i
  BY <1>1 DEF DistinctNames
<1> QED BY <1>1, <1>2 DEF FunctionNamed, IsFunction

\* An index of the table is that of an extern function or of one of the script.
IsIndexed(u, list, m) ==
  /\ m \in Nat /\ Len(list) \in Nat /\ Len(list) - m \in Nat
  /\ \A i \in 1 .. Len(list) :
       \/ i \in 1 .. Len(list) - m
       \/ i - (Len(list) - m) \in 1 .. m
  /\ \A k \in 1 .. m : /\ Len(list) - m + k \in 1 .. Len(list)
                       /\ list[Len(list) - m + k].name = u.functions[k].name
                       /\ list[Len(list) - m + k].scope = "BSS"
                       /\ list[Len(list) - m + k].id = Len(list) - m + k - 1
  /\ \A i \in 1 .. Len(list) - m : i \in 1 .. Len(list) /\ list[i].scope = "Extern"
                                     /\ list[i].id = i - 1

LEMMA TableIndex ==
  ASSUME NEW u, NEW list, NEW m, IsTable(u, list, m)
  PROVE  IsIndexed(u, list, m)
<1>1. m \in Nat /\ Len(list) \in Nat /\ m <= Len(list)
  BY DEF IsTable
<1>2. \A k \in 1 .. m : Len(list) - m + k \in 1 .. Len(list)
  BY <1>1
<1>3. \A i \in 1 .. Len(list) - m : i \in 1 .. Len(list)
  BY <1>1
<1>4. \A i \in 1 .. Len(list) : i \in 1 .. Len(list) - m \/ i - (Len(list) - m) \in 1 .. m
  BY <1>1
<1>5. Len(list) - m \in Nat
  BY <1>1
<1>6. ASSUME NEW k \in 1 .. m
      PROVE  /\ list[Len(list) - m + k].name = u.functions[k].name
             /\ list[Len(list) - m + k].scope = "BSS"
             /\ list[Len(list) - m + k].id = Len(list) - m + k - 1
  <2>1. IsScriptBinding(list[Len(list) - m + k], u.functions[k])
    BY DEF IsTable
  <2>2. list[Len(list) - m + k].id = Len(list) - m + k - 1
    BY <1>2 DEF IsTable
  <2> QED BY <2>1, <2>2 DEF IsScriptBinding
<1>7. \A i \in 1 .. Len(list) - m : list[i].scope = "Extern" /\ list[i].id = i - 1
  BY <1>3 DEF IsTable
<1> QED BY Zenon, <1>1, <1>2, <1>3, <1>4, <1>5, <1>6, <1>7 DEF IsIndexed

LEMMA ScriptNamesDistinct ==
  ASSUME NEW u, NEW list, NEW m, IsTable(u, list, m)
  PROVE  \A j, k \in 1 .. m : u.functions[j].name = u.functions[k].name => j = k
<1> DEFINE E == Len(list) - m
<1>1. E \in Nat /\ m \in Nat
  BY TableIndex DEF IsIndexed
<1>2. \A k \in 1 .. m : E + k \in 1 .. Len(list) /\ list[E + k].name = u.functions[k].name
  BY TableIndex DEF IsIndexed
<1>3. \A i, j \in 1 .. Len(list) : list[i].name = list[j].name => i = j
  BY DEF IsTable, DistinctNames
<1> HIDE DEF E
<1> SUFFICES ASSUME NEW j \in 1 .. m, NEW k \in 1 .. m,
                    u.functions[j].name = u.functions[k].name
             PROVE  j = k
  OBVIOUS
<1>4. E + j = E + k
  BY <1>2, <1>3
<1> QED BY <1>1, <1>4

\* What a body calls, by ID.
LEMMA CalledIds ==
  ASSUME NEW f, IsFunctionDefinition(f), IsTable(unit, functions, ScriptCount),
         \A i \in DOMAIN f.body : f.body[i].do = "call" => IsFunction(f.body[i].callee)
  PROVE  LET E == Len(functions) - ScriptCount
         IN  /\ ScriptIds(f.body) = ScriptIdsOf(unit, E, CalleesOf(f))
             /\ ExternCalls(f.body) \in Seq(Range(ExternCalls(f.body)))
             /\ Range(ExternCalls(f.body)) = ExternIdsOf(functions, E, CalleesOf(f))
<1> DEFINE n == ScriptCount
           E == Len(functions) - n
           body == f.body
           m == Len(body)
           D == {l \in DOMAIN body : body[l].do = "call"}
           callee(i) == FunctionNamed(body[i].callee)
<1>1. /\ E \in Nat /\ n \in Nat /\ Len(functions) \in Nat
      /\ \A i \in 1 .. Len(functions) : i \in 1 .. E \/ i - E \in 1 .. n
      /\ \A k \in 1 .. n : /\ E + k \in 1 .. Len(functions)
                           /\ functions[E + k].name = unit.functions[k].name
                           /\ functions[E + k].scope = "BSS"
                           /\ functions[E + k].id = E + k - 1
      /\ \A i \in 1 .. E : i \in 1 .. Len(functions) /\ functions[i].scope = "Extern"
                             /\ functions[i].id = i - 1
  <2> DEFINE list == functions
  <2>1. IsTable(unit, list, n)
    OBVIOUS
  <2> HIDE DEF list, n
  <2>2. IsIndexed(unit, list, n)
    BY <2>1, TableIndex
  <2>3. /\ Len(list) - n \in Nat /\ n \in Nat /\ Len(list) \in Nat
        /\ \A i \in 1 .. Len(list) : i \in 1 .. Len(list) - n \/ i - (Len(list) - n) \in 1 .. n
        /\ \A k \in 1 .. n : /\ Len(list) - n + k \in 1 .. Len(list)
                              /\ list[Len(list) - n + k].name = unit.functions[k].name
                              /\ list[Len(list) - n + k].scope = "BSS"
                              /\ list[Len(list) - n + k].id = Len(list) - n + k - 1
        /\ \A i \in 1 .. Len(list) - n : i \in 1 .. Len(list) /\ list[i].scope = "Extern"
                                          /\ list[i].id = i - 1
    BY Zenon, <2>2 DEF IsIndexed
  <2> QED BY <2>3 DEF list
<1>2. DOMAIN body = 1 .. m /\ m \in Nat
  BY DEF IsFunctionDefinition
<1>3. \A i \in 1 .. Len(functions) : FunctionNamed(functions[i].name) = functions[i]
  BY FunctionNamedIs
<1>4. \A i \in D : \E p \in 1 .. Len(functions) :
         functions[p].name = body[i].callee /\ callee(i) = functions[p]
  <2>1. DOMAIN functions = 1 .. Len(functions)
    BY DEF IsTable
  <2> QED BY <2>1, FunctionFound
<1>5. CalleesOf(f) = {body[i].callee : i \in D}
  BY DEF CalleesOf
<1>6. n = Len(unit.functions)
  BY DEF ScriptCount
<1> HIDE DEF E, n, D, callee
<1>7. ScriptIds(body) = {callee(i).id : i \in {j \in D : callee(j).scope # "Extern"}}
  BY DEF ScriptIds, D, callee
<1>8. \A i \in D : \/ /\ callee(i).scope = "Extern"
                      /\ \E p \in 1 .. E : callee(i).id = p - 1
                                             /\ functions[p].name = body[i].callee
                   \/ /\ callee(i).scope # "Extern"
                      /\ \E k \in 1 .. n : callee(i).id = E + k - 1
                                             /\ unit.functions[k].name = body[i].callee
  <2> SUFFICES ASSUME NEW i \in D
               PROVE  \/ /\ callee(i).scope = "Extern"
                         /\ \E p \in 1 .. E : callee(i).id = p - 1
                                                /\ functions[p].name = body[i].callee
                      \/ /\ callee(i).scope # "Extern"
                         /\ \E k \in 1 .. n : callee(i).id = E + k - 1
                                                /\ unit.functions[k].name = body[i].callee
    OBVIOUS
  <2>1. PICK p \in 1 .. Len(functions) :
          functions[p].name = body[i].callee /\ callee(i) = functions[p]
    BY <1>4
  <2>2. CASE p \in 1 .. E
    BY <1>1, <2>1, <2>2
  <2>3. CASE p - E \in 1 .. n
    <3> DEFINE k == p - E
    <3>1. E + k = p
      BY <1>1
    <3> HIDE DEF k
    <3>2. k \in 1 .. n
      BY <2>3 DEF k
    <3>3. callee(i).scope = "BSS" /\ callee(i).id = E + k - 1
          /\ unit.functions[k].name = body[i].callee
      BY <1>1, <2>1, <3>1, <3>2
    <3> QED BY <3>2, <3>3
  <2> QED BY <1>1, <2>1, <2>2, <2>3
<1>9. ASSUME NEW k \in 1 .. n, NEW i \in D, unit.functions[k].name = body[i].callee
      PROVE  callee(i).scope # "Extern" /\ callee(i).id = E + k - 1
  <2>1. callee(i) = functions[E + k]
    BY <1>1, <1>3, <1>9 DEF callee
  <2> QED BY <1>1, <2>1
<1>10. ASSUME NEW p \in 1 .. E, NEW i \in D, functions[p].name = body[i].callee
       PROVE  callee(i).scope = "Extern" /\ callee(i).id = p - 1
  <2>1. callee(i) = functions[p]
    BY <1>1, <1>3, <1>10 DEF callee
  <2> QED BY <1>1, <2>1
<1>11. ScriptIds(body) = ScriptIdsOf(unit, E, CalleesOf(f))
  <2>1. ScriptIdsOf(unit, E, CalleesOf(f))
          = {E + k - 1 : k \in {j \in 1 .. n : unit.functions[j].name \in CalleesOf(f)}}
    BY <1>6 DEF ScriptIdsOf
  <2>2. ScriptIds(body) \subseteq ScriptIdsOf(unit, E, CalleesOf(f))
    <3> SUFFICES ASSUME NEW i \in D, callee(i).scope # "Extern"
                 PROVE  callee(i).id \in ScriptIdsOf(unit, E, CalleesOf(f))
      BY <1>7
    <3>1. PICK k \in 1 .. n : callee(i).id = E + k - 1 /\ unit.functions[k].name = body[i].callee
      BY <1>8
    <3>2. unit.functions[k].name \in CalleesOf(f)
      BY <1>5, <3>1
    <3> QED BY <2>1, <3>1, <3>2
  <2>3. ScriptIdsOf(unit, E, CalleesOf(f)) \subseteq ScriptIds(body)
    <3> SUFFICES ASSUME NEW k \in 1 .. n, unit.functions[k].name \in CalleesOf(f)
                 PROVE  E + k - 1 \in ScriptIds(body)
      BY <2>1
    <3>1. PICK i \in D : unit.functions[k].name = body[i].callee
      BY <1>5
    <3> QED BY <1>7, <1>9, <3>1
  <2> QED BY <2>2, <2>3
<1> DEFINE lists == [i \in 1 .. m |-> IF CallsExtern(body[i]) THEN <<callee(i).id>> ELSE <<>>]
           outside == {i \in D : callee(i).scope = "Extern"}
<1>12. ExternCalls(body) = FlattenSeq(lists)
  BY <1>2 DEF ExternCalls, callee
<1>13. \A i \in 1 .. m : CallsExtern(body[i]) <=> i \in outside
  BY <1>2 DEF CallsExtern, D, callee
<1>14. lists = [i \in 1 .. m |-> lists[i]] /\ DOMAIN lists = 1 .. m
       /\ \A i \in 1 .. m : lists[i] = IF i \in outside THEN <<callee(i).id>> ELSE <<>>
  <2> HIDE DEF outside
  <2> QED BY <1>13
<1>15. outside \subseteq 1 .. m
  BY <1>2 DEF D
<1> HIDE DEF lists
<1>16. \A i \in 1 .. m : /\ lists[i] \in Seq(Range(lists[i]))
                         /\ Range(lists[i]) = IF i \in outside THEN {callee(i).id} ELSE {}
  <2> DEFINE c(i) == callee(i).id
  <2>1. \A i \in 1 .. m : <<c(i)>> \in Seq(Range(<<c(i)>>)) /\ Range(<<c(i)>>) = {c(i)}
    <3> HIDE DEF c
    <3> QED BY SingleRange
  <2> HIDE DEF outside
  <2> QED BY <1>14, <2>1, EmptyRange
<1>17. FlattenSeq(lists) \in Seq(Elements(lists)) /\ Range(FlattenSeq(lists)) = Elements(lists)
  BY <1>2, <1>14, <1>16, FlattenElements
<1>18. Elements(lists) = {callee(i).id : i \in outside}
  <2> DEFINE c(i) == callee(i).id
  <2> HIDE DEF outside, c
  <2>1. Elements(lists) = UNION {Range(lists[i]) : i \in 1 .. m}
    BY <1>14 DEF Elements
  <2>2. \A i \in 1 .. m : Range(lists[i]) = IF i \in outside THEN {c(i)} ELSE {}
    BY <1>16 DEF c
  <2>3. Elements(lists) = {c(i) : i \in outside}
    BY ZenonT(30), <1>15, <2>1, <2>2
  <2> QED BY <2>3 DEF c
<1>19. {callee(i).id : i \in outside} = ExternIdsOf(functions, E, CalleesOf(f))
  <2>1. {callee(i).id : i \in outside} \subseteq ExternIdsOf(functions, E, CalleesOf(f))
    <3> SUFFICES ASSUME NEW i \in outside
                 PROVE  callee(i).id \in ExternIdsOf(functions, E, CalleesOf(f))
      OBVIOUS
    <3>1. PICK p \in 1 .. E : callee(i).id = p - 1 /\ functions[p].name = body[i].callee
      BY <1>8
    <3>2. functions[p].name \in CalleesOf(f)
      BY <1>5, <3>1
    <3> QED BY <3>1, <3>2 DEF ExternIdsOf
  <2>2. ExternIdsOf(functions, E, CalleesOf(f)) \subseteq {callee(i).id : i \in outside}
    <3> SUFFICES ASSUME NEW p \in 1 .. E, functions[p].name \in CalleesOf(f)
                 PROVE  p - 1 \in {callee(i).id : i \in outside}
      BY DEF ExternIdsOf
    <3>1. PICK i \in D : functions[p].name = body[i].callee
      BY <1>5
    <3> QED BY <1>10, <3>1
  <2> QED BY <2>1, <2>2
<1>20. ExternCalls(body) \in Seq(Range(ExternCalls(body)))
  BY <1>12, <1>17
<1> QED BY <1>11, <1>12, <1>17, <1>18, <1>19, <1>20 DEF E, n

\* The parameters lie in the frame, in order; so do parameters and locals.
LEMMA SlotsConcat ==
  ASSUME NEW s, NEW t, IsSlots(s), IsSlots(t)
  PROVE  /\ IsSlots(s \o t) /\ Len(s) \in Nat /\ Len(t) \in Nat
         /\ Len(s \o t) = Len(s) + Len(t)
         /\ \A i \in 1 .. Len(s) : (s \o t)[i] = s[i]
<1>1. s \in Seq(Range(s)) /\ t \in Seq(Range(t))
  BY DEF IsSlots, Range
<1> DEFINE all == s \o t
<1>2. /\ all \in Seq(Range(all)) /\ Range(all) = Range(s) \cup Range(t)
      /\ Len(all) = Len(s) + Len(t)
  BY <1>1, ConcatAny
<1>3. Len(s) \in Nat /\ Len(t) \in Nat /\ \A i \in 1 .. Len(s) : all[i] = s[i]
  BY <1>1
<1>4. \A x \in Range(s) \cup Range(t) : x.kind \in SourceKinds
  BY DEF IsSlots, Range
<1> HIDE DEF all
<1>5. all \in Seq({all[i] : i \in DOMAIN all})
  BY <1>2 DEF Range
<1>6. \A i \in DOMAIN all : all[i] \in Range(s) \cup Range(t)
  BY <1>2 DEF Range
<1>7. IsSlots(all)
  BY <1>4, <1>5, <1>6 DEF IsSlots
<1> QED BY <1>2, <1>3, <1>7 DEF all

LEMMA FrameOfIs ==
  ASSUME NEW f, IsFunctionDefinition(f)
  PROVE  LET offsets == SubSeq(FrameOf(f).offsets, 1, Len(f.params))
         IN  /\ FrameOf(f).bytes \in Nat
             /\ Len(f.params) \in Nat /\ Len(f.locals) \in Nat
             /\ offsets \in Seq(Nat) /\ Len(offsets) = Len(f.params)
             /\ \A i \in 1 .. Len(f.params) :
                  offsets[i] + Size(f.params[i].kind) <= FrameOf(f).bytes
             /\ \A i, j \in 1 .. Len(f.params) :
                  i < j => offsets[i] + Size(f.params[i].kind) <= offsets[j]
<1> DEFINE slots == f.params \o f.locals
           p == Len(f.params)
           all == Frame(slots).offsets
           bytes == Frame(slots).bytes
<1>1. /\ IsSlots(slots) /\ p \in Nat /\ Len(f.locals) \in Nat
      /\ Len(slots) = p + Len(f.locals)
      /\ \A i \in 1 .. p : slots[i] = f.params[i]
  BY SlotsConcat DEF IsFunctionDefinition
<1>2. FrameOf(f).offsets = all /\ FrameOf(f).bytes = bytes
  BY DEF FrameOf
<1> HIDE DEF slots
<1>3. /\ bytes \in Nat
      /\ all \in [1 .. Len(slots) -> Nat]
      /\ \A i \in 1 .. Len(slots) : all[i] + Size(slots[i].kind) <= bytes
      /\ \A i, j \in 1 .. Len(slots) :
           i < j => all[i] + Size(slots[i].kind) <= all[j]
  BY <1>1, FrameIs
<1> HIDE DEF all, bytes, p
<1>4. all \in Seq(Nat) /\ Len(all) = Len(slots)
  BY <1>1, <1>3
<1> DEFINE offsets == SubSeq(all, 1, p)
<1>5. /\ offsets \in Seq(Nat) /\ Len(offsets) = p
      /\ \A i \in 1 .. p : offsets[i] = all[i]
  <2>1. p <= Len(all) /\ 0 \in Nat /\ 0 <= p
    BY <1>1, <1>4
  <2>2. /\ SubSeq(all, 0 + 1, p) \in Seq(Nat) /\ Len(SubSeq(all, 0 + 1, p)) = p - 0
        /\ \A i \in 1 .. p - 0 : SubSeq(all, 0 + 1, p)[i] = all[0 + i]
    BY <1>1, <1>4, <2>1, SubSeqIs
  <2>3. p - 0 = p /\ 0 + 1 = 1 /\ \A i \in 1 .. p : 0 + i = i
    BY <1>1
  <2> QED BY <2>2, <2>3
<1> HIDE DEF offsets
<1>6. 1 .. p \subseteq 1 .. Len(slots)
  BY <1>1
<1>7. \A i \in 1 .. p : offsets[i] + Size(f.params[i].kind) <= bytes
  BY <1>1, <1>3, <1>5, <1>6
<1>8. \A i, j \in 1 .. p : i < j => offsets[i] + Size(f.params[i].kind) <= offsets[j]
  BY <1>1, <1>3, <1>5, <1>6
<1> QED BY <1>1, <1>2, <1>3, <1>5, <1>7, <1>8 DEF offsets, p

\* What CompileFunction keeps of the function it is at.
LEMMA CompiledBlockIs ==
  ASSUME unit \in Units, IsTable(unit, functions, ScriptCount),
         NEW k \in 1 .. ScriptCount, NEW f, f = unit.functions[k], NEW strings,
         \A i \in DOMAIN f.body : f.body[i].do = "call" => IsFunction(f.body[i].callee)
  PROVE  IsBlock(unit, functions,
                 CompiledBlock(f, FrameOf(f), WithEpilogue(BodyCode(f.body, strings))), k)
<1> DEFINE body == BodyCode(f.body, strings)
           code == WithEpilogue(body)
           frame == FrameOf(f)
           old == FunctionNamed(f.name)
           b == CompiledBlock(f, frame, code)
           E == Len(functions) - Len(unit.functions)
<1>1. IsFunctionDefinition(f) /\ ScriptCount = Len(unit.functions)
  BY UnitType DEF ScriptCount
<1>2. functions \in Seq(Bindings(unit))
  BY DEF IsTable
<1>3. code \in Seq(Range(code)) /\ CallsAmong(Range(code)) = ScriptIds(f.body) /\ Len(code) # 0
  <2>1. body \in Seq(Range(body)) /\ CallsAmong(Range(body)) = ScriptIds(f.body)
    BY <1>1, <1>2, BodyCodeIs
  <2> HIDE DEF body
  <2> QED BY <2>1, EpilogueIs
<1>4. /\ E + k \in 1 .. Len(functions) /\ old = functions[E + k]
      /\ IsScriptBinding(old, f) /\ old.id = E + k - 1
  <2>1. /\ E + k \in 1 .. Len(functions) /\ functions[E + k].name = f.name
        /\ functions[E + k].id = E + k - 1
    <3> DEFINE n == ScriptCount
               list == functions
    <3>1. IsTable(unit, list, n) /\ k \in 1 .. n
      OBVIOUS
    <3> HIDE DEF list, n
    <3>2. IsIndexed(unit, list, n)
      BY <3>1, TableIndex
    <3>3. /\ Len(list) - n + k \in 1 .. Len(list)
          /\ list[Len(list) - n + k].name = unit.functions[k].name
          /\ list[Len(list) - n + k].id = Len(list) - n + k - 1
      BY Zenon, <3>1, <3>2 DEF IsIndexed
    <3> QED BY <1>1, <3>3 DEF list, n
  <2>2. old = functions[E + k]
    BY <2>1, FunctionNamedIs
  <2>3. IsScriptBinding(functions[E + k], f)
    BY <1>1 DEF IsTable
  <2> QED BY <2>1, <2>2, <2>3
<1>5. old \in Bindings(unit)
  <2> HIDE DEF old, E
  <2> QED BY <1>2, <1>4
<1> HIDE DEF old, code, frame, E
<1>6. b.binding = [old EXCEPT !.paramOffsets = SubSeq(frame.offsets, 1, Len(f.params)),
                              !.slotCount = Len(f.params) + Len(f.locals),
                              !.frameByteSize = frame.bytes]
  BY DEF CompiledBlock, old
<1>7. /\ b.code = Text(code) /\ b.calls = Operands(code, {"Call"})
      /\ b.externals = ExternCalls(f.body)
  BY DEF CompiledBlock
<1>8. /\ b.binding.id = old.id /\ b.binding.scope = old.scope /\ b.binding.name = old.name
      /\ b.binding.paramKinds = old.paramKinds
      /\ b.binding.returnKind = old.returnKind
      /\ b.binding.paramOffsets = SubSeq(frame.offsets, 1, Len(f.params))
      /\ b.binding.slotCount = Len(f.params) + Len(f.locals)
      /\ b.binding.frameByteSize = frame.bytes
  <2> HIDE DEF b
  <2>1. DOMAIN old = {"name", "id", "scope", "slot", "returnKind", "paramKinds",
                      "paramOffsets", "slotCount", "frameByteSize", "address"}
    BY <1>5 DEF Bindings
  <2> QED BY <1>6, <2>1
<1>9. b.binding \in Bindings(unit)
  <2>1. /\ frame.bytes \in Nat
        /\ SubSeq(frame.offsets, 1, Len(f.params)) \in Seq(Nat)
        /\ Len(f.params) \in Nat /\ Len(f.locals) \in Nat
    BY <1>1, FrameOfIs DEF frame
  <2> DEFINE p == Len(f.params)
             q == Len(f.locals)
  <2>2. Len(f.params) + Len(f.locals) \in Nat
    <3>1. p \in Nat /\ q \in Nat
      BY <2>1
    <3> HIDE DEF p, q
    <3>2. p + q \in Nat
      BY <3>1
    <3> QED BY <3>2 DEF p, q
  <2> DEFINE offsets == SubSeq(frame.offsets, 1, Len(f.params))
             count == Len(f.params) + Len(f.locals)
             bytes == frame.bytes
  <2>3. bytes \in Nat /\ offsets \in Seq(Nat) /\ count \in Nat
    BY <2>1, <2>2
  <2>4. b.binding = [old EXCEPT !.paramOffsets = offsets, !.slotCount = count,
                                !.frameByteSize = bytes]
    BY <1>6
  <2> HIDE DEF offsets, count, bytes, b
  <2> DEFINE one == [old EXCEPT !.paramOffsets = offsets]
             two == [one EXCEPT !.slotCount = count]
             three == [two EXCEPT !.frameByteSize = bytes]
  <2>5. one \in Bindings(unit)
    BY <1>5, <2>3 DEF Bindings
  <2>6. two \in Bindings(unit)
    <3> HIDE DEF one
    <3> QED BY <2>5, <2>3 DEF Bindings
  <2>7. three \in Bindings(unit)
    <3> HIDE DEF two
    <3> QED BY <2>6, <2>3 DEF Bindings
  <2>8. b.binding = three
    BY <2>4
  <2> HIDE DEF three
  <2> QED BY <2>7, <2>8
<1> HIDE DEF b
<1>10. IsScriptBinding(b.binding, f)
  BY <1>4, <1>8 DEF IsScriptBinding
<1>11. b.code \in Seq(Range(b.code)) /\ Len(b.code) # 0
  BY <1>3, <1>7, TextIs
<1>12. /\ b.calls \in Seq(Range(b.calls)) /\ \A p \in Range(b.calls) : IsPatch(p)
       /\ {p.id : p \in Range(b.calls)} = ScriptIds(f.body)
  BY <1>3, <1>7, OperandsAre
<1>13. /\ ScriptIds(f.body) = ScriptIdsOf(unit, E, CalleesOf(f))
       /\ b.externals \in Seq(Range(b.externals))
       /\ Range(b.externals) = ExternIdsOf(functions, E, CalleesOf(f))
  BY <1>1, <1>7, CalledIds DEF E
<1> USE DEF frame, E
<1> QED
  <2> HIDE DEF frame
  <2>1. frame = FrameOf(f) /\ f = unit.functions[k]
    BY DEF frame
  <2> QED BY <1>4, <1>8, <1>9, <1>10, <1>11, <1>12, <1>13, <2>1 DEF IsBlock, b, code, body

LEMMA BlocksInit == Init => BlocksInv
<1> SUFFICES ASSUME Init PROVE BlocksInv
  OBVIOUS
<1>1. blocks = <<>> /\ phase = "declare" /\ unit \in Units
  BY DEF Init
<1>2. Compiled = 0 /\ 0 \in 0 .. Len(unit.functions) /\ Len(<<>>) = 0
  BY <1>1, UnitType DEF Compiled
<1>3. \A k \in 1 .. 0 : FALSE
  OBVIOUS
<1> QED BY <1>1, <1>2, <1>3, EmptyRange DEF BlocksInv, AreBlocks

LEMMA CompileFunctionBlocks ==
  LayoutInv /\ TableInv /\ BlocksInv /\ CompileFunction => BlocksInv'
<1> SUFFICES ASSUME LayoutInv, TableInv, BlocksInv, CompileFunction PROVE BlocksInv'
  OBVIOUS
<1> DEFINE f == unit.functions[at]
           block(strings) == CompiledBlock(f, FrameOf(f), WithEpilogue(BodyCode(f.body, strings)))
<1>1. /\ phase = "compile" /\ at <= Len(unit.functions) /\ unit \in Units
      /\ at \in Nat \ {0} /\ ScriptCount = Len(unit.functions) /\ Len(unit.functions) \in Nat
  BY UnitType DEF CompileFunction, Item, LayoutInv, LayoutTypes, ScriptCount
<1>2. Registered = ScriptCount /\ Compiled = at - 1 /\ phase \in BuildPhases
  BY <1>1 DEF Registered, Compiled, BuildPhases, FrontPhases
<1>3. IsTable(unit, functions, ScriptCount) /\ AreBlocks(unit, functions, blocks, at - 1)
  BY <1>1, <1>2 DEF TableInv, BlocksInv
<1>4. CASE \E e : Fail(e)
  BY <1>4 DEF Fail, BlocksInv, BuildPhases, FrontPhases
<1>5. ASSUME NEW strings, blocks' = Append(blocks, block(strings)),
             \A i \in DOMAIN f.body : f.body[i].do = "call" => IsFunction(f.body[i].callee),
             Forward, UNCHANGED <<unit, functions>>
      PROVE  BlocksInv'
  <2> DEFINE b == block(strings)
             m == at - 1
  <2>1. IsBlock(unit, functions, b, at)
    <3>1. at \in 1 .. ScriptCount
      BY <1>1
    <3> HIDE DEF f
    <3>2. f = unit.functions[at]
      BY DEF f
    <3> QED BY <1>1, <1>3, <1>5, <3>1, <3>2, CompiledBlockIs
  <2> HIDE DEF b
  <2>2. /\ blocks \in Seq(Range(blocks)) /\ Len(blocks) = m /\ m \in Nat /\ m + 1 = at
        /\ m + 1 \in 0 .. Len(unit.functions)
        /\ \A k \in 1 .. m : IsBlock(unit, functions, blocks[k], k)
    BY <1>1, <1>3 DEF AreBlocks
  <2> HIDE DEF m
  <2> DEFINE new == Append(blocks, b)
             R == Range(blocks) \cup {b}
  <2>3. new \in Seq(R) /\ Len(new) = m + 1 /\ new[m + 1] = b
        /\ \A k \in 1 .. m : new[k] = blocks[k]
    <3>1. blocks \in Seq(R) /\ b \in R
      <4> DEFINE Q == Range(blocks)
      <4>1. blocks \in Seq(Q) /\ Q \subseteq R
        BY <2>2
      <4> HIDE DEF Q, R
      <4>2. blocks \in Seq(R)
        BY <4>1, SequenceWidens
      <4> QED BY <4>2 DEF R
    <3> HIDE DEF R
    <3> QED BY <2>2, <3>1
  <2>4. new \in Seq(Range(new))
    <3> HIDE DEF R, new
    <3> QED BY <2>3, SequenceNarrows
  <2> HIDE DEF new
  <2>5. \A k \in 1 .. m + 1 : IsBlock(unit, functions, new[k], k)
    <3>1. \A k \in 1 .. m + 1 : k \in 1 .. m \/ k = m + 1
      BY <2>2
    <3> QED BY <2>1, <2>2, <2>3, <3>1
  <2>6. AreBlocks(unit, functions, new, m + 1)
    BY <2>2, <2>3, <2>4, <2>5 DEF AreBlocks
  <2>7. Compiled' = m + 1
    BY <1>1, <1>5, <2>2 DEF Compiled, Forward
  <2>8. blocks' = new
    BY <1>5 DEF new, b
  <2>9. AreBlocks(unit', functions', blocks', Compiled')
    BY <1>5, <2>6, <2>7, <2>8
  <2> QED BY <2>9 DEF BlocksInv
<1>6. \/ \E e : Fail(e)
      \/ \E strings :
           /\ blocks' = Append(blocks, block(strings))
           /\ \A i \in DOMAIN f.body : f.body[i].do = "call" => IsFunction(f.body[i].callee)
           /\ Forward /\ UNCHANGED <<unit, functions>>
  BY DEF CompileFunction, FrameOf, table
<1> HIDE DEF f, block
<1> QED BY <1>4, <1>5, <1>6

\* The other steps leave the blocks alone, and the table once there are any.
LEMMA BlocksStep ==
  LayoutInv /\ TableInv /\ BlocksInv /\ [Next]_vars => BlocksInv'
<1> SUFFICES ASSUME LayoutInv, TableInv, BlocksInv, [Next]_vars PROVE BlocksInv'
  OBVIOUS
<1>1. CASE \E e : Fail(e)
  BY <1>1 DEF Fail, BlocksInv, BuildPhases, FrontPhases
<1>2. ASSUME blocks' = blocks, unit' = unit, phase \in BuildPhases, Compiled = 0, Compiled' = 0
      PROVE  BlocksInv'
  <2>1. AreBlocks(unit, functions, blocks, 0)
    BY <1>2 DEF BlocksInv
  <2>2. \A k \in 1 .. 0 : FALSE
    OBVIOUS
  <2>3. AreBlocks(unit', functions', blocks', 0)
    BY <1>2, <2>1, <2>2 DEF AreBlocks
  <2> QED BY <1>2, <2>3 DEF BlocksInv
<1>3. ASSUME UNCHANGED <<blocks, unit, functions>>, phase \in BuildPhases, Compiled' = Compiled
      PROVE  BlocksInv'
  <2>1. AreBlocks(unit, functions, blocks, Compiled)
    BY <1>3 DEF BlocksInv
  <2> DEFINE m == Compiled
             M == Compiled'
  <2>2. AreBlocks(unit, functions, blocks, m) /\ M = m
    BY <1>3, <2>1
  <2> HIDE DEF m, M
  <2>3. AreBlocks(unit', functions', blocks', M)
    BY <1>3, <2>2
  <2> QED BY <2>3 DEF BlocksInv, M
<1>4. CASE RegisterDecl \/ InitializeGlobal \/ RegisterFunction
  <2>1. \/ \E e : Fail(e)
        \/ /\ blocks' = blocks /\ unit' = unit /\ phase' = phase
           /\ phase \in {"declare", "initialize", "register"}
    BY <1>4 DEF RegisterDecl, InitializeGlobal, RegisterFunction, Item, Forward
  <2> QED BY <1>1, <1>2, <2>1 DEF Compiled, BuildPhases, FrontPhases
<1>5. CASE NextPhase
  <2>1. \/ \E e : Fail(e)
        \/ /\ blocks' = blocks /\ unit' = unit /\ at' = 1
           /\ phase \in {"declare", "initialize", "register"}
           /\ phase' \in {"initialize", "register", "compile"}
    BY <1>5 DEF NextPhase, Done, GoTo
  <2> QED BY <1>1, <1>2, <2>1 DEF Compiled, BuildPhases, FrontPhases
<1>6. CASE StartMarking
  <2>1. /\ UNCHANGED <<blocks, unit, functions>> /\ phase = "compile" /\ phase' = "mark"
        /\ at > Len(unit.functions)
    BY <1>6 DEF StartMarking, GoTo, table
  <2>2. Compiled = at - 1 /\ Compiled' = Len(unit.functions) /\ phase \in BuildPhases
    BY <2>1 DEF Compiled, ScriptCount, BuildPhases, FrontPhases
  <2>3. at - 1 \in 0 .. Len(unit.functions) /\ at \in Nat /\ Len(unit.functions) \in Nat
    BY <2>2, UnitType DEF BlocksInv, AreBlocks, LayoutInv, LayoutTypes
  <2>4. Compiled' = Compiled
    BY <2>1, <2>2, <2>3
  <2> QED BY <1>3, <2>1, <2>2, <2>4
<1>7. CASE FollowCall \/ LeaveBlock \/ StartAssembling \/ AssembleBlock
  <2>1. \/ \E e : Fail(e)
        \/ /\ UNCHANGED <<blocks, unit, functions>> /\ phase \in {"mark", "assemble"}
           /\ phase' \in {"mark", "assemble"}
    BY <1>7 DEF FollowCall, LeaveBlock, StartAssembling, AssembleBlock, Item, GoTo,
                Forward, table
  <2> QED BY <1>1, <1>3, <2>1 DEF Compiled, ScriptCount, BuildPhases, FrontPhases
<1>8. CASE FinishAssembling \/ Link \/ BuildProgramImage
  <2>1. (\E e : Fail(e)) \/ phase' \in {"link", "image", "done"}
    BY <1>8 DEF FinishAssembling, Link, BuildProgramImage, GoTo
  <2> QED BY <1>1, <2>1 DEF BlocksInv, BuildPhases, FrontPhases
<1>9. CASE UNCHANGED vars
  <2>1. UNCHANGED <<unit, phase, at, functions, blocks>>
    BY <1>9 DEF vars
  <2> QED BY <2>1 DEF BlocksInv, Compiled, ScriptCount
<1> QED BY <1>4, <1>5, <1>6, <1>7, <1>8, <1>9, CompileFunctionBlocks DEF Next, Compile

-----------------------------------------------------------------------------
(***************************************************************************)
(* The traversal, as steps of a graph and a stack.                         *)
(***************************************************************************)

\* The functions that function b of the source calls, by index.
Edges(u, b) ==
  {j \in 1 .. Len(u.functions) : u.functions[j].name \in CalleesOf(u.functions[b])}

\* The block that call c of block b goes to.
CallCount(bs, b) == Len(bs[b].calls)
Target(bs, b, c) == CHOOSE i \in DOMAIN bs : bs[i].binding.id = bs[b].calls[c].id

HasTargets(u, bs) ==
  \A b \in 1 .. Len(u.functions) :
    /\ CallCount(bs, b) \in Nat
    /\ \A c \in 1 .. CallCount(bs, b) : Target(bs, b, c) \in Edges(u, b)
    /\ \A j \in Edges(u, b) : \E c \in 1 .. CallCount(bs, b) : Target(bs, b, c) = j

\* stack is the path from the entry function to the block being visited, each
\* with its next call; the calls before it have been visited, all of them
\* once the block has.
IsMarking(u, bs, g, stack) ==
  /\ g \in [1 .. Len(u.functions) -> {"Unvisited", "Visiting", "Visited"}]
  /\ stack \in Seq((1 .. Len(u.functions)) \X Nat)
  /\ \A j \in 1 .. Len(stack) :
       /\ 1 <= stack[j][2]
       /\ stack[j][2] <= CallCount(bs, stack[j][1]) + 1
       /\ g[stack[j][1]] = "Visiting"
  /\ \A i, j \in 1 .. Len(stack) : stack[i][1] = stack[j][1] => i = j
  /\ \A b \in 1 .. Len(u.functions) :
       g[b] = "Visiting" => \E j \in 1 .. Len(stack) : stack[j][1] = b
  /\ \A j \in 1 .. Len(stack) - 1 :
       1 < stack[j][2] /\ Target(bs, stack[j][1], stack[j][2] - 1) = stack[j + 1][1]
  /\ \A b \in 1 .. Len(u.functions) :
       g[b] = "Visited" => \A j \in Edges(u, b) : g[j] = "Visited"
  /\ \A j \in 1 .. Len(stack) : \A c \in 1 .. stack[j][2] - 1 :
       \/ g[Target(bs, stack[j][1], c)] = "Visited"
       \/ j < Len(stack) /\ c = stack[j][2] - 1

LEMMA TopIs ==
  ASSUME NEW u, Len(u.functions) \in Nat, NEW bs, NEW g, NEW stack,
         IsMarking(u, bs, g, stack), stack # <<>>
  PROVE  /\ Len(stack) \in Nat \ {0} /\ Last(stack) = stack[Len(stack)]
         /\ Len(stack) \in 1 .. Len(stack)
         /\ \A j \in 1 .. Len(stack) :
              /\ stack[j][1] \in 1 .. Len(u.functions) /\ stack[j][2] \in Nat \ {0}
              /\ stack[j] = <<stack[j][1], stack[j][2]>>
<1> DEFINE P == (1 .. Len(u.functions)) \X Nat
<1>1. stack \in Seq(P) /\ \A j \in 1 .. Len(stack) : 1 <= stack[j][2]
  BY DEF IsMarking
<1>2. \A p \in P : p[1] \in 1 .. Len(u.functions) /\ p[2] \in Nat /\ p = <<p[1], p[2]>>
  OBVIOUS
<1> HIDE DEF P
<1>3. Len(stack) \in Nat \ {0} /\ \A j \in 1 .. Len(stack) : stack[j] \in P
  BY <1>1
<1>4. Last(stack) = stack[Len(stack)] /\ Len(stack) \in 1 .. Len(stack)
  BY <1>3 DEF Last
<1>5. \A j \in 1 .. Len(stack) : stack[j][2] \in Nat \ {0}
  BY <1>1, <1>2, <1>3
<1> QED BY <1>2, <1>3, <1>4, <1>5

\* The call on top goes to a block already visited.
LEMMA PassesCall ==
  ASSUME NEW u, Len(u.functions) \in Nat, NEW bs, HasTargets(u, bs), NEW g, NEW stack,
         IsMarking(u, bs, g, stack), stack # <<>>,
         NEW b, NEW c, b = Last(stack)[1], c = Last(stack)[2],
         c <= CallCount(bs, b), g[Target(bs, b, c)] = "Visited"
  PROVE  IsMarking(u, bs, g, [stack EXCEPT ![Len(stack)] = <<b, c + 1>>])
<1> DEFINE n == Len(u.functions)
           P == (1 .. n) \X Nat
           L == Len(stack)
           top == <<b, c + 1>>
           new == [stack EXCEPT ![L] = top]
<1>1. /\ L \in Nat \ {0} /\ L \in 1 .. L /\ b = stack[L][1] /\ c = stack[L][2]
      /\ b \in 1 .. n /\ c \in Nat \ {0} /\ stack \in Seq(P)
      /\ \A j \in 1 .. L : stack[j][1] \in 1 .. n /\ stack[j][2] \in Nat \ {0}
  <2>1. stack \in Seq(P)
    BY DEF IsMarking
  <2>2. /\ L \in Nat \ {0} /\ L \in 1 .. L /\ Last(stack) = stack[L]
        /\ \A j \in 1 .. L : stack[j][1] \in 1 .. n /\ stack[j][2] \in Nat \ {0}
    BY TopIs
  <2> HIDE DEF L, P
  <2> QED BY <2>1, <2>2
<1>2. top \in P /\ top[1] = b /\ top[2] = c + 1
  BY <1>1
<1> HIDE DEF P, top
<1>3. /\ new \in Seq(P) /\ Len(new) = L
      /\ \A j \in 1 .. L : new[j] = IF j = L THEN top ELSE stack[j]
  BY <1>1, <1>2
<1> HIDE DEF new, L
<1>4. \A j \in 1 .. L : /\ new[j][1] = stack[j][1]
                        /\ new[j][2] = IF j = L THEN c + 1 ELSE stack[j][2]
  BY <1>1, <1>2, <1>3
<1>5. CallCount(bs, b) \in Nat
  BY <1>1 DEF HasTargets
<1>6. \A j \in 1 .. L : /\ 1 <= new[j][2]
                        /\ new[j][2] <= CallCount(bs, new[j][1]) + 1
                        /\ g[new[j][1]] = "Visiting"
  <2> SUFFICES ASSUME NEW j \in 1 .. L
               PROVE  /\ 1 <= new[j][2]
                      /\ new[j][2] <= CallCount(bs, new[j][1]) + 1
                      /\ g[new[j][1]] = "Visiting"
    OBVIOUS
  <2>1. /\ 1 <= stack[j][2] /\ stack[j][2] <= CallCount(bs, stack[j][1]) + 1
        /\ g[stack[j][1]] = "Visiting"
    BY DEF IsMarking, L
  <2>2. CASE j = L
    BY <1>1, <1>4, <1>5, <2>1, <2>2
  <2>3. CASE j # L
    BY <1>4, <2>1, <2>3
  <2> QED BY <2>2, <2>3
<1>7. \A j \in 1 .. L - 1 : 1 < new[j][2] /\ Target(bs, new[j][1], new[j][2] - 1) = new[j + 1][1]
  <2>1. \A j \in 1 .. L - 1 : j \in 1 .. L /\ j + 1 \in 1 .. L /\ j # L
    BY <1>1
  <2>2. \A j \in 1 .. L - 1 : 1 < stack[j][2] /\ Target(bs, stack[j][1], stack[j][2] - 1) = stack[j + 1][1]
    BY DEF IsMarking, L
  <2> QED BY <1>4, <2>1, <2>2
<1>8. \A j \in 1 .. L : \A k \in 1 .. new[j][2] - 1 :
        g[Target(bs, new[j][1], k)] = "Visited" \/ (j < L /\ k = new[j][2] - 1)
  <2> SUFFICES ASSUME NEW j \in 1 .. L, NEW k \in 1 .. new[j][2] - 1
               PROVE  g[Target(bs, new[j][1], k)] = "Visited" \/ (j < L /\ k = new[j][2] - 1)
    OBVIOUS
  <2>1. \A i \in 1 .. stack[j][2] - 1 :
          g[Target(bs, stack[j][1], i)] = "Visited" \/ (j < L /\ i = stack[j][2] - 1)
    BY DEF IsMarking, L
  <2>2. CASE j = L /\ k = c
    BY <1>1, <1>4, <2>2
  <2>3. CASE j = L /\ k # c
    <3>1. k \in 1 .. c - 1 /\ ~(j < L)
      BY SMTT(20), <1>1, <1>4, <2>3
    <3> QED BY <1>1, <1>4, <2>1, <2>3, <3>1
  <2>4. CASE j # L
    BY <1>4, <2>1, <2>4
  <2> QED BY <2>2, <2>3, <2>4
<1>9. /\ \A i, j \in 1 .. L : new[i][1] = new[j][1] => i = j
      /\ \A d \in 1 .. n : g[d] = "Visiting" => \E j \in 1 .. L : new[j][1] = d
  <2>1. /\ \A i, j \in 1 .. L : stack[i][1] = stack[j][1] => i = j
        /\ \A d \in 1 .. n : g[d] = "Visiting" => \E j \in 1 .. L : stack[j][1] = d
    BY DEF IsMarking, L
  <2> QED BY <1>4, <2>1
<1>10. /\ g \in [1 .. n -> {"Unvisited", "Visiting", "Visited"}]
       /\ \A d \in 1 .. n : g[d] = "Visited" => \A j \in Edges(u, d) : g[j] = "Visited"
  BY DEF IsMarking
<1> HIDE DEF n
<1>11. IsMarking(u, bs, g, new)
  <2> USE DEF n, P
  <2> QED BY <1>3, <1>6, <1>7, <1>8, <1>9, <1>10 DEF IsMarking
<1> QED BY <1>11 DEF new, L, top

\* The call on top goes to a block not met before.
LEMMA EntersCall ==
  ASSUME NEW u, Len(u.functions) \in Nat, NEW bs, HasTargets(u, bs), NEW g, NEW stack,
         IsMarking(u, bs, g, stack), stack # <<>>,
         NEW b, NEW c, b = Last(stack)[1], c = Last(stack)[2], c <= CallCount(bs, b),
         NEW callee, callee = Target(bs, b, c), g[callee] = "Unvisited"
  PROVE  IsMarking(u, bs, [g EXCEPT ![callee] = "Visiting"],
                   Append([stack EXCEPT ![Len(stack)] = <<b, c + 1>>], <<callee, 1>>))
<1> DEFINE n == Len(u.functions)
           P == (1 .. n) \X Nat
           L == Len(stack)
           top == <<b, c + 1>>
           next == <<callee, 1>>
           advanced == [stack EXCEPT ![L] = top]
           new == Append(advanced, next)
           h == [g EXCEPT ![callee] = "Visiting"]
           States == {"Unvisited", "Visiting", "Visited"}
<1>1. /\ L \in Nat \ {0} /\ L \in 1 .. L /\ b = stack[L][1] /\ c = stack[L][2]
      /\ b \in 1 .. n /\ c \in Nat \ {0} /\ stack \in Seq(P)
      /\ \A j \in 1 .. L : stack[j][1] \in 1 .. n /\ stack[j][2] \in Nat \ {0}
  <2>1. stack \in Seq(P)
    BY DEF IsMarking
  <2>2. /\ L \in Nat \ {0} /\ L \in 1 .. L /\ Last(stack) = stack[L]
        /\ \A j \in 1 .. L : stack[j][1] \in 1 .. n /\ stack[j][2] \in Nat \ {0}
    BY TopIs
  <2> HIDE DEF L, P
  <2> QED BY <2>1, <2>2
<1>2. callee \in Edges(u, b) /\ callee \in 1 .. n /\ CallCount(bs, b) \in Nat
      /\ \A d \in 1 .. n : CallCount(bs, d) \in Nat
  <2>1. \A d \in 1 .. n : CallCount(bs, d) \in Nat
    BY DEF HasTargets
  <2>2. c \in 1 .. CallCount(bs, b)
    BY <1>1, <2>1
  <2>3. callee \in Edges(u, b)
    BY <1>1, <2>2 DEF HasTargets
  <2> QED BY <1>1, <2>1, <2>3 DEF Edges
<1>3. top \in P /\ top[1] = b /\ top[2] = c + 1 /\ next \in P /\ next[1] = callee /\ next[2] = 1
  <2>1. b \in 1 .. n /\ c + 1 \in Nat
    BY <1>1
  <2>2. callee \in 1 .. n /\ 1 \in Nat
    BY <1>2
  <2> HIDE DEF n
  <2>3. top \in P /\ top[1] = b /\ top[2] = c + 1
    BY <2>1
  <2>4. next \in P /\ next[1] = callee /\ next[2] = 1
    BY <2>2
  <2> QED BY <2>3, <2>4
<1> HIDE DEF P, top, next
<1>4. /\ advanced \in Seq(P) /\ Len(advanced) = L
      /\ \A j \in 1 .. L : advanced[j] = IF j = L THEN top ELSE stack[j]
  BY <1>1, <1>3
<1> HIDE DEF advanced
<1>5. /\ new \in Seq(P) /\ Len(new) = L + 1 /\ new[L + 1] = next
      /\ \A j \in 1 .. L : new[j] = advanced[j]
  BY <1>3, <1>4
<1> HIDE DEF new, L
<1>6. \A j \in 1 .. L : /\ new[j][1] = stack[j][1]
                        /\ new[j][2] = IF j = L THEN c + 1 ELSE stack[j][2]
  BY <1>1, <1>3, <1>4, <1>5
<1>7. \A j \in 1 .. L + 1 : j \in 1 .. L \/ j = L + 1
  BY <1>1
<1>8. new[L + 1][1] = callee /\ new[L + 1][2] = 1
  BY <1>3, <1>5
<1>9. /\ g \in [1 .. n -> States] /\ h \in [1 .. n -> States] /\ h[callee] = "Visiting"
      /\ \A d \in 1 .. n : d # callee => h[d] = g[d]
  <2>1. g \in [1 .. n -> States]
    BY DEF IsMarking
  <2> QED BY <1>2, <2>1
<1> HIDE DEF h, States, n
<1>10. \A d \in 1 .. n : g[d] = "Visited" => h[d] = "Visited"
  BY <1>9
<1>11. \A j \in 1 .. L : stack[j][1] # callee /\ g[stack[j][1]] = "Visiting"
  BY DEF IsMarking, L
<1>12. \A j \in 1 .. L + 1 : /\ 1 <= new[j][2]
                             /\ new[j][2] <= CallCount(bs, new[j][1]) + 1
                             /\ h[new[j][1]] = "Visiting"
  <2> SUFFICES ASSUME NEW j \in 1 .. L + 1
               PROVE  /\ 1 <= new[j][2]
                      /\ new[j][2] <= CallCount(bs, new[j][1]) + 1
                      /\ h[new[j][1]] = "Visiting"
    OBVIOUS
  <2>1. CASE j = L + 1
    BY <1>2, <1>8, <1>9, <2>1
  <2>2. CASE j \in 1 .. L
    <3>1. /\ 1 <= stack[j][2] /\ stack[j][2] <= CallCount(bs, stack[j][1]) + 1
      BY <2>2 DEF IsMarking, L
    <3>2. h[stack[j][1]] = "Visiting"
      <4>1. stack[j][1] \in 1 .. n /\ stack[j][1] # callee /\ g[stack[j][1]] = "Visiting"
        BY <1>1, <1>11, <2>2
      <4> QED BY <1>9, <4>1
    <3>3. CASE j = L
      <4>1. new[j][1] = b /\ new[j][2] = c + 1 /\ stack[j][1] = b
        BY <1>1, <1>6, <2>2, <3>3
      <4>2. 1 <= c + 1 /\ c + 1 <= CallCount(bs, b) + 1
        BY <1>1, <1>2
      <4> QED BY <3>2, <4>1, <4>2
    <3>4. CASE j # L
      BY <1>6, <2>2, <3>1, <3>2, <3>4
    <3> QED BY <3>3, <3>4
  <2> QED BY <1>7, <2>1, <2>2
<1>13. \A j \in 1 .. L : 1 < new[j][2] /\ Target(bs, new[j][1], new[j][2] - 1) = new[j + 1][1]
  <2> SUFFICES ASSUME NEW j \in 1 .. L
               PROVE  1 < new[j][2] /\ Target(bs, new[j][1], new[j][2] - 1) = new[j + 1][1]
    OBVIOUS
  <2>1. CASE j = L
    <3>1. new[j][1] = b /\ new[j][2] = c + 1 /\ (c + 1) - 1 = c /\ 1 < c + 1
      BY <1>1, <1>6, <2>1
    <3> QED BY <1>8, <2>1, <3>1
  <2>2. CASE j # L
    <3>1. j \in 1 .. L - 1 /\ j + 1 \in 1 .. L
      BY <1>1, <2>2
    <3>2. 1 < stack[j][2] /\ Target(bs, stack[j][1], stack[j][2] - 1) = stack[j + 1][1]
      BY <3>1 DEF IsMarking, L
    <3> QED BY <1>6, <2>2, <3>1, <3>2
  <2> QED BY <2>1, <2>2
<1>14. \A j \in 1 .. L + 1 : \A k \in 1 .. new[j][2] - 1 :
         h[Target(bs, new[j][1], k)] = "Visited" \/ (j < L + 1 /\ k = new[j][2] - 1)
  <2> SUFFICES ASSUME NEW j \in 1 .. L + 1, NEW k \in 1 .. new[j][2] - 1
               PROVE  h[Target(bs, new[j][1], k)] = "Visited" \/ (j < L + 1 /\ k = new[j][2] - 1)
    OBVIOUS
  <2>1. j \in 1 .. L
    BY <1>7, <1>8
  <2>2. j < L + 1
    BY <1>1, <2>1
  <2>3. CASE k = new[j][2] - 1
    BY <2>2, <2>3
  <2>4. CASE k # new[j][2] - 1
    <3>1. k \in 1 .. stack[j][2] - 1 /\ (j = L => k # c) /\ (j # L => k # stack[j][2] - 1)
          /\ k <= CallCount(bs, stack[j][1]) /\ (j = L => k < c)
      <4>1. stack[j][2] \in Nat \ {0} /\ stack[j][1] \in 1 .. n
        BY <1>1, <2>1
      <4>2. CallCount(bs, stack[j][1]) \in Nat /\ stack[j][2] <= CallCount(bs, stack[j][1]) + 1
        BY <1>2, <2>1, <4>1 DEF IsMarking, L
      <4>3. CASE j = L
        <5>1. new[j][2] = c + 1 /\ stack[j][2] = c
          BY <1>1, <1>6, <4>3
        <5>2. k \in 1 .. c /\ k # c
          BY <1>1, <2>4, <5>1
        <5>3. c \in Nat
          BY <4>1, <5>1
        <5>4. k < c /\ k \in 1 .. c - 1
          BY <5>2, <5>3
        <5>5. k <= CallCount(bs, stack[j][1])
          BY <4>2, <5>1, <5>3, <5>4
        <5> QED BY <4>3, <5>1, <5>2, <5>4, <5>5
      <4>4. CASE j # L
        <5>1. new[j][2] = stack[j][2]
          BY <1>6, <2>1, <4>4
        <5> QED BY <2>4, <4>1, <4>2, <4>4, <5>1
      <4> QED BY <4>3, <4>4
    <3>2. g[Target(bs, stack[j][1], k)] = "Visited"
      <4>1. g[Target(bs, stack[j][1], k)] = "Visited" \/ (j < L /\ k = stack[j][2] - 1)
        BY <2>1, <3>1 DEF IsMarking, L
      <4>2. j < L => j # L
        BY <1>1
      <4> QED BY <3>1, <4>1, <4>2
    <3>3. Target(bs, stack[j][1], k) \in 1 .. n
      <4>1. k \in 1 .. CallCount(bs, stack[j][1]) /\ stack[j][1] \in 1 .. n
        BY <1>1, <1>2, <2>1, <3>1
      <4> QED BY <4>1 DEF HasTargets, Edges, n
    <3> QED BY <1>6, <1>10, <2>1, <3>2, <3>3
  <2> QED BY <2>3, <2>4
<1>15. \A i, j \in 1 .. L + 1 : new[i][1] = new[j][1] => i = j
  <2> SUFFICES ASSUME NEW i \in 1 .. L + 1, NEW j \in 1 .. L + 1, new[i][1] = new[j][1]
               PROVE  i = j
    OBVIOUS
  <2>1. \A k, l \in 1 .. L : stack[k][1] = stack[l][1] => k = l
    BY DEF IsMarking, L
  <2>2. CASE i \in 1 .. L /\ j \in 1 .. L
    BY <1>6, <2>1, <2>2
  <2>3. CASE i = L + 1 /\ j \in 1 .. L
    BY <1>6, <1>8, <1>11, <2>3
  <2>4. CASE i \in 1 .. L /\ j = L + 1
    BY <1>6, <1>8, <1>11, <2>4
  <2> QED BY <1>7, <2>2, <2>3, <2>4
<1>16. \A d \in 1 .. n : h[d] = "Visiting" => \E j \in 1 .. L + 1 : new[j][1] = d
  <2> SUFFICES ASSUME NEW d \in 1 .. n, h[d] = "Visiting"
               PROVE  \E j \in 1 .. L + 1 : new[j][1] = d
    OBVIOUS
  <2>1. L + 1 \in 1 .. L + 1 /\ \A j \in 1 .. L : j \in 1 .. L + 1
    BY <1>1
  <2>2. CASE d = callee
    BY <1>8, <2>1, <2>2
  <2>3. CASE d # callee
    <3>1. g[d] = "Visiting"
      BY <1>9, <2>3
    <3>2. \E j \in 1 .. L : stack[j][1] = d
      BY <3>1 DEF IsMarking, L, n
    <3> QED BY <1>6, <2>1, <3>2
  <2> QED BY <2>2, <2>3
<1>17. \A d \in 1 .. n : h[d] = "Visited" => \A j \in Edges(u, d) : h[j] = "Visited"
  <2> SUFFICES ASSUME NEW d \in 1 .. n, h[d] = "Visited", NEW j \in Edges(u, d)
               PROVE  h[j] = "Visited"
    OBVIOUS
  <2>1. g[d] = "Visited"
    BY <1>9
  <2>2. g[j] = "Visited" /\ j \in 1 .. n
    BY <2>1 DEF IsMarking, Edges, n
  <2> QED BY <1>10, <2>2
<1>18. L + 1 - 1 = L
  BY <1>1
<1>19. IsMarking(u, bs, h, new)
  <2>1. Len(new) = L + 1 /\ Len(new) - 1 = L
    <3>1. Len(new) = L + 1
      BY <1>5
    <3>2. L \in Nat
      BY <1>1
    <3> QED BY <3>1, <3>2
  <2>2. /\ h \in [1 .. Len(u.functions) -> {"Unvisited", "Visiting", "Visited"}]
        /\ new \in Seq((1 .. Len(u.functions)) \X Nat)
    BY <1>5, <1>9 DEF n, P, States
  <2>3. /\ \A d \in 1 .. Len(u.functions) :
             h[d] = "Visiting" => \E j \in 1 .. Len(new) : new[j][1] = d
        /\ \A d \in 1 .. Len(u.functions) :
             h[d] = "Visited" => \A j \in Edges(u, d) : h[j] = "Visited"
    BY <1>16, <1>17, <2>1 DEF n
  <2>4. \A i, j \in 1 .. Len(new) : new[i][1] = new[j][1] => i = j
    BY <1>15, <2>1
  <2>5. \A j \in 1 .. Len(new) : /\ 1 <= new[j][2]
                                /\ new[j][2] <= CallCount(bs, new[j][1]) + 1
                                /\ h[new[j][1]] = "Visiting"
    BY <1>12, <2>1
  <2>6. \A j \in 1 .. Len(new) - 1 :
          1 < new[j][2] /\ Target(bs, new[j][1], new[j][2] - 1) = new[j + 1][1]
    BY <1>13, <2>1
  <2>7. \A j \in 1 .. Len(new) : \A k \in 1 .. new[j][2] - 1 :
          \/ h[Target(bs, new[j][1], k)] = "Visited"
          \/ j < Len(new) /\ k = new[j][2] - 1
    BY <1>14, <2>1
  <2> HIDE DEF new, h
  <2> QED BY <2>2, <2>3, <2>4, <2>5, <2>6, <2>7, Zenon DEF IsMarking
<1> QED BY <1>19 DEF h, new, advanced, L, top, next

\* The block on top has no more calls.
LEMMA LeavesCall ==
  ASSUME NEW u, Len(u.functions) \in Nat, NEW bs, HasTargets(u, bs), NEW g, NEW stack,
         IsMarking(u, bs, g, stack), stack # <<>>,
         NEW b, b = Last(stack)[1], Last(stack)[2] > CallCount(bs, b)
  PROVE  /\ IsMarking(u, bs, [g EXCEPT ![b] = "Visited"], Front(stack))
         /\ \A j \in Edges(u, b) : g[j] = "Visited"
         /\ b \in 1 .. Len(u.functions) /\ g[b] = "Visiting"
<1> DEFINE n == Len(u.functions)
           P == (1 .. n) \X Nat
           L == Len(stack)
           new == Front(stack)
           h == [g EXCEPT ![b] = "Visited"]
           States == {"Unvisited", "Visiting", "Visited"}
<1>1. /\ L \in Nat \ {0} /\ L \in 1 .. L /\ b = stack[L][1] /\ stack[L][2] > CallCount(bs, b)
      /\ b \in 1 .. n /\ stack \in Seq(P)
      /\ \A j \in 1 .. L : stack[j][1] \in 1 .. n /\ stack[j][2] \in Nat \ {0}
  <2>1. stack \in Seq(P)
    BY DEF IsMarking
  <2>2. /\ L \in Nat \ {0} /\ L \in 1 .. L /\ Last(stack) = stack[L]
        /\ \A j \in 1 .. L : stack[j][1] \in 1 .. n /\ stack[j][2] \in Nat \ {0}
    BY TopIs
  <2> HIDE DEF L, P
  <2> QED BY <2>1, <2>2
<1>2. new \in Seq(P) /\ Len(new) = L - 1 /\ \A j \in 1 .. L - 1 : new[j] = stack[j]
  <2> HIDE DEF P
  <2> QED BY <1>1, FrontShorter
<1> HIDE DEF new, P, L
<1>3. L - 1 \in Nat /\ \A j \in 1 .. L - 1 : j \in 1 .. L /\ j # L /\ j + 1 \in 1 .. L
  BY <1>1
<1>4. g \in [1 .. n -> States]
  BY DEF IsMarking
<1>5. /\ h \in [1 .. n -> States] /\ h[b] = "Visited" /\ \A d \in 1 .. n : d # b => h[d] = g[d]
  BY <1>1, <1>4
<1> HIDE DEF h, States, n
<1>6. \A d \in 1 .. n : g[d] = "Visited" => h[d] = "Visited"
  BY <1>5
<1>7. CallCount(bs, b) \in Nat
  BY <1>1 DEF HasTargets, n
<1>8. \A j \in Edges(u, b) : g[j] = "Visited"
  <2> SUFFICES ASSUME NEW j \in Edges(u, b) PROVE g[j] = "Visited"
    OBVIOUS
  <2>1. PICK c \in 1 .. CallCount(bs, b) : Target(bs, b, c) = j
    BY <1>1 DEF HasTargets, n
  <2>2. stack[L][2] \in Nat
    BY <1>1
  <2>3. c \in 1 .. stack[L][2] - 1
    BY <1>1, <1>7, <2>2
  <2>4. g[Target(bs, stack[L][1], c)] = "Visited" \/ (L < L /\ c = stack[L][2] - 1)
    BY <1>1, <2>3 DEF IsMarking, L
  <2>5. ~(L < L)
    BY <1>1
  <2> QED BY <1>1, <2>1, <2>4, <2>5
<1>9. \A j \in 1 .. L - 1 : stack[j][1] # b /\ stack[j][1] \in 1 .. n /\ g[stack[j][1]] = "Visiting"
  <2>1. \A i, j \in 1 .. L : stack[i][1] = stack[j][1] => i = j
    BY DEF IsMarking, L
  <2>2. \A j \in 1 .. L : g[stack[j][1]] = "Visiting"
    BY DEF IsMarking, L
  <2> QED BY <1>1, <1>3, <2>1, <2>2
<1>10. \A j \in 1 .. Len(new) : /\ 1 <= new[j][2]
                                /\ new[j][2] <= CallCount(bs, new[j][1]) + 1
                                /\ h[new[j][1]] = "Visiting"
  <2> SUFFICES ASSUME NEW j \in 1 .. L - 1
               PROVE  /\ 1 <= stack[j][2]
                      /\ stack[j][2] <= CallCount(bs, stack[j][1]) + 1
                      /\ h[stack[j][1]] = "Visiting"
    BY <1>2
  <2>1. /\ 1 <= stack[j][2] /\ stack[j][2] <= CallCount(bs, stack[j][1]) + 1
    BY <1>3 DEF IsMarking, L
  <2>2. h[stack[j][1]] = "Visiting"
    BY <1>5, <1>9
  <2> QED BY <2>1, <2>2
<1>11. \A i, j \in 1 .. Len(new) : new[i][1] = new[j][1] => i = j
  <2>1. \A i, j \in 1 .. L : stack[i][1] = stack[j][1] => i = j
    BY DEF IsMarking, L
  <2> QED BY <1>2, <1>3, <2>1
<1>12. \A d \in 1 .. n : h[d] = "Visiting" => \E j \in 1 .. Len(new) : new[j][1] = d
  <2> SUFFICES ASSUME NEW d \in 1 .. n, h[d] = "Visiting"
               PROVE  \E j \in 1 .. L - 1 : stack[j][1] = d
    BY <1>2
  <2>1. d # b /\ g[d] = "Visiting"
    BY <1>5
  <2>2. PICK j \in 1 .. L : stack[j][1] = d
    BY <2>1 DEF IsMarking, L, n
  <2>3. j # L
    BY <1>1, <2>1, <2>2
  <2>4. j \in 1 .. L - 1
    BY <1>1, <2>3
  <2> QED BY <2>2, <2>4
<1>13. \A j \in 1 .. Len(new) - 1 :
         1 < new[j][2] /\ Target(bs, new[j][1], new[j][2] - 1) = new[j + 1][1]
  <2> SUFFICES ASSUME NEW j \in 1 .. L - 1 - 1
               PROVE  1 < new[j][2] /\ Target(bs, new[j][1], new[j][2] - 1) = new[j + 1][1]
    BY <1>2
  <2>1. j \in 1 .. L - 1 /\ j + 1 \in 1 .. L - 1
    BY <1>3
  <2>2. 1 < stack[j][2] /\ Target(bs, stack[j][1], stack[j][2] - 1) = stack[j + 1][1]
    BY <2>1 DEF IsMarking, L
  <2> QED BY <1>2, <2>1, <2>2
<1>14. \A d \in 1 .. n : h[d] = "Visited" => \A j \in Edges(u, d) : h[j] = "Visited"
  <2> SUFFICES ASSUME NEW d \in 1 .. n, h[d] = "Visited", NEW j \in Edges(u, d)
               PROVE  h[j] = "Visited"
    OBVIOUS
  <2>1. j \in 1 .. n
    BY DEF Edges, n
  <2>2. CASE d = b
    BY <1>6, <1>8, <2>1, <2>2
  <2>3. CASE d # b
    <3>1. g[d] = "Visited"
      BY <1>5, <2>3
    <3>2. g[j] = "Visited"
      BY <3>1 DEF IsMarking, n
    <3> QED BY <1>6, <2>1, <3>2
  <2> QED BY <2>2, <2>3
<1>15. \A j \in 1 .. Len(new) : \A k \in 1 .. new[j][2] - 1 :
         \/ h[Target(bs, new[j][1], k)] = "Visited"
         \/ j < Len(new) /\ k = new[j][2] - 1
  <2> SUFFICES ASSUME NEW j \in 1 .. L - 1, NEW k \in 1 .. stack[j][2] - 1
               PROVE  \/ h[Target(bs, stack[j][1], k)] = "Visited"
                      \/ j < L - 1 /\ k = stack[j][2] - 1
    BY <1>2
  <2>1. g[Target(bs, stack[j][1], k)] = "Visited" \/ (j < L /\ k = stack[j][2] - 1)
    BY <1>3 DEF IsMarking, L
  <2>2. Target(bs, stack[j][1], k) \in 1 .. n
    <3>1. stack[j][1] \in 1 .. n /\ stack[j][2] \in Nat
      BY <1>1, <1>3
    <3>2. CallCount(bs, stack[j][1]) \in Nat /\ stack[j][2] <= CallCount(bs, stack[j][1]) + 1
      BY <1>3, <3>1 DEF IsMarking, HasTargets, L, n
    <3>3. k \in 1 .. CallCount(bs, stack[j][1])
      BY <3>1, <3>2
    <3> QED BY <3>1, <3>3 DEF HasTargets, Edges, n
  <2>3. CASE g[Target(bs, stack[j][1], k)] = "Visited"
    BY <1>6, <2>2, <2>3
  <2>4. CASE k = stack[j][2] - 1 /\ j = L - 1
    <3>1. Target(bs, stack[j][1], stack[j][2] - 1) = stack[j + 1][1]
      BY DEF IsMarking, L
    <3>2. Target(bs, stack[j][1], k) = b
      BY <1>1, <2>4, <3>1
    <3> QED BY <1>5, <3>2
  <2>5. CASE k = stack[j][2] - 1 /\ j # L - 1
    <3>1. j < L - 1
      BY <1>3, <2>5
    <3> QED BY <2>5, <3>1
  <2> QED BY <2>1, <2>3, <2>4, <2>5
<1>16. /\ h \in [1 .. Len(u.functions) -> {"Unvisited", "Visiting", "Visited"}]
       /\ new \in Seq((1 .. Len(u.functions)) \X Nat)
  BY <1>2, <1>5 DEF n, P, States
<1>17. IsMarking(u, bs, h, new)
  <2>1. /\ \A d \in 1 .. Len(u.functions) :
             h[d] = "Visiting" => \E j \in 1 .. Len(new) : new[j][1] = d
        /\ \A d \in 1 .. Len(u.functions) :
             h[d] = "Visited" => \A j \in Edges(u, d) : h[j] = "Visited"
    BY <1>12, <1>14 DEF n
  <2> QED BY <1>10, <1>11, <1>13, <1>15, <1>16, <2>1, Zenon DEF IsMarking
<1>18. g[b] = "Visiting"
  BY <1>1 DEF IsMarking, L
<1> QED BY <1>1, <1>8, <1>17, <1>18 DEF h, new, n

\* What the path from a block on the stack to the top reaches.
LEMMA PathReached ==
  ASSUME NEW u, Len(u.functions) \in Nat, NEW bs, HasTargets(u, bs), NEW g, NEW stack,
         IsMarking(u, bs, g, stack), NEW i \in 1 .. Len(stack), NEW R,
         \A j \in Edges(u, stack[i][1]) : j \in R,
         \A d \in R : d \in 1 .. Len(u.functions) => Edges(u, d) \subseteq R
  PROVE  \A j \in i + 1 .. Len(stack) : stack[j][1] \in R
<1> DEFINE n == Len(u.functions)
           L == Len(stack)
           S == {k \in 0 .. L - i : k # 0 => stack[i + k][1] \in R}
<1>1. L \in Nat /\ i \in 1 .. L /\ L - i \in Nat
  <2>1. stack \in Seq((1 .. n) \X Nat)
    BY DEF IsMarking
  <2>2. L \in Nat
    BY <2>1
  <2> QED BY <2>2
<1>2. stack # <<>>
  BY <1>1
<1>3. \A j \in 1 .. L : stack[j][1] \in 1 .. n /\ stack[j][2] \in Nat \ {0}
  BY <1>2, TopIs
<1>4. \A j \in 1 .. L - 1 : stack[j + 1][1] \in Edges(u, stack[j][1])
  <2> SUFFICES ASSUME NEW j \in 1 .. L - 1
               PROVE  stack[j + 1][1] \in Edges(u, stack[j][1])
    OBVIOUS
  <2>1. j \in 1 .. L
    BY <1>1
  <2>2. /\ 1 < stack[j][2] /\ stack[j][2] <= CallCount(bs, stack[j][1]) + 1
        /\ Target(bs, stack[j][1], stack[j][2] - 1) = stack[j + 1][1]
    BY <2>1 DEF IsMarking
  <2>3. CallCount(bs, stack[j][1]) \in Nat
    BY <1>3, <2>1 DEF HasTargets
  <2>4. stack[j][2] - 1 \in 1 .. CallCount(bs, stack[j][1])
    BY <1>3, <2>1, <2>2, <2>3
  <2> QED BY <1>3, <2>1, <2>2, <2>4 DEF HasTargets
<1>5. 0 \in S
  BY <1>1
<1>6. ASSUME NEW k \in 0 .. L - i - 1, k \in S PROVE k + 1 \in S
  <2>1. /\ i + k \in 1 .. L - 1 /\ i + k \in 1 .. L /\ i + (k + 1) = (i + k) + 1
        /\ k + 1 \in 0 .. L - i
    BY <1>1
  <2>2. stack[i + (k + 1)][1] \in Edges(u, stack[i + k][1])
    BY <1>4, <2>1
  <2>3. CASE k = 0
    <3>1. i + k = i
      BY <1>1, <2>3
    <3> QED BY <2>1, <2>2, <3>1
  <2>4. CASE k # 0
    <3>1. stack[i + k][1] \in R
      BY <1>6, <2>4
    <3> QED BY <1>3, <2>1, <2>2, <3>1
  <2> QED BY <2>3, <2>4
<1>7. 0 .. L - i \subseteq S
  <2> HIDE DEF S
  <2> QED BY <1>1, <1>5, <1>6, SetInduction
<1> SUFFICES ASSUME NEW j \in i + 1 .. L PROVE stack[j][1] \in R
  OBVIOUS
<1>8. j - i \in 0 .. L - i /\ j - i # 0 /\ i + (j - i) = j
  BY <1>1
<1>9. j - i \in S
  <2> HIDE DEF S
  <2> QED BY <1>7, <1>8
<1> QED BY <1>8, <1>9
=============================================================================
