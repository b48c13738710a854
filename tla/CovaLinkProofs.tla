---------------------------- MODULE CovaLinkProofs ----------------------------
(***************************************************************************)
(* Proofs about the back end, for every program: the traversal marks what  *)
(* the entry function reaches and refuses recursion, the functions marked  *)
(* are assembled, and the linker finds them.                               *)
(***************************************************************************)
EXTENDS CovaLayoutProofs

-----------------------------------------------------------------------------
(***************************************************************************)
(* Blocks and the names of the source.                                     *)
(***************************************************************************)

\* The block with an ID.
IdIndex(bs, id) == CHOOSE i \in DOMAIN bs : bs[i].binding.id = id

LEMMA TargetsAre ==
  ASSUME NEW u, NEW list, NEW bs, IsTable(u, list, Len(u.functions)),
         AreBlocks(u, list, bs, Len(u.functions))
  PROVE  /\ HasTargets(u, bs)
         /\ Len(u.functions) \in Nat
         /\ DOMAIN bs = 1 .. Len(u.functions)
         /\ \A j \in 1 .. Len(u.functions) :
              IdIndex(bs, Len(list) - Len(u.functions) + j - 1) = j
<1> DEFINE n == Len(u.functions)
           E == Len(list) - n
<1>1. n \in Nat /\ E \in Nat
  BY TableIndex DEF IsIndexed
<1>2. DOMAIN bs = 1 .. n
  BY DEF AreBlocks
<1>3. \A k \in 1 .. n : /\ bs[k].binding.id = E + k - 1
                        /\ bs[k].calls \in Seq(Range(bs[k].calls))
                        /\ {p.id : p \in Range(bs[k].calls)}
                             = ScriptIdsOf(u, E, CalleesOf(u.functions[k]))
  BY DEF AreBlocks, IsBlock
<1> HIDE DEF E
<1>4. \A j \in 1 .. n : IdIndex(bs, E + j - 1) = j
  <2> SUFFICES ASSUME NEW j \in 1 .. n PROVE IdIndex(bs, E + j - 1) = j
    OBVIOUS
  <2> HIDE DEF n
  <2>0. \A i \in 1 .. n : bs[i].binding.id = E + i - 1
    BY <1>3
  <2>1. \A i \in DOMAIN bs : bs[i].binding.id = E + j - 1 <=> i = j
    BY <1>1, <1>2, <2>0
  <2>2. \E i \in DOMAIN bs : bs[i].binding.id = E + j - 1
    BY <2>1, <1>2
  <2>3. /\ IdIndex(bs, E + j - 1) \in DOMAIN bs
        /\ bs[IdIndex(bs, E + j - 1)].binding.id = E + j - 1
    BY <2>2 DEF IdIndex
  <2> QED BY <2>1, <2>3
<1>5. ASSUME NEW b \in 1 .. n
      PROVE  /\ CallCount(bs, b) \in Nat
             /\ \A c \in 1 .. CallCount(bs, b) : Target(bs, b, c) \in Edges(u, b)
             /\ \A j \in Edges(u, b) : \E c \in 1 .. CallCount(bs, b) : Target(bs, b, c) = j
  <2> DEFINE calls == bs[b].calls
  <2>1. calls \in Seq(Range(calls)) /\ CallCount(bs, b) = Len(calls)
    BY <1>3 DEF CallCount
  <2>2. {p.id : p \in Range(calls)} = {E + j - 1 : j \in Edges(u, b)}
    BY <1>3 DEF ScriptIdsOf, Edges
  <2>3. \A j \in Edges(u, b) : j \in 1 .. n
    BY DEF Edges
  <2>4. \A c \in 1 .. Len(calls) : Target(bs, b, c) = IdIndex(bs, calls[c].id)
    BY DEF Target, IdIndex
  <2> HIDE DEF calls
  <2>5. ASSUME NEW c \in 1 .. Len(calls) PROVE Target(bs, b, c) \in Edges(u, b)
    <3>1. calls[c] \in Range(calls)
      BY <2>1 DEF Range
    <3>2. PICK j \in Edges(u, b) : calls[c].id = E + j - 1
      BY <3>1, <2>2
    <3> QED BY <3>2, <2>3, <2>4, <1>4
  <2>6. ASSUME NEW j \in Edges(u, b)
        PROVE  \E c \in 1 .. Len(calls) : Target(bs, b, c) = j
    <3>1. E + j - 1 \in {p.id : p \in Range(calls)}
      BY <2>2
    <3>2. PICK p \in Range(calls) : p.id = E + j - 1
      BY <3>1
    <3>3. PICK c \in 1 .. Len(calls) : calls[c] = p
      BY <3>2, <2>1 DEF Range
    <3> QED BY <3>2, <3>3, <2>3, <2>4, <1>4
  <2> QED BY <2>1, <2>5, <2>6
<1> QED BY <1>1, <1>2, <1>4, <1>5 DEF HasTargets, E


\* Function k of the source, and the names of some of them.
NameOf(k) == unit.functions[k].name
NamesOf(indices) == {NameOf(k) : k \in indices}

LEMMA CalleesAre ==
  ASSUME unit \in Units, DistinctNames(unit.functions), NEW b \in 1 .. ScriptCount
  PROVE  /\ NameOf(b) \in ScriptNames
         /\ SourceCallees(NameOf(b)) = CalleesOf(unit.functions[b])
         /\ ScriptCallees(NameOf(b)) = NamesOf(Edges(unit, b))
<1>1. DOMAIN unit.functions = 1 .. ScriptCount
  BY UnitType DEF ScriptCount
<1> DEFINE chosen == CHOOSE i \in DOMAIN unit.functions : unit.functions[i].name = NameOf(b)
<1>2. chosen \in DOMAIN unit.functions /\ unit.functions[chosen].name = NameOf(b)
  <2>1. \E i \in DOMAIN unit.functions : unit.functions[i].name = NameOf(b)
    BY <1>1 DEF NameOf
  <2> QED BY <2>1
<1>3. chosen = b
  BY <1>1, <1>2 DEF DistinctNames, NameOf
<1>4. SourceCallees(NameOf(b)) = CalleesOf(unit.functions[b])
  BY <1>3 DEF SourceCallees, SourceBody, CalleesOf
<1>5. ScriptCallees(NameOf(b)) = NamesOf(Edges(unit, b))
  BY <1>1, <1>4 DEF ScriptCallees, ScriptNames, NamesOf, NameOf, Edges, ScriptCount
<1> QED BY <1>1, <1>4, <1>5 DEF ScriptNames, NameOf

\* Functions that call only one another have a closed set of names.
LEMMA ClosedNames ==
  ASSUME unit \in Units, DistinctNames(unit.functions), NEW S \in SUBSET (1 .. ScriptCount),
         \A b \in S : Edges(unit, b) \subseteq S
  PROVE  NamesOf(S) \subseteq ScriptNames /\ IsClosed(NamesOf(S))
<1>1. \A b \in S : NameOf(b) \in ScriptNames /\ ScriptCallees(NameOf(b)) = NamesOf(Edges(unit, b))
  BY CalleesAre
<1>2. NamesOf(S) \subseteq ScriptNames
  BY <1>1 DEF NamesOf
<1>3. ASSUME NEW f \in NamesOf(S) PROVE ScriptCallees(f) \subseteq NamesOf(S)
  <2>1. PICK b \in S : f = NameOf(b)
    BY DEF NamesOf
  <2>2. Edges(unit, b) \subseteq S
    OBVIOUS
  <2> QED BY <1>1, <2>1, <2>2 DEF NamesOf
<1> QED BY <1>2, <1>3 DEF IsClosed

LEMMA RecursiveIs ==
  \A f : Recursive(f) <=> f \in ReachedFrom(ScriptCallees(f))
BY DEF Recursive, ScriptCallees

\* One that calls only those of such a set it is not in is not recursive.
LEMMA NotRecursive ==
  ASSUME unit \in Units, DistinctNames(unit.functions), NEW S \in SUBSET (1 .. ScriptCount),
         \A b \in S : Edges(unit, b) \subseteq S,
         NEW k \in 1 .. ScriptCount, k \notin S, Edges(unit, k) \subseteq S
  PROVE  ~Recursive(NameOf(k))
<1>1. NamesOf(S) \in SUBSET ScriptNames /\ IsClosed(NamesOf(S))
  BY ClosedNames
<1>2. ScriptCallees(NameOf(k)) = NamesOf(Edges(unit, k))
  BY CalleesAre
<1>3. ScriptCallees(NameOf(k)) \subseteq NamesOf(S)
  BY <1>2 DEF NamesOf
<1>4. ScriptCallees(NameOf(k)) \in SUBSET ScriptNames
  BY DEF ScriptCallees
<1>5. ReachedFrom(ScriptCallees(NameOf(k))) \subseteq NamesOf(S)
  BY <1>1, <1>3, <1>4, ReachedFromIs
<1>6. DOMAIN unit.functions = 1 .. ScriptCount
  BY UnitType DEF ScriptCount
<1>7. NameOf(k) \notin NamesOf(S)
  BY <1>6 DEF NamesOf, NameOf, DistinctNames
<1> QED BY <1>5, <1>7, RecursiveIs

\* The indices of the functions some names reach.
ReachedIndices(names) == {k \in 1 .. ScriptCount : NameOf(k) \in ReachedFrom(names)}

LEMMA ReachedClosed ==
  ASSUME unit \in Units, DistinctNames(unit.functions), NEW names \in SUBSET ScriptNames
  PROVE  \A d \in ReachedIndices(names) : Edges(unit, d) \subseteq ReachedIndices(names)
<1> SUFFICES ASSUME NEW d \in ReachedIndices(names), NEW j \in Edges(unit, d)
             PROVE  j \in ReachedIndices(names)
  OBVIOUS
<1>1. d \in 1 .. ScriptCount /\ NameOf(d) \in ReachedFrom(names)
  BY DEF ReachedIndices
<1>2. ScriptCallees(NameOf(d)) = NamesOf(Edges(unit, d))
  BY <1>1, CalleesAre
<1>3. IsClosed(ReachedFrom(names))
  BY ReachedFromIs
<1>4. NameOf(j) \in ReachedFrom(names)
  BY <1>1, <1>2, <1>3 DEF IsClosed, NamesOf
<1> QED BY <1>4 DEF ReachedIndices, Edges, ScriptCount

\* What is live, and what is recursive, is read off the source.
LEMMA SourceKept ==
  ASSUME UNCHANGED unit
  PROVE  LiveNames' = LiveNames /\ \A f : Recursive(f)' <=> Recursive(f)
BY DEF LiveNames, Recursive, ReachedFrom, ScriptNames, SourceCallees, SourceBody

-----------------------------------------------------------------------------
(***************************************************************************)
(* The invariant of the traversal.                                         *)
(***************************************************************************)

\* The entry function is marked, and it is one of the script.
EntryMarked(u, g) ==
  \E k \in 1 .. Len(u.functions) :
    u.functions[k].name = EntryName /\ g[k] # "Unvisited"

\* Only what the entry function reaches is marked, and what has been visited
\* is not recursive.
MarkedLive(g) ==
  \A b \in 1 .. ScriptCount : g[b] # "Unvisited" => NameOf(b) \in LiveNames
VisitedSound(g) ==
  \A b \in 1 .. ScriptCount : g[b] = "Visited" => ~Recursive(NameOf(b))

MarkInv ==
  phase = "mark" =>
    /\ IsMarking(unit, blocks, callGraph, dfs)
    /\ EntryMarked(unit, callGraph)
    /\ MarkedLive(callGraph)
    /\ VisitedSound(callGraph)

\* Where the traversal is.
MarkContext ==
  /\ unit \in Units
  /\ DistinctNames(unit.functions)
  /\ IsTable(unit, functions, ScriptCount)
  /\ AreBlocks(unit, functions, blocks, ScriptCount)
  /\ HasTargets(unit, blocks)
  /\ ScriptCount \in Nat
  /\ DOMAIN blocks = 1 .. ScriptCount

LEMMA ContextIs ==
  ASSUME LayoutInv, TableInv, BlocksInv,
         phase \in {"mark", "assemble"} \/ (phase = "compile" /\ at > ScriptCount)
  PROVE  MarkContext
<1>1. unit \in Units
  BY DEF LayoutInv, LayoutTypes
<1>2. ScriptCount \in Nat /\ DOMAIN unit.functions = 1 .. ScriptCount
  BY <1>1, UnitType DEF ScriptCount
<1>3. phase \in BuildPhases /\ Registered = ScriptCount
  BY DEF BuildPhases, FrontPhases, Registered
<1>4. IsTable(unit, functions, ScriptCount)
  BY <1>3 DEF TableInv
<1>5. AreBlocks(unit, functions, blocks, Compiled)
  BY <1>3 DEF BlocksInv
<1>6. Compiled = ScriptCount
  <2>1. CASE phase = "compile"
    <3>1. Compiled = at - 1 /\ at \in Nat
      BY <2>1 DEF Compiled, LayoutInv, LayoutTypes
    <3>2. Compiled \in 0 .. ScriptCount
      BY <1>5 DEF AreBlocks, ScriptCount
    <3>3. at > ScriptCount
      BY <2>1
    <3> QED BY <3>1, <3>2, <3>3, <1>2
  <2>2. CASE phase # "compile"
    BY <2>2 DEF Compiled
  <2> QED BY <2>1, <2>2
<1>7. DistinctNames(unit.functions)
  <2>1. \A j, k \in 1 .. ScriptCount : unit.functions[j].name = unit.functions[k].name => j = k
    BY <1>4, ScriptNamesDistinct
  <2> QED BY <2>1, <1>2 DEF DistinctNames
<1>8. HasTargets(unit, blocks) /\ DOMAIN blocks = 1 .. ScriptCount
  <2>1. AreBlocks(unit, functions, blocks, Len(unit.functions))
    BY <1>5, <1>6 DEF ScriptCount
  <2>2. IsTable(unit, functions, Len(unit.functions))
    BY <1>4 DEF ScriptCount
  <2> QED BY <2>1, <2>2, TargetsAre DEF ScriptCount
<1> QED BY <1>1, <1>2, <1>4, <1>5, <1>6, <1>7, <1>8 DEF MarkContext

\* Names of what the entry function reaches.
LEMMA LiveIs ==
  ASSUME unit \in Units, DistinctNames(unit.functions), EntryName \in ScriptNames
  PROVE  /\ EntryName \in LiveNames
         /\ LiveNames \subseteq ScriptNames
         /\ \A b \in 1 .. ScriptCount : NameOf(b) \in LiveNames =>
              \A j \in Edges(unit, b) : j \in 1 .. ScriptCount /\ NameOf(j) \in LiveNames
         /\ \A closed \in SUBSET ScriptNames :
              EntryName \in closed /\ IsClosed(closed) => LiveNames \subseteq closed
<1> DEFINE names == {EntryName}
<1>1. names \in SUBSET ScriptNames /\ LiveNames = ReachedFrom(names)
  BY DEF LiveNames
<1> HIDE DEF names
<1>2. /\ names \subseteq LiveNames /\ LiveNames \subseteq ScriptNames
      /\ IsClosed(LiveNames)
      /\ \A closed \in SUBSET ScriptNames :
           names \subseteq closed /\ IsClosed(closed) => LiveNames \subseteq closed
  BY <1>1, ReachedFromIs
<1>3. ASSUME NEW b \in 1 .. ScriptCount, NameOf(b) \in LiveNames,
             NEW j \in Edges(unit, b)
      PROVE  j \in 1 .. ScriptCount /\ NameOf(j) \in LiveNames
  <2>1. ScriptCallees(NameOf(b)) = NamesOf(Edges(unit, b))
    BY CalleesAre
  <2>2. ScriptCallees(NameOf(b)) \subseteq LiveNames
    BY <1>2, <1>3 DEF IsClosed
  <2> QED BY <2>1, <2>2 DEF NamesOf, Edges, ScriptCount
<1> QED BY <1>2, <1>3 DEF names

\* An entry function of the table is in the source.
LEMMA EntryIs ==
  ASSUME IsEntry(unit, functions, ScriptCount, entryFunction), MarkContext
  PROVE  \E k \in 1 .. ScriptCount :
           /\ NameOf(k) = EntryName /\ BlockOf(entryFunction) = k
           /\ EntryName \in ScriptNames
<1>1. PICK k \in 1 .. ScriptCount :
        NameOf(k) = EntryName /\ entryFunction = Len(functions) - ScriptCount + k - 1
  BY DEF IsEntry, NameOf
<1>2. IsTable(unit, functions, Len(unit.functions))
      /\ AreBlocks(unit, functions, blocks, Len(unit.functions))
  BY DEF MarkContext, ScriptCount
<1>3. \A j \in 1 .. Len(unit.functions) :
        IdIndex(blocks, Len(functions) - Len(unit.functions) + j - 1) = j
  BY <1>2, TargetsAre
<1>4. IdIndex(blocks, entryFunction) = k
  BY <1>1, <1>3 DEF ScriptCount
<1>5. BlockOf(entryFunction) = IdIndex(blocks, entryFunction)
  BY DEF BlockOf, IdIndex
<1>6. NameOf(k) \in ScriptNames
  BY CalleesAre DEF MarkContext
<1> QED BY <1>1, <1>4, <1>5, <1>6

\* The traversal of one block.
LEMMA MarkingStarts ==
  ASSUME NEW u, Len(u.functions) \in Nat, NEW bs, HasTargets(u, bs),
         NEW k \in 1 .. Len(u.functions), NEW g,
         g = [i \in 1 .. Len(u.functions) |-> IF i = k THEN "Visiting" ELSE "Unvisited"]
  PROVE  IsMarking(u, bs, g, <<<<k, 1>>>>)
<1> DEFINE n == Len(u.functions)
           stack == <<<<k, 1>>>>
<1>1. /\ stack \in Seq((1 .. n) \X Nat)
      /\ Len(stack) = 1 /\ stack[1] = <<k, 1>> /\ stack[1][1] = k /\ stack[1][2] = 1
  OBVIOUS
<1>2. CallCount(bs, k) \in Nat
  BY DEF HasTargets
<1> HIDE DEF stack
<1>3. g \in [1 .. n -> {"Unvisited", "Visiting", "Visited"}]
  OBVIOUS
<1>4. \A j \in 1 .. Len(stack) : j = 1
  BY <1>1
<1>5. \A j \in 1 .. Len(stack) :
        /\ 1 <= stack[j][2]
        /\ stack[j][2] <= CallCount(bs, stack[j][1]) + 1
        /\ g[stack[j][1]] = "Visiting"
  BY <1>1, <1>2, <1>4
<1>6. \A i, j \in 1 .. Len(stack) : stack[i][1] = stack[j][1] => i = j
  BY <1>4
<1>7. \A b \in 1 .. n : g[b] = "Visiting" => \E j \in 1 .. Len(stack) : stack[j][1] = b
  BY <1>1
<1>8. \A j \in 1 .. Len(stack) - 1 : FALSE
  BY <1>1
<1>9. \A b \in 1 .. n : g[b] # "Visited"
  OBVIOUS
<1>10. \A j \in 1 .. Len(stack) : \A c \in 1 .. stack[j][2] - 1 : FALSE
  BY <1>1, <1>4
<1> QED BY <1>1, <1>3, <1>5, <1>6, <1>7, <1>8, <1>9, <1>10 DEF IsMarking

LEMMA StartMarkingMarks ==
  LayoutInv /\ TableInv /\ BlocksInv /\ StartMarking => MarkInv'
<1> SUFFICES ASSUME LayoutInv, TableInv, BlocksInv, StartMarking PROVE MarkInv'
  OBVIOUS
<1>1. MarkContext
  BY ContextIs DEF StartMarking, ScriptCount
<1>2. IsEntry(unit, functions, ScriptCount, entryFunction)
  <2>1. phase = "compile"
    BY DEF StartMarking
  <2> QED BY <2>1 DEF TableInv, BuildPhases, FrontPhases, Registered
<1>3. PICK k \in 1 .. ScriptCount :
        NameOf(k) = EntryName /\ BlockOf(entryFunction) = k /\ EntryName \in ScriptNames
  BY <1>1, <1>2, EntryIs
<1>4. /\ callGraph' = [i \in 1 .. ScriptCount |-> IF i = k THEN "Visiting" ELSE "Unvisited"]
      /\ dfs' = <<<<k, 1>>>>
      /\ UNCHANGED <<unit, blocks>>
  BY <1>1, <1>3 DEF StartMarking, MarkContext
<1>5. IsMarking(unit, blocks, callGraph', dfs')
  BY <1>1, <1>4, MarkingStarts DEF MarkContext, ScriptCount
<1>6. \A b \in 1 .. ScriptCount : /\ callGraph'[b] # "Visited"
                                  /\ callGraph'[b] # "Unvisited" => b = k
  BY <1>4
<1>7. callGraph'[k] # "Unvisited"
  BY <1>4
<1>8. EntryMarked(unit, callGraph')
  BY <1>3, <1>7 DEF EntryMarked, NameOf, ScriptCount
<1>9. NameOf(k) \in LiveNames
  BY <1>1, <1>3, LiveIs DEF MarkContext
<1>10. MarkedLive(callGraph') /\ VisitedSound(callGraph')
  BY <1>6, <1>9 DEF MarkedLive, VisitedSound
<1> QED BY <1>4, <1>5, <1>8, <1>10, SourceKept
          DEF MarkInv, MarkedLive, VisitedSound, NameOf, ScriptCount

\* A block on the stack is live, and so is what it calls.
LEMMA TopCalls ==
  ASSUME MarkContext, MarkInv, phase = "mark", dfs # <<>>
  PROVE  LET b == Last(dfs)[1]
             c == Last(dfs)[2]
         IN  /\ b \in 1 .. ScriptCount /\ c \in Nat \ {0}
             /\ callGraph[b] = "Visiting" /\ NameOf(b) \in LiveNames
             /\ c <= CallCount(blocks, b) =>
                  /\ Target(blocks, b, c) \in Edges(unit, b)
                  /\ Target(blocks, b, c) \in 1 .. ScriptCount
                  /\ NameOf(Target(blocks, b, c)) \in LiveNames
                  /\ Target(blocks, b, c) = BlockOf(blocks[b].calls[c].id)
<1> DEFINE b == Last(dfs)[1]
           c == Last(dfs)[2]
<1>1. IsMarking(unit, blocks, callGraph, dfs) /\ Len(unit.functions) \in Nat
  BY DEF MarkInv, MarkContext, ScriptCount
<1>2. /\ Len(dfs) \in 1 .. Len(dfs) /\ Last(dfs) = dfs[Len(dfs)]
      /\ b \in 1 .. ScriptCount /\ c \in Nat \ {0}
  BY <1>1, TopIs DEF ScriptCount
<1>3. callGraph[b] = "Visiting"
  BY <1>1, <1>2 DEF IsMarking
<1> HIDE DEF b, c
<1>4. NameOf(b) \in LiveNames
  BY <1>2, <1>3 DEF MarkInv, MarkedLive
<1>5. ASSUME c <= CallCount(blocks, b)
      PROVE  /\ Target(blocks, b, c) \in Edges(unit, b)
             /\ Target(blocks, b, c) \in 1 .. ScriptCount
             /\ NameOf(Target(blocks, b, c)) \in LiveNames
             /\ Target(blocks, b, c) = BlockOf(blocks[b].calls[c].id)
  <2>1. CallCount(blocks, b) \in Nat /\ HasTargets(unit, blocks)
    BY <1>2 DEF MarkContext, HasTargets, ScriptCount
  <2>2. c \in 1 .. CallCount(blocks, b)
    BY <1>2, <1>5, <2>1
  <2>3. Target(blocks, b, c) \in Edges(unit, b)
    BY <1>2, <2>1, <2>2 DEF HasTargets, ScriptCount
  <2>4. EntryName \in ScriptNames
    <3>1. PICK k \in 1 .. ScriptCount : unit.functions[k].name = EntryName
      BY DEF MarkInv, EntryMarked, ScriptCount
    <3>2. NameOf(k) \in ScriptNames
      BY CalleesAre DEF MarkContext
    <3> QED BY <3>1, <3>2 DEF NameOf
  <2>5. Target(blocks, b, c) \in 1 .. ScriptCount /\ NameOf(Target(blocks, b, c)) \in LiveNames
    BY <1>2, <1>4, <2>3, <2>4, LiveIs DEF MarkContext
  <2> QED BY <2>3, <2>5 DEF Target, BlockOf
<1> QED BY <1>2, <1>3, <1>4, <1>5 DEF b, c

LEMMA FollowCallMarks ==
  LayoutInv /\ TableInv /\ BlocksInv /\ MarkInv /\ FollowCall => MarkInv'
<1> SUFFICES ASSUME LayoutInv, TableInv, BlocksInv, MarkInv, FollowCall, phase' = "mark"
             PROVE  MarkInv'
  BY DEF MarkInv
<1> DEFINE b == Last(dfs)[1]
           c == Last(dfs)[2]
           callee == BlockOf(blocks[b].calls[c].id)
           advanced == [dfs EXCEPT ![Len(dfs)] = <<b, c + 1>>]
<1>1. phase = "mark" /\ dfs # <<>> /\ c <= CallCount(blocks, b)
  BY DEF FollowCall, CallCount
<1>2. MarkContext /\ IsMarking(unit, blocks, callGraph, dfs)
  BY <1>1, ContextIs DEF MarkInv
<1>3. /\ Target(blocks, b, c) = callee /\ callee \in 1 .. ScriptCount
      /\ NameOf(callee) \in LiveNames
  BY <1>1, <1>2, TopCalls
<1>4. /\ UNCHANGED <<unit, blocks>>
      /\ \/ callGraph[callee] = "Visited" /\ dfs' = advanced /\ callGraph' = callGraph
         \/ /\ callGraph[callee] = "Unvisited"
            /\ dfs' = Append(advanced, <<callee, 1>>)
            /\ callGraph' = [callGraph EXCEPT ![callee] = "Visiting"]
  <2>1. ~Fail("recursion")
    BY DEF Fail
  <2> QED BY <2>1 DEF FollowCall
<1> HIDE DEF callee
<1>5. IsMarking(unit, blocks, callGraph', dfs')
  <2>1. Len(unit.functions) \in Nat /\ HasTargets(unit, blocks)
    BY <1>2 DEF MarkContext, ScriptCount
  <2>2. CASE callGraph[callee] = "Visited" /\ dfs' = advanced /\ callGraph' = callGraph
    BY <1>1, <1>2, <1>3, <2>1, <2>2, PassesCall
  <2>3. CASE /\ callGraph[callee] = "Unvisited"
             /\ dfs' = Append(advanced, <<callee, 1>>)
             /\ callGraph' = [callGraph EXCEPT ![callee] = "Visiting"]
    BY <1>1, <1>2, <1>3, <2>1, <2>3, EntersCall
  <2> QED BY <1>4, <2>2, <2>3
<1>6. callGraph \in [1 .. ScriptCount -> {"Unvisited", "Visiting", "Visited"}]
  BY <1>2 DEF IsMarking, ScriptCount
<1>7. \A i \in 1 .. ScriptCount :
        /\ callGraph[i] # "Unvisited" => callGraph'[i] # "Unvisited"
        /\ callGraph'[i] # "Unvisited" => callGraph[i] # "Unvisited" \/ i = callee
        /\ callGraph'[i] = "Visited" => callGraph[i] = "Visited"
  BY <1>3, <1>4, <1>6
<1>8. /\ EntryMarked(unit, callGraph) /\ MarkedLive(callGraph)
      /\ VisitedSound(callGraph)
  BY <1>1 DEF MarkInv
<1>9. EntryMarked(unit, callGraph')
  BY <1>7, <1>8 DEF EntryMarked, ScriptCount
<1>10. MarkedLive(callGraph') /\ VisitedSound(callGraph')
  BY <1>3, <1>7, <1>8 DEF MarkedLive, VisitedSound
<1> QED BY <1>4, <1>5, <1>9, <1>10, SourceKept
          DEF MarkInv, MarkedLive, VisitedSound, NameOf, ScriptCount

\* The block left is not recursive: what it calls has been visited, and what
\* has been visited calls nothing but that.
LEMMA LeaveBlockMarks ==
  LayoutInv /\ TableInv /\ BlocksInv /\ MarkInv /\ LeaveBlock => MarkInv'
<1> SUFFICES ASSUME LayoutInv, TableInv, BlocksInv, MarkInv, LeaveBlock PROVE MarkInv'
  OBVIOUS
<1> DEFINE b == Last(dfs)[1]
           visited == {i \in 1 .. ScriptCount : callGraph[i] = "Visited"}
<1>1. /\ phase = "mark" /\ dfs # <<>> /\ Last(dfs)[2] > CallCount(blocks, b)
      /\ callGraph' = [callGraph EXCEPT ![b] = "Visited"]
      /\ dfs' = Front(dfs)
      /\ UNCHANGED <<unit, blocks>>
  BY DEF LeaveBlock, CallCount
<1>2. MarkContext /\ IsMarking(unit, blocks, callGraph, dfs)
  BY <1>1, ContextIs DEF MarkInv
<1>3. /\ b \in 1 .. ScriptCount /\ callGraph[b] = "Visiting" /\ NameOf(b) \in LiveNames
  BY <1>1, <1>2, TopCalls
<1>4. Len(unit.functions) \in Nat /\ HasTargets(unit, blocks)
  BY <1>2 DEF MarkContext, ScriptCount
<1> HIDE DEF b
<1>5. /\ IsMarking(unit, blocks, [callGraph EXCEPT ![b] = "Visited"], Front(dfs))
      /\ \A j \in Edges(unit, b) : callGraph[j] = "Visited"
  <2>1. b = Last(dfs)[1] /\ Last(dfs)[2] > CallCount(blocks, b) /\ dfs # <<>>
    BY <1>1 DEF b
  <2>2. IsMarking(unit, blocks, callGraph, dfs)
    BY <1>2
  <2> QED BY <1>4, <2>1, <2>2, LeavesCall
<1>6. callGraph \in [1 .. ScriptCount -> {"Unvisited", "Visiting", "Visited"}]
  BY <1>2 DEF IsMarking, ScriptCount
<1>7. ~Recursive(NameOf(b))
  <2>1. visited \in SUBSET (1 .. ScriptCount)
    OBVIOUS
  <2>2. \A i \in 1 .. ScriptCount : Edges(unit, i) \subseteq 1 .. ScriptCount
    BY DEF Edges, ScriptCount
  <2>3. \A i \in visited : Edges(unit, i) \subseteq visited
    BY <1>2, <2>2 DEF IsMarking, ScriptCount
  <2>4. Edges(unit, b) \subseteq visited
    BY <1>3, <1>5, <2>2
  <2>5. b \notin visited
    BY <1>3
  <2> HIDE DEF visited
  <2> QED BY <1>2, <1>3, <2>1, <2>3, <2>4, <2>5, NotRecursive DEF MarkContext
<1>8. \A i \in 1 .. ScriptCount :
        /\ callGraph[i] # "Unvisited" => callGraph'[i] # "Unvisited"
        /\ callGraph'[i] # "Unvisited" => callGraph[i] # "Unvisited"
        /\ callGraph'[i] = "Visited" => callGraph[i] = "Visited" \/ i = b
  BY <1>1, <1>3, <1>6
<1>9. /\ EntryMarked(unit, callGraph) /\ MarkedLive(callGraph)
      /\ VisitedSound(callGraph)
  BY <1>1 DEF MarkInv
<1>10. EntryMarked(unit, callGraph')
  BY <1>8, <1>9 DEF EntryMarked, ScriptCount
<1>11. MarkedLive(callGraph') /\ VisitedSound(callGraph')
  BY <1>7, <1>8, <1>9 DEF MarkedLive, VisitedSound
<1> QED BY <1>1, <1>5, <1>10, <1>11, SourceKept
          DEF MarkInv, MarkedLive, VisitedSound, NameOf, ScriptCount

LEMMA MarkStep ==
  LayoutInv /\ TableInv /\ BlocksInv /\ MarkInv /\ [Next]_vars => MarkInv'
<1> SUFFICES ASSUME LayoutInv, TableInv, BlocksInv, MarkInv, [Next]_vars, phase' = "mark"
             PROVE  MarkInv'
  BY DEF MarkInv
<1>1. CASE StartMarking
  BY <1>1, StartMarkingMarks
<1>2. CASE FollowCall
  BY <1>2, FollowCallMarks
<1>3. CASE LeaveBlock
  BY <1>3, LeaveBlockMarks
<1>4. CASE UNCHANGED vars
  BY <1>4, SourceKept
     DEF vars, MarkInv, MarkedLive, VisitedSound, NameOf, ScriptCount
<1>5. CASE RegisterDecl \/ InitializeGlobal \/ RegisterFunction \/ CompileFunction
  <2>1. phase' # "mark"
    BY <1>5 DEF RegisterDecl, InitializeGlobal, RegisterFunction, CompileFunction, Item,
                Forward, Fail
  <2> QED BY <2>1
<1>6. CASE StartAssembling \/ AssembleBlock \/ FinishAssembling
  <2>1. phase' # "mark"
    BY <1>6 DEF StartAssembling, AssembleBlock, FinishAssembling, Item, Forward, GoTo
  <2> QED BY <2>1
<1>7. CASE NextPhase \/ Link \/ BuildProgramImage
  <2>1. phase' # "mark"
    BY <1>7 DEF NextPhase, Link, BuildProgramImage, GoTo, Fail
  <2> QED BY <2>1
<1> QED BY <1>1, <1>2, <1>3, <1>4, <1>5, <1>6, <1>7 DEF Next, Compile

-----------------------------------------------------------------------------
(***************************************************************************)
(* Recursion is refused only where it is.                                  *)
(***************************************************************************)
RecursionInv ==
  result = "recursion" => phase = "failed" /\ \E f \in LiveNames : Recursive(f)

\* The call on top goes to a block that is being visited: a cycle.
LEMMA CycleFound ==
  ASSUME MarkContext, MarkInv, phase = "mark", dfs # <<>>,
         NEW b, NEW c, b = Last(dfs)[1], c = Last(dfs)[2], c <= CallCount(blocks, b),
         NEW callee, callee = Target(blocks, b, c), callGraph[callee] = "Visiting"
  PROVE  NameOf(callee) \in LiveNames /\ Recursive(NameOf(callee))
<1>1. /\ callee \in Edges(unit, b) /\ callee \in 1 .. ScriptCount
      /\ NameOf(callee) \in LiveNames /\ b \in 1 .. ScriptCount
  BY TopCalls
<1>2. /\ IsMarking(unit, blocks, callGraph, dfs) /\ Len(unit.functions) \in Nat
      /\ HasTargets(unit, blocks)
  BY DEF MarkInv, MarkContext, ScriptCount
<1>3. PICK i \in 1 .. Len(dfs) : dfs[i][1] = callee
  BY <1>1, <1>2 DEF IsMarking, ScriptCount
<1> DEFINE names == ScriptCallees(NameOf(callee))
           R == ReachedIndices(names)
<1>4. names \in SUBSET ScriptNames /\ names = NamesOf(Edges(unit, callee))
  BY <1>1, CalleesAre DEF MarkContext, ScriptCallees
<1>5. names \subseteq ReachedFrom(names)
  <2> HIDE DEF names
  <2> QED BY <1>4, ReachedFromIs DEF MarkContext
<1>6. \A j \in Edges(unit, callee) : j \in R
  BY <1>4, <1>5 DEF ReachedIndices, NamesOf, Edges, ScriptCount
<1>7. \A d \in R : Edges(unit, d) \subseteq R
  <2> HIDE DEF names
  <2> QED BY <1>4, ReachedClosed DEF MarkContext
<1>8. R \subseteq 1 .. ScriptCount
  BY DEF ReachedIndices
<1> HIDE DEF R
<1>9. \A j \in i + 1 .. Len(dfs) : dfs[j][1] \in R
  <2>1. \A j \in Edges(unit, dfs[i][1]) : j \in R
    BY <1>3, <1>6
  <2>2. \A d \in R : d \in 1 .. Len(unit.functions) => Edges(unit, d) \subseteq R
    BY <1>7
  <2> HIDE DEF names
  <2> QED BY <1>2, <2>1, <2>2, PathReached
<1>10. /\ Len(dfs) \in Nat \ {0} /\ b = dfs[Len(dfs)][1]
  BY <1>2, TopIs
<1>11. callee \in R
  <2>1. CASE i = Len(dfs)
    BY <1>1, <1>3, <1>6, <1>10, <2>1
  <2>2. CASE i # Len(dfs)
    <3>1. Len(dfs) \in i + 1 .. Len(dfs)
      BY <1>10, <2>2
    <3>2. b \in R
      BY <1>9, <1>10, <3>1
    <3> QED BY <1>1, <1>7, <3>2
  <2> QED BY <2>1, <2>2
<1>12. NameOf(callee) \in ReachedFrom(names)
  BY <1>11 DEF R, ReachedIndices
<1> QED BY <1>1, <1>12, RecursiveIs

\* Nothing else is reported that way.
LEMMA OtherErrors ==
  /\ LinkError # "recursion"
  /\ ImageStatus(linked) # "recursion"
<1>1. \A f : BindingError(f) \in {"slot", "parameter kind", "none"}
  BY DEF BindingError
<1>2. LinkError # "recursion"
  BY <1>1 DEF LinkError
<1>3. \A p, f : FunctionImageStatus(p, f) # "recursion"
  BY DEF FunctionImageStatus
<1> QED BY <1>2, <1>3 DEF ImageStatus

LEMMA RecursionInit == Init => RecursionInv
BY DEF Init, RecursionInv

LEMMA RecursionStep ==
  LayoutInv /\ TableInv /\ BlocksInv /\ MarkInv /\ RecursionInv /\ [Next]_vars
    => RecursionInv'
<1> SUFFICES ASSUME LayoutInv, TableInv, BlocksInv, MarkInv, RecursionInv, [Next]_vars,
                    result' = "recursion"
             PROVE  RecursionInv'
  BY DEF RecursionInv
<1>1. CASE FollowCall /\ Fail("recursion")
  <2> DEFINE b == Last(dfs)[1]
             c == Last(dfs)[2]
             callee == BlockOf(blocks[b].calls[c].id)
  <2>1. phase = "mark" /\ dfs # <<>> /\ c <= CallCount(blocks, b)
    BY <1>1 DEF FollowCall, CallCount
  <2>2. callGraph[callee] = "Visiting"
    <3>1. phase' # phase
      BY <1>1, <2>1 DEF Fail
    <3> QED BY <1>1, <3>1 DEF FollowCall
  <2>3. MarkContext
    BY <2>1, ContextIs
  <2>4. callee = Target(blocks, b, c)
    BY <2>1, <2>3, TopCalls
  <2>5. UNCHANGED unit /\ phase' = "failed"
    BY <1>1 DEF Fail
  <2> HIDE DEF callee
  <2>6. NameOf(callee) \in LiveNames /\ Recursive(NameOf(callee))
    <3> DEFINE bb == b
               cc == c
    <3>1. bb = Last(dfs)[1] /\ cc = Last(dfs)[2] /\ callee = Target(blocks, bb, cc)
          /\ cc <= CallCount(blocks, bb)
      BY <2>1, <2>4
    <3> HIDE DEF bb, cc
    <3> QED BY <2>1, <2>2, <2>3, <3>1, CycleFound
  <2>7. \E f \in LiveNames : Recursive(f)
    BY <2>6
  <2> QED BY <2>5, <2>7, SourceKept DEF RecursionInv
<1>2. CASE UNCHANGED vars
  BY <1>2, SourceKept DEF vars, RecursionInv
<1>3. CASE Next /\ ~(FollowCall /\ Fail("recursion"))
  <2>1. phase = "failed" => FALSE
    BY <1>3 DEF Next, Compile, RegisterDecl, InitializeGlobal, RegisterFunction,
                CompileFunction, Item, StartMarking, FollowCall, LeaveBlock,
                StartAssembling, AssembleBlock, FinishAssembling, NextPhase, Done, Link,
                BuildProgramImage
  <2>2. result # "recursion"
    BY <2>1 DEF RecursionInv
  <2>3. CASE RegisterDecl \/ InitializeGlobal \/ RegisterFunction \/ CompileFunction
    BY <2>2, <2>3 DEF RegisterDecl, InitializeGlobal, RegisterFunction, CompileFunction, Fail
  <2>4. CASE FollowCall
    BY <1>3, <2>2, <2>4 DEF FollowCall
  <2>5. CASE StartMarking \/ LeaveBlock \/ StartAssembling \/ AssembleBlock
             \/ FinishAssembling \/ NextPhase
    BY <2>2, <2>5 DEF StartMarking, LeaveBlock, StartAssembling, AssembleBlock,
                      FinishAssembling, NextPhase, Fail
  <2>6. CASE Link \/ BuildProgramImage
    BY <2>2, <2>6, OtherErrors DEF Link, BuildProgramImage, Fail
  <2> QED BY <1>3, <2>3, <2>4, <2>5, <2>6 DEF Next, Compile
<1> QED BY <1>1, <1>2, <1>3

-----------------------------------------------------------------------------
(***************************************************************************)
(* Once it is done: the marks are exactly the functions reached.           *)
(***************************************************************************)

\* Blocks of the source, in its order, and marks on them.
MarksExact(u, bs, g, live) ==
  /\ DOMAIN bs = 1 .. Len(u.functions)
  /\ \A i \in DOMAIN bs : bs[i].binding.name = u.functions[i].name
  /\ \A i \in DOMAIN bs : g[i] = "Visited" <=> bs[i].binding.name \in live
  /\ DistinctNames(u.functions)
  /\ live \subseteq {u.functions[i].name : i \in DOMAIN u.functions}

MarkedInv ==
  Marked => /\ MarksExact(unit, blocks, callGraph, LiveNames)
            /\ \A f \in LiveNames : ~Recursive(f)

LEMMA MarkedInit == Init => MarkedInv
BY DEF Init, MarkedInv, Marked

LEMMA StartAssemblingMarked ==
  LayoutInv /\ TableInv /\ BlocksInv /\ MarkInv /\ StartAssembling => MarkedInv'
<1> SUFFICES ASSUME LayoutInv, TableInv, BlocksInv, MarkInv, StartAssembling
             PROVE  MarkedInv'
  OBVIOUS
<1>1. phase = "mark" /\ dfs = <<>> /\ UNCHANGED <<unit, blocks, callGraph>>
  BY DEF StartAssembling
<1>2. MarkContext
  BY <1>1, ContextIs
<1>3. /\ IsMarking(unit, blocks, callGraph, dfs) /\ EntryMarked(unit, callGraph)
      /\ MarkedLive(callGraph) /\ VisitedSound(callGraph)
  BY <1>1 DEF MarkInv
<1>4. \A b \in 1 .. ScriptCount : callGraph[b] \in {"Unvisited", "Visited"}
  <2>1. Len(dfs) = 0
    BY <1>1
  <2>2. \A j \in 1 .. Len(dfs) : FALSE
    BY <2>1
  <2>3. callGraph \in [1 .. ScriptCount -> {"Unvisited", "Visiting", "Visited"}]
    BY <1>3 DEF IsMarking, ScriptCount
  <2>4. \A b \in 1 .. ScriptCount : callGraph[b] # "Visiting"
    BY <1>3, <2>2 DEF IsMarking, ScriptCount
  <2> QED BY <2>3, <2>4
<1> DEFINE visited == {i \in 1 .. ScriptCount : callGraph[i] = "Visited"}
<1>5. visited \in SUBSET (1 .. ScriptCount)
  OBVIOUS
<1>6. \A i \in visited : Edges(unit, i) \subseteq visited
  <2>1. \A i \in 1 .. ScriptCount : Edges(unit, i) \subseteq 1 .. ScriptCount
    BY DEF Edges, ScriptCount
  <2> QED BY <1>3, <2>1 DEF IsMarking, ScriptCount
<1>7. NamesOf(visited) \subseteq ScriptNames /\ IsClosed(NamesOf(visited))
  <2> HIDE DEF visited
  <2> QED BY <1>2, <1>5, <1>6, ClosedNames DEF MarkContext
<1>8. EntryName \in NamesOf(visited)
  BY <1>3, <1>4 DEF EntryMarked, NamesOf, NameOf, ScriptCount
<1>9. LiveNames \subseteq NamesOf(visited)
  BY <1>2, <1>7, <1>8, LiveIs DEF MarkContext
<1>10. NamesOf(visited) \subseteq LiveNames
  BY <1>3 DEF MarkedLive, NamesOf
<1>11. \A f \in LiveNames : ~Recursive(f)
  BY <1>3, <1>9 DEF VisitedSound, NamesOf
<1>12. \A i \in 1 .. ScriptCount : callGraph[i] = "Visited" <=> NameOf(i) \in LiveNames
  <2>1. ASSUME NEW i \in 1 .. ScriptCount, NameOf(i) \in LiveNames
        PROVE  callGraph[i] = "Visited"
    <3>1. PICK j \in visited : NameOf(j) = NameOf(i)
      BY <1>9, <2>1 DEF NamesOf
    <3>2. i = j
      <4>1. DOMAIN unit.functions = 1 .. ScriptCount
        BY <1>2, UnitType DEF MarkContext, ScriptCount
      <4> QED BY <1>2, <3>1, <4>1 DEF MarkContext, DistinctNames, NameOf
    <3> QED BY <3>2
  <2>2. ASSUME NEW i \in 1 .. ScriptCount, callGraph[i] = "Visited"
        PROVE  NameOf(i) \in LiveNames
    BY <1>3, <2>2 DEF MarkedLive
  <2> QED BY <2>1, <2>2
<1>13. DOMAIN blocks = 1 .. ScriptCount
  BY <1>2 DEF MarkContext
<1>14. \A i \in DOMAIN blocks : blocks[i].binding.name = NameOf(i)
  BY <1>2, <1>13 DEF MarkContext, AreBlocks, IsBlock, IsScriptBinding, NameOf, ScriptCount
<1>15. MarksExact(unit, blocks, callGraph, LiveNames)
  <2>1. DistinctNames(unit.functions)
    BY <1>2 DEF MarkContext
  <2>2. LiveNames \subseteq {unit.functions[i].name : i \in DOMAIN unit.functions}
    BY <1>7, <1>9 DEF ScriptNames
  <2> QED BY <1>12, <1>13, <1>14, <2>1, <2>2 DEF MarksExact, NameOf, ScriptCount
<1> QED BY <1>1, <1>11, <1>15, SourceKept DEF MarkedInv

LEMMA MarkedStep ==
  LayoutInv /\ TableInv /\ BlocksInv /\ MarkInv /\ MarkedInv /\ [Next]_vars => MarkedInv'
<1> SUFFICES ASSUME LayoutInv, TableInv, BlocksInv, MarkInv, MarkedInv, [Next]_vars, Marked'
             PROVE  MarkedInv'
  BY DEF MarkedInv
<1>1. CASE StartAssembling
  BY <1>1, StartAssemblingMarked
<1>2. CASE Marked /\ UNCHANGED <<unit, blocks, callGraph>>
  BY <1>2, SourceKept DEF MarkedInv
<1>3. CASE UNCHANGED vars
  <2>1. Marked /\ UNCHANGED <<unit, blocks, callGraph>>
    BY <1>3 DEF vars, Marked
  <2> QED BY <1>2, <2>1
<1>4. CASE RegisterDecl \/ InitializeGlobal \/ RegisterFunction \/ CompileFunction
             \/ StartMarking \/ FollowCall \/ LeaveBlock \/ NextPhase
  <2>1. ~Marked'
    BY <1>4 DEF RegisterDecl, InitializeGlobal, RegisterFunction, CompileFunction, Item,
                Forward, Fail, StartMarking, FollowCall, LeaveBlock, NextPhase, GoTo, Marked
  <2> QED BY <2>1
<1>5. CASE AssembleBlock \/ FinishAssembling \/ Link \/ BuildProgramImage
  <2>1. Marked
    BY <1>5 DEF AssembleBlock, FinishAssembling, Link, BuildProgramImage, Item, Marked
  <2>2. UNCHANGED <<unit, blocks, callGraph>>
    BY <1>5 DEF AssembleBlock, FinishAssembling, Link, BuildProgramImage, Fail, backend
  <2> QED BY <1>2, <2>1, <2>2
<1> QED BY <1>1, <1>3, <1>4, <1>5 DEF Next, Compile

\* All of it.
CallGraphInv ==
  LayoutInv /\ TableInv /\ BlocksInv /\ MarkInv /\ RecursionInv /\ MarkedInv

LEMMA CallGraphInductive ==
  /\ Init => CallGraphInv
  /\ CallGraphInv /\ [Next]_vars => CallGraphInv'
<1>1. Init => MarkInv
  BY DEF Init, MarkInv
<1>2. Init => CallGraphInv
  BY <1>1, LayoutInit, TableInit, BlocksInit, RecursionInit, MarkedInit DEF CallGraphInv
<1>3. CallGraphInv /\ [Next]_vars => CallGraphInv'
  BY LayoutStep, TableStep, BlocksStep, MarkStep, RecursionStep, MarkedStep DEF CallGraphInv
<1> QED BY <1>2, <1>3

\* The traversal marks exactly what the entry function reaches and refuses a
\* program exactly when that includes a recursive function, whatever the
\* program (markReachable).
THEOREM ReachabilityIsExact == Spec => []ReachabilityExact
<1>1. CallGraphInv => ReachabilityExact
  BY DEF CallGraphInv, MarkedInv, RecursionInv, MarksExact, ReachabilityExact
<1> QED BY <1>1, CallGraphInductive, PTL DEF Spec

-----------------------------------------------------------------------------
(***************************************************************************)
(* What assembling puts together.                                          *)
(***************************************************************************)

\* The functions of a scope.
LEMMA OfScopeIs ==
  ASSUME NEW list, list \in Seq(Range(list)), NEW scope
  PROVE  LET chosen == OfScope(list, scope)
         IN  /\ chosen \in Seq(Range(chosen))
             /\ Range(chosen) = {f \in Range(list) : f.scope = scope}
<1> DEFINE n == Len(list)
           single(k) == <<list[k]>>
           lists == [k \in 1 .. n |-> IF list[k].scope = scope THEN <<list[k]>> ELSE <<>>]
<1>1. DOMAIN list = 1 .. n /\ n \in Nat
  OBVIOUS
<1>2. OfScope(list, scope) = FlattenSeq(lists)
  BY <1>1 DEF OfScope
<1>3. \A k \in 1 .. n : single(k) \in Seq(Range(single(k))) /\ Range(single(k)) = {list[k]}
  BY SingleRange
<1>4. \A k \in 1 .. n : /\ lists[k] \in Seq(Range(lists[k]))
                        /\ Range(lists[k]) = IF list[k].scope = scope THEN {list[k]} ELSE {}
  <2>1. \A k \in 1 .. n : lists[k] = IF list[k].scope = scope THEN single(k) ELSE <<>>
    OBVIOUS
  <2> HIDE DEF lists, single
  <2> QED BY <1>3, <2>1, EmptyRange
<1>5. lists = [k \in 1 .. n |-> lists[k]] /\ DOMAIN lists = 1 .. n
  OBVIOUS
<1> HIDE DEF lists, single
<1>6. /\ FlattenSeq(lists) \in Seq(Elements(lists))
      /\ Range(FlattenSeq(lists)) = Elements(lists)
  BY <1>1, <1>4, <1>5, FlattenElements
<1>7. Elements(lists) = {f \in Range(list) : f.scope = scope}
  <2>1. Range(list) = {list[k] : k \in 1 .. n}
    BY <1>1 DEF Range
  <2>2. Elements(lists) = UNION {Range(lists[k]) : k \in 1 .. n}
    BY <1>5 DEF Elements
  <2>3. \A f : f \in Elements(lists) <=> \E k \in 1 .. n : f \in Range(lists[k])
    BY <2>2
  <2>4. \A f : f \in Elements(lists) <=> \E k \in 1 .. n : list[k].scope = scope /\ f = list[k]
    <3>1. \A k \in 1 .. n : \A f : f \in Range(lists[k]) <=> list[k].scope = scope /\ f = list[k]
      <4>1. \A k \in 1 .. n : Range(lists[k]) = IF list[k].scope = scope THEN {list[k]} ELSE {}
        BY <1>4
      <4> QED BY <4>1
    <3> TAKE f
    <3>2. (\E k \in 1 .. n : f \in Range(lists[k]))
            <=> \E k \in 1 .. n : list[k].scope = scope /\ f = list[k]
      BY <3>1
    <3>3. f \in Elements(lists) <=> \E k \in 1 .. n : f \in Range(lists[k])
      BY <2>3
    <3> QED BY <3>2, <3>3
  <2>5. \A f : f \in {g \in Range(list) : g.scope = scope}
                 <=> \E k \in 1 .. n : list[k].scope = scope /\ f = list[k]
    BY <2>1
  <2> QED BY <2>4, <2>5
<1> QED BY <1>2, <1>6, <1>7

\* IDs, each once.
EachOnce(s) == \A i, j \in 1 .. Len(s) : s[i] = s[j] => i = j
WithId(before, id) == IF Contains(before, id) THEN before ELSE Append(before, id)

LEMMA WithIdIs ==
  ASSUME NEW S, NEW before \in Seq(S), NEW id \in S, EachOnce(before)
  PROVE  /\ WithId(before, id) \in Seq(S) /\ EachOnce(WithId(before, id))
         /\ Range(WithId(before, id)) = Range(before) \cup {id}
<1>1. CASE Contains(before, id)
  <2>1. id \in Range(before)
    BY <1>1 DEF Contains, Range
  <2> QED BY <1>1, <2>1 DEF WithId
<1>2. CASE ~Contains(before, id)
  <2> DEFINE new == Append(before, id)
             n == Len(before)
  <2>1. WithId(before, id) = new
    BY <1>2 DEF WithId
  <2>2. Range(new) = Range(before) \cup {id}
    BY RangeAppend
  <2>3. \A i \in 1 .. n : before[i] # id
    BY <1>2 DEF Contains
  <2>4. /\ new \in Seq(S) /\ Len(new) = n + 1 /\ n \in Nat
        /\ new[n + 1] = id /\ \A i \in 1 .. n : new[i] = before[i]
    OBVIOUS
  <2>5. \A i, j \in 1 .. n : before[i] = before[j] => i = j
    BY DEF EachOnce
  <2> HIDE DEF new, n
  <2>6. \A i \in 1 .. n + 1 : i \in 1 .. n \/ i = n + 1
    BY <2>4
  <2>7. EachOnce(new)
    BY <2>3, <2>4, <2>5, <2>6 DEF EachOnce
  <2> QED BY <2>1, <2>2, <2>4, <2>7
<1> QED BY <1>1, <1>2

LEMMA JoinedIs ==
  ASSUME NEW used, used \in Seq(Range(used)), EachOnce(used),
         NEW ids, ids \in Seq(Range(ids))
  PROVE  LET all == Joined(used, ids)
         IN  /\ all \in Seq(Range(all)) /\ EachOnce(all)
             /\ Range(all) = Range(used) \cup Range(ids)
<1> DEFINE n == Len(ids)
           S == Range(used) \cup Range(ids)
           T == Seq(S)
           Steps(g) == g = [k \in 0 .. n |->
                              IF k = 0 THEN used
                              ELSE LET before == g[k - 1]
                                   IN  IF Contains(before, ids[k]) THEN before
                                                                   ELSE Append(before, ids[k])]
           join == CHOOSE g : Steps(g)
<1>1. n \in Nat /\ DOMAIN ids = 1 .. n /\ Range(ids) = {ids[k] : k \in 1 .. n}
  BY DEF Range
<1>2. \A k \in 1 .. n : ids[k] \in S
  BY <1>1
<1>3. used \in T
  BY SequenceWidens
<1>4. Joined(used, ids) = join[n]
  BY DEF Joined
<1> HIDE DEF n, S
<1>5. \E g : Steps(g)
  <2> DEFINE F == [a \in (1 .. n) \X T |-> WithId(a[2], ids[a[1]])]
  <2>1. \A k \in 1 .. n : \A p \in T : F[<<k, p>>] = WithId(p, ids[k])
    OBVIOUS
  <2>2. \A k \in 1 .. n : \A p \in T : WithId(p, ids[k]) \in T
    BY <1>2 DEF WithId
  <2>3. F \in [(1 .. n) \X T -> T]
    BY <2>2
  <2> HIDE DEF F, T
  <2>4. PICK g \in [0 .. n -> T] :
          g[0] = used /\ \A k \in 1 .. n : g[k] = F[<<k, g[k - 1]>>]
    <3>1. HasIteration(T, n, used, F)
      BY <1>1, <1>3, <2>3, IterationExists
    <3> QED BY <3>1 DEF HasIteration, IsIteration
  <2>5. ASSUME NEW k \in 0 .. n
        PROVE  g[k] = IF k = 0 THEN used ELSE WithId(g[k - 1], ids[k])
    <3>1. k # 0 => k \in 1 .. n /\ k - 1 \in 0 .. n
      BY <1>1
    <3> QED BY <2>1, <2>4, <3>1
  <2>6. g = [k \in 0 .. n |-> g[k]]
    BY <2>4
  <2>7. g = [k \in 0 .. n |-> IF k = 0 THEN used ELSE WithId(g[k - 1], ids[k])]
    BY <2>5, <2>6
  <2>8. Steps(g)
    BY <2>7 DEF WithId
  <2> HIDE DEF Steps
  <2> QED BY <2>8
<1>6. Steps(join)
  <2> HIDE DEF Steps
  <2> QED BY <1>5
<1>7. /\ join[0] = used
      /\ \A k \in 1 .. n : join[k] = WithId(join[k - 1], ids[k])
  <2> HIDE DEF join
  <2>1. join = [k \in 0 .. n |-> IF k = 0 THEN used ELSE WithId(join[k - 1], ids[k])]
    BY <1>6 DEF WithId
  <2> QED BY <1>1, <2>1
<1> HIDE DEF join, Steps, T
<1> DEFINE R == {k \in 0 .. n : /\ join[k] \in T /\ EachOnce(join[k])
                                /\ Range(join[k]) = Range(used) \cup {ids[j] : j \in 1 .. k}}
<1>8. 0 \in R
  BY <1>1, <1>3, <1>7
<1>9. ASSUME NEW k \in 0 .. n - 1, k \in R PROVE k + 1 \in R
  <2>1. k \in Nat /\ k + 1 \in 1 .. n /\ k + 1 \in 0 .. n /\ (k + 1) - 1 = k
    BY <1>1
  <2>2. /\ join[k] \in T /\ EachOnce(join[k])
        /\ Range(join[k]) = Range(used) \cup {ids[j] : j \in 1 .. k}
    BY <1>9
  <2>3. join[k + 1] = WithId(join[k], ids[k + 1]) /\ ids[k + 1] \in S
    BY <1>2, <1>7, <2>1
  <2>4. /\ join[k + 1] \in T /\ EachOnce(join[k + 1])
        /\ Range(join[k + 1]) = Range(join[k]) \cup {ids[k + 1]}
    BY <2>2, <2>3, WithIdIs DEF T
  <2>5. \A j \in 1 .. k + 1 : j \in 1 .. k \/ j = k + 1
    BY <2>1
  <2>6. {ids[j] : j \in 1 .. k + 1} = {ids[j] : j \in 1 .. k} \cup {ids[k + 1]}
    BY <2>1, <2>5
  <2> QED BY <2>1, <2>2, <2>4, <2>6
<1>10. n \in R
  <2>1. 0 .. n \subseteq R
    <3> HIDE DEF R
    <3> QED BY <1>1, <1>8, <1>9, SetInduction
  <2>2. n \in 0 .. n
    BY <1>1
  <2> HIDE DEF R
  <2> QED BY <2>1, <2>2
<1>11. /\ join[n] \in Seq(S) /\ EachOnce(join[n])
       /\ Range(join[n]) = S
  BY <1>1, <1>10 DEF S, T
<1> QED BY <1>4, <1>11 DEF S

\* A function kept: its frame is that of a function of the source, its code
\* begins inside the first `size` instructions, its frame fits in `frame`.
IsPlaced(u, v, size, frame) ==
  \E k \in 1 .. Len(u.functions) :
    LET f == u.functions[k]
    IN  /\ v.paramKinds = [i \in DOMAIN f.params |-> f.params[i].kind]
        /\ v.paramOffsets = SubSeq(FrameOf(f).offsets, 1, Len(f.params))
        /\ v.frameByteSize = FrameOf(f).bytes
        /\ v.address \in Nat /\ v.address < size
        /\ v.frameByteSize <= frame

\* Functions the visited ones among the first m call, by ID.
CalledExterns(u, list, g, m) ==
  UNION {ExternIdsOf(list, Len(list) - Len(u.functions), CalleesOf(u.functions[k])) :
           k \in {j \in 1 .. m : g[j] = "Visited"}}

HasBody(retained, id) == \E v \in Range(retained) : v.scope = "BSS" /\ v.id = id

\* What is put together of the first m blocks.
IsOutput(u, list, g, m, out) ==
  LET E == Len(list) - Len(u.functions)
  IN  /\ out.text \in Seq(Range(out.text))
      /\ out.patches \in Seq(Range(out.patches))
      /\ out.retained \in Seq(Range(out.retained))
      /\ out.usedExternals \in Seq(Range(out.usedExternals))
      /\ out.maxFrameByteSize \in Nat
      /\ {v \in Range(out.retained) : v.scope = "Extern"} = {list[i] : i \in 1 .. E}
      /\ \A v \in Range(out.retained) :
           v.scope = "BSS" => IsPlaced(u, v, Len(out.text), out.maxFrameByteSize)
      /\ \A k \in 1 .. m : g[k] = "Visited" => HasBody(out.retained, E + k - 1)
      /\ \A p \in Range(out.patches) :
           \E b \in 1 .. Len(u.functions) :
             g[b] = "Visited" /\ p.id \in ScriptIdsOf(u, E, CalleesOf(u.functions[b]))
      /\ EachOnce(out.usedExternals)
      /\ Range(out.usedExternals) = CalledExterns(u, list, g, m)

LEMMA OutputStarts ==
  ASSUME NEW u, NEW list, IsTable(u, list, Len(u.functions)), NEW g, NEW out,
         out.text = <<>>, out.patches = <<>>, out.usedExternals = <<>>,
         out.maxFrameByteSize = 0, out.retained = OfScope(list, "Extern")
  PROVE  IsOutput(u, list, g, 0, out)
<1> DEFINE E == Len(list) - Len(u.functions)
           kept == OfScope(list, "Extern")
<1>1. list \in Seq(Range(list))
  BY SequenceNarrows DEF IsTable
<1>2. kept \in Seq(Range(kept)) /\ Range(kept) = {v \in Range(list) : v.scope = "Extern"}
  BY <1>1, OfScopeIs
<1>3. Range(list) = {list[i] : i \in 1 .. Len(list)}
  BY <1>1 DEF Range
<1>4. /\ \A i \in 1 .. E : i \in 1 .. Len(list) /\ list[i].scope = "Extern"
      /\ \A i \in 1 .. Len(list) : i \in 1 .. E \/ list[i].scope = "BSS"
  <2> DEFINE n == Len(u.functions)
  <2>1. IsIndexed(u, list, n)
    BY TableIndex
  <2> HIDE DEF n
  <2>2. Len(list) \in Nat /\ Len(list) - n \in Nat
    BY Zenon, <2>1 DEF IsIndexed
  <2>3. \A i \in 1 .. Len(list) - n : i \in 1 .. Len(list) /\ list[i].scope = "Extern"
    BY Zenon, <2>1 DEF IsIndexed
  <2>4. ASSUME NEW i \in 1 .. Len(list), i - (Len(list) - n) \in 1 .. n
        PROVE  list[i].scope = "BSS"
    <3>1. Len(list) - n + (i - (Len(list) - n)) = i
      BY <2>2
    <3>2. list[Len(list) - n + (i - (Len(list) - n))].scope = "BSS"
      BY Zenon, <2>1, <2>4 DEF IsIndexed
    <3> QED BY <3>1, <3>2
  <2>5. \A i \in 1 .. Len(list) : i \in 1 .. Len(list) - n \/ i - (Len(list) - n) \in 1 .. n
    BY Zenon, <2>1 DEF IsIndexed
  <2> QED BY Zenon, <2>3, <2>4, <2>5 DEF n
<1>5. {v \in Range(kept) : v.scope = "Extern"} = {list[i] : i \in 1 .. E}
  <2> HIDE DEF kept, E
  <2> QED BY <1>2, <1>3, <1>4
<1>6. \A v \in Range(kept) : v.scope # "BSS"
  BY <1>2
<1>7. <<>> \in Seq(Range(<<>>)) /\ Range(<<>>) = {}
  BY EmptyRange
<1>8. CalledExterns(u, list, g, 0) = {}
  BY DEF CalledExterns
<1>9. EachOnce(<<>>)
  BY DEF EachOnce
<1>10. \A k \in 1 .. 0 : FALSE
  OBVIOUS
<1>11. out.retained = kept
  OBVIOUS
<1>12. /\ out.text \in Seq(Range(out.text)) /\ out.patches \in Seq(Range(out.patches))
       /\ out.usedExternals \in Seq(Range(out.usedExternals))
       /\ out.maxFrameByteSize \in Nat
       /\ Range(out.patches) = {} /\ Range(out.usedExternals) = {}
  BY <1>7
<1>13. EachOnce(out.usedExternals)
  BY <1>9
<1> HIDE DEF kept
<1>14. /\ out.retained \in Seq(Range(out.retained))
       /\ {v \in Range(out.retained) : v.scope = "Extern"} = {list[i] : i \in 1 .. E}
       /\ \A v \in Range(out.retained) :
            v.scope = "BSS" => IsPlaced(u, v, Len(out.text), out.maxFrameByteSize)
  BY <1>2, <1>5, <1>6, <1>11
<1>15. \A p \in Range(out.patches) :
         \E b \in 1 .. Len(u.functions) :
           g[b] = "Visited" /\ p.id \in ScriptIdsOf(u, E, CalleesOf(u.functions[b]))
  BY <1>12
<1>16. \A k \in 1 .. 0 : g[k] = "Visited" => HasBody(out.retained, E + k - 1)
  BY <1>10
<1>17. Range(out.usedExternals) = CalledExterns(u, list, g, 0)
  BY <1>8, <1>12
<1> QED BY Zenon, <1>12, <1>13, <1>14, <1>15, <1>16, <1>17 DEF IsOutput

\* Instructions keep their place when operands are patched.
LEMMA PatchedIs ==
  ASSUME NEW text, text \in Seq(Range(text)), NEW patches, NEW value
  PROVE  LET new == Patched(text, patches, value)
         IN  new \in Seq(Range(new)) /\ Len(new) = Len(text)
<1> DEFINE n == Len(text)
           new == Patched(text, patches, value)
<1>1. n \in Nat /\ DOMAIN text = 1 .. n
  OBVIOUS
<1>2. new = [k \in 1 .. n |-> new[k]]
  BY <1>1 DEF Patched
<1> HIDE DEF new
<1> QED BY <1>1, <1>2, SequenceIs DEF new

\* A frame and a text may grow.
LEMMA PlacedGrows ==
  ASSUME NEW u, NEW v, NEW size \in Nat, NEW frame \in Nat, IsPlaced(u, v, size, frame),
         NEW size2 \in Nat, NEW frame2 \in Nat, size <= size2, frame <= frame2,
         Len(u.functions) \in Nat,
         \A k \in 1 .. Len(u.functions) : IsFunctionDefinition(u.functions[k])
  PROVE  IsPlaced(u, v, size2, frame2)
<1>1. PICK k \in 1 .. Len(u.functions) :
        LET f == u.functions[k]
        IN  /\ v.paramKinds = [i \in DOMAIN f.params |-> f.params[i].kind]
            /\ v.paramOffsets = SubSeq(FrameOf(f).offsets, 1, Len(f.params))
            /\ v.frameByteSize = FrameOf(f).bytes
            /\ v.address \in Nat /\ v.address < size
            /\ v.frameByteSize <= frame
  BY DEF IsPlaced
<1>2. FrameOf(u.functions[k]).bytes \in Nat
  BY FrameOfIs
<1>3. v.address < size2
  BY <1>1
<1>4. v.frameByteSize <= frame2
  <2> DEFINE m == v.frameByteSize
  <2>1. m \in Nat /\ m <= frame
    BY <1>1, <1>2
  <2> HIDE DEF m
  <2>2. m <= frame2
    BY <2>1
  <2> QED BY <2>2 DEF m
<1> QED BY <1>1, <1>3, <1>4 DEF IsPlaced

\* A block that is not kept adds nothing.
LEMMA OutputPasses ==
  ASSUME NEW u, NEW list, NEW g, NEW m \in Nat, NEW out, IsOutput(u, list, g, m, out),
         g[m + 1] # "Visited"
  PROVE  IsOutput(u, list, g, m + 1, out)
<1>1. \A j \in 1 .. m + 1 : g[j] = "Visited" => j \in 1 .. m
  OBVIOUS
<1>2. {j \in 1 .. m + 1 : g[j] = "Visited"} = {j \in 1 .. m : g[j] = "Visited"}
  BY <1>1
<1>3. CalledExterns(u, list, g, m + 1) = CalledExterns(u, list, g, m)
  BY <1>2 DEF CalledExterns
<1> QED BY <1>1, <1>3 DEF IsOutput

LEMMA OutputGrows ==
  ASSUME NEW u, Len(u.functions) \in Nat,
         \A i \in 1 .. Len(u.functions) : IsFunctionDefinition(u.functions[i]),
         NEW list, NEW g, NEW m \in Nat, m + 1 <= Len(u.functions),
         g[m + 1] = "Visited", NEW out, IsOutput(u, list, g, m, out),
         NEW b, IsBlock(u, list, b, m + 1), NEW new,
         new.text = out.text \o Relocated(b, Len(out.text)),
         new.patches = out.patches \o [i \in DOMAIN b.calls |->
                                         [b.calls[i] EXCEPT !.pos = @ + Len(out.text)]],
         new.retained = Append(out.retained, [b.binding EXCEPT !.address = Len(out.text)]),
         new.usedExternals = Joined(out.usedExternals, b.externals),
         new.maxFrameByteSize = Larger(out.maxFrameByteSize, b.binding.frameByteSize)
  PROVE  IsOutput(u, list, g, m + 1, new)
<1> DEFINE E == Len(list) - Len(u.functions)
           k == m + 1
           f == u.functions[k]
           base == Len(out.text)
           code == Relocated(b, base)
           v == [b.binding EXCEPT !.address = base]
           moved == [i \in DOMAIN b.calls |-> [b.calls[i] EXCEPT !.pos = @ + base]]
           frame == FrameOf(f).bytes
<1>1. k \in 1 .. Len(u.functions) /\ IsFunctionDefinition(f)
  OBVIOUS
<1>2. /\ out.text \in Seq(Range(out.text)) /\ base \in Nat
      /\ out.patches \in Seq(Range(out.patches))
      /\ out.retained \in Seq(Range(out.retained))
      /\ out.usedExternals \in Seq(Range(out.usedExternals))
      /\ out.maxFrameByteSize \in Nat /\ EachOnce(out.usedExternals)
  BY DEF IsOutput
<1>3. /\ code \in Seq(Range(code)) /\ Len(code) \in Nat \ {0}
  <2>1. b.code \in Seq(Range(b.code)) /\ Len(b.code) # 0
    BY DEF IsBlock
  <2>2. code \in Seq(Range(code)) /\ Len(code) = Len(b.code)
    BY <2>1, PatchedIs DEF Relocated
  <2> HIDE DEF code
  <2> QED BY <2>1, <2>2
<1>4. /\ new.text \in Seq(Range(new.text)) /\ Len(new.text) = base + Len(code)
  <2> HIDE DEF code
  <2>1. new.text = out.text \o code
    BY DEF code
  <2> QED BY <1>2, <1>3, <2>1, ConcatAny
<1>5. base < Len(new.text) /\ base <= Len(new.text) /\ Len(new.text) \in Nat
  <2> HIDE DEF base, code
  <2> QED BY <1>2, <1>3, <1>4
<1>6. /\ b.binding \in Bindings(u) /\ b.binding.id = E + k - 1
      /\ IsScriptBinding(b.binding, f)
      /\ b.binding.paramOffsets = SubSeq(FrameOf(f).offsets, 1, Len(f.params))
      /\ b.binding.frameByteSize = frame
  BY DEF IsBlock
<1>7. /\ v.id = E + k - 1 /\ v.scope = "BSS" /\ v.address = base
      /\ v.paramKinds = [i \in DOMAIN f.params |-> f.params[i].kind]
      /\ v.paramOffsets = SubSeq(FrameOf(f).offsets, 1, Len(f.params))
      /\ v.frameByteSize = frame
  <2>1. DOMAIN b.binding = {"name", "id", "scope", "slot", "returnKind", "paramKinds",
                            "paramOffsets", "slotCount", "frameByteSize", "address"}
    BY <1>6 DEF Bindings
  <2> HIDE DEF E, k, f, base, frame
  <2> QED BY <1>6, <2>1 DEF IsScriptBinding
<1>8. frame \in Nat
  BY <1>1, FrameOfIs
<1>9. /\ new.maxFrameByteSize \in Nat /\ frame <= new.maxFrameByteSize
      /\ out.maxFrameByteSize <= new.maxFrameByteSize
  <2> HIDE DEF frame
  <2>1. new.maxFrameByteSize = Larger(out.maxFrameByteSize, frame)
    BY <1>6
  <2> QED BY SMTT(20), <1>2, <1>8, <2>1 DEF Larger
<1> HIDE DEF v, code, base, frame
<1>10. IsPlaced(u, v, Len(new.text), new.maxFrameByteSize)
  <2> DEFINE size == Len(new.text)
             most == new.maxFrameByteSize
  <2>1. v.address \in Nat /\ v.address < size /\ v.frameByteSize <= most
    BY <1>2, <1>5, <1>7, <1>9
  <2> HIDE DEF size, most
  <2>2. IsPlaced(u, v, size, most)
    BY <1>1, <1>7, <2>1 DEF IsPlaced, frame
  <2> QED BY <2>2 DEF size, most
<1>11. \A w \in Range(out.retained) :
         w.scope = "BSS" => IsPlaced(u, w, Len(new.text), new.maxFrameByteSize)
  <2> DEFINE size == Len(new.text)
             most == new.maxFrameByteSize
             most1 == out.maxFrameByteSize
  <2>1. \A w \in Range(out.retained) : w.scope = "BSS" => IsPlaced(u, w, base, most1)
    BY DEF IsOutput, base
  <2>2. base \in Nat /\ size \in Nat /\ base <= size /\ most1 \in Nat /\ most \in Nat
        /\ most1 <= most
    BY <1>2, <1>5, <1>9
  <2> HIDE DEF size, most, most1
  <2>3. \A w \in Range(out.retained) : w.scope = "BSS" => IsPlaced(u, w, size, most)
    BY <2>1, <2>2, PlacedGrows
  <2> QED BY <2>3 DEF size, most
<1>12. /\ new.retained \in Seq(Range(new.retained))
       /\ Range(new.retained) = Range(out.retained) \cup {v}
  <2> DEFINE old == out.retained
  <2>1. new.retained = Append(old, v)
    BY DEF v, base
  <2>2. old \in Seq(Range(old))
    BY <1>2
  <2> HIDE DEF old
  <2>3. /\ Append(old, v) \in Seq(Range(Append(old, v)))
        /\ Range(Append(old, v)) = Range(old) \cup {v}
    BY <2>2, AppendAny
  <2> QED BY <2>1, <2>3 DEF old
<1>13. {w \in Range(new.retained) : w.scope = "Extern"} = {list[i] : i \in 1 .. E}
  <2>1. {w \in Range(out.retained) : w.scope = "Extern"} = {list[i] : i \in 1 .. E}
    BY DEF IsOutput
  <2>2. v.scope # "Extern"
    BY <1>7
  <2> HIDE DEF E
  <2> QED BY <1>12, <2>1, <2>2
<1>14. \A w \in Range(new.retained) :
         w.scope = "BSS" => IsPlaced(u, w, Len(new.text), new.maxFrameByteSize)
  BY <1>10, <1>11, <1>12
<1>15. \A j \in 1 .. m + 1 : g[j] = "Visited" => HasBody(new.retained, E + j - 1)
  <2>1. \A j \in 1 .. m : g[j] = "Visited" => HasBody(out.retained, E + j - 1)
    BY DEF IsOutput
  <2>2. HasBody(new.retained, E + k - 1)
    BY <1>7, <1>12 DEF HasBody
  <2>3. \A id : HasBody(out.retained, id) => HasBody(new.retained, id)
    BY <1>12 DEF HasBody
  <2>4. \A j \in 1 .. m + 1 : j \in 1 .. m \/ j = k
    OBVIOUS
  <2> HIDE DEF E, k
  <2> QED BY <2>1, <2>2, <2>3, <2>4
<1>16. /\ b.calls \in Seq(Range(b.calls)) /\ \A p \in Range(b.calls) : IsPatch(p)
       /\ {p.id : p \in Range(b.calls)} = ScriptIdsOf(u, E, CalleesOf(f))
  BY DEF IsBlock
<1>17. /\ moved \in Seq(Range(moved))
       /\ \A p \in Range(moved) : p.id \in ScriptIdsOf(u, E, CalleesOf(f))
  <2> DEFINE n == Len(b.calls)
  <2>1. n \in Nat /\ DOMAIN b.calls = 1 .. n
    BY <1>16
  <2>2. moved = [i \in 1 .. n |-> moved[i]]
    BY <2>1
  <2>3. \A i \in 1 .. n : moved[i].id = b.calls[i].id /\ b.calls[i] \in Range(b.calls)
    <3>1. ASSUME NEW i \in 1 .. n
          PROVE  moved[i].id = b.calls[i].id /\ b.calls[i] \in Range(b.calls)
      <4> DEFINE p == b.calls[i]
      <4>1. p \in Range(b.calls) /\ moved[i] = [p EXCEPT !.pos = @ + base]
        BY <2>1 DEF Range
      <4>2. p = [op |-> p.op, pos |-> p.pos, id |-> p.id]
        BY <1>16, <4>1 DEF IsPatch
      <4> HIDE DEF p, moved
      <4>3. [p EXCEPT !.pos = @ + base].id = p.id
        BY <4>2
      <4> QED BY <4>1, <4>3 DEF p
    <3> QED BY <3>1
  <2> HIDE DEF moved, n
  <2>4. moved \in Seq(Range(moved)) /\ DOMAIN moved = 1 .. n
    BY <2>1, <2>2, SequenceIs
  <2>5. \A p \in Range(moved) : \E i \in 1 .. n : p = moved[i]
    BY <2>4 DEF Range
  <2>6. ASSUME NEW p \in Range(moved) PROVE p.id \in ScriptIdsOf(u, E, CalleesOf(f))
    <3>1. PICK i \in 1 .. n : p = moved[i]
      BY <2>5
    <3>2. p.id = b.calls[i].id /\ b.calls[i] \in Range(b.calls)
      BY <2>3, <3>1
    <3>3. p.id \in {q.id : q \in Range(b.calls)}
      BY <3>2
    <3> QED BY <1>16, <3>3
  <2> QED BY <2>4, <2>6
<1>18. /\ new.patches \in Seq(Range(new.patches))
       /\ Range(new.patches) = Range(out.patches) \cup Range(moved)
  <2> DEFINE old == out.patches
  <2>1. new.patches = old \o moved
    BY DEF base
  <2>2. old \in Seq(Range(old)) /\ moved \in Seq(Range(moved))
    BY <1>2, <1>17
  <2> HIDE DEF moved, old
  <2>3. /\ old \o moved \in Seq(Range(old \o moved))
        /\ Range(old \o moved) = Range(old) \cup Range(moved)
    BY <2>2, ConcatAny
  <2> QED BY <2>1, <2>3 DEF old
<1>19. \A p \in Range(new.patches) :
         \E i \in 1 .. Len(u.functions) :
           g[i] = "Visited" /\ p.id \in ScriptIdsOf(u, E, CalleesOf(u.functions[i]))
  <2>1. \A p \in Range(out.patches) :
          \E i \in 1 .. Len(u.functions) :
            g[i] = "Visited" /\ p.id \in ScriptIdsOf(u, E, CalleesOf(u.functions[i]))
    BY DEF IsOutput
  <2>2. k \in 1 .. Len(u.functions) /\ g[k] = "Visited" /\ f = u.functions[k]
    BY <1>1
  <2> HIDE DEF E, moved, f, k
  <2> QED BY <1>17, <1>18, <2>1, <2>2
<1>20. /\ new.usedExternals \in Seq(Range(new.usedExternals))
       /\ EachOnce(new.usedExternals)
       /\ Range(new.usedExternals) = Range(out.usedExternals) \cup Range(b.externals)
  <2>1. b.externals \in Seq(Range(b.externals))
    BY DEF IsBlock
  <2> QED BY <1>2, <2>1, JoinedIs
<1>21. Range(new.usedExternals) = CalledExterns(u, list, g, m + 1)
  <2>1. Range(out.usedExternals) = CalledExterns(u, list, g, m)
    BY DEF IsOutput
  <2>2. Range(b.externals) = ExternIdsOf(list, E, CalleesOf(f))
    BY DEF IsBlock
  <2>3. {j \in 1 .. m + 1 : g[j] = "Visited"} = {j \in 1 .. m : g[j] = "Visited"} \cup {k}
    OBVIOUS
  <2> DEFINE ids(j) == ExternIdsOf(list, E, CalleesOf(u.functions[j]))
             K == {j \in 1 .. m : g[j] = "Visited"}
  <2>4. /\ CalledExterns(u, list, g, m + 1) = UNION {ids(j) : j \in K \cup {k}}
        /\ CalledExterns(u, list, g, m) = UNION {ids(j) : j \in K}
        /\ ids(k) = ExternIdsOf(list, E, CalleesOf(f))
    BY <2>3 DEF CalledExterns
  <2> HIDE DEF ids, K
  <2> DEFINE A == UNION {ids(j) : j \in K \cup {k}}
             B == UNION {ids(j) : j \in K}
  <2>5. A = B \cup ids(k)
    <3> HIDE DEF k
    <3>1. \A x : x \in A <=> \E j \in K \cup {k} : x \in ids(j)
      OBVIOUS
    <3>2. \A x : x \in B <=> \E j \in K : x \in ids(j)
      OBVIOUS
    <3> HIDE DEF A, B
    <3>3. \A x : (\E j \in K \cup {k} : x \in ids(j)) <=> (\E j \in K : x \in ids(j)) \/ x \in ids(k)
      OBVIOUS
    <3>4. \A x : x \in A <=> x \in B \cup ids(k)
      BY <3>1, <3>2, <3>3
    <3> QED BY <3>4
  <2> HIDE DEF k, E, f
  <2> QED BY <1>20, <2>1, <2>2, <2>4, <2>5 DEF A, B
<1> QED BY Zenon, <1>4, <1>9, <1>12, <1>13, <1>14, <1>15, <1>18, <1>19, <1>20, <1>21
        DEF IsOutput, E

-----------------------------------------------------------------------------
(***************************************************************************)
(* The invariant of assembling.                                            *)
(***************************************************************************)
NoOutput == [text |-> <<>>, patches |-> <<>>, retained |-> <<>>,
             usedExternals |-> <<>>, maxLocalSlots |-> 0, maxFrameByteSize |-> 0]

AssembleInv ==
  /\ phase \in FrontPhases \cup {"mark"} => output = NoOutput
  /\ phase = "assemble" => /\ at - 1 \in 0 .. ScriptCount
                           /\ IsOutput(unit, functions, callGraph, at - 1, output)

LEMMA AssembleInit == Init => AssembleInv
BY DEF Init, AssembleInv, NoOutput, FrontPhases

LEMMA StartAssemblingAssembles ==
  LayoutInv /\ TableInv /\ BlocksInv /\ AssembleInv /\ StartAssembling => AssembleInv'
<1> SUFFICES ASSUME LayoutInv, TableInv, BlocksInv, AssembleInv, StartAssembling
             PROVE  AssembleInv'
  OBVIOUS
<1>1. /\ phase = "mark" /\ phase' = "assemble" /\ at' = 1
      /\ UNCHANGED <<unit, functions, callGraph>>
      /\ output' = [output EXCEPT !.retained = OfScope(functions, "Extern")]
  BY DEF StartAssembling, GoTo, table
<1>2. MarkContext
  BY <1>1, ContextIs
<1>3. output = NoOutput
  BY <1>1 DEF AssembleInv
<1>4. /\ output'.text = <<>> /\ output'.patches = <<>> /\ output'.usedExternals = <<>>
      /\ output'.maxFrameByteSize = 0 /\ output'.retained = OfScope(functions, "Extern")
  BY <1>1, <1>3 DEF NoOutput
<1>5. IsTable(unit, functions, Len(unit.functions))
  BY <1>2 DEF MarkContext, ScriptCount
<1>6. IsOutput(unit, functions, callGraph, 0, output')
  BY <1>4, <1>5, OutputStarts
<1>7. at' - 1 = 0 /\ 0 \in 0 .. ScriptCount
  BY <1>1, <1>2 DEF MarkContext
<1> QED BY <1>1, <1>6, <1>7 DEF AssembleInv, FrontPhases, ScriptCount

LEMMA AssembleBlockAssembles ==
  LayoutInv /\ TableInv /\ BlocksInv /\ AssembleInv /\ AssembleBlock => AssembleInv'
<1> SUFFICES ASSUME LayoutInv, TableInv, BlocksInv, AssembleInv, AssembleBlock
             PROVE  AssembleInv'
  OBVIOUS
<1> DEFINE m == at - 1
           b == blocks[at]
<1>1. /\ phase = "assemble" /\ phase' = "assemble" /\ at' = at + 1 /\ at <= Len(blocks)
      /\ UNCHANGED <<unit, functions, callGraph>>
  BY DEF AssembleBlock, Item, Forward, table
<1>2. MarkContext
  BY <1>1, ContextIs
<1>3. m \in 0 .. ScriptCount /\ IsOutput(unit, functions, callGraph, m, output)
  BY <1>1 DEF AssembleInv
<1>4. at \in Nat /\ Len(blocks) = ScriptCount
  BY <1>2 DEF LayoutInv, LayoutTypes, MarkContext, AreBlocks, ScriptCount
<1>5. /\ m \in Nat /\ m + 1 = at /\ at \in 1 .. ScriptCount /\ m + 1 <= ScriptCount
      /\ at' - 1 = m + 1 /\ m + 1 \in 0 .. ScriptCount /\ ScriptCount = Len(unit.functions)
  BY <1>1, <1>2, <1>3, <1>4 DEF MarkContext, ScriptCount
<1> HIDE DEF m
<1>6. IsOutput(unit, functions, callGraph, m + 1, output')
  <2>1. CASE callGraph[at] # "Visited"
    <3>1. output' = output
      BY <2>1 DEF AssembleBlock
    <3> QED BY <1>3, <1>5, <2>1, <3>1, OutputPasses
  <2>2. CASE callGraph[at] = "Visited"
    <3> DEFINE new == output'
    <3>1. /\ new.text = output.text \o Relocated(b, Len(output.text))
          /\ new.patches = output.patches \o [i \in DOMAIN b.calls |->
                             [b.calls[i] EXCEPT !.pos = @ + Len(output.text)]]
          /\ new.retained
               = Append(output.retained, [b.binding EXCEPT !.address = Len(output.text)])
          /\ new.usedExternals = Joined(output.usedExternals, b.externals)
          /\ new.maxFrameByteSize
               = Larger(output.maxFrameByteSize, b.binding.frameByteSize)
      BY <2>2 DEF AssembleBlock
    <3>2. IsBlock(unit, functions, b, m + 1)
      BY <1>2, <1>5 DEF MarkContext, AreBlocks
    <3>3. /\ Len(unit.functions) \in Nat
          /\ \A i \in 1 .. Len(unit.functions) : IsFunctionDefinition(unit.functions[i])
      BY <1>2, UnitType DEF MarkContext
    <3>4. m + 1 <= Len(unit.functions) /\ callGraph[m + 1] = "Visited"
      BY <1>5, <2>2
    <3> HIDE DEF new, b
    <3>5. IsOutput(unit, functions, callGraph, m + 1, new)
      BY <1>3, <1>5, <3>1, <3>2, <3>3, <3>4, OutputGrows
    <3> QED BY <3>5 DEF new
  <2> QED BY <2>1, <2>2
<1> QED BY <1>1, <1>5, <1>6 DEF AssembleInv, FrontPhases, ScriptCount

LEMMA AssembleStep ==
  LayoutInv /\ TableInv /\ BlocksInv /\ AssembleInv /\ [Next]_vars => AssembleInv'
<1> SUFFICES ASSUME LayoutInv, TableInv, BlocksInv, AssembleInv, [Next]_vars
             PROVE  AssembleInv'
  OBVIOUS
<1>1. CASE StartAssembling
  BY <1>1, StartAssemblingAssembles
<1>2. CASE AssembleBlock
  BY <1>2, AssembleBlockAssembles
<1>3. CASE UNCHANGED vars
  BY <1>3 DEF vars, AssembleInv, ScriptCount
<1>4. CASE RegisterDecl \/ InitializeGlobal \/ RegisterFunction \/ CompileFunction
  <2>1. phase \in FrontPhases /\ output' = output
    BY <1>4 DEF RegisterDecl, InitializeGlobal, RegisterFunction, CompileFunction, Item,
                Fail, backend, FrontPhases
  <2>2. phase' = phase \/ phase' = "failed"
    BY <1>4 DEF RegisterDecl, InitializeGlobal, RegisterFunction, CompileFunction, Forward,
                Fail
  <2> QED BY <2>1, <2>2 DEF AssembleInv, FrontPhases
<1>5. CASE StartMarking \/ FollowCall \/ LeaveBlock
  <2>1. phase \in FrontPhases \cup {"mark"} /\ output' = output
    BY <1>5 DEF StartMarking, FollowCall, LeaveBlock, Fail, backend, FrontPhases
  <2>2. phase' \in {"mark", "failed"}
    BY <1>5 DEF StartMarking, FollowCall, LeaveBlock, GoTo, Fail
  <2> QED BY <2>1, <2>2 DEF AssembleInv, FrontPhases
<1>6. CASE FinishAssembling \/ Link \/ BuildProgramImage
  <2>1. phase' \in {"link", "image", "done", "failed"}
    BY <1>6 DEF FinishAssembling, Link, BuildProgramImage, GoTo, Fail
  <2> QED BY <2>1 DEF AssembleInv, FrontPhases
<1>7. CASE NextPhase
  <2>1. output' = output /\ phase \in FrontPhases
    BY <1>7 DEF NextPhase, Fail, Done, backend, FrontPhases
  <2>2. phase' \in FrontPhases \cup {"failed"}
    BY <1>7 DEF NextPhase, Fail, GoTo, FrontPhases
  <2> QED BY <2>1, <2>2 DEF AssembleInv, FrontPhases
<1> QED BY <1>1, <1>2, <1>3, <1>4, <1>5, <1>6, <1>7 DEF Next, Compile

-----------------------------------------------------------------------------
(***************************************************************************)
(* What the linker is given.                                               *)
(***************************************************************************)

\* The extern functions among some that the live code calls.
ExternsCalled(u, list, g) ==
  {v \in Range(list) : v.scope = "Extern"
                         /\ \E k \in 1 .. Len(u.functions) :
                              g[k] = "Visited" /\ v.name \in CalleesOf(u.functions[k])}

IsAssembled(u, list, g, entry, out) ==
  /\ list \in Seq(Range(list))
  /\ out.patches \in Seq(Range(out.patches))
  /\ out.text \in Seq(Range(out.text))
  /\ \A v \in Range(list) :
       v.scope = "BSS" => IsPlaced(u, v, Len(out.text), out.maxFrameByteSize)
  /\ HasBody(list, entry)
  /\ \A p \in Range(out.patches) : HasBody(list, p.id)
  /\ out.usedExternals \in Seq(Range(out.usedExternals))
  /\ EachOnce(out.usedExternals)
  /\ Range(out.usedExternals) = {v.id : v \in ExternsCalled(u, list, g)}

AssembledInv ==
  phase \in {"link", "image", "done"} =>
    IsAssembled(unit, functions, callGraph, entryFunction, output)

\* Everything that was marked is there, and everything called was marked.
LEMMA OutputFinishes ==
  ASSUME NEW u, NEW list, IsTable(u, list, Len(u.functions)), NEW g, NEW out,
         IsOutput(u, list, g, Len(u.functions), out), NEW entry,
         IsEntry(u, list, Len(u.functions), entry),
         \A k \in 1 .. Len(u.functions) :
           u.functions[k].name = EntryName => g[k] = "Visited",
         \A k \in 1 .. Len(u.functions) :
           g[k] = "Visited" => \A j \in Edges(u, k) : g[j] = "Visited"
  PROVE  IsAssembled(u, out.retained, g, entry, out)
<1> DEFINE n == Len(u.functions)
           E == Len(list) - n
<1>1. \A k \in 1 .. n : g[k] = "Visited" => HasBody(out.retained, E + k - 1)
  BY DEF IsOutput
<1>2. HasBody(out.retained, entry)
  <2>1. PICK k \in 1 .. n : u.functions[k].name = EntryName /\ entry = E + k - 1
    BY DEF IsEntry
  <2> HIDE DEF n, E
  <2> QED BY <1>1, <2>1 DEF n
<1>3. ASSUME NEW p \in Range(out.patches) PROVE HasBody(out.retained, p.id)
  <2>1. PICK b \in 1 .. n : g[b] = "Visited" /\ p.id \in ScriptIdsOf(u, E, CalleesOf(u.functions[b]))
    BY DEF IsOutput
  <2>2. PICK j \in Edges(u, b) : p.id = E + j - 1
    BY <2>1 DEF ScriptIdsOf, Edges
  <2>3. j \in 1 .. n /\ g[j] = "Visited"
    BY <2>1, <2>2 DEF Edges
  <2> HIDE DEF E
  <2> QED BY <1>1, <2>2, <2>3
<1>4. E \in Nat /\ \A i \in 1 .. E : list[i].scope = "Extern" /\ list[i].id = i - 1
  <2> DEFINE m == Len(u.functions)
  <2>1. IsTable(u, list, m)
    OBVIOUS
  <2> HIDE DEF m
  <2>2. IsIndexed(u, list, m)
    BY <2>1, TableIndex
  <2>3. /\ Len(list) - m \in Nat
        /\ \A i \in 1 .. Len(list) - m : list[i].scope = "Extern" /\ list[i].id = i - 1
    BY Zenon, <2>2 DEF IsIndexed
  <2> QED BY <2>3 DEF m
<1>5. {v \in Range(out.retained) : v.scope = "Extern"} = {list[i] : i \in 1 .. E}
  BY DEF IsOutput
<1>6. Range(out.usedExternals) = CalledExterns(u, list, g, n)
  BY DEF IsOutput
<1>7. CalledExterns(u, list, g, n) = {v.id : v \in ExternsCalled(u, out.retained, g)}
  <2> DEFINE V == {k \in 1 .. n : g[k] = "Visited"}
             names(k) == CalleesOf(u.functions[k])
             called(i) == \E k \in V : list[i].name \in names(k)
  <2>1. \A x : x \in CalledExterns(u, list, g, n) <=> \E k \in V : x \in ExternIdsOf(list, E, names(k))
    BY DEF CalledExterns
  <2>2. \A k \in V : \A x : x \in ExternIdsOf(list, E, names(k))
                              <=> \E i \in 1 .. E : list[i].name \in names(k) /\ x = i - 1
    BY DEF ExternIdsOf
  <2>3. \A v : v \in ExternsCalled(u, out.retained, g)
                 <=> \E i \in 1 .. E : v = list[i] /\ called(i)
    <3>1. \A v : v \in ExternsCalled(u, out.retained, g)
                   <=> /\ v \in {w \in Range(out.retained) : w.scope = "Extern"}
                       /\ \E k \in V : v.name \in names(k)
      BY DEF ExternsCalled
    <3> HIDE DEF V, names, E
    <3> QED BY <1>5, <3>1
  <2> HIDE DEF V, names, E
  <2>4. \A x : x \in CalledExterns(u, list, g, n) <=> \E i \in 1 .. E : called(i) /\ x = i - 1
    <3> TAKE x
    <3>1. x \in CalledExterns(u, list, g, n) <=> \E k \in V : \E i \in 1 .. E : list[i].name \in names(k) /\ x = i - 1
      BY <2>1, <2>2
    <3> QED BY <3>1
  <2> HIDE DEF called
  <2>5. \A i \in 1 .. E : list[i].id = i - 1
    BY <1>4
  <2> DEFINE S == ExternsCalled(u, out.retained, g)
             T == {v.id : v \in S}
  <2>6. \A x : x \in T <=> \E v \in S : x = v.id
    OBVIOUS
  <2>7. \A x : x \in T <=> \E i \in 1 .. E : called(i) /\ x = i - 1
    <3> TAKE x
    <3>1. ASSUME x \in T PROVE \E i \in 1 .. E : called(i) /\ x = i - 1
      <4>1. PICK v \in S : x = v.id
        BY <2>6, <3>1
      <4>2. PICK i \in 1 .. E : v = list[i] /\ called(i)
        BY <2>3, <4>1
      <4> QED BY <2>5, <4>1, <4>2
    <3>2. ASSUME NEW i \in 1 .. E, called(i), x = i - 1 PROVE x \in T
      <4>1. list[i] \in S
        BY <2>3, <3>2
      <4> QED BY <2>5, <2>6, <3>2, <4>1
    <3> QED BY <3>1, <3>2
  <2> HIDE DEF T, S
  <2>8. CalledExterns(u, list, g, n) = T
    BY <2>4, <2>7
  <2> QED BY <2>8 DEF T, S
<1>8. /\ out.retained \in Seq(Range(out.retained)) /\ out.patches \in Seq(Range(out.patches))
      /\ out.text \in Seq(Range(out.text))
      /\ out.usedExternals \in Seq(Range(out.usedExternals)) /\ EachOnce(out.usedExternals)
      /\ \A v \in Range(out.retained) :
           v.scope = "BSS" => IsPlaced(u, v, Len(out.text), out.maxFrameByteSize)
  BY DEF IsOutput
<1>9. Range(out.usedExternals) = {v.id : v \in ExternsCalled(u, out.retained, g)}
  BY <1>6, <1>7
<1> QED BY Zenon, <1>2, <1>3, <1>8, <1>9 DEF IsAssembled

LEMMA FinishAssemblingAssembled ==
  LayoutInv /\ TableInv /\ BlocksInv /\ MarkedInv /\ AssembleInv /\ FinishAssembling
    => AssembledInv'
<1> SUFFICES ASSUME LayoutInv, TableInv, BlocksInv, MarkedInv, AssembleInv, FinishAssembling
             PROVE  AssembledInv'
  OBVIOUS
<1>1. /\ phase = "assemble" /\ at > Len(blocks) /\ functions' = output.retained
      /\ UNCHANGED <<unit, callGraph, entryFunction, output>>
  BY DEF FinishAssembling, backend
<1>2. MarkContext
  BY <1>1, ContextIs
<1>3. IsOutput(unit, functions, callGraph, ScriptCount, output)
  <2>1. at - 1 \in 0 .. ScriptCount /\ IsOutput(unit, functions, callGraph, at - 1, output)
    BY <1>1 DEF AssembleInv
  <2>2. at \in Nat /\ Len(blocks) = ScriptCount /\ ScriptCount \in Nat
    BY <1>2 DEF LayoutInv, LayoutTypes, MarkContext, AreBlocks, ScriptCount
  <2>3. at - 1 = ScriptCount
    BY <1>1, <2>1, <2>2
  <2> QED BY <2>1, <2>3
<1>4. IsEntry(unit, functions, ScriptCount, entryFunction)
  BY <1>1 DEF TableInv, BuildPhases, FrontPhases, Registered
<1>5. \A k \in 1 .. ScriptCount : callGraph[k] = "Visited" <=> NameOf(k) \in LiveNames
  <2>1. MarksExact(unit, blocks, callGraph, LiveNames)
    BY <1>1 DEF MarkedInv, Marked
  <2> QED BY <2>1 DEF MarksExact, NameOf, ScriptCount
<1>6. EntryName \in ScriptNames
  BY <1>2, <1>4, EntryIs
<1>7. /\ EntryName \in LiveNames
      /\ \A b \in 1 .. ScriptCount : NameOf(b) \in LiveNames =>
           \A j \in Edges(unit, b) : j \in 1 .. ScriptCount /\ NameOf(j) \in LiveNames
  BY <1>2, <1>6, LiveIs DEF MarkContext
<1>8. \A k \in 1 .. ScriptCount : unit.functions[k].name = EntryName => callGraph[k] = "Visited"
  BY <1>5, <1>7 DEF NameOf
<1>9. \A k \in 1 .. ScriptCount :
        callGraph[k] = "Visited" => \A j \in Edges(unit, k) : callGraph[j] = "Visited"
  BY <1>5, <1>7
<1> DEFINE list == functions
           out == output
           g == callGraph
           entry == entryFunction
<1>10. IsAssembled(unit, out.retained, g, entry, out)
  <2>1. /\ IsTable(unit, list, Len(unit.functions))
        /\ IsOutput(unit, list, g, Len(unit.functions), out)
        /\ IsEntry(unit, list, Len(unit.functions), entry)
        /\ \A k \in 1 .. Len(unit.functions) :
             unit.functions[k].name = EntryName => g[k] = "Visited"
        /\ \A k \in 1 .. Len(unit.functions) :
             g[k] = "Visited" => \A j \in Edges(unit, k) : g[j] = "Visited"
    BY <1>2, <1>3, <1>4, <1>8, <1>9 DEF MarkContext, ScriptCount
  <2> HIDE DEF list, out, g, entry
  <2> QED BY <2>1, OutputFinishes
<1> QED BY <1>1, <1>10 DEF AssembledInv

LEMMA AssembledStep ==
  LayoutInv /\ TableInv /\ BlocksInv /\ MarkedInv /\ AssembleInv /\ AssembledInv /\ [Next]_vars
    => AssembledInv'
<1> SUFFICES ASSUME LayoutInv, TableInv, BlocksInv, MarkedInv, AssembleInv, AssembledInv,
                    [Next]_vars, phase' \in {"link", "image", "done"}
             PROVE  AssembledInv'
  BY DEF AssembledInv
<1>1. CASE FinishAssembling
  BY <1>1, FinishAssemblingAssembled
<1>2. CASE phase \in {"link", "image", "done"}
           /\ UNCHANGED <<unit, functions, callGraph, entryFunction, output>>
  BY <1>2 DEF AssembledInv
<1>3. CASE UNCHANGED vars
  <2>1. /\ phase \in {"link", "image", "done"}
        /\ UNCHANGED <<unit, functions, callGraph, entryFunction, output>>
    BY <1>3 DEF vars
  <2> QED BY <1>2, <2>1
<1>4. CASE Link \/ BuildProgramImage
  <2>1. phase \in {"link", "image", "done"}
    BY <1>4 DEF Link, BuildProgramImage
  <2>2. UNCHANGED <<unit, functions, callGraph, entryFunction, output>>
    BY <1>4 DEF Link, BuildProgramImage, Fail, backend, table
  <2> QED BY <1>2, <2>1, <2>2
<1>5. CASE RegisterDecl \/ InitializeGlobal \/ RegisterFunction \/ CompileFunction
             \/ StartMarking \/ FollowCall \/ LeaveBlock \/ NextPhase
             \/ StartAssembling \/ AssembleBlock
  <2>1. phase' \notin {"link", "image", "done"}
    BY <1>5 DEF RegisterDecl, InitializeGlobal, RegisterFunction, CompileFunction, Item,
                Forward, Fail, StartMarking, FollowCall, LeaveBlock, NextPhase, GoTo,
                StartAssembling, AssembleBlock
  <2> QED BY <2>1
<1> QED BY <1>1, <1>3, <1>4, <1>5 DEF Next, Compile

-----------------------------------------------------------------------------
(***************************************************************************)
(* The linker finds what it looks for.                                     *)
(***************************************************************************)
LEMMA LinkedIndexFound ==
  ASSUME functions \in Seq(Range(functions)), NEW id, HasBody(functions, id)
  PROVE  LinkedIndex(id) # -1
<1> DEFINE list == LocalFunctions
           chosen == CHOOSE i \in DOMAIN list : list[i].id = id
<1>1. list \in Seq(Range(list)) /\ Range(list) = {v \in Range(functions) : v.scope = "BSS"}
  BY OfScopeIs DEF LocalFunctions
<1> HIDE DEF list
<1>2. \E i \in DOMAIN list : list[i].id = id
  BY <1>1 DEF HasBody, Range
<1>3. chosen \in DOMAIN list
  BY <1>2
<1>4. chosen \in 1 .. Len(list)
  BY <1>1, <1>3
<1> HIDE DEF chosen
<1>5. chosen - 1 # -1
  BY <1>1, <1>4
<1>6. LinkedIndex(id) = chosen - 1
  BY <1>2 DEF LinkedIndex, list, chosen
<1> QED BY <1>5, <1>6

LEMMA LinkErrorIs ==
  ASSUME AssembledInv, phase = "link"
  PROVE  LinkError \notin {"unresolved function", "entry"}
<1>1. IsAssembled(unit, functions, callGraph, entryFunction, output)
  BY DEF AssembledInv
<1>2. functions \in Seq(Range(functions))
  BY <1>1 DEF IsAssembled
<1>3. LinkedIndex(entryFunction) # -1
  BY <1>1, <1>2, LinkedIndexFound DEF IsAssembled
<1>4. \A i \in DOMAIN output.patches : LinkedIndex(output.patches[i].id) # -1
  <2>1. \A p \in Range(output.patches) : LinkedIndex(p.id) # -1
    BY <1>1, <1>2, LinkedIndexFound DEF IsAssembled
  <2> QED BY <2>1 DEF Range
<1>5. {i \in DOMAIN output.patches : LinkedIndex(output.patches[i].id) = -1} = {}
  BY <1>4
<1>6. \A f : BindingError(f) \in {"slot", "parameter kind", "none"}
  BY DEF BindingError
<1> QED BY <1>3, <1>5, <1>6 DEF LinkError

\* Nothing else is reported in those words.
LEMMA ResolvedStep ==
  AssembledInv /\ LinkNeverUnresolved /\ [Next]_vars => LinkNeverUnresolved'
<1> SUFFICES ASSUME AssembledInv, LinkNeverUnresolved, [Next]_vars
             PROVE  LinkNeverUnresolved'
  OBVIOUS
<1>1. CASE Link
  <2>1. result' = result \/ result' = LinkError
    BY <1>1 DEF Link, Fail
  <2>2. LinkError \notin {"unresolved function", "entry"}
    BY <1>1, LinkErrorIs DEF Link
  <2> QED BY <2>1, <2>2 DEF LinkNeverUnresolved
<1>2. CASE BuildProgramImage
  <2>1. \A p, f : FunctionImageStatus(p, f) \notin {"unresolved function", "entry"}
    BY DEF FunctionImageStatus
  <2>2. ImageStatus(linked) \notin {"unresolved function", "entry"}
    BY <2>1 DEF ImageStatus
  <2>3. result' = ImageStatus(linked)
    BY <1>2 DEF BuildProgramImage
  <2> QED BY <2>2, <2>3 DEF LinkNeverUnresolved
<1>3. CASE RegisterDecl \/ InitializeGlobal \/ RegisterFunction \/ CompileFunction
  BY <1>3 DEF RegisterDecl, InitializeGlobal, RegisterFunction, CompileFunction, Fail,
              LinkNeverUnresolved
<1>4. CASE StartMarking \/ FollowCall \/ LeaveBlock \/ StartAssembling \/ AssembleBlock
             \/ FinishAssembling \/ NextPhase \/ UNCHANGED vars
  BY <1>4 DEF StartMarking, FollowCall, LeaveBlock, StartAssembling, AssembleBlock,
              FinishAssembling, NextPhase, Fail, vars, LinkNeverUnresolved
<1> QED BY <1>1, <1>2, <1>3, <1>4 DEF Next, Compile

AssemblyInv ==
  CallGraphInv /\ AssembleInv /\ AssembledInv /\ LinkNeverUnresolved

LEMMA AssemblyInductive ==
  /\ Init => AssemblyInv
  /\ AssemblyInv /\ [Next]_vars => AssemblyInv'
<1>1. Init => AssembledInv /\ LinkNeverUnresolved
  BY DEF Init, AssembledInv, LinkNeverUnresolved
<1>2. Init => AssemblyInv
  BY <1>1, CallGraphInductive, AssembleInit DEF AssemblyInv
<1>3. AssemblyInv /\ [Next]_vars => AssemblyInv'
  BY CallGraphInductive, AssembleStep, AssembledStep, ResolvedStep
     DEF AssemblyInv, CallGraphInv
<1> QED BY <1>2, <1>3

\* The linker finds the entry function and every function that is called,
\* whatever the program: dropping what is not reachable drops nothing that
\* is called (assembleFunctionBlocks, Linker.Link).
THEOREM LinkResolves == Spec => []LinkNeverUnresolved
<1>1. AssemblyInv => LinkNeverUnresolved
  BY DEF AssemblyInv
<1> QED BY <1>1, AssemblyInductive, PTL DEF Spec

\* A program linked is what the linker makes of what it still has, and found
\* nothing wrong with.
LinkedInv ==
  linked # NoLink =>
    phase \in {"image", "done"} /\ linked = LinkedProgram /\ LinkError = "none"

LEMMA LinkedProgramKept ==
  ASSUME UNCHANGED <<functions, output, entryFunction, symbols, bssByteSize, constImage,
                     dataImage>>
  PROVE  LinkedProgram' = LinkedProgram /\ LinkError' = LinkError
<1>1. LinkedProgram' = LinkedProgram
  BY DEF LinkedProgram, LocalFunctions, LinkedIndex, PoolStart
<1>2. LinkError' = LinkError
  BY DEF LinkError, LocalFunctions, LinkedIndex
<1> QED BY <1>1, <1>2

LEMMA LinkedStep == LinkedInv /\ [Next]_vars => LinkedInv'
<1> SUFFICES ASSUME LinkedInv, [Next]_vars, linked' # NoLink
             PROVE  /\ phase' \in {"image", "done"} /\ linked' = LinkedProgram'
                    /\ LinkError' = "none"
  BY DEF LinkedInv
<1>1. CASE Link
  <2>1. linked' = LinkedProgram /\ phase' = "image" /\ LinkError = "none"
    <3>1. linked = NoLink
      BY <1>1 DEF Link, LinkedInv
    <3> QED BY <1>1, <3>1 DEF Link, Fail, backend, GoTo
  <2>2. UNCHANGED <<functions, output, entryFunction, symbols, bssByteSize, constImage,
                    dataImage>>
    BY <1>1 DEF Link, Fail, backend, table, layout, images
  <2> QED BY <2>1, <2>2, LinkedProgramKept
<1>2. CASE BuildProgramImage \/ UNCHANGED vars
  <2>1. /\ UNCHANGED <<functions, output, entryFunction, symbols, bssByteSize, constImage,
                       dataImage>>
        /\ linked' = linked /\ phase' \in {phase, "done"}
    BY <1>2 DEF BuildProgramImage, GoTo, backend, table, layout, images, vars
  <2> QED BY <2>1, LinkedProgramKept DEF LinkedInv
<1>3. CASE RegisterDecl \/ InitializeGlobal \/ RegisterFunction \/ CompileFunction
             \/ StartMarking \/ FollowCall \/ LeaveBlock \/ NextPhase
             \/ StartAssembling \/ AssembleBlock \/ FinishAssembling
  <2>1. phase \notin {"image", "done"}
    BY <1>3 DEF RegisterDecl, InitializeGlobal, RegisterFunction, CompileFunction, Item,
                StartMarking, FollowCall, LeaveBlock, NextPhase, Done,
                StartAssembling, AssembleBlock, FinishAssembling
  <2>2. linked' = linked
    BY <1>3 DEF RegisterDecl, InitializeGlobal, RegisterFunction, CompileFunction, Fail,
                backend, StartMarking, FollowCall, LeaveBlock, NextPhase,
                StartAssembling, AssembleBlock, FinishAssembling
  <2> QED BY <2>1, <2>2 DEF LinkedInv
<1> QED BY <1>1, <1>2, <1>3 DEF Next, Compile

ProgramInv == AssemblyInv /\ LinkedInv

LEMMA ProgramInductive ==
  /\ Init => ProgramInv
  /\ ProgramInv /\ [Next]_vars => ProgramInv'
<1>1. Init => LinkedInv
  BY DEF Init, LinkedInv
<1> QED BY <1>1, AssemblyInductive, LinkedStep DEF ProgramInv

\* The external functions reported are those the live code calls, each once.
LEMMA ProgramReports == ProgramInv => ExternUseReported
<1> SUFFICES ASSUME ProgramInv, linked # NoLink
             PROVE  LET used == output.usedExternals
                        called == {f \in {functions[i] : i \in DOMAIN functions} :
                                     f.scope = "Extern"
                                       /\ \E g \in LiveNames : f.name \in SourceCallees(g)}
                    IN  /\ \A i, j \in DOMAIN used : used[i] = used[j] => i = j
                        /\ {used[i] : i \in DOMAIN used} = {f.id : f \in called}
  BY DEF ExternUseReported
<1> DEFINE used == output.usedExternals
           called == {f \in {functions[i] : i \in DOMAIN functions} :
                        f.scope = "Extern"
                          /\ \E g \in LiveNames : f.name \in SourceCallees(g)}
<1>1. phase \in {"image", "done"}
  BY DEF ProgramInv, LinkedInv
<1>2. IsAssembled(unit, functions, callGraph, entryFunction, output)
  BY <1>1 DEF ProgramInv, AssemblyInv, AssembledInv
<1>3. /\ used \in Seq(Range(used)) /\ EachOnce(used)
      /\ Range(used) = {v.id : v \in ExternsCalled(unit, functions, callGraph)}
  BY <1>2 DEF IsAssembled
<1>4. MarksExact(unit, blocks, callGraph, LiveNames)
  BY <1>1 DEF ProgramInv, AssemblyInv, CallGraphInv, MarkedInv, Marked
<1>5. unit \in Units
  BY DEF ProgramInv, AssemblyInv, CallGraphInv, LayoutInv, LayoutTypes
<1>6. DOMAIN unit.functions = 1 .. ScriptCount
  BY <1>5, UnitType DEF ScriptCount
<1>7. \A k \in 1 .. ScriptCount : /\ callGraph[k] = "Visited" <=> NameOf(k) \in LiveNames
                                  /\ SourceCallees(NameOf(k)) = CalleesOf(unit.functions[k])
  <2>1. DistinctNames(unit.functions)
    BY <1>4 DEF MarksExact
  <2> QED BY <1>4, <1>5, <2>1, CalleesAre DEF MarksExact, NameOf, ScriptCount
<1>8. \A g \in LiveNames : \E k \in 1 .. ScriptCount : g = NameOf(k)
  BY <1>4, <1>6 DEF MarksExact, NameOf
<1>9. \A name : (\E g \in LiveNames : name \in SourceCallees(g))
                  <=> \E k \in 1 .. Len(unit.functions) :
                        callGraph[k] = "Visited" /\ name \in CalleesOf(unit.functions[k])
  <2> TAKE name
  <2>1. ASSUME NEW g \in LiveNames, name \in SourceCallees(g)
        PROVE  \E k \in 1 .. Len(unit.functions) :
                 callGraph[k] = "Visited" /\ name \in CalleesOf(unit.functions[k])
    <3>1. PICK k \in 1 .. ScriptCount : g = NameOf(k)
      BY <1>8
    <3>2. callGraph[k] = "Visited" /\ name \in CalleesOf(unit.functions[k])
      BY <1>7, <2>1, <3>1
    <3> QED BY <3>2 DEF ScriptCount
  <2>2. ASSUME NEW k \in 1 .. Len(unit.functions),
               callGraph[k] = "Visited", name \in CalleesOf(unit.functions[k])
        PROVE  \E g \in LiveNames : name \in SourceCallees(g)
    <3>1. NameOf(k) \in LiveNames /\ name \in SourceCallees(NameOf(k))
      BY <1>7, <2>2 DEF ScriptCount
    <3> QED BY <3>1
  <2> QED BY <2>1, <2>2
<1>10. called = ExternsCalled(unit, functions, callGraph)
  <2>1. {functions[i] : i \in DOMAIN functions} = Range(functions)
    BY DEF Range
  <2> QED BY <1>9, <2>1 DEF ExternsCalled
<1>11. \A i, j \in DOMAIN used : used[i] = used[j] => i = j
  BY <1>3 DEF EachOnce
<1>12. {used[i] : i \in DOMAIN used} = Range(used)
  BY DEF Range
<1> QED BY <1>3, <1>10, <1>11, <1>12

\* The link report names exactly the extern functions the retained code
\* calls, each once, whatever the program (assembleFunctionBlocks).
THEOREM ExternReportIsExact == Spec => []ExternUseReported
BY ProgramInductive, ProgramReports, PTL DEF Spec

-----------------------------------------------------------------------------
(***************************************************************************)
(* The descriptors of a linked program.                                    *)
(***************************************************************************)

\* A function the linker has no objection to.
LEMMA BindingAllowed ==
  ASSUME functions \in Seq(Range(functions)), LinkError = "none",
         NEW v \in Range(functions)
  PROVE  BindingError(v) = "none"
<1> DEFINE bad == {i \in DOMAIN functions : BindingError(functions[i]) # "none"}
<1>1. bad = {}
  <2> SUFFICES ASSUME bad # {} PROVE FALSE
    OBVIOUS
  <2> DEFINE first == CHOOSE i \in bad : \A j \in bad : i <= j
  <2>1. bad \subseteq Nat
    OBVIOUS
  <2>2. \E i \in bad : \A j \in bad : i <= j
    <3> HIDE DEF bad
    <3> QED BY <2>1, LeastMember
  <2>3. first \in bad
    <3> HIDE DEF bad
    <3> QED BY <2>2
  <2>4. BindingError(functions[first]) # "none"
    <3> HIDE DEF first
    <3> QED BY <2>3
  <2>5. BindingError(functions[first])
          \in {"slot", "parameter kind", "none"}
    BY DEF BindingError
  <2>6. LinkError \in {"extern variable", BindingError(functions[first])}
    BY DEF LinkError
  <2> HIDE DEF first
  <2> QED BY <2>4, <2>6
<1>2. PICK i \in DOMAIN functions : v = functions[i]
  BY DEF Range
<1> QED BY <1>1, <1>2

\* Function i of the linked table.
LocalKinds == [i \in DOMAIN LocalFunctions |-> LocalFunctions[i].paramKinds]
LocalOffsets == [i \in DOMAIN LocalFunctions |-> LocalFunctions[i].paramOffsets]

\* A parameter has a size, lies in the frame, and apart from the others.
ParametersFit(v) ==
  /\ v.paramKinds \in Seq(SourceKinds) /\ v.paramOffsets \in Seq(Nat)
  /\ Len(v.paramOffsets) = Len(v.paramKinds)
  /\ v.frameByteSize \in Nat
  /\ \A k \in 1 .. Len(v.paramKinds) :
       /\ Size(v.paramKinds[k]) \in Nat \ {0}
       /\ v.paramOffsets[k] + Size(v.paramKinds[k]) <= v.frameByteSize
       /\ \A l \in 1 .. Len(v.paramKinds) :
            Overlap(v.paramOffsets[k], Size(v.paramKinds[k]),
                    v.paramOffsets[l], Size(v.paramKinds[l])) => k = l

LEMMA PlacedFits ==
  ASSUME NEW u, Len(u.functions) \in Nat,
         \A k \in 1 .. Len(u.functions) : IsFunctionDefinition(u.functions[k]),
         NEW v, NEW size, NEW frame, IsPlaced(u, v, size, frame),
         v.scope # "Extern", BindingError(v) = "none"
  PROVE  /\ ParametersFit(v)
         /\ v.address \in Nat /\ v.address < size /\ v.frameByteSize <= frame
<1>1. PICK k \in 1 .. Len(u.functions) :
        /\ v.paramKinds = [i \in DOMAIN u.functions[k].params |-> u.functions[k].params[i].kind]
        /\ v.paramOffsets = SubSeq(FrameOf(u.functions[k]).offsets, 1,
                                   Len(u.functions[k].params))
        /\ v.frameByteSize = FrameOf(u.functions[k]).bytes
        /\ v.address \in Nat /\ v.address < size
        /\ v.frameByteSize <= frame
  BY DEF IsPlaced
<1> DEFINE params == u.functions[k].params
           offsets == v.paramOffsets
           kinds == v.paramKinds
           bytes == v.frameByteSize
           n == Len(params)
<1>2. /\ bytes \in Nat /\ n \in Nat /\ offsets \in Seq(Nat) /\ Len(offsets) = n
      /\ \A i \in 1 .. n : offsets[i] + Size(params[i].kind) <= bytes
      /\ \A i, j \in 1 .. n : i < j => offsets[i] + Size(params[i].kind) <= offsets[j]
  <2> DEFINE f == u.functions[k]
  <2>1. /\ IsFunctionDefinition(f) /\ offsets = SubSeq(FrameOf(f).offsets, 1, Len(f.params))
        /\ bytes = FrameOf(f).bytes /\ params = f.params
    BY <1>1
  <2> HIDE DEF f, params, offsets, bytes
  <2> QED BY <2>1, FrameOfIs
<1>3. IsSlots(params) /\ kinds = [i \in DOMAIN params |-> params[i].kind]
  BY <1>1 DEF IsFunctionDefinition
<1>4. /\ DOMAIN params = 1 .. n /\ \A i \in 1 .. n : params[i].kind \in SourceKinds
  <2> HIDE DEF params
  <2>1. DOMAIN params = 1 .. n
    BY <1>3 DEF IsSlots
  <2> QED BY <1>3, <2>1 DEF IsSlots
<1> HIDE DEF params, kinds, offsets, bytes, n
<1>5. /\ kinds \in Seq(SourceKinds) /\ Len(kinds) = n
      /\ \A i \in 1 .. n : kinds[i] = params[i].kind
  <2> DEFINE kind(i) == params[i].kind
  <2>1. kinds = [i \in 1 .. n |-> kind(i)] /\ \A i \in 1 .. n : kind(i) \in SourceKinds
    BY <1>3, <1>4
  <2> HIDE DEF kind
  <2>2. /\ kinds \in Seq(SourceKinds) /\ Len(kinds) = n
        /\ \A i \in 1 .. n : kinds[i] = kind(i)
    BY <1>2, <2>1
  <2> QED BY <2>2 DEF kind
<1>6. \A i \in 1 .. n : Size(kinds[i]) \in Nat \ {0}
  <2>1. \A i \in DOMAIN kinds : kinds[i] \notin {"None", "Void"}
    BY DEF BindingError, kinds
  <2>2. \A kind \in SourceKinds : kind \notin {"None", "Void"} => Size(kind) \in Nat \ {0}
    BY DEF SourceKinds, Kinds, IntegerKinds, SignedKinds, UnsignedKinds, FloatKinds, Size
  <2>3. \A i \in 1 .. n : kinds[i] \in SourceKinds /\ kinds[i] \notin {"None", "Void"}
    BY SMTT(20), <1>2, <1>5, <2>1
  <2> QED BY <2>2, <2>3
<1> DEFINE size1(i) == Size(kinds[i])
<1>7. /\ \A i \in 1 .. n : offsets[i] + size1(i) <= bytes /\ size1(i) \in Nat /\ offsets[i] \in Nat
      /\ \A i, j \in 1 .. n : i < j => offsets[i] + size1(i) <= offsets[j]
  <2>1. \A i \in 1 .. n : size1(i) = Size(params[i].kind)
    BY <1>5
  <2>2. \A i \in 1 .. n : size1(i) \in Nat /\ offsets[i] \in Nat
    BY <1>2, <1>6
  <2> HIDE DEF size1
  <2>3. \A i \in 1 .. n : offsets[i] + size1(i) <= bytes
    BY <1>2, <2>1
  <2>4. \A i, j \in 1 .. n : i < j => offsets[i] + size1(i) <= offsets[j]
    BY <1>2, <2>1
  <2> QED BY <2>2, <2>3, <2>4
<1>8. ASSUME NEW i \in 1 .. n, NEW j \in 1 .. n,
             Overlap(offsets[i], size1(i), offsets[j], size1(j))
      PROVE  i = j
  <2> HIDE DEF size1
  <2>1. offsets[i] < offsets[j] + size1(j) /\ offsets[j] < offsets[i] + size1(i)
    BY <1>8 DEF Overlap
  <2>2. ~(i < j)
    BY <1>7, <2>1
  <2>3. ~(j < i)
    BY <1>7, <2>1
  <2> QED BY <1>2, <2>2, <2>3
<1>9. ParametersFit(v)
  <2>1. \A i \in 1 .. Len(kinds) :
          /\ Size(kinds[i]) \in Nat \ {0}
          /\ offsets[i] + Size(kinds[i]) <= bytes
          /\ \A j \in 1 .. Len(kinds) :
               Overlap(offsets[i], Size(kinds[i]), offsets[j], Size(kinds[j])) => i = j
    BY <1>5, <1>6, <1>7, <1>8
  <2> QED BY Zenon, <1>2, <1>5, <2>1 DEF ParametersFit, kinds, offsets, bytes
<1> QED BY <1>1, <1>9

\* The table of the linked program is the local functions, whose parameters
\* fit; and its code is as long as what was assembled.
LEMMA LinkedTable ==
  ASSUME ProgramInv, linked # NoLink
  PROVE  /\ linked = LinkedProgram
         /\ LocalFunctions \in Seq(Range(LocalFunctions))
         /\ \A v \in Range(LocalFunctions) :
              /\ ParametersFit(v)
              /\ v.address \in Nat /\ v.address < Len(output.text)
              /\ v.frameByteSize <= output.maxFrameByteSize
         /\ Len(LinkedProgram.text) = Len(output.text)
<1>1. phase \in {"image", "done"} /\ linked = LinkedProgram /\ LinkError = "none"
  BY DEF ProgramInv, LinkedInv
<1>2. IsAssembled(unit, functions, callGraph, entryFunction, output)
  BY <1>1 DEF ProgramInv, AssemblyInv, AssembledInv
<1>3. functions \in Seq(Range(functions)) /\ output.text \in Seq(Range(output.text))
  BY <1>2 DEF IsAssembled
<1>4. /\ LocalFunctions \in Seq(Range(LocalFunctions))
      /\ Range(LocalFunctions) = {v \in Range(functions) : v.scope = "BSS"}
  BY <1>3, OfScopeIs DEF LocalFunctions
<1>5. unit \in Units
  BY DEF ProgramInv, AssemblyInv, CallGraphInv, LayoutInv, LayoutTypes
<1>6. /\ Len(unit.functions) \in Nat
      /\ \A k \in 1 .. Len(unit.functions) : IsFunctionDefinition(unit.functions[k])
  BY <1>5, UnitType
<1> DEFINE size == Len(output.text)
           frame == output.maxFrameByteSize
<1>7. ASSUME NEW v \in Range(LocalFunctions)
      PROVE  /\ ParametersFit(v)
             /\ v.address \in Nat /\ v.address < size /\ v.frameByteSize <= frame
  <2>1. v \in Range(functions) /\ v.scope = "BSS"
    BY <1>4
  <2>2. IsPlaced(unit, v, size, frame)
    BY <1>2, <2>1 DEF IsAssembled
  <2>3. BindingError(v) = "none"
    BY <1>1, <1>3, <2>1, BindingAllowed
  <2> HIDE DEF size, frame
  <2> QED BY <1>6, <2>1, <2>2, <2>3, PlacedFits
<1>8. Len(LinkedProgram.text) = Len(output.text)
  <2>1. LinkedProgram.text
          = Patched(output.text, output.patches,
                    [i \in DOMAIN output.patches |-> LinkedIndex(output.patches[i].id)])
    BY DEF LinkedProgram
  <2> DEFINE value == [i \in DOMAIN output.patches |-> LinkedIndex(output.patches[i].id)]
             text == output.text
             patches == output.patches
  <2>2. text \in Seq(Range(text))
    BY <1>3
  <2> HIDE DEF value, text, patches
  <2>3. Len(Patched(text, patches, value)) = Len(text)
    BY <2>2, PatchedIs
  <2> QED BY <2>1, <2>3 DEF value, text, patches
<1> QED BY <1>1, <1>4, <1>7, <1>8

\* Two lists of sequences that match in length, flattened: piece i of either
\* starts where the pieces before it end.
SharedOut(kinds, offsets) ==
  /\ Len(FlattenSeq(kinds)) = Len(FlattenSeq(offsets))
  /\ Len(FirstOf(kinds, Len(kinds))) = Len(FlattenSeq(kinds))
  /\ \A i \in 1 .. Len(kinds) :
       LET start == Len(FirstOf(kinds, i - 1))
       IN  /\ start \in Nat
           /\ start + Len(kinds[i]) = Len(FirstOf(kinds, i))
           /\ \A k \in 1 .. Len(kinds[i]) :
                /\ FlattenSeq(kinds)[start + k] = kinds[i][k]
                /\ FlattenSeq(offsets)[start + k] = offsets[i][k]

LEMMA PoolPlaces ==
  ASSUME NEW S, NEW kinds \in Seq(Seq(S)), NEW T, NEW offsets \in Seq(Seq(T)),
         Len(offsets) = Len(kinds),
         \A i \in 1 .. Len(kinds) : Len(offsets[i]) = Len(kinds[i])
  PROVE  SharedOut(kinds, offsets)
<1>1. \A i \in 0 .. Len(kinds) : Len(FirstOf(offsets, i)) = Len(FirstOf(kinds, i))
  BY FlattenAlike
<1>2. FirstOf(kinds, Len(kinds)) = FlattenSeq(kinds)
  BY FirstOfIs
<1>3. FirstOf(offsets, Len(kinds)) = FlattenSeq(offsets)
  BY FirstOfIs
<1>4. Len(kinds) \in 0 .. Len(kinds)
  OBVIOUS
<1>5. ASSUME NEW i \in 1 .. Len(kinds)
      PROVE  LET start == Len(FirstOf(kinds, i - 1))
             IN  /\ start \in Nat
                 /\ start + Len(kinds[i]) = Len(FirstOf(kinds, i))
                 /\ \A k \in 1 .. Len(kinds[i]) :
                      /\ FlattenSeq(kinds)[start + k] = kinds[i][k]
                      /\ FlattenSeq(offsets)[start + k] = offsets[i][k]
  <2> DEFINE start == Len(FirstOf(kinds, i - 1))
             other == Len(FirstOf(offsets, i - 1))
  <2>1. i \in 1 .. Len(offsets) /\ i - 1 \in 0 .. Len(kinds) /\ Len(offsets[i]) = Len(kinds[i])
    OBVIOUS
  <2>2. /\ start \in Nat /\ Len(FirstOf(kinds, i)) = start + Len(kinds[i])
        /\ \A k \in 1 .. Len(kinds[i]) : FlattenSeq(kinds)[start + k] = kinds[i][k]
    BY FlattenPlaces
  <2>3. \A k \in 1 .. Len(offsets[i]) : FlattenSeq(offsets)[other + k] = offsets[i][k]
    BY <2>1, FlattenPlaces
  <2>4. other = start
    BY <1>1, <2>1
  <2> HIDE DEF start, other
  <2>5. /\ start \in Nat
        /\ start + Len(kinds[i]) = Len(FirstOf(kinds, i))
        /\ \A k \in 1 .. Len(kinds[i]) :
             /\ FlattenSeq(kinds)[start + k] = kinds[i][k]
             /\ FlattenSeq(offsets)[start + k] = offsets[i][k]
    BY <2>1, <2>2, <2>3, <2>4
  <2> QED BY Zenon, <2>5 DEF start
<1> QED BY Zenon, <1>1, <1>2, <1>3, <1>4, <1>5 DEF SharedOut

\* The pools: each function's parameters where its descriptor says.
PoolsHold(list, kinds, offsets) ==
  /\ Len(FlattenSeq(kinds)) = Len(FlattenSeq(offsets))
  /\ PoolStart(Len(list) + 1) = Len(FlattenSeq(kinds))
  /\ \A i \in 1 .. Len(list) :
       /\ PoolStart(i) \in Nat
       /\ PoolStart(i) + Len(list[i].paramKinds) = PoolStart(i + 1)
       /\ \A k \in 1 .. Len(list[i].paramKinds) :
            /\ FlattenSeq(kinds)[PoolStart(i) + k] = list[i].paramKinds[k]
            /\ FlattenSeq(offsets)[PoolStart(i) + k] = list[i].paramOffsets[k]

LEMMA PoolsAre ==
  ASSUME NEW list, list = LocalFunctions, list \in Seq(Range(list)),
         \A v \in Range(list) : ParametersFit(v),
         NEW kinds, kinds = [i \in DOMAIN list |-> list[i].paramKinds],
         NEW offsets, offsets = [i \in DOMAIN list |-> list[i].paramOffsets]
  PROVE  PoolsHold(list, kinds, offsets)
<1> DEFINE n == Len(list)
           pk(i) == list[i].paramKinds
           po(i) == list[i].paramOffsets
<1>1. n \in Nat /\ DOMAIN list = 1 .. n
  OBVIOUS
<1>2. \A i \in 1 .. n : /\ pk(i) \in Seq(SourceKinds) /\ po(i) \in Seq(Nat)
                        /\ Len(po(i)) = Len(pk(i))
  BY <1>1 DEF Range, ParametersFit
<1>3. kinds = [i \in 1 .. n |-> pk(i)] /\ offsets = [i \in 1 .. n |-> po(i)]
  BY <1>1
<1>4. \A i \in Int : PoolStart(i) = Len(FlattenSeq([k \in 1 .. i - 1 |-> pk(k)]))
  BY DEF PoolStart
<1> HIDE DEF n, pk, po
<1>5. kinds \in Seq(Seq(SourceKinds)) /\ Len(kinds) = n
  <2> DEFINE S == Seq(SourceKinds)
  <2>1. \A i \in 1 .. n : pk(i) \in S
    BY <1>2
  <2> HIDE DEF S
  <2>2. kinds \in Seq(S) /\ Len(kinds) = n
    BY <1>1, <1>3, <2>1
  <2> QED BY <2>2 DEF S
<1>6. offsets \in Seq(Seq(Nat)) /\ Len(offsets) = n
  <2> DEFINE S == Seq(Nat)
  <2>1. \A i \in 1 .. n : po(i) \in S
    BY <1>2
  <2> HIDE DEF S
  <2>2. offsets \in Seq(S) /\ Len(offsets) = n
    BY <1>1, <1>3, <2>1
  <2> QED BY <2>2 DEF S
<1>7. \A i \in 1 .. n : kinds[i] = pk(i) /\ offsets[i] = po(i)
  BY Zenon, <1>3
<1>8. \A j \in 0 .. n : PoolStart(j + 1) = Len(FirstOf(kinds, j))
  <2> SUFFICES ASSUME NEW j \in 0 .. n PROVE PoolStart(j + 1) = Len(FirstOf(kinds, j))
    OBVIOUS
  <2>1. j + 1 \in Int /\ (j + 1) - 1 = j /\ \A k \in 1 .. j : k \in 1 .. n
    BY <1>1
  <2>2. PoolStart(j + 1) = Len(FlattenSeq([k \in 1 .. j |-> pk(k)]))
    BY <1>4, <2>1
  <2>3. [k \in 1 .. j |-> kinds[k]] = [k \in 1 .. j |-> pk(k)]
    <3>1. \A k \in 1 .. j : kinds[k] = pk(k)
      BY Zenon, <1>7, <2>1
    <3> QED BY <3>1
  <2> QED BY Zenon, <2>2, <2>3 DEF FirstOf
<1>9. /\ Len(offsets) = Len(kinds)
      /\ \A i \in 1 .. Len(kinds) : Len(offsets[i]) = Len(kinds[i])
  <2>1. \A i \in 1 .. n : Len(offsets[i]) = Len(kinds[i])
    BY Zenon, <1>2, <1>7
  <2> QED BY <1>5, <1>6, <2>1
<1>10. SharedOut(kinds, offsets)
  <2>1. kinds \in Seq(Seq(SourceKinds)) /\ offsets \in Seq(Seq(Nat))
    BY <1>5, <1>6
  <2> QED BY Zenon, <1>9, <2>1, PoolPlaces
<1>11. ASSUME NEW i \in 1 .. n
       PROVE  /\ PoolStart(i) \in Nat
              /\ PoolStart(i) + Len(pk(i)) = PoolStart(i + 1)
              /\ \A k \in 1 .. Len(pk(i)) :
                   /\ FlattenSeq(kinds)[PoolStart(i) + k] = pk(i)[k]
                   /\ FlattenSeq(offsets)[PoolStart(i) + k] = po(i)[k]
  <2> DEFINE before == i - 1
  <2>1. before \in 0 .. n /\ before + 1 = i /\ i \in 0 .. n
    BY <1>1
  <2>2. PoolStart(before + 1) = Len(FirstOf(kinds, before)) /\ PoolStart(i + 1) = Len(FirstOf(kinds, i))
    BY <1>8, <2>1
  <2>3. PoolStart(i) = Len(FirstOf(kinds, i - 1))
    BY <2>1, <2>2
  <2>4. kinds[i] = pk(i) /\ offsets[i] = po(i) /\ i \in 1 .. Len(kinds)
    BY <1>5, <1>7
  <2>5. LET start == Len(FirstOf(kinds, i - 1))
        IN  /\ start \in Nat
            /\ start + Len(kinds[i]) = Len(FirstOf(kinds, i))
            /\ \A k \in 1 .. Len(kinds[i]) :
                 /\ FlattenSeq(kinds)[start + k] = kinds[i][k]
                 /\ FlattenSeq(offsets)[start + k] = offsets[i][k]
    BY Zenon, <1>10, <2>4 DEF SharedOut
  <2> DEFINE start == Len(FirstOf(kinds, i - 1))
  <2>6. PoolStart(i) = start /\ Len(FirstOf(kinds, i)) = PoolStart(i + 1)
    BY <2>2, <2>3
  <2>7. /\ start \in Nat
        /\ start + Len(kinds[i]) = Len(FirstOf(kinds, i))
        /\ \A k \in 1 .. Len(kinds[i]) :
             /\ FlattenSeq(kinds)[start + k] = kinds[i][k]
             /\ FlattenSeq(offsets)[start + k] = offsets[i][k]
    BY Zenon, <2>5
  <2> HIDE DEF start
  <2> QED BY ZenonT(30), <2>4, <2>6, <2>7
<1>12. PoolStart(n + 1) = Len(FlattenSeq(kinds))
  <2>1. n \in 0 .. n
    BY <1>1
  <2> QED BY <1>5, <1>8, <1>10, <2>1 DEF SharedOut
<1> QED BY <1>10, <1>11, <1>12 DEF PoolsHold, SharedOut, n, pk, po

\* What the linker emits for a program: every descriptor is one the machine
\* accepts.
LEMMA LinkedAccepted == ProgramInv => DescriptorsAccepted
<1> SUFFICES ASSUME ProgramInv, linked # NoLink PROVE DescriptorsAccepted
  BY Zenon DEF DescriptorsAccepted
<1> DEFINE list == LocalFunctions
           n == Len(list)
           kinds == [i \in DOMAIN list |-> list[i].paramKinds]
           offsets == [i \in DOMAIN list |-> list[i].paramOffsets]
           pool == FlattenSeq(kinds)
           places == FlattenSeq(offsets)
           descriptors == linked.functions
           f(i) == [bodyAddress |-> list[i].address, paramStart |-> PoolStart(i),
                    paramCount |-> Len(list[i].paramKinds),
                    frameByteSize |-> list[i].frameByteSize,
                    returnKind |-> list[i].returnKind]
<1>1. /\ linked = LinkedProgram
      /\ list \in Seq(Range(list))
      /\ \A v \in Range(list) :
           /\ ParametersFit(v)
           /\ v.address \in Nat /\ v.address < Len(output.text)
           /\ v.frameByteSize <= output.maxFrameByteSize
      /\ Len(LinkedProgram.text) = Len(output.text)
  BY Zenon, LinkedTable
<1>2. /\ Len(linked.text) = Len(output.text)
      /\ linked.paramKinds = pool /\ linked.paramOffsets = places
      /\ linked.frameByteSize = output.maxFrameByteSize
      /\ descriptors = [i \in DOMAIN list |-> f(i)]
  BY <1>1 DEF LinkedProgram
<1>3. n \in Nat /\ DOMAIN list = 1 .. n
  BY <1>1
<1>4. /\ Len(pool) = Len(places)
      /\ PoolStart(n + 1) = Len(pool)
      /\ \A i \in 1 .. n :
           /\ PoolStart(i) \in Nat
           /\ PoolStart(i) + Len(list[i].paramKinds) = PoolStart(i + 1)
           /\ \A k \in 1 .. Len(list[i].paramKinds) :
                /\ pool[PoolStart(i) + k] = list[i].paramKinds[k]
                /\ places[PoolStart(i) + k] = list[i].paramOffsets[k]
  <2> DEFINE ks == kinds
             os == offsets
  <2>1. /\ list \in Seq(Range(list)) /\ \A v \in Range(list) : ParametersFit(v)
        /\ ks = [i \in DOMAIN list |-> list[i].paramKinds]
        /\ os = [i \in DOMAIN list |-> list[i].paramOffsets]
    BY Zenon, <1>1
  <2>2. list = LocalFunctions
    OBVIOUS
  <2> HIDE DEF ks, os, list, n
  <2>3. PoolsHold(list, ks, os)
    BY <2>1, <2>2, PoolsAre
  <2> QED BY Zenon, <2>3 DEF PoolsHold, ks, os, n
<1>5. /\ \A i \in 1 .. n : list[i] \in Range(list)
      /\ descriptors = [i \in 1 .. n |-> f(i)] /\ DOMAIN descriptors = 1 .. n
      /\ \A i \in 1 .. n : descriptors[i] = f(i)
      /\ Len(descriptors) = n
  BY <1>2, <1>3 DEF Range
<1>6. ASSUME NEW i \in 1 .. n
      PROVE  /\ descriptors[i].bodyAddress = list[i].address
             /\ descriptors[i].paramStart = PoolStart(i)
             /\ descriptors[i].paramCount = Len(list[i].paramKinds)
             /\ descriptors[i].frameByteSize = list[i].frameByteSize
  BY <1>5
<1> HIDE DEF list, n, kinds, offsets, pool, places, descriptors, f
<1>7. \A i \in 1 .. n :
        descriptors[i].paramStart + descriptors[i].paramCount
          = IF i = Len(descriptors) THEN Len(pool) ELSE descriptors[i + 1].paramStart
  <2> TAKE i \in 1 .. n
  <2>1. descriptors[i].paramStart + descriptors[i].paramCount = PoolStart(i + 1)
    BY Zenon, <1>4, <1>6
  <2>2. CASE i = n
    BY <1>4, <1>5, <2>1, <2>2
  <2>3. CASE i # n
    <3>1. i + 1 \in 1 .. n
      BY <1>3, <2>3
    <3> QED BY <1>5, <1>6, <2>1, <2>3, <3>1
  <2> QED BY <2>2, <2>3
<1>8. ASSUME NEW i \in 1 .. n, NEW k \in 1 .. descriptors[i].paramCount
      PROVE  /\ linked.paramKinds[descriptors[i].paramStart + k] = list[i].paramKinds[k]
             /\ linked.paramOffsets[descriptors[i].paramStart + k] = list[i].paramOffsets[k]
  <2>1. k \in 1 .. Len(list[i].paramKinds) /\ descriptors[i].paramStart = PoolStart(i)
    BY Zenon, <1>6
  <2>2. /\ pool[PoolStart(i) + k] = list[i].paramKinds[k]
        /\ places[PoolStart(i) + k] = list[i].paramOffsets[k]
    BY Zenon, <1>4, <2>1
  <2>3. linked.paramKinds = pool /\ linked.paramOffsets = places
    BY Zenon, <1>2
  <2> QED BY Zenon, <2>1, <2>2, <2>3
<1>9. ASSUME NEW i \in 1 .. n, NEW k \in 1 .. descriptors[i].paramCount
      PROVE  LET size(l) == Size(linked.paramKinds[descriptors[i].paramStart + l])
                 offset(l) == linked.paramOffsets[descriptors[i].paramStart + l]
             IN  /\ size(k) # 0
                 /\ offset(k) + size(k) <= descriptors[i].frameByteSize
                 /\ \A l \in 1 .. descriptors[i].paramCount :
                      Overlap(offset(k), size(k), offset(l), size(l)) => k = l
  <2> DEFINE v == list[i]
             size(l) == Size(v.paramKinds[l])
             offset(l) == v.paramOffsets[l]
  <2>1. ParametersFit(v) /\ descriptors[i].paramCount = Len(v.paramKinds)
        /\ descriptors[i].frameByteSize = v.frameByteSize
    BY <1>1, <1>5, <1>6
  <2>2. /\ size(k) \in Nat \ {0}
        /\ offset(k) + size(k) <= v.frameByteSize
        /\ \A l \in 1 .. Len(v.paramKinds) :
             Overlap(offset(k), size(k), offset(l), size(l)) => k = l
    BY <2>1 DEF ParametersFit
  <2>3. \A l \in 1 .. descriptors[i].paramCount :
          /\ Size(linked.paramKinds[descriptors[i].paramStart + l]) = size(l)
          /\ linked.paramOffsets[descriptors[i].paramStart + l] = offset(l)
    BY <1>8
  <2> HIDE DEF v, size, offset
  <2>4. size(k) # 0
    BY <2>2
  <2> QED BY Zenon, <2>1, <2>2, <2>3, <2>4
<1>10. \A i \in 1 .. n : /\ descriptors[i].bodyAddress < Len(linked.text)
                         /\ descriptors[i].frameByteSize <= linked.frameByteSize
  BY Zenon, <1>1, <1>2, <1>5, <1>6
<1>11. Len(linked.paramKinds) = Len(linked.paramOffsets)
  BY <1>2, <1>4
<1>12. Len(linked.paramKinds) = Len(pool)
  BY <1>2
<1> QED BY Zenon, <1>5, <1>7, <1>9, <1>10, <1>11, <1>12 DEF DescriptorsAccepted, descriptors

\* Every function descriptor of a linked program passes what the machine
\* checks of it on a call: its code lies in the text, its parameters in the
\* pool, each of a size, inside the frame and apart from the others, and the
\* frame is no larger than the program's; the descriptors share the pool out
\* among them (Linker.Link).
THEOREM DescriptorsAreAccepted == Spec => []DescriptorsAccepted
BY ProgramInductive, LinkedAccepted, PTL DEF Spec
=============================================================================
