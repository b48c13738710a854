# Cova: a formal model of the compiler, the linker and the virtual machine

Cova is a small C-like script language. `cova/` (Go) reads a script, optimizes
and compiles it to byte code, links that against tables of variables and
functions the host provides, and runs it in a virtual machine with fixed memory;
`source/main/cpp` holds a second machine, in C++. This directory models the Go
implementation in TLA+, checks the model with TLC and proves the most important
properties of the machine, its arithmetic, the lexer, the program compiler and
the linker with TLAPS. Paths below are relative to
`src/`, and a file without a directory is in `src/cova/`.

## 1. The system

| component | state it keeps | operations | what is hard about it |
|---|---|---|---|
| virtual machine, `vm.go`, `vm-status.go` | six memory segments, pc, call frames, frame top, fault record, dispatcher | load, reset, run, push/pop, bind extern memory, register dispatcher; 15 opcodes | the dispatcher re-enters the machine in the middle of a run; runs stop halfway; buffers are reused without clearing |
| memory, `segment-memory.go`, `program-memory.go` | byte arrays | bounded reads and writes, stack append and truncate | boundaries, addresses made by scripts |
| arithmetic, `vm.go` | none | integer and float operators, comparisons, conversions, built-ins | wrap-around, signs, shift counts |
| code memory, `code-memory.go` | byte array | append, patch, checked reads | operand positions, truncated text |
| lexer, `lex.go` | index, line, column, tokens | `Tokenize` | runes against bytes, longest match, three line ends, escapes |
| parser, `parse*.go`, `ast.go` | position in the tokens | text to trees, by precedence | precedence, dangling else, errors far from their cause, newline tokens that are skipped by looking |
| optimizer, `optimize.go` | scope stack | constant folding | folding in another type than execution |
| statement compiler, `compile.go` | code, slots and types of locals, scopes, control stack, patches | one method per statement and expression | jumps patched later, implicit conversions, frame layout, scopes that are copied and restored |
| program compiler, `compile.go` | symbol tables, DATA and CONST images, string pool, blocks | declarations, initializers, functions, reachability, assembly | offsets that move, call graphs with cycles, provisional function IDs |
| linker, `link.go` | none kept | capacity checks, descriptor table, parameter pool, call patches | indices into tables built while they are filled |
| program image, `image.go` | none kept | build, validate, open | validation against numbers of another unit |
| native VM, `source/main/cpp` | as the Go machine | as the Go machine | validates once, asserts afterwards |

The stages of the toolchain are called one after the other and share only the
values they pass on. The machine and the host share the machine's whole state:
while a script is in an extern call, the dispatcher may load, reset, run, push
and pop. There is one goroutine, so what interleaves is the interpreter loop
and the host, at extern calls.

What makes each part correct, in words:

- **VM**: buffers never overflow; constants stay constant; each call gets its
  arguments and a clean frame, leaves its callers' frames alone and returns
  behind the call; each run starts from the same memory; each run ends (when
  its loops do); a failed run names its failure and where it happened.
- **Arithmetic**: quotient and remainder fit together, shifts and bit
  operations agree with addition, widening loses nothing, comparisons are a
  total order.
- **Lexer**: nothing of a text is lost or read twice, each token is the longest
  there can be, at its true position.
- **Parser**: a program is read as it was written; nothing else is accepted;
  a refusal names the token that is wrong.
- **Optimizer**: folding changes no value, no call, no fault; it computes what
  the machine would.
- **Statement compiler**: every instruction finds operands of the kinds it pops;
  the compiled program does what the source means.
- **Program compiler and linker**: variables and strings do not overlap;
  initializers arrive in the linked program; exactly the reachable functions
  are kept; each call names its callee and each jump its target after two
  rewritings; descriptors pass the machine's checks; every stage ends.

## 2. Modules

| module | models | by |
|---|---|---|
| `CovaTypes` | kinds, sizes, opcodes, statuses, byte encoding | operators |
| `CovaMemory` | segments, addresses, bounds, stack operations | operators on byte sequences |
| `CovaArith`, `CovaArithLaws` | results of arithmetic, comparison, conversion, abs; their laws | sets of possible results; a one-step specification over all operands |
| `CovaVM` | the machine and its host | one action per opcode and per API method |
| `CovaVMProperties` | safety and liveness of the machine | invariants, action properties, fairness |
| `CovaAsm` | the emit helpers: widths, positions, text layout | operators |
| `CovaToolchain`, `CovaToolchainProperties` | `Compile`, `Link`, `BuildProgramImage` around the statement compiler | one action per iteration of each loop |
| `CovaAst` | types as objects, trees, symbol bindings | records |
| `CovaTyping` | `exprType`: the type of an expression | operators, for any context with `symbols` and `locals` |
| `CovaCompiler` | `functionCompiler`: every statement and expression | one operator per method, on a record of its fields |
| `CovaStackTyping` | the operand stack of compiled code, by kind | one action per way an instruction is left |
| `CovaMeaning` | what a source program means | an evaluator of trees: the reference |
| `CovaObserved` | a program as its host sees it: its extern calls, its end | the abstract specification |
| `CovaPipeline` | optimizer, compiler, linked layout, machine and host together | composition, implements `CovaObserved` |
| `CovaFoldingArith` | the numbers of the optimizer: kinds, literals, two literals folded | one operator per function |
| `CovaOptimizer`, `CovaFolding` | constant folding over trees; one expression before and after | one operator per function |
| `CovaParser` | the parser | one operator per method, on a record of its fields |
| `CovaGrammar` | the grammar of `docs/LANGUAGE.md`, and what differs from it | grammars as data, and their language |
| `CovaWriting`, `CovaParsing` | how a tree is written down; scripts that are written, changed and parsed | operators; a specification with one action per change |
| `CovaLexer`, `CovaLexing` | the loop of `Tokenize`; properties of its tokens | one action per case of the loop |
| `CovaWords` | what a division of a text into words is | the abstract specification, implemented by `CovaLexer` |
| `Cova*Proofs` | twenty-six theorems about machine, arithmetic, constant folding, lexer and toolchain (section 4) | TLAPS |
| `MC*` | programs, hosts, operands, texts for TLC | definitions |

`CovaVM` extends `CovaArith` and `CovaMemory`; `CovaToolchain` extends
`CovaMemory` and `CovaAsm`; `CovaCompiler` extends `CovaTyping` and `CovaAsm`;
`CovaPipeline` extends `CovaCompiler` and `CovaOptimizer` and has an instance
of `CovaVM`, so what it runs are the very actions that are proved about.
`CovaOptimizer` extends `CovaFoldingArith`, and so does `CovaArithLaws`, which
compares it with the machine. Modules that walk trees use RECURSIVE operators;
`CovaVM`, `CovaFoldingArith` and what they extend do not: powers of two and the
number made of a set of bits (`TwoTo`, `FromBitSet`) are recursive functions.

### The machine

A state of `CovaVM` is the `VM` struct field by field, with three additions:
`activations` is the stack of `RunLoaded` calls in progress, each holding the
local variable `program` of its loop; `inHost` says who has control; `status`
is what the last API call returned. `callFrames` is the used part of the array,
`instructionPC` is `NoPC` when `hasInstructionPC` is false.

`RunLoaded` is split where control can change hands or a property can look: the
entry (`Reset` and the local variable) is one step, each instruction is one
step with every pop, check, push and fault it makes, an extern call hands control
to the host and `DispatcherReturn` takes it back. An instruction that fails
leaves the machine as the code does at that point: operands popped, `pc` behind
the operand, a call frame already dropped. `Trap` is where the code calls
`setFault`, `Abort` where it calls `recordStatus`.

`MaxDepth` bounds nested `RunLoaded` calls; the code has no such bound but Go's
stack. `HostCalls` and `DispatcherCalls` say which API calls a host of a run
makes, `DispatcherSwallows` whether a dispatcher may return OK after one of its
own stack calls failed. They select hosts; they take nothing away from what a
call does.

Text is decoded: the instruction at each byte address, `Undefined` inside
operands (the linked programs of the runs have no jump into an operand).
Floating point is a choice among a few bit patterns; a float comparison may
answer either way. What is exact about floats is the control: which kinds an
opcode accepts, when division faults, what is popped and pushed.

### The program compiler and the linker

A `unit` is a parsed program: declarations, and functions with parameters,
locals and a body. `phase` and `at` walk the loops of `Compile` in their order;
`dfs` is the recursion of `markReachable`; `output` what
`assembleFunctionBlocks` has put together; `linked` and `result` what `Link` and
`BuildProgramImage` return. Bodies are sequences of calls (a pointer argument
is a string literal), an endless loop, a call of `acos`, and `return`: enough
for call patches, jump relocation, string interning and the epilogue test.
An error ends the unit (`Fail`), as the first error does in the code.

### The statement compiler

`CovaCompiler` translates `functionCompiler` method by method; its argument `fc`
is the receiver. Two things of it are kept as they are in Go because they show:
a type is an object with an identity (`SameObject`: promotion returns one of
its operands or a shared object), and the maps of a block's locals are copied
and restored, where the copy of an empty map is nil and a write to it a panic.
Jump operands count instructions; `CovaAsm`, in the toolchain model, has the
byte positions.

Its code is looked at twice. `CovaStackTyping` follows one function along
*every* branch, whatever the values, with kinds in the place of values: this
finds a wrong width on a path that few inputs take. `CovaPipeline` runs whole
programs in the machine against their meaning, with values: this finds wrong
targets, wrong order, wrong operands.

`CovaMeaning` evaluates the tree itself: no jumps, no stack, no offsets; a local
is a cell made by its declaration, `break` is a status, a condition is true when
its value in its own type is not zero, a call statement's value is dropped. An
implicit conversion is where the language has one (operands to the promoted
type or to the type that is wanted, results to the type that is wanted). The
host of `CovaPipeline` answers extern calls from a script of answers and takes
their arguments; `Outcome` and the calls it has been shown are the refinement
mapping into `CovaObserved`, whose steps are one extern call each, with its
arguments and the values of all globals at that moment, and the end. Where code
and meaning part (section 6), the units of the passing run leave the construct
out, and a run of its own has it: the value of a switch, which means its value
computed once, is free of side effects in the passing run; a call that stands as
a statement is of a void function; an integer operator is wanted in its own kind;
a condition is a truth value or a number that nothing is computed for.

### The optimizer

`CovaOptimizer` has every function of `optimize.go`. Numbers of a floating-point
kind are fixed-point multiples of 1/4 (`FloatUnit`), which the operators take
exactly; what matters is in which kind an operator is folded, when it is not,
and what counts as true or as a division by zero. What has no tree in it is in
`CovaFoldingArith`: `optimize.go` computes in 64 bits and cuts the result to the
kind, `vm.go` computes in the kind, and neither calls the other.
`FoldedAsComputed` says that they agree. An integer literal is an `int` of 64
bits, so above 2^63 a uint64 is kept as a negative number: the pattern is right,
the number is not. `CovaFolding` optimizes a program of one expression, the
initializer of a global if it is constant and otherwise what a function returns,
and compares it before and after by `CovaMeaning`; the units of `CovaPipeline`
that are `Optimized` are compared as whole programs. Their globals come with
their values: initializers are what `CovaToolchain` and `CovaFolding` are about.

### The parser

`CovaParser` is the parser over tokens: its record is the parser struct, `pos`
included, and `err` is the position of the token an error names (0 if there is
none); every method stops where the code's does. `CovaGrammar` is the grammar
of the language description as data, `AcceptedInstead` the rules in which the
parser's language differs from it, `Ends` the textbook definition of what a
grammar accepts. `CovaWriting` writes trees with as few parentheses as that
grammar allows: it knows precedence from the document, not from the parser.

### The lexer

`CovaLexer` has an action for every case of the loop of `Tokenize`, on a text of
bytes. Runes beyond ASCII have two bytes, the first of which says whether
`unicode` calls them a letter, a digit, a space or none of these; the others are
names of themselves. `CovaWords` says what a word is by what it is made of, and
divides the text by the longest; it knows nothing of scanning. The refinement
mapping forgets columns, lines and values, which `PositionsTrue` and
`StringsDecoded` are about. Operators and delimiters are sequences of bytes, and
so is what they are looked for in: only the kind of a token is a name.

A tab in a string literal may be escaped or stand for itself; `Spells` says
which byte of a value may be written in which way. `tokenizeOperator` is an
IF within an IF because the cases overlap (`<<=` begins with `<<`), as in the
code, where the first match returns.

## 3. Runs

| run | states | question |
|---|---|---|
| `vm_programs` | 51 k | calls, returns, arguments, frames, faults, termination: fifteen call programs; each of 47 instructions after each of five stacks, before each of six others; truncated text |
| `vm_host` | 404 k | loads, resets, runs, pushes and pops in any order, at top level and in the dispatcher, two runs deep; refused programs and images among them |
| `arith_laws` | 17 k | four laws over all operand pairs of four kinds; all of them folded as literals |
| `toolchain` | 42 k | 512 call graphs, 2,744 triples of declarations, twelve refused programs, from source to image; termination |
| `stack_typing` | 243 k | kinds on the stack along every branch of more than 12,000 functions |
| `compiled` | 61 k | programs of nested statements, of every operator, and with constants folded first, run against their meaning |
| `folding` | 16 k | constant and partly constant expressions in six kinds |
| `parser` | 44 k | texts continued word by word; programs read back; programs with one token changed |
| `lexer` | 123 k | all texts up to some length over twelve alphabets |
| `toolchain_documented` | violated | does what is linked become an image, without recursion, each block ending in a return? |
| `compiled_documented` | violated | does a unit with five constructs the passing run leaves out do what it means? |
| `stack_typing_nil_map` | violated | does the compiler ever panic? |

The last three check sentences of the repository that the code does not live up
to (and, in `compiled_documented`, one thing it does not settle); section 6 says
what they show. Deadlock is checked in the VM runs (a host
can always call again) and not in the others, which stop when their work is
done; that they do not stop before is `ToolchainEnds`, `Finishes` and the
liveness in `ImplementsMeaning`.

Each property has a mutant in the modules, beside the definition it changes
(`\* Mutant of ...`): a slip of the code that makes that property fail.

### Bounds, and why they are enough

- **Bytes** have four bits in the machine, toolchain and pipeline runs, three in
  `arith_laws`, two in `stack_typing`, where values do not matter
  (`BitsPerByte`). Widths in bytes, and with them alignment, stack heights and
  addresses, are those of the code. Every operator is defined by the modulus, so
  wrap-around, sign bits and shift widths occur as in the code, at values TLC
  can enumerate: all 8 × 8 operand pairs of one-byte kinds and all 64 × 64 of
  two-byte kinds.
- **Buffers** hold 5 to 9 bytes and two or three call frames in the VM runs. Each
  overflow is reached, and each buffer is also filled to its last byte. In the
  pipeline they are large enough for what the units need and no larger by much,
  so that what is left behind in a loop overflows.
- **Programs** of `vm_programs` for the call protocol have out-of-order
  parameter slots, nested calls over dirty frames, recursion with and without a
  frame, missing results, and descriptors the linker never makes but
  `LoadProgram` accepts; the others are all pairs of instructions.
- **Nesting** two deep: a nested run meets an outer run in the middle of a call
  and at top level, and the outer loop continues over what the inner one left.
- **Call graphs** of three functions have every shape a depth-first search can
  tell apart: diamonds, self loops, cycles of two and three, dead code with and
  without cycles. Triples of declarations put any kind and scope before and
  after any other.
- **Statements** are nested two constructs deep around two simple statements and
  followed by a third: a jump patched too early, too late or in the wrong frame
  of the control stack needs an inner and an outer construct and something
  behind them. **Expressions** in `stack_typing` take `+` and `==` over every pair
  of variables of the twelve kinds, two constants and four literals, and `-` and `~`
  of one over each, wanted in every kind. `< * && || !` take a selection of
  operands, leaves and calls, nested in each other and wanted in three kinds. Of the
  integer operators `%` takes all pairs of variables and `<<` all variables by a
  literal, wanted only in the kind they have, since in another they go wrong
  (section 6, 7). The operators that are left out (`/`, `<=`, `&`, ...) are compiled by
  the same branch as one of these. In `compiled`, `+ - * / < == >=` take all pairs
  of nine operands or ten, of one, two and four bytes from every segment, the six
  integer operators twelve pairs each, the ten compound assignments two.
- **Texts** continued word by word are up to 21 tokens long: each sketch begins where one
  construct does and goes on with all words of that construct, so every position
  of it meets every wrong word. The writings have every pair of operators on
  either side of each other and every statement in every other.
- **Texts** of the lexer are four to seven bytes over alphabets that put together
  the bytes one case of the loop distinguishes, and the ends of its neighbours.

### Fairness

`CovaVMProperties!FairSpec` has weak fairness of `Execute` (the loop of
`RunLoaded` never waits) and of `DispatcherReturns` (a host callback returns).
Nothing is assumed of the host outside a run. `RunsReturn` is therefore a
statement about programs whose own loops end; the endless loop of the language
is legal and simply runs. The specifications of the toolchain, the pipeline and
the lexer have weak fairness of `Next`: each is a single sequential program that
is never made to wait, the host of the pipeline included, which answers every
call at once.

## 4. Proofs

The theorems hold for every value of the constants that satisfies the named
assumptions: for the machine all programs, capacities, hosts, nesting depths and
byte widths; for the toolchain all programs (declarations, functions, bodies),
`Fuel` and capacities of the linker.

| theorem | property | meaning |
|---|---|---|
| `TypeCorrect` | `TypeOK` | every variable of the machine keeps its type |
| `WorkspaceSafe` | `WorkspaceRespected` | no buffer of the machine is exceeded; active frames stay in order |
| `ImageSafe` | `ProgramImageIntact` | CONST memory and segment sizes survive every run and every host call |
| `FreshStart` | `RunsStartFresh` | no run sees anything of an earlier one |
| `FramesApart` | `FramesIsolated` | no call or return changes a byte of a frame below; a callee finds zeros behind its parameters |
| `ArgumentsWhole` | `ArgumentsDelivered` | a script call moves its arguments into the parameter slots, whole and in order |
| `CallsChained` | `CallChain` | the call frames are the calls in progress, with their return kinds and sizes |
| `NeverWithoutFrame` | `NoLifecycleFault` | the interpreter never returns from, or addresses, a frame that is not there |
| `FaultRecent` | `FaultIsMostRecent` | the status a run returns is that of `FaultInfo` |
| `FaultNamed` | `FaultNamesInstruction` | `FaultInfo` names the instruction the run failed at |
| `StorageApart` | `StorageDisjoint` | variables and literals lie apart, aligned, inside their segments |
| `ReachabilityIsExact` | `ReachabilityExact` | exactly the functions `script_main` reaches are kept; a recursion is reported only for a cycle among them |
| `LinkResolves` | `LinkNeverUnresolved` | the linker finds a body for every call and for the entry |
| `CallsAreResolved` | `CallsReachTheirCallee` | every linked call leads to the code of what the source called, every jump stays in its block |
| `ExternReportIsExact` | `ExternUseReported` | the externals reported as used are those live code calls, each once |
| `DescriptorsAreAccepted` | `DescriptorsAccepted` | the machine accepts every descriptor the linker makes |
| `ValuesSurvive` | `InitializersSurvive` | every variable and literal arrives in the linked program with its value |
| `TokensInPlace` | `PositionsTrue` | every token and error of any text is on the line and at the column it says |
| `LiteralsDecoded` | `StringsDecoded` | every string literal stands for what its bytes say, and ends at its own quote |
| `TextDividedIntoWords` | `ImplementsWords` | the lexer implements `CovaWords`: longest words and gaps, nothing lost or read twice, nothing else refused |
| `DivisionIsTruncated` | `QuotientAndRemainder` | quotient and remainder fit together, whatever the signs; one division wraps |
| `WideningLosesNothing` | `WideningIsFaithful` | a wider kind keeps every number and comparison, and gives the bits back |
| `BitwiseAddsUp` | `BitwiseLaws` | `and` and `or` add up to the operands, `xor` is their difference |
| `ShiftsGoByOne` | `ShiftsStepByStep` | a shift is that many shifts by one, the count taken modulo the width |
| `FoldsLikeTheMachine` | `FoldedAsComputed` | folding integer literals gives what the machine computes, and refuses what faults there |
| `ComparisonsAreAnOrder` | `ComparisonsAgree` (in no run) | the comparisons are one total order, which subtraction agrees with |

| module | holds |
|---|---|
| `CovaDataProofs` | bytes, values, segments, `alignUp`; sequences, least members, `FlattenSeq` |
| `CovaVMProofs` | `IInv` and the first three theorems; fresh starts, frames, the call chain, faults, the arguments of a call |
| `CovaLayoutProofs` | `LayoutInv`: declarations, initializers, literals; least closed sets; `TableInv`, `BlocksInv`; the invariant of the search |
| `CovaLinkProofs` | what the search and the assembly come to, descriptors and parameter pool |
| `CovaProgramProofs` | the text: blocks, their places in it, patches; the contents of DATA and CONST: digits and addresses, `ImageInv` |
| `CovaLexingProofs` | where the functions of the lexer stop; `LexInv`; what the bytes of a literal stand for |
| `CovaWordsProofs` | longest words, gaps and their ends; one lemma per action of the lexer; the refinement |
| `CovaArithProofs` | bit patterns and the numbers that fit them; division, comparison, conversion; powers of two, bits, shifts; folding |

### The machine

The inductive invariant is

    IInv == TypeOK /\ Running /\ WorkspaceRespected /\ ProgramImageIntact

`Running` (the loop has control only inside a run, and a run has a program) is
not one of the properties but is needed: without it the loop's program and the
callee's function table could be those of no program. `WorkspaceRespected` needs
the order of the frames, not only the sizes: a return restores `frameTop` from
the frame it drops, and that this is not above the capacity, and not below the
frames that stay, follows from the order. `ProgramImageIntact` needs the sizes
of BSS and DATA because a store must preserve them.

The argument: lemmas about the operators first (`EncodeType`, `DropType`,
`WriteType`, ... : what an operator on byte sequences returns, and its length);
then one lemma per way an instruction can end (`StopStep`, `ContinueStep`,
`PushStep`, `MemoryStep`), which is where the invariant is re-established; then
one lemma per opcode and per API call, which only shows that its pushes fit and
cites those. `Next` is a case split over these.

The action properties follow from `IInv` step by step. `RunsStartFresh` needs in
addition `Accepted`, that a program which is loaded was checked, for then `Reset`
finds its images of the sizes it copies. `ArgumentsDelivered` is about a loop from
the last parameter down: that a slot written early is not overwritten later is
where the descriptor's slots being apart is used, and that it takes exactly the
argument bytes off the stack is a sum over the parameters
(`SumFunctionOnSet`).

Four theorems have hypotheses about the host, the same as in the property's
comment. `StackApi` (a dispatcher pushes, pops and rebinds, and does not start a
run) is what makes call frames a chain: a nested run drops the frames of the
outer one, and the outer loop continues without. Then

    RunInv == SingleRun /\ CallChain /\ NoLifecycleFault

is inductive relative to `IInv`: `Chain` says of each frame but the first that it
returns behind a `Call` of the function it runs, so an arbitrary jump cannot
break it. `FaultInv` relates fault, `pc` and `instructionPC` while a dispatcher
runs; it needs that the dispatcher does not swallow a failure (section 6, "Stale
fault").

The assumptions are the shapes of the constants (`ByteAssumption`,
`FloatBitsAssumption`, `ProgramsAssumption`, `CapacityAssumption`,
`HostAssumption`); each run of the machine evaluates them. Nothing is assumed of
the text: any instruction at any address, jumps anywhere, any descriptor.

### The toolchain

`UnitsAssumption` gives the programs their shape (a kind is a kind, a body is a
sequence of statements); nothing is assumed of
names, order, sizes, values, or who calls whom. Duplicates, unknown callees and a missing
`script_main` are met on the way and end in `Fail`, as in the code. The
invariants build on each other:

1. `LayoutInv`. `Laid(list, size)`: offsets ascend, are aligned, and the last end
   is the segment's size. CONST holds variables *and* literals, which alternate:
   `Placed` says the same of the literals, `Apart` that the two do not meet,
   and each step shows that it only appends (`Grown`). A literal interned while a
   body is compiled is a step of the same kind, so `StorageDisjoint` holds behind
   any statement. `DistinctVariables` and `VariablesRegistered` connect a
   declaration with the one symbol it became.
2. `TableInv` and `BlocksInv`. Which entry of the function table has which id:
   externals first, then script functions in source order; a block's calls are
   those of its function's body, as ids.
3. `MarkInv`, the depth-first search. The stack is a path along calls of
   functions that are `Visiting`, and all `Visiting` ones are on it (`IsMarking`);
   everything called so far by a function on the stack is `Visited`, or is the next one up;
   the visited set is closed under calls; and what is not `Unvisited` is reached
   from the entry. When the stack is empty the visited set is closed, contains the
   entry and has only what is reached: it is the least closed set, which is
   what `ReachedFrom`, an iteration as long as there are functions, computes
   (`MarksExact`). That the iteration is closed by then is a lemma about sizes of
   finite sets.
   `RecursionInv`: when the search meets a `Visiting` function, the part of
   the stack from there up is a cycle; `MarkedInv` has the converse, that a
   search that ended saw no cycle: there is no function that reaches itself,
   because the visited ones were finished before their callers.
4. `AssembleInv` over the loop of `assembleFunctionBlocks`, `AssembledInv` behind
   it, `LinkedInv` for what `Link` returns. A retained call's id has a body
   since the visited set is closed. Descriptors take their parameters from
   pools that are concatenations (`FlattenSeq`): where the k-th list starts in
   them, and that two pools of the same lengths are cut at the same places, are the
   lemmas `FlattenPlaces` and `FlattenAlike`.
5. `CodedInv`: in each block the call patches are exactly at the calls and the jump
   patches exactly at the jumps, whose targets are in the block. Every statement
   appends such a piece of code (`CodedStep`), the epilogue too.
   `PlacementInv`: behind k blocks of the loop, the text is the kept ones one
   behind the other, block i at `Start(i)`, its jumps moved by that much, its
   calls still to be patched; a retained function has the address of its block.
   Then the linker's patches, exactly at the calls, put there the index of the
   descriptor whose body is the callee's block, and leave everything else.
6. `ImageInv`: a registered variable of DATA or CONST reads as zero until
   `initializeGlobal` has reached its declaration, and as the encoding of its
   initializer from then on, in the images as they are at that step. What comes
   later either appends (a variable, a literal) or writes the bytes of another
   variable, which `LayoutInv` has shown to lie elsewhere. The bits of a string
   are the address its literal has *at this moment* in `literals`; that later
   literals do not move it is part of the step (`GrownKeeps`). Reading back is
   arithmetic: `DivisionUnique` and `NextDigit` make `DecodeEncode`, that the bytes
   of a number have its value modulo their width, and `AddressSurvives`, that
   an address keeps its segment and its offset.

`ValuesSurvive` has two hypotheses, both about the room in an address:
`ByteBase > segmentConst`, that a byte can hold the number of the segment (256
values in the code, 16 in the run), and, per state, that CONST is not larger
than the 24 bits for the offset count. The compiler does not check the second
(section 6, "CONST beyond 24 bits").

`CallsReachTheirCallee` is stated over source blocks and linked text alone; the
ids in between, which it leaves out, are what 2 to 5 keep track of.

### The lexer

`RuneAssumption` says that a rune is one of letter, digit and space at most and
that its bytes are no ASCII characters, `TextsAssumption` that a text is a sequence
of bytes; every text of every length is meant.

    LexInv == LexType /\ PositionTrue(text, tokens, index, line, column) /\ PositionsTrue

The middle part says of the byte that is read next what `PositionsTrue` says of
the tokens: without it nothing is known of the line and column that the next
token is given. `PositionTrue` counts line ends and runes *before* a position, in
the whole text; the code counts them as it goes. The two agree because of what
each function of the lexer passes over: `IdentifierEndIs`, `NumeralEndIs`,
`StringStopIs`, ... say where it stops and what lies before, `NumeralHas` and its
like that this is no line end and, but in words, strings and comments, no rune
of two bytes. A step is then `MoveOn` (on the same line), `MoveToLine` (behind
one line end) or `MoveOverLines` (a comment, whose last line end decides the
column). `LexType` has that tokens end where reading is (`EndBefore`): a later word
cannot cover a rune of an earlier one, so a true column stays true
(`KeepsPosition`).

For the literals, two recursive functions have to be known first. `Escaped`, which
bytes a backslash escapes, and `decoded`, the value up to each byte, are given by
CHOOSE; that they exist (`StepsExist`, by least elements) and, for the value, that
there is only one (`DecodedUnique`) makes them equal to what the code computes.
Then `DecodedSpells`, an induction over the bytes: what has been read, but for a
backslash whose byte is still to come, is spelled by what it stands for
(`SpelledTo`). The literal stops at a quote that is not escaped, so no such
backslash is left over.

`TextDividedIntoWords` is the refinement. Each action is a step of `CovaWords`
(`WordsStep` cites one lemma per action), the last token, which has no bytes, a
stutter. The invariant it needs is `LexType`. `ReadsWord`, `PassesGap` and
`RefusesText` reduce a step to what it must be shown to find: that the piece of
text from `index` is a word (or a gap), and that *no longer piece is one*.
The second half is the work, for the lexer only ever looks ahead and `CovaWords`
compares all pieces:

- by the first rune it is settled which kinds of word there can be (`KindsHere`,
  `NoGapHere`), since the classes of runes have no byte in common that begins one
  (`BytesApart`, `ClassesApart`);
- symbols are tried by length, longest first (`LongestSymbol`);
- an identifier goes on while runes may be in one, and a rune of two bytes is not
  cut (`IdentifierIs`, `IdentifierLongest`);
- a literal is one exactly if it ends at the first quote that is not escaped
  (`LiteralIs`); that escapes count alike in the text and in the literal, which
  begins with a quote, is `EscapedAlike`;
- a comment has one closing, its first (`ClosingsIn`);
- a numeral can be divided in one way only. `NumeralPartsAre` turns the division,
  a sequence of four sequences, into positions in the text; `NumeralReaches` says
  of each part of *any* numeral from here that it ends where the lexer's scan of
  that part does, or that the numeral ends before (`Reaches`): hence the longest,
  and its kind. Where the lexer refuses, the longest numeral is an integer too large,
  or goes on with a point or an `e` that would have to be ended (`RefusesNumeral`).

### Arithmetic

`LawInv` says that operands are patterns of their kind and `results` is what the
operators give. `Fits(kind, v)` is the range of a kind, and two lemmas tie it to
patterns: `ValueFits` (reading gives a number that fits) and `FitsBack` (a number
that fits is read back). Then each law is about integers: `TruncationIs` for
division, whose quotient leaves the range in exactly one case; `FitsWider`, since the
modulus of a wider kind is the square (`ModulusSquares`); and for the comparisons that
the difference of two numbers that fit is smaller than the modulus. That a wider
kind of an integer kind is an integer kind (`LawsAssumption`) is needed: the size
alone would admit `Address`.

Bits and shifts need powers of two. `TwoTo` and `FromBitSet` are functions on
0 .. k made anew for each k; that they exist (`PowerExists`, `SumExists`) and that
those for k and for k + 1 agree where both are defined (`PowersAre`, `SumsAre`) gives
the equations in which they are used: `TwoTo(k + 1)` is twice `TwoTo(k)`, and
`FromBitSet(S, k + 1)` has bit k more. Both are inductions on k up to a bound, which
`SetInduction` does with a set in the place of the predicate. From there
`BitsAddUp` is an induction over places, with one case for each of what the two
operands have there. `TwiceDivided` says what dividing by 2p does after dividing
by p: one more place read (`BitsOfNumber`: a pattern is made of its bits) and one
more halving (`HalvedIs`). A left shift is in closed form the digits below
`width - i`, worth 2^i each (`ShiftedLeft`); `ShiftedOnce` shows that adding it to
itself gives the next one, the machine's addition being of signed numbers.

`FoldsAsComputed` compares the two implementations operator by operator. They
differ in what they shift left, the number or its pattern, which agree in the
digits that stay (`SignKeepsDigits`). `ArithmeticStays` and `LiteralReadBack` say
that each result is a pattern of its kind, and that the literal made of it is
read as that pattern again.

### Model-checked only, and why

- liveness (`RunsReturn`, `ToolchainEnds`, `Finishes`, and that of
  `ImplementsMeaning`): the prover does not handle fairness and ENABLED;
- what is stated of the statement compiler, of the optimizer on trees, of the
  parser and of `CovaMeaning`: they walk trees by RECURSIVE operators, and statements about
  all trees are inductions over data.

## 5. What is not modelled

- **Native C++ machine**: it has the control of `vm.go` with assertions where
  that has faults; what it does to a program that would fault is undefined, and
  for the others it would be `CovaVM` again.
- **Command line tool and build packaging**: file I/O around the calls modelled.
- **The bytes of an image**: written by a library from struct tags. Images that
  do not decode or validate are modelled by the statuses `OpenProgramImage` can
  return.
- **Packing of an instruction into 16 bits**: fields are kept apart; the one
  place where the packing matters (`compileFunction`'s epilogue) is modelled by
  which instruction has the critical upper byte.
- **Floating point**: a choice of results in the machine, typed but not computed
  in the pipeline, fixed-point in the optimizer. Literals out of range, NaN and
  infinities are left out. **64-bit kinds** are typed (`stack_typing`) but not
  computed: four bytes are the widest of the pipeline.
- **Lexer**: runes of more than two bytes, the values of floating-point literals
  and their being out of range; the largest integer is 119 (`MaxInteger`). Bytes
  beyond ASCII in a string literal are kept by name: the code turns each into a
  rune of its own and encodes it again.
- **Parser and compiler**: line numbers in nodes, wording of errors; the tables
  only a debugger reads.
- **Limits near 2^32** on text, addresses and indices, negative linker
  capacities, nil programs other than to `LoadProgram`, `Linker.Report`.
- **Target, Required and Available** of `VMFaultInfo`.
- **Typed accessors of `ProgramMemory`** (`ReadFloat32`, ...), which the machine
  does not use.

## 6. Where code and documentation part

### Shown by a run

The last state of each counterexample shows all of its points at once.

`toolchain_documented`, property `LinkedAsDocumented`:

1. **Image refused** (`image.go:146`). `ParamStart + ParamCount`, an index into
   the parameter pool of the whole program, is compared with `FrameSize`, the
   slots of the largest function. Two functions with two and one parameters are
   enough.
2. **Unreachable recursion** (`compile.go:191`). A cycle that `script_main` does
   not reach is accepted, as a test of the compiler wants; `README.md:32` and
   `docs/LANGUAGE.md:680` say cycles are rejected.
3. **Missing return** (`compile.go:499`). The epilogue test compares the last
   byte of the code with `OpRet`, but that byte is the upper half of the last
   instruction. `acos(x);` as last statement has upper byte 13 = `OpRet`; the
   function gets no return and runs into the next one. For the same reason every
   `return` at the end of a body is followed by a second one, which is harmless.

`compiled_documented`, property `AsMeant`:

4. **A number as a condition** (`compile.go:1120`, `:653`). The condition is
   wanted as a bool, and an arithmetic operator hands that down to its operands:
   in `if (d - 4)` both sides are turned into 0 or 1 before they are subtracted.
   `docs/LANGUAGE.md:641` has such a condition.
5. **A local in a loop** (`compile.go:1232`). Without an initializer no code is
   emitted: the local keeps the value of the last iteration.
   `docs/LANGUAGE.md:247` promises zero.
6. **A call as a statement** (`compile.go:1180`). The result of a non-void
   function stays on the operand stack, and is taken for an operand of the
   caller's expression.
7. **Integer operators** (`compile.go:675`). The result of `% & | ^ << >>` is
   not converted to the type that is wanted: the next instruction takes as many
   bytes as that type has. The same holds of `w |= d` with an int32 `w` and a
   uint8 `d`, whose promoted type is uint8.

8. **Switch** (`compile.go:1376`). The value of a switch is compiled again in
   front of each case's value, and not at all if there is only a default. The
   switch on the call `next()` in the unit of the run calls it three times (`n`
   is 3 and 1 is meant). The language description does not say how often a switch computes its
   value; it calls the language C-like (`docs/LANGUAGE.md:5`), and in C it does so once.
   A departure from C, then, and from `CovaMeaning`, not from a sentence of the
   documentation: it is not listed as a finding.

`stack_typing_nil_map`, property `NeverPanics`:

9. **Nil map** (`compile.go:92`). A block that ends before the first local or
   parameter of its function is declared restores a nil map; declaring the local
   panics.

### Parser: documented grammar and accepted language

`AcceptsTheLanguage` checks that the parser accepts exactly `AcceptedGrammar`,
so that each rule of `AcceptedInstead` is a departure from the grammar of
`docs/LANGUAGE.md`, and there is no other within the bounds:

- `-f()` is refused: the operand of a unary operator is parsed without what
  follows it (`parse_expr.go:69`); calls should bind highest (`:475`);
- `(f)()` and `(a) = 1;` are accepted;
- a switch takes its clauses in any order and several defaults, the last of
  which replaces the others without a word (`parse_stmt.go:267`; `:101`);
- `float` is the type float32 (`parse_core.go:165`; `:316` says it is none);
- `extern(7) int const g;` is accepted, const and all (`parse_top_level.go:48`;
  `:212`), and the position of an extern must be an integer;
- a variable is not of type void; a local has one leading `const` at most.

### Found on the way, not shown by a run

- **Stale fault** (`vm.go:580`). `recordStatus` fills `FaultInfo` only when it is
  clear. A dispatcher pops from an empty stack, is told so, and returns OK; the
  run goes on, fails in another instruction, and `FaultInfo` still names the
  pop. `vm-status.go:87` promises the most recent fault. `FaultIsMostRecent`
  fails when `DispatcherSwallows` is TRUE and holds when it is FALSE.
- **Folding**: the operands of `&&` and `||` are folded as int32, so `0.5f && 1`
  becomes false (`optimize.go:243`); the arguments of a built-in are folded
  without a type, so `sqrt(1 / 2)` becomes `sqrt(0)` (`optimize.go:180`);
  `-1 / 0` is not reported (`optimize.go:219`), since `-1` is not a literal.
  `MCFolding` leaves these expressions out.
- **Order of truth values**: `flag < flag` compiles and is refused when it is run
  (`vm.go:1011`).
- **CONST beyond 24 bits** (`segment-memory.go:12`). `makeAddress` masks the
  offset, and `compile.go:925` passes on what it returns: when literals and
  constants are more than 16 MiB, the address a variable is initialized with is
  that of other bytes. `ValuesSurvive` could not be proved without its hypothesis.
- **PC of a host failure** (`vm.go:671`): it is read after the dispatcher
  returned, when a nested run may have moved or cleared it. What `FaultInfo`
  should say then is nowhere stated.

## 7. Plan

Every part of the Go implementation but the command line tool is modelled, and
every invariant and action property whose model walks no tree is proved. What
remains are statements about all trees: the statement compiler, the optimizer on
trees and the parser, whose proofs would be inductions over data.
