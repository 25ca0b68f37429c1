# A verification project for evmlir

TLA+ modules, TLC runs and TLAPS proofs about the translation of MLIR
functions to EVM bytecode: `src/lib/evmlir/Translation`, and the bridge to
revm in `src/revm-bridge` that deploys and calls the bytecode.

## 1. The system

The dialect (`evm`) describes EVM operations in MLIR. The translation takes a
module of functions in `func`, `cf`, `arith` and `evm` and produces two byte
strings, the runtime code of a contract and the code that deploys it.

| Part | State it keeps | Operations | Talks to |
|---|---|---|---|
| `LivenessInfo` | use counts; MLIR's liveness | `getLiveIn`, `getLiveOut`, `getUseCount`, `isDeadAfter` | asked by graph, allocator, emitter |
| `InterferenceGraph` | adjacency map | constructor (backward scan), `neighbors`, `removeNode`, `useCount`, `getValues` | emptied by the allocator |
| `EVMCostModel` | gas table (a reference) | `recomputeCost`, `spillMemoryCost` | asked by the allocator |
| `MemoryAllocator` | next offset, free list | `allocate`, `free`, `hasFreeSlots`, `expansionCost` | owned by the allocator |
| `StackAllocator` | removal stack, neighbour snapshots, locations | `run` | gives the layout to the emitter |
| `BytecodeStream` | instructions, label counter | `emit`, `emitPush`, `createLabel`, `emitJumpTarget`, `defineLabel`, `finalize` | written by dispatcher and emitter |
| `BinarySearchDispatcher` | none | `emitSelectorLoad`, `emit` | called by `emitRuntime` |
| `StackTracker` | values believed to be on the stack | `push`, `pop`, `findDepth`, `dup`, `reset` | owned by the emitter |
| `EVMEmitter` | block labels, tracker | `emitModule` and all it calls | reads layout and liveness |
| `OpcodeMapper`, Osaka table | none | `getOpcode`, gas per opcode | emitter, cost model |
| dialect operations (`EVMOps`) | none | `getEffects`: what each operation reads and writes | MLIR's passes (CSE), cost model |
| revm bridge | database, deployed address | `revm_new`, `revm_deploy`, `revm_call`, `revm_free` | runs what the emitter produced |

Nothing here is concurrent and nothing is persisted. What is hard is of another
kind: facts established in one phase and relied on in another (a degree tested
at removal bounds a colour chosen later; a snapshot stands for a graph that is
empty by then; a record of the stack stands for the stack of a machine that
does not exist yet), orders of operands that no type checks, boundaries,
iteration orders that C++ leaves open, and code whose every path is taken only
at run time. `PROJECT.json` lists these hazards line by line.

What makes each part correct:

* liveness and graph: two values that are live together are neighbours, and
  neighbours have a reason to be; the scan's live set is the real one;
* cost model: a cost is exact and below the cost of a memory word;
* allocator: interfering values have different places, in reach, for good;
  no word of memory serves two values; a value leaves the stack only when too
  many are live; the loops end;
* stream: the bytes read back as the instructions emitted, labels resolved;
* contract: deployment installs the runtime code; control enters a function
  only for its selector, with its arguments in order; nothing traps unasked;
  a call is answered as the function is written, or turned away;
* dialect: what MLIR and the cost model conclude from the declared effects is
  true of the EVM: a merged or recomputed result is the one the operation
  would give;
* functions: the tracker describes the real stack; operands are where the
  instruction takes them from; the values returned are the function's.

## 2. The modules

Allocation:

* `ValueLocation` – the variant of the three locations.
* `MemoryAllocator`, `InterferenceGraph` – the two classes as operators over a
  value; `removeNode` keeps the insertion of `operator[]`.
* `LocationAssignment` – the abstract specification: values are given
  locations one by one, once, apart from their neighbours'.
* `StackAllocator` – `run()`. One iteration of a loop is one action:
  `RemoveLowDegree`, `SpillToMemory`, `SpillToRecompute` in the first loop,
  `SkipAssigned`, `SelectColor` in the second. Where the code takes the first
  element of a `DenseMap`, the model takes any. `EVMCostModel` holds a
  reference to a constructor parameter that no longer exists when it is read,
  so both outcomes of the comparison are allowed for a recomputable value.
* `LivenessInfo` – the queries, with MLIR's fixpoint behind them (external);
  `LivenessReference` – liveness along paths, its reference definition, and
  what a function in SSA form whose uses are dominated is.
* `InterferenceBuilder` – the constructor of the graph, one action for each
  operation and block argument.
* `AllocationPipeline` – builder and allocator one after the other, as
  `runAllocation()` in the tests uses them. The builder's finished graph
  becomes one of the allocator's inputs; `Problems`, the inputs it may be
  given, are all symmetric graphs without loops over the values.
* `OsakaSpec`, `OpcodeMapper`, `EVMCostModel` – the gas table section by
  section, `getOpcode()` with the cases that look at operands (`ISZERO`,
  `NOT`), and `recomputeCost()`; `CostModel` asks about any value of any
  function, under any stack and memory.

Dialect:

* `EVMOps` – the effects that the operations declare.
* `DialectExecution` – one block executed twice in lock step, as it was
  written and as the CSE pass that `evmlir-opt` registers leaves it. The pass
  (external) uses nothing but the declared effects; the state of the EVM is
  cut into parts, and which operation uses or changes which part is stated
  independently of what it declares.

Code generation:

* `Opcode`, `BytecodeStream`, `BytecodeWriter` – the stream as a record and
  its operations, and a writer that calls them in any order.
* `BinarySearchDispatcher` – the dispatch tree as the code emits it.
* `StackTracker`, `FunctionEmitter` – the tracker and the emission of every
  kind of operation. What the emitter changes (stream, tracker, and whether
  `pop()` was called on an empty tracker) is one record that the operators
  pass on in the order of the code.
* `EVMEmitter` – module verification, runtime code, deployment code.
* `FunctionExecution` – emission as a machine: one action for a block's label
  and one for each operation; then the execution of the result.
* `ContractExecution` – the bridge's operations, each over code produced by
  `EVMEmitter` and executed byte by byte.
* `ContractService` – the abstract specification of the bridge: requests are
  answered one at a time by a contract as it was written, or turned away, and
  a deployment that fails changes nothing.

External, modelled from what the code asks of it: `EVMCode` and `EVM` read and
execute bytes; `StackMachine` executes the instructions of a stream on symbolic
words, so that two results are equal only if they were computed alike. A `PUSH`
opcode that is emitted by itself, without the bytes it takes, makes the EVM take
the instructions that follow for its operand: `StackMachine` goes as far as the
code before the first of these, and has the outcome "unknown" then.

The `…Proofs` modules hold theorems (section 5), the `MC…` modules the
instances. Definitions called "Variant of …" are plausible mistakes in the
definition they name; the project's mutation runs put them in its place and
expect the property to fail.

## 3. The runs

| Run | What it shows | Bounds, and why they suffice |
|---|---|---|
| `stack_allocator` (143,299 states) | types, colouring, reach, distinct words, exact snapshots, completeness, words per spill, spilling only in a dense core and under pressure; locations are final, freed words stay free, `run()` ends, `LocationAssignment` is implemented | all chordal graphs of four values with use counts in order and all equal, three recomputable sets, and nothing, something or everything dead; all chordal graphs of five values, where two values are spilled one after the other. `StackReach` is 2 instead of 16: a triangle already forces a spill. The proofs cover all graphs and reaches |
| `interference_builder` (18,480) | the scan's live set is exact at each place; edges are complete and justified; the graph is symmetric, has no isolated node, and is chordal | straight lines with operations of two results, diamonds that pass arguments, loops with two arguments |
| `allocation_pipeline` (101,508) | values that are live together are apart, and those without a location are never live beside another; live values fit the stack | straight lines, diamonds and loops of five values, `StackReach` 2, so that all three locations occur |
| `cost_model` (36,864) | the cost is that of the tree of operations, given exactly when it is feasible and cheaper than a word, whose price is estimated within one unit of gas | chains of seven values, longer than `MAX_DEPTH`, with shared operands, operations that may not run again and a dear one; empty memories, memories where the estimate is off and memories where a word is dear, with and without a free word |
| `dialect_execution` (110,584) | a merged or recomputed result is the one the operation would give, and what remains sees the same state | each pair of operations of which the first declares no write and the second neither ends the execution nor calls; for the operations that change everything, a first operation for every part; both contents of each part; repeated in any order |
| `bytecode_writer` (157,891) | an EVM reading the bytes finds the instructions; no leading zeros; labels are created before they are used | five instructions, two labels, values of zero to three bytes that look like opcodes |
| `contract_execution` (35 thousand) | nothing traps but `evm.invalid`; the installed code is the emitted runtime code; no misdirected call; arguments in order; `ContractService` is implemented, with every request answered | every subset of four entries after an internal function, with no, a usable or an unusable fallback; four constructors, one of two blocks; two functions with one selector, alone and below a larger one, in either order |
| `function_execution` (535,676) | bytes are missing only where a constant is recomputed; the tracker is as long as the stack, also after calls and returns; in-place programs go right | ten families of programs of up to eight values with every choice of operands, below |
| `spill_heuristic`, `dispatch`, `operand_order`, `msize` | the findings of section 4 | |

The families of `function_execution`: one block of operations of one to three
operands; two blocks; a caller and a callee that ignores what it is given; a
conditional; operations without results, and every way to end an execution;
values passed to a block with one predecessor, to one with two, and to one or
both outcomes of a condition; comparisons, with and without a zero, and
exclusive or, with and without all ones; chains of operations some of which
are recomputed. Straight lines, calls and conditionals are also run with one
value spilled or recomputed.

`contract_execution` and `function_execution` complement each other: the first
runs real bytes with labels as addresses, the second any operands on symbolic
words. `bytecode_writer` justifies the second one's use of instructions in
place of bytes, as far as no `PUSH` opcode is emitted by itself: `RoundTrip` is
about streams without one, and `CodeRead` says of which instructions that is so.

Deadlock is checked in all runs but `bytecode_writer`, where the stream is
full at the bound. Finished computations stutter explicitly (`Returned`,
`Finished`, `Over`).

Fairness. `StackAllocator` and `InterferenceBuilder` assume weak fairness of
the whole next-state relation: a sequential function that can take a step
takes one. `Terminates` is thus about the loops themselves. `ContractExecution`
assumes weak fairness of the EVM's steps and of the return of a call: the
bridge's calls are synchronous, and run the EVM to its end. Nothing obliges a
user to call. Under this, `ContractService` has every request answered.

Named bounds and abstractions: words are naturals below 2^24 where bytes
matter; offsets are naturals where the code has `uint32_t`; labels have 16
bits, code stays far below 64 KiB; gas and the stack limit of 1024 are left
out; blocks are numbered in reverse post-order; modules are not empty.

`InPlaceIsCorrect` needs its premise: the emitter is right for some programs
only (section 4). The premise names them. Operands that are used for the last
time lie on top of the stack, the last operand lowest, and the other operands
lie below them; each block uses what it computes or is passed, and a block
with arguments is emitted right after one that passes them; the arguments of a
branch lie on top, and below the condition, which is used for the last time;
an internal function leaves nothing but its result.

## 4. Findings

* `spill_heuristic` – `spill_cost()` divides integers. In the function of the
  test `SpillCostHeuristic_LowUsageSpilledFirst` every cost is 0, and the order
  of a `DenseMap` decides; the outcome the test forbids is possible.
* `dispatch` – `LT` finds the pivot on top, so a selector equal to the pivot
  goes to the half without it. With two or more entries only the smallest
  selector is sure to be answered; what remains true is `AnswersOf` in
  `ContractExecution`, which `ContractService` is instantiated with.
* `operand_order` – an operand used for the last time is left where it lies.
  Operands computed in order therefore reach the instruction in reverse: the
  dialect's own example `exp.mlir` computes 10^2.
* `msize` – `evm.msize` declares a read of the memory, and `evm.mload`, which
  may grow the memory, declares no write. CSE gives an `evm.msize` after an
  `evm.mload` the result of an earlier one.

Two further configurations are not among the runs, and show smaller
disagreements of the same kind; `tlc` finds each violated:

* `SpilledResult.cfg` – the result of a spilled operation is stored with `SWAP1`
  before `MSTORE`, which takes the value for the address.
* `RecomputedConstant.cfg` – a constant that is computed again has the opcode
  `PUSH32` (`OpcodeMapper.cpp:12`; zero has `PUSH0`), and `emitRecompute()` emits
  that opcode by itself (`EVMEmitter.cpp:250`), while a constant that is emitted
  where it stands goes through `emitPush()` with its value. No bytes of the
  constant are written, and an EVM takes the 32 bytes that follow for them, or
  pads with zeros and stops at the end of the code. The property is `CodeRead`:
  the EVM finds all of the code as it was written.

An operation without an opcode, `evm.inline_bytecode` among them, is dropped
without an error (`EVMEmitter.cpp:190`).

## 5. The proofs

`StackAllocatorProofs` proves, for every set of values, every `StackReach` up
to 256, every set of problems and every order of removal:

* `TypeCorrect`, `ColoringCorrect`, `ColorsReachable`, `SlotsDistinct`,
  `SnapshotsExact`, `NothingIsLost`, `SpillsJustified`, `MemoryPerSpill`:
  the invariants of the run `stack_allocator`;
* `LocationsStay`, `FreedWordsStayFree`: action properties;
* `Refinement`: `Spec => Alloc!SafeSpec`, the safety part of
  `LocationAssignment`.

* `SpillsUnderPressure`: a value leaves the stack only when more than
  `StackReach` values are live together. A spill happens in a set of values
  each of which has `StackReach` neighbours in the set; in a chordal graph some
  member of the set has neighbours that are neighbours of each other, and with
  them makes a clique that is too large.

The assumptions are those on the constants: the reach fits a `uint8_t`, the
values are finitely many, and each problem is a symmetric graph without loops
(which `InterferenceBuilderProofs` shows of the graphs that are built).

None of the properties is inductive alone. A colour is within reach only
because the snapshot is small, which is a fact about the moment of removal;
interfering values get different colours only because the snapshot names
exactly those neighbours that are popped first. The invariant `IInv` adds

* `GraphInv` – what is left of the graph is the subgraph induced by the values
  not yet removed; none of them has a location; no word is free before the
  first loop is over;
* `StackInv` – a value is pushed once, and its snapshot is its neighbourhood
  without what lies below it on the stack;
* `DegreeInv` – a value on the stack without location has a small snapshot;
* `PlacedInv` – coloured values have left the stack and none is lost;
* `OffsetInv` – words handed out lie below the high-water mark.

There is one lemma for each action (`RemoveLowDegreeInv`, `SpillToMemoryInv`,
`SpillToRecomputeInv`, `SkipAssignedInv`, `SelectColorInv`), resting on
lemmas about `removeNode`, about the lowest free colour (a pigeonhole
argument), and about popping. That freed words are never reused, which makes
the repeated `free()` harmless, follows from `GraphInv`: memory is allocated
in the first loop only, and freed in the second only.

`InterferenceBuilderProofs` first proves that MLIR's backward propagation
(`LivenessInfo`) and liveness along paths (`LivenessReference`) are the same
for every function in SSA form in which every block is reached and every use is
dominated by its definition (`LivenessExact`), and that of two values that are live together
one is live where the other is defined (`DefinitionsReach`). Both definitions
are least fixed points, computed by repeating a step; the first lemmas show
that the repetition ends, at the least set closed under the step. The rest
goes by closed sets: where a value is live and where its definition can be
avoided are complementary, since a path to a use that avoids the definition
would contradict dominance. What would be an induction over the length of a
path is an argument about the least fixed point.

It then proves all invariants of `interference_builder` for every set of
functions that satisfies two assumptions:
`FunctionsAssumption` (SSA form) and `DominanceAssumption` (every block is
reached, every use is dominated). TLC evaluates both on the instances. The
invariant says in addition that the edges are exactly those of the definitions
passed so far (`EdgesExact`): completeness alone is not inductive, since it
speaks of the finished graph. `GraphChordal` adds that the graph of every such
function is chordal: in any set of values the one that is defined last is live
together with all its neighbours where it is defined, so these are neighbours
of each other.

`AllocationPipelineProofs` composes this with `StackAllocatorProofs`. `PipelineInv` carries the
builder's invariant through, and the allocator's from the moment the graph is
finished; `ProblemPosed` shows that what the builder hands over is a problem
the allocator takes. From it follow the end-to-end theorems `LiveNeverShare`
and `LiveValuesPlaced`: values live at one point never share their storage,
and a value that is left without a place is never live beside another.
`NoNeedlessSpill` uses chordality: a clique of the graph is live together
where its last member is defined, so that where no more than `StackReach`
values are live at once, nothing leaves the stack.

`DialectExecutionProofs` proves the invariants of `dialect_execution` for every
set of contents and every vocabulary. The invariant says that both executions
agree on every part of the state that has a resource, and that what is
known of an operation is current while CSE trusts it. Its lemmas go through
the table of effects: an operation that changes a part with a resource
declares a write of something (`ChangersWrite`), one that uses it declares a
read of it (`UsersRead`).

`BytecodeWriterProofs` proves the invariants of `bytecode_writer` for streams
of every length: every label a stream holds has been created (`TypeCorrect`,
with fewer than 2^16 labels, `LabelsAssumption`); the bytes read back as the
instructions emitted, with each label at its offset (`ReadsAsWritten`); no push
has a leading zero (`ShortestPush`). Both are about streams that can be
finalized into less than 2^16 bytes: the code truncates offsets to 16 bits
without a test. The argument: the sizes that the first pass adds up are those
of the encodings the second pass writes (`OffsetSteps`, `Encodings`), so each
encoding lies at its offset (`CodeLies`); at each such place the EVM reads the
instruction and nothing of its neighbours (`ReadsBack`); hence the EVM, which
goes from one instruction to the next by the size of the first, visits just
these places (`StartsAre`), and the data in between, whatever they look like,
never. The steps over data are taken by least elements (`CountUp`,
`CountDown`), and each recursive function involved is shown to exist.

`CostModelProofs` proves both properties of `cost_model`. `PriceIsClose`:
`expansionCost()` is the exact price of the next word or one less, for memories
of every size. It is not always exact: the code differentiates `n*n/512` and
rounds afterwards, the formula quoted in `OsakaSpec.cpp` rounds first. At 22
words the next one costs 4, the code says 3. `CostIsExact`: whatever the
function, the stack and the memory, `recomputeCost()` answers with the gas of
the whole tree of operations exactly when each may run again, none is
`MAX_DEPTH` levels down, and together they cost less than a word of memory.
That is not obvious of the code, which adds a cost up while it hands a budget
down and gives up in six places. The reference counts a set: the units of gas
of all nodes of the tree, a node being the operand numbers on the way to it.
`ComputableSplits` and `UnitsSplit` take the tree apart into its root and the
subtrees of the operands; `Expected` states what each call answers, by the
budget spent before it and the levels left below it; `AllOperands` shows that
an operation answers so if its operands do, and `OneLevel` the same of any
value. `RecursionSolved` shows that the recursion has a solution at all, and
`CallsAnswered` goes from `MAX_DEPTH` up to the first call. The proof assumes
that operations use values of their function (`FunctionsAssumption`), that the
fork's table has one price for each kind of operation that may run again
(`GasAssumption`), and that memory sizes are natural numbers
(`MemoriesAssumption`); TLC evaluates all three. Widths are not modelled: the
sums are `uint32_t` in the code, and one that reaches the threshold ends it.

`FunctionExecutionProofs` is about all programs that `Verified` describes, of
any number of functions, blocks and operations: that is `ProgramsAssumption`,
what MLIR's verifier has established (operands belong to the function,
terminators end blocks, branches and calls lead somewhere, a recomputed value
comes after those it is computed from), and fewer than 2^16 labels.
`TypeCorrect` says of every one of them that each label the stream holds has
been created and none is defined twice; that the EVM finds the code as it was
written unless `BytesMissing` holds of one of the functions; and that the machine
does not leave the code as long as it has come to no place where bytes are
missing. `BytesMissing` names the two ways bytes get lost: a constant other than
zero that is computed again, and a return of more than 112 values, for which the
number of the `SWAP` leaves its byte. From there on nothing is said of the EVM,
neither here nor in `TrackerExact`: it may well run off the code. For all other
programs, `CodeFound` shows, that never happens, and what is proved of the
machine holds of whole executions.

That the machine stays in the code is the hard part: it takes the target of a
jump off its stack, and finds the end of the code only by executing a
terminator. The invariant `IInv` says that

* the stream defines the labels of the blocks begun so far and those of the
  calls emitted, each once, and refers only to labels that have been created
  (`StreamGood`);
* after a block has been emitted, the last instruction does not fall through
  (`EndGood`), so that code which runs is not left at its end;
* the labels among the words on the machine's stack and in its memory have been
  created, so that a jump lands where one is defined or ends in an exception
  (`RunGood`).

`Invariant` proves it, one lemma for each action; emission is taken apart from
the bottom: what a value, a list of values, an operation, a call and a return
add to the stream (`Adds`, `Advance`, `EmittedOpAdds`). That the emitter's
recursion over recomputed values has a solution is not obvious and is shown
(`RoundsSettle`, `RecomputeSteps`): it rests on `RecomputationEnds`. `CodeFound` is
a second invariant, `ReadGood`, on top of the first: nothing that is written takes
the bytes of what follows (`Legible`). Again there is a lemma for each thing that
is written, down to the opcodes, of which only that of a constant is a `PUSH` with
an operand (`FixedNames`, `OpcodeRead`); that the steps of recomputation do not
emit it is where the premise is used (`StepsRead`).

`TrackerProofs` goes on from there: `TrackerIsExact` proves `TrackerExact` for
the same programs, up to where bytes are missing. The tracker is a matter of
the emitter, the stack one of the machine, and they never meet: the machine
runs after the last instruction has been emitted, and through branches and
calls in another order. What connects them is an annotation of the code
(`NotesGood`), which exists at every moment of the emission. Before each
instruction it notes the function, how many words of that function are on the
stack, and which labels lie above them, and each instruction leads from its
note to the next (`Goes`):

* before the code of an operation the height is the tracker's length
  (`PlacesNoted`), at the entry of a function it is zero (`EntriesNoted`);
* a label that is pushed is jumped to by a branch, which is to the label that
  comes next, or by a call, which leads to an entry and leaves the label it
  returns to; the height after a call is larger by the number of results;
* an internal function returns when it has just its results on the stack, and
  the label to return to below them or, after the exchange, above them.

The machine's stack is then a pile of frames (`Frames`, `Located`): one for each
call that has not returned, as high as noted, above the label that is its return
address; the note at this label fits the frame below and the results. `JInv`
says that the code is annotated and that the running machine is located so;
`CodeAnnotated` proves it invariant, one lemma for each action, and for `Run` one
for each way an instruction leads on (`StraightStays`, ..., `CallsStays`,
`SwapsStays`, `LeavesStays`). A path through the code needs no induction this
way, for the annotation is the same wherever the path comes from. As in the
property, the programs are those whose functions are straight lines of
operations with opcodes that fit (`Regular`) and in which an internal function
leaves just its results (`OnlyResultsLeft`); where a pop of an empty tracker has
made the emission undefined, nothing runs, and where the EVM does not find the
code as it was written, the machine no longer runs.

Only model-checked:

* liveness: `Terminates`, and the fairness parts of both refinements;
* `ContractExecution`, whose dispatcher is a `RECURSIVE` operator and whose
  code is bytes that only running them tells the meaning of;
* `InPlaceIsCorrect` of `FunctionExecution`. It compares words with the meaning
  of values, a recursion over data, and asks for an induction over the
  operations of a block for which `AtEnd` is defined.

## 6. Not modelled

* `Transforms` (declarations of passes without bodies), `EVMTranslation.cpp`
  (empty), the driver of `evmlir-opt` but for the CSE pass it registers, build
  files; assembly formats, printing and parsing of the dialect.
* Raw buffers of the bridge; null handles, for which every call is a no-op.
* Gas that runs out, and the stack limit of 1024.
* Code of 64 KiB or more, whose offsets wrap at 16 bits; constants of more
  than 24 bits where bytes matter, which the code splits over four words.
* More than 255 values on the tracker, where its size is cut to 8 bits.
* A constructor that returns before its last block: a return emits nothing
  there, and the code falls through into the next block.
* A constructor that calls a function. The label it pushes for the callee is a
  number of the runtime stream (`EVMEmitter.cpp:281`), in the deployment stream
  undefined or that of something else. No constructor of the instances makes a
  call, so `DeployInstallsRuntime` and `NeverMisdispatched` say nothing of it.
* What the EVM does after a `PUSH32` that lacks its bytes (section 4).
* One `LivenessInfo` for all functions of a module (`EVMEmitter.h:54`): it is
  made from one function (`LivenessInfo.cpp:5`), and knows nothing of the blocks
  of the others, for which `isDeadAfter()` is asked all the same. In the model it
  is asked of the function that is being emitted.

## 7. What could follow

The two executions could be joined: locations from `AllocationPipeline` given
to `FunctionExecution`, in place of the layouts its instances choose. It needs
programs of more values than the stack reaches, for `StackReach` is not a
parameter of the emitter, and those are beyond an exhaustive run. The
dispatcher with its recursion as a function could be proved to answer the
smallest selector.
