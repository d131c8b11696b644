# Verification of Microprobe

Microprobe generates micro-benchmarks: a *target* (instruction set,
microarchitecture, environment) is imported from YAML definitions, a
*synthesizer* runs a list of *passes* that build and annotate a benchmark made
of basic blocks, and a *wrapper* writes it out. Tools around it interpret
assembly or binaries, explore designs and keep a vault of test cases.

The modules here model the parts whose state several passes, calls or processes
share. Paths below are relative to `src/src/microprobe` unless they say
otherwise. `PROJECT.json` maps every definition to the lines it stands for.

## Inventory

| component | state | operations | what is hard | correct when |
|---|---|---|---|---|
| basic block `code/bbl.py` | sparse list `_instrs`, `_pointer`, dictionary `_instdic` | insert, reset, remove, replicate, distance | three fields kept in step by hand; slices that insert, overwrite or fall behind the pointer | it behaves as a list; nothing duplicated, hidden or reordered; the dictionary is right |
| CFG and benchmark `code/cfg.py`, `code/benchmark.py` | list of blocks, variables, labels, one copy per thread | add block, find block of an instruction, add instructions | finding the block by an instruction that was replaced or copied | instructions land where they were asked for |
| execution context `code/context.py` | reserved registers, register values and inverse, memory values and inverse | set, unset, search | inverse tables kept by hand; overlapping regions; numbers equal across types | the inverse is the inverse; regions are disjoint |
| definition cache `utils/cache.py`, `utils/imp.py`, `target/isa`, `target/uarch` | one pickle per layer, its lock, `no_cache` | check, read, build, write, chain of layers | concurrent processes, crashes, failed writes, timestamps, a rebuild decision kept only in memory | accepted files are fresh; one import is consistent; imports end |
| assembly interpreter `utils/asm.py` | labels, assembly cache, worker processes and their queues | interpret a list serially or in chunks | worker failure, completion order, chunk arithmetic, a cache keyed without the labels | the result is the sequential one, in order; errors are reported |
| YAML reader `utils/yaml.py` | cache of data and schema | read, validate | two cache decisions for one file | data conforms to its schema and is current |
| synthesizer and pass pipeline `code/__init__.py`, `code/benchmark.py`, `passes/__init__.py` | passes per thread, current thread, the benchmark with one copy per thread, variables and their addresses | add pass, synthesize, the passes themselves, checks, save | what the threads share and what each has of its own; state a pass keeps; failing passes; a second synthesis | the start and end code of all threads is written, each thread starts afresh; variables placed by one synthesis do not overlap; failures have a cause in the passes |
| register allocation `passes/register` | lists of registers by use, last definitions and uses, context | collect, fill and balance the lists, allocate | a register on two lists; a loop that ends only by the contents of lists; distances against reserved registers | what is served from the lists of reads and of writes does not depend on each other, or instructions depend at the distance asked for; it ends |
| memory model and caches `model/memory.py`, `target/uarch/cache.py`, `passes/memory` | iterations per level, congruence classes, displacements, guards | balance the shares, choose lines, hand out addresses, move on at the end of the loop | a loop on percentages; congruence classes of several levels; steps and guards at a boundary | accesses stay in their variables and hit the level asked for; the search ends |
| memory streams `passes/memory`, `targets/riscv` | registers, displacements and reusable instructions per stream, the loop's code | declare, reach an address, move bases, finish the loop | code generated from what the context knows, executed when it has changed; carries in immediates | the generated loop accesses the planned addresses |
| instruction passes `passes/instruction` | sequence, worker processes | set types, reproduce a sequence | the same process pattern as the assembly interpreter with another chunk count | every instruction gets its definition |
| branch passes `passes/branch` | labels, registers loaded with labels, copies of instructions | give each branch a target, braid the code, replace branches without target | labels, operands and noted instructions renamed in step; code moved and skipped by new jumps | the loop executes every instruction once and in order, whatever the branches decide |
| other passes | none of their own | set one property of each instruction | order between passes | checked by each pass |
| drivers `driver/*`, vault and generator (`src/targets/generic/tools/sdc_vault.py`, `src/sdc_fuzzing_generator.py`) | population, sqlite tables, process pool | evolve, upsert, record results | several processes on one vault | no result lost |
| binary interpreter, dump readers, wrappers, property and utility modules | mostly none | parsing and text | input formats | pure functions |

How they interact: the synthesizer hands each pass the benchmark and the target;
passes call block methods directly and through `Benchmark.add_instructions`, and
share one `Context`. Imports and interpreters share files of the cache directory
with every other Microprobe process on the machine, under reader-writer locks.
`interpret_asm` talks to its workers through one queue each.

`PROJECT.json` lists the hazards, each at its line, with the properties that
would catch it.

## Modules

| module | models | composed of |
|---|---|---|
| `BasicBlock` | a block as a value; each method an operator | |
| `InstructionSupply` | where the instructions of a block come from, and the bounds on them | `BasicBlock` |
| `InstructionList` | abstract: a list under insertion, replacement, truncation, copy | |
| `BlockCalls` | one block under disciplined callers | `InstructionSupply`; implements `InstructionList` |
| `CodeLayout` | all blocks of a benchmark under any caller | `InstructionSupply` |
| `ExecContext` | the execution context | |
| `DefinitionCache` | processes importing a definition through the cache | |
| `InterpretAsm` | the assembly interpreter and its workers | |
| `Synthesizer` | the synthesizer, the multi-threaded benchmark and eight passes | |
| `MemoryModel` | the endless-loop memory model, the pass that uses it, and reference caches | |
| `RiscvISA` | RISC-V code generation helpers, and what their instructions do | |
| `CodeBuilding` | the building block passes work on; `InitializeRegistersPass` | `RiscvISA`, `BasicBlock` |
| `MemoryStreams` | `GenericMemoryStreamsPass` | `CodeBuilding` |
| `RegisterAllocation` | `NoHazardsAllocationPass`, `DefaultRegisterAllocationPass` | `CodeBuilding` |
| `SeqTune` | the policy `seqtune`: the passes one after the other, then the loop on a machine | `MemoryStreams`, `RegisterAllocation`; implements `StreamWalk` |
| `StreamWalk` | abstract: walking through variables in strides | |
| `BranchPasses` | three branch passes, addresses, resolution of labels, and the loop executing | `BasicBlock`; implements `EndlessLoop` |
| `EndlessLoop` | abstract: instructions executed in order, for ever | |
| `FiniteFacts` | lemmas the proofs share: induction, recursive functions, numbers, finite sets | |
| `BlockProofs` | theorems about `BasicBlock`, `BlockCalls` and `CodeLayout` | |
| `BranchProofs` | theorems about `BranchPasses` | |
| `SynthesizerProofs` | theorems about `Synthesizer`, and about `ExecContext` | |
| `*Proofs` | theorems about the module they are named after; `SeqTuneProofs` also about the modules `SeqTune` is composed of | |
| `MC*` | the instance TLC checks | |

**BasicBlock.** `slot` is `_instrs` without the `None` padding, as a function from
positions; `pointer` and `index` are `_pointer` and `_instdic`. `InsertInstr` has
the three branches of `insert_instr`: at the pointer (`AppendInstrs`), over free
slots (`Place`), and the slice assignment `_instrs[at:len(instrs)] = instrs`
(`Splice`, whose `Shifted` states what Python does with such a slice: an
insertion if `at` is not below the number of instructions, else a replacement of
the positions in between). Instructions compare by identity in the code, and are
numbers in creation order here. Slots are ten apart in the code and `Stride`
apart here, so that the instance fills gaps with few instructions.

**BlockCalls.** The block refines a list only under three preconditions, which
are the module's guards: `RoomAfter` (an insertion behind a member stays below
the pointer, or shifts without overwriting), `RoomInFront` (the only
`before` that is honoured is in front of the first instruction) and `Cuttable`
(everything to be removed is known to the dictionary). They are what a caller of
`Bbl` must know and no comment says. `CodeLayout` drops them all. The variable
`call` is the last call with the instructions it was given as anchors; the
abstract list has it too and acts where it says: behind `after`, in front of a
`before` that is the first, at the end without an anchor, on the instruction
named. So an insertion at another place is no step of `InstructionList`.

**CodeLayout.** Every action a pass can take on the blocks: adding a block,
inserting with any anchors, `add_instructions`, replacing an instruction
(`ReproduceSequencePass`), replicating a block (`GenericCodeStructurePass`).
`CfgIndex` answers -1 as `Cfg.index` does, and `GetBbl` reads -1 as Python does,
so `AddInstructions` reaches the last block. `added` remembers the last call of
`add_instructions` for the property about it. `remove_instructions_from` is left
to `BlockCalls`: nothing in the repository calls it. The specification is
`LayoutSpec`, as `BlockProofs` speaks of both modules.

**ExecContext.** One action per method. A value has a number and a Python type;
the tables find equal numbers of either type under one key that keeps the type
it was first stored with. `SetRegisterValue` contains the unset the code does
first, `SetMemoryValue` the `unset_memory`. The specification is `ContextSpec`, as
`SynthesizerProofs` speaks of both modules.

**DefinitionCache.** A layer's data is the sequence of source versions it was
built from, so staleness and disagreement are visible in the data. A process goes
through `check`, `read`, `load`, `build`, `open`, `dump`; opening truncates the
file under the lock, dumping completes it, and a failure or crash in between
leaves it `partial`. `locking` says whether the package `fasteners` is installed:
without it `_new_lock` returns a dummy whose locks are always granted, two
writers can have the file open at a time, and it may end up `mixed`, with bytes
of both. A reader that finds no whole pickle builds the layer; so does one that
finds a whole file it may not open, cannot read or cannot unpickle (`ReadFails`).
A lock that is not granted in time or cannot be made leaves the file as it is
(`LockTimeout`, `LockFails`); an `IOError` while writing switches caching off in
this process (`OpenFails`, `DumpFails`), an error of the pickler does not. Mixed
bytes that happen to load as a pickle of something else are left out.
`broken`, `disturbed` and `calm` are history variables used by properties only.
`Crash`, `Edit` and `Tick` are the environment.

**InterpretAsm.** Statements have a label and an assembly text; the text is
correct, not interpretable, or a reference to a label. The caller forks one
worker per chunk, reads the queues in order and joins. Workers inherit the
caller's cache, as forked processes do. A worker that raises ends without
putting a result on its queue. Upper-casing, blank lines and decorators are
abstracted.

**Synthesizer.** `MultiThreadedBenchmark` inherits the methods of `Benchmark` and
forwards unknown attributes to the current thread's copy. What a method
*assigns* (`_init`, `_fini`, `_context`, `_vardisplacement`) is therefore one
value for all threads, what it *updates in place* (`_cfg`, `_global_vars`,
`_warnings`) is one per thread: the fields of `bench` follow that line. One
action per pass class, an action for the checks at the end of a thread, and
`Save`, which leaves both objects on another thread. The start of a thread
is three steps: turning to it with a new context (`StartThread`), registering the
variables its wrapper requires and the scratch variable, one after another
(`RegisterBasic`), and reserving the basic registers (`ReserveBasic`).
`interpret_asm` is given `Benchmark.labels`, which has the current thread's
variables and the labels of the start and end code of *all* threads (`Labels`), so
start or end code that defines a label fails if a thread before defined it
(`DefinedTwice`). The code given to these passes is taken to be valid assembly
with one label at most; names that differ in case only, which the code takes for
one label, are left out. `SetCurrentThread` assigns
before it checks and accepts one thread too many, as the code does. An exception
is recorded in `fault` and the caller may go on. `addr` and the names
`FixRegistersPass` converts outlive a synthesis.

**MemoryModel.** `ChosenLines` is what the constructor of the data model does, a
level after the other: the lines that share no set and way of a level chosen
before, in proportion to what is left of the percentages; `sets` keeps them.
`Balance` is one round of the instruction model's loop; then each operand gets an
address and its congruence class (`Access`), `finalize_model` computes steps and guards, and the loop is executed
access by access on caches with least-recently-used replacement, with the code
`GenericMemoryModelPass` puts at the end of each iteration. The weighted random
choice of a level is a nondeterministic one among those it can answer. The
constants are assumed to be what the code asserts or relies on: a cache's lines
are a multiple of its ways, percentages add up to 100 (`ConstantsAssumption`),
and sizes are powers of two, none smaller than the ones nearer the processor
(`SizesAssumption`, which asks only for an equal size or an even multiple).

**RiscvISA and CodeBuilding.** A helper returns the instructions it makes;
`Executed` says what they do. Immediates have `ImmBits` bits and LUI sets
`UpperBits` more, so that the carry from the lower part, the boundary of half a
word and the two-instruction shift sequences occur with small numbers. Passes
keep what they know in `known` (the context) while `file` holds what the
registers really contain. `PowersAssumption` is the law of powers of two, which
the provers do not have; `UnsetAssumption` says that the number standing for an
operand without a value is none an immediate can have.

**MemoryStreams, RegisterAllocation, SeqTune.** Each pass is a phase whose steps
handle one variable, instruction or register as the loops of the code do;
`case` fixes the building block and the parameters of the policy. A stream
reaches an address from the registers as they are, or moves its base with new
instructions or with additions of the loop it makes its own. In the last phase
the finished loop is run instruction by instruction, branches of the loop's end
included; `plan` is a history variable that remembers the address each access
was planned for. The values of a stream are sorted at first and after
each round, and shuffled as `distrib.shuffle` does (`Orders`): not at all for 0,
all together for -1, and otherwise window by window. Of two registers an equal
distance from a value the model takes the first in the order of registers, the
code the first in the order they were recorded. The constants are assumed to be typed
(`RiscvAssumption`, `CasesAssumption`), and the shuffled orders of the registers to
have no ties (`RanksAssumption`). `WalksAsPlanned` is the refinement of `StreamWalk`: it is
claimed in the situations `StreamsSound` lists, each of which is necessary (see
*Limits found*).

**BranchPasses.** `bb` is the building block: the instructions by number, the
blocks as `BasicBlock` values, `fini`, and the labels the context believes
registers to hold. A pass is one step, since it runs alone over the block; its
loop over consecutive instructions is a recursive function of the turn
(`VisitPairs`, whose record `p` holds the pass's local variables). A label is a
name, a number and the sequence of suffixes the braid appends. A target is what the operands of a branch say,
with the instruction noted beside a label, which `InstructionAddress` keeps
separately; `SetAddress` has the outcomes of `MemoryOperand.set_address` and of
the passes' retry with a new register. `BranchBraidNextPass` is
`BranchNextPass` with small differences, then copies of the chunks between
branches (`WithCopies`; a copied indirect branch keeps its registers and loses
the address of its memory operand, `CopiedBy`), new labels on both strands (`Relabelled`, `BraidPair`)
and their insertion through `add_instructions` (`InsertGroup`). The address pass
runs before each of them and the labels are resolved for binary output, in the
order of `mp_mpt2bin`. `WrapThread` writes the loop; then `FallThrough` and
`Taken` execute it, with a free choice at each conditional branch, and `done` is
the place in the program of the last instruction executed. `RunsInOrder` is
the refinement of `EndlessLoop`; a copy counts as the instruction it is a copy of.
`CasesAssumption` says what a program is: blocks of typed instructions that are
not all empty, a chunk size of at least one, registers to be counted.

## Runs

| run | instance | distinct states | question |
|---|---|---|---|
| `block` | one block, up to 6 instructions, 3 per call, stride 3 | 30 600 | do the methods act as a list does, at the place their anchors name? |
| `layout` | 2 blocks, 6 instructions, 2 per call, stride 2 | 297 000 | what survives any calls? |
| `layout_add` | 2 blocks, stride 10 | violation | does `add_instructions` add right behind the anchor? |
| `context` | 2 registers, numbers 0 and 1 as int and float, 3 addresses, lengths 1 and 2 | 63 000 | are the inverse tables and regions right? |
| `defcache` | 2 processes, 2 layers, 3 imports, 1 edit per source, 2 ticks, 1 failure or crash, with and without locks | 901 000 | fresh, consistent, current, ending? |
| `defcache_chain` | the same | violation | are the layers of an import always consistent? |
| `asm` | 3 statements, 1 label, 2 CPUs, 2 calls | 153 000 | is the parallel result the sequential one? |
| `synth` | 2 threads, 3 passes of 9, 4 variables, 2 syntheses | 1 077 000 | what do threads share, and what fails because of it? |
| `memory` | 8 hierarchies of 2 or 3 levels, 9 ways to share, 6 accesses, 9 iterations | 184 000 | do the addresses do to real caches what the model says? |
| `seqtune` | 10 registers, 3-bit immediates, some 800 cases, 5 iterations | 177 000 | does the generated loop do what the passes recorded and planned? |
| `branch` | 4136 programs of up to 5 instructions, 1 or 2 blocks, 5 lists of passes, 2 outputs | 38 500 | does the loop execute everything in order? |
| `asm_hang` | that of `asm` | violation | does every call end? |

Bounds. Blocks: with stride 2 or 3 two or three instructions fill a gap, so one
call places, a second shifts, and a third finds shifted slots; positions below
the number of inserted instructions, where the slice overwrites, are reached
with insertions in front. Two blocks are enough to tell the right block from the
last. Context: two registers share a value and leave it one after the other;
regions of lengths 1 and 2 at three addresses overlap from both sides and
contain each other. Cache: two layers suffice for a disagreement, a third import
for an observer after a crash and a recovery; two ticks separate a write from an edit;
and one failure, of a read, a write or a process, is what an import has to survive. Assembly: three statements on two CPUs make three chunks, more than CPUs;
the second call meets the cache of the first. Synthesizer: two threads tell what
is shared from what is not; three passes are enough for a pass that disturbs a
second one, on the same thread or the other; the second synthesis meets the
state of the first, failed or not; and one label is defined by start and by end
code, on one thread or on two. Memory: direct-mapped and associative levels,
equal and different numbers of sets, levels of one size, three levels whose
sizes are multiples and ones whose steps do not divide them, shares that come out even and some that do
not; nine iterations go past every guard. Policy: the initial values are all
triples of nine numbers that take every branch of setting a register, on one
register twice and another in between; the streams are walked in three and more parts, in one, shuffled as a whole and by windows,
with two streams, two variables and shifted ones; five
iterations go past the return to the start. Branches: bodies are all sequences of
the kinds of instruction up to 3, 4 or 5 long, with a label anywhere, with and
without `fini`; a braid of five instructions has up to four branches, so up to
three chunks, inserted two at a time (20 in the code), which makes a full group
and a remainder. Two registers can be loaded with labels (five and more in the
code). Instructions are one unit long and have no address beforehand, and the
first instruction of the loop is at 0. Deadlock is not checked where the
bound on created instructions, imports, calls or iterations ends a behaviour, nor for the
interpreter, which really can hang (`asm_hang`).

Properties that hold:
- `ImplementsList`, `AllVisible`, `DistanceAgrees`: for disciplined callers the
  block is a list whose calls act where their anchors say.
- `OnePlace`, `IndexRight`, `OrderKept`: whatever callers do, no instruction is
  duplicated, no dictionary entry of a present instruction is wrong, and the
  instructions that survive keep their order.
- `InverseExact`, `MemoryDisjoint`, `MemoryInverseSound`: the context's tables.
- `OwnSourceFresh`, `ReadersSeeWhole`, `SequentialLayersAgree`,
  `SequentialImportCurrent`, `ImportEnds`: the cache. All but `ReadersSeeWhole` hold
  without the locks as well, since what is half written or mixed is found out and
  built again; under the locks no reader meets a write in progress. Freshness assumes
  `QuietEdits`: a source is not edited in the clock tick of a cache write, nor
  between being parsed and being cached. The code compares timestamps with a
  strict `>`, so without it the property fails.
- `ResultInOrder`, `ErrorsAreReal`, `ReturnedIsValid`, `NoWorkerLeft`,
  `EndsUnlessWorkerRaises`: the interpreter.
- `PrologueComplete`, `PlacedDisjoint`, `ContextOfThread`, `FaultsExplained`: the
  file written for a thread starts and ends with exactly the code the passes of
  all threads made, thread after thread, since all threads share the two lists;
  the variables one synthesis places do not overlap (of a variable that has an
  address before, from its declaration or an earlier synthesis, nothing is said: it
  may overlap any other); no reserved register is left over from another thread or
  synthesis; a synthesis fails because of what its own passes ask for, with two
  exceptions: a `FixRegistersPass` applied a second time, and a label that the
  start or end code of an earlier thread has defined.
- `InBounds`, `MovesKeepClasses`, `OuterOverflows`, `FirstLevelHits`,
  `IterationsFound`: the memory model. No access leaves its variable, away from
  the edge named below; a base that moves keeps the congruence classes, with two
  levels or where the step divides the size; accesses of an outer, larger level
  flush the inner one, with two levels; a direct-mapped first level serves what
  was planned for it; the loop on percentages ends.
- `RegistersKnown`, `NoHazards`, `DistanceKept`, `WalksAsPlanned`, `BalanceEnds`:
  the policy. The first relates the context to the machine. The second says
  that a register served from the list of those read goes to no operand that
  writes, and one from the list of those written to none that reads. It is less
  than the docstring of `NoHazardsAllocationPass` claims: the pass serves from a
  third list, of registers read and written, every operand the other two have
  nothing for, so that `C.AND` may read what `C.ADDI` has just written; operands
  with one possible value, and those that had a register before, take it whatever
  list it is on; and it says nothing of blocks that had a register on two lists
  from the start. The third says
  that an instruction depends on the one at the distance asked for whenever that
  one left a usable register.
- `RunsInOrder`, `TargetsAgree`, `TakenSwitches`: the branch passes. The loop
  never leaves the program order, no pass raises and no label is missing; the
  label in an operand and the instruction noted beside it are one place, so that
  assembly and binary agree; a taken branch of braided code changes strand. They
  are claimed for the programs `Works` lists, see *Limits found*.

What the violation runs show:
- `layout_add`: `Cfg.index` has its test inverted, so `add_instructions` uses
  the last block whatever the anchor; an anchor of another block is unknown
  there and the instructions are appended.
- `defcache_chain`: the rebuilt lower layer and the old upper layer are combined
  after a crash between layers, an overlapping import, or a failed read.
- `asm_hang`: the caller blocks in `queue.get()` of a worker that raised.

Fairness. `DefinitionCache` assumes weak fairness of each process's own steps:
the operating system schedules it, locks are held only during a write and
waiting for one is bounded by the timeout. No fairness is assumed of edits,
crashes or further imports. `InterpretAsm` assumes weak fairness of the caller
and of each worker separately, as they are independent processes. `MemoryModel`
and `SeqTune` assume it of the balancing loops only, `Balance`: they are plain
loops of a running program, which does not stop in the middle. `BranchPasses`
assumes it of the processor, `FallThrough \/ Taken`. None is assumed of the
passes: that one always follows is what deadlock checking shows.

Each property has a mutant in `PROJECT.json`: a plausible bug of the modelled code
under which TLC finds the property violated.

### Limits found

Where the code does something else than a reader would expect, the model follows
the code and the property names the exception:

- Memory model. If the largest displacement of a level is an exact multiple of
  the size of the level below, the step is one line short and the last round
  leaves the variable (`OnEdge`). A level with a single access has displacement
  0 and its guard divides by zero; a level with a share but no lines takes a
  modulus by zero. `finalize_model` does not advance `cache_ant` at a level with
  accesses, so with three levels a level may be compared with the wrong one.
  In an associative first level other levels may use the other ways of a set, so
  `FirstLevelHits` is about direct-mapped ones. Two levels of the same size pass
  the test for enough accesses although the outer one has no lines but those the
  inner one leaves, so nothing is flushed. The increment of a base is the size
  divided by the guard, which is rounded down: with three levels the step need not
  divide the size (a step of 24 in a size of 128 makes guard 5 and increment 25), and the
  base leaves the congruence classes, even the start of a line. `_check_integrity` compares class
  numbers of caches with different numbers of sets, and checks before it adds.
- Streams. A base that is *set* anew in the loop, instead of added to, is
  absolute and does not move on with the iterations. An addition of the loop that
  a second stream of the variable makes its own moves the first one's base. A
  guard is loaded from a register the context knows the value of, although the
  loop changes it. Two insertions at the front of the block overwrite one
  another. `shift_streams` can push accesses past the end of a variable. A
  variable with share 0 is a `KeyError` when the loop is finished. Only four
  streams find registers, as the second list of candidates is empty.
- Registers. A number just below half a word is set wrongly. Register 0 is
  recorded with a value it cannot have unless it is reserved. Balancing does not
  end when two lists have equal contents, which takes a register on both; the
  assertion that should exclude it compares each list with itself.
  `NoHazardsAllocationPass` frees reserved registers the loop does not use.
- Branches. Outside `Works` the loop does not run in order, except in a few
  hundred of some 8000 programs: with a second absolute branch before the last
  instruction, which shares the label of the first one although the pass's
  description says that each branch goes to the next instruction, so that the
  second of two in a row jumps to itself (the pass's check sees it, but a failed
  check is only a warning); with an absolute last branch that needs a displacement (behind
  its own label, or near a loaded one), as loading a label drops it and an
  `Address` never differs from an `InstructionAddress`, so that the immediate is
  not set; in binary output, with an absolute branch, which cannot load a label,
  or with `fini` behind a last branch, whose noted instruction is the first of
  the loop while its label is that of `fini`. `FixIndirectBranchPass` needs
  blocks that neither begin with a branch to fix nor, but for the last, end with
  one: the first instruction of a block is paired with itself, is fixed towards
  itself and loses the address the next turn needs. It also gives the four-byte
  `JAL` it makes of a two-byte `C.JR` or `C.JALR` the displacement to the next
  address as it was, two bytes, which leads into the `JAL` itself; all instructions
  being one unit long here, the model does not show it. The braid needs one block (`Cfg.index`), no label behind a branch, more
  registers than absolute branches, another branch behind each of these, and a
  branch at one end of the loop at most: labels are renamed that the code
  loading them, or the last branch, goes on using. `FixIndirectBranchPass` after
  it takes the copies of indirect branches for branches without a target.
- Assembly. The cache is keyed without the labels, so a reference to a label this
  call does not declare is accepted when an earlier call declared it;
  `ReturnedIsValid` allows for that.
- Synthesizer. A failed `set_current_thread` leaves the unknown thread current.
  The overlap search of `register_var` answers before it searches; what keeps
  variables apart is the running displacement, so that one that keeps an earlier
  address can overlap another. Start or end code with a label cannot be given to
  two threads: the second one fails with `Label '...' defined twice`.
- Cache. Without `fasteners` nothing is locked, and nothing says so to the user.

## Proofs

Proved by TLAPS for every value of the constants, under the assumptions the
modules state and *Modules* explains (sizes are natural numbers, the stride is
positive, the special values differ from the others, a hierarchy's sizes fit).

The logic has induction over the natural numbers only through operators, which
the provers cannot instantiate. `FiniteFacts` states it over sets instead:
`SetInduction` (a set that has 0 and with each number the next one has all),
`SetInductionUpTo`, and `RecursiveFunction`, by which a function defined by
recursion exists and obeys its equation. What a recursive function computes can
then be proved for sequences of any length. The rest of the module is arithmetic
of quotients, remainders and multiples, and enumerations of finite sets of numbers.

- `BlockProofs`, in three parts. *Operations*: one lemma per method of a block
  says that it preserves soundness (the parts have their types, the slots hold
  no duplicates, the dictionary is right about what is there, only instructions
  created so far are mentioned), keeps the order, and mentions nothing but old and
  new instructions. The hard one is the slice assignment, `ShiftedSlots`: the new
  list has the new instructions in their window and the others, in order, around
  it. *All the blocks of a benchmark*: `OnePlace`, `IndexRight` and `OrderKept`.
  `OnePlace` alone is not inductive: an insertion writes into the dictionary from
  the slots and a replica is made from another block's instructions, so the
  invariant `LayoutInv` says that every block is sound and that no two blocks
  mention the same instruction. *Disciplined callers*: `AllVisible`,
  `DistanceAgrees` and the refinement `ImplementsList`. The invariant `BlockInv`
  adds that nothing is behind the pointer and that the dictionary has exactly one
  entry for each position. What the block shows is the n-th smallest position, by
  cardinality; the lemmas `RanksCount`, `AtAscends` and `OneEnumeration` show that
  a finite set of numbers has exactly one ascending enumeration, so it is enough
  to write down the enumeration after a call: `InsertedAt` for a window between
  two members (with the tail moved or not), `CutAt`, `ReplacedAt`. The place in the
  enumeration is the one of the anchor in `call`, so that the abstract list has no
  choice of it.
- `DefinitionCacheProofs`: `TypeOK` with the shape of a process's control state;
  `ReadersSeeWhole` from `Locks` (a file is `partial` only while some process is in
  `dump` on it, or it is in `broken`; and where the locks work, that process holds
  the lock, nobody loads the file meanwhile, and no file is `mixed`); `OwnSourceFresh` from
  `Fresh` (what a process is about to write, and what is accepted, was built
  from the present version); `SequentialLayersAgree` from `OneAtATime` and
  `FilesAgree` (while nothing is disturbed one process at most imports, and the
  files of the layers it has passed begin with one another's data);
  `SequentialImportCurrent` from the latter together with `Current` (a layer that
  was served without an edit in between has the sources' versions).
- `InterpretAsmProofs`: `ResultInOrder`, `NoWorkerLeft`, `ReturnedIsValid` and
  `ErrorsAreReal`. The invariant `CallInv` follows a statement on its way:
  `InTransit` says that what the caller has so far is the beginning of the list
  and that each queue holds nothing or exactly its worker's chunk, `Control` which
  workers exist in which state of the call, and `Seen` that what a process has
  labelled or cached comes from its chunk, its caller or an earlier call. The
  arithmetic of the chunks (`RoundedUp`, `ChunkSizes`, `ChunkIsPart`) covers
  lengths the number of CPUs does not divide.
- `SynthesizerProofs`: `TypeOK`, `PlacedDisjoint`, `ContextOfThread`,
  `FaultsExplained` and `PrologueComplete`. The invariant `Stacked` says
  that the variables placed by the present synthesis lie below
  `_vardisplacement`, pairwise apart: the displacement is shared by all threads,
  only grows, and starts again only when nothing is placed. The invariant
  `ThreadInv` accounts for what the current thread's passes did so far: the
  reserved registers are those of `ReservedAfter`, each variable registered is a
  basic one or was declared by an earlier pass, the threads to come have none,
  each instruction of the shared start and end code comes from a pass of this or
  an earlier thread (`OriginInv`), which explains a label defined twice
  (`LabelFault`); a failure keeps its explanation, as passes are only added and a
  `FixRegistersPass` object stays used. `ReservedAfter` is stated by the last pass
  about a register and not by a fold, so that `ReservedNext`, what one more pass
  changes, can be proved. For the prologue, `PrologueInv` says that the lists all
  threads share hold exactly the instructions the passes made so far, thread after
  thread, and that what is written was complete when it was written; `SelectedFrom` reads the
  selection of a thread's instructions off its recursion, so that appending
  one thread's changes no other's. The last part is about `ExecContext`:
  `ContextTypeOK`, `InverseExact`, `MemoryDisjoint` and `MemoryInverseSound`. The
  state falls into two independent halves, registers and memory, and each property
  is inductive together with the types of its half; the lemmas say what taking a
  register out of the table, and dropping overlapping regions, leave.
- `MemoryModelProofs`: `InBounds`, `MovesKeepClasses`, `OuterOverflows` and
  `FirstLevelHits`, from `MemoryInv`, which has four parts. `TypeInv` includes
  `SetsOk`: the lines of a level are the first ones, in order, of those that share no
  set and way with an earlier level's, by induction over the levels. `TraceInv`:
  every address handed out is one of its level's lines, and the lines the count
  has passed have been handed out. `RunInv`: a base is as many increments as its
  counter says, fewer than its guard; no increment is smaller than the step
  (`MovingIs`), which is a multiple of the level below (`TwoLevelsWhole`).
  `ContentInv` is about the replacement: in a direct-mapped first level a line
  stays once it has been accessed, as no access of another level, wherever its base
  has moved, has its congruence class. For `OuterOverflows` the lines of all the
  rounds are counted: they do not overlap, as the step skips what an iteration
  touches.
- `SeqTuneProofs`, about the policy.
  `NoHazards` from `HazardInv`: each phase of `NoHazardsAllocationPass` hands the
  next one what it needs. The pools have no register in common, unless two classes
  had one at the start; nor have the lists made of them, which hold each register
  once, so that balancing takes a register away from its donor; and while
  registers are given the lists of what is read and of what is written only
  shrink, so that a register given from one of them is never again on the other.
  Nothing is said of the third list, which serves both reads and writes.
  `DistanceKept` from two invariants. `BuildInv` says that, whatever passes and
  streams insert, the loop is code and its block has each instruction at most once,
  so that giving one its registers changes no other; it rests on the operations of
  blocks and on every helper that makes code. `DistanceInv` says that the list of
  last definitions tells exactly what each instruction has set (`Tracks`): its
  entries are right, and each register set and not set again since has one.
  A register that was set at the distance and is still there is therefore found,
  and its position in the list is what the pass compares.
  `RegistersKnown` from `KnownInv`, for any width of immediates. A run of
  instructions is the last of the register files in between (`RunFrom`,
  `RunJoined`), so that each path of `set_register` and `set_register_to_address`
  is followed one instruction after the other. `UpperLowerIs` and `LuiAddiDoes`:
  `LUI` and `ADDI` make the value up to a multiple of half a word, and exactly but
  for the numbers `AtHalfWord` names. `LongSetDoes`: a shift and an `ORI` append a
  piece, and what the multiple has become after three of them is a multiple of the
  word. `SetAddressDoes` and `SetStreamsDoes` do the same for addresses; the
  registers of all streams are distinct (`StreamRegsApart`), so that none is set
  twice.
  `WalkInBounds`: an abstract walk that follows a well-made plan stays in its
  variables, for any sizes and strides, as after at most `Rounds - 1` moves by
  `Step` the largest displacement is still inside; `WalksAsPlanned` shows, on the
  instance, that the generated loop is such a walk.
- `BranchProofs`: `TypeOK`, unless a program of several blocks is braided, and
  `TargetsAgree`, unless any is (`Served`, `NoBraid`). `TypeOK` says that the text
  consists of instructions that exist, that the instruction noted beside a target
  exists or is none, and that the loop executing stays in its code; it says nothing
  of labels, which a braid outside `Works` can rename away. That the loop executing
  stays at its positions depends on where every offset leads, so the invariant
  `Safe` is about addresses. `Sound` says that the objects have their types, that
  each has one place in the text, that no address is larger than the number of
  instructions before that place and no offset leads before the first one. An
  address is computed once and stays while code is inserted before it, so it may be
  too small and is never too large; an offset is the difference of two addresses,
  so it leads nowhere before the loop, and behind it the wrapper's jump takes over
  (`AssembledRuns`). Two kinds of lemmas keep it. A pass that adds no instruction
  is a series of edits (`Edits`, `EditsSound`, `FixesSound`): it changes labels,
  targets, addresses and kinds of objects that stay where they are, and the same
  series keeps `Agreed`, which says that the instruction noted beside a label
  carries it: labels are only given to instructions without one, or to both at
  once. The braid copies chunks (`CopiesBraid`) and inserts them group by group
  (`InsertGroupBraids`), and only there does the block itself move: `SpliceMoves`
  and `PlaceMoves` say that `Bbl` shifts positions and loses no instruction, given
  that a group goes behind at least as many positions as it has instructions.
  `Woven` provides that for one block: its dictionary has every instruction of it
  (`KnownShows`), and the group's own originals are before it. With several blocks
  it is false: the copies of all blocks go into the last one (`Cfg.index`), whose
  slice assignment can replace instructions, so `Safe` cannot be an invariant
  there. The run has no such program either (the braid needs one block, see *Limits
  found*), so that `TypeOK` is proved for more than every program of it.
  `TargetsAgree` of braided programs is left to the run: labels are renamed after a
  branch has noted one, and it does not hold of every program.

Only model-checked:

- the liveness properties `ImportEnds`, `EndsUnlessWorkerRaises`,
  `IterationsFound` and `BalanceEnds`, which rest on fairness and `ENABLED`, beyond
  the prover;
- the refinements `WalksAsPlanned` and `RunsInOrder`, which run whole generated
  programs, and `TakenSwitches`: they are claimed for the programs `StreamsSound`
  and `Works` list, by what passes over all the instructions do together;
- `TargetsAgree` of braided programs, for those `Works` lists.

## Not modelled

Text generation (wrappers), per-architecture tables, parsing of statements,
dumps and test formats, and the pure helpers: their state is local, and their
correctness is a matter of formats.

- YAML reader: whether to use the cached data is decided by the check
  `DefinitionCache` models, once for each of two files, and what is read is
  validated against the schema every time.
- Selection and attribute passes, and the other branch passes (`LinkBbls`,
  `RandomizeByTypePass`, `NormalizeBranchTargetsPass`, loop counters and branch
  patterns, the filter by name of the two modelled ones): sequential traversals that set one
  property of each instruction; their calls on blocks are in `CodeLayout`.
- Drivers, vault and generator: sequential search around random choices; single
  sqlite statements; a pool of processes that share nothing but the vault.
- Within modelled components: the edges of the CFG (never read), labels and
  metadata of a benchmark, the closest-value searches of the context,
  `data_reload` and the LRU caches; raw headers and footers, padding,
  `TraceSynthesizer` and `safe_bin`; allocation passes no modelled policy uses;
  stores that switch data, instructions with two memory operands; values that
  are not integers, and the other architectures.

`PROJECT.json` gives the reason for each component.

## Plan

1. *(done)* blocks and layout, context, definition cache, assembly interpreter.
2. *(done)* synthesizer; memory model with reference caches; the passes of
   `seqtune` composed and run on a machine, refining `StreamWalk`.
3. *(done)* proofs of the block's refinement, of the cache's sequential
   properties, of the interpreter, of the synthesizer's variables and prologue,
   of the memory model, of both allocation passes, of setting registers and of
   the abstract walk.
4. *(done)* the branch passes with addresses and labels, and the loop executing;
   their types and the agreement of labels and targets proved.
5. *(left)* `data_reload` with the lock of `DefinitionCache`; the chunk arithmetic
   of `ReproduceSequencePass`; streams of stores; a condition on programs under
   which the labels of both strands of a braid can be proved to agree.
