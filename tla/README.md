# Verification of yoolang

yoolang is an optimizing compiler from SysY (a subset of C) to RISC-V assembly
with the vector extension, written in C++, with a small C runtime. This
directory holds TLA+ models of the parts whose correctness is a question of
states and order, TLC configurations that check them on small instances, and
theorems that TLAPS proves for every instance. Paths below are relative to the
repository.

Contents: [the system](#1-the-system), [the plan](#2-the-plan),
[the modules](#3-the-modules), [the runs](#4-the-runs),
[bounds](#5-bounds-and-why-they-are-enough), [fairness](#6-fairness),
[the proofs](#7-the-proofs), [findings](#8-findings),
[what is not modelled](#9-what-is-not-modelled).

## 1. The system

### 1.1 How a compilation goes

`main.cpp` parses options and runs the passes `PipelineBuilder.cpp` lists, in one
thread, through `PassManager`; everything a pass keeps is in the `PassContext`
(the module of each level, artifacts such as the assembly text).

1. Lexer and parser build a tree, semantic analysis checks it.
2. `ASTToYIRPass` makes YIR, a structured IR with loops and named variables. View,
   polyhedral, memory forwarding, loop and loop analysis passes work on it.
3. `YIRToOIRPass` opens the structure into OIR, an SSA IR of basic blocks.
   `OIROptimizationPipelinePass` runs a fixed order of passes, repeated in rounds
   (eight at most) and around inlining. Vectorizers follow, or the portable
   scalarizer, or the compilation of the module twice for a fat binary.
4. `OIRToMIRPass` selects instructions and turns phis into copies. MIR passes
   combine, schedule, allocate vector registers, place `vsetvli`, allocate scalar
   registers, clean up and print.
5. Of the runtime, `rvv_runtime.c` decides in the running program whether the RVV
   bodies of a fat binary may be used, and `alias_runtime.c` whether two ranges of
   memory overlap. The program, not the compiler, may be multithreaded.

### 1.2 The components

State, operations, what is hard, and what makes each correct. The last column
names the module.

| Component | State and operations | Hard to test | Correct when | Model |
|---|---|---|---|---|
| RVV runtime detector, fat stub (`rvv_runtime.c`, `OIRFatMultiversionPass.cpp`) | one atomic verdict per process, vector control per thread; probe, compare-exchange, query, choose a body | first callers racing, probes that disagree, control that changes between calls | an RVV body only where it may run; one verdict | `RVVRuntime`, `WriteOnce` |
| Register allocation (`MIRRegAllocPass.cpp`) | live sets, interference graph, stack of nodes, colors, spill slots; rounds of sweep, build, color, rewrite | spilled code is allocated again; moves, calls, clobbers, remat, scratch registers | the allocated function computes the same; it converges | `ColorGraph`, `MIRRegAlloc` |
| SAT core (`smt/Solver.cpp`) | clauses, watch lists, trail, recursion, budgets and a clock; propagate, decide, backtrack | a watch or queue left stale by backtracking; a budget that ends between two branches | a verdict is true; giving up is never a verdict | `SatSolver`, `DPLL` |
| OIR itself (`oir/OIR.cpp`) | blocks, instructions, edge and use lists; text form; verifier | four copies of each edge | lists, branches and phis agree; uses dominated | `OIR` (what a function means, `WellFormed`) |
| OIR dominator tree (`OIRAnalysis.cpp`) | order of blocks, immediate dominators, intervals | loops with two entries, unreachable blocks | `a` dominates `b` iff every path to `b` meets `a` | `DominatorTree` |
| OIR SCCP (`OIRSCCPPass.cpp`) | a lattice value per instruction, executable blocks; sweeps | evaluation that is not monotone; missing cases | constants hold in every run | `OIRSCCP` |
| OIR mem2reg (`OIRMem2RegPass.cpp`) | cells, phis, what each cell holds, an undo list | phis that need phis, unreachable predecessors, chains of replaced loads | each load gets the last store | `OIRMem2Reg` |
| OIR CFG cleanup, DCE (`OIRCFGCleanupPass.cpp`, `OIRCFGUtils.cpp`, `OIRLocalSimplify.cpp`, `OIRDeadCodeEliminationPass.cpp`) | edge lists and phis; fold, prune, redirect, merge, erase | each step enables another; doubled edges | same behaviour; nothing left to do at the end | `OIRCFGCleanup` |
| OIR jump threading (`OIRJumpThreadingPass.cpp`) | edges moved past a branch | phis read together, side effects skipped, lost dominance | same behaviour, still SSA | `OIRJumpThreading` |
| OIR alias analysis, call summaries, memory SSA (`OIRAnalysis.cpp`) | addresses, effects of calls, versions of memory | clearing of memory, calls that call, phis of memory | a clobber is not overlooked | `OIRAlias`, `OIRMemorySSA` |
| OIR GVN, dead loads, dead stores, LICM, ADCE | available values, stores nothing reads, loops and the blocks before them | stale loads, aliases, calls | a reused value is the value, effects and their order stay | `OIRRedundancy`, `OIRDeadStores`, `OIRLICM` |
| OIR SROA | elements of aggregates | | same behaviour | no |
| OIR value ranges and scalar rewrites (`OIRValueRange.cpp`, `OIRLocalSimplify.cpp`, idioms) | an interval per value, 32 sweeps | wrapping, sweeps cut short | the interval holds in every run | `OIRValueRange` (the other rewrites: no) |
| OIR loop transforms | loop shape, trip counts | overflow of induction variables | same behaviour | no: pattern by pattern |
| OIR interprocedural passes (inline, globals, tail recursion, DAE) | call graph, parameters, globals | recursion, escaping globals | same behaviour | no: OIR models one function |
| OIR pipeline (`OIROptimizationPipelinePass.cpp`) | rounds, windows for inlining | a limit that stops in the middle | every pass leaves a correct function | `OIRPipeline`, `OIRScalarPasses` |
| Vectorizers, scalarizer, vector cleanup | lanes, masks, dependences | tails, aliasing | same behaviour | no |
| SMT bit blasting (`smt/Expr.cpp`, `BitBlaster` of `Solver.cpp`) | circuits over clauses | division, shifts by a width or more | the circuit is the arithmetic | no |
| SMT proof obligations (`SMTProof.cpp`) | a cache of verdicts | a key that leaves something out | a cached verdict is the verdict | no |
| OIR to MIR (`OIRToMIRVRegLowerer.cpp`) | registers per value, blocks on edges; parallel copies | swaps, critical edges, both targets the same | phis take their values together | `OIRToMIR`, `StrengthReduction` |
| MIR scheduler (`MIRListSchedulerPass.cpp`) | ready list, dependences | effects with no register between them | dependent instructions keep their order | `MIRListScheduler` |
| Vector state (`MIRVectorState.cpp`, `MIRVectorStatePass.cpp`) | vl and vtype at each point, sets inserted and removed | a block not reached yet is not unknown; lengths with one name and two values | each instruction runs under the state it needs | `MIRVectorState` |
| Vector register allocation | a register group per value | groups that overlap | same values | no |
| MIR combiner and peepholes (`mir/*Pass.cpp`) | windows of a few instructions, use counts, layout | a register live past the window, a count that is stale | same behaviour | `MIRCombine`, `MIRPeephole`, `MIRLayout`, composed in `MIRBackend` |
| Fat multiversion compilation (`OIRFatMultiversion*.cpp`), pass manager | two compilations, artifacts | one of them fails after the other | all or nothing is published | stub: `RVVRuntime`; publication: no |
| Alias runtime (`alias_runtime.c`) | none | ranges reaching the end of the address space | answers no only when disjoint | no |
| Lexer, parser, semantic analysis, YIR and its construction, lowering to OIR | trees | | | no: syntax-directed |
| YIR passes; polyhedral pipeline; Presburger sets | loops, integer sets | legality of reordering | dependences kept | no |
| Cost models (`CostModel.cpp`, `MIRCostModel.cpp`) | a policy, estimates | a refusal in the middle of a pass | what is left refused or done computes the same | `Allows` of `MIR`, for the passes on MIR |
| Target tables, driver, I/O library, scripts | | | | not modelled: tables, I/O |

`PROJECT.json` lists these with their sources, and every hazard at its line.

### 1.3 How they interact

- Passes share the module they rewrite. They also share helpers: the edge helpers of
  `OIRCFGUtils.cpp` (modelled in `OIRCFGCleanup`, used again by `OIRJumpThreading`),
  the arithmetic of `OIRScalarOptUtils.cpp` (in `OIRSCCP`), the memory analyses (in
  `OIRAlias` and `OIRMemorySSA`, asked by four passes), and the dominator tree, which
  mem2reg asks about dominance and the verifier checks uses with.
- Jump threading leaves blocks without a way in and phis of one entry to the
  cleanup; SCCP leaves branches on constants to it.
- Proof obligations of the polyhedral and vector passes go through the SAT core:
  an answer of Unsat makes a transformation legal, so a wrong Unsat is a
  miscompilation, and a Timeout taken for Unsat would be one too.
- Value ranges run on what constant propagation has rewritten.
- The lowering gives the MIR passes phis as moves; register allocation gives the
  peepholes moves whose two sides have one register.
- The emitted stub calls the detector through a weak symbol, on every call, from any
  thread.

## 2. The plan

### 2.1 Modules

All of these are written; each group builds on the one before.

1. `RVVRuntime` with `WriteOnce`: the only concurrent code.
2. `ColorGraph`, then `MIRRegAlloc`, which runs `ColorGraph` step by step inside the
   rounds of `RegAllocator::run`.
3. `DPLL`, then `SatSolver`, which implements it.
4. `OIR` (what a function is and does), then the passes over it: `DominatorTree`, which
   `OIRMem2Reg` builds and asks; `OIRSCCP` and `OIRValueRange`, composed in
   `OIRScalarPasses`; `OIRAlias`, `OIRMemorySSA`, `OIRRedundancy`, `OIRDeadStores`,
   `OIRLICM`, `OIRCFGCleanup` and `OIRJumpThreading`, composed in `OIRPipeline`.
5. `MIR` (what a machine function is and does), then `StrengthReduction`, `OIRToMIR`,
   `MIRCombine`, `MIRPeephole`, `MIRLayout`, `MIRListScheduler`, composed in `MIRBackend`
   from OIR to allocated and scheduled code.
6. `MIRVectorState`, the placing of `vsetvli`.

Not written: bit blasting compared with arithmetic, vector register allocation, the
publication of fat assembly, the alias runtime.

### 2.2 Abstract specifications

`WriteOnce` (what the cached verdict promises) and `DPLL` (what a search with
backtracking that may give up promises) are stated, and proved to be implemented.
`OIR` is the specification of every pass over it (`Preserves`: the same calls and result
before and after; `WellFormed`: what the verifier demands), and of the back end
(`Indistinguishable` of `MIR`). The dominator tree is held to the definition of dominance
by paths, liveness to paths that read, the vector state to the meet over paths.

### 2.3 Theorems

Section 7. Next candidates: that the edge helpers of the cleanup keep `EdgesAgree`, that
the dataflow of the vector state stays within the meet over paths, that the intervals
hold in every run (`RangesHold`, along the lines of the theorem about constants).

## 3. The modules

`map` in `PROJECT.json` gives the lines of every definition. Here: what the variables
stand for and what a step is. The arms of a `CASE` are tried in order, as TLC does,
where they are not disjoint.

**RVVRuntime** (abstract: `WriteOnce`). `cache` is `yoolang_rvv_hardware_cache`; `hwcap`,
`linked` and `control` are what the kernel and the linker say. A thread's call goes through
`EnterLinked` or `EnterUnlinked` (the stub's test of the weak symbol), `LoadHit` or
`LoadMiss` (the atomic load), `Auxval`, `Hwprobe` (with every answer the syscall can give, which the history variable `heard` keeps),
`CasWin` or `CasLose`, `QueryControl`, `Select`, `Return`: one action per access to
something another thread or the kernel can change. `SetControl` is the thread's own `prctl`
between calls. The accesses are atomics, and the cache is one location, so interleaving is
the C memory model's answer for it.

**ColorGraph** `color_graph` on one coloring problem: `remaining`, `stack`, `color`,
`spills` are its locals; `lowDegree` is history, the nodes pushed by the degree test. One
action per node: `SimplifyLowDegree`, `SimplifySpillCandidate` (the cheapest),
`SelectColor` (preferences first, as the code tries them), `SelectSpill`.

**MIRRegAlloc** `RegAllocator::run` for one class (the two share no register). Phases:
`LivenessStep` is one block of a sweep, backwards over the blocks until a sweep changes
nothing; `Build` is the whole of `allocate_class` before coloring (interference,
forbidden registers, move hints, costs, rematerializable registers); `ColorStep` is a
step of `ColorGraph`, instantiated on the same variables; `Rewrite` is `rewrite_spills`
(reload, rematerialization, scratch registers, fresh registers, stores) and starts the next
round, or fails after `MaxIterations`; `Apply` puts physical registers in and drops moves
to themselves; `Run` then executes the original and the allocated function side by side, a
block per step, on a machine where a call overwrites what it may.

**DPLL**, the abstract search: imply, decide, conflict, undo, flip the newest open decision,
fail, succeed, or give up at any time.

**SatSolver** `SatSolver::solve`. `assignment`, `trail`, `qhead`, `watches`, `watchPos`
and the counters are the members; `frames` is the recursion of `dfs`. `WatchClause`
and `Assume` are setting up; `Enter` to `ListDone` is `propagate`, one watch list entry
per step (skipped, moved to the first literal not false, implied, or a conflict); `Decide`,
`Backtrack`, `Return` are the two branches; `Deadline` passes between any two steps of a
solve that has one. `ImplementsDPLL` maps the frames whose second branch is untried to
the open decisions. Clauses repeat no variable: `BitBlaster` folds gates that would.

**OIR** what a function is and what running it does: `WellFormed` is the verifier's
demand (phis first, one entry per predecessor, uses dominated), `RunBlock` executes a
block, phis at once, `Preserves` compares runs. Integers have `W` bits and wrap; division
is RISC-V's. A run that divides by zero or lets an undefined value decide something is
undefined in SysY and shows nothing. Calls to functions of the module run them, one call
deep.

**DominatorTree** the class of `OIRAnalysis.cpp`: `DfsEnter` and `DfsLeave` are the
depth-first walk; a sweep over the reverse postorder goes block by block and predecessor
by predecessor (`SkipBlock`, `FirstPredecessor`, `NextPredecessor`), `Climb` is one step of
the two fingers of `intersect`, `EndBlock` compares with what the block had;
`SweepAgain`, `EndSweeps`; `NumberEnter`, `NumberLeave` number the tree, `Finish` ends
it; `Dominates` compares intervals. Successors are taken in any order.

**OIRMem2Reg** `run_on_function`: `FindTree` is a step of `DominatorTree`, instantiated on
the variables of `tree`; `Collect` (cells that are only loaded and stored, frontiers),
`StartPlacing` and `PlaceFor` (one block of the work list), `StartRenaming`, `RenameChild`
and `Return` (the recursion and its undo list), `Finish` (missing entries, chains of
replacements, erasure). The order of the code's hash sets is left open.

**OIRSCCP** `SCCPSolver`: a step is one instruction at the position of the sweep
(`VisitValue`, `VisitVoid`, `VisitBranch`), a block not executable yet (`SkipBlock`), the
end of a sweep (`SweepAgain`) or the rewriting (`RewriteConstants`).

**OIRValueRange** `run_on_function`: one instruction of a global sweep
(`SweepInstruction`, `SweepAgain`, `EndSweeps`), one round of what is known where each
block begins (`IterateEntries`, `EndEntries`), one instruction of the rewriting walk
(`RewriteInstruction`) and the replacements. **OIRScalarPasses** runs it on the `result`
of `OIRSCCP`.

**OIRAlias, OIRMemorySSA** addresses as objects and words, what calls may read and write,
versions of memory and which of them a load sees. **OIRRedundancy** (value numbering, dead
loads, aggressive elimination) and **OIRDeadStores** give the function a pass makes of
another as an operator; **OIRLICM** takes one loop per step.

**OIRCFGCleanup** the pass in its full mode. `f` carries branches and phis, `preds` and
`succs` the lists. A step is what the code does between two looks for work:
`SimplifyBranch` (one block), `CleanUnreachable`, `CleanPhis`, `CleanJump`, `CleanChain`
(first one found, as the code starts again after each), `DceSweep`, `EndRound`. The DCE
erases all unused values of a sweep at once, which ends at the same function as the code's
work list. **OIRJumpThreading** extends it: `ThreadEdge` moves the first edge that can be
threaded, at most `MaxIterations` times, and the cleanup follows. **OIRPipeline** puts
value numbering, dead loads, dead stores, invariant motion and aggressive elimination
before both, a step each.

**MIR** is the layout, the blocks and what running them does: registers of `2 * W` bits
in which an i32 is kept sign-extended, immediates of `ImmBits`. **OIRToMIR** is the
lowering with its edge blocks and parallel copies, **StrengthReduction** arithmetic by
constants and reciprocals of loop invariants. **MIRCombine**, **MIRPeephole** and
**MIRLayout** are the passes of the two pipelines, each an operator from a machine function
to a machine function; **MIRListScheduler** the stretches and their order. In
**MIRBackend** a step is one pass, or one round of the passes that go round; allocation
there is any of two orders of coloring with at most one register spilled, since
`MIRRegAlloc` has the rest. The `policy` of the cost model is chosen at the start, of the
three there are; global common subexpressions, reciprocals, hoisting and each stretch
scheduled before allocation are done only where `decide` (`Allows` of `MIR`) accepts the
estimate the pass makes. The conservative policy refuses all four for their confidence, the
default one a stretch that is not sooner done, the aggressive one takes that too.

**MIRVectorState** the lattice and the sweeps of the analysis (`in`, `out`), naming of
requested lengths, insertion of the sets that are missing, rounds of removal, and the
verification that refuses the function if doubt is left (`Pass`, a phase per step);
`Execute` then runs a block of the function given and of the one accepted side by side, on
any path.

`MC...` modules hold the families of instances and nothing else; `...Proofs` the theorems.

## 4. The runs

| Run | Instances | Shows |
|---|---|---|
| `rvv_dispatch` | 2 threads, 2 calls each, every kernel answer | the race implements one write-once verdict; no RVV body in a thread whose state is off, in a process without YES, or without the detector; the verdict is the one hwcap and a prober's answer warrant, both ways; every call returns and leaves a verdict published |
| `coloring` | all graphs of 4 nodes, 2 colors, forbidden registers, 2 cost orders, hints | colors are proper, spills justified, low degree nodes get a color |
| `regalloc` | 705 functions, 3 allocatable and 2 scratch registers | allocated code reads the values the original reads on all paths; liveness is exactly liveness; the rounds end |
| `sat` | over 1500 formulas of 3 variables, assumptions, all budgets tight, a deadline | verdicts true, watch lists exact, propagation complete, budgets honoured, DPLL implemented, every solve ends |
| `mem2reg` | 136 functions over 6 graphs, one cell over 686 graphs, every order of walks and hash sets | the dominator tree is right and decides by intervals; same behaviour, SSA at the end, phis on iterated frontiers, held values dominate; the tree ends |
| `scalar` | 1608 functions over 4-bit integers, both iterations of the ranges cut off | constants cover every run, the lattice climbs to a fixpoint, intervals and entries hold wherever they are cut off, intervals only shrink, the rewriting is not visible, the sweeps end |
| `pipeline` | 238 functions through the whole stretch, 1531 more threaded or only cleaned | lists, branches and phis agree after every step; every step keeps SSA form and behaviour; at the end nothing is left; it ends |
| `backend` | 132 functions from OIR to scheduled code, three cost policies, every register spilled in turn | after every pass the machine function shows what its source shows |
| `vector_state` | 2624 functions | what is accepted runs as the source asks; the analysis ends in what all paths agree on; nothing is refused without a reason; it ends |
| `scalar_wrong`, `pipeline_wrong`, `backend_wrong` | two, eleven and two small families | the findings (section 8); every family violates alone too |

Every property of a passing run has a mutant in `PROJECT.json`: an operator beside the
one it replaces, named `<operator>_<what is wrong>`, that a plausible bug would make
of it, and that makes the run fail.

`CHECK_DEADLOCK FALSE` is said in the configurations whose system ends by design (a
pass, a solve, a coloring). `rvv_dispatch` keeps the check on.

`Converges` holds for the palettes of the real target (24 integer colors, 3 scratch
registers) and for the one checked; with one allocatable or one scratch register the
rounds do run out, and that is not claimed.

`OnlyNarrows` says nothing of a function with a remainder: `srem` by 3 gives [-2, 0] for
[-1, 0] and [0, 2] for [0, 0] (`OIRValueRange.cpp:187`), so its interval may move while
that of its operand shrinks. What both say is true (`RangesHold`).

`RefusesOnlyTheUnknown` has one exception, `Overtaken`: `insert_required_sets` asks the
states it had before its own insertions (`MIRVectorStatePass.cpp:164`), so an instruction
below a block that was given a set may meet, on some path, a type or policies it had not met
then, and the function is refused. In a diamond of which one side is given a policy set this
is a policy-only difference at the join, which `docs/mir-design.md:519-521` says is repaired.
It fails closed: the verification refuses what would be wrong. The exception asks for just
that: the length is known, type or policies do not fit, and a block with an insertion leads
there.

## 5. Bounds, and why they are enough

- *RVV*: two threads suffice for a race on one compare-exchange (a third loser sees what
  the second sees) and two calls for a call that hits the cache; the proofs have no
  bound.
- *Coloring*: four nodes and two colors have cliques too large, optimistic colorings that
  succeed (a cycle) and fail; the proofs have no bound.
- *Register allocation*: five virtual registers on three colors make two rounds of
  spilling; with two scratch registers an instruction on three spilled registers needs a
  fresh one. `MaxIterations` is 4, for 12, which makes `Converges` say more: no function of
  the families takes a fifth round. `MaxBlocks = 5` blocks of execution go twice around
  the loops. Calls, argument moves in both orders, parameter copies and a clobbering
  pseudo-instruction are in the families.
- *SAT*: three variables give decisions at two levels with both branches, lists that move
  and come back, and unsatisfiable formulas without unit clauses (the eight of
  `AllSigns`). Budgets are 0, 1, or the count at which the interesting step falls; `vars`
  one below and at the number of variables.
- *OIR passes*: `W = 3` or `4` has a smallest integer whose negation wraps, and both
  signs; the operators treat every width alike. `Fuel` is the number of blocks a run is
  followed: at least twice around each loop of a family. Five blocks have loops with one
  and two entries, self loops, loops left in the middle, doubled edges, empty blocks in
  chains and unreachable blocks. Three blocks besides the entry have irreducible loops on
  which one sweep does not find the dominators: the mutant that stops after one fails.
- *Ranges*: `MaxSweeps = 3` and `MaxIterations = 2`, for 32 and 64, are reached, so that
  what is known in the middle of either iteration is used and checked.
- *Pipeline*: `MaxIterations` of threading is 3, for 32, and reached. `LargeBlocks` and
  `LargeInstrs` (1000 and 8000) are at the edge of what the families hold, so that
  functions just too large, which are only pruned, occur too. A block that repeats its
  predecessor's test holds nothing else and no phi takes another phi of its block; clearing
  of memory comes first and through the array itself; accesses are in bounds and a
  function has two addresses at most; no array is used only inside a loop. Without these
  restrictions the properties fail, as the run `pipeline_wrong` shows.
- *Scalar*: no function has an `or`, and what a larger-of phi subtracts from
  does not wrap: `scalar_wrong` shows both.
- *Back end*: `W = 4` with registers of 8 bits and immediates of 3: constants that fit
  and that do not, the smallest divisor, products that need the upper half. Windows of 4
  instructions, for 64 and 8, are filled. Under the default policy each register a function
  has is spilled, one after the other and in both orders of coloring; of the reciprocals
  of divisions, whose functions have some sixty registers, those the loop reads. `Stretches`
  has one stretch the default policy accepts and one it refuses in the same block. No
  function gives one sum to two arguments of a call, and products of constant divisions are
  not spilled: `backend_wrong` shows both.
- *Vector state*: six blocks executed go through each diamond and twice round each loop;
  two lengths, one the largest, tell the requests apart.

## 6. Fairness

The compiler's passes and a solve run in one thread with no wait: if a step can be taken,
it is, so weak fairness of the next-state relation is what the code justifies: of `Step`
for the solver (the deadline need not pass), of `Next` of constant propagation in
`scalar`, of `FindTree` in `mem2reg`, of `Pass` in `vector_state` (the execution beside it
need not go on). For the pipeline, `GoesOn` is the weak fairness of `PipelineNext` with
what `ENABLED` comes to written out, as a pass that does not end is never over. In the
runtime each thread runs on its own, without locks or retries: weak fairness of each
thread's `CallStep`, and none of `SetControl` or of new calls.

## 7. The proofs

Checked by TLAPS. They rest on the named assumptions only, which TLC evaluates in the
runs: `BoundAssumption`; `PaletteAssumption` and `ProblemsAssumption` (finite graphs
without loops, no color twice); `NumVarsAssumption` and the solver's `ProblemsAssumption`
(clauses over the variables that repeat none); `ProgramsAssumption` of each pass (lists of
blocks and instructions; for promotion and the scalar passes also what the verifier
demands, `WellFormed`, and the types of operands); `InputsAssumption` (runs are given
integers); `EntryAssumption` (finitely many blocks, of which the first is the entry);
`WidthAssumption` and `LimitsAssumption`. Allocation has two more. `RegistersAssumption`
is about the target: no list names a register twice, and of the palette a call overwrites
only what the caller saves. `CodeAssumption` is about what selection and the passes
before hand over: no path reads a virtual register before writing it, and a physical
register lives within a block, next to the copies around a call or at the entry, with
nothing in between that the allocator could make overwrite it. It is asked of the given
function only; what the proof needs of rewritten ones is part of the invariant.

- `RVVRuntimeProofs`. For any set of threads. The inductive invariant adds to the
  properties what a thread knows at each location (`ThreadInv`): once past the stub the
  detector is linked, at the exchange what it heard warrants what it detected
  (`Warranted`), at `select` with an answer its vector state is on. Another thread cannot
  take that away since the verdict is final and control is the thread's own; nor is the
  evidence for a verdict lost, since a thread probes only while there is none and so at
  most once. Gives `TypeCorrect`, `DispatchSafe`, `VerdictAlwaysJustified`, `Final`, and `Refinement`: the specification implements `WriteOnce` (a
  probe and a lost compare-exchange are stutters, a won one decides and tells).
- `ColorGraphProofs`. For any finite problem and palette. The properties are not
  inductive: `LowDegreeColored` needs, for every node still on the stack that was pushed
  by the degree test, that fewer than `K` of its neighbours can have been colored
  when it is popped (`FewAbove`); this needs that the stack holds each node once and that
  every node is in the graph, on the stack, colored or spilled (`StackInv`,
  `Accounted`). That the first available register among the wishes exists comes from
  `LeastMember`, which stands in for induction. Gives `TypeCorrect`, `ColoringSound`,
  `SpillsJustified`, `LowDegreeNeverSpilled`, `NothingLost`.
- `DPLLProofs`. For any number of variables and any clauses. The invariant says where
  models can still be: each agrees with the whole trail or leaves it first at a decision
  whose other branch is untried. Unit implication keeps it since a model must hold the
  last literal of the clause; a conflict excludes the first case; flipping the newest open
  decision moves the models that left there into the first. Gives `Soundness`: Unsat only
  without a model, Sat only with one, also of a search that may give up anywhere.
- `SatSolverProofs`. For any formula, assumptions and limits. The invariant relates the
  trail to the assignment, the frames to the levels of the trail, every clause to its two
  places in the lists, and the part of the trail already propagated to the watched
  literals: a watched literal whose falsehood has been propagated has the other watch of
  its clause true, in no later level, so that backtracking cannot take that away first
  (`QueueOK`). Gives `LimitsAlwaysHonoured`,
  `WatchListsAlwaysExact`, `PropagationAlwaysComplete`, and `Refinement`: a step is a step
  of `DPLL` or a stutter. With `Soundness`, and that the clauses given to `DPLL` have the
  models of the problem under its assumptions (`SameModels`), that gives
  `VerdictAlwaysSound`.
- `MIRRegAllocProofs`. For any function and in every round of spilling. The sets never hold a
  register no path reads (`OnlyExposed`), and in a sweep that has changed nothing so far the
  blocks behind the cursor are balanced (`SweepOK`); when it ends, all are, and a path along
  which a register is missing would have to leave the sets somewhere. Gives
  `LivenessAlwaysExact`.

  That the code is right goes through a strict machine, on which whatever allocation may
  give away around an instruction is poison: what a call loses, what the result may be
  given, the scratch registers. The given function never reads poison, so it simulates itself
  (`OriginalSimulates`). Each rewriting of spills keeps a simulation (`RewriteSound`), one
  instruction at a time: reloads, constants made again, the instruction with its scratch
  and fresh registers, stores; no two spilled registers share a slot and no instruction
  still names a register that has one (`SlotsApart`). A coloring without spills keeps every
  live register in its color (`ColoredStep`), since it is proper: `ColorGraphProofs`,
  instantiated on the allocator's variables. `VInv` says this of every phase. Gives
  `ValuesAlwaysSame`: `SameValues` in every behaviour in which every reload finds a scratch
  register (`ReloadsFit`). The hypothesis is about a corner: without a free scratch
  register a reload gets a fresh one, which may be spilled in the next round, among the
  scratch registers the round before has filled. `RoomyValuesAlwaysSame` proves it away
  for functions whose instructions name no more registers than there are scratch
  registers; the code has three of each class, and no scalar opcode takes more. With two
  scratch registers, as in `regalloc`, its functions are not all roomy, yet TLC finds
  `ReloadsFit` true in all of them; with three they are roomy, and still spill.
- `DominatorTreeProofs`. For any finite graph, and any order of the walk. The invariant:
  the stack of the walk is a path, and a block is finished before those on every path to it
  and before the one it was found from (`DfsOK`), so that in the order they come first
  (`OrderOK`); what strictly dominates a block dominates its candidate or is it, so that no
  candidate is ever above a strict dominator, and in a sweep that has changed nothing the
  candidates of the blocks behind are above all their predecessors (`SweepsOK`, and for the
  fingers in the middle of `intersect`, `MeetOK`); at the fixpoint candidates therefore are
  dominators, and immediate (`TreeOK`); intervals nest along the tree (`WalkOK`). Induction
  over the tree goes through the least index. Gives `DominatorsAlwaysFound` and
  `IntervalsAlwaysDecide`.
- `OIRMem2RegProofs`. The tree promotion reads is that one (`TreeInvariance`:
  the steps of `FindTree` are steps of `DominatorTree` and the rest of the pass leaves it
  alone), hence `TreeAlwaysFound`, `IntervalsAlwaysDecide`. Placement: the queue of a
  cell holds every block that defines it, by a store or by a phi, those taken out have their
  frontier, and cells done stay done since adding phis for another keeps
  stores (`PhiInvariance`). Gives `PhisAlwaysOnFrontier`, in every order of the hash sets.
  Renaming (`WalkInvariance`): the blocks on the stack are a way down the tree, and what
  each of them has saved leads back, one level at a time, to what the cells held when it
  was entered, down to nothing (`LevelsOK`, with the levels as witness); a level holds only
  values of the blocks above it. Gives `HeldValuesAlwaysDominate`.
- `OIRScalarProofs`. For any width, functions and limits, and for both passes in a row.
  `ClimbsOnly`: joins only climb. `AlwaysEndsSettled`: while a sweep of constant
  propagation has changed nothing, all that lies behind it in executable blocks is settled
  (`SettledBehind`), whatever changes is noticed. `NarrowsOnly`: the intervals known are
  inside those of their types (`Tight`) and no narrower than what their instructions would
  be given now (`Consistent`); an instruction therefore gets a narrower interval than it
  had, and since every operation but the remainder is monotone (`EvalNarrows`, by way of
  the products of four corners, division towards zero, unions of the entries of a phi and the
  larger-of shape), putting it in place keeps both. It needs that the rewriting of
  constants keeps the function's shape and its constants in the type (`FunctionKept`).
  `ConstantsAlwaysCoverRuns`: whatever a run has computed agrees with what was found of it
  (`Fits`, `DataOK`), block after block, since at the end every instruction of an executable
  block is settled and the machine agrees with the folding (`BinaryFits`, `CmpFits`, and
  `PhiFits` for the entry the run comes from). It needs that phis have an entry for every
  predecessor, as the verifier demands, and that what is found of one bit is 0 or 1
  (`BitsFound`). Its hypotheses are that the functions have no `or`, of which the
  property is false (`scalar_wrong`), and call no function of the module, whose runs would
  need induction over calls; every function of `scalar` satisfies both.

Only model-checked, and why:

- liveness (`EveryCallSettles`, `Terminates`, `TreeEnds`, `Finishes`, `Converges`' rounds):
  fairness is out of the prover's reach;
- what compares runs of functions (`SameBehaviour`, `SameScalarBehaviour`, `RangesHold`,
  `RunsAsAsked`): each needs the simulation of one pass by its output that the allocator
  has, and for chains of passes, of every one of them;
- `StaysSSA`, `EdgesAgree`, `Settled`: the rewritings are folds and choices of the first
  match over sequences, about which nothing general is proved;
- `MeetOverPaths`, `RefusesOnlyTheUnknown`: the sets of paths are recursive.

## 8. Findings

Fifteen, each in `PROJECT.json` at its line with what it contradicts.

- `scalar_wrong`: `or` of two constants has no rule and stays Unknown, which joins with
  anything (`OIRScalarOptUtils.cpp:150`); the larger of `x` and `n - x` is bounded by
  half of `n` although `n - x` may wrap (`OIRValueRange.cpp:281`).
- `pipeline_wrong`: a block that repeats its predecessor's test is jumped past with its
  stores and calls (`OIRJumpThreadingPass.cpp:156`), and a value is followed through phis
  of one block one after the other (`:48`). The clearing of memory is overlooked by memory
  SSA, dead loads, write-backs and invariant motion (`OIRAnalysis.cpp:2176`,
  `OIRDeadLoadEliminationPass.cpp:52`, `OIRDeadStoreEliminationPass.cpp:629`,
  `OIRLICMPass.cpp:130`). A load is moved before a guard, and a sum above its operand
  (`OIRLICMPass.cpp:222`, `:328`). The clearing of an array is sunk into a loop, or for ever
  (`OIRDeadStoreEliminationPass.cpp:504`, `:487`), and a store a load may need is dropped
  (`:602`).
- `backend_wrong`: the 64-bit product of a constant division is spilled to four bytes
  (`MIRRegAllocPass.cpp:758`); an addition and the move of its sum to an argument are made
  one although a call reads the first register (`MIRBlockSimplifyPass.cpp:32`).

Not shown by a run, and worth a look: a conditional branch with both targets the same gets
no phi copies (`OIRToMIRVRegLowerer.cpp:7772`) and only the constraint of its true side in
the ranges, relying on the cleanup having folded it; a compare of a register with itself
becomes two jumps, of which `rebuild_cfg` sees one; copies are coalesced with use counts
taken before; value numbering says nothing changed when only operands did.

## 9. What is not modelled

- Front end, YIR construction and lowering to OIR: translations directed by syntax, whose
  model would be a second translation.
- The polyhedral pipeline and the vectorizers: their legality is linear algebra over
  unbounded spaces or lane-wise data; only the tests over small vectors would fit TLC.
- Loop and interprocedural transforms: one pattern at a time.
- Floats and `getelementptr` in SCCP; the pass object for pruning only and the other scalar
  rewrites of `OIRLocalSimplify.cpp` in the cleanup.
- Memory passes: the fallback for functions of more than 1000 blocks or 8000 instructions,
  the memo table of `find_pointer_clobber`, addresses of several levels (they are words),
  external functions that take addresses. The order of the tree's children is that of the
  function; loops of one size are taken in any order. The passes of
  `run_aggressive_iteration` in between and its limit of eight rounds are left out.
- Back end: address modes and folded offsets, pointer loop exits, vectors, floats,
  aggregates, arguments on the stack, the expansion of pseudo-instructions. Without pointer
  loop exits, the jump cleanup that follows them is still run.
- Vector state: the final verifier, which asks the same analysis once more
  (`MIRVerifier.cpp:272`).
- Vector registers in `MIRRegAlloc` (`run_vector_allocation`).
- Bit blasting, the cache of proof obligations, publication of fat assembly, the alias
  runtime: their hazards are listed in `PROJECT.json` without a property.
- Estimates of the cost models other than those the passes on MIR ask for, target tables,
  printing, drivers and I/O. The cost report is always there when anything is optimized
  (`PipelineBuilder.cpp:246-255`), so the policy always applies.
