------------------------------ MODULE MIRRegAlloc -----------------------------
(***************************************************************************)
(* RegAllocator::run of pass/mir/MIRRegAllocPass.cpp on one function and   *)
(* one register class: liveness by sweeps to a fixpoint, the interference  *)
(* graph, color_graph (module ColorGraph, step by step), and either the    *)
(* rewriting of the spilled registers for another round or the physical    *)
(* registers put in place.  What comes out is then executed beside what    *)
(* went in: both must read the same values.                                *)
(*                                                                         *)
(* A register is an integer: a virtual one its id (positive), a physical   *)
(* one negative.  The two classes of the code share no register and no     *)
(* color, so the loop over them is one of these allocations per class.     *)
(***************************************************************************)
EXTENDS Integers, Sequences, SequencesExt, FiniteSets, FiniteSetsExt

CONSTANTS Programs,       \* functions before allocation
          Physical,       \* physical registers of the class
          Palette,        \* allocatable(reg_class)
          CallerSaved,    \* caller_saved(reg_class)
          CalleeSaved,    \* callee_saved(reg_class), in order
          CallClobbers,   \* what a call may overwrite on the machine
          Scratch,        \* spill_scratch_registers(reg_class), in order
          ZeroClobbers,   \* physical defs of the expanded MemZero
          MaxIterations,  \* kMaxRewriteIterations
          MaxBlocks,      \* bound: blocks executed after allocation
          None

\* A function has blocks, and edges between them; the target names its registers.
ASSUME ProgramsAssumption ==
  \A p \in Programs : /\ p.code \in Seq(Range(p.code)) /\ p.code # << >>
                      /\ p.succ \in [DOMAIN p.code -> SUBSET DOMAIN p.code]
ASSUME RegistersAssumption ==
  /\ \A r \in Physical : r \in Int /\ r < 0
  /\ None \notin Physical
  /\ Palette \in Seq(Physical) /\ \A j, k \in DOMAIN Palette : Palette[j] = Palette[k] => j = k
  /\ Scratch \in Seq(Physical) /\ \A j, k \in DOMAIN Scratch : Scratch[j] = Scratch[k] => j = k
  /\ CalleeSaved \in Seq(Physical)
  /\ CallerSaved \cup CallClobbers \cup ZeroClobbers \subseteq Physical
  /\ CallClobbers \cap Range(Palette) \subseteq CallerSaved

VARIABLES phase, iteration,
          code,           \* code[b]: the instructions of block b
          original,       \* code before allocation
          succ,           \* succ[b]: the successors of block b
          regs,           \* virtual registers created so far
          liveIn, liveOut, \* of each block
          cursor,         \* block the liveness sweep is at
          changed,        \* has this sweep changed anything?
          problem, remaining, stack, lowDegree, color, spills,  \* color_graph
          at,             \* block to execute next, 0 when the run is over
          clock,          \* blocks executed
          before, after,  \* register files: original and allocated function
          readBefore, readAfter  \* what the last block read in each

flowVars == <<liveIn, liveOut, cursor, changed>>
progVars == <<code, original, succ, regs>>
colorVars == <<problem, remaining, stack, lowDegree, color, spills>>
execVars == <<at, clock, before, after, readBefore, readAfter>>
vars == <<phase, iteration, progVars, flowVars, colorVars, execVars>>

CG == INSTANCE ColorGraph WITH Registers <- Physical, Problems <- {}

Blocks == DOMAIN code
Virtual(r) == r > 0

\* The element of a set of one.
The(S) == CHOOSE x \in S : TRUE

\* A set of integers in order.
Ascending(S) ==
  CHOOSE q \in [1 .. Cardinality(S) -> S] : \A j, k \in DOMAIN q : j < k => q[j] < q[k]

-----------------------------------------------------------------------------
(* Instructions: [op, def, uses, imp, slot, id].  def holds at most one       *)
(* register; uses are explicit operands in order; imp the implicit physical   *)
(* uses; slot the spill slot of a LoadSlot or StoreSlot, named by the         *)
(* register that was spilled; id the place of the instruction in the source;  *)
(* op is "op" where the kind makes no difference to allocation.               *)

Kinds == {"imm", "move", "load", "store", "call", "memzero", "op"}
UseSet(i) == Range(i.uses)
VirtualUses(i) == {r \in UseSet(i) : Virtual(r)}
VirtualDefs(i) == {r \in i.def : Virtual(r)}

\* A move between two virtual registers of the class: its destination.
IsVirtualMove(i) == i.op = "move" /\ Virtual(i.uses[1]) /\ \A d \in i.def : Virtual(d)

LoadSlot(r, v) == [op |-> "load", def |-> {r}, uses |-> << >>, imp |-> {}, slot |-> v, id |-> 0]
StoreSlot(r, v) == [op |-> "store", def |-> {}, uses |-> <<r>>, imp |-> {}, slot |-> v, id |-> 0]

Sites == UNION {{b} \X DOMAIN code[b] : b \in Blocks}
At(p) == code[p[1]][p[2]]

-----------------------------------------------------------------------------
(* compute_liveness *)

ReadFirst(instrs) ==
  {r \in UNION {VirtualUses(instrs[i]) : i \in DOMAIN instrs} :
     \E i \in DOMAIN instrs :
       r \in VirtualUses(instrs[i]) /\ \A j \in 1 .. i - 1 : r \notin VirtualDefs(instrs[j])}
Written(instrs) == UNION {VirtualDefs(instrs[i]) : i \in DOMAIN instrs}
BlockUse(b) == ReadFirst(code[b])
BlockDef(b) == Written(code[b])

EnterLiveness(n) == /\ liveIn' = [b \in 1 .. n |-> {}]
                    /\ liveOut' = [b \in 1 .. n |-> {}]
                    /\ cursor' = n
                    /\ changed' = FALSE

\* Mutant: one sweep is taken to be enough.
LivenessStep_OneSweep ==
  /\ phase = "liveness"
  /\ LET out == UNION {liveIn[s] : s \in succ[cursor]}
         in  == BlockUse(cursor) \cup (out \ BlockDef(cursor))
     IN  /\ liveIn' = [liveIn EXCEPT ![cursor] = in]
         /\ liveOut' = [liveOut EXCEPT ![cursor] = out]
         /\ cursor' = IF cursor > 1 THEN cursor - 1 ELSE Len(code)
         /\ phase' = IF cursor > 1 THEN "liveness" ELSE "build"
  /\ UNCHANGED <<changed, iteration, progVars, colorVars, execVars>>

\* One block of a sweep; the blocks are visited from last to first.
LivenessStep ==
  /\ phase = "liveness"
  /\ LET out == UNION {liveIn[s] : s \in succ[cursor]}
         in  == BlockUse(cursor) \cup (out \ BlockDef(cursor))
         moved == in # liveIn[cursor] \/ out # liveOut[cursor]
     IN  /\ liveIn' = [liveIn EXCEPT ![cursor] = in]
         /\ liveOut' = [liveOut EXCEPT ![cursor] = out]
         /\ IF cursor > 1
            THEN /\ cursor' = cursor - 1
                 /\ changed' = (changed \/ moved)
                 /\ UNCHANGED phase
            ELSE /\ cursor' = Len(code)
                 /\ changed' = FALSE
                 /\ phase' = IF changed \/ moved THEN "liveness" ELSE "build"
  /\ UNCHANGED <<iteration, progVars, colorVars, execVars>>

-----------------------------------------------------------------------------
(* allocate_class: interference, forbidden registers, preferences, costs *)

\* The registers live right after each instruction of a block.
LiveAfterIn(b) ==
  LET n == Len(code[b])
      live[k \in 0 .. n] ==     \* k instructions from the end
        IF k = 0 THEN liveOut[b]
        ELSE LET i == code[b][n - k + 1]
             IN  (live[k - 1] \ VirtualDefs(i)) \cup VirtualUses(i)
  IN  [i \in 1 .. n |-> live[n - i]]

\* v is defined by i while w stays live, w not being the source of the move i.
DefMeets(i, v, w, live) ==
  /\ v \in i.def
  /\ w \in live
  /\ ~ (IsVirtualMove(i) /\ w = i.uses[1])

Interfere(v, w, live) ==
  /\ v # w
  /\ \E p \in Sites :
       \/ v \in UseSet(At(p)) /\ w \in UseSet(At(p))
       \/ DefMeets(At(p), v, w, live[p[1]][p[2]])
       \/ DefMeets(At(p), w, v, live[p[1]][p[2]])

\* Mutant: a definition may take a register a later parameter copy reads.
Takes_NoImplicit(i, v, live) ==
  (IF i.op = "call" /\ v \in live \ i.def THEN CallerSaved ELSE {})
  \cup (IF i.op = "memzero" /\ v \in live THEN ZeroClobbers ELSE {})
  \cup (IF v \in live THEN {d \in i.def : ~ Virtual(d)} ELSE {})

\* The physical registers instruction i takes away from v.
Takes(i, v, live) ==
  (IF i.op = "call" /\ v \in live \ i.def THEN CallerSaved ELSE {})
  \cup (IF i.op = "memzero" /\ v \in live THEN ZeroClobbers ELSE {})
  \cup (IF v \in live THEN {d \in i.def : ~ Virtual(d)} ELSE {})
  \cup (IF v \in i.def THEN i.imp ELSE {})

\* The sites in the order the preferences are noted: blocks forward,
\* instructions backward.
ScanOrder ==
  FlattenSeq([b \in 1 .. Len(code) |->
                [k \in 1 .. Len(code[b]) |-> <<b, Len(code[b]) - k + 1>>]])

Hints(Hint(_)) == FlattenSeq([k \in 1 .. Len(ScanOrder) |-> Hint(ScanOrder[k])])

PhysicalHint(i, v, live) ==
  (IF i.op = "move" /\ v \in i.def /\ ~ Virtual(i.uses[1]) THEN <<i.uses[1]>> ELSE << >>)
  \o (IF i.op = "move" /\ v = i.uses[1]
      THEN Ascending({d \in i.def : ~ Virtual(d)}) ELSE << >>)
  \o (IF i.op = "call" /\ v \in live \ i.def THEN CalleeSaved ELSE << >>)

VirtualHint(i, v) ==
  IF ~ IsVirtualMove(i) THEN << >>
  ELSE IF v \in i.def /\ v # i.uses[1] THEN <<i.uses[1]>>
  ELSE IF v = i.uses[1] /\ v \notin i.def THEN Ascending(i.def)
  ELSE << >>

\* collect_rematerializable_defs: the one definition is a constant load.
DefSites(v) == {p \in Sites : v \in At(p).def}
Rematerializable(v) == \E p \in Sites : DefSites(v) = {p} /\ At(p).op = "imm"
RematDef(v) == At(CHOOSE p \in Sites : v \in At(p).def)

\* estimate_loop_depths: every edge to a block not after its source counts for
\* the blocks in between.
LoopDepth(b) ==
  Cardinality({e \in Blocks \X Blocks : e[2] \in succ[e[1]] /\ e[2] <= b /\ b <= e[1]})

\* compute_spill_costs, in units of 1/200 so that all terms are integers.
SpillCost(v, live) ==
  LET weight(p) == 10 ^ LoopDepth(p[1])
      site(p) == weight(p) * ( 200 * Cardinality({k \in DOMAIN At(p).uses : At(p).uses[k] = v})
                             + 100 * (IF v \in At(p).def THEN 1 ELSE 0)
                             + 1600 * (IF /\ At(p).op = "call"
                                          /\ v \in live[p[1]][p[2]] \ At(p).def
                                       THEN 1 ELSE 0))
      cost == 20 + MapThenSumSet(site, Sites)
  IN  IF Rematerializable(v) THEN cost \div 20 + 10 ELSE cost

ColoringProblem(live) ==
  [nodes |-> regs,
   adj |-> [v \in regs |-> {w \in regs : Interfere(v, w, live)}],
   forbidden |-> [v \in regs |-> UNION {Takes(At(p), v, live[p[1]][p[2]]) : p \in Sites}],
   cost |-> [v \in regs |-> SpillCost(v, live)],
   phys |-> [v \in regs |-> Hints(LAMBDA p : PhysicalHint(At(p), v, live[p[1]][p[2]]))],
   virt |-> [v \in regs |-> Hints(LAMBDA p : VirtualHint(At(p), v))]]

Build ==
  /\ phase = "build"
  /\ \E live \in {[b \in Blocks |-> LiveAfterIn(b)]} : problem' = ColoringProblem(live)
  /\ remaining' = regs
  /\ stack' = << >>
  /\ lowDegree' = {}
  /\ color' = [v \in regs |-> None]
  /\ spills' = {}
  /\ phase' = "color"
  /\ UNCHANGED <<iteration, progVars, flowVars, execVars>>

ColorStep ==
  /\ phase = "color"
  /\ CG!Next
  /\ UNCHANGED <<phase, iteration, progVars, flowVars, execVars>>

-----------------------------------------------------------------------------
(* rewrite_spills *)

Substitute(i, map) ==
  [i EXCEPT !.def = {IF d \in DOMAIN map THEN map[d] ELSE d : d \in i.def},
            !.uses = [k \in DOMAIN i.uses |->
                        IF i.uses[k] \in DOMAIN map THEN map[i.uses[k]] ELSE i.uses[k]]]

SpilledUses(i) == UseSet(i) \cap spills
SpilledDefs(i) == i.def \cap spills

\* The scratch registers an instruction does not mention itself.
Pool(i) ==
  LET free == {k \in DOMAIN Scratch : Scratch[k] \notin UseSet(i) \cup i.def \cup i.imp}
  IN  [k \in 1 .. Cardinality(free) |-> Scratch[Ascending(free)[k]]]

\* The spilled registers of i in the order allocate_replacement meets them.
Replaced(i) == Ascending(SpilledUses(i)) \o Ascending(SpilledDefs(i) \ SpilledUses(i))

\* Registers that find no scratch are replaced by fresh virtual ones.  Only the
\* order of their ids matters: creation order, above all others.
FreshId(p, k) == Max(regs) + 100 * p[1] + 3 * p[2] + k
FreshAt(p) == {FreshId(p, k) : k \in 1 .. Len(Replaced(At(p))) - Len(Pool(At(p)))}

Replacement(p) ==
  LET names == Replaced(At(p))
      pool == Pool(At(p))
      rank(v) == CHOOSE k \in DOMAIN names : names[k] = v
  IN  [v \in Range(names) |-> IF rank(v) <= Len(pool) THEN pool[rank(v)]
                              ELSE FreshId(p, rank(v) - Len(pool))]

\* The reload of v before its use: the constant again, or the slot.
Reload(v, r) == IF Rematerializable(v) THEN [RematDef(v) EXCEPT !.def = {r}]
                                       ELSE LoadSlot(r, v)

\* Mutant: the reloads are emitted and the operands left as they were.
RewriteAt_KeepsOperands(p) ==
  LET i == At(p)
      to == Replacement(p)
      loads == Ascending(SpilledUses(i))
      stores == Ascending(SpilledDefs(i))
  IN  IF \E v \in SpilledDefs(i) : Rematerializable(v)
      THEN << >>
      ELSE [k \in DOMAIN loads |-> Reload(loads[k], to[loads[k]])]
           \o <<i>>
           \o [k \in DOMAIN stores |-> StoreSlot(to[stores[k]], stores[k])]

RewriteAt(p) ==
  LET i == At(p)
      to == Replacement(p)
      loads == Ascending(SpilledUses(i))
      stores == Ascending(SpilledDefs(i))
  IN  IF \E v \in SpilledDefs(i) : Rematerializable(v)
      THEN << >>
      ELSE [k \in DOMAIN loads |-> Reload(loads[k], to[loads[k]])]
           \o <<Substitute(i, to)>>
           \o [k \in DOMAIN stores |-> StoreSlot(to[stores[k]], stores[k])]

RewriteSpills ==
  /\ code' = [b \in Blocks |-> FlattenSeq([i \in DOMAIN code[b] |-> RewriteAt(<<b, i>>)])]
  /\ regs' = regs \cup UNION {FreshAt(p) : p \in {q \in Sites : RewriteAt(q) # << >>}}

\* run: a round that spilled is rewritten, and the last one allowed fails.
Rewrite ==
  /\ phase = "color" /\ CG!Done /\ spills # {}
  /\ RewriteSpills
  /\ iteration' = iteration + 1
  /\ phase' = IF iteration' = MaxIterations THEN "failed" ELSE "liveness"
  /\ EnterLiveness(Len(code))
  /\ UNCHANGED <<original, succ, colorVars, execVars>>

-----------------------------------------------------------------------------
(* Execution of both functions, to compare them *)

\* What a register holds: the value named by the kind and place of the
\* instruction that made it and the block count at which it did.
Value(kind, n, t) == <<kind, n, t>>

\* What an instruction gives, at time t, the register it defines; a file also
\* holds the spill slots, under the ids of the registers spilled there.
Result(i, file, t) ==
  CASE i.op = "imm"  -> Value("imm", i.id, 0)
    [] i.op = "move" -> file[i.uses[1]]
    [] i.op = "load" -> file[i.slot]
    [] OTHER         -> Value("op", i.id, t)

\* The physical registers that hold nothing of use after it.
Lost(i) == (IF i.op = "call" THEN CallClobbers ELSE {})
           \cup (IF i.op = "memzero" THEN ZeroClobbers ELSE {})

\* One instruction on a register file.
Step(i, file, side, t) ==
  [r \in DOMAIN file |->
     IF r \in i.def THEN Result(i, file, t)
     ELSE IF i.op = "store" /\ r = i.slot THEN file[i.uses[1]]
     ELSE IF r \in Lost(i) THEN Value("junk", side, t)
     ELSE file[r]]

\* The values an instruction of the source program reads, copies and constants
\* apart: those are judged where their result is read.
Silent == {"imm", "move", "load", "store"}
Seen(i, s) ==
  IF i.op \in Silent THEN s.reads
  ELSE Append(s.reads, [id |-> i.id, uses |-> [k \in DOMAIN i.uses |-> s.file[i.uses[k]]],
                        imp |-> [r \in i.imp |-> s.file[r]]])

RunBlock(instrs, file, side, t) ==
  LET run[k \in 0 .. Len(instrs)] ==
        IF k = 0 THEN [file |-> file, reads |-> << >>]
        ELSE The({[file |-> Step(instrs[k], s.file, side, t), reads |-> Seen(instrs[k], s)] : s \in {run[k - 1]}})
  IN  run[Len(instrs)]

\* On entry the physical registers hold the same in both; nothing else does.
EntryFile(domain, side) ==
  [r \in domain |-> IF Virtual(r) THEN Value("undef", side, 0) ELSE Value("entry", r, 0)]

\* apply_colors; the allocated function is entered.
Apply ==
  /\ phase = "color" /\ CG!Done /\ spills = {}
  /\ code' = [b \in Blocks |-> [i \in DOMAIN code[b] |-> Substitute(code[b][i], color)]]
  /\ phase' = "run"
  /\ at' = 1
  /\ before' = EntryFile(Physical \cup regs, 0)
  /\ after' = EntryFile(Physical \cup regs, 1)
  /\ UNCHANGED <<iteration, original, succ, regs, flowVars, colorVars, clock, readBefore, readAfter>>

Run ==
  /\ phase = "run" /\ at # 0 /\ clock < MaxBlocks
  /\ LET old == RunBlock(original[at], before, 0, clock)
         new == RunBlock(code[at], after, 1, clock)
     IN  /\ before' = old.file /\ readBefore' = old.reads
         /\ after' = new.file /\ readAfter' = new.reads
  /\ clock' = clock + 1
  /\ at' \in IF succ[at] = {} THEN {0} ELSE succ[at]
  /\ UNCHANGED <<phase, iteration, progVars, flowVars, colorVars>>

-----------------------------------------------------------------------------
(* What isel and the passes before hand over *)

\* Instructions over the virtual registers of names, one result at most each.
Instrs(names) ==
  {i \in [op : Kinds, def : SUBSET (Physical \cup names), uses : Seq(Physical \cup names),
          imp : SUBSET Physical, slot : names \cup {0}, id : Int] :
     /\ \A c, d \in i.def : c = d
     /\ i.op \in {"imm", "load"} => i.uses = << >>
     /\ i.op \in {"move", "store"} => Len(i.uses) = 1
     /\ i.op = "store" => i.def = {}
     /\ i.op \in {"load", "store"} => i.slot # 0}

\* The physical registers that hold, k instructions into a block, what an
\* instruction after it reads.
Awaited(instrs, k) ==
  {r \in Physical : \E m \in k + 1 .. Len(instrs) :
     /\ r \in UseSet(instrs[m]) \cup instrs[m].imp
     /\ \A j \in k + 1 .. m - 1 : r \notin instrs[j].def}

\* The physical registers that may be overwritten around an instruction: lost on
\* the machine, given to its result, or the scratch registers of its reloads.
Harmed(i) ==
  Lost(i) \cup (IF VirtualDefs(i) # {} THEN Range(Palette) \ i.imp ELSE {})
          \cup (IF VirtualUses(i) \cup VirtualDefs(i) # {} THEN Range(Scratch) ELSE {})

\* No path reads v before it writes it: the blocks of S are where v is not written yet.
WrittenFirst(p, v) ==
  \E S \in SUBSET DOMAIN p.code :
    /\ 1 \in S
    /\ \A b \in S : /\ v \notin ReadFirst(p.code[b])
                    /\ v \notin Written(p.code[b]) => p.succ[b] \subseteq S

\* A physical register lives within a block, between the copies around a call or
\* from the entry on, and nothing in between may overwrite it.
PhysicalLocal(p) ==
  \A b \in DOMAIN p.code :
    /\ \A k \in DOMAIN p.code[b] :
         (Awaited(p.code[b], k) \ p.code[b][k].def) \cap Harmed(p.code[b][k]) = {}
    /\ \A s \in p.succ[b] : Awaited(p.code[s], 0) = {}

ASSUME CodeAssumption ==
  \A p \in Programs :
    /\ IsFiniteSet(p.regs) /\ p.regs \subseteq Nat \ {0}
    /\ \A b \in DOMAIN p.code :
         /\ p.code[b] \in Seq(Instrs(p.regs))
         /\ \A k \in DOMAIN p.code[b] : p.code[b][k].op \notin {"load", "store"}
    /\ \A v \in p.regs : WrittenFirst(p, v)
    /\ PhysicalLocal(p)

-----------------------------------------------------------------------------
Init ==
  /\ \E p \in Programs : /\ code = p.code
                         /\ original = p.code
                         /\ succ = p.succ
                         /\ regs = p.regs
                         /\ liveIn = [b \in DOMAIN p.code |-> {}]
                         /\ liveOut = [b \in DOMAIN p.code |-> {}]
                         /\ cursor = Len(p.code)
  /\ changed = FALSE
  /\ phase = "liveness"
  /\ iteration = 0
  /\ problem = None /\ remaining = {} /\ stack = << >> /\ lowDegree = {}
  /\ color = << >> /\ spills = {}
  /\ at = 0 /\ clock = 0
  /\ before = << >> /\ after = << >> /\ readBefore = << >> /\ readAfter = << >>

Next == LivenessStep \/ Build \/ ColorStep \/ Rewrite \/ Apply \/ Run

Spec == Init /\ [][Next]_vars

-----------------------------------------------------------------------------
(* Properties *)

\* The allocated function reads the values the original reads, on every path,
\* across calls, copies, spills and rematerialized constants.
SameValues == readBefore = readAfter

\* Some path of blocks from b reads v, before any on it writes v: whatever holds b
\* and all that follows, up to the blocks that write v, holds one that reads it.
Exposed(v, b) ==
  \A S \in SUBSET Blocks :
    /\ b \in S
    /\ \A c \in S : v \notin BlockDef(c) => succ[c] \subseteq S
    => \E c \in S : v \in BlockUse(c)

\* The sweeps end in exactly the registers some path still reads: one too few
\* loses a value, one too many only costs a register, and neither happens.
LivenessExact ==
  phase = "build" => \A b \in Blocks : \A v \in regs :
                       /\ v \in liveIn[b] <=> Exposed(v, b)
                       /\ v \in liveOut[b] <=> \E s \in succ[b] : Exposed(v, s)

\* Spilling makes room: no function needs more than the rounds allowed.
Converges == phase # "failed"
=============================================================================
