-------------------------- MODULE OIRScalarPasses --------------------------
(***************************************************************************)
(* Constant propagation, then value ranges of what it leaves, as the       *)
(* pipeline runs them on one function (cleanup_after_tail_recursion,       *)
(* src/pass/oir/OIROptimizationPipelinePass.cpp).                          *)
(***************************************************************************)
EXTENDS OIRSCCP

CONSTANTS MaxSweeps, MaxIterations   \* the limits of the value ranges
ASSUME LimitsAssumption == MaxSweeps \in Nat \ {0} /\ MaxIterations \in Nat

VARIABLES ranges, entries, local, replacements, \* of OIRValueRange, which works on
          at_block, at_index,                   \* the result of OIRSCCP and leaves
          moved, rounds, stage, final           \* its own in final
range_vars == <<ranges, entries, local, replacements, at_block, at_index, moved, rounds, stage, final>>

VR == INSTANCE OIRValueRange WITH
         f <- result, block <- at_block, index <- at_index, changed <- moved,
         phase <- stage, result <- final

(* Functions in SSA form: an instruction defines at most one value and no  *)
(* other defines it, a phi has an entry for each predecessor, and integers *)
(* are those of the type.  Nothing subtracts single bits.                  *)
IsOperand(v) ==
    /\ IsConst(v) => v[2] \in VR!Smallest..VR!Largest
    /\ IsVal(v) => v[2] # 0
IsInstr(i) ==
    /\ DOMAIN i = {"op", "id", "bits", "args", "to"}
    /\ i.args \in Seq(ToSet(i.args)) /\ i.to \in Seq(ToSet(i.to))
    /\ \A v \in ToSet(i.args) : IsOperand(v)
    /\ i.op \in BinaryOps \cup CmpOps => Len(i.args) = 2
    /\ i.op = "zext" => Len(i.args) = 1
    /\ IsPhi(i) => Len(i.to) = Len(i.args)
    /\ i.op = "sub" => i.bits # 1
    /\ i.op = "br" => i.id = 0
IsFunction(g) ==
    /\ DOMAIN g = {"order", "body"}
    /\ g.order \in Seq(Blocks(g)) /\ g.order # <<>> /\ DOMAIN g.body = Blocks(g)
    /\ \A b \in Blocks(g) :
          /\ g.body[b] \in Seq(ToSet(g.body[b])) /\ g.body[b] # <<>>
          /\ \A i \in ToSet(g.body[b]) : IsInstr(i)
    /\ \A b, c \in Blocks(g) : \A k \in DOMAIN g.body[b], j \in DOMAIN g.body[c] :
          g.body[b][k].id = g.body[c][j].id /\ g.body[b][k].id # 0 => b = c /\ k = j
(* What else the verifier demands: dominance, and the types of operands.   *)
IsScalar(v) == IsConst(v) \/ IsVal(v) \/ v = Undef
IsBit(g, v) ==
    /\ IsConst(v) => v[2] \in {0, 1}
    /\ IsVal(v) => \A i \in InstrsOf(g) : i.id = v[2] => i.bits = 1
MemoryOps == {"alloca", "gep", "load", "store", "memzero"}
IsTyped(g, i) ==
    /\ i.op \in BinaryOps \cup CmpOps \cup MemoryOps \cup {"phi", "zext", "call", "ret", "br"}
    /\ \A v \in ToSet(i.args) : IsGlobal(v) => v[2] \in Int
    /\ i.op \in BinaryOps \cup CmpOps \cup {"phi", "zext", "br"} => \A v \in ToSet(i.args) : IsScalar(v)
    /\ IsPhi(i) => i.id # 0 /\ i.to # <<>>
    /\ (IsPhi(i) /\ i.bits = 1) \/ i.op = "zext" => \A v \in ToSet(i.args) : IsBit(g, v)
    /\ i.op \in {"load", "ret"} => Len(i.args) = 1
    /\ i.op \in {"gep", "store", "memzero"} => Len(i.args) = 2
    /\ i.op = "alloca" => i.id \in Nat
    /\ i.op = "br" => Len(i.to) \in {1, 2} /\ Len(i.args) = Len(i.to) - 1
IsProgram(g) == IsFunction(g) /\ WellFormed(g) /\ \A i \in InstrsOf(g) : IsTyped(g, i)
ASSUME ProgramsAssumption == \A g \in Programs : IsProgram(g)

(* A run is given integers, and every value is an instruction or given.    *)
IsInput(g, in) ==
    /\ \A v \in DOMAIN in.args : in.args[v] \in Int /\ v \notin Ids(g)
    /\ in.answers \in Seq(Int) /\ in.answers # <<>>
    /\ \A c \in DOMAIN in.mem : in.mem[c] \in Int
    /\ \A i \in InstrsOf(g) : \A v \in ToSet(i.args) : IsVal(v) => v[2] \in Ids(g) \cup DOMAIN in.args
ASSUME InputsAssumption == \A g \in Programs : \A in \in Inputs(g) : IsInput(g, in)

ScalarInit == Init /\ VR!Begin
ScalarNext ==
    \/ Next /\ UNCHANGED range_vars
    \/ phase = "done" /\ VR!Next /\ UNCHANGED <<f, executable_, value_state_, block, index, changed, phase>>
ScalarSpec == ScalarInit /\ [][ScalarNext]_<<vars, range_vars>>
FairScalarSpec == ScalarSpec /\ WF_vars(Next)

-----------------------------------------------------------------------------
(* Properties.                                                             *)

(* Whatever the function is given, its calls and its result are the same   *)
(* after constants, comparisons and remainders were replaced.              *)
SameScalarBehaviour == stage = "done" => Preserves(f, final, Inputs(f))

(* What the sweeps of constant propagation end with holds of every run.    *)
ConstantsCoverRuns == rounds = 1 /\ at_block = 1 /\ at_index = 1 => FixpointCoversRuns

(* Wherever the limits of the value ranges cut them off, their intervals   *)
(* and what they know at each block hold of every run.                     *)
RangesHold == phase = "done" => VR!RangesHold

(* Without remainders the intervals only shrink.                           *)
OnlyNarrows == VR!OnlyNarrows
=============================================================================
