------------------------------ MODULE OIRSCCP ------------------------------
(***************************************************************************)
(* Sparse conditional constant propagation of one function                 *)
(* (src/pass/oir/OIRSCCPPass.cpp, SCCPSolver).  Sweeps over the blocks in  *)
(* their order evaluate every instruction of the blocks found executable   *)
(* so far, until a sweep changes nothing; then every value found constant  *)
(* is replaced.  The solver is optimistic: a value it knows nothing about  *)
(* is Unknown, and joins with anything.                                    *)
(*                                                                         *)
(* Executability is kept per block, so that a phi takes the entries of     *)
(* all its executable predecessors whatever edge they leave by.            *)
(***************************************************************************)
EXTENDS OIR

CONSTANTS Programs,   \* the functions the pass may be given
          Inputs(_)   \* what runs of a function are given

VARIABLES f,            \* the function
          executable_,  \* blocks some executable branch reaches
          value_state_, \* the lattice value of every instruction
          block, index, \* where the sweep is: a position in f.order, and in its body
          changed,      \* this sweep changed something
          phase,        \* "sweep", then "done"
          result        \* the function with its constants replaced
vars == <<f, executable_, value_state_, block, index, changed, phase, result>>

-----------------------------------------------------------------------------
(* The lattice.                                                            *)

Unknown == [kind |-> "Unknown", n |-> 0]
Constant(n) == [kind |-> "Constant", n |-> n]
Overdefined == [kind |-> "Overdefined", n |-> 0]
Known(x, n) == x = Constant(n)
IsConstant(x) == x.kind = "Constant"

Join(x, y) ==
    CASE x = Unknown -> y
      [] y = Unknown -> x
      [] x = y -> x
      [] OTHER -> Overdefined
Below(x, y) == Join(x, y) = y
JoinAll(S) ==
    LET known == S \ {Unknown} IN
    IF known = {} THEN Unknown
    ELSE IF \E x \in known : known = {x} THEN The(known) ELSE Overdefined

(* Arguments of the function are overdefined, undef and values not yet     *)
(* visited unknown.                                                        *)
StateFor(v) ==
    CASE IsConst(v) -> Constant(v[2])
      [] IsVal(v) -> IF v[2] \in DOMAIN value_state_ THEN value_state_[v[2]] ELSE Overdefined
      [] OTHER -> Unknown

-----------------------------------------------------------------------------
(* Evaluating one instruction.                                             *)

(* The fold of two constants, where there is one: none for a division by   *)
(* zero, and none for "or".  The type of the instruction is applied to it. *)
FoldIntBinary(op, a, b) ==
    CASE op = "or" -> {}
      [] op \in {"sdiv", "srem"} /\ b = 0 -> {}
      [] op = "srem" /\ a = -(2^(W - 1)) /\ b = -1 -> {0}
      [] OTHER -> {Machine(op, a, b)}

AllOnes(bits) == IF bits = 1 THEN 1 ELSE -1

EvaluateByIdentity(op, bits, x, y) ==
    CASE op \in {"add", "xor"} /\ Known(y, 0) -> x
      [] op \in {"add", "xor"} /\ Known(x, 0) -> y
      [] op = "sub" /\ Known(y, 0) -> x
      [] op \in {"mul", "and"} /\ (Known(x, 0) \/ Known(y, 0)) -> Constant(0)
      [] op = "mul" /\ Known(y, 1) -> x
      [] op = "mul" /\ Known(x, 1) -> y
      [] op = "and" /\ Known(y, AllOnes(bits)) -> x
      [] op = "and" /\ Known(x, AllOnes(bits)) -> y
      [] op = "sdiv" /\ Known(y, 1) -> x
      [] op = "srem" /\ Known(y, 1) -> Constant(0)
      [] OTHER -> IF x = Overdefined \/ y = Overdefined THEN Overdefined ELSE Unknown

EvaluateBinary(i, x, y) ==
    LET folded == IF IsConstant(x) /\ IsConstant(y)
                  THEN FoldIntBinary(i.op, x.n, y.n) ELSE {}
    IN  IF folded # {} THEN Constant(Truncated(i.bits, CHOOSE n \in folded : TRUE))
        ELSE EvaluateByIdentity(i.op, i.bits, x, y)

EvaluateCmp(i, x, y) ==
    CASE IsConstant(x) /\ IsConstant(y) -> Constant(IF Compare(i.op, x.n, y.n) THEN 1 ELSE 0)
      [] x = Overdefined \/ y = Overdefined -> Overdefined
      [] OTHER -> Unknown

EvaluateCast(x) == IF IsConstant(x) THEN Constant(IF x.n = 0 THEN 0 ELSE 1) ELSE x

EvaluatePhi(i) ==
    JoinAll({StateFor(i.args[n]) : n \in {k \in DOMAIN i.args : i.to[k] \in executable_}})

Evaluate(i) ==
    CASE IsPhi(i) -> EvaluatePhi(i)
      [] i.op \in BinaryOps -> EvaluateBinary(i, StateFor(i.args[1]), StateFor(i.args[2]))
      [] i.op \in CmpOps -> EvaluateCmp(i, StateFor(i.args[1]), StateFor(i.args[2]))
      [] i.op = "zext" -> EvaluateCast(StateFor(i.args[1]))
      [] OTHER -> Overdefined

\* Mutant: an overdefined condition makes only the first target executable.
Targets_OneArm(i) ==
    IF ~IsConditional(i) THEN ToSet(i.to)
    ELSE LET c == StateFor(i.args[1]) IN
         CASE IsConstant(c) -> {IF c.n # 0 THEN i.to[1] ELSE i.to[2]}
           [] c = Overdefined -> {i.to[1]}
           [] OTHER -> {}
(* The blocks a branch makes executable.                                   *)
Targets(i) ==
    IF ~IsConditional(i) THEN ToSet(i.to)
    ELSE LET c == StateFor(i.args[1]) IN
         CASE IsConstant(c) -> {IF c.n # 0 THEN i.to[1] ELSE i.to[2]}
           [] c = Overdefined -> ToSet(i.to)
           [] OTHER -> {}

-----------------------------------------------------------------------------
(* The sweeps.                                                             *)

At == f.body[f.order[block]][index]
InSweep == phase = "sweep" /\ block <= Len(f.order)
Advance ==
    IF index < Len(f.body[f.order[block]])
    THEN index' = index + 1 /\ block' = block
    ELSE index' = 1 /\ block' = block + 1

SkipBlock ==
    /\ InSweep /\ index = 1 /\ f.order[block] \notin executable_
    /\ block' = block + 1
    /\ UNCHANGED <<f, executable_, value_state_, index, changed, phase, result>>

\* Mutant: only what is found of values counts as a change.
VisitBranch_Unnoticed ==
    /\ InSweep /\ f.order[block] \in executable_ /\ At.op = "br"
    /\ executable_' = executable_ \cup Targets(At)
    /\ Advance
    /\ UNCHANGED <<f, value_state_, changed, phase, result>>
VisitBranch ==
    /\ InSweep /\ f.order[block] \in executable_ /\ At.op = "br"
    /\ executable_' = executable_ \cup Targets(At)
    /\ changed' = (changed \/ executable_' # executable_)
    /\ Advance
    /\ UNCHANGED <<f, value_state_, phase, result>>

\* Mutant: what is found replaces what was known.
Updated_Replaced(id, x) == [value_state_ EXCEPT ![id] = x]
(* update_value: what is found is joined to what was known.                *)
Updated(id, x) == [value_state_ EXCEPT ![id] = Join(@, x)]

VisitValue ==
    /\ InSweep /\ f.order[block] \in executable_ /\ At.id # 0
    /\ value_state_' = Updated(At.id, Evaluate(At))
    /\ changed' = (changed \/ value_state_' # value_state_)
    /\ Advance
    /\ UNCHANGED <<f, executable_, phase, result>>

VisitVoid ==
    /\ InSweep /\ f.order[block] \in executable_ /\ At.id = 0 /\ At.op # "br"
    /\ Advance
    /\ UNCHANGED <<f, executable_, value_state_, changed, phase, result>>

\* Mutant: a sweep inherits the change of the one before.
SweepAgain_Inherits ==
    /\ phase = "sweep" /\ block > Len(f.order) /\ changed
    /\ block' = 1
    /\ UNCHANGED <<f, executable_, value_state_, index, changed, phase, result>>
SweepAgain ==
    /\ phase = "sweep" /\ block > Len(f.order) /\ changed
    /\ block' = 1 /\ changed' = FALSE
    /\ UNCHANGED <<f, executable_, value_state_, index, phase, result>>

Constants == {v \in DOMAIN value_state_ : IsConstant(value_state_[v])}
RewriteConstants ==
    /\ phase = "sweep" /\ block > Len(f.order) /\ ~changed
    /\ phase' = "done"
    /\ result' = ReplaceOperands(f, LAMBDA v : IF IsVal(v) /\ v[2] \in Constants
                                               THEN Const(value_state_[v[2]].n) ELSE v)
    /\ UNCHANGED <<f, executable_, value_state_, block, index, changed>>

Init ==
    /\ f \in Programs
    /\ executable_ = {Entry(f)}
    /\ value_state_ = [v \in Ids(f) |-> Unknown]
    /\ block = 1 /\ index = 1 /\ changed = FALSE
    /\ phase = "sweep" /\ result = f

Next == SkipBlock \/ VisitBranch \/ VisitValue \/ VisitVoid \/ SweepAgain \/ RewriteConstants
Spec == Init /\ [][Next]_vars
FairSpec == Spec /\ WF_vars(Next)

-----------------------------------------------------------------------------
(* Properties.                                                             *)

(* What the sweeps end with holds of every run: it only enters blocks      *)
(* found executable, and every value found constant has that constant      *)
(* whenever it has been computed.                                          *)
Covers(s) ==
    /\ s.end = "running" => s.at \in executable_
    /\ \A v \in Constants : s.env[v] \in {value_state_[v].n, Poison}
FixpointCoversRuns ==
    phase = "done" =>
        \A trace \in {Trace(f, in, Fuel) : in \in Inputs(f)} :
            Last(trace).end # "undefined" => \A k \in DOMAIN trace : Covers(trace[k])

(* The sweeps end in a fixpoint: whatever order blocks and values were     *)
(* found in, nothing an executable block holds would be evaluated above    *)
(* what it was found to be, or lead to a block not found.                  *)
Settled(i) ==
    /\ i.op = "br" => Targets(i) \subseteq executable_
    /\ i.op # "br" /\ i.id # 0 => Below(Evaluate(i), value_state_[i.id])
EndsSettled ==
    phase = "done" => \A b \in executable_ \cap Blocks(f) : \A i \in ToSet(f.body[b]) : Settled(i)

(* A block found executable stays so and a value only climbs, from Unknown *)
(* to a constant to Overdefined: evaluate alone does not (a product with   *)
(* an unknown factor is Overdefined, and 0 once that factor is).           *)
OnlyClimbs ==
    [][/\ executable_ \subseteq executable_'
       /\ \A v \in DOMAIN value_state_ : Below(value_state_[v], value_state_'[v])]_vars

(* The sweeps end.                                                         *)
Terminates == <>(phase = "done")
=============================================================================
