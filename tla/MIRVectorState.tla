--------------------------- MODULE MIRVectorState ---------------------------
(***************************************************************************)
(* MIRVectorStatePass and the dataflow analysis it rests on                *)
(* (src/mir/MIRVectorState.cpp).  A vector instruction runs under the      *)
(* vector length and type the last vsetvli has set, so every one of them   *)
(* must be reached by exactly one such state on all paths.  The pass names *)
(* the requested lengths, inserts the sets that are missing, removes those *)
(* that change nothing, and refuses the function if doubt is left.         *)
(*                                                                         *)
(* An accepted function is then executed beside its source, block by block *)
(* and on any path: each vector instruction has to be given the length,    *)
(* type and policies the source asks for.                                  *)
(*                                                                         *)
(* The name of a length is made from an immediate, a virtual register, or  *)
(* nothing (all lanes there are).  A register stands for one value, which  *)
(* changes only where the register is defined, before every use of it.     *)
(***************************************************************************)
EXTENDS Integers, Sequences, SequencesExt, FiniteSetsExt

CONSTANTS Programs,   \* functions: order, body and succ of their blocks
          VTypes,     \* pairs of an element width and a register grouping
          VLMax,      \* lanes there are under each of them
          Lengths,    \* what a register that is asked for may hold
          MaxBlocks,  \* bound: blocks executed
          None

ASSUME LanesAssumption == VLMax \in [VTypes -> Nat]

VARIABLES program,        \* the function given
          body,           \* its blocks as they are now
          phase,          \* the step to come
          in, out,        \* states at the ends of the blocks
          sweeps,         \* sweeps of the analysis made
          inserted,       \* sets inserted
          at,             \* the block to be executed
          clock,          \* blocks executed
          before, after,  \* what the source asks for, what the machine has
          asked, given    \* at the vector instructions of the last block

code == <<program, body>>
flow == <<in, out, sweeps>>
execution == <<at, clock, before, after, asked, given>>
vars == <<code, phase, flow, inserted, execution>>

-----------------------------------------------------------------------------
(* Instructions.  r is the register written (0: none, or the one that is   *)
(* always zero), avl the length asked for, id its name, None if it has none; *)
(* the name the pass gives is the request: one for each, as in the code. *)

Zero == 0
Spare == -1        \* the result of an inserted set, which nobody reads
AllLanes == <<"vlmax", 0>>
Imm(n) == <<"imm", n>>
Reg(r) == <<"reg", r>>
SetOf(r, avl, vtype, tail, mask, id) ==
    [op |-> "set", r |-> r, avl |-> avl, vtype |-> vtype, tail |-> tail, mask |-> mask, id |-> id]
PolicySet(vtype, tail, mask, id) == SetOf(Zero, AllLanes, vtype, tail, mask, id)

IsSet(i) == i.op = "set"
IsPolicyOnly(i) == IsSet(i) /\ i.r = Zero /\ i.avl = AllLanes
Consumes(i) == i.op = "vector"
Blocks == ToSet(program.order)
Entry == program.order[1]
InstrsOf(f) == UNION {ToSet(f[b]) : b \in DOMAIN f}
ReadIn(f, r) == \E i \in InstrsOf(f) : (IsSet(i) /\ i.avl = Reg(r)) \/ (i.op = "use" /\ i.r = r)

(* F of x.  The set is for TLC, which would work x out again at each use.  *)
On(x, F(_)) == CHOOSE y \in {F(u) : u \in {x}} : TRUE

-----------------------------------------------------------------------------
(* The lattice.  A block not reached yet says nothing at all; what differs *)
(* between two ways into a block is not known in it.                       *)

Unreached == [reached |-> FALSE, vtype |-> None, tail |-> None, mask |-> None, id |-> None, avl |-> None]
Unknown == [Unreached EXCEPT !.reached = TRUE]
FullyKnown(s) == s.reached /\ None \notin {s.vtype, s.tail, s.mask, s.id}

Agreed(x, y) == IF x = y THEN x ELSE None

\* Mutant: the type of the first way in is taken for that of all.
Meet_KeepsType(s, t) ==
    IF ~s.reached THEN t
    ELSE IF ~t.reached THEN s
    ELSE [reached |-> TRUE, vtype |-> s.vtype, tail |-> Agreed(s.tail, t.tail),
          mask |-> Agreed(s.mask, t.mask), id |-> Agreed(s.id, t.id), avl |-> Agreed(s.avl, t.avl)]

Meet(s, t) ==
    IF ~s.reached THEN t
    ELSE IF ~t.reached THEN s
    ELSE [reached |-> TRUE, vtype |-> Agreed(s.vtype, t.vtype), tail |-> Agreed(s.tail, t.tail),
          mask |-> Agreed(s.mask, t.mask), id |-> Agreed(s.id, t.id), avl |-> Agreed(s.avl, t.avl)]

\* Mutant: a block not reached yet is taken for one where nothing is known.
Transfer_FromNothing(s, i) ==
    CASE i.op = "call" \/ ~s.reached -> Unknown
      [] IsPolicyOnly(i) /\ s.reached -> [s EXCEPT !.tail = i.tail, !.mask = i.mask]
      [] IsSet(i) /\ ~IsPolicyOnly(i) /\ s.reached ->
            [reached |-> TRUE, vtype |-> i.vtype, tail |-> i.tail, mask |-> i.mask, id |-> i.id, avl |-> i.avl]
      [] OTHER -> s

Transfer(s, i) ==
    CASE ~s.reached -> s
      [] i.op = "call" -> Unknown
      [] IsPolicyOnly(i) ->
            LET kept == s.vtype = i.vtype /\ s.id # None IN
            [s EXCEPT !.vtype = i.vtype, !.tail = i.tail, !.mask = i.mask,
                      !.id = IF kept THEN @ ELSE None, !.avl = IF kept THEN @ ELSE None]
      [] IsSet(i) /\ ~IsPolicyOnly(i) ->
            [reached |-> TRUE, vtype |-> i.vtype, tail |-> i.tail, mask |-> i.mask, id |-> i.id, avl |-> i.avl]
      [] OTHER -> s

TransferBlock(s, instrs) == FoldLeft(LAMBDA t, i : On(t, LAMBDA u : Transfer(u, i)), s, instrs)

-----------------------------------------------------------------------------
(* The analysis: sweeps over the blocks in the order they are stored.      *)

BlockInput(b, outs) ==
    IF b = Entry THEN Unknown
    ELSE FoldLeft(LAMBDA s, p : IF b \in program.succ[p] THEN On(s, LAMBDA t : Meet(t, outs[p])) ELSE s,
                  Unreached, program.order)

SweepLimit == Max({8, 8 * Len(program.order)})

SweepBlock(flows, b) ==
    On(BlockInput(b, flows.out), LAMBDA s :
       [in |-> [flows.in EXCEPT ![b] = s], out |-> [flows.out EXCEPT ![b] = TransferBlock(s, body[b])]])
Swept == FoldLeft(LAMBDA flows, b : On(flows, LAMBDA g : SweepBlock(g, b)), [in |-> in, out |-> out], program.order)

Forgotten == [b \in Blocks |-> Unreached]
Start(next) ==
    /\ phase' = next
    /\ in' = Forgotten /\ out' = Forgotten
    /\ sweeps' = 0

(* The phase to come once the analysis for it has settled.                 *)
Purpose == CASE phase = "analyze to insert" -> "insert"
             [] phase = "analyze to remove" -> "remove"
             [] phase = "analyze to verify" -> "verify"

Sweep ==
    /\ phase \in {"analyze to insert", "analyze to remove", "analyze to verify"}
    /\ \E flows \in {Swept} :
          /\ in' = flows.in /\ out' = flows.out
          /\ sweeps' = sweeps + 1
          /\ phase' = IF in' = in /\ out' = out THEN Purpose
                      ELSE IF sweeps' = SweepLimit THEN "unsettled" ELSE phase
    /\ UNCHANGED <<code, inserted, execution>>

StateAt(b) == IF in[b].reached THEN in[b] ELSE Unknown

-----------------------------------------------------------------------------
(* The pass.                                                               *)

AllBodies(F(_, _)) == [b \in Blocks |-> [k \in DOMAIN body[b] |-> F(b, body[b][k])]]

Identify ==
    /\ phase = "identify"
    /\ body' = AllBodies(LAMBDA b, i : IF IsSet(i) /\ ~IsPolicyOnly(i) /\ i.id = None THEN [i EXCEPT !.id = i.avl] ELSE i)
    /\ Start("analyze to insert")
    /\ UNCHANGED <<program, inserted, execution>>

Matches(s, i) ==
    /\ FullyKnown(s)
    /\ s.vtype = i.vtype /\ s.tail = i.tail /\ s.mask = i.mask
    /\ i.id = None \/ s.id = i.id
Encodable(avl) == avl[1] = "imm" => avl[2] \in 0..31

(* The length is kept if the type is right already, else asked for again.  *)
MadeSet(s, i) ==
    IF s.vtype = i.vtype THEN PolicySet(i.vtype, i.tail, i.mask, s.id)
    ELSE SetOf(Spare, s.avl, i.vtype, i.tail, i.mask, s.id)

\* Mutant: a set is only inserted where nothing is known of the policies.
NeedsSet_OnlyUnknown(s, i) == Consumes(i) /\ ~FullyKnown(s) /\ s.id # None /\ s.avl # None

NeedsSet(s, i) == Consumes(i) /\ ~Matches(s, i) /\ s.id # None /\ s.avl # None

Recorded(s, i) == IF (Consumes(i) \/ IsPolicyOnly(i)) /\ i.id = None THEN [i EXCEPT !.id = s.id] ELSE i

WalkToInsert(walk, i) ==
    LET set == MadeSet(walk.state, i)
        new == IF NeedsSet(walk.state, i) THEN <<set>> ELSE <<>>
        state == TransferBlock(walk.state, new)
    IN  [state |-> Transfer(state, i),
         body |-> walk.body \o new \o <<Recorded(state, i)>>,
         failed |-> walk.failed \/ (new # <<>> /\ set.r = Spare /\ ~Encodable(set.avl))]
Inserted(b) == FoldLeft(LAMBDA walk, i : On(walk, LAMBDA w : WalkToInsert(w, i)), [state |-> StateAt(b), body |-> <<>>, failed |-> FALSE], body[b])

InsertRequiredSets ==
    /\ phase = "insert"
    /\ \E walks \in {[b \in Blocks |-> Inserted(b)]} :
          IF \E b \in Blocks : walks[b].failed
          THEN phase' = "refused" /\ UNCHANGED <<body, flow, inserted>>
          ELSE /\ body' = [b \in Blocks |-> walks[b].body]
               /\ inserted' = [b \in Blocks |-> Len(body'[b]) - Len(body[b])]
               /\ Start("analyze to remove")
    /\ UNCHANGED <<program, execution>>

(* A set goes if it changes nothing and nobody reads its result, which     *)
(* depends on the sets that have gone before it.                           *)
Disposable(f, i) == i.r = Zero \/ ~ReadIn(f, i.r)

Redundant(f, s, i) == IsSet(i) /\ s = Transfer(s, i) /\ Disposable(f, i)

WalkToRemove(walk, b) ==
    LET i == walk.body[b][walk.k]
        j == IF IsPolicyOnly(i) THEN Recorded(walk.state, i) ELSE i
    IN  IF Redundant(walk.body, walk.state, j)
        THEN [walk EXCEPT !.body[b] = RemoveAt(@, walk.k)]
        ELSE [walk EXCEPT !.body[b] = ReplaceAt(@, walk.k, j), !.k = @ + 1, !.state = Transfer(@, j)]
EliminatedIn(f, b) ==
    FoldLeft(LAMBDA walk, i : On(walk, LAMBDA w : WalkToRemove(w, b)), [body |-> f, k |-> 1, state |-> StateAt(b)], f[b]).body

\* Mutant: a round counts as a change whatever it did.
Changed_Always(f) == TRUE

Changed(f) == \E b \in Blocks : Len(f[b]) # Len(body[b])

EliminateRedundantSets ==
    /\ phase = "remove"
    /\ \E f \in {FoldLeft(LAMBDA g, b : On(g, LAMBDA h : EliminatedIn(h, b)), body, program.order)} :
          /\ body' = f
          /\ Start(IF Changed(f) THEN "analyze to remove" ELSE "analyze to verify")
    /\ UNCHANGED <<program, inserted, execution>>

(* What the analysis asks of an instruction when it verifies.              *)
Accepts(s, i) ==
    /\ IsPolicyOnly(i) => s.vtype = i.vtype /\ s.id # None
    /\ Consumes(i) => Matches(s, i)
WalkToVerify(walk, i) == [state |-> Transfer(walk.state, i), ok |-> walk.ok /\ Accepts(walk.state, i)]
Verified(b) == FoldLeft(LAMBDA walk, i : On(walk, LAMBDA w : WalkToVerify(w, i)), [state |-> StateAt(b), ok |-> TRUE], body[b]).ok

-----------------------------------------------------------------------------
(* Execution.  The machine: the length, type and policies in force and the *)
(* registers.  The source: the same, but its length is the one last asked  *)
(* for, as it would be granted under the type an instruction works with.   *)

Lost == [vl |-> None, vtype |-> None, tail |-> None, mask |-> None]
Machine0 == Lost @@ [regs |-> [r \in {i.r : i \in {j \in InstrsOf(body) \cup InstrsOf(program.body) : j.op # "vector"}} |-> 0]]
Asks(m, i) ==
    CASE i.avl = AllLanes -> Max({VLMax[t] : t \in VTypes})
      [] i.avl[1] = "imm" -> i.avl[2]
      [] i.avl[1] = "reg" -> m.regs[i.avl[2]]
Granted(n, vtype) == Min({n, VLMax[vtype]})
Policies(m, i) == [m EXCEPT !.vtype = i.vtype, !.tail = i.tail, !.mask = i.mask]

(* n is what a definition of this block gives.                             *)
Ran(m, i, n, vl) ==
    CASE i.op = "call" -> Lost @@ [regs |-> m.regs]
      [] i.op = "def" -> [m EXCEPT !.regs[i.r] = n]
      [] IsPolicyOnly(i) -> [Policies(m, i) EXCEPT !.vl = IF m.vtype = i.vtype THEN @ ELSE None]
      [] IsSet(i) /\ ~IsPolicyOnly(i) ->
            [Policies(m, i) EXCEPT !.vl = vl, !.regs[i.r] = IF i.r = Zero THEN 0 ELSE Granted(Asks(m, i), i.vtype)]
      [] OTHER -> m

Demand(m, i) == [vl |-> IF m.vl = None THEN None ELSE Granted(m.vl, i.vtype),
                 vtype |-> i.vtype, tail |-> i.tail, mask |-> i.mask]
InForce(m) == [vl |-> m.vl, vtype |-> m.vtype, tail |-> m.tail, mask |-> m.mask]

RunSource(m, instrs, n) ==
    FoldLeft(LAMBDA w, i : [m |-> IF IsPolicyOnly(i) THEN Policies(w.m, i) ELSE Ran(w.m, i, n, IF IsSet(i) THEN Asks(w.m, i) ELSE 0),
                            seen |-> IF Consumes(i) THEN Append(w.seen, Demand(w.m, i)) ELSE w.seen],
             [m |-> m, seen |-> <<>>], instrs)
RunMachine(m, instrs, n) ==
    FoldLeft(LAMBDA w, i : [m |-> Ran(w.m, i, n, IF IsSet(i) THEN Granted(Asks(w.m, i), i.vtype) ELSE 0),
                            seen |-> IF Consumes(i) THEN Append(w.seen, InForce(w.m)) ELSE w.seen],
             [m |-> m, seen |-> <<>>], instrs)

Verify ==
    /\ phase = "verify"
    /\ IF \A b \in Blocks : Verified(b)
       THEN /\ phase' = "run"
            /\ at' = program.order[1]
            /\ before' = Machine0 /\ after' = Machine0
       ELSE phase' = "refused" /\ UNCHANGED <<at, before, after>>
    /\ UNCHANGED <<code, flow, inserted, clock, asked, given>>

Execute ==
    /\ phase = "run" /\ at # 0 /\ clock < MaxBlocks
    /\ \E n \in Lengths :
          \E source \in {RunSource(before, program.body[at], n)}, machine \in {RunMachine(after, body[at], n)} :
             /\ before' = source.m /\ asked' = source.seen
             /\ after' = machine.m /\ given' = machine.seen
    /\ at' \in IF program.succ[at] = {} THEN {0} ELSE program.succ[at]
    /\ clock' = clock + 1
    /\ UNCHANGED <<code, phase, flow, inserted>>

Init ==
    /\ program \in Programs
    /\ body = program.body
    /\ phase = "identify"
    /\ in = Forgotten /\ out = Forgotten
    /\ sweeps = 0
    /\ inserted = [b \in Blocks |-> 0]
    /\ at = 0 /\ clock = 0
    /\ before = <<>> /\ after = <<>> /\ asked = <<>> /\ given = <<>>

Pass == Identify \/ Sweep \/ InsertRequiredSets \/ EliminateRedundantSets \/ Verify
Next == Pass \/ Execute
Spec == Init /\ [][Next]_vars
FairSpec == Spec /\ WF_vars(Pass)

-----------------------------------------------------------------------------
(* Properties.                                                             *)

(* On every path of an accepted function each vector instruction runs with *)
(* the length its source last asked for and with its own type and policies *)
(* - across joins, loops and calls, whatever was inserted or removed.      *)
RunsAsAsked == asked = given

(* The blocks paths from the entry lead to, each with the states they come *)
(* there with, one by one.  Nothing is known at the entry, even of jumps   *)
(* back to it.                                                             *)
Onward(reached) ==
    UNION {reached, {<<Entry, Unknown>>},
           UNION {{<<b, TransferBlock(r[2], body[r[1]])>> : b \in program.succ[r[1]] \ {Entry}} : r \in reached}}
PathStates == FoldLeft(LAMBDA reached, k : On(reached, Onward), {}, [k \in 1..(4 * Len(program.order)) |-> k])
StatesTo(b, reached) == {r[2] : r \in {q \in reached : q[1] = b}}

(* What a set of states agrees on.                                         *)
Common(values) == IF Cardinality(values) = 1 THEN CHOOSE x \in values : TRUE ELSE None
CommonState(S) ==
    IF S = {} THEN Unreached
    ELSE [reached |-> TRUE, vtype |-> Common({s.vtype : s \in S}), tail |-> Common({s.tail : s \in S}),
          mask |-> Common({s.mask : s \in S}), id |-> Common({s.id : s \in S}), avl |-> Common({s.avl : s \in S})]

(* The analysis settles on what all paths to a block agree on, no less and *)
(* no more: blocks seen before their predecessors, loops and unreachable   *)
(* blocks cost it nothing.                                                 *)
MeetOverPaths ==
    phase \in {"insert", "remove", "verify"} =>
        \A reached \in {PathStates} : \A b \in Blocks :
            in[b] = CommonState(StatesTo(b, reached))

(* The states that come to the k-th instruction of a block.                *)
ComingTo(b, k, reached) == {TransferBlock(s, SubSeq(body[b], 1, k - 1)) : s \in StatesTo(b, reached)}
InDoubt(i, states) ==
    LET lengths == {s.id : s \in states} IN
    \/ lengths = {} \/ None \in lengths \/ Cardinality(lengths) > 1
    \/ i.id \notin lengths \cup {None}
    \/ IsPolicyOnly(i) /\ \E s \in states : s.vtype # i.vtype
    \/ \E s \in states : s.vtype # i.vtype /\ ~Encodable(s.avl)

(* The blocks a path of one edge or more leads to from block a.            *)
Beyond(a) == FoldLeft(LAMBDA S, k : On(S, LAMBDA T : T \cup UNION {program.succ[b] : b \in T}),
                      program.succ[a], program.order)

(* The k-th instruction of b has its length, but on some path under another *)
(* type or other policies than its own, below a block that was given a set: *)
(* the insertions were decided by the states before any of them.           *)
Overtaken(b, k, states) ==
    /\ Consumes(body[b][k])
    /\ \E s \in states : s.id # None /\ ~Matches(s, body[b][k])
    /\ \E a \in Blocks : inserted[a] > 0 /\ b \in Beyond(a)

(* A function is refused for a reason: to some instruction no length or    *)
(* more than one comes, or not the one it names, or a set that is to keep  *)
(* the length comes after another type, or one no immediate can ask for    *)
(* again is needed under another type - or a set inserted in an earlier    *)
(* block has overtaken the instruction.                                    *)
RefusesOnlyTheUnknown ==
    phase = "refused" =>
        \E reached \in {PathStates} : \E b \in Blocks : \E k \in DOMAIN body[b] :
            \E states \in {ComingTo(b, k, reached)} :
               \/ /\ Consumes(body[b][k]) \/ IsPolicyOnly(body[b][k])
                  /\ InDoubt(body[b][k], states)
               \/ Overtaken(b, k, states)

(* The pass comes to an end with an answer: the sweeps settle before their  *)
(* limit, and the rounds of removals, which have none, stop.               *)
Finishes == <>(phase \in {"refused", "run"})
=============================================================================
