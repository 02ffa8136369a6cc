--------------------------- MODULE OIRValueRange ---------------------------
(***************************************************************************)
(* Value ranges of one function (src/pass/oir/OIRValueRange.cpp).  Sweeps  *)
(* over all instructions give every integer an interval, from the widest   *)
(* one down; then the comparisons at the ends of blocks give each block    *)
(* what is known where it begins, iterated over the edges; then one walk   *)
(* folds the comparisons the intervals decide, and the remainders by a     *)
(* power of two whose left side is not negative become masks.              *)
(*                                                                         *)
(* Both iterations may be cut off by their limits, and what they have then *)
(* is used all the same: it must hold wherever they are.                   *)
(***************************************************************************)
EXTENDS OIR

CONSTANTS Programs,      \* the functions the pass may be given
          Inputs(_),     \* what runs of a function are given
          MaxSweeps,     \* sweeps over the function, 32 in the code
          MaxIterations  \* rounds over the edges, 64 in the code

VARIABLES f,             \* the function
          ranges,        \* what the sweeps know: a partial map from values to intervals
          entries,       \* what is known where each block begins, likewise
          local,         \* what is known at the instruction being rewritten
          replacements,  \* the values found to be others
          block, index,  \* the instruction being visited: in f.order, and in its body
          changed,       \* this sweep changed something
          rounds,        \* sweeps or iterations begun in this phase
          phase,         \* "sweep", "entries", "rewrite", then "done"
          result         \* the function as rewritten so far
vars == <<f, ranges, entries, local, replacements, block, index, changed, rounds, phase, result>>

-----------------------------------------------------------------------------
(* Intervals, and the maps that hold those narrower than the type's.       *)

Smallest == -(2^(W - 1))
Largest == 2^(W - 1) - 1
Full == [lower |-> Smallest, upper |-> Largest]
Bit == [lower |-> 0, upper |-> 1]
Point(n) == [lower |-> n, upper |-> n]
Hull(S) == [lower |-> Min(S), upper |-> Max(S)]
Within(n, r) == r.lower <= n /\ n <= r.upper
CheckedRange(S) == IF Min(S) < Smallest \/ Max(S) > Largest THEN Full ELSE Hull(S)
JoinRanges(R) == [lower |-> Min({r.lower : r \in R}), upper |-> Max({r.upper : r \in R})]

Nothing == <<>>
Definitions(v) == {i \in InstrsOf(f) : IsVal(v) /\ i.id = v[2]}
IntegerBounds(v) == IF \E i \in Definitions(v) : i.bits = 1 THEN Bit ELSE Full
IsInteger(i) == i.id # 0 /\ i.bits > 0

\* Mutant: a value without an interval yet is taken for nothing rather than anything.
RangeFor_Optimistic(v, known, fallback) ==
    CASE IsConst(v) -> Point(v[2])
      [] IsVal(v) /\ v[2] \in DOMAIN known -> known[v[2]]
      [] IsVal(v) /\ v[2] \in DOMAIN fallback \ DOMAIN known -> fallback[v[2]]
      [] IsVal(v) /\ v[2] \notin DOMAIN fallback \cup DOMAIN known /\ Definitions(v) # {} -> Point(0)
      [] OTHER -> IntegerBounds(v)
RangeFor(v, known, fallback) ==
    CASE IsConst(v) -> Point(v[2])
      [] IsVal(v) /\ v[2] \in DOMAIN known -> known[v[2]]
      [] IsVal(v) /\ v[2] \in DOMAIN fallback \ DOMAIN known -> fallback[v[2]]
      [] OTHER -> IntegerBounds(v)

Put(known, id, r) == [x \in DOMAIN known \cup {id} |-> IF x = id THEN r ELSE known[x]]
StoreNarrow(known, id, r) ==
    IF r = IntegerBounds(Val(id)) THEN [x \in DOMAIN known \ {id} |-> known[x]]
    ELSE Put(known, id, r)

-----------------------------------------------------------------------------
(* The interval of one instruction.                                        *)

Corners(op, x, y) ==
    {CASE op = "add" -> a + b [] op = "sub" -> a - b [] op = "mul" -> a * b :
        a \in {x.lower, x.upper}, b \in {y.lower, y.upper}}

(* The right constant is the mask if there is one, else the left.          *)
AndRange(a, b) ==
    LET mask == IF IsConst(b) THEN b ELSE a IN
    IF IsConst(mask) /\ mask[2] >= 0 THEN Hull({0, mask[2]}) ELSE Full

SDivRange(x, b) ==
    IF ~IsConst(b) \/ b[2] = 0 \/ (x.lower = Smallest /\ b[2] = -1) THEN Full
    ELSE Hull({TowardZero(x.lower, b[2]), TowardZero(x.upper, b[2])})

SRemRange(x, b) ==
    IF ~IsConst(b) \/ b[2] = 0 THEN Full
    ELSE LET most == Abs(b[2]) - 1 IN
         CASE x.lower >= 0 -> [lower |-> 0, upper |-> most]
           [] x.upper <= 0 /\ x.lower < 0 -> [lower |-> -most, upper |-> 0]
           [] OTHER -> [lower |-> -most, upper |-> most]

EvalBinary(i, x, y) ==
    CASE i.op \in {"add", "sub", "mul"} -> CheckedRange(Corners(i.op, x, y))
      [] i.op = "and" -> AndRange(i.args[1], i.args[2])
      [] i.op = "sdiv" -> SDivRange(x, i.args[2])
      [] i.op = "srem" -> SRemRange(x, i.args[2])
      [] OTHER -> Full

(* The conditional branch an entry of a phi of block b comes from, and its *)
(* side: of the predecessor, or of the one block before that.              *)
BranchInto(p, b) ==
    IF IsConditional(Terminator(f, p)) /\ b \in SuccessorSet(f, p)
    THEN {[from |-> p, true_edge |-> Terminator(f, p).to[1] = b]}
    ELSE {[from |-> q, true_edge |-> Terminator(f, q).to[1] = p] :
             q \in {q \in Predecessors(f, p) : /\ Predecessors(f, p) = {q}
                                               /\ IsConditional(Terminator(f, q))}}

(* The comparisons x < y of which a phi takes y where it holds and x where *)
(* it does not.                                                            *)
MaxOf(phi, b) ==
    IF Len(phi.args) # 2 THEN {}
    ELSE {c \in InstrsOf(f) :
             /\ c.op = "lt"
             /\ \E d \in BranchInto(phi.to[1], b), e \in BranchInto(phi.to[2], b) :
                   /\ d.from = e.from /\ d.true_edge # e.true_edge
                   /\ Terminator(f, d.from).args[1] = Val(c.id)
                   /\ phi.args = IF d.true_edge THEN <<c.args[2], c.args[1]>> ELSE c.args}

(* Of x and n - x the larger is at least half of n, rounded up.            *)
HalfOf(c) ==
    {(d.args[1][2] + 1) \div 2 : d \in {d \in Definitions(c.args[2]) :
        d.op = "sub" /\ IsConst(d.args[1]) /\ d.args[1][2] >= 0 /\ d.args[2] = c.args[1]}}

MaxPhiRange(c, x, y) ==
    [lower |-> Max({x.lower, y.lower} \cup HalfOf(c)), upper |-> Max({x.upper, y.upper})]

EvalPhi(phi, b, known, fallback) ==
    IF phi.args = <<>> THEN Full
    ELSE IF MaxOf(phi, b) # {}
    THEN LET c == CHOOSE c \in MaxOf(phi, b) : TRUE IN
         MaxPhiRange(c, RangeFor(c.args[1], known, fallback), RangeFor(c.args[2], known, fallback))
    ELSE JoinRanges({RangeFor(v, known, fallback) : v \in ToSet(phi.args)})

EvalInstruction(i, b, known, fallback) ==
    CASE i.bits = 1 -> Bit
      [] i.bits # 1 /\ IsPhi(i) -> EvalPhi(i, b, known, fallback)
      [] i.bits # 1 /\ i.op \in BinaryOps -> EvalBinary(i, RangeFor(i.args[1], known, fallback),
                                                           RangeFor(i.args[2], known, fallback))
      [] OTHER -> Full

-----------------------------------------------------------------------------
(* What the branch at the end of block p says at its successor b.          *)

Inverted == [eq |-> "ne", ne |-> "eq", lt |-> "ge", le |-> "gt"]
Swapped == [eq |-> "eq", ne |-> "ne", lt |-> "gt", le |-> "ge", gt |-> "lt", ge |-> "le"]

Constraint(op, n, bounds) ==
    CASE op = "eq" -> Point(n)
      [] op = "lt" -> [bounds EXCEPT !.upper = n - 1]
      [] op = "le" -> [bounds EXCEPT !.upper = Min({n, @})]
      [] op = "gt" -> [bounds EXCEPT !.lower = n + 1]
      [] op = "ge" -> [bounds EXCEPT !.lower = Max({n, @})]

(* What contradicts is ignored: that edge is never taken.                  *)
Refine(known, v, op, n) ==
    LET x == RangeFor(v, known, ranges)
        c == Constraint(op, n, IntegerBounds(v))
        both == [lower |-> Max({x.lower, c.lower}), upper |-> Min({x.upper, c.upper})]
    IN  IF op = "ne" \/ ~IsVal(v) \/ both.lower > both.upper THEN known
        ELSE StoreNarrow(known, v[2], both)

ApplyComparison(known, c, op) ==
    CASE IsConst(c.args[2]) -> Refine(known, c.args[1], op, c.args[2][2])
      [] IsConst(c.args[1]) /\ ~IsConst(c.args[2]) ->
            Refine(known, c.args[2], Swapped[op], c.args[1][2])
      [] OTHER -> known

ApplyBranch(known, p, b) ==
    LET t == Terminator(f, p)
        tests == IF IsConditional(t) THEN {c \in Definitions(t.args[1]) : c.op \in CmpOps} ELSE {}
    IN  IF tests = {} THEN known
        ELSE LET c == CHOOSE c \in tests : TRUE IN
             ApplyComparison(known, c, IF b = t.to[1] THEN c.op ELSE Inverted[c.op])

\* Mutant: a value known on one edge only keeps what is known there.
MergedEntry_OneSided(b) ==
    LET told == {ApplyBranch(entries[p], p, b) : p \in Predecessors(f, b)}
        joined(x) == JoinRanges({k[x] : k \in {m \in told : x \in DOMAIN m}})
    IN  [x \in UNION {DOMAIN k : k \in told} |-> joined(x)]
(* Known where b begins is what all edges into it agree on.                *)
MergedEntry(b) ==
    LET told == {ApplyBranch(entries[p], p, b) : p \in Predecessors(f, b)}
        joined(x) == JoinRanges({k[x] : k \in told})
        narrow == {x \in UNION {DOMAIN k : k \in told} :
                      /\ \A k \in told : x \in DOMAIN k
                      /\ joined(x) # IntegerBounds(Val(x))}
    IN  [x \in narrow |-> joined(x)]

-----------------------------------------------------------------------------
(* What the intervals decide.                                              *)

EvalCmp(op, x, y) ==
    CASE op \in {"eq", "ne"} ->
            (IF x = y /\ x.lower = x.upper THEN {op = "eq"} ELSE {})
            \cup (IF x.upper < y.lower \/ y.upper < x.lower THEN {op = "ne"} ELSE {})
      [] op = "lt" -> (IF x.upper < y.lower THEN {TRUE} ELSE {})
                      \cup (IF x.lower >= y.upper THEN {FALSE} ELSE {})
      [] op = "le" -> (IF x.upper <= y.lower THEN {TRUE} ELSE {})
                      \cup (IF x.lower > y.upper THEN {FALSE} ELSE {})

Masks == {2^k - 1 : k \in 1..(W - 1)}
\* Mutant: the sign of the left side is not asked for.
MaskFor_AnySign(i) ==
    IF i.op = "srem" /\ IsConst(i.args[2])
    THEN Masks \cap {Abs(i.args[2][2]) - 1} ELSE {}
(* The mask that does for a remainder, where one does.                     *)
MaskFor(i) ==
    IF i.op = "srem" /\ IsConst(i.args[2]) /\ RangeFor(i.args[1], local, ranges).lower >= 0
    THEN Masks \cap {Abs(i.args[2][2]) - 1} ELSE {}
HasUses(id) == \E i \in InstrsOf(f) : Val(id) \in ToSet(i.args)

-----------------------------------------------------------------------------
(* run_on_function.                                                        *)

At == f.body[f.order[block]][index]
InBlocks == block <= Len(f.order)
Advance ==
    IF index < Len(f.body[f.order[block]])
    THEN index' = index + 1 /\ block' = block
    ELSE index' = 1 /\ block' = block + 1

SweepInstruction ==
    /\ phase = "sweep" /\ InBlocks
    /\ LET next == EvalInstruction(At, f.order[block], ranges, Nothing) IN
       IF IsInteger(At) /\ (At.id \notin DOMAIN ranges \/ ranges[At.id] # next)
       THEN ranges' = Put(ranges, At.id, next) /\ changed' = TRUE
       ELSE UNCHANGED <<ranges, changed>>
    /\ Advance
    /\ UNCHANGED <<f, entries, local, replacements, rounds, phase, result>>

SweepAgain ==
    /\ phase = "sweep" /\ ~InBlocks /\ changed /\ rounds < MaxSweeps
    /\ block' = 1 /\ changed' = FALSE /\ rounds' = rounds + 1
    /\ UNCHANGED <<f, ranges, entries, local, replacements, index, phase, result>>

EndSweeps ==
    /\ phase = "sweep" /\ ~InBlocks /\ (~changed \/ rounds = MaxSweeps)
    /\ phase' = "entries" /\ rounds' = 0
    /\ UNCHANGED <<f, ranges, entries, local, replacements, block, index, changed, result>>

NextEntries == [b \in Blocks(f) |-> MergedEntry(b)]
IterateEntries ==
    /\ phase = "entries" /\ rounds < MaxIterations
    /\ entries' = NextEntries /\ entries' # entries
    /\ rounds' = rounds + 1
    /\ UNCHANGED <<f, ranges, local, replacements, block, index, changed, phase, result>>

EndEntries ==
    /\ phase = "entries" /\ (rounds = MaxIterations \/ entries = NextEntries)
    /\ phase' = "rewrite" /\ block' = 1 /\ local' = entries[Entry(f)] /\ result' = f
    /\ UNCHANGED <<f, ranges, entries, replacements, index, changed, rounds>>

MaskId(id) == id + 100
MaskedBefore(b, i, mask) ==
    [result EXCEPT !.body[b] =
        LET k == CHOOSE k \in DOMAIN @ : @[k].id = i.id IN
        InsertAt(@, k, Binary("and", MaskId(i.id), i.args[1], Const(mask)))]

RewriteInstruction ==
    /\ phase = "rewrite" /\ InBlocks
    /\ LET decided == IF At.op \in CmpOps
                      THEN EvalCmp(At.op, RangeFor(At.args[1], local, ranges),
                                          RangeFor(At.args[2], local, ranges)) ELSE {}
           masks == IF HasUses(At.id) THEN MaskFor(At) ELSE {}
           known == IF IsInteger(At)
                    THEN StoreNarrow(local, At.id, EvalInstruction(At, f.order[block], local, ranges))
                    ELSE local
       IN  /\ replacements' =
                 IF decided # {}
                 THEN Put(replacements, At.id, Const(IF TRUE \in decided THEN 1 ELSE 0))
                 ELSE IF masks # {} THEN Put(replacements, At.id, Val(MaskId(At.id)))
                 ELSE replacements
           /\ result' = IF masks = {} THEN result
                        ELSE MaskedBefore(f.order[block], At, CHOOSE n \in masks : TRUE)
           /\ local' = IF index < Len(f.body[f.order[block]]) THEN known
                       ELSE IF block < Len(f.order) THEN entries[f.order[block + 1]]
                       ELSE Nothing
    /\ Advance
    /\ UNCHANGED <<f, ranges, entries, changed, rounds, phase>>

ApplyReplacements ==
    /\ phase = "rewrite" /\ ~InBlocks
    /\ result' = ReplaceOperands(result, LAMBDA v : IF IsVal(v) /\ v[2] \in DOMAIN replacements
                                                    THEN replacements[v[2]] ELSE v)
    /\ phase' = "done"
    /\ UNCHANGED <<f, ranges, entries, local, replacements, block, index, changed, rounds>>

Begin ==
    /\ ranges = Nothing /\ entries = [b \in Blocks(f) |-> Nothing]
    /\ local = Nothing /\ replacements = Nothing
    /\ block = 1 /\ index = 1 /\ changed = FALSE /\ rounds = 1
    /\ phase = "sweep" /\ result = f
Init == f \in Programs /\ Begin
Next ==
    \/ SweepInstruction \/ SweepAgain \/ EndSweeps
    \/ IterateEntries \/ EndEntries
    \/ RewriteInstruction \/ ApplyReplacements
Spec == Init /\ [][Next]_vars

-----------------------------------------------------------------------------
(* Properties.                                                             *)

(* Whenever a sweep or an iteration ends, and so also where a limit cuts   *)
(* them off, every run agrees: what was computed lies in its interval, and *)
(* where a block begins what is known there is so, on whatever round of    *)
(* the loops it is entered.                                                *)
Holds(known, s) == \A x \in DOMAIN known : s.env[x] = Poison \/ Within(s.env[x], known[x])
RangesHold ==
    ~InBlocks /\ phase \in {"sweep", "entries"} =>
        \A trace \in {Trace(f, in, Fuel) : in \in Inputs(f)} : Last(trace).end # "undefined" =>
            \A k \in DOMAIN trace :
                /\ Holds(ranges, trace[k])
                /\ trace[k].end = "running" => Holds(entries[trace[k].at], trace[k])

(* Intervals only shrink from sweep to sweep, although each overwrites     *)
(* what the last one found: to the smaller of two intervals an operation   *)
(* gives the smaller result.  Not so the remainder: by 3, of [-1, 0] it is *)
(* given [-2, 0] and of [0, 0] then [0, 2].                                *)
Narrow(new, old) == old.lower <= new.lower /\ new.upper <= old.upper
Narrower(new, old) == \A x \in DOMAIN old : x \in DOMAIN new /\ Narrow(new[x], old[x])
TakesRemainders == \E i \in InstrsOf(f) : i.op = "srem"
OnlyNarrows == [][TakesRemainders \/ Narrower(ranges', ranges)]_vars
=============================================================================
