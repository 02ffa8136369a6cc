-------------------------------- MODULE OIR --------------------------------
(***************************************************************************)
(* OIR, the SSA form of the middle end (src/oir/OIR.cpp), and what it      *)
(* means to run a function of it.  A function is its list of blocks        *)
(* (order[1] is the entry block) and their instructions; the last          *)
(* instruction of a block is its terminator.  Names, source locations and  *)
(* floating point are left out; integers keep their width, W bits for the  *)
(* i32 of the code.                                                        *)
(*                                                                         *)
(* An optimization may change a function only in ways no run can show:     *)
(* the calls of other programs' functions with their arguments, in order,  *)
(* the result, and the memory the function was given.  Runs whose original *)
(* divides by zero, leaves an array or lets an undefined value decide      *)
(* something show nothing: the source language leaves them undefined.      *)
(*                                                                         *)
(* Memory is words: an array is a row of them, and a gep is an array, or   *)
(* the address of a word, and the number of words to go on.                *)
(***************************************************************************)
EXTENDS Integers, Sequences, FiniteSets, SequencesExt, FiniteSetsExt

CONSTANTS W,     \* bits of the integer type, 32 in the code
          Fuel   \* blocks a run is followed for

ASSUME WidthAssumption == W \in Nat /\ W >= 2
ASSUME FuelAssumption == Fuel \in Nat

(* The element of a set of one.                                            *)
The(S) == CHOOSE x \in S : TRUE
(* FoldLeft, where what has come of it so far is computed once a step.     *)
Through(Op(_, _), base, seq) ==
    LET upTo[n \in 0..Len(seq)] == IF n = 0 THEN base ELSE The({Op(a, seq[n]) : a \in {upTo[n - 1]}})
    IN  upTo[Len(seq)]

-----------------------------------------------------------------------------
(* Values, instructions and functions.                                     *)

Const(n) == <<"const", n>>
Val(id) == <<"val", id>>
Undef == <<"undef", 0>>
Global(g) == <<"global", g>>            \* the address of a global variable
Callee(name) == <<"function", name>>  \* what a call of the module calls
Zeros(words) == <<"zero", words>>       \* what clears a whole array
IsConst(v) == v[1] = "const"
IsVal(v) == v[1] = "val"
IsGlobal(v) == v[1] = "global"

Instr(op, id, bits, args, to) ==
    [op |-> op, id |-> id, bits |-> bits, args |-> args, to |-> to]

Phi(id, args, from) == Instr("phi", id, W, args, from)
Binary(op, id, a, b) == Instr(op, id, W, <<a, b>>, <<>>)
Cmp(op, id, a, b) == Instr(op, id, 1, <<a, b>>, <<>>)
ZExt(id, a) == Instr("zext", id, W, <<a>>, <<>>)
Alloca(id) == Instr("alloca", id, 0, <<>>, <<>>)
Array(id, words) == Instr("alloca", id, 0, <<Const(words)>>, <<>>)
Gep(id, p, n) == Instr("gep", id, 0, <<p, n>>, <<>>)
MemZero(p, words) == Instr("memzero", 0, 0, <<p, Const(words)>>, <<>>)
Load(id, p) == Instr("load", id, W, <<p>>, <<>>)
Store(v, p) == Instr("store", 0, 0, <<v, p>>, <<>>)
Call(id, a) == Instr("call", id, W, <<a>>, <<>>)
InternalCall(id, name, args) == Instr("call", id, W, <<Callee(name)>> \o args, <<>>)
Br(b) == Instr("br", 0, 0, <<>>, <<b>>)
CondBr(c, t, e) == Instr("br", 0, 0, <<c>>, <<t, e>>)
Ret(a) == Instr("ret", 0, 0, <<a>>, <<>>)

BinaryOps == {"add", "sub", "mul", "and", "or", "xor", "sdiv", "srem"}
CmpOps == {"eq", "ne", "lt", "le"}
IsPhi(i) == i.op = "phi"
IsConditional(i) == i.op = "br" /\ Len(i.to) = 2
IsInternalCall(i) == i.op = "call" /\ i.args[1][1] = "function"

Blocks(f) == ToSet(f.order)
Entry(f) == f.order[1]
InstrsOf(f) == UNION {ToSet(f.body[b]) : b \in Blocks(f)}
Ids(f) == {i.id : i \in InstrsOf(f)} \ {0}
Phis(f, b) == SelectSeq(f.body[b], IsPhi)
NotPhi(i) == ~IsPhi(i)
Terminator(f, b) == Last(f.body[b])

(* successors() and predecessors() hold each block once (OIR.cpp:2251),    *)
(* also when both targets of a branch are the same block.                  *)
SuccessorSet(f, b) == ToSet(Terminator(f, b).to)
Predecessors(f, b) == {p \in Blocks(f) : b \in SuccessorSet(f, p)}
ReachableFrom(f, S) ==
    Through(LAMBDA R, k : R \cup UNION {SuccessorSet(f, b) : b \in R}, S, f.order)
Reachable(f) == ReachableFrom(f, {Entry(f)})

(* Every operand equal to an instruction in DOMAIN r becomes r of it.      *)
ReplaceOperands(f, Replaced(_)) ==
    LET rewritten(i) == [i EXCEPT !.args = [n \in DOMAIN i.args |-> Replaced(i.args[n])]]
    IN  [f EXCEPT !.body = [b \in DOMAIN f.body |->
            [k \in DOMAIN f.body[b] |-> rewritten(f.body[b][k])]]]

(* What the verifier (OIR.cpp) demands of a function in SSA form: one      *)
(* definition per value, terminators at the ends, phis first and with one  *)
(* entry for each predecessor, and every use dominated by its definition.  *)
Avoiding(f, a) ==      \* the blocks some way leads to that does not come by a
    IF a = Entry(f) THEN {}
    ELSE Through(LAMBDA R, k : R \cup ((UNION {SuccessorSet(f, x) : x \in R}) \ {a}), {Entry(f)}, f.order)
Dominates(f, a, b) == a = b \/ b \notin Avoiding(f, a)
IsTerminator(i) == i.op \in {"br", "ret"}
Dominated(f) == UNION {{a} \X ((Blocks(f) \ Avoiding(f, a)) \cup {a}) : a \in Blocks(f)}
IdsIn(body) == {i.id : i \in ToSet(body)} \ {0}
(* What is not an argument is used where its definition has come before.   *)
AtEnd(f, dominated, b) == UNION {IdsIn(f.body[d]) : d \in {a \in Blocks(f) : <<a, b>> \in dominated}}
UsesDominated(f, reached, dominated, ids, b) ==
    \A above \in {AtEnd(f, dominated, b) \ IdsIn(f.body[b])} : \A k \in DOMAIN f.body[b] :
        \A i \in {f.body[b][k]} :
            IF IsPhi(i)
            THEN \A n \in DOMAIN i.to :
                    IsVal(i.args[n]) /\ i.args[n][2] \in ids /\ i.to[n] \in reached =>
                        i.args[n][2] \in AtEnd(f, dominated, i.to[n])
            ELSE \A v \in ToSet(i.args) : IsVal(v) /\ v[2] \in ids =>
                    v[2] \in above \/ \E n \in 1..(k - 1) : f.body[b][n].id = v[2]
WellFormedBlock(f, b) ==
    LET body == f.body[b] IN
    /\ body # <<>>
    /\ \A k \in DOMAIN body :
          /\ IsTerminator(body[k]) <=> k = Len(body)
          /\ IsPhi(body[k]) => \A n \in 1..k : IsPhi(body[n])
          /\ ToSet(body[k].to) \subseteq Blocks(f)
          /\ IsPhi(body[k]) => \A preds \in {Predecessors(f, b)} :
                /\ ToSet(body[k].to) = preds /\ Len(body[k].to) = Cardinality(preds)
                /\ Len(body[k].args) = Len(body[k].to)
WellFormed(f) ==
    /\ \A b \in Blocks(f) : WellFormedBlock(f, b)
    /\ \A reached \in {Reachable(f)}, dominated \in {Dominated(f)}, ids \in {Ids(f)} :
          \A b \in reached : UsesDominated(f, reached, dominated, ids, b)
    /\ Predecessors(f, Entry(f)) = {}
    /\ Cardinality(Ids(f)) =
          MapThenSumSet(LAMBDA b : Len(SelectSeq(f.body[b], LAMBDA i : i.id # 0)), Blocks(f))

-----------------------------------------------------------------------------
(* Integers of W bits and of one bit.                                      *)

Wrap(n) == ((n + 2^(W - 1)) % 2^W) - 2^(W - 1)
Truncated(bits, n) == IF bits = 1 THEN (IF n = 0 THEN 0 ELSE 1) ELSE Wrap(n)

BitOf(n, i) == ((n % 2^W) \div 2^i) % 2
SumOf(numbers) ==
    LET upTo[n \in 0..Len(numbers)] == IF n = 0 THEN 0 ELSE upTo[n - 1] + numbers[n]
    IN  upTo[Len(numbers)]
ByBits(Gate(_, _), a, b) ==
    Wrap(SumOf([n \in 1..W |-> Gate(BitOf(a, n - 1), BitOf(b, n - 1)) * 2^(n - 1)]))

Abs(n) == IF n < 0 THEN -n ELSE n
Sign(a, b) == IF (a < 0) = (b < 0) THEN 1 ELSE -1
TowardZero(a, b) == Sign(a, b) * (Abs(a) \div Abs(b))

Compare(op, a, b) ==
    CASE op = "eq" -> a = b [] op = "ne" -> a # b [] op = "lt" -> a < b [] op = "le" -> a <= b

(* What the RISC-V instructions chosen for the operations compute; b # 0   *)
(* where op divides.                                                       *)
Machine(op, a, b) ==
    CASE op = "add" -> Wrap(a + b)
      [] op = "sub" -> Wrap(a - b)
      [] op = "mul" -> Wrap(a * b)
      [] op = "and" -> ByBits(LAMBDA x, y : x * y, a, b)
      [] op = "or" -> ByBits(LAMBDA x, y : x + y - x * y, a, b)
      [] op = "xor" -> ByBits(LAMBDA x, y : (x + y) % 2, a, b)
      [] op = "sdiv" -> Wrap(TowardZero(a, b))
      [] op = "srem" -> Wrap(a - b * TowardZero(a, b))

-----------------------------------------------------------------------------
(* Running a function.  An undefined value is Poison: it spreads through   *)
(* operations, and a run that branches on it, shows it or uses it as an    *)
(* address is undefined.  A word is named by its alloca or global and how  *)
(* far it is into it; no distance leads from one object to another.        *)

Poison == 2^(W + 4)
Cell(object, n) == object + 2^(W + 5) * n
WordsAt(address, n) == {Cell(address, k) : k \in 0..(n - 1)}
WordsIn(i) == IF i.args = <<>> THEN 1 ELSE i.args[1][2]   \* of an alloca

(* What a run is given: its arguments, values 1..Len(args) of the          *)
(* function, the answers of the functions it calls, in turn, the memory it *)
(* finds, and the functions of its module.                                 *)
Start(f, in) ==
    [at |-> Entry(f), from |-> Entry(f), shown |-> <<>>, end |-> "running",
     env |-> [v \in Ids(f) \cup DOMAIN in.args |->
                 IF v \in DOMAIN in.args THEN in.args[v] ELSE Poison],
     mem |-> The({[c \in own \cup DOMAIN in.mem |-> IF c \in own THEN Poison ELSE in.mem[c]] :
                    own \in {UNION {WordsAt(i.id, WordsIn(i)) : i \in {j \in InstrsOf(f) : j.op = "alloca"}}}})]

Read(s, v) == CASE IsConst(v) -> v[2] [] IsVal(v) -> s.env[v[2]] [] IsGlobal(v) -> v[2]
                [] v[1] \in {"zero", "function"} -> 0 [] OTHER -> Poison
Undefined(s) == [s EXCEPT !.end = "undefined"]
Sets(s, i, n) == [s EXCEPT !.env[i.id] = n]
Shows(s, a) == [s EXCEPT !.shown = Append(@, a)]
Overwrites(s, words, n) ==
    IF words \subseteq DOMAIN s.mem
    THEN [s EXCEPT !.mem = [c \in DOMAIN @ |-> IF c \in words THEN n ELSE @[c]]]
    ELSE Undefined(s)

(* Every instruction but a call of a function of the module.               *)
Execute(in, s, i) ==
    LET arg(n) == Read(s, i.args[n])
        spoiled == \E n \in DOMAIN i.args : arg(n) = Poison IN
    IF s.end # "running" THEN s ELSE
    CASE i.op \in BinaryOps ->
            IF i.op \in {"sdiv", "srem"} /\ (arg(2) = 0 \/ spoiled) THEN Undefined(s)
            ELSE Sets(s, i, IF spoiled THEN Poison
                            ELSE Truncated(i.bits, Machine(i.op, arg(1), arg(2))))
      [] i.op \in CmpOps ->
            Sets(s, i, IF spoiled THEN Poison
                       ELSE IF Compare(i.op, arg(1), arg(2)) THEN 1 ELSE 0)
      [] i.op = "zext" -> Sets(s, i, arg(1))
      [] i.op = "alloca" -> Overwrites(Sets(s, i, i.id), WordsAt(i.id, WordsIn(i)), Poison)
      [] i.op = "gep" -> Sets(s, i, IF spoiled THEN Poison ELSE Cell(arg(1), arg(2)))
      [] i.op = "load" -> IF arg(1) \notin DOMAIN s.mem THEN Undefined(s)
                          ELSE Sets(s, i, s.mem[arg(1)])
      [] i.op = "store" ->
            Overwrites(s, WordsAt(arg(2), IF i.args[1][1] = "zero" THEN i.args[1][2] ELSE 1), arg(1))
      [] i.op = "memzero" -> Overwrites(s, WordsAt(arg(1), arg(2)), 0)
      [] i.op = "call" ->
            IF spoiled THEN Undefined(s)
            ELSE Sets([s EXCEPT !.shown = @ \o [n \in DOMAIN i.args |-> arg(n)]], i,
                      in.answers[1 + (Len(s.shown) % Len(in.answers))])
      [] i.op = "ret" -> IF spoiled THEN Undefined(s)
                         ELSE [Shows(s, arg(1)) EXCEPT !.end = "returned"]
      [] i.op = "br" ->
            IF spoiled THEN Undefined(s)
            ELSE [s EXCEPT !.from = s.at,
                           !.at = IF IsConditional(i) /\ arg(1) = 0 THEN i.to[2] ELSE i.to[1]]

(* All the phis of a block read their operands before any is written.      *)
EnterBlock(f, s) ==
    LET taken(p) == Read(s, p.args[CHOOSE n \in DOMAIN p.to : p.to[n] = s.from])
        named(v) == {p \in ToSet(f.body[s.at]) : IsPhi(p) /\ p.id = v}
    IN  [s EXCEPT !.env = [v \in DOMAIN @ |-> IF named(v) = {} THEN @[v] ELSE taken(The(named(v)))]]

FirstBlocks == [k \in 1..Fuel |-> k]

(* A call of a function of the module, run to its end; what it returns is  *)
(* the last it shows.  One that does not end keeps its caller from going   *)
(* on, and one that calls a function of the module itself is not followed: *)
(* calls are one deep, a bound.                                            *)
CalleeExecute(in, s, i) ==
    IF s.end = "running" /\ IsInternalCall(i) THEN [s EXCEPT !.end = "endless"] ELSE Execute(in, s, i)
CalleeBlock(f, in, s) ==
    IF s.end # "running" THEN s
    ELSE Through(LAMBDA t, i : IF IsPhi(i) THEN t ELSE CalleeExecute(in, t, i), EnterBlock(f, s), f.body[s.at])
CallsInternal(in, s, i) ==
    LET callee == in.functions[i.args[1][2]]
        given == [in EXCEPT !.args = [n \in 1..(Len(i.args) - 1) |-> Read(s, i.args[n + 1])],
                            !.mem = s.mem]
        t == Through(LAMBDA u, k : CalleeBlock(callee, given, u),
                     [Start(callee, given) EXCEPT !.shown = s.shown], FirstBlocks)
    IN  CASE Poison \in {Read(s, i.args[n]) : n \in DOMAIN i.args} -> Undefined(s)
          [] t.end = "returned" ->
                [Sets(s, i, Last(t.shown)) EXCEPT !.shown = Front(t.shown),
                                                  !.mem = [c \in DOMAIN @ |-> t.mem[c]]]
          [] t.end = "undefined" -> Undefined(s)
          [] OTHER -> [s EXCEPT !.shown = t.shown, !.end = "endless"]

ExecuteAny(in, s, i) ==
    IF s.end = "running" /\ IsInternalCall(i) THEN CallsInternal(in, s, i) ELSE Execute(in, s, i)
RunBlock(f, in, s) ==
    IF s.end # "running" THEN s
    ELSE Through(LAMBDA t, i : IF IsPhi(i) THEN t ELSE ExecuteAny(in, t, i), EnterBlock(f, s), f.body[s.at])

(* The states a run is in before each of its first n + 1 blocks.           *)
Trace(f, in, n) ==
    Through(LAMBDA t, k : Append(t, RunBlock(f, in, Last(t))), <<Start(f, in)>>, [k \in 1..n |-> k])
Run(f, in) == Through(LAMBDA t, k : RunBlock(f, in, t), Start(f, in), FirstBlocks)

(* Nobody can tell from the run s that t was executed in its place.        *)
Indistinguishable(s, t) ==
    CASE s.end = "undefined" -> TRUE
      [] s.end = "returned" -> \/ t.end = "returned" /\ t.shown = s.shown
                               \/ t.end = "running" /\ IsPrefix(t.shown, s.shown)
      [] OTHER -> /\ t.end # "undefined"
                  /\ IsPrefix(t.shown, s.shown) \/ IsPrefix(s.shown, t.shown)
LeavesMemory(in, s, t) ==
    s.end = "returned" /\ t.end = "returned" =>
        \A c \in DOMAIN in.mem : s.mem[c] \in {Poison, t.mem[c]}
Preserves(f, g, inputs) ==
    f = g \/ \A in \in inputs : \A s \in {Run(f, in)}, t \in {Run(g, in)} :
        Indistinguishable(s, t) /\ LeavesMemory(in, s, t)
=============================================================================
