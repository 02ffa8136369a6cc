-------------------------------- MODULE MIR --------------------------------
(***************************************************************************)
(* MIR, the machine functions of the back end (src/mir/MIR.cpp), and what  *)
(* it means to run one.  A function is its layout, the list of its blocks  *)
(* as they will stand in the assembly, and their instructions.  Control    *)
(* that reaches the end of a block without a jump falls into the next one. *)
(* Blocks are numbers; the label of the epilogue is no block.              *)
(*                                                                         *)
(* A register is a number: virtual ones positive, physical ones negative,  *)
(* 0 the register that always reads 0.  It holds 2 * W bits; an i32 is     *)
(* kept in it sign-extended, and takes W bits in memory.  The slot of a    *)
(* spilled register has the register's number, negated; the registers the  *)
(* passes on MIR type as pointers come after LongTemp.                     *)
(***************************************************************************)
EXTENDS OIR

CONSTANTS ImmBits,      \* bits of an immediate operand, 12 in the code
          ArgRegs,      \* physical registers of the arguments, in order
          Palette,      \* physical registers allocation may use, in order
          CallerSaved   \* physical registers a call may overwrite

Epilogue == 0
LongTemp == 100000000
ReturnReg == ArgRegs[1]
Physical == ToSet(Palette) \cup ToSet(ArgRegs) \cup CallerSaved

(* op, the register written (at most one), the registers read, in order,   *)
(* an immediate (for a call: how many arguments it takes), and the target. *)
Op(op, d, u, k, to) == [op |-> op, d |-> d, u |-> u, k |-> k, to |-> to]
LoadImm(d, n) == Op("li", <<d>>, <<>>, n, <<>>)
Move(d, s) == Op("mv", <<d>>, <<s>>, 0, <<>>)
LoadStackAddr(d, cell) == Op("laddr", <<d>>, <<>>, cell, <<>>)
LoadMem(d, p) == Op("lmem", <<d>>, <<p>>, 0, <<>>)
StoreMem(p, v) == Op("smem", <<>>, <<p, v>>, 0, <<>>)
LoadSlot(d, slot) == Op("lslot", <<d>>, <<>>, slot, <<>>)
StoreSlot(slot, v) == Op("sslot", <<>>, <<v>>, slot, <<>>)
CallOf(n) == Op("call", <<>>, <<>>, n, <<>>)
Jump(b) == Op("j", <<>>, <<>>, 0, <<b>>)

Defs(i) == ToSet(i.d)
Uses(i) == ToSet(i.u)
IsMove(i) == i.op = "mv"
Virtual(r) == r > 0
ConditionalOps == {"bnez", "beqz", "beq", "bne", "blt", "bge"}
IsConditionalBranch(i) == i.op \in ConditionalOps
PureOps == {"li", "mv", "laddr", "lslot", "addw", "addiw", "subw", "mulw", "divw", "remw",
            "and", "andi", "xor", "xori", "slt", "sltu", "seqz", "snez", "slliw", "sraiw",
            "srliw", "add", "sub", "mul", "divu", "srai", "srli"}
MayStore(i) == i.op \in {"smem", "sslot"}
FitsImm(n) == n \in -(2^(ImmBits - 1))..(2^(ImmBits - 1) - 1)

UsesOf(g, r) ==
    MapThenSumSet(LAMBDA b : MapThenSumSet(LAMBDA k :
        Cardinality({n \in DOMAIN g.body[b][k].u : g.body[b][k].u[n] = r}),
        DOMAIN g.body[b]), ToSet(g.order))
DefsOf(g, r) ==
    MapThenSumSet(LAMBDA b : Cardinality({k \in DOMAIN g.body[b] : r \in Defs(g.body[b][k])}),
                  ToSet(g.order))

LayoutIndex(g, b) == CHOOSE n \in DOMAIN g.order : g.order[n] = b
MachineInstrs(g) == UNION {ToSet(g.body[b]) : b \in ToSet(g.order)}
Registers(g) == UNION {Defs(i) \cup Uses(i) : i \in MachineInstrs(g)}

(* rebuild_cfg looks at the last two instructions of a block.              *)
Successors(g, b) ==
    LET body == g.body[b]
        n == Len(body)
        next == LET k == LayoutIndex(g, b) IN
                IF k < Len(g.order) THEN {g.order[k + 1]} ELSE {}
        before == IF n >= 2 /\ IsConditionalBranch(body[n - 1]) THEN ToSet(body[n - 1].to) ELSE {}
    IN  (CASE n = 0 -> next
           [] IsConditionalBranch(body[n]) -> ToSet(body[n].to) \cup next
           [] body[n].op = "j" -> ToSet(body[n].to) \cup before
           [] OTHER -> before \cup next) \cap ToSet(g.order)
MachinePredecessors(g, b) == {p \in ToSet(g.order) : b \in Successors(g, p)}

-----------------------------------------------------------------------------
(* The cost model: what a policy asks of a transformation that is legal.   *)
(* Confidence is in percent; no pass on MIR adds code.                     *)

PolicyOf(score, confidence, pressure, live) ==
    [score |-> score, confidence |-> confidence, pressure |-> pressure, live |-> live]
Conservative == PolicyOf(8, 70, 4, 8)
Balanced == PolicyOf(1, 55, 8, 16)
Aggressive == PolicyOf(0, 45, 14, 28)

Allows(policy, confidence, gain, pressure, live) ==
    /\ pressure <= policy.pressure
    /\ live <= policy.live
    /\ confidence >= policy.confidence
    /\ gain - 2 * live - 6 * pressure >= policy.score

-----------------------------------------------------------------------------
(* Running.  goto is the block a jump was taken to; a block is left at the *)
(* first one.  What a call or nothing has set is Poison.                   *)

Nowhere == -1

MachineStart(g, in, registers) ==
    [at |-> g.order[1], goto |-> Nowhere, shown |-> <<>>, end |-> "running",
     env |-> [r \in registers |->
                 IF r = 0 THEN 0
                 ELSE IF \E n \in DOMAIN in.args : r = ArgRegs[n]
                      THEN in.args[CHOOSE n \in DOMAIN in.args : r = ArgRegs[n]] ELSE Poison],
     mem |-> [c \in {i.k : i \in {j \in MachineInstrs(g) : j.op \in {"laddr", "sslot", "lslot"}}}
                |-> Poison]]

Writes(s, i, n) == IF i.d[1] = 0 THEN s ELSE [s EXCEPT !.env[i.d[1]] = n]
Taken(op, a, b) ==
    CASE op = "bnez" -> a # 0 [] op = "beqz" -> a = 0 [] op = "beq" -> a = b
      [] op = "bne" -> a # b [] op = "blt" -> a < b [] op = "bge" -> a >= b
Truth(p) == IF p THEN 1 ELSE 0

LongWrap(n) == ((n + 2^(2 * W - 1)) % 2^(2 * W)) - 2^(2 * W - 1)
Unsigned(n) == n % 2^(2 * W)
LongBit(n, k) == (Unsigned(n) \div 2^k) % 2
LongAnd(a, b) == LongWrap(MapThenSumSet(LAMBDA k : LongBit(a, k) * LongBit(b, k) * 2^k, 0..(2 * W - 1)))
LongXor(a, b) == LongWrap(a + b - 2 * LongAnd(a, b))

(* The operations with a w work on the low half of their operands; what    *)
(* they give is sign-extended.                                             *)
MachineResult(i, a, b) ==
    CASE i.op = "addw" -> Wrap(a + b)
      [] i.op = "addiw" -> Wrap(a + i.k)
      [] i.op = "subw" -> Wrap(a - b)
      [] i.op = "mulw" -> Wrap(a * b)
      [] i.op = "divw" -> IF Wrap(b) = 0 THEN -1 ELSE Wrap(TowardZero(Wrap(a), Wrap(b)))
      [] i.op = "remw" -> IF Wrap(b) = 0 THEN Wrap(a)
                          ELSE Wrap(Wrap(a) - Wrap(b) * TowardZero(Wrap(a), Wrap(b)))
      [] i.op = "slliw" -> Wrap(a * 2^i.k)
      [] i.op = "sraiw" -> Wrap(a) \div 2^i.k
      [] i.op = "srliw" -> Wrap((a % 2^W) \div 2^i.k)
      [] i.op = "and" -> LongAnd(a, b)
      [] i.op = "andi" -> LongAnd(a, i.k)
      [] i.op = "xor" -> LongXor(a, b)
      [] i.op = "xori" -> LongXor(a, i.k)
      [] i.op = "add" -> LongWrap(a + b)
      [] i.op = "sub" -> LongWrap(a - b)
      [] i.op = "mul" -> LongWrap(a * b)
      [] i.op = "divu" -> IF b = 0 THEN -1 ELSE LongWrap(Unsigned(a) \div Unsigned(b))
      [] i.op = "srai" -> a \div 2^i.k
      [] i.op = "srli" -> LongWrap(Unsigned(a) \div 2^i.k)
      [] i.op = "slt" -> Truth(a < b)
      [] i.op = "sltu" -> Truth(Unsigned(a) < Unsigned(b))
      [] i.op = "seqz" -> Truth(a = 0)
      [] i.op = "snez" -> Truth(a # 0)

(* A word of memory: an i32, or the name of a cell.                        *)
Stored(n) == IF n = Poison THEN Poison ELSE Wrap(n)

MachineExecute(in, s, i) ==
    LET arg(n) == s.env[i.u[n]]
        second == IF Len(i.u) = 2 THEN arg(2) ELSE 0
        spoiled == \E n \in DOMAIN i.u : arg(n) = Poison IN
    CASE s.end # "running" \/ s.goto # Nowhere -> s
      [] i.op = "j" -> [s EXCEPT !.goto = i.to[1]]
      [] IsConditionalBranch(i) ->
            IF spoiled THEN Undefined(s)
            ELSE IF Taken(i.op, arg(1), second) THEN [s EXCEPT !.goto = i.to[1]] ELSE s
      [] i.op \in {"li", "laddr"} -> Writes(s, i, i.k)
      [] i.op = "mv" -> Writes(s, i, arg(1))
      [] i.op = "lslot" -> Writes(s, i, s.mem[i.k])
      [] i.op = "sslot" -> [s EXCEPT !.mem[i.k] = IF -i.k > LongTemp THEN arg(1) ELSE Stored(arg(1))]
      [] i.op = "lmem" -> IF spoiled THEN Undefined(s) ELSE Writes(s, i, s.mem[arg(1)])
      [] i.op = "smem" -> IF arg(1) = Poison THEN Undefined(s)
                          ELSE [s EXCEPT !.mem[arg(1)] = Stored(arg(2))]
      [] i.op = "call" ->
            LET given == [n \in 1..i.k |-> s.env[ArgRegs[n]]]
                answer == in.answers[1 + (Len(s.shown) % Len(in.answers))]
            IN  IF \E n \in 1..i.k : given[n] = Poison THEN Undefined(s)
                ELSE [s EXCEPT !.shown = @ \o given,
                               !.env = [r \in DOMAIN @ |->
                                           IF r = ReturnReg THEN answer
                                           ELSE IF r \in CallerSaved THEN Poison ELSE @[r]]]
      [] OTHER -> Writes(s, i, IF spoiled THEN Poison ELSE MachineResult(i, arg(1), second))

(* The epilogue, also after the last block, returns what ReturnReg holds.  *)
Enter(g, s) ==
    LET k == LayoutIndex(g, s.at)
        to == IF s.goto # Nowhere THEN s.goto
              ELSE IF k < Len(g.order) THEN g.order[k + 1] ELSE Epilogue
    IN  CASE s.end # "running" -> s
          [] to # Epilogue -> [s EXCEPT !.at = to, !.goto = Nowhere]
          [] s.env[ReturnReg] = Poison -> Undefined(s)
          [] OTHER -> [Shows(s, s.env[ReturnReg]) EXCEPT !.end = "returned"]

MachineRunBlock(g, in, s) ==
    IF s.end # "running" THEN s
    ELSE Enter(g, FoldLeft(LAMBDA t, i : MachineExecute(in, t, i), s, g.body[s.at]))

MachineRun(g, in) ==
    FoldLeft(LAMBDA s, k : MachineRunBlock(g, in, s),
             MachineStart(g, in, Registers(g) \cup Physical \cup {0}),
             [k \in 1..(2 * Fuel) |-> k])
=============================================================================
