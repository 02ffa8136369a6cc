----------------------------- MODULE MIRCombine -----------------------------
(***************************************************************************)
(* The combiner, the first rewriting of the machine function               *)
(* (MIRCombinePipelinePass and the passes it calls): constants go into     *)
(* immediates, comparisons into the branches that test them, a remainder   *)
(* that is only tested for zero becomes a mask, and operations with a      *)
(* trivial operand become moves.                                           *)
(*                                                                         *)
(* A pass walks over the blocks once.  Which registers have one definition *)
(* and one use it asks of the counts it took at its start.                 *)
(***************************************************************************)
EXTENDS MIR

(* A rule is asked at each instruction, and gives the function and where   *)
(* to go on.                                                               *)
Stays(g, i) == [code |-> g, next |-> i + 1]
Put(g, b, i, op) == [g EXCEPT !.body[b][i] = op]
Erase(g, b, i) == [g EXCEPT !.body[b] = RemoveAt(@, i)]
EraseAll(g, b, S) ==
    [g EXCEPT !.body[b] = LET old == @ IN
        FlattenSeq([k \in DOMAIN old |-> IF k \in S THEN <<>> ELSE <<old[k]>>])]
(* What a pass makes of g.  The comparison is for TLC, which would work    *)
(* the result out again at each of its uses.                               *)
After(g, Pass(_)) == CHOOSE h \in {Pass(g)} : h = h

Walk(g, Rule(_, _, _)) ==
    LET RECURSIVE Along(_, _, _)
        Along(h, b, i) == IF i > Len(h.body[b]) THEN h
                          ELSE LET r == Rule(h, b, i) IN Along(r.code, b, r.next)
    IN  FoldLeft(LAMBDA h, b : Along(h, b, 1), g, g.order)

(* count_vregs, single_use_vreg, find_def_before *)
Counts(g) == [uses |-> [r \in Registers(g) |-> UsesOf(g, r)], defs |-> [r \in Registers(g) |-> DefsOf(g, r)]]
SingleUse(n, r) == Virtual(r) /\ n.uses[r] = 1 /\ n.defs[r] = 1
DefBefore(body, i, r) == Max({0} \cup {k \in 1..(i - 1) : r \in Defs(body[k])})
MadeBy(body, i, r, op) ==
    LET p == DefBefore(body, i, r) IN p # 0 /\ body[p].op = op

-----------------------------------------------------------------------------
(* combine_immediates                                                      *)

(* A constant with this one use, loaded in this block.                     *)
LoadedConst(n, body, i, r) == SingleUse(n, r) /\ MadeBy(body, i, r, "li")
ConstLoaded(body, i, r) == body[DefBefore(body, i, r)].k

(* The instruction i becomes with operand k as an immediate, if any.       *)
Immediate(i, k, c) ==
    LET other == i.u[3 - k]
        d == i.d[1]
        with(op, n) == {Op(op, <<d>>, <<other>>, n, <<>>)}
    IN  CASE i.op = "addw" /\ FitsImm(c) -> with("addiw", c)
          [] i.op = "subw" /\ k = 2 /\ FitsImm(-c) -> with("addiw", -c)
          [] i.op = "subw" /\ k = 1 /\ c = 0 -> {[i EXCEPT !.u[1] = 0]}
          [] i.op = "and" /\ FitsImm(c) -> with("andi", c)
          [] i.op = "xor" /\ FitsImm(c) -> with("xori", c)
          [] i.op = "mulw" /\ c = 0 -> {Move(d, 0)}
          [] i.op = "mulw" /\ c = 1 -> {Move(d, other)}
          [] i.op = "mulw" /\ c > 1 /\ (\E s \in 1..W : c = 2^s) -> with("slliw", CHOOSE s \in 1..W : c = 2^s)
          [] OTHER -> {}

CombineImmediateAt(n, g, b, at) ==
    LET body == g.body[b]
        i == body[at]
        fits(k) == LoadedConst(n, body, at, i.u[k]) /\ Immediate(i, k, ConstLoaded(body, at, i.u[k])) # {}
        use(k) == [code |-> Erase(Put(g, b, at, CHOOSE j \in Immediate(i, k, ConstLoaded(body, at, i.u[k])) : TRUE),
                                  b, DefBefore(body, at, i.u[k])),
                   next |-> at]
    IN  CASE i.op \notin {"addw", "subw", "and", "xor", "mulw"} -> Stays(g, at)
          [] fits(2) -> use(2)
          [] ~fits(2) /\ fits(1) /\ (i.op = "mulw" => ~LoadedConst(n, body, at, i.u[2])) -> use(1)
          [] OTHER -> Stays(g, at)
CombineImmediates(g) ==
    LET n == Counts(g) IN Walk(g, LAMBDA h, b, i : CombineImmediateAt(n, h, b, i))

-----------------------------------------------------------------------------
(* combine_compare_branches                                                *)

(* What a branch on a register with this producer can be instead: the      *)
(* branch, and the instructions it makes useless.                          *)
BranchForms(g, n, b, at) ==
    LET body == g.body[b]
        branch == body[at]
        cond == branch.u[1]
        ifTrue == branch.op = "bnez"
        p == DefBefore(body, at, cond)
        i == body[p]
        x == DefBefore(body, p, i.u[1])
        made(op) == Len(i.u) = 1 /\ SingleUse(n, i.u[1]) /\ MadeBy(body, p, i.u[1], op)
        form(op, u, dead) == {[op |-> Op(op, <<>>, u, 0, branch.to), dead |-> dead]}
    IN  CASE ~SingleUse(n, cond) \/ p = 0 -> {}
          [] i.op = "slt" -> form(IF ifTrue THEN "blt" ELSE "bge", i.u, {p})
          [] i.op \in {"seqz", "snez"} /\ made("xor") ->
                form(IF (i.op = "seqz") = ifTrue THEN "beq" ELSE "bne", body[x].u, {p, x})
          [] i.op \in {"seqz", "snez"} /\ ~made("xor") ->
                form(IF (i.op = "snez") = ifTrue THEN "bnez" ELSE "beqz", i.u, {p})
          [] i.op = "xori" /\ i.k = 1 /\ made("slt") ->
                form(IF ifTrue THEN "bge" ELSE "blt", body[x].u, {p, x})
          [] i.op = "xori" /\ i.k = 1 /\ ~made("slt") /\ i.u[1] \in g.bools ->
                form(IF ifTrue THEN "beqz" ELSE "bnez", i.u, {p})
          [] OTHER -> {}

CombineBranchAt(n, g, b, at) ==
    IF g.body[b][at].op \notin {"bnez", "beqz"} \/ BranchForms(g, n, b, at) = {} THEN Stays(g, at)
    ELSE LET form == CHOOSE f \in BranchForms(g, n, b, at) : TRUE
         IN  [code |-> EraseAll(Put(g, b, at, form.op), b, form.dead),
              next |-> at + 1 - Cardinality(form.dead)]
CombineCompareBranches(g) ==
    LET n == Counts(g) IN Walk(g, LAMBDA h, b, i : CombineBranchAt(n, h, b, i))

-----------------------------------------------------------------------------
(* combine_rem_zero_branches: v - ((v / 2^s) * 2^s), tested for zero.      *)

(* <<value, s, where the remainder is, what else made it>>                 *)
RemPow2(n, body, at, r) ==
    LET sub == DefBefore(body, at, r)
        v == body[sub].u[1]
        product == DefBefore(body, sub, body[sub].u[2])
        s == body[product].k
        quotient == DefBefore(body, product, body[product].u[1])
        sum == DefBefore(body, quotient, body[quotient].u[1])
        biasReg == IF body[sum].u[1] = v THEN body[sum].u[2] ELSE body[sum].u[1]
        bias == DefBefore(body, sum, biasReg)
        sign == DefBefore(body, bias, body[bias].u[1])
        single(k) == SingleUse(n, body[k].d[1])
    IN  IF /\ SingleUse(n, r) /\ MadeBy(body, at, r, "subw")
           /\ SingleUse(n, body[sub].u[2]) /\ MadeBy(body, sub, body[sub].u[2], "slliw")
           /\ s \in 1..(W - 2)
           /\ SingleUse(n, body[product].u[1]) /\ MadeBy(body, product, body[product].u[1], "sraiw")
           /\ body[quotient].k = s
           /\ SingleUse(n, body[quotient].u[1]) /\ MadeBy(body, quotient, body[quotient].u[1], "addw")
           /\ v \in Uses(body[sum])
           /\ MadeBy(body, sum, biasReg, "srliw") /\ body[bias].k = W - s
           /\ MadeBy(body, bias, body[bias].u[1], "sraiw")
           /\ single(bias) /\ single(sign)
           /\ body[sign].u[1] = v /\ body[sign].k = W - 1
           /\ FitsImm(2^s - 1)
        THEN {<<v, s, sub, {product, quotient, sum, bias, sign}>>}
        ELSE {}

CombineRemZeroAt(n, g, b, at) ==
    LET body == g.body[b]
        branch == body[at]
        r == IF branch.u[1] = 0 THEN branch.u[2] ELSE branch.u[1]
        match == RemPow2(n, body, at, r)
        m == CHOOSE x \in match : TRUE
    IN  IF branch.op \notin {"beq", "bne"} \/ 0 \notin Uses(branch) \/ match = {} THEN Stays(g, at)
        ELSE [code |-> EraseAll(Put(g, b, m[3], Op("andi", <<r>>, <<m[1]>>, 2^m[2] - 1, <<>>)), b, m[4]),
              next |-> at + 1 - Cardinality(m[4])]
CombineRemZeroBranches(g) ==
    LET n == Counts(g) IN Walk(g, LAMBDA h, b, i : CombineRemZeroAt(n, h, b, i))

-----------------------------------------------------------------------------
(* combine_bit_idioms                                                      *)

(* Only the low half of a stored sum of a product is needed.               *)
WidenStored(n, g, b, at) ==
    LET body == g.body[b]
        v == body[at].u[2]
        sum == DefBefore(body, at, v)
        wide == {k \in 1..2 : /\ SingleUse(n, body[sum].u[k])
                              /\ MadeBy(body, sum, body[sum].u[k], "mulw")}
    IN  IF SingleUse(n, v) /\ MadeBy(body, at, v, "addw") /\ wide # {}
        THEN [g EXCEPT !.body[b][sum].op = "add",
                       !.body[b][DefBefore(body, sum, body[sum].u[Min(wide)])].op = "mul"]
        ELSE g

(* What an operation with a trivial operand is a move of.                  *)
TrivialSource(i) ==
    CASE i.op \in {"xor", "subw"} /\ i.u[1] = i.u[2] -> {0}
      [] i.op = "xor" /\ i.u[1] # i.u[2] /\ 0 \in Uses(i) -> Uses(i) \ {0}
      [] i.op = "and" /\ 0 \in Uses(i) -> {0}
      [] i.op \in {"xori", "addiw", "slliw", "srai", "sraiw", "srliw"} /\ i.k = 0 -> Uses(i)
      [] i.op = "andi" /\ i.k = 0 -> {0}
      [] i.op = "andi" /\ i.k = -1 -> Uses(i)
      [] OTHER -> {}

CombineBitIdiomAt(n, g, b, at) ==
    LET body == g.body[b]
        i == body[at]
        p == DefBefore(body, at, i.u[1])
        both == LongAnd(body[p].k, i.k)
    IN  CASE i.op = "smem" -> Stays(WidenStored(n, g, b, at), at)
          [] IsMove(i) /\ i.d = i.u -> [code |-> Erase(g, b, at), next |-> at]
          [] TrivialSource(i) # {} -> Stays(Put(g, b, at, Move(i.d[1], CHOOSE r \in TrivialSource(i) : TRUE)), at)
          [] /\ i.op = "andi" /\ i.k \notin {0, -1}
             /\ SingleUse(n, i.u[1]) /\ MadeBy(body, at, i.u[1], "andi") /\ FitsImm(both) ->
                [code |-> Erase(Put(g, b, at, Op("andi", i.d, body[p].u, both, <<>>)), b, p), next |-> at]
          [] OTHER -> Stays(g, at)
CombineBitIdioms(g) ==
    LET n == Counts(g) IN Walk(g, LAMBDA h, b, i : CombineBitIdiomAt(n, h, b, i))

-----------------------------------------------------------------------------
(* remove_dead_defs: up to eight times, the pure instructions whose result *)
(* nobody reads.                                                           *)

RemoveDeadOnce(g, pure) ==
    LET n == Counts(g)
        dead(i) == i.op \in pure /\ Virtual(i.d[1]) /\ n.uses[i.d[1]] = 0
    IN  [g EXCEPT !.body = [b \in DOMAIN @ |-> SelectSeq(@[b], LAMBDA i : ~dead(i))]]

Repeated(limit, g, Once(_)) ==
    LET RECURSIVE From(_, _)
        From(h, left) == LET next == After(h, Once) IN
                         IF left = 0 \/ next = h THEN h ELSE From(next, left - 1)
    IN  From(g, limit)
CombineDeadDefs(g) == Repeated(8, g, LAMBDA h : RemoveDeadOnce(h, PureOps \ {"lslot"}))
=============================================================================
