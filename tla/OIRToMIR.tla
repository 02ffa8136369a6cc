----------------------------- MODULE OIRToMIR -----------------------------
(***************************************************************************)
(* The lowering of a function of OIR to a machine function, by             *)
(* MIRVRegLowerer (pass/oir/OIRToMIRVRegLowerer.cpp): every value gets a   *)
(* virtual register, and the phis become moves on the edges.  A move can   *)
(* stand at the end of the block the edge leaves, at the head of the one   *)
(* it enters, or in a block of its own.                                    *)
(*                                                                         *)
(* Integers and one word of memory per alloca.                             *)
(***************************************************************************)
EXTENDS StrengthReduction

(* The register of a value is its id; temporaries come after all of them.  *)
FirstTemp == 100
TempAt(b, k, n) == FirstTemp * (FirstTemp * b + k) + n

-----------------------------------------------------------------------------
(* Edges.                                                                  *)

HasPhi(f, b) == Phis(f, b) # <<>>

(* needs_dedicated_phi_edge *)
NeedsEdgeBlock(f, p, t) ==
    /\ HasPhi(f, t)
    /\ Cardinality(SuccessorSet(f, p)) > 1
    /\ Cardinality(Predecessors(f, t)) > 1 \/ p = t

EdgeBlock(p, t) == FirstTemp * p + t
BranchTarget(f, p, t) == IF NeedsEdgeBlock(f, p, t) THEN EdgeBlock(p, t) ELSE t

(* create_phi_edge_blocks: by target, and by predecessor under it.         *)
EdgeBlocks(f) ==
    LET needed(t) == SelectSeq(f.order, LAMBDA p : t \in SuccessorSet(f, p) /\ NeedsEdgeBlock(f, p, t))
    IN  FlattenSeq([n \in DOMAIN f.order |->
            [k \in DOMAIN needed(f.order[n]) |-> <<needed(f.order[n])[k], f.order[n]>>]])

-----------------------------------------------------------------------------
(* Operands.  A constant other than 0 is loaded into a new register where  *)
(* it is used; 0 and an undefined value are the zero register.             *)

IsZero(v) == v = Const(0) \/ v = Undef
ValueReg(v, temp) == IF IsZero(v) THEN 0 ELSE IF IsConst(v) THEN temp ELSE v[2]
Materialize(v, temp) == IF IsConst(v) /\ ~IsZero(v) THEN <<LoadImm(temp, v[2])>> ELSE <<>>

(* emit_phi_copies_for_edge: the copies are parallel; one whose target no  *)
(* other still reads goes first, and a cycle is broken with a new register.*)
PhiCopies(f, p, t) ==
    LET phis == Phis(f, t)
        from(n) == phis[n].args[CHOOSE k \in DOMAIN phis[n].to : phis[n].to[k] = p]
        temp(n) == TempAt(EdgeBlock(p, t), 0, n)
    IN  [loads |-> FlattenSeq([n \in DOMAIN phis |-> Materialize(from(n), temp(n))]),
         copies |-> SelectSeq([n \in DOMAIN phis |-> [dst |-> phis[n].id, src |-> ValueReg(from(n), temp(n))]],
                              LAMBDA c : c.dst # c.src)]

\* Mutant: the copies are made in the order of the phis.
Sequential_InOrder(copies, temp) == [n \in DOMAIN copies |-> Move(copies[n].dst, copies[n].src)]

RECURSIVE Sequential(_, _)
Sequential(copies, temp) ==
    LET free == {n \in DOMAIN copies : \A m \in DOMAIN copies : copies[m].src # copies[n].dst}
        first == Min(free)
    IN  CASE copies = <<>> -> <<>>
          [] free # {} -> <<Move(copies[first].dst, copies[first].src)>>
                          \o Sequential(RemoveAt(copies, first), temp)
          [] OTHER -> <<Move(temp, copies[1].src)>>
                      \o Sequential([copies EXCEPT ![1].src = temp], temp + 1)

EdgeCopies(f, p, t) ==
    PhiCopies(f, p, t).loads
    \o Sequential(PhiCopies(f, p, t).copies, TempAt(EdgeBlock(p, t), 1, 0))

(* emit_block_entry_phi_copies, and what lower_branch makes of a phi at    *)
(* the target of a jump.                                                   *)
EntryCopies(f, b) ==
    FlattenSeq(SetToSeq({EdgeCopies(f, p, b) : p \in
        {q \in Predecessors(f, b) : /\ HasPhi(f, b)
                                    /\ Predecessors(f, b) = {q}
                                    /\ q # b
                                    /\ Cardinality(SuccessorSet(f, q)) > 1}}))
JumpCopies(f, b, t) ==
    IF ~NeedsEdgeBlock(f, b, t) /\ Cardinality(SuccessorSet(f, b)) = 1 /\ HasPhi(f, t)
    THEN EdgeCopies(f, b, t) ELSE <<>>

-----------------------------------------------------------------------------
(* Instructions.                                                           *)

(* value_is_nonnegative, without the ranges of OIRValueRange.              *)
NonNegative(f, v) ==
    \/ IsConst(v) /\ v[2] >= 0
    \/ \E i \in InstrsOf(f) : /\ IsVal(v) /\ i.id = v[2]
                             /\ \/ i.op \in CmpOps \cup {"zext"}
                                \/ i.op = "and" /\ \E n \in 1..2 : IsConst(i.args[n]) /\ i.args[n][2] >= 0

(* lower_int_binary: r and l are the registers of the operands and what    *)
(* loads them.                                                             *)
WordOp(op) ==
    CASE op = "add" -> "addw" [] op = "sub" -> "subw" [] op = "mul" -> "mulw"
      [] op = "sdiv" -> "divw" [] op = "srem" -> "remw" [] OTHER -> op

(* The forms with a constant operand, <<>> if there is none for it.        *)
ConstForm(f, i, r, l, t) ==
    LET c == i.args[2][2]
        k == i.args[1][2]
        second(P(_)) == IsConst(i.args[2]) /\ P(c)
        first(P(_)) == IsConst(i.args[1]) /\ P(k)
        byImm(op) == IF second(FitsImm) THEN l[1] \o <<Word(op, i.id, r[1], c)>>
                     ELSE IF first(FitsImm) THEN l[2] \o <<Word(op, i.id, r[2], k)>>
                     ELSE <<>>
        after(n, seq) == IF seq = <<>> THEN <<>> ELSE l[n] \o seq
        orElse(s1, s2) == IF s1 # <<>> THEN s1 ELSE s2
    IN  CASE i.op = "add" -> byImm("addiw")
          [] i.op = "and" -> byImm("andi")
          [] i.op = "sub" ->
                (CASE second(LAMBDA n : FitsImm(-n)) -> l[1] \o <<Word("addiw", i.id, r[1], -c)>>
                   [] i.args[1] = Const(0) -> l[2] \o <<Words("subw", i.id, 0, r[2])>>
                   [] OTHER -> <<>>)
          [] i.op = "mul" ->
                orElse(IF IsConst(i.args[2]) THEN after(1, ConstMul(i.id, r[1], c, t)) ELSE <<>>,
                       IF IsConst(i.args[1]) THEN after(2, ConstMul(i.id, r[2], k, t)) ELSE <<>>)
          [] i.op = "sdiv" /\ IsConst(i.args[2]) ->
                after(1, orElse(IF NonNegative(f, i.args[1]) THEN NonNegativeConstDiv(i.id, r[1], c, t) ELSE <<>>,
                                ConstDiv(i.id, r[1], c, t)))
          [] i.op = "srem" /\ IsConst(i.args[2]) ->
                after(1, orElse(IF NonNegative(f, i.args[1]) THEN NonNegativeConstRem(i.id, r[1], c, t) ELSE <<>>,
                                ConstRem(i.id, r[1], c, t)))
          [] OTHER -> <<>>

LowerBinary(f, i, r, l, t) ==
    CASE ConstForm(f, i, r, l, t) # <<>> -> ConstForm(f, i, r, l, t)
      [] i.op = "or" ->
            l[1] \o l[2] \o
            <<Words("xor", t, r[1], r[2]), Words("and", i.id, r[1], r[2]), Words("xor", i.id, i.id, t)>>
      [] OTHER -> l[1] \o l[2] \o <<Words(WordOp(i.op), i.id, r[1], r[2])>>

LowerCompare(i, a, b, temp) ==
    CASE i.op = "eq" -> <<Words("xor", temp, a, b), Word("seqz", i.id, temp, 0)>>
      [] i.op = "ne" -> <<Words("xor", temp, a, b), Word("snez", i.id, temp, 0)>>
      [] i.op = "lt" -> <<Words("slt", i.id, a, b)>>
      [] i.op = "le" -> <<Words("slt", temp, b, a), Word("xori", i.id, temp, 1)>>

(* The arguments are staged before the first one is put in its place.      *)
LowerCall(i, r, l, t) ==
    FlattenSeq([n \in DOMAIN r |-> l[n] \o <<Move(t + n, r[n])>>])
    \o [n \in DOMAIN r |-> Move(ArgRegs[n], t + n)]
    \o <<CallOf(Len(r)), Move(i.id, ReturnReg)>>

LowerBranch(f, b, i, cond) ==
    IF IsConditional(i)
    THEN <<Op("bnez", <<>>, <<cond>>, 0, <<BranchTarget(f, b, i.to[1])>>),
           Jump(BranchTarget(f, b, i.to[2]))>>
    ELSE JumpCopies(f, b, i.to[1]) \o <<Jump(BranchTarget(f, b, i.to[1]))>>

LowerInstr(f, b, k) ==
    LET i == f.body[b][k]
        r == [n \in DOMAIN i.args |-> ValueReg(i.args[n], TempAt(b, k, n))]
        l == [n \in DOMAIN i.args |-> Materialize(i.args[n], TempAt(b, k, n))]
        t == TempAt(b, k, 10)
    IN  CASE IsPhi(i) -> <<>>
          [] i.op \in BinaryOps -> LowerBinary(f, i, r, l, t)
          [] i.op \in CmpOps -> l[1] \o l[2] \o LowerCompare(i, r[1], r[2], t)
          [] i.op = "zext" -> l[1] \o <<Move(i.id, r[1])>>
          [] i.op = "alloca" -> <<LoadStackAddr(i.id, i.id)>>
          [] i.op = "load" -> <<LoadMem(i.id, r[1])>>
          [] i.op = "store" -> l[1] \o <<StoreMem(r[2], r[1])>>
          [] i.op = "call" -> LowerCall(i, r, l, t)
          [] i.op = "ret" -> l[1] \o <<Move(ReturnReg, r[1]), Jump(Epilogue)>>
          [] i.op = "br" -> (IF IsConditional(i) THEN l[1] ELSE <<>>)
                            \o LowerBranch(f, b, i, IF IsConditional(i) THEN r[1] ELSE 0)

(* emit_parameter_copies *)
ParameterCopies(params) == [n \in 1..params |-> Move(n, ArgRegs[n])]

LowerBlock(f, b, params) ==
    (IF b = Entry(f) THEN ParameterCopies(params) ELSE <<>>)
    \o EntryCopies(f, b)
    \o FlattenSeq([k \in DOMAIN f.body[b] |-> LowerInstr(f, b, k)])

(* lower_function; the values 1..params are the arguments.                 *)
LowerFunction(f, params) ==
    LET edges == EdgeBlocks(f)
        names == [n \in DOMAIN edges |-> EdgeBlock(edges[n][1], edges[n][2])]
        edge(b) == CHOOSE e \in ToSet(edges) : EdgeBlock(e[1], e[2]) = b
    IN  [order |-> f.order \o names,
         bools |-> {i.id : i \in {j \in InstrsOf(f) : j.op \in CmpOps}},
         body |-> [b \in Blocks(f) \cup ToSet(names) |->
            IF b \in Blocks(f) THEN LowerBlock(f, b, params)
            ELSE EdgeCopies(f, edge(b)[1], edge(b)[2]) \o <<Jump(edge(b)[2])>>]]
=============================================================================
