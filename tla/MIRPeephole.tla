---------------------------- MODULE MIRPeephole ----------------------------
(***************************************************************************)
(* The peephole passes (MIRPeepholePipelinePass and the passes it calls),  *)
(* which run before register allocation on virtual registers and again     *)
(* after it on physical ones: copies are propagated, compares fused with   *)
(* branches, common expressions shared, loop invariants hoisted, blocks    *)
(* laid out so that jumps fall through, dead definitions removed.          *)
(***************************************************************************)
EXTENDS MIRCombine, StrengthReduction

-----------------------------------------------------------------------------
(* coalesce_copies (MIRCopyCoalescingPass).                                *)

(* The blocks control runs through after b without a choice and without    *)
(* anyone joining.                                                         *)
OnlyNext(g, b) == {c \in Successors(g, b) : Cardinality(Successors(g, b)) = 1
                                            /\ Cardinality(MachinePredecessors(g, c)) = 1}
Chain(g, b) ==
    FoldLeft(LAMBDA path, k : path \o SetToSeq(OnlyNext(g, Last(path)) \ ToSet(path)), <<b>>, g.order)

(* The places that come after place i of b along the path.                 *)
PlacesAfter(g, path, b, i) ==
    FlattenSeq([n \in DOMAIN path |->
        SelectSeq([k \in 1..Len(g.body[path[n]]) |-> <<path[n], k>>], LAMBDA p : p[1] # b \/ p[2] > i)])

(* The instructions that read d before d, s or the registers of a call are *)
(* written.                                                                *)
ReadersOf(after, d, s) ==
    LET stops == {n \in DOMAIN after : after[n].op = "call" \/ {d, s} \cap Defs(after[n]) # {}}
    IN  {n \in DOMAIN after : d \in Uses(after[n]) /\ \A m \in stops : n < m}

(* The readers up to the one with which all the uses are counted, none if  *)
(* they stay fewer.                                                        *)
ReadersUpTo(after, readers, d, total) ==
    LET read(n) == MapThenSumSet(LAMBDA m : Cardinality({k \in DOMAIN after[m].u : after[m].u[k] = d}),
                                 {m \in readers : m <= n})
    IN  {n \in readers : total \in {read(m) : m \in {k \in readers : n <= k}}}

(* The places to read s at instead of its copy d.                          *)
ReplaceableUses(g, b, i, d, s, total) ==
    LET places == PlacesAfter(g, Chain(g, b), b, i)
        after == [n \in DOMAIN places |-> g.body[places[n][1]][places[n][2]]]
    IN  {places[n] : n \in ReadersUpTo(after, ReadersOf(after, d, s), d, total)}

ReadInstead(g, places, d, s) ==
    [g EXCEPT !.body = [b \in DOMAIN @ |-> [k \in DOMAIN @[b] |->
        IF <<b, k>> \in places
        THEN [@[b][k] EXCEPT !.u = [n \in DOMAIN @ |-> IF @[n] = d THEN s ELSE @[n]]]
        ELSE @[b][k]]]]

CoalesceAt(n, g, b, at) ==
    LET i == g.body[b][at]
        d == i.d[1]
        s == i.u[1]
        places == ReplaceableUses(g, b, at, d, s, n.uses[d])
        gone(h) == [code |-> Erase(h, b, at), next |-> at]
    IN  CASE ~IsMove(i) -> Stays(g, at)
          [] IsMove(i) /\ d = s -> gone(g)
          [] IsMove(i) /\ d # s /\ (~Virtual(d) \/ s < 0 \/ n.defs[d] # 1) -> Stays(g, at)
          [] OTHER -> CASE n.uses[d] = 0 -> gone(g)
                        [] n.uses[d] > 0 /\ places # {} -> gone(ReadInstead(g, places, d, s))
                        [] OTHER -> Stays(g, at)

(* elide_move_via_def_retarget: the instruction that makes s makes d.      *)
SideEffectOps == ConditionalOps \cup {"j", "call", "lmem", "smem", "lslot", "sslot"}
RetargetAt(g, b, at) ==
    LET body == g.body[b]
        i == body[at]
        d == i.d[1]
        s == i.u[1]
        p == DefBefore(body, at, s)
    IN  IF /\ IsMove(i) /\ Virtual(d) /\ Virtual(s) /\ d # s
           /\ DefsOf(g, d) = 1 /\ DefsOf(g, s) = 1 /\ UsesOf(g, s) = 1
           /\ p # 0 /\ body[p].op \notin SideEffectOps
           /\ \A k \in p..(at - 1) : d \notin Uses(body[k]) /\ (k > p => d \notin Defs(body[k]))
        THEN [code |-> Erase(Put(g, b, p, [body[p] EXCEPT !.d[1] = d]), b, at), next |-> p]
        ELSE Stays(g, at)

HasLayoutBackEdge(g) ==
    \E m, n \in DOMAIN g.order : m <= n /\ g.order[m] \in Successors(g, g.order[n])

CoalesceOnce(g, retarget) ==
    LET n == Counts(g)
        h == After(g, LAMBDA y : Walk(y, LAMBDA x, b, i : CoalesceAt(n, x, b, i)))
    IN  IF retarget THEN Walk(h, RetargetAt) ELSE h
CoalesceCopies(g, postRA) ==
    LET retarget == ~postRA /\ ~HasLayoutBackEdge(g)
    IN  Repeated(8, g, LAMBDA h : CoalesceOnce(h, retarget))

-----------------------------------------------------------------------------
(* fuse_compare_branches (MIRBranchFusionPass): bnez on a comparison that  *)
(* stands right before it.                                                 *)

FuseAt(n, g, b, at) ==
    LET body == g.body[b]
        i == body[at]
        prev == body[at - 1]
        cmp == body[at - 2]
        follows(op) == at >= 3 /\ Virtual(prev.u[1]) /\ n.uses[prev.u[1]] = 1
                       /\ cmp.op = op /\ cmp.d = prev.u
        fused(op, u, dead) == [code |-> EraseAll(Put(g, b, at, Op(op, <<>>, u, 0, i.to)), b, dead),
                               next |-> at + 1 - Cardinality(dead)]
    IN  CASE i.op # "bnez" \/ at = 1 -> Stays(g, at)
          [] ~Virtual(i.u[1]) \/ n.uses[i.u[1]] # 1 \/ prev.d # i.u -> Stays(g, at)
          [] prev.op = "slt" -> fused("blt", prev.u, {at - 1})
          [] prev.op = "seqz" /\ follows("xor") -> fused("beq", cmp.u, {at - 1, at - 2})
          [] prev.op = "snez" /\ follows("xor") -> fused("bne", cmp.u, {at - 1, at - 2})
          [] prev.op = "xori" /\ prev.k = 1 /\ follows("slt") -> fused("bge", cmp.u, {at - 1, at - 2})
          [] OTHER -> Stays(g, at)
FuseCompareBranches(g) == LET n == Counts(g) IN Walk(g, LAMBDA h, b, i : FuseAt(n, h, b, i))

-----------------------------------------------------------------------------
(* local_cse (MIRLocalCSEPass).  An expression is its operation and what   *)
(* it reads, in either order if that does not matter.                      *)

Commutative == {"addw", "add", "mulw", "mul", "and", "xor"}
ExpressionOf(i, tagged(_)) ==
    [op |-> i.op, k |-> i.k,
     u |-> IF i.op \in Commutative THEN [r \in Uses(i) |-> tagged(r)] ELSE [n \in DOMAIN i.u |-> <<i.u[n], tagged(i.u[n])>>]]

(* In a block: a register is read at the version it has then, and a result *)
(* is there while its version is the one it was made with.                 *)
LocalCSEStep(t, i) ==
    LET version(r) == IF r \in DOMAIN t.version THEN t.version[r] ELSE 0
        seen == IF i.op = "call" \/ MayStore(i) THEN {} ELSE t.seen
        keyed == i.op \in PureOps \ {"mv"} /\ Virtual(i.d[1])
                 /\ \A r \in Uses(i) : r >= 0
        key == ExpressionOf(i, version)
        same == {e \in seen : keyed /\ e.key = key}
        there == {e \in same : version(e.reg) = e.version}
        j == IF there # {} THEN Move(i.d[1], (CHOOSE e \in there : TRUE).reg) ELSE i
        d == Defs(i)
        bumped == [r \in DOMAIN t.version \cup d |-> version(r) + (IF r \in d THEN 1 ELSE 0)]
    IN  [body |-> Append(t.body, j), version |-> bumped,
         seen |-> IF \E r \in d : r < 0 THEN {}
                  ELSE IF ~keyed \/ there # {} THEN seen
                  ELSE (seen \ same) \cup {[key |-> key, reg |-> i.d[1], version |-> bumped[i.d[1]]]}]
LocalCSE(g) ==
    [g EXCEPT !.body = [b \in DOMAIN @ |->
        FoldLeft(LocalCSEStep, [body |-> <<>>, version |-> << >>, seen |-> {}], @[b]).body]]

(* compute_dominators: from everything, until nothing changes.             *)
MachineDominators(g) ==
    LET all == ToSet(g.order)
        entry == g.order[1]
        into(D, b) == {b} \cup (IF MachinePredecessors(g, b) = {} THEN {}
                                ELSE {a \in all : \A p \in MachinePredecessors(g, b) : a \in D[p]})
        next(D) == [b \in all |-> IF b = entry THEN {entry} ELSE into(D, b)]
    IN  Repeated(Len(g.order), [b \in all |-> IF b = entry THEN {entry} ELSE all], next)

(* Over the dominator tree: only registers with one definition, and only   *)
(* in functions that call nobody.  The expressions of a block are those it *)
(* computes first among the blocks over it.                                *)
AllowsGlobalCSE(policy) == Allows(policy, 66, 2, 0, 0)
GlobalOps == PureOps \ {"mv", "lslot", "sub", "divu", "divw", "remw", "srli", "sltu"}
GlobalCSE(g, policy) ==
    LET n == Counts(g)
        dom == MachineDominators(g)
        once(r) == r = 0 \/ (Virtual(r) /\ n.defs[r] = 1)
        keyed(i) == i.op \in GlobalOps /\ Virtual(i.d[1]) /\ once(i.d[1]) /\ \A r \in Uses(i) : once(r)
        key(i) == ExpressionOf(i, LAMBDA r : 0)
        earlier(b, k) == {p \in UNION {{<<c, m>> : m \in DOMAIN g.body[c]} : c \in dom[b]} :
                             /\ p[1] = b => p[2] < k
                             /\ keyed(g.body[p[1]][p[2]])
                             /\ key(g.body[p[1]][p[2]]) = key(g.body[b][k])}
        before(p, q) == IF p[1] = q[1] THEN p[2] <= q[2] ELSE p[1] \in dom[q[1]]
        first(b, k) == CHOOSE p \in earlier(b, k) : \A q \in earlier(b, k) : before(p, q)
    IN  IF ~AllowsGlobalCSE(policy) \/ \E i \in MachineInstrs(g) : i.op = "call" THEN g
        ELSE [g EXCEPT !.body = [b \in DOMAIN @ |-> [k \in DOMAIN @[b] |->
                LET i == g.body[b][k] IN
                IF b \in ToSet(g.order) /\ keyed(i) /\ earlier(b, k) # {}
                THEN Move(i.d[1], g.body[first(b, k)[1]][first(b, k)[2]].d[1]) ELSE i]]]
CSE(g, policy) == GlobalCSE(After(g, LocalCSE), policy)

-----------------------------------------------------------------------------
(* hoist_loop_invariants (MIRLoopInvariantCodeMotionPass).                 *)

NaturalLoop(g, header, latch) ==
    {header} \cup FoldLeft(LAMBDA R, k : R \cup UNION {MachinePredecessors(g, b) : b \in R \ {header}},
                           {latch}, g.order)
(* One loop for a header, the smallest first.                              *)
Loops(g, dom) ==
    LET latches(h) == {b \in MachinePredecessors(g, h) : h \in dom[b]}
        loop(h) == [header |-> h, blocks |-> UNION {NaturalLoop(g, h, b) : b \in latches(h)}]
        size(l) == Cardinality(l.blocks)
    IN  SetToSortSeq({loop(h) : h \in {b \in ToSet(g.order) : latches(b) # {}}},
                     LAMBDA l, m : \/ size(l) < size(m)
                                   \/ size(l) = size(m) /\ LayoutIndex(g, l.header) < LayoutIndex(g, m.header))
(* find_preheader: at most one block.                                      *)
Preheader(g, loop) ==
    LET outside == MachinePredecessors(g, loop.header) \ loop.blocks
    IN  {b \in outside : outside = {b} /\ Successors(g, b) = {loop.header}}
LoopInstrs(g, loop) == UNION {ToSet(g.body[b]) : b \in loop.blocks}
CallsIn(g, loop) == \E i \in LoopInstrs(g, loop) : i.op = "call"

(* operand_available_in_preheader                                          *)
AvailableAt(g, dom, loop, pre, r) ==
    \/ r = 0
    \/ /\ Virtual(r)
       /\ DefsOf(g, r) = 1
       /\ \E b \in dom[pre] \ loop.blocks : \E k \in DOMAIN g.body[b] : r \in Defs(g.body[b][k])

BeforeTerminators(body, more) ==
    LET n == Max({0} \cup {k \in DOMAIN body : body[k].op \notin ConditionalOps \cup {"j"}})
    IN  SubSeq(body, 1, n) \o more \o SubSeq(body, n + 1, Len(body))

(* A loop is taken to run four times; a division costs 24, its reduced form *)
(* 9, and an instruction in the loop four times one before it.             *)
AllowsReciprocal(policy, divisions) ==
    Allows(policy, 62, (24 - 9) * 4 * divisions, divisions + 2, divisions + 2)
AllowsHoisting(policy, moved) == Allows(policy, 68, 4 * moved - moved, moved \div 4, moved \div 4)

(* reduce_loop_divisions: all the divisions of the loop are by one value   *)
(* that does not change in it.  Registers of this pass come after all.     *)
Fresh(g) == Max(Registers(g) \cup {LongTemp}) + 1
ReduceDivisions(g, loop, dom, policy) ==
    LET divisions == MapThenSumSet(LAMBDA b : Len(SelectSeq(g.body[b], LAMBDA i : i.op = "divw")), loop.blocks)
        divisors == {i.u[2] : i \in {j \in LoopInstrs(g, loop) : j.op = "divw"}}
        t == Fresh(g)
        at(b, k) == t + 20 * (1 + 100 * LayoutIndex(g, b) + k)
        reduced(b) == FlattenSeq([k \in DOMAIN g.body[b] |->
            LET i == g.body[b][k] IN
            IF i.op = "divw" THEN ReciprocalDiv(i.d[1], i.u[1], t, at(b, k)) ELSE <<i>>])
        possible(pre) == \A v \in divisors : Virtual(v) /\ AvailableAt(g, dom, loop, pre, v)
    IN  IF CallsIn(g, loop) \/ Cardinality(divisors) # 1 \/ ~AllowsReciprocal(policy, divisions) THEN g
        ELSE FoldSet(LAMBDA pre, h :
                [h EXCEPT !.body = [b \in DOMAIN @ |->
                    IF b \in loop.blocks THEN reduced(b)
                    ELSE IF b = pre THEN BeforeTerminators(@[b], ReciprocalSetup(CHOOSE v \in divisors : TRUE, t))
                    ELSE @[b]]],
                g, {pre \in Preheader(g, loop) : possible(pre)})

(* hoist_from_loop                                                         *)
HoistableOps == PureOps \ {"mv", "lslot", "divw", "remw", "divu"}
HoistFrom(g, loop, dom, policy) ==
    LET ops == IF ~CallsIn(g, loop) /\ Cardinality(loop.blocks) <= 8 THEN HoistableOps ELSE {"slliw"}
        readers(r) == {b \in ToSet(g.order) : \E k \in DOMAIN g.body[b] : r \in Uses(g.body[b][k])}
        hoisted(i, pre) == /\ i.op \in ops
                           /\ Virtual(i.d[1]) /\ DefsOf(g, i.d[1]) = 1
                           /\ readers(i.d[1]) # {} /\ readers(i.d[1]) \subseteq loop.blocks
                           /\ \A r \in Uses(i) : AvailableAt(g, dom, loop, pre, r)
        moved(pre) == FlattenSeq([n \in DOMAIN g.order |->
            IF g.order[n] \in loop.blocks
            THEN SelectSeq(g.body[g.order[n]], LAMBDA i : hoisted(i, pre)) ELSE <<>>])
    IN  FoldSet(LAMBDA pre, h :
            [h EXCEPT !.body = [b \in DOMAIN @ |->
                IF b \in loop.blocks THEN SelectSeq(@[b], LAMBDA i : ~hoisted(i, pre))
                ELSE IF b = pre THEN BeforeTerminators(@[b], moved(pre)) ELSE @[b]]],
            g, {pre \in Preheader(g, loop) : AllowsHoisting(policy, Len(moved(pre)))})

(* The graph and its dominators are those of the start.                    *)
HoistLoopInvariants(g, policy) ==
    LET dom == MachineDominators(g)
        loops == Loops(g, dom)
        divided == FoldRight(LAMBDA l, h : After(h, LAMBDA x : ReduceDivisions(x, l, dom, policy)), loops, g)
    IN  FoldLeft(LAMBDA h, l : After(h, LAMBDA x : HoistFrom(x, l, dom, policy)), divided, loops)
=============================================================================
