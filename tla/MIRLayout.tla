------------------------------ MODULE MIRLayout ------------------------------
(***************************************************************************)
(* The other half of the peephole pipeline: the order of the blocks and    *)
(* the jumps between them (MIRJumpCleanupPass), what is left of single     *)
(* instructions and neighbours (MIRBlockSimplifyPass), and definitions     *)
(* nobody reads (MIRPeepholeDeadDefEliminationPass), which after register  *)
(* allocation takes a liveness analysis of the physical registers.         *)
(***************************************************************************)
EXTENDS MIRPeephole

-----------------------------------------------------------------------------
(* cleanup_jumps                                                           *)

(* jump_only_target: at most one block.                                    *)
JumpsOn(g, b) ==
    IF Len(g.body[b]) = 1 /\ g.body[b][1].op = "j" THEN ToSet(g.body[b][1].to) \ {b, Epilogue} ELSE {}
Resolved(g, target) ==
    FoldLeft(LAMBDA b, k : IF b # Epilogue /\ JumpsOn(g, b) # {} THEN CHOOSE c \in JumpsOn(g, b) : TRUE ELSE b,
             target, g.order)
RedirectJumps(g) ==
    [g EXCEPT !.body = [b \in DOMAIN @ |-> [k \in DOMAIN @[b] |->
        [@[b][k] EXCEPT !.to = [n \in DOMAIN @ |-> Resolved(g, @[n])]]]]]

(* copy_edge_target: where a block of copies leads, at most one place.     *)
CopiesTo(g, b) ==
    LET body == g.body[b] IN
    IF /\ body # <<>> /\ Last(body).op = "j"
       /\ \A k \in 1..(Len(body) - 1) : body[k].op \in {"li", "laddr", "mv"}
    THEN ToSet(Last(body).to) \ {b} ELSE {}
OnlyPredecessor(g, b) == {p \in MachinePredecessors(g, b) : MachinePredecessors(g, b) = {p}}
NextInLayout(g, b) ==
    LET n == LayoutIndex(g, b) IN IF n = Len(g.order) THEN {} ELSE {g.order[n + 1]}
StopsFallthrough(g, b) == g.body[b] # <<>> /\ Last(g.body[b]).op = "j"

(* Its last instruction, or the conditional branch before it, goes to e.   *)
RefersTo(g, p, e) ==
    LET body == g.body[p]
        n == Len(body)
    IN  \/ n > 0 /\ e \in ToSet(body[n].to)
        \/ n > 1 /\ IsConditionalBranch(body[n - 1]) /\ e \in ToSet(body[n - 1].to)

Without(order, b) == SelectSeq(order, LAMBDA c : c # b)
PlacedAt(order, b, k) == SubSeq(Without(order, b), 1, k - 1) \o <<b>> \o SubSeq(Without(order, b), k, Len(order) - 1)
MovedAfter(order, b, c) == PlacedAt(order, b, 1 + SelectInSeq(Without(order, b), LAMBDA x : x = c))
MovedBefore(order, b, c) == PlacedAt(order, b, SelectInSeq(Without(order, b), LAMBDA x : x = c))

(* place_copy_edge_blocks_for_fallthrough: <<block, where to>>, unless the *)
(* predecessor falls into another block already.                           *)
FollowMoves(g) ==
    {<<e, p>> \in ToSet(Tail(g.order)) \X ToSet(g.order) :
        /\ CopiesTo(g, e) # {}
        /\ p \in OnlyPredecessor(g, e) \ {e}
        /\ RefersTo(g, p, e)
        /\ NextInLayout(g, p) \notin {{}, {e}}
        /\ NextInLayout(g, p) \cap Successors(g, p) = {}}

(* place_copy_edge_blocks_before_targets: where nobody falls through, and  *)
(* not in place of another copy block with a later predecessor.            *)
LeadMoves(g) ==
    {<<e, t>> \in ToSet(Tail(g.order)) \X ToSet(Tail(g.order)) :
        /\ t \in CopiesTo(g, e)
        /\ OnlyPredecessor(g, e) # {}
        /\ NextInLayout(g, e) # {t}
        /\ StopsFallthrough(g, g.order[LayoutIndex(g, e) - 1])
        /\ LET before == g.order[LayoutIndex(g, t) - 1]
               place(b) == {LayoutIndex(g, p) : p \in OnlyPredecessor(g, b)}
           IN  /\ StopsFallthrough(g, before)
               /\ t \in CopiesTo(g, before) => \A m \in place(before), n \in place(e) : m < n}

FirstInLayout(g, moves) == CHOOSE m \in moves : \A n \in moves : LayoutIndex(g, m[1]) <= LayoutIndex(g, n[1])
PlaceOnce(g, Moves(_), Placed(_, _, _)) ==
    IF Moves(g) = {} THEN g
    ELSE LET m == FirstInLayout(g, Moves(g)) IN [g EXCEPT !.order = Placed(@, m[1], m[2])]
PlaceCopyBlocks(g) ==
    LET followed == Repeated(Len(g.order), g, LAMBDA h : PlaceOnce(h, FollowMoves, MovedAfter))
    IN  Repeated(Len(g.order), followed, LAMBDA h : PlaceOnce(h, LeadMoves, MovedBefore))

(* remove_unreachable_jump_only_blocks                                     *)
RemoveJumpBlocks(g) ==
    LET dead == {b \in ToSet(Tail(g.order)) : MachinePredecessors(g, b) = {} /\ JumpsOn(g, b) # {}}
    IN  [g EXCEPT !.order = SelectSeq(@, LAMBDA b : b \notin dead)]

CleanupJumps(g, postRA) ==
    LET redirected == After(g, RedirectJumps)
    IN  RemoveJumpBlocks(IF postRA THEN redirected ELSE PlaceCopyBlocks(redirected))

-----------------------------------------------------------------------------
(* remove_dead_defs                                                        *)

PhysicalUses(i) == (Uses(i) \ {0}) \cup (IF i.op = "call" THEN ToSet(ArgRegs) ELSE {})
PhysicalDefs(i) == Defs(i) \cup (IF i.op = "call" THEN CallerSaved ELSE {})

LiveBefore(i, live) == (live \ PhysicalDefs(i)) \cup PhysicalUses(i)

(* compute_physical_liveness: what is live at the end of each block.       *)
PhysicalLiveOut(g) ==
    LET in(D, b) == FoldRight(LiveBefore, g.body[b], D[b])
        returns(b) == g.body[b] # <<>> /\ Last(g.body[b]) = Jump(Epilogue)
        next(D) == [b \in DOMAIN D |-> (IF returns(b) THEN {ReturnReg} ELSE {})
                                       \cup UNION {in(D, c) : c \in Successors(g, b)}]
    IN  Repeated(2 * Len(g.order), [b \in ToSet(g.order) |-> {}], next)

RemoveDeadPhysicalOnce(g) ==
    LET out == PhysicalLiveOut(g)
        dead(i, live) == i.op \in PureOps /\ Defs(i) \cap live = {}
        kept(b) == FoldRight(LAMBDA i, t : IF dead(i, t.live) THEN t
                                           ELSE [live |-> LiveBefore(i, t.live), body |-> <<i>> \o t.body],
                             g.body[b], [live |-> out[b], body |-> <<>>]).body
    IN  [g EXCEPT !.body = [b \in DOMAIN @ |-> IF b \in DOMAIN out THEN kept(b) ELSE @[b]]]

RemoveDeadDefs(g, postRA) ==
    Repeated(8, g, LAMBDA h : IF postRA THEN RemoveDeadPhysicalOnce(h) ELSE RemoveDeadOnce(h, PureOps))

-----------------------------------------------------------------------------
(* simplify_blocks                                                         *)

SimplerOp(i) ==
    CASE i.op = "addw" /\ 0 \in Uses(i) -> Move(i.d[1], IF i.u[1] = 0 THEN i.u[2] ELSE i.u[1])
      [] i.op \in {"addiw", "slliw", "srai", "sraiw", "srliw"} /\ i.k = 0 -> Move(i.d[1], i.u[1])
      [] i.op = "beqz" /\ i.u[1] = 0 -> Jump(i.to[1])
      [] i.op \in {"beq", "bge"} /\ i.u[1] = i.u[2] -> Jump(i.to[1])
      [] OTHER -> i
NeverTaken(i) == \/ i.op = "bnez" /\ i.u[1] = 0
                 \/ i.op \in {"bne", "blt"} /\ i.u[1] = i.u[2]

(* reg_redefined_before_next_use: a call is asked for its operands only.   *)
RedefinedBeforeUse(body, from, r) ==
    \E k \in from..Len(body) :
        /\ r \in Defs(body[k])
        /\ \A n \in from..k : r \notin Uses(body[n])

(* What the neighbours i and j become together, if anything: one of them,  *)
(* or j alone changed.                                                     *)
Neighbours(body, at, i, postRA) ==
    LET j == body[at + 1] IN
    CASE postRA /\ IsMove(i) /\ IsMove(j) /\ i.d = j.u /\ i.u = j.d -> {<<i>>}
      [] /\ postRA /\ i.op = "addiw" /\ IsMove(j) /\ i.d = j.u
         /\ RedefinedBeforeUse(body, at + 2, i.d[1]) -> {<<[i EXCEPT !.d = j.d]>>}
      [] i.op = "sslot" /\ j.op = "lslot" /\ i.k = j.k -> {<<i, Move(j.d[1], i.u[1])>>}
      [] i.op = "lslot" /\ j.op = "sslot" /\ i.k = j.k /\ i.d = j.u -> {<<i>>}
      [] i.op = "sslot" /\ j.op = "sslot" /\ i.k = j.k -> {<<j>>}
      [] i.op = "li" /\ j.op = "li" /\ i.d = j.d -> {<<j>>}
      [] OTHER -> {}

SimplifyAt(g, b, at, postRA) ==
    LET body == g.body[b]
        i == SimplerOp(body[at])
        pair == IF at < Len(body) THEN Neighbours(body, at, i, postRA) ELSE {}
        two == CHOOSE p \in pair : TRUE
    IN  CASE IsMove(body[at]) /\ body[at].d = body[at].u -> [code |-> Erase(g, b, at), next |-> at]
          [] NeverTaken(i) -> [code |-> Erase(g, b, at), next |-> at]
          [] pair # {} -> [code |-> [g EXCEPT !.body[b] = SubSeq(@, 1, at - 1) \o two \o SubSeq(@, at + 2, Len(@))],
                           next |-> IF Len(two) = 2 THEN at + 1 ELSE at]
          [] OTHER -> Stays(Put(g, b, at, i), at)

(* The branch over a jump is turned round, and a jump to the next block    *)
(* goes.                                                                   *)
InvertedOp(op) == CASE op = "bnez" -> "beqz" [] op = "beqz" -> "bnez" [] op = "beq" -> "bne"
                 [] op = "bne" -> "beq" [] op = "blt" -> "bge" [] op = "bge" -> "blt"
InvertBranch(g, b) ==
    LET body == g.body[b]
        n == Len(body)
    IN  IF /\ n >= 2 /\ body[n].op = "j" /\ IsConditionalBranch(body[n - 1])
           /\ ToSet(body[n - 1].to) = NextInLayout(g, b)
        THEN [g EXCEPT !.body[b] = Append(SubSeq(@, 1, n - 2),
                                          [body[n - 1] EXCEPT !.op = InvertedOp(@), !.to = body[n].to])]
        ELSE g
DropJump(g, b) ==
    LET body == g.body[b] IN
    IF body # <<>> /\ Last(body).op = "j" /\ ToSet(Last(body).to) = NextInLayout(g, b)
    THEN [g EXCEPT !.body[b] = Front(@)] ELSE g

SimplifyBlocks(g, postRA) ==
    LET walked == After(g, LAMBDA x : Walk(x, LAMBDA h, b, i : SimplifyAt(h, b, i, postRA)))
    IN  FoldLeft(LAMBDA h, b : DropJump(InvertBranch(h, b), b), walked, g.order)

-----------------------------------------------------------------------------
(* optimize_function: at most six rounds, and the end.                     *)

BeforeAllocation(g, policy) ==
    After(After(After(g, FuseCompareBranches), LAMBDA h : CSE(h, policy)), LAMBDA h : HoistLoopInvariants(h, policy))
PeepholeRound(g, postRA, policy) ==
    LET copied(h) == CoalesceCopies(h, postRA)
        rewritten(h) == IF postRA THEN h ELSE BeforeAllocation(h, policy)
        cleaned(h) == CleanupJumps(h, postRA)
        swept(h) == RemoveDeadDefs(h, postRA)
    IN  After(After(After(After(g, copied), rewritten), cleaned), swept)
PeepholeEnd(g, postRA) ==
    LET cleaned(h) == After(h, LAMBDA x : CleanupJumps(x, postRA))
        simplified == cleaned(After(cleaned(g), LAMBDA h : SimplifyBlocks(h, postRA)))
    IN  After(IF postRA THEN simplified ELSE cleaned(simplified), LAMBDA h : RemoveDeadDefs(h, postRA))
=============================================================================
