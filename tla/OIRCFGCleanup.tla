--------------------------- MODULE OIRCFGCleanup ---------------------------
(***************************************************************************)
(* Cleaning up the control flow graph of a function                        *)
(* (src/pass/oir/OIRCFGCleanupPass.cpp, with simplify_branches of          *)
(* OIRLocalSimplify.cpp and eliminate_dead_code): conditional branches     *)
(* that need no condition are folded, unreachable blocks erased, phis of   *)
(* one entry replaced, empty blocks jumped over, chains merged, values     *)
(* without uses erased, and all again until nothing changes.               *)
(*                                                                         *)
(* Every block carries the lists of its predecessors and successors next   *)
(* to the branches and phis that say the same; each step must keep the     *)
(* three together.  A list holds a block once.                             *)
(***************************************************************************)
EXTENDS OIRAlias

CONSTANTS Programs,      \* the functions the pass may be given
          Inputs(_),     \* what runs of a function are given
          LargeBlocks, LargeInstrs  \* a larger function is only pruned: 1000 and 8000

VARIABLES f,             \* the function, as the pass changes it
          preds, succs,  \* the lists of every block
          original,      \* as it was given
          phase,         \* "branches", "cfg", "dce", "done"
          at,            \* the block simplify_branches is at
          changed        \* this round changed something
vars == <<f, preds, succs, original, phase, at, changed>>

g == [f |-> f, preds |-> preds, succs |-> succs]
Becomes(h) == \E n \in {h} : f' = n.f /\ preds' = n.preds /\ succs' = n.succs
Large == \/ Len(f.order) > LargeBlocks
         \/ FoldLeft(LAMBDA n, b : n + Len(f.body[b]), 0, f.order) > LargeInstrs

-----------------------------------------------------------------------------
(* Edges (OIRCFGUtils.cpp).                                                *)

AddEdge(h, p, s) == [h EXCEPT !.succs[p] = @ \cup {s}, !.preds[s] = @ \cup {p}]
RemoveEdgeNoPhi(h, p, s) == [h EXCEPT !.succs[p] = @ \ {s}, !.preds[s] = @ \ {p}]

WithoutIncoming(i, p) ==
    IF ~IsPhi(i) THEN i
    ELSE LET kept == SelectSeq([k \in DOMAIN i.to |-> k], LAMBDA k : i.to[k] # p)
         IN  [i EXCEPT !.args = [n \in DOMAIN kept |-> i.args[kept[n]]],
                       !.to = [n \in DOMAIN kept |-> i.to[kept[n]]]]
RemovePhiIncoming(h, s, p) ==
    [h EXCEPT !.f.body[s] = [k \in DOMAIN @ |-> WithoutIncoming(@[k], p)]]
\* Mutant: the phis of the block that lost a predecessor keep its entry.
RemoveEdge_KeepsIncoming(h, p, s) == RemoveEdgeNoPhi(h, p, s)
RemoveEdge(h, p, s) == RemovePhiIncoming(RemoveEdgeNoPhi(h, p, s), s, p)

Retarget(targets, old, new) == [k \in DOMAIN targets |-> IF targets[k] = old THEN new ELSE targets[k]]
ReplacePhiIncomingBlock(h, s, old, new) ==
    [h EXCEPT !.f.body[s] = [k \in DOMAIN @ |->
        IF IsPhi(@[k]) THEN [@[k] EXCEPT !.to = Retarget(@, old, new)] ELSE @[k]]]
\* Mutant: the phis of a successor still name the block that was merged away.
MoveSuccessorEdge_OldName(h, old, new, s) == AddEdge(RemoveEdgeNoPhi(h, old, s), new, s)
MoveSuccessorEdge(h, old, new, s) ==
    ReplacePhiIncomingBlock(AddEdge(RemoveEdgeNoPhi(h, old, s), new, s), s, old, new)

Without(F, b) == [c \in DOMAIN F \ {b} |-> F[c]]
EraseBlock(h, b) ==
    [f |-> [order |-> SelectSeq(h.f.order, LAMBDA c : c # b), body |-> Without(h.f.body, b)],
     preds |-> Without(h.preds, b), succs |-> Without(h.succs, b)]

-----------------------------------------------------------------------------
(* simplify_branches, one block at a time.                                 *)

Term(b) == Last(f.body[b])
IncomingFrom(i, p) == {i.args[k] : k \in {n \in DOMAIN i.to : i.to[n] = p}}

\* Mutant: the phis of the merge block are not compared.
ArmFoldsToMerge_AnyValue(b, arm, merge) ==
    /\ Len(f.body[arm]) = 1 /\ preds[arm] = {b} /\ Term(arm).to = <<merge>>
(* An arm that only jumps to where the other arm goes, with the same value *)
(* in every phi there.                                                     *)
ArmFoldsToMerge(b, arm, merge) ==
    /\ Len(f.body[arm]) = 1 /\ preds[arm] = {b} /\ Term(arm).to = <<merge>>
    /\ \A i \in ToSet(Phis(f, merge)) :
          /\ IncomingFrom(i, b) # {} /\ IncomingFrom(i, arm) # {}
          /\ IncomingFrom(i, b) = IncomingFrom(i, arm)

(* Which target a branch can be folded to, if any, as a set.               *)
FoldTarget(b) ==
    LET t == Term(b).to[1]  e == Term(b).to[2]  c == Term(b).args[1] IN
    CASE t = e -> {t}
      [] ArmFoldsToMerge(b, t, e) -> {e}
      [] ArmFoldsToMerge(b, e, t) -> {t}
      [] IsConst(c) -> {IF c[2] # 0 THEN t ELSE e}
      [] OTHER -> {}

FoldBranch(h, b, target) ==
    LET removed == IF Term(b).to[1] = target THEN Term(b).to[2] ELSE Term(b).to[1]
        cut == IF removed # target THEN RemoveEdge(h, b, removed) ELSE h
    IN  [AddEdge(cut, b, target) EXCEPT !.f.body[b][Len(f.body[b])] = Br(target)]

SimplifyBranch ==
    /\ phase = "branches" /\ at <= Len(f.order)
    /\ LET b == f.order[at] IN
       IF IsConditional(Term(b)) /\ FoldTarget(b) # {}
       THEN /\ Becomes(FoldBranch(g, b, CHOOSE t \in FoldTarget(b) : TRUE))
            /\ changed' = TRUE
       ELSE UNCHANGED <<f, preds, succs, changed>>
    /\ at' = at + 1
    /\ UNCHANGED <<original, phase>>
EndBranches ==
    /\ phase = "branches" /\ at > Len(f.order)
    /\ phase' = "cfg"
    /\ UNCHANGED <<f, preds, succs, original, at, changed>>

-----------------------------------------------------------------------------
(* cleanup_cfg: each round does the first of these that applies.           *)

ReachedFrom(S) == FoldLeft(LAMBDA R, k : UNION {{b} \cup succs[b] : b \in R}, S, f.order)
Unreachable == Blocks(f) \ ReachedFrom({Entry(f)})

WithoutIncomingFrom(i, gone) == FoldSet(LAMBDA p, j : WithoutIncoming(j, p), i, gone)
(* Every edge of an unreachable block goes, at both ends, and then it.     *)
Erased(gone) ==
    LET kept == Blocks(f) \ gone IN
    [f |-> [order |-> SelectSeq(f.order, LAMBDA b : b \notin gone),
            body |-> [b \in kept |-> [k \in DOMAIN f.body[b] |-> WithoutIncomingFrom(f.body[b][k], gone)]]],
     preds |-> [b \in kept |-> preds[b] \ gone],
     succs |-> [b \in kept |-> succs[b]]]
RemoveUnreachable == \E gone \in {Unreachable} : gone # {} /\ Becomes(Erased(gone))

(* Phis with one entry, and what replaces them; a chain of them is         *)
(* followed to its end.                                                    *)
ReplacedPhis ==
    {i \in InstrsOf(f) : IsPhi(i) /\ Len(i.args) = 1 /\ i.args[1] # Val(i.id)
                         /\ \A b \in Blocks(f) : i \in ToSet(f.body[b]) => i.to[1] # b}
Resolve(phis, v) ==
    FoldSet(LAMBDA k, u : IF \E i \in phis : Val(i.id) = u
                          THEN (CHOOSE i \in phis : Val(i.id) = u).args[1] ELSE u,
            v, phis)
WithoutPhis(h, phis) ==
    LET kept == [h EXCEPT !.f.body = [b \in DOMAIN @ |-> SelectSeq(@[b], LAMBDA i : i \notin phis)]]
    IN  [kept EXCEPT !.f = ReplaceOperands(@, LAMBDA v : Resolve(phis, v))]

SimplifySinglePredecessorPhis ==
    \E phis \in {ReplacedPhis} : phis # {} /\ Becomes(WithoutPhis(g, phis))

(* An empty block that can be jumped over: no predecessor also goes to its  *)
(* target directly, where phis tell the two ways apart.                    *)
IsEmptyJump(b) ==
    /\ b # Entry(f) /\ Len(f.body[b]) = 1 /\ Term(b).op = "br" /\ ~IsConditional(Term(b))
    /\ Term(b).to[1] # b /\ preds[b] # {}
CanRedirect(b) ==
    /\ IsEmptyJump(b)
    /\ \A p \in preds[b] : Term(b).to[1] \notin succs[p]
(* A phi of the target has the entry of the block once for each of its     *)
(* predecessors instead.                                                   *)
Rerouted(i, b) ==
    IF ~IsPhi(i) \/ b \notin ToSet(i.to) THEN i
    ELSE LET from == SetToSeq(preds[b])
             rest == WithoutIncoming(i, b)
             value == i.args[CHOOSE k \in DOMAIN i.to : i.to[k] = b]
         IN  [i EXCEPT !.args = rest.args \o [k \in DOMAIN from |-> value],
                       !.to = rest.to \o from]
Redirect(b) ==
    LET target == Term(b).to[1]
        jumped(i) == IF i.op = "br" THEN [i EXCEPT !.to = Retarget(@, b, target)] ELSE i
    IN  Becomes(EraseBlock(
          [f |-> [f EXCEPT !.body = [c \in DOMAIN @ |-> [k \in DOMAIN @[c] |->
                     IF c = target THEN Rerouted(jumped(@[c][k]), b) ELSE jumped(@[c][k])]]],
           preds |-> [preds EXCEPT ![target] = (@ \ {b}) \cup preds[b]],
           succs |-> [c \in DOMAIN succs |-> IF c \in preds[b] THEN (succs[c] \ {b}) \cup {target}
                                             ELSE succs[c]]], b))

CanMerge(b) ==
    LET s == Term(b).to[1] IN
    /\ Term(b).op = "br" /\ ~IsConditional(Term(b))
    /\ s # b /\ preds[s] = {b}
    /\ \A i \in ToSet(Phis(f, s)) : Len(i.args) = 1 /\ i.args[1] # Val(i.id) /\ i.to[1] # s
Merge(b) ==
    LET s == Term(b).to[1]
        bare == RemoveEdgeNoPhi(WithoutPhis(g, ToSet(Phis(f, s))), b, s)
        edges == FoldSet(LAMBDA t, h : MoveSuccessorEdge(h, s, b, t), bare, succs[s])
        joined == [edges EXCEPT !.f.body[b] = Front(@) \o edges.f.body[s]]
    IN  Becomes(EraseBlock(joined, s))

FirstBlock(Can(_)) ==
    f.order[CHOOSE k \in DOMAIN f.order : /\ Can(f.order[k])
                                          /\ \A j \in 1..(k - 1) : ~Can(f.order[j])]
Some(Can(_)) == \E b \in Blocks(f) : Can(b)

CleanUnreachable == phase = "cfg" /\ RemoveUnreachable
CleanPhis ==
    /\ phase = "cfg" /\ Unreachable = {} /\ ~Large
    /\ SimplifySinglePredecessorPhis
CleanJump ==
    /\ phase = "cfg" /\ Unreachable = {} /\ ~Large /\ ReplacedPhis = {}
    /\ Some(CanRedirect) /\ Redirect(FirstBlock(CanRedirect))
CleanChain ==
    /\ phase = "cfg" /\ Unreachable = {} /\ ~Large /\ ReplacedPhis = {} /\ ~Some(CanRedirect)
    /\ Some(CanMerge) /\ Merge(FirstBlock(CanMerge))
Cleanup ==
    /\ CleanUnreachable \/ CleanPhis \/ CleanJump \/ CleanChain
    /\ changed' = TRUE
    /\ UNCHANGED <<original, phase, at>>
EndCleanup ==
    /\ phase = "cfg" /\ Unreachable = {}
    /\ Large \/ (ReplacedPhis = {} /\ ~Some(CanRedirect) /\ ~Some(CanMerge))
    /\ phase' = "dce"
    /\ UNCHANGED <<f, preds, succs, original, at, changed>>

-----------------------------------------------------------------------------
(* eliminate_dead_code, one sweep at a time.                               *)

Used(id) == \E i \in InstrsOf(f) : Val(id) \in ToSet(i.args)
Dead == {i \in InstrsOf(f) : Removable(i) /\ ~Used(i.id)}

DceSweep ==
    /\ phase = "dce" /\ Dead # {}
    /\ \E dead \in {Dead} :
         f' = [f EXCEPT !.body = [b \in DOMAIN @ |-> SelectSeq(@[b], LAMBDA i : i \notin dead)]]
    /\ changed' = TRUE
    /\ UNCHANGED <<preds, succs, original, phase, at>>

\* Mutant: one round is taken to be enough.
EndRound_Once ==
    /\ phase = "dce" /\ Dead = {}
    /\ phase' = "done"
    /\ at' = 1 /\ changed' = FALSE
    /\ UNCHANGED <<f, preds, succs, original>>
\* Mutant: what changed in one round counts in the next.
EndRound_Inherits ==
    /\ phase = "dce" /\ Dead = {}
    /\ phase' = (IF changed THEN "branches" ELSE "done")
    /\ at' = 1
    /\ UNCHANGED <<f, preds, succs, original, changed>>
(* The round is over: the pass ends if it changed nothing.                 *)
EndRound ==
    /\ phase = "dce" /\ Dead = {}
    /\ phase' = (IF changed THEN "branches" ELSE "done")
    /\ at' = 1 /\ changed' = FALSE
    /\ UNCHANGED <<f, preds, succs, original>>

Init ==
    /\ f \in Programs /\ original = f
    /\ preds = [b \in Blocks(f) |-> Predecessors(f, b)]
    /\ succs = [b \in Blocks(f) |-> SuccessorSet(f, b)]
    /\ phase = "branches" /\ at = 1 /\ changed = FALSE

Next == SimplifyBranch \/ EndBranches \/ Cleanup \/ EndCleanup \/ DceSweep \/ EndRound
Spec == Init /\ [][Next]_vars

-----------------------------------------------------------------------------
(* Properties.                                                             *)

(* The lists, the branches and the entries of the phis say the same after  *)
(* every step.                                                             *)
EdgesAgree ==
    \A b \in Blocks(f) :
        /\ succs[b] = SuccessorSet(f, b)
        /\ preds[b] = Predecessors(f, b)
        /\ \A i \in ToSet(Phis(f, b)) : ToSet(i.to) = preds[b] /\ Len(i.to) = Cardinality(preds[b])

(* Each step alone leaves a function in SSA form that behaves as before,   *)
(* so that stopping at any of them would be sound.                         *)
StaysSSA == WellFormed(f)
SameBehaviour == Preserves(original, f, Inputs(original))

(* A function that is not large ends with nothing left to clean, although  *)
(* each kind of step runs before others that may make work for it.         *)
Settled ==
    phase = "done" /\ ~Large =>
        /\ Blocks(f) \subseteq Reachable(f)
        /\ \A i \in InstrsOf(f) : IsPhi(i) => Len(i.args) > 1
        /\ \A b, c \in Blocks(f) :
              ~(SuccessorSet(f, b) = {c} /\ Predecessors(f, c) = {b})
        /\ \A b \in Blocks(f) : IsConditional(Term(b)) => ~IsConst(Term(b).args[1])
        /\ \A b \in Blocks(f) : Len(f.body[b]) = 1 /\ Len(Term(b).to) = 1 => b = Entry(f) \/
              \E p \in Predecessors(f, b) : Term(b).to[1] \in SuccessorSet(f, p)
        /\ \A i \in InstrsOf(f) : Removable(i) => Used(i.id)

(* No step of the pass makes work for another for ever.                    *)
Terminates == <>(phase = "done")
=============================================================================
