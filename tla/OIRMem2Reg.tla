----------------------------- MODULE OIRMem2Reg -----------------------------
(***************************************************************************)
(* Promotion of the cells of a function to SSA values                      *)
(* (src/pass/oir/OIRMem2RegPass.cpp, run_on_function): the scalar cells    *)
(* allocated in the entry block that are only loaded from and stored to    *)
(* get phis on the iterated dominance frontiers of their stores; a walk of *)
(* the dominator tree then gives every load the value that reaches it,     *)
(* and the loads, stores and cells go away.                                *)
(*                                                                         *)
(* The walk keeps what each cell holds in a map it changes on the way down *)
(* and puts back on the way up.  The order of hash sets (the first work    *)
(* list, frontiers, children in the dominator tree) is left open.          *)
(***************************************************************************)
EXTENDS OIR, TLC

CONSTANTS Programs,   \* the functions the pass may be given
          Inputs(_),  \* what runs of a function are given
          Labels,     \* the blocks of the functions
          EntryLabel  \* and the one they all begin with

ASSUME EntryAssumption == EntryLabel \in Labels /\ IsFiniteSet(Labels)

(* Functions have their blocks in a list that begins with the entry, and   *)
(* the instructions of each; what allocates a cell names it.  They are in  *)
(* SSA form, as the verifier demands between passes.                       *)
IsBody(s) ==
    /\ s \in Seq(ToSet(s))
    /\ \A i \in ToSet(s) : /\ DOMAIN i = {"op", "id", "bits", "args", "to"}
                           /\ i.id \in Nat
                           /\ i.args \in Seq(ToSet(i.args)) /\ i.to \in Seq(ToSet(i.to))
                           /\ \A v \in ToSet(i.args) : IsVal(v) => v[2] \in Nat \ {0}
                           /\ i.op = "alloca" => i.id # 0
                           /\ i.op = "store" => Len(i.args) = 2
IsFunction(g) ==
    /\ DOMAIN g = {"order", "body"}
    /\ g.order \in Seq(Labels) /\ g.order # <<>> /\ Entry(g) = EntryLabel
    /\ DOMAIN g.body = Blocks(g)
    /\ \A b \in Blocks(g) : IsBody(g.body[b])
    /\ WellFormed(g)
ASSUME ProgramsAssumption == \A g \in Programs : IsFunction(g)

VARIABLES f,                \* the function, as the pass changes it
          original,         \* as it was given
          edges,            \* of the graph, which promotion does not change
          idom,             \* the dominator tree: of each block its immediate dominator
          tree_phase, tree_stack, seen, postorder, work_idom, next, moved, waiting,
          fingers, numbered, dom_pre, dom_post, clock, \* how DominatorTree finds it
          frontiers,        \* the dominance frontiers, computed once
          phase,            \* "collect", "place", "rename", "done"
          allocas,          \* the cells to promote
          placing,          \* the cell whose phis are being placed
          worklist, queued, \* of place_phi_nodes
          phis,             \* the <<cell, block>> with a phi
          current,          \* what each cell holds, at this point of the walk
          stack,            \* the recursion of rename_block, innermost last
          replacements,     \* load |-> the value it is replaced by
          dead              \* the places of the instructions to erase
tree == <<edges, idom, tree_phase, tree_stack, seen, postorder, work_idom, next, moved, waiting,
          fingers, numbered, dom_pre, dom_post, clock>>
promotion == <<f, original, frontiers, phase, allocas, placing, worklist, queued, phis, current,
               stack, replacements, dead>>
vars == <<promotion, tree>>

DT == INSTANCE DominatorTree WITH
         Block <- Labels, Root <- EntryLabel, Graphs <- {},
         phase <- tree_phase, stack <- tree_stack, changed <- moved
-----------------------------------------------------------------------------
(* What can be promoted.  Places are <<block, position in it>>.            *)

None == <<"none", 0>>
Cells == {i.id : i \in {j \in ToSet(f.body[Entry(f)]) : j.op = "alloca"}}
Places == UNION {{b} \X DOMAIN f.body[b] : b \in Blocks(f)}
At(p) == f.body[p[1]][p[2]]
Users(a) == {p \in Places : Val(a) \in ToSet(At(p).args)}
IsLoadOf(i, a) == i.op = "load" /\ i.args[1] = Val(a)
IsStoreTo(i, a) == i.op = "store" /\ i.args[2] = Val(a)

IsPromotableUse(i, a) == IsLoadOf(i, a) \/ (IsStoreTo(i, a) /\ i.args[1] # Val(a))

Promotable ==
    {a \in Cells : \A p \in Users(a) : IsPromotableUse(At(p), a) /\ p[1] \in Reachable(f)}
DefBlocks(a) == {p[1] : p \in {q \in Users(a) : At(q).op = "store"}}

-----------------------------------------------------------------------------
(* Phis on the iterated dominance frontiers.                               *)

DomChildren(b) == {c \in DOMAIN idom : idom[c] = b}

(* The runner climbs from each predecessor of b up to, not including, the  *)
(* immediate dominator of b.                                               *)
Runners(p, top) ==
    FoldSet(LAMBDA k, R : R \cup ({idom[r] : r \in R \cap DOMAIN idom} \ {top}), {p} \ {top}, Labels)
Frontier(r) ==
    {b \in Reachable(f) :
        /\ Cardinality(Predecessors(f, b)) >= 2
        /\ \E p \in Predecessors(f, b) \cap Reachable(f) :
              r \in Runners(p, IF b \in DOMAIN idom THEN idom[b] ELSE "none")}

Collect ==
    /\ phase = "collect" /\ tree_phase = "done"
    /\ allocas' = Promotable
    /\ phase' = IF Promotable = {} THEN "done" ELSE "place"
    /\ current' = [a \in Promotable |-> None]
    /\ frontiers' = [b \in Blocks(f) |-> Frontier(b)]
    /\ UNCHANGED <<f, original, tree, placing, worklist, queued, phis, stack, replacements, dead>>

HasPhi(a, b) == <<a, b>> \in phis
(* The name of a new phi: no instruction has it, nor another new phi.      *)
PhiId(a, b) == -(a * (Len(f.order) + 1) + (CHOOSE k \in DOMAIN f.order : f.order[k] = b))
(* A new phi comes after the phis its block begins with.                   *)
NotAPhiAt(body) == {n \in 1 .. Len(body) + 1 : n = Len(body) + 1 \/ ~IsPhi(body[n])}
InsertPhi(body, id) == InsertAt(body, Min(NotAPhiAt(body)), Phi(id, <<>>, <<>>))

(* The cells are taken in the order of the entry block.                    *)
Unplaced == {a \in allocas : a > placing}
StartPlacing ==
    /\ phase = "place" /\ worklist = {} /\ Unplaced # {}
    /\ placing' = Min(Unplaced)
    /\ worklist' = DefBlocks(placing') /\ queued' = worklist'
    /\ UNCHANGED <<f, original, tree, frontiers, phase, allocas, phis, current, stack, replacements, dead>>

\* Mutant: a block is not looked at again for the phi it got.
Requeued_Never(b, new) == worklist \ {b}
Requeued(b, new) == (worklist \ {b}) \cup (new \ queued)

PlaceFor(b) ==
    LET new == {d \in frontiers[b] : ~HasPhi(placing, d)} IN
    /\ phase = "place" /\ b \in worklist
    /\ f' = [f EXCEPT !.body = [d \in DOMAIN @ |->
                IF d \in new THEN InsertPhi(@[d], PhiId(placing, d)) ELSE @[d]]]
    /\ phis' = phis \cup ({placing} \X new)
    /\ worklist' = Requeued(b, new) /\ queued' = queued \cup new
    /\ UNCHANGED <<original, tree, frontiers, phase, allocas, placing, current, stack, replacements, dead>>

-----------------------------------------------------------------------------
(* The walk of the dominator tree.                                         *)

(* A cell that holds nothing yet is undefined.                             *)
Holds(cur, a) == IF cur[a] = None THEN Undef ELSE cur[a]

(* Setting a cell pushes what it held on what the block will put back.     *)
SetCell(w, a, v) == [w EXCEPT !.cur[a] = v, !.saved = Append(@, <<a, w.cur[a]>>)]

SetPhis(b) ==
    Through(LAMBDA w, i : IF \E a \in allocas : HasPhi(a, b) /\ PhiId(a, b) = i.id
                           THEN LET a == CHOOSE c \in allocas : PhiId(c, b) = i.id
                                IN  SetCell(w, a, Val(i.id))
                           ELSE w,
             [cur |-> current, saved |-> <<>>, repl |-> replacements, dead |-> dead],
             f.body[b])

VisitInstr(w, b, k) ==
    LET i == f.body[b][k]
        gone == [w EXCEPT !.dead = @ \cup {<<b, k>>}] IN
    CASE i.op = "alloca" /\ i.id \in allocas -> gone
      [] \E a \in allocas : IsLoadOf(i, a) ->
            LET a == i.args[1][2]
            IN  [gone EXCEPT !.repl = (i.id :> Holds(w.cur, a)) @@ @]
      [] \E a \in allocas : IsStoreTo(i, a) -> SetCell(gone, i.args[2][2], i.args[1])
      [] OTHER -> w
Visited(b) == Through(LAMBDA w, k : VisitInstr(w, b, k), SetPhis(b),
                       [k \in DOMAIN f.body[b] |-> k])

(* The phis of the successors get what the cells hold at the end of b.     *)
AddIncoming(i, v, b) == [i EXCEPT !.args = Append(@, v), !.to = Append(@, b)]
WithIncoming(b, cur) ==
    [f EXCEPT !.body = [s \in DOMAIN @ |->
        IF s \notin SuccessorSet(f, b) THEN @[s]
        ELSE [k \in DOMAIN @[s] |->
            IF IsPhi(@[s][k]) /\ \E a \in allocas : HasPhi(a, s) /\ PhiId(a, s) = @[s][k].id
            THEN AddIncoming(@[s][k], Holds(cur, CHOOSE a \in allocas : PhiId(a, s) = @[s][k].id), b)
            ELSE @[s][k]]]]

(* rename_block up to its calls for the children, called from the frames.  *)
RenameFrom(frames, b) ==
    LET w == Visited(b) IN
    /\ f' = WithIncoming(b, w.cur)
    /\ current' = w.cur /\ replacements' = w.repl /\ dead' = w.dead
    /\ stack' = Append(frames, [block |-> b, saved |-> w.saved, todo |-> DomChildren(b)])
    /\ phase' = "rename"
    /\ UNCHANGED <<original, tree, frontiers, allocas, placing, worklist, queued, phis>>

StartRenaming ==
    /\ phase = "place" /\ worklist = {} /\ Unplaced = {}
    /\ RenameFrom(<<>>, Entry(f))

Top == Last(stack)
RenameChild ==
    /\ phase = "rename" /\ stack # <<>>
    /\ \E c \in Top.todo :
          RenameFrom([stack EXCEPT ![Len(stack)].todo = @ \ {c}], c)

\* Mutant: what was saved first is put back first.
PutBack_Forward(saved) ==
    Through(LAMBDA cur, s : [cur EXCEPT ![s[1]] = s[2]], current, saved)
PutBack(saved) ==
    Through(LAMBDA cur, s : [cur EXCEPT ![s[1]] = s[2]], current, Reverse(saved))

Return ==
    /\ phase = "rename" /\ stack # <<>> /\ Top.todo = {}
    /\ current' = PutBack(Top.saved)
    /\ stack' = Front(stack)
    /\ UNCHANGED <<f, original, tree, frontiers, phase, allocas, placing, worklist, queued, phis, replacements, dead>>

-----------------------------------------------------------------------------
(* The end: missing entries of phis, replacements, dead instructions.      *)

\* Mutant: predecessors the walk did not reach are forgotten.
FillMissing_Not(i, b) == i
FillMissing(i, b) ==
    Through(LAMBDA j, p : IF p \in Predecessors(f, b) /\ p \notin ToSet(j.to)
                           THEN AddIncoming(j, Undef, p) ELSE j, i, f.order)
IsPlaced(i, b) == \E a \in allocas : HasPhi(a, b) /\ PhiId(a, b) = i.id
Filled == [b \in DOMAIN f.body |-> [k \in DOMAIN f.body[b] |->
              IF IsPlaced(f.body[b][k], b) THEN FillMissing(f.body[b][k], b) ELSE f.body[b][k]]]

(* Follows replacements that are themselves replaced.                      *)
ResolveReplacement(v) ==
    Through(LAMBDA u, k : IF IsVal(u) /\ u[2] \in DOMAIN replacements
                           THEN replacements[u[2]] ELSE u,
             v, [k \in 1..Cardinality(DOMAIN replacements) |-> k])

Erased(body) ==
    [b \in DOMAIN body |->
        LET kept == SelectSeq([k \in DOMAIN body[b] |-> k], LAMBDA k : <<b, k>> \notin dead)
        IN  [n \in DOMAIN kept |-> body[b][kept[n]]]]

Finish ==
    /\ phase = "rename" /\ stack = <<>>
    /\ LET g == ReplaceOperands([f EXCEPT !.body = Filled], ResolveReplacement)
       IN  f' = [g EXCEPT !.body = Erased(@)]
    /\ phase' = "done"
    /\ UNCHANGED <<original, tree, frontiers, allocas, placing, worklist, queued, phis, current, stack,
                   replacements, dead>>

Init ==
    /\ f \in Programs /\ original = f /\ phase = "collect"
    /\ allocas = {} /\ placing = 0 /\ worklist = {} /\ queued = {} /\ phis = {}
    /\ frontiers = << >> /\ edges = UNION {{b} \X SuccessorSet(f, b) : b \in Blocks(f)}
    /\ DT!Begin
    /\ current = << >> /\ stack = <<>> /\ replacements = << >> /\ dead = {}

PlaceOne == \E b \in worklist : PlaceFor(b)
FindTree == phase = "collect" /\ DT!Next /\ UNCHANGED promotion
Next == FindTree \/ Collect \/ StartPlacing \/ PlaceOne \/ StartRenaming \/ RenameChild \/ Return \/ Finish
Spec == Init /\ [][Next]_vars
FairSpec == Spec /\ WF_tree(FindTree)
-----------------------------------------------------------------------------
(* Properties.                                                             *)

(* Until promotion begins: when the sweeps have ended every reachable      *)
(* block but the entry has its immediate dominator, in reducible and       *)
(* irreducible graphs.                                                     *)
TreeFound == phase = "collect" => DT!ImmediateDominatorsFound

(* The numbers given to the tree decide dominance by one comparison.       *)
IntervalsDecide == phase = "collect" => DT!IntervalsDecide

(* The sweeps for the tree end.                                            *)
TreeEnds == <>(tree_phase = "done")

(* Whatever the function is given, its calls and its result stay the same. *)
SameBehaviour == phase = "done" => Preserves(original, f, Inputs(original))

(* The result is in SSA form: phis first with one entry for each           *)
(* predecessor, also those the walk does not reach, and every use          *)
(* dominated by its definition; in particular nothing refers to an erased  *)
(* instruction.                                                            *)
StaysSSA == phase = "done" => WellFormed(f)

(* When the phis are placed, a cell has one wherever two of its            *)
(* definitions, stores or phis, may meet.                                  *)
DefinedIn(a) == DefBlocks(a) \cup {b \in Blocks(f) : HasPhi(a, b)}
PhisOnIteratedFrontier ==
    phase = "rename" =>
        \A a \in allocas : \A b \in DefinedIn(a) \cap Reachable(f) : \A d \in frontiers[b] : HasPhi(a, d)

(* During the walk a cell only holds values of the blocks on the way from  *)
(* the entry to the one the walk is in, which dominate it: what siblings   *)
(* stored was put back.                                                    *)
DefinedOnTheWay(v) ==
    \/ v \notin Ids(f)
    \/ \E k \in DOMAIN stack : \E i \in ToSet(f.body[stack[k].block]) : i.id = v
HeldValuesDominate ==
    \A a \in allocas : IsVal(current[a]) => DefinedOnTheWay(current[a][2])
=============================================================================
