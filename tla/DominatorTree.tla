--------------------------- MODULE DominatorTree ---------------------------
(***************************************************************************)
(* The dominator tree of a control flow graph (src/oir/OIRAnalysis.cpp,    *)
(* class DominatorTree), on which every SSA pass relies: a depth-first     *)
(* walk numbers the reachable blocks in reverse postorder, sweeps in that  *)
(* order intersect the candidate dominators of predecessors until nothing  *)
(* changes, and a walk of the tree numbers it so that dominance is one     *)
(* comparison of intervals.                                                *)
(*                                                                         *)
(* The recursions are stacks, and the two fingers of intersect climb one   *)
(* block a step.  Successors and children are visited in any order.        *)
(***************************************************************************)
EXTENDS Integers, Sequences, FiniteSets, SequencesExt, FiniteSetsExt

CONSTANTS Block, Root,  \* the blocks and the entry block
          Graphs        \* the sets of edges looked at

VARIABLES edges,
          phase,             \* "dfs", "idom", "meet", "number", "done"
          stack, seen, postorder,  \* of the depth-first walk
          work_idom,         \* candidate dominators, of the blocks met so far
          next, changed,     \* where the sweep is, and whether it changed anything
          waiting,           \* predecessors of that block still to be intersected
          fingers,           \* of intersect: the first climbs from a predecessor, the
                             \* second from what the predecessors before it met at
          idom,              \* the result
          numbered, dom_pre, dom_post, clock  \* of the walk of the tree
dfsVars == <<stack, seen, postorder>>
meetVars == <<waiting, fingers>>
numberVars == <<numbered, dom_pre, dom_post, clock>>
vars == <<edges, phase, dfsVars, work_idom, next, changed, meetVars, idom, numberVars>>

Successors(b) == {c \in Block : <<b, c>> \in edges}
Predecessors(b) == {c \in Block : <<c, b>> \in edges}

(* The blocks paths from the entry lead to that do not pass d: what all     *)
(* sets have in common that hold the entry and, with a block, its          *)
(* successors, d apart.                                                    *)
ClosedWithout(S, d) == Root \in S \cup {d} /\ \A b \in S : Successors(b) \subseteq S \cup {d}
ReachableWithout(d) == {b \in Block : b # d /\ \A S \in SUBSET Block : ClosedWithout(S, d) => b \in S}
Reachable == {b \in Block : \A S \in SUBSET Block :
                 Root \in S /\ (\A c \in S : Successors(c) \subseteq S) => b \in S}

-----------------------------------------------------------------------------
(* The depth-first walk of compute_immediate_dominators.                   *)

Top == Last(stack)
DfsEnter(b) ==
    /\ phase = "dfs" /\ stack # <<>>
    /\ b \in Successors(Top) \ seen
    /\ stack' = Append(stack, b) /\ seen' = seen \cup {b}
    /\ UNCHANGED <<edges, phase, postorder, work_idom, next, changed, meetVars, idom, numberVars>>
DfsLeave ==
    /\ phase = "dfs" /\ stack # <<>>
    /\ Successors(Top) \subseteq seen
    /\ stack' = Front(stack) /\ postorder' = Append(postorder, Top)
    /\ UNCHANGED <<edges, phase, seen, work_idom, next, changed, meetVars, idom, numberVars>>

rpo == Reverse(postorder)
Index(b) == CHOOSE k \in DOMAIN rpo : rpo[k] = b

StartSweeps ==
    /\ phase = "dfs" /\ stack = <<>>
    /\ phase' = "idom" /\ work_idom' = [b \in {Root} |-> Root]
    /\ next' = 1 /\ changed' = FALSE
    /\ UNCHANGED <<edges, dfsVars, meetVars, idom, numberVars>>

-----------------------------------------------------------------------------
(* The sweeps.  Only predecessors that have a candidate count; they are     *)
(* taken in any order.                                                     *)

Processed(b) == Predecessors(b) \cap DOMAIN work_idom
With(f, b, x) == [c \in DOMAIN f \cup {b} |-> IF c = b THEN x ELSE f[c]]

SkipBlock ==
    /\ phase = "idom" /\ next <= Len(rpo)
    /\ rpo[next] = Root \/ Processed(rpo[next]) = {}
    /\ next' = next + 1
    /\ UNCHANGED <<edges, phase, dfsVars, work_idom, changed, meetVars, idom, numberVars>>

FirstPredecessor(p) ==
    /\ phase = "idom" /\ next <= Len(rpo)
    /\ rpo[next] # Root /\ p \in Processed(rpo[next])
    /\ phase' = "meet"
    /\ waiting' = Processed(rpo[next]) \ {p} /\ fingers' = <<p, p>>
    /\ UNCHANGED <<edges, dfsVars, work_idom, next, changed, idom, numberVars>>

NextPredecessor(p) ==
    /\ phase = "meet" /\ fingers[1] = fingers[2] /\ p \in waiting
    /\ waiting' = waiting \ {p} /\ fingers' = <<p, fingers[2]>>
    /\ UNCHANGED <<edges, phase, dfsVars, work_idom, next, changed, idom, numberVars>>

(* Until the fingers meet, the one further from the entry climbs.          *)
Climb ==
    /\ phase = "meet" /\ fingers[1] # fingers[2]
    /\ LET k == IF Index(fingers[1]) > Index(fingers[2]) THEN 1 ELSE 2
       IN  fingers' = [fingers EXCEPT ![k] = work_idom[@]]
    /\ UNCHANGED <<edges, phase, dfsVars, work_idom, next, changed, waiting, idom, numberVars>>

EndBlock ==
    /\ phase = "meet" /\ fingers[1] = fingers[2] /\ waiting = {}
    /\ IF rpo[next] \in DOMAIN work_idom /\ work_idom[rpo[next]] = fingers[2]
       THEN UNCHANGED <<work_idom, changed>>
       ELSE work_idom' = With(work_idom, rpo[next], fingers[2]) /\ changed' = TRUE
    /\ phase' = "idom" /\ next' = next + 1
    /\ UNCHANGED <<edges, dfsVars, meetVars, idom, numberVars>>

\* Mutant: a sweep inherits the change of the one before.
SweepAgain_Inherits ==
    /\ phase = "idom" /\ next > Len(rpo) /\ changed
    /\ next' = 1
    /\ UNCHANGED <<edges, phase, dfsVars, work_idom, changed, meetVars, idom, numberVars>>
SweepAgain ==
    /\ phase = "idom" /\ next > Len(rpo) /\ changed
    /\ next' = 1 /\ changed' = FALSE
    /\ UNCHANGED <<edges, phase, dfsVars, work_idom, meetVars, idom, numberVars>>

\* Mutant: one sweep is taken to be enough.
EndSweeps_First ==
    /\ phase = "idom" /\ next > Len(rpo)
    /\ idom' = [b \in DOMAIN work_idom \ {Root} |-> work_idom[b]]
    /\ phase' = "number"
    /\ stack' = <<Root>> /\ numbered' = {Root}
    /\ dom_pre' = [b \in {Root} |-> 0] /\ clock' = 1
    /\ UNCHANGED <<edges, seen, postorder, work_idom, next, changed, meetVars, dom_post>>
EndSweeps ==
    /\ phase = "idom" /\ next > Len(rpo) /\ ~changed
    /\ idom' = [b \in DOMAIN work_idom \ {Root} |-> work_idom[b]]
    /\ phase' = "number"
    /\ stack' = <<Root>> /\ numbered' = {Root}
    /\ dom_pre' = [b \in {Root} |-> 0] /\ clock' = 1
    /\ UNCHANGED <<edges, seen, postorder, work_idom, next, changed, meetVars, dom_post>>

-----------------------------------------------------------------------------
(* Numbering the tree: compute_children, compute_dom_dfs_numbers.          *)

Children(b) == {c \in DOMAIN idom : idom[c] = b}

NumberEnter(b) ==
    /\ phase = "number" /\ stack # <<>>
    /\ b \in Children(Top) \ numbered
    /\ stack' = Append(stack, b) /\ numbered' = numbered \cup {b}
    /\ dom_pre' = With(dom_pre, b, clock) /\ clock' = clock + 1
    /\ UNCHANGED <<edges, phase, seen, postorder, work_idom, next, changed, meetVars, idom, dom_post>>
\* Mutant: leaving a block takes no number of its own.
NumberLeave_SameClock ==
    /\ phase = "number" /\ stack # <<>>
    /\ Children(Top) \subseteq numbered
    /\ stack' = Front(stack)
    /\ dom_post' = With(dom_post, Top, dom_pre[Top]) /\ clock' = clock
    /\ UNCHANGED <<edges, phase, seen, postorder, work_idom, next, changed, meetVars, idom, numbered, dom_pre>>
NumberLeave ==
    /\ phase = "number" /\ stack # <<>>
    /\ Children(Top) \subseteq numbered
    /\ stack' = Front(stack)
    /\ dom_post' = With(dom_post, Top, clock) /\ clock' = clock + 1
    /\ UNCHANGED <<edges, phase, seen, postorder, work_idom, next, changed, meetVars, idom, numbered, dom_pre>>
Finish ==
    /\ phase = "number" /\ stack = <<>> /\ phase' = "done"
    /\ UNCHANGED <<edges, dfsVars, work_idom, next, changed, meetVars, idom, numberVars>>

(* The answer dominates() gives: an unreachable block only dominates       *)
(* itself.                                                                 *)
Dominates(a, b) ==
    \/ a = b
    \/ /\ {a, b} \subseteq Reachable
       /\ dom_pre[a] <= dom_pre[b] /\ dom_post[b] <= dom_post[a]

Begin ==
    /\ phase = "dfs"
    /\ stack = <<Root>> /\ seen = {Root} /\ postorder = <<>>
    /\ work_idom = << >> /\ next = 1 /\ changed = FALSE /\ idom = << >>
    /\ waiting = {} /\ fingers = <<Root, Root>>
    /\ numbered = {} /\ dom_pre = << >> /\ dom_post = << >> /\ clock = 0
Init == edges \in Graphs /\ Begin

Next == \/ \E b \in Block : \/ DfsEnter(b) \/ FirstPredecessor(b) \/ NextPredecessor(b)
                           \/ NumberEnter(b)
        \/ DfsLeave \/ StartSweeps \/ SkipBlock \/ Climb \/ EndBlock \/ SweepAgain \/ EndSweeps
        \/ NumberLeave \/ Finish
Spec == Init /\ [][Next]_vars

-----------------------------------------------------------------------------
(* Properties.                                                             *)

(* What dominance means: every path from the entry to b passes a.          *)
OnEveryPath(a, b) == a = b \/ b \notin ReachableWithout(a)
Immediate(a, b) ==
    /\ a # b /\ OnEveryPath(a, b)
    /\ \A c \in Reachable \ {b} : OnEveryPath(c, b) => OnEveryPath(c, a)

(* At the end every reachable block but the entry has its immediate        *)
(* dominator, in reducible and irreducible graphs.                         *)
ImmediateDominatorsFound ==
    phase \in {"number", "done"} =>
        /\ DOMAIN idom = Reachable \ {Root}
        /\ \A b \in DOMAIN idom : Immediate(idom[b], b)

(* The comparison of intervals decides dominance.                          *)
IntervalsDecide ==
    phase = "done" => \A a, b \in Reachable : Dominates(a, b) <=> OnEveryPath(a, b)
=============================================================================
