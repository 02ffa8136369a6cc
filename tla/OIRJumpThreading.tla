-------------------------- MODULE OIRJumpThreading --------------------------
(***************************************************************************)
(* Jump threading (src/pass/oir/OIRJumpThreadingPass.cpp) and the cleanup  *)
(* it leaves its work to.  A branch whose outcome is known on the way in   *)
(* is jumped past: the predecessor goes straight to the block the branch   *)
(* would take.  Two branches are known: one on a phi that is constant for  *)
(* the predecessor, and one on the value its only predecessor has just     *)
(* branched on.  The block jumped past stays, perhaps with no way in, and  *)
(* its edges, phis and blocks are the business of OIRCFGCleanup.           *)
(***************************************************************************)
EXTENDS OIRCFGCleanup

CONSTANTS Threaded,       \* the functions threaded before they are cleaned
          MaxIterations   \* edges threaded at most, 32 in the code

VARIABLE left             \* edges that may still be threaded
threadingVars == <<vars, left>>

-----------------------------------------------------------------------------
(* Moving an edge.                                                         *)

WithIncoming(i, v, p) == [i EXCEPT !.args = Append(@, v), !.to = Append(@, p)]

(* The phis of the new successor have an entry to copy and none to clash.  *)
CanThreadTo(from, old, new) ==
    /\ new # old /\ new # from
    /\ \A i \in ToSet(Phis(f, new)) : from \notin ToSet(i.to) /\ old \in ToSet(i.to)

IncomingValue(i, p) == i.args[CHOOSE k \in DOMAIN i.to : i.to[k] = p]

(* p goes to new and no longer to old.  From p, the phis of new get         *)
(* Value(v) where old gave them v.                                         *)
Thread(p, old, new, Value(_)) ==
    LET moved(b, i) ==
            CASE b = p /\ i.op = "br" -> [i EXCEPT !.to = Retarget(@, old, new)]
              [] b = old -> WithoutIncoming(i, p)
              [] b = new /\ IsPhi(i) -> WithIncoming(i, Value(IncomingValue(i, old)), p)
              [] OTHER -> i
    IN  [f |-> [f EXCEPT !.body = [b \in DOMAIN f.body |->
                   [k \in DOMAIN f.body[b] |-> moved(b, f.body[b][k])]]],
         preds |-> [preds EXCEPT ![old] = @ \ {p}, ![new] = @ \cup {p}],
         succs |-> [succs EXCEPT ![p] = (@ \ {old}) \cup {new}]]

-----------------------------------------------------------------------------
(* A branch on a phi that is constant for a predecessor.                   *)

PhiNamed(b, v) == {i \in ToSet(Phis(f, b)) : Val(i.id) = v}
OnlyPhisAndBranch(b) == \A k \in 1..(Len(f.body[b]) - 1) : IsPhi(f.body[b][k])

(* What v, a phi of block b, is for p; followed while the answer is again  *)
(* a phi of b.  No value if that comes back to where it was.               *)
TranslateThroughPhi(v, b, p) ==
    LET step(u) == IF PhiNamed(b, u) = {} THEN {u}
                   ELSE {IncomingValue(i, p) : i \in PhiNamed(b, u)}
        reached == FoldLeft(LAMBDA U, k : UNION {step(u) : u \in U}, {v}, f.body[b])
    IN  {u \in reached : PhiNamed(b, u) = {}}

(* The phis of b are read in b, and in the phis of taken on the way from b *)
(* only.                                                                   *)
PhiUsesThreadable(b, taken) ==
    \A i \in ToSet(Phis(f, b)), c \in Blocks(f) \ {b} : \A j \in ToSet(f.body[c]) :
        \A n \in DOMAIN j.args :
            j.args[n] = Val(i.id) => c = taken /\ IsPhi(j) /\ j.to[n] = b

TakenFor(b, v) == IF v[2] # 0 THEN Term(b).to[1] ELSE Term(b).to[2]
ConditionPhi(b) == PhiNamed(b, Term(b).args[1])

CanThreadConstant(b, i, k) ==
    LET v == i.args[k]  p == i.to[k]  taken == TakenFor(b, v) IN
    /\ i \in ConditionPhi(b) /\ i.bits = 1
    /\ OnlyPhisAndBranch(b)
    /\ IsConst(v) /\ v[2] \in {0, 1} /\ p # b
    /\ CanThreadTo(p, b, taken)
    /\ PhiUsesThreadable(b, taken)
    /\ \A j \in ToSet(Phis(f, taken)) :
          TranslateThroughPhi(IncomingValue(j, b), b, p) # {}

ConstantEntries(b) ==
    {k \in 1..Cardinality(preds[b]) : \E i \in ConditionPhi(b) : CanThreadConstant(b, i, k)}
(* The first such entry of the phi is taken.                               *)
ThreadConstant(b) ==
    LET i == CHOOSE j \in ConditionPhi(b) : TRUE
        k == Min(ConstantEntries(b))
        translated(v) == CHOOSE u \in TranslateThroughPhi(v, b, i.to[k]) : TRUE
    IN  Thread(i.to[k], b, TakenFor(b, i.args[k]), translated)

-----------------------------------------------------------------------------
(* A branch on what its only predecessor has just branched on.             *)

CanThreadArm(p, arm) ==
    LET s == Term(p).to[arm] IN
    /\ preds[s] = {p}
    /\ IsConditional(Term(s)) /\ Term(s).args[1] = Term(p).args[1]
    /\ CanThreadTo(p, s, Term(s).to[arm])
ThreadArm(p, arm) ==
    LET s == Term(p).to[arm] IN Thread(p, s, Term(s).to[arm], LAMBDA v : v)

-----------------------------------------------------------------------------
CanThread(b) ==
    /\ IsConditional(Term(b))
    /\ ConstantEntries(b) # {} \/ CanThreadArm(b, 1) \/ CanThreadArm(b, 2)
Threading(b) ==
    CASE ConstantEntries(b) # {} -> ThreadConstant(b)
      [] CanThreadArm(b, 1) -> ThreadArm(b, 1)
      [] OTHER -> ThreadArm(b, 2)

(* One iteration: the first edge that can be threaded is.                  *)
ThreadEdge ==
    /\ phase = "threading" /\ left > 0 /\ Some(CanThread)
    /\ \E b \in {FirstBlock(CanThread)} : Becomes(Threading(b))
    /\ left' = left - 1
    /\ UNCHANGED <<original, phase, at, changed>>
EndThreading ==
    /\ phase = "threading" /\ (left = 0 \/ ~Some(CanThread))
    /\ phase' = "branches"
    /\ UNCHANGED <<f, preds, succs, original, at, changed, left>>

ThreadingInit ==
    /\ left = MaxIterations
    /\ \/ Init
       \/ /\ f \in Threaded /\ original = f
          /\ preds = [b \in Blocks(f) |-> Predecessors(f, b)]
          /\ succs = [b \in Blocks(f) |-> SuccessorSet(f, b)]
          /\ phase = "threading" /\ at = 1 /\ changed = FALSE
ThreadingNext == ThreadEdge \/ EndThreading \/ (Next /\ UNCHANGED left)
ThreadingSpec == ThreadingInit /\ [][ThreadingNext]_threadingVars
FairThreadingSpec == ThreadingSpec /\ WF_threadingVars(ThreadingNext)
=============================================================================
