---------------------------- MODULE OIRPipeline ----------------------------
(***************************************************************************)
(* A stretch of the optimization pipeline                                  *)
(* (run_aggressive_iteration of src/pass/oir/                              *)
(* OIROptimizationPipelinePass.cpp) over one function: value numbering,    *)
(* loads of what is known, dead stores, loop invariant code motion, what   *)
(* nothing needs, jump threading and, as in the pass of that name, the     *)
(* cleanup of the graph.  Each takes the code as the one before has left   *)
(* it.  The passes of the pipeline in between are left out.                *)
(***************************************************************************)
EXTENDS OIRJumpThreading, OIRRedundancy, OIRDeadStores, OIRLICM

CONSTANT MemoryPrograms   \* the functions given to the whole stretch

pipelineVars == <<threadingVars, loops>>

-----------------------------------------------------------------------------
(* A pass that changes instructions and no block.                          *)
Rewrites(from, to, fn) ==
    /\ phase = from /\ phase' = to
    /\ \E h \in {fn} : f' = h
    /\ UNCHANGED <<preds, succs, original, at, changed, left>>

GlobalValueNumbering == Rewrites("gvn", "loads", NumberValues(f)) /\ UNCHANGED loops
DeadLoads == Rewrites("loads", "stores", EliminateDeadLoads(f)) /\ UNCHANGED loops
(* A pass that does not end is never over.                                 *)
DeadStores ==
    /\ phase = "stores" /\ DeadStoresEnd(f)
    /\ Rewrites("stores", "licm", EliminateDeadStores(f))
    /\ \E q \in SmallestFirst(NaturalLoops(f)) : loops' = q
InvariantMotion == (MakePreheader \/ HoistSweep \/ LeaveLoop) /\ UNCHANGED left
AggressiveElimination ==
    /\ loops = <<>>
    /\ Rewrites("licm", "threading", EliminateAggressively(f)) /\ UNCHANGED loops

PipelineInit ==
    /\ loops = <<>>
    /\ \/ ThreadingInit
       \/ /\ f \in MemoryPrograms /\ original = f
          /\ preds = [b \in Blocks(f) |-> Predecessors(f, b)]
          /\ succs = [b \in Blocks(f) |-> SuccessorSet(f, b)]
          /\ phase = "gvn" /\ at = 1 /\ changed = FALSE /\ left = MaxIterations
PipelineNext ==
    \/ GlobalValueNumbering \/ DeadLoads \/ DeadStores \/ InvariantMotion \/ AggressiveElimination
    \/ ThreadingNext /\ UNCHANGED loops
PipelineSpec == PipelineInit /\ [][PipelineNext]_pipelineVars

(* The compiler goes on until it is done or in a pass that does not end:   *)
(* weak fairness of PipelineNext, with what ENABLED comes to written out.  *)
GoesOn == \/ []<>(phase = "done" \/ (phase = "stores" /\ ~DeadStoresEnd(f)))
          \/ []<><<TRUE>>_pipelineVars
GoingSpec == PipelineSpec /\ GoesOn
(* With the fairness of the passes of several steps stated as such.        *)
FairPipelineSpec == GoingSpec /\ WF_pipelineVars(ThreadingNext /\ UNCHANGED loops)

-----------------------------------------------------------------------------
(* Properties.                                                             *)

(* Every function is compiled in the end, into one that behaves the same.  *)
CompilesRight == <>(phase = "done" /\ SameBehaviour)
=============================================================================
