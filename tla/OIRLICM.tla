------------------------------ MODULE OIRLICM ------------------------------
(***************************************************************************)
(* Loop invariant code motion (src/pass/oir/OIRLICMPass.cpp).  The natural *)
(* loops are found once for a function and taken smallest first.  Each is  *)
(* given a block that is entered before it, and what computes the same     *)
(* every time round is moved to the end of that block.  The blocks of a    *)
(* loop are those found at the start: a block made for an inner loop is    *)
(* not one of the outer loop.                                              *)
(***************************************************************************)
EXTENDS OIRCFGCleanup

VARIABLE loops   \* the loops still to be taken, in turn

-----------------------------------------------------------------------------
(* Natural loops (LoopInfo of OIRAnalysis.cpp), one for each head.         *)

BackEdges(fn) == {e \in Blocks(fn) \X Blocks(fn) : e[2] \in SuccessorSet(fn, e[1]) /\ Dominates(fn, e[2], e[1])}
NaturalLoop(fn, latch, head) ==
    Through(LAMBDA S, k : S \cup UNION {Predecessors(fn, b) : b \in S \ {head}},
            {head, latch}, fn.order)
NaturalLoops(fn) ==
    {[head |-> h, blocks |-> UNION {NaturalLoop(fn, e[1], h) : e \in {d \in BackEdges(fn) : d[2] = h}}] :
        h \in {e[2] : e \in BackEdges(fn)}}
SmallestFirst(S) ==
    {q \in SetToSeqs(S) : \A j, k \in DOMAIN q : j < k => Cardinality(q[j].blocks) <= Cardinality(q[k].blocks)}

-----------------------------------------------------------------------------
(* The block before a loop.                                                *)

Outside(loop) == preds[loop.head] \ loop.blocks
Preheader(loop) == {p \in Outside(loop) : Outside(loop) = {p} /\ succs[p] = {loop.head}}

PreheaderName(loop) == loop.head \o ".pre"
EntersFrom(loop, i) == SelectSeq([k \in DOMAIN i.to |-> k], LAMBDA k : i.to[k] \in Outside(loop))
NeedsPhi(loop, i) == Cardinality({i.args[k] : k \in ToSet(EntersFrom(loop, i))}) > 1
(* What the new block hands a phi of the head, if need be by a phi.        *)
PreheaderPhi(loop, i) ==
    [i EXCEPT !.id = @ + Max(Ids(f)),
              !.args = [n \in DOMAIN EntersFrom(loop, i) |-> i.args[EntersFrom(loop, i)[n]]],
              !.to = [n \in DOMAIN EntersFrom(loop, i) |-> i.to[EntersFrom(loop, i)[n]]]]
Handed(loop, i) ==
    IF NeedsPhi(loop, i) THEN Val(PreheaderPhi(loop, i).id) ELSE i.args[EntersFrom(loop, i)[1]]

\* Mutant: the new block hands every phi of the head what came first.
WithPreheader_FirstValue(loop) ==
    LET head == loop.head  pre == PreheaderName(loop)
        block == <<Br(head)>>
        entered(i) == LET rest == WithoutIncomingFrom(i, Outside(loop)) IN
                      [rest EXCEPT !.args = Append(@, i.args[EntersFrom(loop, i)[1]]), !.to = Append(@, pre)]
        redirected(i) == IF i.op = "br" THEN [i EXCEPT !.to = Retarget(@, head, pre)] ELSE i
    IN  [f |-> [order |-> Append(f.order, pre),
                body |-> (pre :> block) @@ [b \in DOMAIN f.body |-> [k \in DOMAIN f.body[b] |->
                    CASE b = head /\ IsPhi(f.body[b][k]) -> entered(f.body[b][k])
                      [] b \in Outside(loop) -> redirected(f.body[b][k])
                      [] OTHER -> f.body[b][k]]]],
         preds |-> (pre :> Outside(loop)) @@ [preds EXCEPT ![head] = (@ \ Outside(loop)) \cup {pre}],
         succs |-> (pre :> {head}) @@ [b \in DOMAIN succs |->
                     IF b \in Outside(loop) THEN (succs[b] \ {head}) \cup {pre} ELSE succs[b]]]
WithPreheader(loop) ==
    LET head == loop.head  pre == PreheaderName(loop)
        phis == SelectSeq(Phis(f, head), LAMBDA i : NeedsPhi(loop, i))
        block == [k \in DOMAIN phis |-> PreheaderPhi(loop, phis[k])] \o <<Br(head)>>
        entered(i) == LET rest == WithoutIncomingFrom(i, Outside(loop)) IN
                      [rest EXCEPT !.args = Append(@, Handed(loop, i)), !.to = Append(@, pre)]
        redirected(i) == IF i.op = "br" THEN [i EXCEPT !.to = Retarget(@, head, pre)] ELSE i
    IN  [f |-> [order |-> Append(f.order, pre),
                body |-> (pre :> block) @@ [b \in DOMAIN f.body |-> [k \in DOMAIN f.body[b] |->
                    CASE b = head /\ IsPhi(f.body[b][k]) -> entered(f.body[b][k])
                      [] b \in Outside(loop) -> redirected(f.body[b][k])
                      [] OTHER -> f.body[b][k]]]],
         preds |-> (pre :> Outside(loop)) @@ [preds EXCEPT ![head] = (@ \ Outside(loop)) \cup {pre}],
         succs |-> (pre :> {head}) @@ [b \in DOMAIN succs |->
                     IF b \in Outside(loop) THEN (succs[b] \ {head}) \cup {pre} ELSE succs[b]]]

-----------------------------------------------------------------------------
(* What is the same every time round.  A load is if no store or call of    *)
(* the loop may write what it reads, a call if it reads no memory and has  *)
(* no effect.                                                              *)

InLoop(loop) == UNION {ToSet(f.body[b]) : b \in loop.blocks}
\* Mutant: a call in the loop writes nothing.
MayClobber_StoresOnly(inside, p) == \E i \in inside : i.op = "store" /\ Alias(f, p, i.args[2]) # "no"
MayClobber(inside, p) ==
    \E i \in inside : \/ i.op = "store" /\ Alias(f, p, i.args[2]) # "no"
                      \/ i.op = "call" /\ CallMayClobber(f, i, p)
IsCandidate(inside, i) ==
    CASE i.op \in {"sdiv", "srem"} -> IsConst(i.args[2]) /\ i.args[2][2] # 0
      [] i.op = "load" -> PointsToConstant(f, i.args[1]) \/ ~MayClobber(inside, i.args[1])
      [] i.op = "call" -> ~HasSideEffect(i) /\ ~MayRead(i)
      [] OTHER -> i.op \in BinaryOps \cup CmpOps \cup {"gep", "zext"}
IsInvariant(inside, i) ==
    /\ \A j \in inside : j.id = 0 \/ Val(j.id) \notin ToSet(i.args)
    /\ IsCandidate(inside, i)
Invariants(loop) ==
    The({FlattenSeq([k \in DOMAIN f.order |->
            IF f.order[k] \in loop.blocks THEN SelectSeq(f.body[f.order[k]], LAMBDA i : IsInvariant(inside, i))
            ELSE <<>>]) : inside \in {InLoop(loop)}})

-----------------------------------------------------------------------------
Current == Head(loops)

MakePreheader ==
    /\ phase = "licm" /\ loops # <<>> /\ Preheader(Current) = {}
    /\ Becomes(WithPreheader(Current))
    /\ UNCHANGED <<original, phase, at, changed, loops>>

(* All that is invariant now moves; what used it may be invariant next.    *)
HoistSweep ==
    /\ phase = "licm" /\ loops # <<>>
    /\ \E p \in Preheader(Current), moving \in {Invariants(Current)} :
          /\ moving # <<>>
          /\ f' = [f EXCEPT !.body = [b \in DOMAIN @ |->
                     CASE b = p -> Front(@[b]) \o moving \o <<Last(@[b])>>
                       [] b \in Current.blocks -> SelectSeq(@[b], LAMBDA i : i \notin ToSet(moving))
                       [] OTHER -> @[b]]]
    /\ UNCHANGED <<preds, succs, original, phase, at, changed, loops>>

LeaveLoop ==
    /\ phase = "licm" /\ loops # <<>>
    /\ Preheader(Current) # {} /\ Invariants(Current) = <<>>
    /\ loops' = Tail(loops)
    /\ UNCHANGED vars
=============================================================================
