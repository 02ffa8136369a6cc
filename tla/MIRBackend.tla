----------------------------- MODULE MIRBackend -----------------------------
(***************************************************************************)
(* The back end from OIR to machine code, in the order of the pipeline     *)
(* (main/PipelineBuilder.cpp): lowering, the combiner, the peephole passes, *)
(* scheduling, register allocation, and the peephole passes and scheduling *)
(* again.  A step is one pass, or one round of the passes that go round    *)
(* until nothing changes.                                                  *)
(*                                                                         *)
(* Register allocation is module MIRRegAlloc; here it is any assignment    *)
(* that module can end with for a few orders of coloring, and at most one  *)
(* register is spilled.                                                    *)
(***************************************************************************)
EXTENDS OIRToMIR, MIRLayout, MIRListScheduler

CONSTANTS Programs,      \* functions of OIR with their number of parameters
          InputsOf(_),   \* what a function is run with
          Policies,      \* the policies of the cost model a compilation may have
          Scratch,       \* the physical register reloads and spills go through
          MaySpill(_, _, _) \* the registers allocation may spill: of a function,
                            \* under a policy, in its code

VARIABLES source,  \* the function compiled
          policy,  \* what its cost model goes by
          code,    \* the machine function
          stage,   \* the pass to come
          round    \* rounds the pass has made

vars == <<source, policy, code, stage, round>>

Nothing == [order |-> <<>>, body |-> << >>]

-----------------------------------------------------------------------------
(* What allocation makes of a function.                                    *)

LiveThrough(i, live) == (live \ PhysicalDefs(i)) \cup (Uses(i) \ {0})
LiveOuts(g) ==
    LET next(D) == [b \in DOMAIN D |-> UNION {FoldRight(LiveThrough, g.body[c], D[c]) : c \in Successors(g, b)}]
    IN  Repeated(2 * Len(g.order), [b \in ToSet(g.order) |-> {}], next)

(* A register loaded once from a constant is loaded again at each use, any *)
(* other has a slot.                                                       *)
ConstantOf(g, r) == IF DefsOf(g, r) # 1 THEN {} ELSE {i \in MachineInstrs(g) : i.d = <<r>> /\ i.op = "li"}
Spilled(g, r) ==
    LET again == ConstantOf(g, r)
        reload == IF again = {} THEN LoadSlot(Scratch, -r) ELSE LoadImm(Scratch, (CHOOSE i \in again : TRUE).k)
        to(x) == IF x = r THEN Scratch ELSE x
        with(i) == [i EXCEPT !.d = [n \in DOMAIN @ |-> to(@[n])], !.u = [n \in DOMAIN @ |-> to(@[n])]]
        rewritten(i) == IF r \in Defs(i) /\ again # {} THEN <<>>
                        ELSE (IF r \in Uses(i) THEN <<reload>> ELSE <<>>) \o <<with(i)>>
                             \o (IF r \in Defs(i) THEN <<StoreSlot(-r, Scratch)>> ELSE <<>>)
    IN  [g EXCEPT !.body = [b \in DOMAIN @ |-> FlattenSeq([k \in DOMAIN @[b] |-> rewritten(@[b][k])])]]

(* The sites of a function: an instruction and what is live after it.      *)
Sites(g) ==
    LET out == LiveOuts(g)
        after(b, k) == FoldRight(LiveThrough, SubSeq(g.body[b], k + 1, Len(g.body[b])), out[b])
    IN  UNION {{[i |-> g.body[b][k], live |-> after(b, k)] : k \in DOMAIN g.body[b]} : b \in ToSet(g.order)}
Meets(s, v, w) == v \in Defs(s.i) /\ w \in s.live /\ ~(IsMove(s.i) /\ s.i.u[1] = w)
Colliding(sites, v) ==
    {w \in UNION {Defs(s.i) \cup s.live \cup Uses(s.i) : s \in sites} \ {v} :
        \E s \in sites : Meets(s, v, w) \/ Meets(s, w, v) \/ {v, w} \subseteq Uses(s.i)}
TakenAway(sites, v) == IF \E s \in sites : s.i.op = "call" /\ v \in s.live THEN CallerSaved ELSE {}
Wished(sites, v) ==
    UNION {IF ~IsMove(s.i) THEN {} ELSE IF v \in Defs(s.i) THEN Uses(s.i)
           ELSE IF v \in Uses(s.i) THEN Defs(s.i) ELSE {} : s \in sites}

(* The registers in colors where they have one.                            *)
Seen(colors, r) == IF r \in DOMAIN colors THEN colors[r] ELSE r
FreeFor(sites, colors, v) ==
    LET taken == TakenAway(sites, v) \cup {Seen(colors, w) : w \in Colliding(sites, v)}
    IN  SelectSeq(Palette, LAMBDA p : p \notin taken)
ChosenFrom(free, wished, Best(_)) ==
    LET wish == wished \cap ToSet(free) IN IF wish # {} THEN Best(wish) ELSE free[1]
Colored(g, order, Best(_)) ==
    LET sites == Sites(g)
        color(c, v) == ChosenFrom(FreeFor(sites, c, v), {Seen(c, w) : w \in Wished(sites, v)}, Best)
        colors == FoldLeft(LAMBDA c, v : c @@ (v :> color(c, v)), << >>, order)
    IN  [g EXCEPT !.body = [b \in DOMAIN @ |-> [k \in DOMAIN @[b] |->
            [@[b][k] EXCEPT !.d = [n \in DOMAIN @ |-> Seen(colors, @[n])],
                            !.u = [n \in DOMAIN @ |-> Seen(colors, @[n])]]]]]

VirtualRegisters(g) == {r \in Registers(g) : Virtual(r)}
RECURSIVE Ascending(_)
Ascending(S) == IF S = {} THEN <<>> ELSE <<Min(S)>> \o Ascending(S \ {Min(S)})
Allocations(g) ==
    UNION {{Colored(h, Ascending(VirtualRegisters(h)), Max), Colored(h, Reverse(Ascending(VirtualRegisters(h))), Min)} :
           h \in {g} \cup {Spilled(g, r) : r \in MaySpill(source, policy, g)}}

-----------------------------------------------------------------------------
(* The passes.                                                             *)

(* In the code, a round that says nothing changed is the last one.         *)
Rounds(limit, result, next) ==
    /\ code' = result
    /\ IF code' = code \/ round + 1 = limit
       THEN stage' = next /\ round' = 0
       ELSE stage' = stage /\ round' = round + 1
    /\ UNCHANGED <<source, policy>>

Lower ==
    /\ stage = "lower"
    /\ code' = LowerFunction(source.code, source.params)
    /\ stage' = "combine"
    /\ UNCHANGED <<source, policy, round>>

CombineRound(g) ==
    After(After(After(After(After(g, CombineImmediates), CombineCompareBranches),
                      CombineRemZeroBranches), CombineBitIdioms), CombineDeadDefs)
Combine == stage = "combine" /\ Rounds(8, CombineRound(code), "peephole")

Peephole ==
    \/ stage = "peephole" /\ Rounds(6, PeepholeRound(code, FALSE, policy), "layout")
    \/ stage = "postra peephole" /\ Rounds(6, PeepholeRound(code, TRUE, policy), "postra layout")
Layout ==
    \/ stage = "layout" /\ Rounds(1, PeepholeEnd(code, FALSE), "schedule")
    \/ stage = "postra layout" /\ Rounds(1, PeepholeEnd(code, TRUE), "postra schedule")

ScheduleCode ==
    \/ stage = "schedule" /\ Rounds(1, Schedule(code, FALSE, policy), "allocate")
    \/ stage = "postra schedule" /\ Rounds(1, Schedule(code, TRUE, policy), "done")

Allocate == stage = "allocate" /\ \E g \in Allocations(code) : Rounds(1, g, "postra peephole")

Init ==
    /\ source \in Programs
    /\ policy \in Policies
    /\ code = Nothing
    /\ stage = "lower"
    /\ round = 0
Next == Lower \/ Combine \/ Peephole \/ Layout \/ ScheduleCode \/ Allocate
Spec == Init /\ [][Next]_vars

-----------------------------------------------------------------------------
(* What each function shows, worked out once.                              *)
Expected == [f \in Programs |-> [in \in InputsOf(f) |-> Run(f.code, in)]]

(* Every pass leaves a machine function that shows the calls and the       *)
(* result of the source: the copies on the edges, the shorter arithmetic,  *)
(* the code motion, the layout and the allocation cannot be told from it.  *)
SameBehaviour ==
    stage = "lower" \/ \A in \in InputsOf(source) : Indistinguishable(Expected[source][in], MachineRun(code, in))
=============================================================================
