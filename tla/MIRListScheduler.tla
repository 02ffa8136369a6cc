-------------------------- MODULE MIRListScheduler --------------------------
(***************************************************************************)
(* The list scheduler (MIRListSchedulerPass): in the stretches of a block  *)
(* between branches, calls and stores, what takes longest goes first.  The *)
(* only thing that keeps two instructions in order is a register one of    *)
(* them writes.  Before allocation the cost model is asked for each stretch. *)
(***************************************************************************)
EXTENDS MIR

CONSTANTS Window,        \* the longest stretch before allocation, 64 in the code
          PostRAWindow   \* and after it, 8

Latency(i) ==
    CASE i.op \in {"lmem", "lslot", "mul", "mulw"} -> 4
      [] i.op \in {"divu", "divw", "remw"} -> 12
      [] OTHER -> 1

IsSchedulable(i, postRA) ==
    /\ i.op \notin ConditionalOps \cup {"j", "call"}
    /\ ~MayStore(i)
    /\ IF postRA THEN i.op \notin {"lslot", "laddr"} ELSE \A r \in Defs(i) \cup Uses(i) : r >= 0

Depends(i, j) == \/ Defs(i) \cap (Uses(j) \cup Defs(j)) # {}
                 \/ Uses(i) \cap Defs(j) # {}

(* The length of the longest path from each instruction to the end.        *)
Heights(seq) ==
    FoldRight(LAMBDA k, h : [n \in DOMAIN h \cup {k} |->
                IF n # k THEN h[n]
                ELSE Latency(seq[k]) + Max({0} \cup {h[m] : m \in {x \in DOMAIN h : Depends(seq[k], seq[x])}})],
              [k \in DOMAIN seq |-> k], << >>)

(* One instruction after the other, each the best of those whose operands  *)
(* are there; if there are none, time passes.                              *)
NextPick(seq, heights, t) ==
    LET waits(k) == {m \in 1..(k - 1) : Depends(seq[m], seq[k])}
        ready == {k \in DOMAIN seq \ ToSet(t.order) : waits(k) \subseteq ToSet(t.order)}
        from(k) == Max({0} \cup {t.done[m] : m \in waits(k)})
        cycle == Max({t.cycle, Min({from(k) : k \in ready})})
        better(k, m) == \/ heights[k] > heights[m]
                        \/ heights[k] = heights[m] /\ Latency(seq[k]) > Latency(seq[m])
                        \/ heights[k] = heights[m] /\ Latency(seq[k]) = Latency(seq[m]) /\ k <= m
        open == {k \in ready : from(k) <= cycle}
        best == CHOOSE k \in open : \A m \in open : better(k, m)
    IN  [order |-> Append(t.order, best), cycle |-> cycle + 1,
         done |-> [n \in DOMAIN t.done \cup {best} |->
                      IF n = best THEN cycle + Latency(seq[best]) ELSE t.done[n]]]
AllowsSchedule(policy, saved, moved) == Allows(policy, 64, saved, 0, moved \div 8)

(* saved is against one instruction after the other, each to its end.      *)
Scheduled(seq, postRA, policy) ==
    IF Len(seq) < 3 THEN seq
    ELSE LET heights == Heights(seq)
             end == FoldLeft(LAMBDA t, k : NextPick(seq, heights, t),
                             [order |-> <<>>, cycle |-> 0, done |-> << >>], seq)
             saved == MapThenSumSet(LAMBDA k : Latency(seq[k]), DOMAIN seq) - Max({end.done[k] : k \in DOMAIN seq})
             moved == Cardinality({k \in DOMAIN seq : end.order[k] # k})
         IN  IF postRA \/ AllowsSchedule(policy, saved, moved)
             THEN [k \in DOMAIN seq |-> seq[end.order[k]]] ELSE seq

(* schedule_block: t is what is done and the stretch that is open.         *)
ScheduleBlock(body, postRA, policy) ==
    LET limit == IF postRA THEN PostRAWindow ELSE Window
        closed(t) == t.done \o Scheduled(t.open, postRA, policy)
        step(t, i) == CASE ~IsSchedulable(i, postRA) -> [done |-> Append(closed(t), i), open |-> <<>>]
                        [] IsSchedulable(i, postRA) /\ Len(t.open) = limit ->
                              [done |-> closed(t), open |-> <<i>>]
                        [] OTHER -> [t EXCEPT !.open = Append(@, i)]
    IN  closed(FoldLeft(step, [done |-> <<>>, open |-> <<>>], body))

HasCall(g) == \E i \in MachineInstrs(g) : i.op = "call"
Schedule(g, postRA, policy) ==
    IF postRA /\ HasCall(g) THEN g
    ELSE [g EXCEPT !.body = [b \in DOMAIN @ |-> ScheduleBlock(@[b], postRA, policy)]]
=============================================================================
