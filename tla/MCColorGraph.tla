----------------------------- MODULE MCColorGraph -----------------------------
(* Every graph on four nodes with two colors (two forbidden-set patterns per
   node pair, two cost orders), and with move preferences on a path. *)
EXTENDS ColorGraph, TLC

CONSTANTS r1, r2, r3    \* r3 is reserved: a move may name it, the palette does not

MCPalette == <<r1, r2>>
MCRegisters == {r1, r2, r3}
MCNodes == 1 .. 4
Pairs == {e \in SUBSET MCNodes : Cardinality(e) = 2}

MCForbidden == {[n \in MCNodes |-> IF n = 1 THEN f ELSE IF n = 3 THEN g ELSE {}] :
                  f \in {{}, {r1}, {r1, r3}}, g \in {{}, {r2}, {r1, r2}}}
MCCosts == {[n \in MCNodes |-> n], [n \in MCNodes |-> 5 - n], [n \in MCNodes |-> 1]}
MCPhys == {[n \in MCNodes |-> << >>], [n \in MCNodes |-> IF n = 2 THEN <<r3, r2>> ELSE << >>]}
MCVirt == {[n \in MCNodes |-> << >>],
           [n \in MCNodes |-> IF n = 1 THEN <<4, 3>> ELSE IF n \in {3, 4} THEN <<1>> ELSE << >>]}

MCProblems ==
  {[nodes |-> MCNodes,
    adj |-> [n \in MCNodes |-> {m \in MCNodes : m # n /\ {n, m} \in edges}],
    forbidden |-> forbidden, cost |-> cost, phys |-> phys, virt |-> virt] :
      edges \in SUBSET Pairs, forbidden \in MCForbidden, cost \in MCCosts,
      phys \in MCPhys, virt \in MCVirt}
=============================================================================
