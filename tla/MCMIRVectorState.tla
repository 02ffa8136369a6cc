-------------------------- MODULE MCMIRVectorState --------------------------
(* Functions of two to four blocks: straight lines, diamonds, loops stored *)
(* in either order, and an unreachable block.  3 lanes of one type fit     *)
(* where 2 of the other do; 1 is a register that is asked for, 2 the       *)
(* result of a set.                                                        *)
EXTENDS MIRVectorState, TLC

MCVTypes == {"e32", "e64"}
MCVLMax == [t \in MCVTypes |-> IF t = "e32" THEN 4 ELSE 2]

Set3 == SetOf(Zero, Imm(3), "e32", "ta", "ma", None)
Set1 == SetOf(Spare, Imm(1), "e32", "ta", "ma", None)
SetWide == SetOf(Spare, Imm(3), "e64", "ta", "ma", None)
SetReg == SetOf(Spare, Reg(1), "e32", "ta", "ma", None)
SetRead == SetOf(2, Reg(1), "e32", "ta", "ma", None)
SetAll == SetOf(Spare, AllLanes, "e32", "ta", "ma", None)
Undisturbed == PolicySet("e32", "tu", "mu", None)
TailOnly == PolicySet("e32", "tu", "ma", None)
WidePolicy == PolicySet("e64", "ta", "ma", None)
Vector(vtype, tail, mask, id) == [op |-> "vector", vtype |-> vtype, tail |-> tail, mask |-> mask, id |-> id]
V == Vector("e32", "ta", "ma", None)
VU == Vector("e32", "tu", "mu", None)
VW == Vector("e64", "ta", "ma", None)
Def1 == [op |-> "def", r |-> 1]
Use2 == [op |-> "use", r |-> 2]
CallIt == [op |-> "call", r |-> Zero]

Function(order, blocks, succ) == [order |-> order, body |-> blocks, succ |-> succ]

Starts == {<<>>, <<Set3>>, <<Def1, SetReg>>, <<SetAll, VW>>, <<Set3, VU>>}
Sides == {<<>>, <<Undisturbed>>, <<TailOnly, Vector("e32", "tu", "ma", None)>>, <<Set1>>, <<Set3, V>>, <<SetWide, VW>>, <<CallIt>>, <<VU>>, <<WidePolicy>>}
Joins == {<<V>>, <<VU>>, <<VW, V>>, <<Set3, V>>, <<SetAll, V, SetAll, V>>}

Diamond == <<{2, 3}, {4}, {4}, {}>>
Diamonds == {Function(<<1, 2, 3, 4>>, <<s, l, r, j>>, Diamond) : s \in Starts, l \in Sides, r \in Sides, j \in Joins}

(* A loop: entered through block 4, which may be stored last.              *)
LoopEdges == <<{4}, {2, 3}, {}, {2}>>
LoopBodies == {<<V>>, <<VU>>, <<VW>>, <<V, VU>>, <<SetReg, V>>, <<Set3, V, Undisturbed, VU>>, <<V, CallIt>>, <<V, Set1>>, <<VW, Set3, V>>}
Loops == {Function(o, <<<<Def1>> \o s, l, e, p>>, LoopEdges) :
            o \in {<<1, 4, 2, 3>>, <<1, 2, 3, 4>>}, s \in {<<>>, <<Set3>>, <<SetReg>>},
            l \in LoopBodies, e \in {<<V>>, <<SetReg, V>>}, p \in {<<>>, <<Set3>>, <<SetAll>>, <<SetReg>>, <<VU>>}}

(* A loop that asks for a new length each time, and for the rest after it. *)
Mined == {Function(<<1, 2, 3>>, <<s, <<Def1>> \o l, <<Use2>> \o e>>, <<{2}, {2, 3}, {}>>) :
            s \in {<<>>, <<Set3>>, <<SetAll, V>>},
            l \in {<<SetRead, V, SetRead, V>>, <<SetRead, VW, SetReg, VW>>, <<SetReg, V, SetRead, VU, V>>, <<SetReg, VU, Use2, SetReg, VU>>},
            e \in {<<V>>, <<SetReg, V>>, <<VU>>, <<SetOf(Spare, Reg(2), "e32", "ta", "ma", None), V>>}}

(* Names that were given before, and a block no path leads to.             *)
Persisted == {Function(<<1, 3, 2>>, <<<<[Set3 EXCEPT !.id = <<"given", 41>>]>>, <<Vector("e32", "ta", "ma", id)>>, u>>, <<{2}, {}, {2}>>) :
                id \in {None, <<"given", 41>>, <<"given", 42>>}, u \in {<<Set1>>, <<>>, <<V>>}}

(* A length no immediate can ask for again under another type.             *)
TooLong == {Function(<<1, 2>>, <<<<[Set3 EXCEPT !.avl = Imm(n)], V>>, <<VW>>>>, <<{2}, {}>>) : n \in {31, 32}}

MCPrograms == UNION {Diamonds, Loops, Mined, Persisted, TooLong}
=============================================================================
