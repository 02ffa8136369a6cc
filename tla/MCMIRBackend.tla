---------------------------- MODULE MCMIRBackend ----------------------------
(* Functions of two parameters, the values 1 and 2.  The values of block b *)
(* are 10b and on; 3 to 7 are the cells of memory.                         *)
EXTENDS MIRBackend, TLC

MCArgRegs == <<-1, -2>>
MCPalette == <<-1, -2, -3, -4, -5, -6, -7, -8, -9, -10, -11, -12>>
MCCallerSaved == {-1, -2, -3, -4}
MCScratch == -20
MCPolicies == {Conservative, Balanced, Aggressive}

A == Val(1)
B == Val(2)
Fun(blocks) == [code |-> [order |-> [n \in DOMAIN blocks |-> n], body |-> [n \in DOMAIN blocks |-> blocks[n]]],
                params |-> 2]
Call2(id, a, b) == Instr("call", id, W, <<a, b>>, <<>>)

(* One operation by each constant. *)
ByConstant ==
    {Fun(<<<<Binary(op, 10, A, Const(c)), Ret(Val(10))>>>>) :
        op \in {"mul", "sdiv", "srem"}, c \in (-(2^(W - 1))..(2^(W - 1) - 1)) \ {0}}

(* A diamond. *)
Diamonds ==
    {Fun(<<<<Cmp(op, 10, A, x), CondBr(Val(10), 2, 3)>>,
           <<Binary("add", 20, A, Const(7)), Call(21, Val(20)), Br(4)>>,
           <<Binary("sub", 30, A, B), Br(4)>>,
           <<Phi(40, <<Val(20), Val(30)>>, <<2, 3>>), Phi(41, <<A, B>>, <<2, 3>>),
             Binary(g, 42, Val(40), Val(41)), Ret(Val(42))>>>>) :
        op \in CmpOps, x \in {B, Const(0)}, g \in {"and", "or", "sub"}}
Triangles ==
    {Fun(<<<<Binary("srem", 10, A, Const(2)), Cmp(op, 11, Val(10), Const(0)), CondBr(Val(11), 2, 3)>>,
           <<Call(20, Val(10)), Br(3)>>,
           <<Phi(30, <<x, Val(20)>>, <<1, 2>>), Phi(31, <<A, B>>, <<1, 2>>), Call(32, Val(31)), Ret(Val(30))>>>>) :
        op \in {"eq", "ne"}, x \in {A, Val(10), Const(5)}}

(* A loop whose phis pass their values round, counted down. *)
Loops2 ==
    {Fun(<<<<Binary("and", 10, B, Const(3)), Br(2)>>,
           <<Phi(20, <<A, x>>, <<1, 3>>), Phi(21, <<B, y>>, <<1, 3>>), Phi(22, <<Val(10), Val(30)>>, <<1, 3>>),
             Cmp("lt", 23, Const(0), Val(22)), CondBr(Val(23), 3, 4)>>,
           <<Binary("sub", 30, Val(22), Const(1)), Binary("add", 31, Val(20), Val(21)), Br(2)>>,
           <<Call2(40, Val(20), Val(21)), Ret(Val(20))>>>>) :
        x \in {Val(21), Val(20), Val(31)}, y \in {Val(20), Val(31), Val(22)}}
SelfLoops ==
    {Fun(<<<<Cmp("lt", 10, A, B), CondBr(Val(10), 2, 3)>>,
           <<Phi(20, <<A, x>>, <<1, 2>>), Phi(21, <<B, y>>, <<1, 2>>), Phi(22, <<Const(2), Val(23)>>, <<1, 2>>),
             Binary("add", 23, Val(22), Const(-1)), Binary(op, 24, Val(20), Const(2)),
             Cmp("ne", 25, Val(23), Const(0)), CondBr(Val(25), 2, 3)>>,
           <<Phi(30, <<A, Val(20)>>, <<1, 2>>), Phi(31, <<A, Val(24)>>, <<1, 2>>), Binary("xor", 32, Val(30), Val(31)), Ret(Val(32))>>>>) :
        x \in {Val(21), Val(24)}, y \in {Val(20), Val(23)}, op \in {"mul", "add"}}


(* A loop of divisions by what does not change in it, counted down, with a *)
(* call in it or without one.                                              *)
DivisionLoop(d, x, after) ==
    Fun(<<<<Binary("and", 10, B, Const(3)), Br(2)>>,
          <<Phi(20, <<A, Val(31)>>, <<1, 3>>), Phi(22, <<Val(10), Val(33)>>, <<1, 3>>),
            Cmp("lt", 23, Const(0), Val(22)), CondBr(Val(23), 3, 4)>>,
          <<Binary("sdiv", 30, Val(20), d), Binary("sdiv", 31, x, d), Binary("mul", 32, B, d),
            Binary("sub", 33, Val(22), Const(1))>> \o after \o <<Br(2)>>,
          <<Binary("add", 40, Val(20), Val(22)), Ret(Val(40))>>>>)
Divisions == {DivisionLoop(d, x, <<Call(34, Val(32))>>) : d \in {A, B, Val(10)}, x \in {Val(30), A, Val(22)}}
Reductions == {DivisionLoop(d, Val(30), <<>>) : d \in {B, Val(10)}}

(* A loop in a loop, with memory. *)
Nests ==
    {Fun(<<<<Alloca(3), Alloca(4), Store(A, Val(3)), Br(2)>>,
           <<Phi(20, <<Const(2), Val(50)>>, <<1, 5>>), Store(Val(20), Val(c)), Br(3)>>,
           <<Phi(30, <<B, Val(40)>>, <<2, 4>>), Cmp("lt", 31, Val(30), Const(2)), CondBr(Val(31), 4, 5)>>,
           <<Load(41, Val(3)), Binary("mul", 42, A, Const(3)), Binary("add", 43, Val(41), Val(42)),
             Store(Val(43), Val(d)), Binary("add", 40, Val(30), Const(2)), Br(3)>>,
           <<Binary("sub", 50, Val(20), Const(1)), Cmp("eq", 51, Val(50), Const(0)), CondBr(Val(51), 6, 2)>>,
           <<Load(60, Val(3)), Load(61, Val(c)), Call2(62, Val(60), Val(61)), Ret(Val(62))>>>>) :
        c \in {3, 4}, d \in {3, 4}}

(* Calls with two arguments, one after the other. *)
TwoCalls(x, y, z, w) ==
    Fun(<<<<Binary("add", 10, A, Const(1)), Call2(11, x, y), Binary("mul", 12, A, B), Call2(13, z, Val(11)),
            Binary("add", 14, Val(12), w), Ret(Val(14))>>>>)
Calls == {TwoCalls(x, y, z, w) : x \in {A, B, Val(10)}, y \in {A, Const(2)}, z \in {A, B}, w \in {Val(13), Val(10)}}

(* A stretch before a call that is sooner done in another order, and one *)
(* after it that is not, though the scheduler would change it.           *)
Stretches ==
    {Fun(<<<<Binary("mul", 10, A, B), Binary("add", 11, Val(10), Const(1)), Binary("add", 12, A, Const(3)),
             Call2(13, Val(11), Val(12)),
             Binary("add", 14, A, B), Binary("and", 15, B, Val(13)), Binary("xor", 16, Val(15), A),
             Binary("sub", 17, Val(14), Val(16)), Ret(Val(17))>>>>)}

MCPrograms ==
    UNION {ByConstant, Diamonds, Triangles, Loops2, SelfLoops, Divisions, Reductions, Nests, Calls, Stretches}
MCInputs(f) == {[args |-> (1 :> a) @@ (2 :> b), answers |-> <<2, -3>>, mem |-> <<>>] : a \in {-8, -3, 5}, b \in {0, 3, -1}}

(* Spilled, each in turn and under one policy: every register of a function, *)
(* but of a reciprocal those the loop reads.                               *)
Carried(g) == UNION {Defs(i) : i \in ToSet(g.body[1])} \cap UNION {Uses(i) : i \in ToSet(g.body[3])}
MCMaySpill(f, p, g) ==
    IF p # Balanced \/ f \in ByConstant THEN {}
    ELSE IF f \in Reductions THEN {r \in Carried(g) : r > LongTemp} ELSE VirtualRegisters(g)

-----------------------------------------------------------------------------
(* The products of a division by a constant, spilled. *)
SpilledProducts == {Fun(<<<<Binary("sdiv", 10, A, Const(c)), Ret(Val(10))>>>>) : c \in {3, 5}}
AnySpill(f, p, g) == VirtualRegisters(g)

(* One sum in both arguments of a call. *)
TwiceTheSum ==
    {Fun(<<<<Binary("add", 10, A, Const(1)), Call2(11, Val(10), Val(10)), Call2(13, Val(11), A), Ret(Val(13))>>>>)}

Miscompiled == SpilledProducts \cup TwiceTheSum
=============================================================================
