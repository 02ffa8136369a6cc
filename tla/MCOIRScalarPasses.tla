-------------------------- MODULE MCOIRScalarPasses --------------------------
(* Families of small functions for constant propagation and value ranges:  *)
(* value 1 is the argument of each.                                        *)
EXTENDS OIRScalarPasses, TLC

Least == -(2^(W - 1))

(* Two arms and a join.                                                    *)
Diamond(op1, x, y, k, op2, z, op3) ==
    [order |-> <<"entry", "then", "join">>,
     body |-> [b \in {"entry", "then", "join"} |->
        CASE b = "entry" -> <<Binary(op1, 3, x, y), Cmp("eq", 4, Val(3), k),
                              CondBr(Val(4), "then", "join")>>
          [] b = "then" -> <<Binary(op2, 5, Val(3), z), Br("join")>>
          [] b = "join" -> <<Phi(6, <<Val(5), z>>, <<"then", "entry">>),
                             Binary(op3, 7, Val(6), k), Ret(Val(7))>>]]

(* A loop in which a value keeps its constant only if the arm that changes *)
(* it is never entered, with the latch before or after that arm.           *)
Loop(order, start, cmp, k, op, z) ==
    [order |-> order,
     body |-> [b \in ToSet(order) |->
        CASE b = "entry" -> <<Br("head")>>
          [] b = "head" -> <<Phi(2, <<start, Val(6)>>, <<"entry", "latch">>),
                             Phi(3, <<Const(0), Val(7)>>, <<"entry", "latch">>),
                             Cmp(cmp, 4, Val(2), k), CondBr(Val(4), "arm", "latch")>>
          [] b = "arm" -> <<Binary(op, 5, Val(2), z), Br("latch")>>
          [] b = "latch" -> <<Phi(6, <<Val(2), Val(5)>>, <<"head", "arm">>),
                              Binary("add", 7, Val(3), Const(1)),
                              Cmp("lt", 8, Val(7), Const(2)), CondBr(Val(8), "head", "exit")>>
          [] b = "exit" -> <<Call(9, Val(6)), Binary("mul", 10, Val(9), Val(2)), Ret(Val(10))>>]]
Orders == {<<"entry", "head", "arm", "latch", "exit">>, <<"entry", "latch", "exit", "head", "arm">>}

(* A loop whose product has a factor that is unknown when first met: a     *)
(* variable without an initial value, assigned in the loop and used from   *)
(* its second round on.                                                    *)
LateZero(z) ==
    [order |-> <<"entry", "head", "use", "latch", "exit">>,
     body |-> [b \in {"entry", "head", "use", "latch", "exit"} |->
        CASE b = "entry" -> <<Br("head")>>
          [] b = "head" -> <<Phi(2, <<Undef, Val(5)>>, <<"entry", "latch">>),
                             Phi(6, <<Const(0), Val(7)>>, <<"entry", "latch">>),
                             Binary("mul", 3, Val(1), Val(2)), Cmp("lt", 4, Const(0), Val(6)),
                             CondBr(Val(4), "use", "latch")>>
          [] b = "use" -> <<Call(8, Val(3)), Br("latch")>>
          [] b = "latch" -> <<Binary("sub", 5, z, z), Binary("add", 7, Val(6), Const(1)),
                              Cmp("lt", 9, Val(7), Const(3)), CondBr(Val(9), "head", "exit")>>
          [] b = "exit" -> <<Binary("add", 10, Val(5), Val(7)), Ret(Val(10))>>]]

(* A condition of two comparisons, one of them constant.                   *)
Conjunction(op, a, b, z) ==
    [order |-> <<"entry", "yes", "no">>,
     body |-> [c \in {"entry", "yes", "no"} |->
        CASE c = "entry" -> <<Cmp("lt", 2, Val(1), Const(1)), Cmp("le", 3, a, b),
                              Instr(op, 4, 1, <<Val(2), Val(3)>>, <<>>), ZExt(5, Val(3)),
                              CondBr(Val(4), "yes", "no")>>
          [] c = "yes" -> <<Br("no")>>
          [] c = "no" -> <<Phi(6, <<Val(5), z>>, <<"entry", "yes">>), Ret(Val(6))>>]]

Operands == {Val(1), Undef, Const(0), Const(-1)}
Functions ==
    {Diamond(op1, x, y, Const(k), op2, z, "add") :
        op1 \in {"add", "mul", "and", "sdiv", "srem"}, x \in {Val(1), Const(Least), Const(1)},
        y \in {Const(-1), Const(0), Const(1)}, k \in {0, 1}, op2 \in {"sub"}, z \in Operands}
    \cup {Loop(order, s, cmp, k, op, z) :
        order \in Orders, s \in {Val(1), Const(1), Undef}, cmp \in {"ne", "lt"},
        k \in {Const(1), Val(3)}, op \in {"xor", "sdiv"}, z \in {Const(0), Const(-1), Val(3)}}
    \cup {LateZero(z) : z \in {Val(1), Const(2)}}
    \cup {Conjunction(op, a, b, z) :
        op \in {"and", "xor"}, a \in {Val(1), Const(0)}, b \in {Const(-1), Const(0)}, z \in Operands}

(* One arm of a conditional computes an "or", which the front end emits    *)
(* for "|"; promoting variables and inlining make its operands constants.  *)
OrInArm(x, y, z) ==
    [order |-> <<"entry", "then", "join">>,
     body |-> [b \in {"entry", "then", "join"} |->
        CASE b = "entry" -> <<Cmp("lt", 2, Val(1), Const(1)), CondBr(Val(2), "then", "join")>>
          [] b = "then" -> <<Binary("or", 3, x, y), Br("join")>>
          [] b = "join" -> <<Phi(4, <<Val(3), z>>, <<"then", "entry">>), Ret(Val(4))>>]]
FunctionsWithOr ==
    {OrInArm(x, y, z) : x \in {Val(1), Const(1)}, y \in {Const(-1), Const(0), Const(2)},
                        z \in {Val(1), Const(0), Const(2)}}

-----------------------------------------------------------------------------
(* Functions for the value ranges.                                         *)

Most == 2^(W - 1) - 1

(* A value of a known range meets a test.                                  *)
Straight(m, op1, k, op2, d, cmp, t) ==
    [order |-> <<"entry", "yes", "no">>,
     body |-> [b \in {"entry", "yes", "no"} |->
        CASE b = "entry" -> <<Binary("and", 2, Val(1), m), Binary(op1, 3, Val(2), k),
                              Binary(op2, 4, Val(3), d), Cmp(cmp, 5, Val(4), t),
                              CondBr(Val(5), "yes", "no")>>
          [] b = "yes" -> <<Ret(Val(4))>>
          [] b = "no" -> <<Call(6, Val(4)), Ret(Val(3))>>]]

(* Two tests of the argument, one in an arm of the other, with what the    *)
(* first decides wanted some jumps further on.                             *)
Guarded(c1, a1, b1, c2, a2, b2, d) ==
    [order |-> <<"entry", "then", "on", "deep", "join">>,
     body |-> [b \in {"entry", "then", "on", "deep", "join"} |->
        CASE b = "entry" -> <<Cmp(c1, 2, a1, b1), CondBr(Val(2), "then", "join")>>
          [] b = "then" -> <<Br("on")>>
          [] b = "on" -> <<Cmp(c2, 3, a2, b2), CondBr(Val(3), "deep", "join")>>
          [] b = "deep" -> <<Binary("srem", 4, Val(1), d), Call(5, Val(4)), Br("join")>>
          [] b = "join" -> <<Phi(6, <<Val(1), Const(0), Val(5)>>, <<"entry", "on", "deep">>),
                             Cmp(c2, 7, a2, b2), ZExt(8, Val(7)), Binary("srem", 9, Val(1), d),
                             Binary("add", 10, Val(8), Val(9)), Call(11, Val(6)), Ret(Val(10))>>]]

(* A counting loop that tests its counter, with the latch first or last.   *)
Counting(order, start, step, cmp, k, t) ==
    [order |-> order,
     body |-> [b \in ToSet(order) |->
        CASE b = "entry" -> <<Br("head")>>
          [] b = "head" -> <<Phi(2, <<start, Val(6)>>, <<"entry", "latch">>),
                             Phi(3, <<Const(0), Val(2)>>, <<"entry", "latch">>),
                             Cmp(cmp, 4, Val(2), k), CondBr(Val(4), "latch", "exit")>>
          [] b = "latch" -> <<Cmp("lt", 5, Val(2), t), ZExt(7, Val(5)), Call(8, Val(7)),
                              Binary("add", 6, Val(2), step), Br("head")>>
          [] b = "exit" -> <<Cmp("lt", 9, Val(2), k), ZExt(10, Val(9)), Binary("srem", 11, Val(3), Const(2)),
                             Binary("add", 12, Val(10), Val(11)), Ret(Val(12))>>]]
LoopOrders == {<<"entry", "head", "latch", "exit">>, <<"entry", "latch", "exit", "head">>}

(* The larger of x and y, through an arm of its own or from the test, and  *)
(* a test of it.                                                           *)
Larger(y, arm, swap, t) ==
    LET blocks == IF arm THEN {"entry", "arm", "join"} ELSE {"entry", "side", "arm", "join"} IN
    [order |-> IF arm THEN <<"entry", "arm", "join">> ELSE <<"entry", "join", "arm", "side">>,
     body |-> [b \in blocks |->
        CASE b = "entry" -> <<Binary("and", 2, Val(1), Const(3)), y,
                              Cmp("lt", 4, Val(2), Val(3)),
                              CondBr(Val(4), "arm", IF arm THEN "join" ELSE "side")>>
          [] b \in {"arm", "side"} -> <<Br("join")>>
          [] b = "join" -> <<Phi(5, IF swap THEN <<Val(2), Val(3)>> ELSE <<Val(3), Val(2)>>,
                                 <<"arm", IF arm THEN "entry" ELSE "side">>),
                             Cmp("lt", 6, Val(5), t), ZExt(7, Val(6)),
                             Binary("add", 8, Val(7), Val(5)), Ret(Val(8))>>]]

(* A chain of halves: the sweeps narrow it one link at a time if the       *)
(* blocks are visited from its end.                                        *)
Backwards(op, k, t) ==
    [order |-> <<"entry", "last", "third", "second", "first">>,
     body |-> [b \in {"entry", "last", "third", "second", "first"} |->
        CASE b = "entry" -> <<Br("first")>>
          [] b = "first" -> <<Binary("and", 2, Val(1), Const(Most)), Br("second")>>
          [] b = "second" -> <<Binary(op, 3, Val(2), k), Br("third")>>
          [] b = "third" -> <<Binary(op, 4, Val(3), k), Br("last")>>
          [] b = "last" -> <<Binary(op, 5, Val(4), k), Cmp("lt", 6, Val(5), t), ZExt(7, Val(6)),
                             Binary("srem", 8, Val(5), Const(4)), Call(9, Val(7)), Ret(Val(8))>>]]

(* Blocks that hold a jump each, visited from the end of the way they go:  *)
(* a sweep may find a block and no value.                                  *)
Detour(op, k) ==
    [order |-> <<"entry", "last", "second", "first">>,
     body |-> [b \in {"entry", "last", "second", "first"} |->
        CASE b = "entry" -> <<Br("first")>>
          [] b = "first" -> <<Br("second")>>
          [] b = "second" -> <<Br("last")>>
          [] b = "last" -> <<Binary(op, 2, Const(k), Const(2)), Binary(op, 3, Val(1), Val(2)), Ret(Val(3))>>]]

(* A value halved on each round, and what is left of it after that: the    *)
(* interval of its remainder moves as that of the quotient shrinks to 0.   *)
Halving(start, d, op, e) ==
    [order |-> <<"entry", "head", "latch", "exit">>,
     body |-> [b \in {"entry", "head", "latch", "exit"} |->
        CASE b = "entry" -> <<Br("head")>>
          [] b = "head" -> <<Phi(2, <<start, Val(4)>>, <<"entry", "latch">>),
                             Phi(3, <<Const(0), Val(9)>>, <<"entry", "latch">>),
                             Cmp("lt", 10, Val(3), Const(3)), CondBr(Val(10), "latch", "exit")>>
          [] b = "latch" -> <<Binary("sdiv", 4, Val(2), Const(2)), Binary("sdiv", 5, Val(4), d),
                              Binary(op, 6, Val(5), e), Cmp("lt", 7, Val(6), Const(1)), ZExt(8, Val(7)),
                              Call(11, Val(8)), Binary("add", 9, Val(3), Const(1)), Br("head")>>
          [] b = "exit" -> <<Ret(Val(2))>>]]

RangeFunctions ==
    {Straight(Const(m), op1, Const(k), op2, Const(d), cmp, Const(t)) :
        m \in {1, 3}, op1 \in {"add", "sub", "mul"}, k \in {1, -3, 4}, op2 \in {"sdiv", "srem"},
        d \in {-1, 2, -4, 3}, cmp \in {"lt", "ne"}, t \in {0, 2}}
    \cup {Guarded(c1, Val(1), Const(n), c2, Const(k), Val(1), Const(d)) :
        c1 \in {"lt", "le", "eq", "ne"}, n \in {0, 2}, c2 \in {"lt", "le", "eq"}, k \in {-1, 0, 2}, d \in {2, -4}}
    \cup {Guarded(c1, Const(n), Val(1), c2, Val(1), Const(k), Const(4)) :
        c1 \in {"lt", "le"}, n \in {-1, 0, -8}, c2 \in {"lt", "ne"}, k \in {1, 3}}
    \cup {Counting(order, s, Const(d), cmp, Const(k), Const(t)) :
        order \in LoopOrders, s \in {Const(0), Val(1)}, d \in {1, 2, -1}, cmp \in {"lt", "le", "ne"},
        k \in {3, 7}, t \in {0, 3, 5}}
    \cup {Larger(Binary(op, 3, c, Val(2)), arm, swap, Const(t)) :
        op \in {"sub", "mul"}, c \in {Const(3), Const(4), Const(-2)}, arm \in BOOLEAN, swap \in BOOLEAN, t \in {1, 2, 3}}
    \cup {Halving(Const(s), Const(d), op, Const(e)) :
        s \in {3, -7}, d \in {4, -4}, op \in {"srem", "mul"}, e \in {3, -2}}
    \cup {Backwards(op, Const(k), Const(t)) : op \in {"sdiv", "sub", "add"}, k \in {2, 1}, t \in {0, 1, 4}}
    \cup {Detour(op, k) : op \in {"add", "mul"}, k \in {1, 3}}

(* Here the difference wraps when x is the smallest integer.               *)
LargerOfAny(n, t) ==
    [order |-> <<"entry", "arm", "join">>,
     body |-> [b \in {"entry", "arm", "join"} |->
        CASE b = "entry" -> <<Binary("sub", 3, Const(n), Val(1)), Cmp("lt", 4, Val(1), Val(3)),
                              CondBr(Val(4), "arm", "join")>>
          [] b = "arm" -> <<Br("join")>>
          [] b = "join" -> <<Phi(5, <<Val(3), Val(1)>>, <<"arm", "entry">>),
                             Cmp("lt", 6, Val(5), Const(t)), ZExt(7, Val(6)), Ret(Val(7))>>]]
WrappingFunctions == {LargerOfAny(n, t) : n \in {2, 5}, t \in {0, 1, 2}}

-----------------------------------------------------------------------------
AllFunctions == Functions \cup RangeFunctions
Miscompiled == FunctionsWithOr \cup WrappingFunctions

FunctionInputs(fun) ==
    {[args |-> 1 :> n, answers |-> <<2, 1>>, mem |-> <<>>] : n \in {Least, -5, -1, 0, 1, 2, 3, Most}}
=============================================================================
