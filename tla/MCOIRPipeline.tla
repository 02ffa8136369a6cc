--------------------------- MODULE MCOIRPipeline ---------------------------
(* Functions for the stretch of passes: to be cleaned, to be threaded, over *)
(* memory, and the ones it does not compile into what they say.            *)
EXTENDS OIRPipeline, TLC

-----------------------------------------------------------------------------
(* Functions over many graphs of five blocks.  Block number n has a phi    *)
(* 10n for its predecessors, a value 10n + 1 computed from it and a test   *)
(* 10n + 2; an empty block has only its jump.                              *)

Names == <<"entry", "b", "c", "d", "x">>
Number(b) == CHOOSE k \in DOMAIN Names : Names[k] = b

Goto(t) == [to |-> <<t>>, test |-> "none"]
Fork(t, e) == [to |-> <<t, e>>, test |-> "value"]
Always(t, e) == [to |-> <<t, e>>, test |-> "true"]
Return == [to |-> <<>>, test |-> "none"]

(* A phi entry for predecessor p: what p computed, or one value for all.   *)
Entered(p, empty, alike) ==
    CASE alike -> Const(0)
      [] p = "entry" -> Val(1)
      [] p \in empty -> Const(Number(p) - 4)
      [] OTHER -> Val(10 * Number(p) + 1)

BlockBody(b, ends, empty, alike) ==
    LET n == Number(b)
        from == SelectSeq(Names, LAMBDA p : \E k \in DOMAIN ends[p].to : ends[p].to[k] = b)
        phi == Phi(10 * n, [k \in DOMAIN from |-> Entered(from[k], empty, alike)], from)
        value == IF from = <<>> THEN Val(1) ELSE Val(10 * n)
        last == CASE ends[b].to = <<>> -> <<Ret(Val(10 * n + 1))>>
                  [] ends[b].test = "none" -> <<Br(ends[b].to[1])>>
                  [] ends[b].test = "true" -> <<CondBr(Const(1), ends[b].to[1], ends[b].to[2])>>
                  [] OTHER -> <<Cmp("lt", 10 * n + 2, Val(10 * n + 1), Const(1)),
                                CondBr(Val(10 * n + 2), ends[b].to[1], ends[b].to[2])>>
    IN  IF b \in empty THEN <<Br(ends[b].to[1])>>
        ELSE (IF from = <<>> THEN <<>> ELSE <<phi>>)
             \o <<Binary("add", 10 * n + 1, value, Const(1)), Call(10 * n + 3, value)>> \o last

Function(ends, empty, alike) ==
    [order |-> Names, body |-> [b \in ToSet(Names) |-> BlockBody(b, ends, empty, alike)]]

Ends == [entry : {Goto("b"), Fork("b", "c")},
         b : {Goto("c"), Goto("d"), Goto("x"), Fork("c", "d"), Fork("b", "x"), Fork("d", "d")},
         c : {Goto("d"), Goto("b"), Fork("x", "d"), Always("x", "d")},
         d : {Goto("x"), Goto("b"), Fork("b", "x")},
         x : {Return}]
CanBeEmpty(ends) == {b \in {"b", "c", "d"} : Len(ends[b].to) = 1 /\ ends[b].to[1] # b}

Functions ==
    UNION {{Function(ends, empty, alike) :
                empty \in {S \in SUBSET CanBeEmpty(ends) : Cardinality(S) <= 2},
                alike \in IF CanBeEmpty(ends) = {} THEN {FALSE} ELSE BOOLEAN} :
             ends \in Ends}
FunctionInputs(fun) == {[args |-> 1 :> n, answers |-> <<2, 1>>, mem |-> <<>>] : n \in {-2, 1}}

-----------------------------------------------------------------------------
(* Functions whose branches repeat the test of the entry, value 12, or     *)
(* decide by a phi, value 10n + 4 of block number n.  A block that repeats *)
(* the test has nothing else, unless it is busy and makes a call first.    *)

Again(t, e) == [to |-> <<t, e>>, test |-> "again"]
Busy(t, e) == [to |-> <<t, e>>, test |-> "busy"]
ByPhi(t, e) == [to |-> <<t, e>>, test |-> "phi"]

ValueFrom(p, ends) ==
    CASE ends[p].test \in {"again", "busy"} -> Const(Number(p) - 4)
      [] ends[p].test = "phi" -> Val(10 * Number(p))
      [] p = "entry" -> Val(1)
      [] OTHER -> Val(10 * Number(p) + 1)

ThreadedBody(b, ends, bits) ==
    LET n == Number(b)
        from == SelectSeq(Names, LAMBDA p : \E k \in DOMAIN ends[p].to : ends[p].to[k] = b)
        phi == Phi(10 * n, [k \in DOMAIN from |-> ValueFrom(from[k], ends)], from)
        bit == Instr("phi", 10 * n + 4, 1, [k \in DOMAIN from |-> bits[k]], from)
        value == <<phi, Binary("add", 10 * n + 1, Val(10 * n), Const(1)), Call(10 * n + 3, Val(10 * n))>>
        fork(c) == CondBr(c, ends[b].to[1], ends[b].to[2])
        leave == IF Len(ends[b].to) = 1 THEN <<Br(ends[b].to[1])>> ELSE <<fork(Val(12))>>
    IN  CASE b = "entry" -> <<Cmp("lt", 12, Val(1), Const(1))>> \o leave
          [] ends[b].test = "again" -> leave
          [] ends[b].test = "busy" -> <<Call(10 * n + 3, Const(n - 4))>> \o leave
          [] ends[b].test = "phi" -> <<phi, bit, fork(Val(10 * n + 4))>>
          [] ends[b].test = "value" ->
                value \o <<Cmp("lt", 10 * n + 2, Val(10 * n + 1), Const(1)), fork(Val(10 * n + 2))>>
          [] ends[b].to = <<>> -> value \o <<Ret(Val(10 * n + 1))>>
          [] OTHER -> value \o leave

Bits == SetToSeqs({Const(0), Const(1), Val(12)})   \* in any order
ThreadedOver(allEnds) ==
    UNION {{[order |-> Names, body |-> [b \in ToSet(Names) |-> ThreadedBody(b, ends, bits)]] :
                bits \in IF \E b \in DOMAIN ends : ends[b].test = "phi" THEN Bits
                         ELSE {<<Const(0), Const(1), Val(12)>>}} :
            ends \in allEnds}

ThreadedFunctions == ThreadedOver(
    [entry : {Fork("b", "c"), Goto("b")},
     b : {Again("c", "d"), Again("d", "x"), ByPhi("c", "d"), ByPhi("d", "x"), Goto("d")},
     c : {Goto("d"), Again("d", "x"), ByPhi("d", "x"), ByPhi("b", "x")},
     d : {Goto("x"), Goto("b"), Again("x", "c"), Fork("b", "x")},
     x : {Return}])

(* As written for  if (a < 1) { show(-2); if (a < 1) ... }                 *)
BusyFunctions == ThreadedOver(
    [entry : {Fork("b", "d")}, b : {Busy("c", "d")}, c : {Goto("d")}, d : {Goto("x")}, x : {Return}])

(* A loop that hands the last value but one on: a = b; b = read();         *)
ShiftingLoop ==
    [order |-> <<"entry", "head", "body", "latch", "exit">>,
     body |-> [b \in {"entry", "head", "body", "latch", "exit"} |->
        CASE b = "entry" -> <<Cmp("lt", 12, Val(1), Const(1)), Br("head")>>
          [] b = "head" -> <<Phi(20, <<Const(0), Val(21)>>, <<"entry", "latch">>),
                             Phi(21, <<Val(1), Val(33)>>, <<"entry", "latch">>),
                             Instr("phi", 24, 1, <<Val(12), Const(0)>>, <<"entry", "latch">>),
                             CondBr(Val(24), "body", "exit")>>
          [] b = "body" -> <<Call(33, Const(1)), Cmp("lt", 34, Val(33), Const(1)),
                             CondBr(Val(34), "exit", "latch")>>
          [] b = "latch" -> <<Br("head")>>
          [] b = "exit" -> <<Phi(50, <<Val(20), Const(-1)>>, <<"head", "body">>), Ret(Val(50))>>]]
NoFunctions == {}

-----------------------------------------------------------------------------
(* Functions over an array of two words on the stack, 20, a variable of    *)
(* two words, 90, a constant, 91, and memory of the caller, 92, of which   *)
(* they may be given the address as value 2.  Value 1 is an index.         *)

Variables == (90 :> [words |-> 2, const |-> FALSE]) @@ (91 :> [words |-> 1, const |-> TRUE])
OneBlock(body) == [order |-> <<"entry">>, body |-> [b \in {"entry"} |-> body]]
Module ==
    [fill |-> OneBlock(<<Gep(10, Val(1), Const(0)), Store(Const(3), Val(10)), Ret(Const(0))>>),
     peek |-> OneBlock(<<Gep(10, Global(90), Const(0)), Load(11, Val(10)), Ret(Val(11))>>),
     twice |-> OneBlock(<<Binary("add", 10, Val(1), Val(1)), Ret(Val(10))>>)]
Memory == (Cell(90, 0) :> -1) @@ (Cell(90, 1) :> -2) @@ (Cell(91, 0) :> 2) @@ (Cell(92, 0) :> -3)

-----------------------------------------------------------------------------
(* What is done at a place: operation k of a function on an address x or   *)
(* another, y; the values it needs are 200 + 10k and on.                   *)

Address(id, a) ==
    CASE a = "A0" -> Gep(id, Val(20), Const(0))
      [] a = "A1" -> Gep(id, Val(20), Const(1))
      [] a = "Ai" -> Gep(id, Val(20), Val(1))
      [] a = "Aj" -> Gep(id, Val(20), Val(30))
      [] a = "G0" -> Gep(id, Global(90), Const(0))
      [] a = "Gi" -> Gep(id, Global(90), Val(1))
      [] a = "K" -> Gep(id, Global(91), Const(0))
      [] a = "q" -> Gep(id, Val(2), Const(0))

Does(k, kind, x, y) ==
    LET id == 200 + 10 * k
        a == IF kind \in {"st y", "ld y"} THEN y ELSE x IN
    CASE kind \in {"st x", "st y"} -> <<Address(id, a), Store(Const(k - 4), Val(id))>>
      [] kind \in {"ld x", "ld y"} -> <<Address(id, a), Load(id + 1, Val(id)), Call(id + 2, Val(id + 1))>>
      [] kind = "back" -> <<Address(id, x), Load(id + 1, Val(id)), Store(Val(id + 1), Val(id))>>
      [] kind = "fill" -> <<InternalCall(id, "fill", <<Val(2)>>)>>
      [] kind = "peek" -> <<InternalCall(id, "peek", <<>>), Call(id + 2, Val(id))>>
      [] kind = "twice" -> <<InternalCall(id, "twice", <<Val(1)>>), Call(id + 2, Val(id))>>
      [] kind = "clear" -> <<Store(Zeros(2), Val(20))>>
      [] kind = "memzero" -> <<MemZero(Val(20), 2)>>
      [] kind = "none" -> <<>>

OnStack(x) == x \in {"A0", "A1", "Ai", "Aj"}
Made(x) == IF OnStack(x) THEN <<Array(20, 2)>> ELSE <<>>

Straight(x, y, ops) ==
    OneBlock(Made(x) \o FlattenSeq([k \in DOMAIN ops |-> Does(k, ops[k], x, y)]) \o <<Ret(Const(0))>>)
Diamond(x, y, ops) ==
    [order |-> <<"entry", "b", "c", "x">>,
     body |-> [b \in {"entry", "b", "c", "x"} |->
        CASE b = "entry" -> Made(x) \o Does(1, ops[1], x, y) \o Does(2, ops[2], x, y)
                            \o <<Cmp("lt", 12, Val(1), Const(1)), CondBr(Val(12), "b", "c")>>
          [] b = "b" -> Does(3, ops[3], x, y) \o <<Br("x")>>
          [] b = "c" -> Does(4, ops[4], x, y) \o <<Br("x")>>
          [] b = "x" -> Does(5, ops[5], x, y) \o <<Ret(Const(0))>>]]
(* for (j = 0; j <= i; j++); entered in one way or two.                    *)
Loop(x, y, ops, ways) ==
    [order |-> IF ways = 1 THEN <<"entry", "c", "d", "x">> ELSE <<"entry", "b", "c", "d", "x">>,
     body |-> [b \in IF ways = 1 THEN {"entry", "c", "d", "x"} ELSE {"entry", "b", "c", "d", "x"} |->
        CASE b = "entry" -> Made(x) \o Does(1, ops[1], x, y) \o Does(2, ops[2], x, y)
                            \o IF ways = 1 THEN <<Br("c")>>
                               ELSE <<Cmp("lt", 12, Val(1), Const(1)), CondBr(Val(12), "b", "c")>>
          [] b = "b" -> <<Call(15, Val(1)), Br("c")>>
          [] b = "c" -> <<IF ways = 1 THEN Phi(30, <<Const(0), Val(31)>>, <<"entry", "d">>)
                          ELSE Phi(30, <<Const(0), Const(1), Val(31)>>, <<"entry", "b", "d">>),
                          Cmp("le", 32, Val(30), Val(1)), CondBr(Val(32), "d", "x")>>
          [] b = "d" -> Does(3, ops[3], x, y) \o Does(4, ops[4], x, y)
                        \o <<Binary("add", 31, Val(30), Const(1)), Br("c")>>
          [] b = "x" -> Does(5, ops[5], x, y) \o <<Ret(Const(0))>>]]

OnXY == {"st x", "st y", "ld x", "ld y", "back"}
First(x) == IF OnStack(x) THEN {"clear", "memzero"} ELSE {"none"}
Kinds(x) == IF OnStack(x) THEN OnXY ELSE OnXY \cup {"fill", "peek"}
Later(x) == IF OnStack(x) THEN {"st y", "back", "twice"} ELSE {"st y", "fill", "twice"}

Straights(x, y) ==
    {Straight(x, y, <<o0, o1, o2, o3, "ld x">>) :
        o0 \in First(x), o1 \in {"st x", "st y"}, o2 \in Kinds(x), o3 \in Later(x)}
Diamonds(x, y) ==
    {Diamond(x, y, <<o0, o1, o2, o3, o4>>) :
        o0 \in First(x), o1 \in {"st x"}, o2 \in Kinds(x), o3 \in {"none", "st y"}, o4 \in {"ld x", "ld y"}}
LoopsOver(x, y, ways) ==
    {Loop(x, y, <<o0, "st x", o2, o3, "ld x">>, ways) : o0 \in First(x), o2 \in Kinds(x), o3 \in Later(x)}
MemoryFunctions ==
    UNION {Straights(p[1], p[2]) \cup Diamonds(p[1], p[2]) : p \in {<<"A0", "Ai">>, <<"G0", "q">>}}
    \cup LoopsOver("A0", "Aj", 1) \cup LoopsOver("G0", "q", 2)

MemoryInputs(fun) ==
    {[args |-> (1 :> n) @@ (2 :> q), answers |-> <<2, 1>>, mem |-> Memory, functions |-> Module] :
        n \in {0, 1},
        q \in IF \E i \in InstrsOf(fun) : Val(2) \in ToSet(i.args) THEN {Cell(90, 0), Cell(92, 0)}
              ELSE {Cell(92, 0)}}
PipelineInputs(fun) ==
    IF \E i \in InstrsOf(fun) : i.op = "gep" THEN MemoryInputs(fun) ELSE FunctionInputs(fun)

-----------------------------------------------------------------------------
(* Functions the stretch does not compile into what they say.  Value 1 is  *)
(* 0 or 1, and a loop is for (j = 0; j <= 1; j++).                         *)

Looping(names, first, head, inside) ==
    [order |-> <<"entry", "c">> \o names \o <<"l", "x">>,
     body |-> [b \in {"entry", "c", "l", "x"} \cup ToSet(names) |->
        CASE b = "entry" -> first \o <<Cmp("lt", 12, Val(1), Const(1)), Br("c")>>
          [] b = "c" -> <<Phi(30, <<Const(0), Val(31)>>, <<"entry", "l">>), Cmp("le", 32, Val(30), Const(1)),
                          CondBr(Val(32), head, "x")>>
          [] b = "l" -> <<Binary("add", 31, Val(30), Const(1)), Br("c")>>
          [] b = "x" -> <<Ret(Const(0))>>
          [] OTHER -> inside[b]]]

(* a[1] = 3; clear a[0] and a[1], by the address of a[0]; show(a[1]);      *)
ForwardedPastClear ==
    OneBlock(<<Array(20, 2), Gep(21, Val(20), Const(0)), Gep(22, Val(20), Const(1)), Store(Const(3), Val(22)),
               MemZero(Val(21), 2), Load(23, Val(22)), Call(24, Val(23)), Ret(Const(0))>>)
(* a[0] = 3; clear a; show(a[0]);                                          *)
LoadedPastClear ==
    OneBlock(<<Array(20, 2), Gep(21, Val(20), Const(0)), Store(Const(3), Val(21)), MemZero(Val(20), 2),
               Load(23, Val(21)), Call(24, Val(23)), Ret(Const(0))>>)
(* fill(a); y = a[0]; clear a; a[0] = y; show(a[i]);                       *)
WrittenBackPastClear ==
    OneBlock(<<Array(20, 2), InternalCall(25, "fill", <<Val(20)>>), Gep(21, Val(20), Const(0)), Load(23, Val(21)),
               MemZero(Val(20), 2), Store(Val(23), Val(21)), Gep(22, Val(20), Val(1)), Load(24, Val(22)),
               Call(26, Val(24)), Ret(Const(0))>>)
(* a[0] = 3; for (...) { show(a[0]); clear a; }                            *)
HoistedPastClear ==
    Looping(<<"d">>, <<Array(20, 2), Gep(21, Val(20), Const(0)), Store(Const(3), Val(21))>>, "d",
            [b \in {"d"} |-> <<Load(23, Val(21)), Call(24, Val(23)), MemZero(Val(20), 2), Br("l")>>])
(* int a[1]; a[0] = 3; for (...) if (i < 1) show(a[i]);                    *)
HoistedPastGuard ==
    Looping(<<"d", "e">>, <<Array(20, 1), Gep(21, Val(20), Const(0)), Store(Const(3), Val(21))>>, "d",
            [b \in {"d", "e"} |->
                IF b = "d" THEN <<CondBr(Val(12), "e", "l")>>
                ELSE <<Gep(22, Val(20), Val(1)), Load(23, Val(22)), Call(24, Val(23)), Br("l")>>])
(* for (...) { for (k = 0; k < j + j; k++) show(k); show(j + j + 1); }     *)
HoistedPastInnerLoop ==
    Looping(<<"e", "g", "h">>, <<>>, "e",
            [b \in {"e", "g", "h"} |->
                CASE b = "e" -> <<Phi(40, <<Const(0), Val(43)>>, <<"c", "g">>), Binary("add", 41, Val(30), Val(30)),
                                  Cmp("lt", 44, Val(40), Val(41)), CondBr(Val(44), "g", "h")>>
                  [] b = "g" -> <<Call(45, Val(40)), Binary("add", 43, Val(40), Const(1)), Br("e")>>
                  [] b = "h" -> <<Binary("add", 46, Val(41), Const(1)), Call(47, Val(46)), Br("l")>>])
(* int a[2] = {}; for (...) if (i < 1) { a[0]++; show(a[0]); }             *)
ClearedEachTime ==
    Looping(<<"d", "e">>, <<Array(20, 2), Store(Zeros(2), Val(20))>>, "d",
            [b \in {"d", "e"} |->
                IF b = "d" THEN <<CondBr(Val(12), "e", "l")>>
                ELSE <<Gep(21, Val(20), Const(0)), Load(22, Val(21)), Binary("add", 23, Val(22), Const(1)),
                       Store(Val(23), Val(21)), Call(24, Val(23)), Br("l")>>])
(* int a[2] = {}; for (...) { a[i]++; show(a[i]); }, with j++ there too.   *)
SunkForEver ==
    [order |-> <<"entry", "c", "d", "x">>,
     body |-> [b \in {"entry", "c", "d", "x"} |->
        CASE b = "entry" -> <<Array(20, 2), Store(Zeros(2), Val(20)), Br("c")>>
          [] b = "c" -> <<Phi(30, <<Const(0), Val(31)>>, <<"entry", "d">>), Cmp("le", 32, Val(30), Const(1)),
                          CondBr(Val(32), "d", "x")>>
          [] b = "d" -> <<Gep(21, Val(20), Val(1)), Load(22, Val(21)), Binary("add", 23, Val(22), Const(1)),
                          Store(Val(23), Val(21)), Call(24, Val(23)), Binary("add", 31, Val(30), Const(1)), Br("c")>>
          [] b = "x" -> <<Ret(Const(0))>>]]
(* g[0] = 3; y = g[i]; g[1] = 1; g[0] = 2; return y;                       *)
LostStore ==
    OneBlock(<<Gep(21, Global(90), Const(0)), Store(Const(3), Val(21)), Gep(22, Global(90), Val(1)), Load(23, Val(22)),
               Gep(24, Global(90), Const(1)), Store(Const(1), Val(24)), Store(Const(2), Val(21)), Ret(Val(23))>>)

Miscompiled ==
    {ForwardedPastClear, LoadedPastClear, WrittenBackPastClear, HoistedPastClear, HoistedPastGuard,
     HoistedPastInnerLoop, ClearedEachTime, SunkForEver, LostStore}
Mistreated == BusyFunctions \cup {ShiftingLoop}
=============================================================================
