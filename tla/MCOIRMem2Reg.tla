---------------------------- MODULE MCOIRMem2Reg ----------------------------
(* Functions with two cells over control flow graphs of five blocks: value *)
(* 1 is the argument, 2 and 3 are the cells, and a block's own values      *)
(* start at ten times its position.                                        *)
EXTENDS OIRMem2Reg

a == Val(2)
c == Val(3)

(* What a block may do to the cells; n numbers its values.                 *)
Does(what, n) ==
    CASE what = "none" -> <<>>
      [] what = "set" -> <<Store(Const(1), a), Store(Const(-1), c)>>
      [] what = "twice" -> <<Store(Const(0), c), Store(Val(1), c), Store(Const(2), c)>>
      [] what = "inc" -> <<Load(n, a), Binary("add", n + 1, Val(n), Const(1)), Store(Val(n + 1), a)>>
      [] what = "show" -> <<Load(n, c), Call(n + 1, Val(n))>>
      [] what = "swap" -> <<Load(n, a), Load(n + 1, c), Store(Val(n), c), Store(Val(n + 1), a)>>
      [] what = "escape" -> <<Store(a, c), Load(n, c), Store(Const(1), Val(n))>>

(* Ends on what cell a holds.                                              *)
Test(n, t, e) == <<Load(n, a), Cmp("lt", n + 1, Val(n), Const(1)), CondBr(Val(n + 1), t, e)>>
Enter(start) == <<Alloca(2), Alloca(3), Store(Val(1), a)>>
                    \o (IF start = "both" THEN <<Store(Const(2), c)>> ELSE <<>>)
Exit(n) == <<Load(n, a), Call(n + 1, Val(n)), Load(n + 2, c), Ret(Val(n + 2))>>

BlockLabels == {"entry", "b", "c", "d", "exit"}
Names == <<"entry", "b", "c", "d", "exit">>
Function(start, x, y, z, ends) ==
    [order |-> Names,
     body |-> [n \in ToSet(Names) |->
        CASE n = "entry" -> Enter(start) \o ends[1]
          [] n = "b" -> Does(x, 20) \o ends[2]
          [] n = "c" -> Does(y, 30) \o ends[3]
          [] n = "d" -> Does(z, 40) \o ends[4]
          [] n = "exit" -> Exit(50)]]

Diamond == <<Test(11, "b", "c"), <<Br("d")>>, <<Br("d")>>, <<Br("exit")>>>>
Loop == <<<<Br("b")>>, Test(25, "c", "exit"), <<Br("d")>>, <<Br("b")>>>>
Breaks == <<<<Br("b")>>, Test(25, "c", "exit"), Test(35, "d", "exit"), <<Br("b")>>>>
TwoEntries == <<Test(11, "b", "c"), Test(25, "c", "d"), Test(35, "b", "d"), <<Br("exit")>>>>
SelfLoop == <<Test(11, "b", "d"), Test(25, "b", "c"), <<Br("exit")>>, <<Br("exit")>>>>
Unreached == <<Test(11, "c", "d"), <<Br("d")>>, <<Br("d")>>, <<Br("exit")>>>>

Functions ==
    {Function(s, x, y, z, e) : s \in {"both"}, x \in {"inc", "set", "show"}, y \in {"inc", "twice", "swap"},
        z \in {"none", "swap", "escape"}, e \in {Loop, Breaks, TwoEntries, SelfLoop}}
    \cup {Function(s, x, y, z, Diamond) : s \in {"both", "one"}, x \in {"set", "twice"},
        y \in {"inc", "swap"}, z \in {"show", "escape", "none"}}
    \cup {Function("both", x, y, "show", Unreached) : x \in {"none", "set"}, y \in {"twice", "swap"}}

(* One cell over every graph of an entry and three blocks with at most two *)
(* successors each, up to names: the entry goes to b, and to c if to two.  *)
Ways == {<<>>, <<"b">>, <<"c">>, <<"d">>, <<"b", "c">>, <<"b", "d">>, <<"c", "d">>}
GraphEnd(n, to) ==
    CASE to = <<>> -> <<Load(n, a), Ret(Val(n))>>
      [] Len(to) = 1 -> <<Br(to[1])>>
      [] OTHER -> Test(n, to[1], to[2])
OverGraph(e, x, y, z) ==
    [order |-> <<"entry", "b", "c", "d">>,
     body |-> [n \in {"entry", "b", "c", "d"} |->
        CASE n = "entry" -> <<Alloca(2), Store(Val(1), a)>> \o GraphEnd(11, e)
          [] n = "b" -> Does("inc", 20) \o GraphEnd(25, x)
          [] n = "c" -> <<Store(Const(-1), a)>> \o GraphEnd(35, y)
          [] n = "d" -> <<Load(40, a), Call(41, Val(40))>> \o GraphEnd(45, z)]]
AllGraphs == {OverGraph(e, x, y, z) : e \in {<<"b">>, <<"b", "c">>}, x \in Ways, y \in Ways, z \in Ways}
AllFunctions == Functions \cup AllGraphs

FunctionInputs(fun) == {[args |-> 1 :> n, answers |-> <<2, 1>>, mem |-> <<>>] : n \in {-2, 0, 1}}
=============================================================================
