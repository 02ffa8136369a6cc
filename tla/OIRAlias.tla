------------------------------ MODULE OIRAlias ------------------------------
(***************************************************************************)
(* What the memory passes know of addresses and calls                      *)
(* (OIRAliasAnalysis and FunctionModRefAnalysis of src/oir/                *)
(* OIRAnalysis.cpp): when two addresses are the same or apart, and which   *)
(* memory a call may read or write, from a summary of every function of    *)
(* the module.  An address is an object and a way into it; it stands for   *)
(* one word after a gep and for the whole object before it.                *)
(*                                                                         *)
(* Functions of other modules take no addresses here and write no memory   *)
(* of the module, as the library's putint and getint.                      *)
(***************************************************************************)
EXTENDS OIR

CONSTANTS Globals,   \* for each global variable, its words and whether it is constant
          Callees    \* for each name of a function of the module, the function

-----------------------------------------------------------------------------
(* Addresses.                                                              *)

(* The instruction whose value v is, if it has one, as a set.              *)
Named(fn, v) == IF IsVal(v) THEN {i \in InstrsOf(fn) : i.id = v[2]} ELSE {}
Geps(fn, v) == {i \in Named(fn, v) : i.op = "gep"}
Allocas(fn, v) == {i \in Named(fn, v) : i.op = "alloca"}
IsArgument(fn, v) == IsVal(v) /\ Named(fn, v) = {}
IsStack(fn, v) == Allocas(fn, v) # {}
IsObject(fn, v) == IsGlobal(v) \/ IsStack(fn, v)

RECURSIVE Roots(_, _), Offset(_, _)
Roots(fn, p) == UNION {IF geps = {} THEN {p} ELSE UNION {Roots(fn, i.args[1]) : i \in geps} :
                          geps \in {Geps(fn, p)}}
Root(fn, p) == The(Roots(fn, p))
(* The words from the root to p, if they are constant, as a set.           *)
Offset(fn, p) ==
    UNION {CASE geps = {} -> {0}
             [] OTHER -> UNION {IF IsConst(i.args[2]) THEN {n + i.args[2][2] : n \in Offset(fn, i.args[1])}
                                ELSE {} : i \in geps} : geps \in {Geps(fn, p)}}
SizeAt(fn, p) ==
    CASE IsGlobal(p) -> Globals[p[2]].words
      [] IsStack(fn, p) -> WordsIn(The(Allocas(fn, p)))
      [] OTHER -> 1
Extent(fn, p) == {n..(n + size - 1) : n \in Offset(fn, p), size \in {SizeAt(fn, p)}}

Apart(fn, r, s) ==
    \/ IsStack(fn, r) /\ (IsObject(fn, s) \/ IsArgument(fn, s))
    \/ IsStack(fn, s) /\ (IsObject(fn, r) \/ IsArgument(fn, r))
    \/ IsGlobal(r) /\ IsGlobal(s)
\* Mutant: an address that is not constant is taken to be apart from others.
Alias_ConstantOnly(fn, p, q) ==
    CASE p = q -> "must"
      [] Extent(fn, p) # {} /\ Extent(fn, p) = Extent(fn, q) -> "must"
      [] OTHER -> "no"
Alias(fn, p, q) ==
    LET same(e, d) == CASE e = {} \/ d = {} -> "may"
                        [] e = d -> "must"
                        [] The(e) \cap The(d) = {} -> "no"
                        [] OTHER -> "may"
        rooted(r, s) == IF r # s THEN (IF Apart(fn, r, s) THEN "no" ELSE "may")
                        ELSE The({same(e, d) : e \in {Extent(fn, p)}, d \in {Extent(fn, q)}})
    IN  IF p = q THEN "must" ELSE The({rooted(r, s) : r \in {Root(fn, p)}, s \in {Root(fn, q)}})

-----------------------------------------------------------------------------
(* Summaries: where a function may read and write, in terms of globals and *)
(* of what its parameters point to, and whether it does anything else.     *)

Param(n) == <<"param", n>>
Unknown == <<"unknown", 0>>
PlacesOf(fn, p) ==
    LET r == Root(fn, p) IN
    CASE IsGlobal(r) -> {r}
      [] IsArgument(fn, r) -> {Param(r[2])}
      [] IsStack(fn, r) -> {}
      [] OTHER -> {Unknown}

(* The places of a callee, as its caller sees them.                        *)
Projected(fn, i, places) ==
    UNION {IF l[1] = "param" THEN PlacesOf(fn, i.args[l[2] + 1]) ELSE {l} : l \in places}

External == [reads |-> {}, writes |-> {}, effect |-> TRUE]
SummaryIn(S, i) == IF IsInternalCall(i) THEN S[i.args[1][2]] ELSE External

Scan(S, fn) ==
    LET calls == {i \in InstrsOf(fn) : i.op = "call"}
        at(op, n) == {i.args[n] : i \in {j \in InstrsOf(fn) : j.op = op}}
    IN  [reads |-> UNION {PlacesOf(fn, p) : p \in at("load", 1)}
                   \cup UNION {Projected(fn, i, SummaryIn(S, i).reads) : i \in calls},
         writes |-> UNION {PlacesOf(fn, p) : p \in at("store", 2) \cup at("memzero", 1)}
                    \cup UNION {Projected(fn, i, SummaryIn(S, i).writes) : i \in calls},
         effect |-> \E i \in calls : SummaryIn(S, i).effect]

(* The least summaries that agree with each other.                         *)
RECURSIVE Settle(_)
Settle(S) ==
    LET next == [name \in DOMAIN Callees |-> Scan(S, Callees[name])] IN
    IF next = S THEN S ELSE Settle(next)
Summaries == Settle([name \in DOMAIN Callees |-> [reads |-> {}, writes |-> {}, effect |-> FALSE]])

Summary(i) == SummaryIn(Summaries, i)
MayWrite(i) == Summary(i).writes # {}
MayRead(i) == Summary(i).reads # {}
HasSideEffect(i) == Summary(i).effect \/ MayWrite(i)

(* Whether the places of call i, or what a parameter among them leads to,  *)
(* may hold what p points to.                                              *)
Touches(fn, i, places, p) ==
    LET r == Root(fn, p) IN
    \/ Unknown \in places
    \/ \E l \in places : l[1] = "param" /\ Alias(fn, Root(fn, i.args[l[2] + 1]), r) # "no"
    \/ IsGlobal(r) /\ r \in places
    \/ ~IsObject(fn, r) /\ \E l \in places : IsGlobal(l)

PointsToConstant(fn, p) == LET r == Root(fn, p) IN IsGlobal(r) /\ Globals[r[2]].const
CallMayClobber(fn, i, p) == ~PointsToConstant(fn, p) /\ Touches(fn, i, Summary(i).writes, p)
CallMayRead(fn, i, p) == Touches(fn, i, Summary(i).reads, p)

(* What may go when nothing uses its value (eliminate_dead_code and the    *)
(* aggressive elimination ask the same).                                   *)
Removable(i) == IF i.op = "call" THEN ~HasSideEffect(i) ELSE i.id # 0
=============================================================================
