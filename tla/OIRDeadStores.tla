--------------------------- MODULE OIRDeadStores ---------------------------
(***************************************************************************)
(* Dead store elimination (src/pass/oir/OIRDeadStoreEliminationPass.cpp):  *)
(* stores that are overwritten before anything reads them, the clearing of *)
(* an array that is filled or used in one branch only, stores to arrays    *)
(* nothing reads, and stores of what was loaded from the same place.  What *)
(* is found dead is only marked, as the place of the instruction, until    *)
(* all have looked.                                                        *)
(***************************************************************************)
EXTENDS OIRMemorySSA

InstrAt(fn, d) == fn.body[d[1]][d[2]]
PlacesOfInstrs(fn) == UNION {{b} \X DOMAIN fn.body[b] : b \in Blocks(fn)}

-----------------------------------------------------------------------------
(* Overwritten: down the dominator tree with the stores and loads since    *)
(* which nothing is known to have interfered, the latest last.             *)

Access(p, d, isLoad) == [at |-> p, by |-> d, load |-> isLoad]
\* Mutant: a call is not taken to read what was stored.
AccessesAfter_CallsReadNothing(fn, memory, d) ==
    LET i == InstrAt(fn, d) IN
    CASE i.op = "store" -> Append(SelectSeq(memory, LAMBDA e : Alias(fn, i.args[2], e.at) = "no"),
                                  Access(i.args[2], d, FALSE))
      [] i.op = "load" -> Append(memory, Access(i.args[1], d, TRUE))
      [] i.op = "call" -> SelectSeq(memory, LAMBDA e : ~CallMayClobber(fn, i, e.at))
      [] OTHER -> memory
AccessesAfter(fn, memory, d) ==
    LET i == InstrAt(fn, d) IN
    CASE i.op = "store" -> Append(SelectSeq(memory, LAMBDA e : Alias(fn, i.args[2], e.at) = "no"),
                                  Access(i.args[2], d, FALSE))
      [] i.op = "load" -> Append(memory, Access(i.args[1], d, TRUE))
      [] i.op = "call" -> SelectSeq(memory, LAMBDA e : /\ ~CallMayClobber(fn, i, e.at)
                                                       /\ e.load \/ ~CallMayRead(fn, i, e.at))
      [] OTHER -> memory

(* The latest access that may be of the same place, if it is a store that  *)
(* surely is.                                                              *)
OverwrittenBy(fn, memory, d) ==
    LET p == InstrAt(fn, d).args[2]
        near == {n \in DOMAIN memory : Alias(fn, p, memory[n].at) # "no"}
        latest == {memory[Max(N)] : N \in {near} \ {{}}}
    IN  IF InstrAt(fn, d).op # "store" THEN {}
        ELSE {e.by : e \in {a \in latest : ~a.load /\ Alias(fn, p, a.at) = "must"}}

StoresThrough(fn, b, given) ==
    Through(LAMBDA s, k : [memory |-> AccessesAfter(fn, s.memory, <<b, k>>),
                            dead |-> s.dead \cup OverwrittenBy(fn, s.memory, <<b, k>>)],
             [memory |-> given, dead |-> {}], [k \in DOMAIN fn.body[b] |-> k])

RECURSIVE Overwritten(_, _, _)
Overwritten(fn, b, given) ==
    LET only(c) == Predecessors(fn, c) = {b} /\ SuccessorSet(fn, b) = {c}
    IN  UNION {here.dead \cup UNION {Overwritten(fn, c, IF only(c) THEN here.memory ELSE <<>>) :
                                        c \in DomChildren(fn, b)} : here \in {StoresThrough(fn, b, given)}}

-----------------------------------------------------------------------------
(* The clearing of a whole array.                                          *)

Clears(fn, d) ==
    LET i == InstrAt(fn, d) IN
    i.op = "store" /\ IsStack(fn, i.args[2]) /\ i.args[1] = Zeros(SizeAt(fn, i.args[2]))
TouchesArray(fn, i, a) == \E n \in DOMAIN i.args : Root(fn, i.args[n]) = a

(* The words of array a that an instruction surely fills.                  *)
Fills(fn, i, a) ==
    IF i.op = "store" /\ i.args[1][1] # "zero" /\ Root(fn, i.args[2]) = a
    THEN UNION {e \in Extent(fn, i.args[2]) : e \subseteq 0..(SizeAt(fn, a) - 1)} ELSE {}
NeedsCleared(fn, i, a, filled) ==
    CASE i.op = "gep" -> FALSE
      [] i.op = "load" -> LET e == UNION Extent(fn, i.args[1]) IN
            IF Root(fn, i.args[1]) = a /\ e # {} /\ e \subseteq Nat THEN ~(e \subseteq filled)
            ELSE Alias(fn, a, i.args[1]) # "no"
      [] i.op = "store" -> Root(fn, i.args[1]) = a \/ Alias(fn, a, i.args[2]) # "no"
      [] i.op = "memzero" -> Alias(fn, a, i.args[1]) # "no"
      [] i.op = "call" -> TouchesArray(fn, i, a) \/ CallMayRead(fn, i, a) \/ CallMayClobber(fn, i, a)
      [] OTHER -> TouchesArray(fn, i, a)

(* The rest of the block fills the array before it needs it cleared.       *)
FilledLater(fn, d) ==
    LET a == InstrAt(fn, d).args[2]
        body == fn.body[d[1]]
        filled(k) == UNION {Fills(fn, body[n], a) : n \in (d[2] + 1)..(k - 1)}
    IN  \E k \in (d[2] + 1)..Len(body) :
            /\ filled(k + 1) = 0..(SizeAt(fn, a) - 1)
            /\ \A n \in (d[2] + 1)..k :
                  Fills(fn, body[n], a) # {} \/ ~NeedsCleared(fn, body[n], a, filled(n))

(* Clearing an array where it is used only (sink_alloca_zero_stores).  The *)
(* place is where all uses are dominated from, moved up from the heads of  *)
(* loops and down while a successor still dominates all.                   *)
UsingBlocks(fn, d, sunk) ==
    LET a == InstrAt(fn, d).args[2] IN
    {u[1] : u \in {v \in PlacesOfInstrs(fn) \ {d} : TouchesArray(fn, InstrAt(fn, v), a)}}
    \cup {s[1] : s \in {v \in sunk : v[2].args[2] = a}}
CommonDominator(fn, S) ==
    LET all == {b \in Blocks(fn) : \A c \in S : Dominates(fn, b, c)}
    IN  CHOOSE b \in all : \A c \in all : Dominates(fn, c, b)
IsHead(fn, b) == \E p \in Predecessors(fn, b) \ {b} : Dominates(fn, b, p)
RECURSIVE AboveHeads(_, _, _)
AboveHeads(fn, top, b) ==
    IF b = top \/ b = Entry(fn) \/ ~IsHead(fn, b) THEN b
    ELSE AboveHeads(fn, top, CommonDominator(fn, Predecessors(fn, b)))
Lower(fn, b, uses) ==
    SelectSeq(Terminator(fn, b).to, LAMBDA s : \A u \in uses : Dominates(fn, s, u))
Lowered(fn, b, uses) ==
    Through(LAMBDA c, k : IF Lower(fn, c, uses) = <<>> THEN c ELSE Head(Lower(fn, c, uses)), b, fn.order)

WalkedDown(fn, d, uses) == Lowered(fn, AboveHeads(fn, d[1], CommonDominator(fn, uses)), uses)
SinkTo(fn, d, uses) == AboveHeads(fn, d[1], WalkedDown(fn, d, uses))
(* A walk down that has made as many moves as there are blocks goes round. *)
GoesRound(fn, d, uses) == Lower(fn, WalkedDown(fn, d, uses), uses) # <<>>

UsedBefore(fn, d) == \E k \in 1..(d[2] - 1) : TouchesArray(fn, fn.body[d[1]][k], InstrAt(fn, d).args[2])
Sunk(fn, s, d, to) ==
    IF to = d[1] \/ ~Dominates(fn, d[1], to) THEN s
    ELSE [s EXCEPT !.dead = @ \cup {d}, !.sunk = @ \cup {<<to, InstrAt(fn, d)>>}]
SinkClear(fn, s, d) ==
    LET sink(uses) == CASE uses = {} -> s
                        [] GoesRound(fn, d, uses) -> [s EXCEPT !.ends = FALSE]
                        [] OTHER -> The({Sunk(fn, s, d, to) : to \in {SinkTo(fn, d, uses)}})
    IN  IF d \in s.dead \/ UsedBefore(fn, d) \/ ~s.ends THEN s
        ELSE The({sink(uses) : uses \in {UsingBlocks(fn, d, s.sunk)}})

-----------------------------------------------------------------------------
(* Arrays nothing reads, and what is stored where it was loaded.           *)

UsesAddress(i, n) ==
    \/ i.op \in {"gep", "load", "memzero"} /\ n = 1
    \/ i.op = "store" /\ n = 2
(* The arrays of which no instruction uses an address otherwise.           *)
WriteOnly(fn) ==
    LET arrays == {Val(i.id) : i \in {j \in InstrsOf(fn) : j.op = "alloca"}}
        otherwise(i) == {i.args[n] : n \in {m \in DOMAIN i.args : i.op = "load" \/ ~UsesAddress(i, m)}}
    IN  arrays \ UNION {{Root(fn, v) : v \in otherwise(i)} : i \in InstrsOf(fn)}
Written(i) == CASE i.op = "store" -> {i.args[2]} [] i.op = "memzero" -> {i.args[1]} [] OTHER -> {}
WritesOnly(fn, arrays, i) == \E p \in Written(i) : Root(fn, p) \in arrays

WritesBack(fn, d) ==
    LET i == InstrAt(fn, d)  body == fn.body[d[1]] IN
    /\ i.op = "store"
    /\ \E j \in 1..(d[2] - 1) :
          /\ body[j].op = "load" /\ i.args[1] = Val(body[j].id) /\ body[j].args[1] = i.args[2]
          /\ \A n \in (j + 1)..(d[2] - 1) :
                /\ body[n].op = "store" => \/ Alias(fn, i.args[2], body[n].args[2]) = "no"
                                           \/ body[n].args[1] = i.args[1]
                /\ body[n].op = "call" => ~CallMayClobber(fn, body[n], i.args[2])

-----------------------------------------------------------------------------
(* The pass over a function: what it sinks and what it finds dead, and     *)
(* whether it ends.                                                        *)

FoundDead(fn) ==
    LET clears(b) == SelectSeq([k \in DOMAIN fn.body[b] |-> <<b, k>>], LAMBDA d : Clears(fn, d))
        all == FlattenSeq([n \in DOMAIN fn.order |-> clears(fn.order[n])])
        dead == Overwritten(fn, Entry(fn), <<>>) \cup {d \in ToSet(all) : FilledLater(fn, d)}
    IN  Through(LAMBDA s, d : SinkClear(fn, s, d), [dead |-> dead, sunk |-> {}, ends |-> TRUE], all)
DeadStoresEnd(fn) == FoundDead(fn).ends
Rebuilt(fn, dead, sunk) ==
    LET body(b) == FlattenSeq(The({[k \in DOMAIN fn.body[b] |->
                          IF <<b, k>> \in gone THEN <<>> ELSE <<fn.body[b][k]>>] : gone \in {dead}}))
        sinks(b) == SetToSeq({s[2] : s \in {t \in sunk : t[1] = b}})
    IN  [fn EXCEPT !.body = [b \in DOMAIN @ |->
            SelectSeq(body(b), IsPhi) \o sinks(b) \o SelectSeq(body(b), NotPhi)]]
EliminateDeadStores(fn) ==
    LET useless(arrays) == {d \in PlacesOfInstrs(fn) : \/ WritesOnly(fn, arrays, InstrAt(fn, d))
                                                       \/ WritesBack(fn, d)}
        without(found, arrays) ==
            Rebuilt(fn, found.dead \cup useless(arrays), {s \in found.sunk : ~WritesOnly(fn, arrays, s[2])})
    IN  The({without(found, arrays) : found \in {FoundDead(fn)}, arrays \in {WriteOnly(fn)}})
=============================================================================
