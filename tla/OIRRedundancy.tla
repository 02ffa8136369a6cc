--------------------------- MODULE OIRRedundancy ---------------------------
(***************************************************************************)
(* What has been computed or loaded before (src/pass/oir/OIRGVNPass.cpp    *)
(* and OIRDeadLoadEliminationPass.cpp) and what is never used              *)
(* (OIRADCEPass.cpp), each as the function from the code before to the     *)
(* code after.  A replaced instruction stays, without uses.                *)
(***************************************************************************)
EXTENDS OIRMemorySSA

-----------------------------------------------------------------------------
(* Global value numbering: down the dominator tree with a table of the     *)
(* expressions computed on the way, whose operands are replaced as it      *)
(* goes.  s is the code, the table and the replacements.                   *)

Commutative == {"add", "mul", "and", "or", "xor", "eq", "ne"}
Numbered == BinaryOps \cup CmpOps \cup {"gep", "zext"}

(* The expression of instruction k of b, with the version of memory it     *)
(* reads; nothing if it is not numbered.                                   *)
Expression(fn, b, k) ==
    LET i == fn.body[b][k] IN
    CASE i.op = "load" -> {<<"load", i.args, ClobberOf(fn, b, k)>>}
      [] i.op = "call" -> IF HasSideEffect(i) THEN {}
                          ELSE {<<"call", i.args, IF MayRead(i) THEN ClobberOf(fn, b, k) ELSE <<"", 0>>>>}
      [] i.op \in Numbered ->
            {<<i.op, IF i.op \in Commutative THEN {i.args, Reverse(i.args)} ELSE {i.args}, i.bits>>}
      [] OTHER -> {}

(* Instruction i is done, with the value a store gave it and what it       *)
(* computes.                                                               *)
Known(s, i, stored, expression) ==
    LET known == {s.table[e] : e \in expression \cap DOMAIN s.table}
        by(v) == [s EXCEPT !.by = (Val(i.id) :> v) @@ @]
    IN  CASE stored # {} -> by(Replaced(s.by, The(stored)))
          [] stored = {} /\ known # {} -> by(The(known))
          [] OTHER -> [s EXCEPT !.table = [e \in expression |-> Val(i.id)] @@ @]
NumberInstr(s, b, k) ==
    LET numbered(fn, i) ==
            The({Known([s EXCEPT !.code = fn], i, stored, expression) :
                    stored \in {IF i.op = "load" THEN ForwardedTo(fn, b, k) ELSE {}},
                    expression \in {Expression(fn, b, k)}})
        rewritten == [s.code EXCEPT !.body[b][k].args = [n \in DOMAIN @ |-> Replaced(s.by, @[n])]]
    IN  The({numbered(fn, fn.body[b][k]) : fn \in {rewritten}})

RECURSIVE Downwards(_, _)
Downwards(fn, b) ==
    LET below(children) == FlattenSeq([n \in DOMAIN children |-> The({Downwards(fn, c) : c \in {children[n]}})])
        inOrder(C) == SelectSeq(fn.order, LAMBDA c : c \in C)
    IN  <<b>> \o The({below(children) : children \in {inOrder(C) : C \in {DomChildren(fn, b)}}})
(* A block goes on with the table its parent ended with.                   *)
NumberBlock(s, b) ==
    LET parents == {d \in DOMAIN s.tables : b \in DomChildren(s.code, d)}
        given == IF parents = {} THEN <<>> ELSE s.tables[The(parents)]
    IN  The({[t EXCEPT !.tables = (b :> t.table) @@ @] :
                t \in {Through(LAMBDA t, k : NumberInstr(t, b, k), [s EXCEPT !.table = given],
                               [k \in DOMAIN s.code.body[b] |-> k])}})
NumberValues(fn) ==
    LET given == [code |-> fn, table |-> <<>>, tables |-> <<>>, by |-> <<>>]
    IN  The({ApplyReplacements(s.code, s.by) : s \in {Through(NumberBlock, given, Downwards(fn, Entry(fn)))}})

-----------------------------------------------------------------------------
(* Loads of what is known to be there.  Known memory is a list of          *)
(* addresses and what they hold, the latest last.                          *)

Holds(p, v) == [at |-> p, value |-> v]
\* Mutant: what is known of memory outlives the stores of other addresses.
MemoryAfter_KeepsOld(fn, known, i) ==
    CASE i.op = "load" -> Append(known, Holds(i.args[1], Val(i.id)))
      [] i.op = "store" -> Append(SelectSeq(known, LAMBDA e : e.at # i.args[2]), Holds(i.args[2], i.args[1]))
      [] OTHER -> known
MemoryAfter(fn, known, i) ==
    CASE i.op = "load" -> Append(known, Holds(i.args[1], Val(i.id)))
      [] i.op = "store" -> Append(SelectSeq(known, LAMBDA e : Alias(fn, i.args[2], e.at) = "no"),
                                  Holds(i.args[2], i.args[1]))
      [] i.op = "call" -> SelectSeq(known, LAMBDA e : ~CallMayClobber(fn, i, e.at))
      [] OTHER -> known

(* The latest that may hold what i loads, if it surely does and is a word. *)
Available(fn, known, i) ==
    LET near == {n \in DOMAIN known : Alias(fn, i.args[1], known[n].at) # "no"}
        latest == {known[Max(N)] : N \in {near} \ {{}}}
    IN  IF i.op # "load" THEN {}
        ELSE {e.value : e \in {a \in latest : /\ a.value[1] # "zero"
                                             /\ Alias(fn, i.args[1], a.at) = "must"}}

(* What is known after the block, and its loads with their replacements.   *)
ThroughBlock(fn, b, given) ==
    Through(LAMBDA s, i : [known |-> MemoryAfter(fn, s.known, i),
                           by |-> s.by \cup {<<Val(i.id), v>> : v \in Available(fn, s.known, i)}],
            [known |-> given, by |-> {}], fn.body[b])

(* Down the dominator tree; what is known goes on to a block that is       *)
(* entered from its parent only.                                           *)
RECURSIVE LoadsFrom(_, _, _)
LoadsFrom(fn, b, given) ==
    UNION {here.by \cup UNION {LoadsFrom(fn, c, IF Predecessors(fn, c) = {b} THEN here.known ELSE <<>>) :
                                  c \in DomChildren(fn, b)} :
              here \in {ThroughBlock(fn, b, given)}}
ForwardedLoads(fn) ==
    UNION {{<<Val(fn.body[b][k].id), v>> : v \in ForwardedTo(fn, b, k)} : <<b, k>> \in Loads(fn)}

(* Three ways to find what a load may be replaced by; the last to find      *)
(* something is heard.                                                      *)
EliminateDeadLoads(fn) ==
    LET inBlocks == UNION {ThroughBlock(fn, b, <<>>).by : b \in Blocks(fn)}
        by(pairs) == [v \in {p[1] : p \in pairs} |-> The({p[2] : p \in {q \in pairs : q[1] = v}})]
    IN  The({ApplyReplacements(fn, R) :
                R \in {by(inBlocks) @@ by(LoadsFrom(fn, Entry(fn), <<>>)) @@ by(ForwardedLoads(fn))}})

-----------------------------------------------------------------------------
(* What no instruction needs that has to stay.                             *)

LiveIn(fn) ==
    Through(LAMBDA live, k : live \cup {i \in InstrsOf(fn) : \E j \in live : Val(i.id) \in ToSet(j.args)},
             {i \in InstrsOf(fn) : ~Removable(i)}, [k \in 1..Cardinality(InstrsOf(fn)) |-> k])
EliminateAggressively(fn) ==
    The({[fn EXCEPT !.body = [b \in DOMAIN @ |-> SelectSeq(@[b], LAMBDA i : i \in live)]] :
            live \in {LiveIn(fn)}})
=============================================================================
