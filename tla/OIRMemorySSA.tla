---------------------------- MODULE OIRMemorySSA ----------------------------
(***************************************************************************)
(* Versions of memory (MemorySSA of src/oir/OIRAnalysis.cpp).  Every       *)
(* instruction that may write makes a version, and so does every block     *)
(* where several meet.  The version after instruction k of block b is      *)
(* <<b, k>>, the one made by meeting at b is <<b, 0>>, and so is the one a *)
(* function starts with, at its entry.  A load asks which version was the  *)
(* last to touch what it reads.  Every block is reachable: cleanup_cfg has *)
(* been before.                                                            *)
(***************************************************************************)
EXTENDS OIRAlias

IsMemoryDef(i) == i.op \in {"store", "memzero"} \/ (IsInternalCall(i) /\ MayWrite(i))
MemoryDefs(fn) ==
    {d \in UNION {{b} \X DOMAIN fn.body[b] : b \in Blocks(fn)} : IsMemoryDef(fn.body[d[1]][d[2]])}
MemoryPhiAt(fn, b) == b = Entry(fn) \/ Cardinality(Predecessors(fn, b)) > 1

(* The version before instruction k of block b.                            *)
RECURSIVE VersionBefore(_, _, _)
VersionBefore(fn, b, k) ==
    LET earlier == {d \in MemoryDefs(fn) : d[1] = b /\ d[2] < k} IN
    CASE earlier # {} -> <<b, Max({d[2] : d \in earlier})>>
      [] earlier = {} /\ MemoryPhiAt(fn, b) -> <<b, 0>>
      [] OTHER -> The({VersionBefore(fn, p, Len(fn.body[p]) + 1) : p \in Predecessors(fn, b)})

(* The last version at or before a that is one of those that write, or     *)
(* where different ones meet.  A loop comes back to where it was asked.    *)
\* Mutant: where versions meet, the first way in decides.
RECURSIVE FindClobber_FirstWay(_, _, _, _)
FindClobber_FirstWay(fn, writing, a, active) ==
    CASE a = <<Entry(fn), 0>> \/ a \in active \/ a \in writing -> a
      [] a[2] > 0 -> FindClobber_FirstWay(fn, writing, VersionBefore(fn, a[1], a[2]), active \cup {a})
      [] OTHER -> LET p == CHOOSE p \in Predecessors(fn, a[1]) : TRUE
                  IN  FindClobber_FirstWay(fn, writing, VersionBefore(fn, p, Len(fn.body[p]) + 1),
                                           active \cup {a})
RECURSIVE FindClobber(_, _, _, _)
FindClobber(fn, writing, a, active) ==
    CASE a = <<Entry(fn), 0>> \/ a \in active \/ a \in writing -> a
      [] a[2] > 0 -> The({FindClobber(fn, writing, v, active \cup {a}) : v \in {VersionBefore(fn, a[1], a[2])}})
      [] OTHER -> LET ways == {VersionBefore(fn, p, Len(fn.body[p]) + 1) : p \in Predecessors(fn, a[1])}
                      found == {FindClobber(fn, writing, v, active \cup {a}) : v \in ways}
                  IN  The({IF Cardinality(c) = 1 THEN The(c) ELSE a : c \in {found}})

WritesTo(fn, d, p) ==
    LET i == fn.body[d[1]][d[2]] IN
    CASE i.op = "store" -> Alias(fn, i.args[2], p) # "no"
      [] i.op = "memzero" -> Alias(fn, i.args[1], p) # "no"
      [] OTHER -> CallMayClobber(fn, i, p)
WritesWhatIsRead(fn, d, call) ==
    LET i == fn.body[d[1]][d[2]] IN
    CASE i.op = "store" -> CallMayRead(fn, call, i.args[2])
      [] i.op = "memzero" -> CallMayRead(fn, call, i.args[1])
      [] OTHER -> TRUE

Loads(fn) ==
    {d \in UNION {{b} \X DOMAIN fn.body[b] : b \in Blocks(fn)} : fn.body[d[1]][d[2]].op = "load"}

(* For the load or the reading call at instruction k of block b.           *)
ClobberOf(fn, b, k) ==
    LET i == fn.body[b][k]
        touching == {d \in MemoryDefs(fn) : IF i.op = "load" THEN WritesTo(fn, d, i.args[1])
                                            ELSE WritesWhatIsRead(fn, d, i)}
    IN  The({FindClobber(fn, writing, a, {}) : writing \in {touching}, a \in {VersionBefore(fn, b, k)}})

(* The value a load finds because a store wrote it there last, as a set.   *)
ForwardedTo(fn, b, k) ==
    LET stores == {fn.body[c[1]][c[2]] : c \in {d \in {ClobberOf(fn, b, k)} : d[2] # 0}}
    IN  {i.args[1] : i \in {j \in stores : /\ j.op = "store" /\ j.args[1][1] # "zero"
                                           /\ Alias(fn, fn.body[b][k].args[1], j.args[2]) = "must"}}

(* Replacements, a function from values to values, followed to their end   *)
(* (apply_replacements).                                                   *)
RECURSIVE Replaced(_, _)
Replaced(R, v) == IF v \in DOMAIN R THEN The({Replaced(R, u) : u \in {R[v]}}) ELSE v
ApplyReplacements(fn, R) == ReplaceOperands(fn, LAMBDA v : Replaced(R, v))

(* The dominator tree (its construction is DominatorTree).                 *)
DomChildren(fn, b) ==
    {c \in Blocks(fn) \ {b} : /\ Dominates(fn, b, c)
                              /\ \A d \in Blocks(fn) \ {b, c} :
                                    Dominates(fn, d, c) => Dominates(fn, d, b)}
=============================================================================
