-------------------------------- MODULE DPLL ---------------------------------
(* What the SAT core of smt/Solver.cpp promises, without its watch lists,      *)
(* counters and recursion: a search by unit implication, decision and          *)
(* chronological backtracking that may give up at any time but never errs.     *)
(* A literal is a variable or its negative, a clause a set of literals, a      *)
(* valuation a set with one literal of every variable.                         *)
EXTENDS Integers, Sequences

CONSTANT NumVars
Vars == 1 .. NumVars

VARIABLES
  cnf,      \* the set of clauses
  trail,    \* the literals assumed true, oldest first
  open,     \* positions of the decisions whose other branch is untried
  mode      \* "search", "failing", "limit", or the verdict

vars == <<cnf, trail, open, mode>>

Lits == Vars \cup {-v : v \in Vars}
Verdicts == {"Sat", "Unsat", "Timeout"}

TypeOK ==
  /\ cnf \subseteq SUBSET Lits
  /\ trail \in Seq(Lits)
  /\ open \subseteq DOMAIN trail
  /\ mode \in {"search", "failing", "limit"} \cup Verdicts

Holds(l) == \E k \in DOMAIN trail : trail[k] = l
Assigned(l) == Holds(l) \/ Holds(-l)
Falsified(c) == \A l \in c : Holds(-l)

Init ==
  /\ cnf \in SUBSET SUBSET Lits
  /\ trail = << >>
  /\ open = {}
  /\ mode = "search"

\* A clause with all other literals false forces its last one.
Imply(c, l) ==
  /\ mode = "search"
  /\ l \in c /\ ~ Assigned(l)
  /\ \A m \in c \ {l} : Holds(-m)
  /\ trail' = Append(trail, l)
  /\ UNCHANGED <<cnf, open, mode>>

Decide(l) ==
  /\ mode = "search"
  /\ ~ Assigned(l)
  /\ trail' = Append(trail, l)
  /\ open' = open \cup {Len(trail) + 1}
  /\ UNCHANGED <<cnf, mode>>

\* A falsified clause ends the branch, and the search when it has no decision.
Conflict(c) ==
  /\ mode = "search"
  /\ Falsified(c)
  /\ mode' \in {"failing"} \cup (IF open = {} THEN {"Unsat"} ELSE {})
  /\ UNCHANGED <<cnf, trail, open>>

\* Literals after the newest open decision are forgotten.
Undo(n) ==
  /\ mode = "failing"
  /\ \A p \in open : p <= n
  /\ trail' = SubSeq(trail, 1, n)
  /\ UNCHANGED <<cnf, open, mode>>

\* The newest open decision is closed by taking its other branch.
Flip(p) ==
  /\ mode = "failing"
  /\ \A q \in open : q <= p
  /\ trail' = Append(SubSeq(trail, 1, p - 1), -trail[p])
  /\ open' = open \ {p}
  /\ mode' = "search"
  /\ UNCHANGED cnf

Fail ==
  /\ mode = "failing" /\ open = {}
  /\ mode' = "Unsat"
  /\ UNCHANGED <<cnf, trail, open>>

Succeed ==
  /\ mode = "search"
  /\ \A c \in cnf : \E l \in c : Holds(l)
  /\ mode' = "Sat"
  /\ UNCHANGED <<cnf, trail, open>>

\* Giving up, and unwinding afterwards.
GiveUp(n) ==
  /\ mode \in {"search", "failing", "limit"}
  /\ trail' = SubSeq(trail, 1, n)
  /\ open' = open \cap 1 .. n
  /\ mode' \in {"limit", "Timeout"}
  /\ UNCHANGED cnf

Next ==
  \/ \E c \in cnf : \E l \in c : Imply(c, l)
  \/ \E l \in Lits : Decide(l)
  \/ \E c \in cnf : Conflict(c)
  \/ \E n \in 0 .. Len(trail) : Undo(n) \/ GiveUp(n)
  \/ \E p \in open : Flip(p)
  \/ Fail
  \/ Succeed

Spec == Init /\ [][Next]_vars

-----------------------------------------------------------------------------
Valuations == {M \in SUBSET Lits : \A v \in Vars : v \in M <=> -v \notin M}
Models == {M \in Valuations : \A c \in cnf : c \cap M # {}}

\* The valuation the caller is handed: what is not assigned is false.
Extracted == {v \in Vars : Holds(v)} \cup {-v : v \in {w \in Vars : ~ Holds(w)}}

\* The verdicts are right: Sat comes with a model, Unsat says there is none.
VerdictSound ==
  /\ mode = "Sat" => Extracted \in Models
  /\ mode = "Unsat" => Models = {}
=============================================================================
