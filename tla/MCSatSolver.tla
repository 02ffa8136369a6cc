----------------------------- MODULE MCSatSolver ----------------------------
(* Formulas over three variables, as sequences of clauses; the order of the    *)
(* literals decides what is watched first.                                     *)
EXTENDS SatSolver

Roomy == [vars |-> 9, clauses |-> 9, conflicts |-> 99, propagations |-> 99, decisions |-> 99, timed |-> FALSE]

\* The two-literal clauses over variables 1 and 2 and clauses over all three.
\* Like the clauses BitBlaster adds, they repeat no variable.
Pool == << <<1, 2>>, <<-1, 2>>, <<2, -1, 3>>, <<-2, 1>>, <<-1, -2>>, <<1, 2, 3>>, <<-3, -1, -2>>,
           <<3, -2>>, <<-3, 2, 1>>, <<-3, -2>>, <<3>>, <<-1>> >>

\* The chosen clauses in the order of the pool.
Formula(S) == [n \in 1 .. Cardinality(S) |-> Pool[SetToSortSeq(S, <)[n]]]

Formulas == {Formula(S) : S \in UNION {kSubset(k, DOMAIN Pool) : k \in 2 .. 5}}

\* The eight clauses of three literals: no model, and no unit to start from.
AllSigns == << <<1, 2, 3>>, <<2, 1, -3>>, <<3, -2, 1>>, <<-3, -2, 1>>,
               <<-1, 3, 2>>, <<2, -3, -1>>, <<-1, -2, 3>>, <<-2, -1, -3>> >>

\* Assumptions, contradicting ones too.
AssumingProblems ==
  {[clauses |-> f, assumptions |-> a, limits |-> Roomy] :
     f \in {Formula(S) : S \in kSubset(3, DOMAIN Pool)}, a \in {<<-2>>, <<3, 1>>, <<1, -1>>}}

\* Every budget small, and a deadline that may pass between any two steps.
TightLimits ==
  [vars : {2, 3}, clauses : {9}, conflicts : {0, 1, 9}, propagations : {2, 6},
   decisions : {0, 1, 3}, timed : BOOLEAN]
LimitedProblems ==
  {[clauses |-> f, assumptions |-> << >>, limits |-> t] :
     f \in {AllSigns, SubSeq(AllSigns, 1, 7), << <<1, 2>>, <<-1, 2>>, <<-2, 3>> >>,
            << <<1, 2>>, <<-1, 2>>, <<-2, 3>>, <<-3, -2>> >>}, t \in TightLimits}

MCProblems ==
  {[clauses |-> f, assumptions |-> << >>, limits |-> Roomy] : f \in Formulas \cup {AllSigns}}
  \cup AssumingProblems \cup LimitedProblems
=============================================================================
