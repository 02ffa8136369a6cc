----------------------------- MODULE SatSolver ------------------------------
(* SatSolver in smt/Solver.cpp: clause learning is absent, the search is a     *)
(* recursion over decisions with two watched literals per clause.  The         *)
(* recursion is the stack frames, one action is one step between two reads of  *)
(* the clock or of the counters.                                               *)
EXTENDS Integers, Sequences, FiniteSets, FiniteSetsExt, SequencesExt

CONSTANTS
  NumVars,    \* var_count_
  Problems    \* records clauses, assumptions, limits

Vars == 1 .. NumVars
Lits == Vars \cup {-v : v \in Vars}
Abs(l) == IF l < 0 THEN -l ELSE l

\* What solve is called with.  BitBlaster makes every clause of different
\* variables: it folds a gate whose inputs are equal or opposite.
IsProblem(q) ==
  /\ q.clauses \in Seq(Seq(Lits)) /\ q.assumptions \in Seq(Lits)
  /\ \A k \in DOMAIN q.clauses : \A i, j \in DOMAIN q.clauses[k] :
       Abs(q.clauses[k][i]) = Abs(q.clauses[k][j]) => i = j
  /\ {q.limits.vars, q.limits.clauses, q.limits.conflicts, q.limits.propagations,
      q.limits.decisions} \subseteq Nat
  /\ q.limits.timed \in BOOLEAN

ASSUME NumVarsAssumption == NumVars \in Nat
ASSUME ProblemsAssumption == \A q \in Problems : IsProblem(q)

VARIABLES
  problem,                \* clauses_, the assumptions and options_
  assignment, trail,      \* assignment_ (-1, 0, 1), trail_
  frames,                 \* the dfs calls: decision literal, branch, trail_limits_ entry
  qhead,                  \* literals of the trail already propagated
  watches, watchPos,      \* watches_, watch_pos_
  scan,                   \* position in the watch list being visited
  decisions, conflicts, propagations,
  late, exhausted,        \* the deadline has passed; limit_exhausted_
  pc, result

searchVars == <<assignment, trail, frames, qhead>>
watchVars == <<watches, watchPos>>
counters == <<decisions, conflicts, propagations>>
vars == <<problem, searchVars, watchVars, scan, counters, late, exhausted, pc, result>>

clauses == problem.clauses
limits == problem.limits

LiteralTrue(l) == assignment[Abs(l)] = (IF l > 0 THEN 1 ELSE 0)
LiteralFalse(l) == assignment[Abs(l)] = (IF l > 0 THEN 0 ELSE 1)
Unassigned(l) == assignment[Abs(l)] = -1

\* within_limits with so many conflicts counted.
WithinLimits(c) ==
  /\ NumVars <= limits.vars /\ Len(clauses) <= limits.clauses
  /\ c <= limits.conflicts /\ propagations <= limits.propagations
  /\ ~ late

\* Mutant: one decision too many.
CanDecide_OffByOne == decisions <= limits.decisions

CanDecide == decisions < limits.decisions

\* assign, for a literal not false yet.
Assign(l) ==
  /\ assignment' = [assignment EXCEPT ![Abs(l)] = IF l > 0 THEN 1 ELSE 0]
  /\ trail' = IF Unassigned(l) THEN Append(trail, l) ELSE trail

Finish(r) == pc' = "done" /\ result' = r

\* A literal that has to hold before the search: it is assigned, or there is
\* no solution.
AssignOrRefute(l) ==
  IF LiteralFalse(l) THEN Finish("Unsat") /\ UNCHANGED searchVars
                     ELSE Assign(l) /\ UNCHANGED <<frames, qhead, pc, result>>

-----------------------------------------------------------------------------
(* rebuild_watches and the assumptions *)

\* The clauses are watched at their first two literals.
FirstTwo(c) == {1, 2} \cap DOMAIN c

\* A clause is watched and a unit clause assigned; one that is empty, or false
\* already, decides the problem.
WatchClause ==
  /\ pc = "watch" /\ Len(watchPos) < Len(clauses)
  /\ LET k == Len(watchPos) + 1
         c == clauses[k]
     IN  IF c = << >>
         THEN Finish("Unsat") /\ UNCHANGED <<searchVars, watchVars>>
         ELSE /\ watchPos' = Append(watchPos, <<1, Max(FirstTwo(c))>>)
              /\ watches' = [l \in Lits |->
                   watches[l] \o [n \in 1 .. Cardinality({p \in FirstTwo(c) : c[p] = l}) |-> k]]
              /\ IF Len(c) = 1 THEN AssignOrRefute(c[1]) ELSE UNCHANGED <<searchVars, pc, result>>
  /\ UNCHANGED <<problem, scan, counters, late, exhausted>>

Assume ==
  /\ pc = "watch" /\ Len(watchPos) = Len(clauses) /\ scan <= Len(problem.assumptions)
  /\ AssignOrRefute(problem.assumptions[scan])
  /\ scan' = scan + 1
  /\ UNCHANGED <<problem, watchVars, counters, late, exhausted>>

Begin ==
  /\ pc = "watch" /\ Len(watchPos) = Len(clauses) /\ scan > Len(problem.assumptions)
  /\ pc' = "enter"
  /\ UNCHANGED <<problem, searchVars, watchVars, scan, counters, late, exhausted, result>>

-----------------------------------------------------------------------------
(* dfs: a limit is looked at on entry, before every literal, and at conflicts *)

Enter ==
  /\ pc = "enter"
  /\ IF WithinLimits(conflicts) THEN pc' = "propagate" /\ UNCHANGED exhausted
                                ELSE pc' = "return" /\ exhausted' = TRUE
  /\ UNCHANGED <<problem, searchVars, watchVars, scan, counters, late, result>>

\* propagate takes the next literal off the trail.  Giving up here counts as a
\* conflict, too.
TakeLiteral ==
  /\ pc = "propagate" /\ qhead < Len(trail)
  /\ IF WithinLimits(conflicts)
     THEN /\ qhead' = qhead + 1
          /\ propagations' = propagations + 1
          /\ scan' = 1
          /\ pc' = "visit"
          /\ UNCHANGED <<conflicts, exhausted>>
     ELSE /\ conflicts' = conflicts + 1
          /\ exhausted' = TRUE
          /\ pc' = "return"
          /\ UNCHANGED <<qhead, propagations, scan>>
  /\ UNCHANGED <<problem, assignment, trail, frames, watchVars, decisions, late, result>>

FalseLit == -trail[qhead]
Visited == watches[FalseLit][scan]
Visiting == pc = "visit" /\ scan <= Len(watches[FalseLit])

\* Which of the two watches of the visited clause is the false literal; a
\* stale entry has none.
Slots == {s \in {1, 2} : clauses[Visited][watchPos[Visited][s]] = FalseLit}
Slot == Min(Slots)
OtherLit == clauses[Visited][watchPos[Visited][3 - Slot]]

\* Mutant: only positions after the two watches are looked at.
Candidates_Later == {p \in DOMAIN clauses[Visited] :
                       p > Max(Range(watchPos[Visited])) /\ ~ LiteralFalse(clauses[Visited][p])}

\* The positions the watch may move to.
Candidates == {p \in DOMAIN clauses[Visited] :
                 p \notin Range(watchPos[Visited]) /\ ~ LiteralFalse(clauses[Visited][p])}

\* Mutant: the loop goes on without advancing.
SkipEntry_Stays ==
  /\ Visiting
  /\ Slots = {} \/ LiteralTrue(OtherLit)
  /\ UNCHANGED vars

SkipEntry ==
  /\ Visiting
  /\ Slots = {} \/ LiteralTrue(OtherLit)
  /\ scan' = scan + 1
  /\ UNCHANGED <<problem, searchVars, watchVars, counters, late, exhausted, pc, result>>

\* Mutant: the entry leaves its list and joins no other.
MoveWatch_Dropped ==
  /\ Visiting /\ ~ LiteralTrue(OtherLit) /\ Candidates # {}
  /\ watchPos' = [watchPos EXCEPT ![Visited][Slot] = Min(Candidates)]
  /\ LET list == watches[FalseLit]
     IN  watches' = [watches EXCEPT ![FalseLit] = Front([list EXCEPT ![scan] = Last(list)])]
  /\ UNCHANGED <<problem, searchVars, scan, counters, late, exhausted, pc, result>>

\* The entry leaves this list, the last one taking its place, and joins another.
MoveWatch ==
  /\ Visiting /\ ~ LiteralTrue(OtherLit) /\ Candidates # {}
  /\ LET p == Min(Candidates)
         list == watches[FalseLit]
     IN  /\ watchPos' = [watchPos EXCEPT ![Visited][Slot] = p]
         /\ watches' = [watches EXCEPT
              ![FalseLit] = Front([list EXCEPT ![scan] = Last(list)]),
              ![clauses[Visited][p]] = Append(@, Visited)]
  /\ UNCHANGED <<problem, searchVars, scan, counters, late, exhausted, pc, result>>

Imply ==
  /\ Visiting /\ Unassigned(OtherLit) /\ Candidates = {}
  /\ Assign(OtherLit)
  /\ scan' = scan + 1
  /\ UNCHANGED <<problem, frames, qhead, watchVars, counters, late, exhausted, pc, result>>

\* Both watches are false and nothing else is left: the branch is closed.
Conflict ==
  /\ Visiting /\ LiteralFalse(OtherLit) /\ Candidates = {}
  /\ conflicts' = conflicts + 1
  /\ exhausted' = ~ WithinLimits(conflicts')
  /\ pc' = "return"
  /\ UNCHANGED <<problem, searchVars, watchVars, scan, decisions, propagations, late, result>>

ListDone ==
  /\ pc = "visit" /\ scan > Len(watches[FalseLit])
  /\ pc' = "propagate"
  /\ UNCHANGED <<problem, searchVars, watchVars, scan, counters, late, exhausted, result>>

-----------------------------------------------------------------------------
(* The branches *)

Satisfied(c) == \E p \in DOMAIN c : LiteralTrue(c[p])
FirstUnassigned(c) == c[Min({p \in DOMAIN c : Unassigned(c[p])})]
Undecided == {k \in DOMAIN clauses : /\ ~ Satisfied(clauses[k])
                                     /\ \E p \in DOMAIN clauses[k] : Unassigned(clauses[k][p])}
FreeVars == {v \in Vars : assignment[v] = -1}

\* choose_decision_literal: 0 when there is nothing left to decide.
DecisionLit ==
  IF Undecided # {} THEN FirstUnassigned(clauses[Min(Undecided)])
  ELSE IF FreeVars # {} THEN Min(FreeVars)
  ELSE 0

Propagated == pc = "propagate" /\ qhead = Len(trail)
AllSatisfied == \A k \in DOMAIN clauses : Satisfied(clauses[k])

Succeed ==
  /\ Propagated
  /\ AllSatisfied \/ DecisionLit = 0
  /\ Finish(IF exhausted THEN "Timeout" ELSE "Sat")
  /\ UNCHANGED <<problem, searchVars, watchVars, scan, counters, late, exhausted>>

\* The branch of l at the end of trail t; dfs is entered for it.
Branch(l, n, t, assigned) ==
  /\ frames' = Append(SubSeq(frames, 1, Len(frames) - n + 1), [lit |-> l, branch |-> n, limit |-> Len(t)])
  /\ trail' = Append(t, l)
  /\ assignment' = [assigned EXCEPT ![Abs(l)] = IF l > 0 THEN 1 ELSE 0]
  /\ decisions' = decisions + 1
  /\ pc' = "enter"

Decide ==
  /\ Propagated /\ ~ AllSatisfied /\ DecisionLit # 0
  /\ IF CanDecide
     THEN Branch(DecisionLit, 1, trail, assignment) /\ UNCHANGED exhausted
     ELSE /\ exhausted' = TRUE /\ pc' = "return"
          /\ UNCHANGED <<frames, trail, assignment, decisions>>
  /\ UNCHANGED <<problem, qhead, watchVars, scan, conflicts, propagations, late, result>>

\* pop_level, followed by the other branch when this was the first one.
Popped == SubSeq(trail, 1, Last(frames).limit)

Unwound == [v \in Vars |-> IF \E k \in DOMAIN Popped : Abs(Popped[k]) = v THEN assignment[v] ELSE -1]

\* Mutant: the propagation queue is not reset.
Backtrack_QheadKept ==
  /\ pc = "return" /\ frames # << >>
  /\ IF Last(frames).branch = 1 /\ ~ exhausted /\ CanDecide
     THEN Branch(-Last(frames).lit, 2, Popped, Unwound) /\ UNCHANGED exhausted
     ELSE /\ trail' = Popped /\ assignment' = Unwound
          /\ frames' = Front(frames)
          /\ exhausted' = (exhausted \/ Last(frames).branch = 1)
          /\ UNCHANGED <<decisions, pc>>
  /\ UNCHANGED <<problem, qhead, watchVars, scan, conflicts, propagations, late, result>>

\* Mutant: the other branch of a decision is never tried.
Backtrack_OneBranch ==
  /\ pc = "return" /\ frames # << >>
  /\ qhead' = Min({qhead, Len(Popped)})
  /\ trail' = Popped /\ assignment' = Unwound
  /\ frames' = Front(frames)
  /\ UNCHANGED <<problem, watchVars, scan, counters, late, exhausted, pc, result>>

Backtrack ==
  /\ pc = "return" /\ frames # << >>
  /\ qhead' = Min({qhead, Len(Popped)})
  /\ IF Last(frames).branch = 1 /\ ~ exhausted /\ CanDecide
     THEN Branch(-Last(frames).lit, 2, Popped, Unwound) /\ UNCHANGED exhausted
     ELSE /\ trail' = Popped /\ assignment' = Unwound
          /\ frames' = Front(frames)
          /\ exhausted' = (exhausted \/ Last(frames).branch = 1)
          /\ UNCHANGED <<decisions, pc>>
  /\ UNCHANGED <<problem, watchVars, scan, conflicts, propagations, late, result>>

Return ==
  /\ pc = "return" /\ frames = << >>
  /\ Finish(IF exhausted THEN "Timeout" ELSE "Unsat")
  /\ UNCHANGED <<problem, searchVars, watchVars, scan, counters, late, exhausted>>

\* steady_clock passes the deadline of a solve that has one.
Deadline ==
  /\ pc # "done" /\ limits.timed /\ ~ late
  /\ late' = TRUE
  /\ UNCHANGED <<problem, searchVars, watchVars, scan, counters, exhausted, pc, result>>

-----------------------------------------------------------------------------
Init ==
  /\ problem \in Problems
  /\ assignment = [v \in Vars |-> -1] /\ trail = << >> /\ frames = << >> /\ qhead = 0
  /\ watches = [l \in Lits |-> << >>] /\ watchPos = << >>
  /\ scan = 1
  /\ decisions = 0 /\ conflicts = 0 /\ propagations = 0
  /\ late = FALSE /\ exhausted = FALSE
  /\ pc = "watch" /\ result = "none"

Step ==
  \/ WatchClause \/ Assume \/ Begin
  \/ Enter \/ TakeLiteral \/ SkipEntry \/ MoveWatch \/ Imply \/ Conflict \/ ListDone
  \/ Succeed \/ Decide \/ Backtrack \/ Return

Next == Step \/ Deadline

Spec == Init /\ [][Next]_vars

\* solve runs on one thread; the clock may or may not interrupt it.
FairSpec == Spec /\ WF_vars(Step)

-----------------------------------------------------------------------------
(* Properties *)

\* The list of a literal holds exactly the clauses that watch it, once per watch.
WatchListsExact ==
  \A k \in DOMAIN watchPos : \A l \in Lits :
    Cardinality({n \in DOMAIN watches[l] : watches[l][n] = k})
      = Cardinality({p \in Range(watchPos[k]) : clauses[k][p] = l})

\* Once all literals are propagated, no clause is false and none has a single
\* literal left that nothing forces: neither conflict nor implication is missed,
\* whatever was unwound before.
PropagationComplete ==
  Propagated => \A k \in DOMAIN clauses :
    Satisfied(clauses[k]) \/ Cardinality({l \in Range(clauses[k]) : Unassigned(l)}) >= 2

Models ==
  {M \in SUBSET Vars :
     LET true(l) == IF l > 0 THEN l \in M ELSE -l \notin M
     IN  /\ \A k \in DOMAIN clauses : \E p \in DOMAIN clauses[k] : true(clauses[k][p])
         /\ \A k \in DOMAIN problem.assumptions : true(problem.assumptions[k])}

\* Sat comes with a model of all clauses and assumptions once what is not
\* assigned is read as false, and Unsat is only said of what has none.
VerdictSound ==
  /\ result = "Sat" => {v \in Vars : assignment[v] = 1} \in Models
  /\ result = "Unsat" => Models = {}

\* Timeout is said only when the deadline or a budget was really reached, and
\* no budget is overrun by more than the one step that notices it.
LimitsHonoured ==
  /\ result = "Timeout" => \/ late \/ decisions >= limits.decisions
                           \/ conflicts > limits.conflicts \/ propagations > limits.propagations
                           \/ NumVars > limits.vars \/ Len(clauses) > limits.clauses
  /\ decisions <= limits.decisions
  /\ propagations <= limits.propagations + 1 /\ conflicts <= limits.conflicts + 1

\* Every solve ends, however the branches and the deadline fall.
Terminates == <>(pc = "done")

\* The search is the DPLL of module DPLL; assumptions are unit clauses, and what
\* is open is the decisions in their first branch.
Cnf == {Range(clauses[k]) : k \in DOMAIN clauses}
       \cup {{problem.assumptions[k]} : k \in DOMAIN problem.assumptions}
Open == {frames[k].limit + 1 : k \in {n \in DOMAIN frames : frames[n].branch = 1}}
Mode ==
  IF pc = "done" THEN result
  ELSE IF exhausted THEN "limit"
  ELSE IF pc = "return" THEN "failing" ELSE "search"

D == INSTANCE DPLL WITH cnf <- Cnf, open <- Open, mode <- Mode
ImplementsDPLL == D!Spec
=============================================================================
