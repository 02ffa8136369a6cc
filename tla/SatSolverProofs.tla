--------------------------- MODULE SatSolverProofs ---------------------------
(* The SAT core is right for any number of variables, any clauses and any       *)
(* budgets: its watch lists, its propagation, its verdicts and its limits, and  *)
(* that it is a DPLL search.  The invariant that carries the proof says what a  *)
(* watch promises: once the negation of a watched literal has been propagated,  *)
(* the other watch of the clause is true, and has been since no later level, so *)
(* that no unwinding takes it away first.                                       *)
EXTENDS SatSolver, FiniteSetTheorems, WellFoundedInduction, TLAPS

Frame == [lit : Lits, branch : {1, 2}, limit : Nat]

TypeOK ==
  /\ IsProblem(problem)
  /\ assignment \in [Vars -> {-1, 0, 1}] /\ trail \in Seq(Lits)
  /\ frames \in Seq(Frame)
  /\ qhead \in 0 .. Len(trail)
  /\ watches \in [Lits -> Seq(DOMAIN clauses)] /\ watchPos \in Seq(Nat \X Nat)
  /\ scan \in Nat \ {0}
  /\ decisions \in Nat /\ conflicts \in Nat /\ propagations \in Nat
  /\ late \in BOOLEAN /\ exhausted \in BOOLEAN
  /\ pc \in {"watch", "enter", "propagate", "visit", "return", "done"}
  /\ result \in {"none", "Sat", "Unsat", "Timeout"}

\* Where the search stands.
ControlOK ==
  /\ pc = "done" <=> result # "none"
  /\ exhausted => pc \in {"return", "done"}
  /\ result = "Sat" => ~ exhausted
  /\ pc = "watch" => frames = << >> /\ qhead = 0
  /\ pc \notin {"watch", "done"} => Len(watchPos) = Len(clauses)
  /\ pc = "visit" => qhead >= 1

\* Trail t lists the literals assignment a makes true, each variable once.
Holding(a, l) == a[Abs(l)] = (IF l > 0 THEN 1 ELSE 0)
Fits(a, t) ==
  /\ a \in [Vars -> {-1, 0, 1}] /\ t \in Seq(Lits)
  /\ \A j \in DOMAIN t : Holding(a, t[j])
  /\ \A v \in Vars : a[v] # -1 => \E j \in DOMAIN t : Abs(t[j]) = v
  /\ \A i, j \in DOMAIN t : Abs(t[i]) = Abs(t[j]) => i = j
TrailOK == Fits(assignment, trail)

\* A level begins with its decision; everything before it has been propagated.
FramesOK ==
  /\ \A n \in DOMAIN frames : /\ frames[n].limit < Len(trail)
                              /\ trail[frames[n].limit + 1] = frames[n].lit
                              /\ frames[n].limit <= qhead
  /\ \A m, n \in DOMAIN frames : m < n => frames[m].limit < frames[n].limit
  /\ pc = "visit" \/ (pc = "return" /\ ~ exhausted) =>
       \A n \in DOMAIN frames : frames[n].limit < qhead

\* The literal clause k watches in slot s.
Watched(k, s) == clauses[k][watchPos[k][s]]

\* Each clause watches two positions, one if it has no more, and its number is
\* in the lists of the literals there, once, and in no others.
WatchesOK ==
  /\ Len(watchPos) <= Len(clauses)
  /\ \A k \in DOMAIN watchPos :
       /\ watchPos[k][1] \in DOMAIN clauses[k] /\ watchPos[k][2] \in DOMAIN clauses[k]
       /\ watchPos[k][1] = watchPos[k][2] => Len(clauses[k]) = 1
       /\ \A s \in {1, 2} : \E n \in DOMAIN watches[Watched(k, s)] : watches[Watched(k, s)][n] = k
  /\ \A l \in Lits : \A n \in DOMAIN watches[l] :
       /\ watches[l][n] \in DOMAIN watchPos
       /\ \E s \in {1, 2} : Watched(watches[l][n], s) = l
       /\ \A m \in DOMAIN watches[l] : watches[l][m] = watches[l][n] => m = n

\* Position i of the trail is in no later level than position j.
NoLater(i, j) == \A n \in DOMAIN frames : j <= frames[n].limit => i <= frames[n].limit

\* The other watch is true, and stays so as long as position j of the trail does.
Blocked(k, s, j) == \E i \in DOMAIN trail : trail[i] = Watched(k, 3 - s) /\ NoLater(i, j)

\* Position j of the trail has been propagated.
Passed(j) == j < qhead \/ (j = qhead /\ pc \notin {"visit", "return", "done"})

QueueOK ==
  /\ \A k \in DOMAIN watchPos : \A s \in {1, 2} : \A j \in DOMAIN trail :
       trail[j] = -Watched(k, s) /\ Passed(j) => Blocked(k, s, j)
  /\ pc = "visit" => \A n \in DOMAIN watches[FalseLit] : \A s \in {1, 2} :
       n < scan /\ Watched(watches[FalseLit][n], s) = FalseLit
         => Blocked(watches[FalseLit][n], s, qhead)

\* l is on the trail before the first decision.
AtBase(l) == \E j \in DOMAIN trail : trail[j] = l /\ \A n \in DOMAIN frames : j <= frames[n].limit

\* Unit clauses and assumptions hold in every branch.
BaseOK ==
  /\ pc # "done" => \A k \in DOMAIN watchPos : Len(clauses[k]) = 1 => AtBase(clauses[k][1])
  /\ pc # "done" => \A k \in DOMAIN problem.assumptions :
       pc # "watch" \/ k < scan => AtBase(problem.assumptions[k])
  /\ pc = "watch" /\ Len(watchPos) < Len(clauses) => scan = 1

Exceeded ==
  \/ late \/ decisions >= limits.decisions
  \/ conflicts > limits.conflicts \/ propagations > limits.propagations
  \/ NumVars > limits.vars \/ Len(clauses) > limits.clauses

\* The flag is raised for a reason, and counting stops there.
BudgetOK ==
  /\ exhausted => Exceeded
  /\ result = "Timeout" => exhausted
  /\ decisions <= limits.decisions
  /\ propagations <= limits.propagations + 1
  /\ conflicts <= limits.conflicts + 1
  /\ ~ exhausted => conflicts <= limits.conflicts

IInv == /\ TypeOK /\ ControlOK /\ TrailOK /\ FramesOK
        /\ WatchesOK /\ QueueOK /\ BaseOK /\ BudgetOK

-----------------------------------------------------------------------------
(* Literals, sequences and the trail *)

LEMMA LitFacts ==
  ASSUME NEW l \in Lits
  PROVE  /\ l \in Int /\ l # 0 /\ -l \in Lits /\ l # -l /\ -(-l) = l
         /\ Abs(l) \in Vars /\ Abs(-l) = Abs(l) /\ (-l > 0 <=> ~ l > 0)
BY NumVarsAssumption DEF Vars, Lits, Abs

LEMMA SameVar ==
  ASSUME NEW l \in Lits, NEW m \in Lits, Abs(l) = Abs(m)
  PROVE  l = m \/ l = -m
BY NumVarsAssumption DEF Vars, Lits, Abs

LEMMA Pushed ==
  ASSUME NEW S, NEW s \in Seq(S), NEW x \in S
  PROVE  /\ Append(s, x) \in Seq(S) /\ Len(Append(s, x)) = Len(s) + 1
         /\ DOMAIN Append(s, x) = 1 .. Len(s) + 1
         /\ Append(s, x)[Len(s) + 1] = x
         /\ \A k \in 1 .. Len(s) : Append(s, x)[k] = s[k]
OBVIOUS

LEMMA Prefix ==
  ASSUME NEW S, NEW s \in Seq(S), NEW n \in 0 .. Len(s)
  PROVE  /\ SubSeq(s, 1, n) \in Seq(S)
         /\ Len(SubSeq(s, 1, n)) = n /\ DOMAIN SubSeq(s, 1, n) = 1 .. n
         /\ \A k \in 1 .. n : SubSeq(s, 1, n)[k] = s[k]
OBVIOUS

LEMMA Whole ==
  ASSUME NEW S, NEW s \in Seq(S)
  PROVE  SubSeq(s, 1, Len(s)) = s
OBVIOUS

On(l) == \E j \in DOMAIN trail : trail[j] = l

\* A literal is true or false as it or its negation is on the trail.
LEMMA TrueOnTrail ==
  ASSUME TypeOK, TrailOK, NEW l \in Lits
  PROVE  /\ LiteralTrue(l) <=> On(l)
         /\ LiteralFalse(l) <=> On(-l)
         /\ Unassigned(l) <=> ~ On(l) /\ ~ On(-l)
<1>1. ASSUME NEW m \in Lits PROVE LiteralTrue(m) <=> On(m)
  <2>1. On(m) => LiteralTrue(m)
    BY DEF On, TrailOK, Fits, Holding, LiteralTrue
  <2>2. ASSUME LiteralTrue(m) PROVE On(m)
    <3>1. Abs(m) \in Vars /\ assignment[Abs(m)] # -1
      BY <2>2, LitFacts DEF LiteralTrue
    <3>2. PICK j \in DOMAIN trail : Abs(trail[j]) = Abs(m)
      BY <3>1 DEF TrailOK, Fits
    <3>3. trail[j] \in Lits
      BY DEF TypeOK
    <3>4. trail[j] # -m
      <4>1. SUFFICES ASSUME trail[j] = -m PROVE FALSE
        OBVIOUS
      <4>2. LiteralTrue(-m)
        BY <4>1 DEF TrailOK, Fits, Holding, LiteralTrue
      <4> QED BY <2>2, <4>2, LitFacts DEF LiteralTrue
    <3> QED BY <3>2, <3>3, <3>4, SameVar DEF On
  <2> QED BY <2>1, <2>2
<1>2. LiteralFalse(l) <=> LiteralTrue(-l)
  BY LitFacts DEF LiteralFalse, LiteralTrue
<1>3. Unassigned(l) <=> ~ LiteralTrue(l) /\ ~ LiteralFalse(l)
  BY LitFacts DEF LiteralFalse, LiteralTrue, Unassigned, TypeOK
<1> QED BY <1>1, <1>2, <1>3, LitFacts

\* Assigning a literal that is not assigned pushes it.
LEMMA PushFits ==
  ASSUME NEW a, NEW t, Fits(a, t), NEW l \in Lits, a[Abs(l)] = -1
  PROVE  Fits([a EXCEPT ![Abs(l)] = IF l > 0 THEN 1 ELSE 0], Append(t, l))
<1> DEFINE b == [a EXCEPT ![Abs(l)] = IF l > 0 THEN 1 ELSE 0]
           u == Append(t, l)
<1>0. /\ a \in [Vars -> {-1, 0, 1}] /\ t \in Seq(Lits)
      /\ Len(t) \in Nat /\ DOMAIN t = 1 .. Len(t) /\ Abs(l) \in Vars
  BY LitFacts DEF Fits
<1>2. /\ b \in [Vars -> {-1, 0, 1}] /\ b[Abs(l)] = (IF l > 0 THEN 1 ELSE 0)
      /\ \A v \in Vars : v # Abs(l) => b[v] = a[v]
  BY <1>0
<1>3. /\ u \in Seq(Lits) /\ DOMAIN u = 1 .. Len(t) + 1
      /\ u[Len(t) + 1] = l /\ \A j \in 1 .. Len(t) : u[j] = t[j]
  BY <1>0, Pushed
<1> HIDE DEF b, u
<1>4. ASSUME NEW j \in 1 .. Len(t)
      PROVE  t[j] \in Lits /\ Holding(a, t[j]) /\ Abs(t[j]) \in Vars /\ Abs(t[j]) # Abs(l)
  <2>1. t[j] \in Lits /\ Holding(a, t[j])
    BY <1>0 DEF Fits
  <2> QED BY <2>1, LitFacts DEF Holding
<1>5. ASSUME NEW j \in DOMAIN u PROVE Holding(b, u[j])
  <2>1. CASE j = Len(t) + 1
    BY <1>2, <1>3, <2>1 DEF Holding
  <2>2. CASE j \in 1 .. Len(t)
    BY <1>2, <1>3, <1>4, <2>2 DEF Holding
  <2> QED BY <1>0, <1>3, <2>1, <2>2
<1>6. ASSUME NEW v \in Vars, b[v] # -1 PROVE \E j \in DOMAIN u : Abs(u[j]) = v
  <2>1. CASE v = Abs(l)
    BY <1>0, <1>3, <2>1
  <2>2. CASE v # Abs(l)
    <3>1. PICK j \in DOMAIN t : Abs(t[j]) = v
      BY <1>2, <1>6, <2>2 DEF Fits
    <3> QED BY <1>0, <1>3, <3>1
  <2> QED BY <2>1, <2>2
<1>7. ASSUME NEW i \in DOMAIN u, NEW j \in DOMAIN u, Abs(u[i]) = Abs(u[j])
      PROVE  i = j
  <2>1. CASE i \in 1 .. Len(t) /\ j \in 1 .. Len(t)
    BY <1>0, <1>3, <1>7, <2>1 DEF Fits
  <2>2. CASE i = Len(t) + 1 \/ j = Len(t) + 1
    BY <1>0, <1>3, <1>4, <1>7, <2>2
  <2> QED BY <1>0, <1>3, <2>1, <2>2
<1>8. Fits(b, u)
  BY <1>2, <1>3, <1>5, <1>6, <1>7 DEF Fits
<1> QED BY <1>8 DEF b, u

\* Forgetting the end of a trail keeps the rest of it.
LEMMA CutFits ==
  ASSUME NEW a, NEW t, Fits(a, t), NEW n \in 0 .. Len(t),
         NEW u \in Seq(Lits), DOMAIN u = 1 .. n, \A j \in 1 .. n : u[j] = t[j],
         NEW b \in [Vars -> {-1, 0, 1}],
         \A v \in Vars : b[v] = IF \E k \in DOMAIN u : Abs(u[k]) = v THEN a[v] ELSE -1
  PROVE  Fits(b, u) /\ \A j \in DOMAIN t : j > n => b[Abs(t[j])] = -1
<1>0. /\ a \in [Vars -> {-1, 0, 1}] /\ t \in Seq(Lits)
      /\ Len(t) \in Nat /\ DOMAIN t = 1 .. Len(t)
  BY DEF Fits
<1>1. u \in Seq(Lits) /\ DOMAIN u = 1 .. n /\ \A j \in 1 .. n : u[j] = t[j]
  OBVIOUS
<1>3. ASSUME NEW j \in DOMAIN u PROVE Holding(b, u[j])
  <2>1. u[j] = t[j] /\ t[j] \in Lits /\ Holding(a, t[j])
    BY <1>0, <1>1 DEF Fits
  <2>2. Abs(t[j]) \in Vars /\ b[Abs(t[j])] = a[Abs(t[j])]
    BY <2>1, LitFacts
  <2> QED BY <2>1, <2>2 DEF Holding
<1>4. \A v \in Vars : b[v] # -1 => \E j \in DOMAIN u : Abs(u[j]) = v
  OBVIOUS
<1>5. ASSUME NEW i \in DOMAIN u, NEW j \in DOMAIN u, Abs(u[i]) = Abs(u[j])
      PROVE  i = j
  BY <1>0, <1>1, <1>5 DEF Fits
<1>6. ASSUME NEW j \in DOMAIN t, j > n PROVE b[Abs(t[j])] = -1
  <2>1. t[j] \in Lits /\ Abs(t[j]) \in Vars
    BY <1>0, LitFacts
  <2>2. \A k \in DOMAIN u : Abs(u[k]) # Abs(t[j])
    BY <1>0, <1>1, <1>6 DEF Fits
  <2> QED BY <2>1, <2>2
<1> QED BY <1>1, <1>3, <1>4, <1>5, <1>6 DEF Fits

-----------------------------------------------------------------------------
(* Steps that leave the trail, the levels and the watches alone *)

LEMMA LimitsNat ==
  ASSUME TypeOK
  PROVE  /\ limits.conflicts \in Nat /\ limits.propagations \in Nat /\ limits.decisions \in Nat
         /\ clauses \in Seq(Seq(Lits)) /\ Len(clauses) \in Nat /\ DOMAIN clauses = 1 .. Len(clauses)
         /\ problem.assumptions \in Seq(Lits)
         /\ DOMAIN problem.assumptions = 1 .. Len(problem.assumptions)
         /\ Len(problem.assumptions) \in Nat
BY DEF TypeOK, IsProblem, clauses, limits

\* A limit that is not within bounds is exceeded.
LEMMA GaveUp ==
  ASSUME TypeOK, NEW c \in Nat, ~ WithinLimits(c)
  PROVE  late \/ c > limits.conflicts \/ propagations > limits.propagations
         \/ NumVars > limits.vars \/ Len(clauses) > limits.clauses
<1>1. limits.vars \in Nat /\ limits.clauses \in Nat
  BY DEF TypeOK, IsProblem, limits
<1>2. propagations \in Nat
  BY DEF TypeOK
<1> QED BY <1>1, <1>2, LimitsNat, NumVarsAssumption DEF WithinLimits

QuietStep == UNCHANGED <<problem, searchVars, watchVars>>

LEMMA QuietFacts ==
  ASSUME IInv, QuietStep
  PROVE  /\ TrailOK' /\ WatchesOK' /\ FalseLit' = FalseLit
         /\ problem' = problem /\ frames' = frames /\ trail' = trail /\ qhead' = qhead
         /\ watches' = watches /\ watchPos' = watchPos /\ assignment' = assignment
         /\ clauses' = clauses /\ limits' = limits
         /\ \A k, s : Watched(k, s)' = Watched(k, s)
         /\ \A k, s, j : Blocked(k, s, j)' <=> Blocked(k, s, j)
         /\ \A l : AtBase(l)' <=> AtBase(l)
<1> USE DEF QuietStep, searchVars, watchVars
<1>1. TrailOK'
  BY DEF IInv, TrailOK
<1>2. \A k, s : Watched(k, s)' = Watched(k, s)
  BY DEF Watched, clauses
<1>3. WatchesOK'
  BY DEF IInv, WatchesOK, Watched, clauses
<1>4. \A k, s, j : Blocked(k, s, j)' <=> Blocked(k, s, j)
  BY DEF Blocked, NoLater, Watched, clauses
<1>5. \A l : AtBase(l)' <=> AtBase(l)
  BY DEF AtBase
<1> QED BY <1>1, <1>2, <1>3, <1>4, <1>5 DEF FalseLit, clauses, limits

LEMMA BeginKeeps ==
  ASSUME IInv, Begin
  PROVE  IInv'
<1> USE DEF Begin
<1>0. QuietStep
  BY DEF QuietStep
<1>1. TypeOK'
  BY <1>0, QuietFacts DEF IInv, TypeOK, counters
<1>2. ControlOK' /\ BudgetOK'
  BY <1>0, QuietFacts, LimitsNat DEF IInv, TypeOK, ControlOK, BudgetOK, Exceeded, counters
<1>3. FramesOK'
  BY <1>0, QuietFacts DEF IInv, FramesOK
<1>4. QueueOK'
  BY <1>0, QuietFacts DEF IInv, QueueOK, Passed
<1>5. BaseOK'
  <2>1. \A k \in DOMAIN problem.assumptions : k < scan
    BY LimitsNat DEF IInv, TypeOK
  <2> QED BY <1>0, <2>1, QuietFacts DEF IInv, BaseOK
<1> QED BY <1>0, <1>1, <1>2, <1>3, <1>4, <1>5, QuietFacts DEF IInv

LEMMA EnterKeeps ==
  ASSUME IInv, Enter
  PROVE  IInv'
<1> USE DEF Enter
<1>0. QuietStep
  BY DEF QuietStep
<1>1. TypeOK'
  BY <1>0, QuietFacts DEF IInv, TypeOK, counters
<1>2. ControlOK'
  BY <1>0, QuietFacts DEF IInv, ControlOK
<1>6. BudgetOK'
  <2>1. ~ WithinLimits(conflicts) => Exceeded
    BY GaveUp DEF IInv, TypeOK, Exceeded
  <2>2. Exceeded' = Exceeded
    BY <1>0, QuietFacts DEF Exceeded, counters
  <2> QED BY <1>0, <2>1, <2>2, QuietFacts DEF IInv, BudgetOK, counters, ControlOK
<1>3. FramesOK'
  BY <1>0, QuietFacts DEF IInv, FramesOK, TypeOK
<1>4. QueueOK'
  BY <1>0, QuietFacts DEF IInv, QueueOK, Passed
<1>5. BaseOK'
  BY <1>0, QuietFacts DEF IInv, BaseOK
<1> QED BY <1>0, <1>1, <1>2, <1>3, <1>4, <1>5, <1>6, QuietFacts DEF IInv

LEMMA DeadlineKeeps ==
  ASSUME IInv, Deadline
  PROVE  IInv'
<1> USE DEF Deadline
<1>0. QuietStep
  BY DEF QuietStep
<1>1. TypeOK'
  BY <1>0, QuietFacts DEF IInv, TypeOK, counters
<1>2. ControlOK' /\ BudgetOK'
  BY <1>0, QuietFacts, LimitsNat DEF IInv, TypeOK, ControlOK, BudgetOK, Exceeded, counters
<1>3. FramesOK'
  BY <1>0, QuietFacts DEF IInv, FramesOK
<1>4. QueueOK'
  BY <1>0, QuietFacts DEF IInv, QueueOK, Passed
<1>5. BaseOK'
  BY <1>0, QuietFacts DEF IInv, BaseOK
<1> QED BY <1>0, <1>1, <1>2, <1>3, <1>4, <1>5, QuietFacts DEF IInv

\* The clause at hand, what it watches, and that the visited literal is false.
LEMMA VisitFacts ==
  ASSUME IInv, Visiting
  PROVE  /\ scan \in DOMAIN watches[FalseLit] /\ FalseLit \in Lits
         /\ qhead \in DOMAIN trail /\ trail[qhead] = -FalseLit
         /\ Visited \in DOMAIN watchPos /\ Visited \in DOMAIN clauses
         /\ clauses[Visited] \in Seq(Lits)
         /\ watchPos[Visited] \in Nat \X Nat
         /\ watchPos[Visited][1] \in DOMAIN clauses[Visited]
         /\ watchPos[Visited][2] \in DOMAIN clauses[Visited]
         /\ Slot \in {1, 2} /\ Watched(Visited, Slot) = FalseLit
         /\ OtherLit = Watched(Visited, 3 - Slot) /\ OtherLit \in Lits
         /\ LiteralFalse(FalseLit) /\ On(-FalseLit)
<1>1. /\ qhead \in DOMAIN trail /\ trail[qhead] \in Lits
  BY DEF IInv, TypeOK, ControlOK, Visiting
<1>2. trail[qhead] = -FalseLit /\ FalseLit \in Lits
  BY <1>1, LitFacts DEF FalseLit
<1>3. watches[FalseLit] \in Seq(DOMAIN clauses)
  BY <1>2 DEF IInv, TypeOK
<1>4. scan \in DOMAIN watches[FalseLit]
  BY <1>3 DEF IInv, TypeOK, Visiting
<1>5. Visited \in DOMAIN watchPos /\ Visited \in DOMAIN clauses
  BY <1>2, <1>3, <1>4 DEF IInv, WatchesOK, Visited
<1>6. /\ clauses[Visited] \in Seq(Lits) /\ watchPos[Visited] \in Nat \X Nat
      /\ watchPos[Visited][1] \in DOMAIN clauses[Visited]
      /\ watchPos[Visited][2] \in DOMAIN clauses[Visited]
  BY <1>5, LimitsNat DEF IInv, WatchesOK, TypeOK
<1>7. \E s \in {1, 2} : Watched(Visited, s) = FalseLit
  BY <1>2, <1>4 DEF IInv, WatchesOK, Visited
<1>8. Slot \in {1, 2} /\ Watched(Visited, Slot) = FalseLit
  <2>1. Slots # {} /\ Slots \subseteq {1, 2}
    BY <1>7 DEF Slots, Watched
  <2>2. \E s \in Slots : \A t \in Slots : s <= t
    <3>1. CASE 1 \in Slots
      <4>1. \A t \in Slots : 1 <= t
        BY <2>1
      <4> QED BY <3>1, <4>1
    <3>2. CASE 1 \notin Slots
      <4>1. Slots = {2}
        BY <2>1, <3>2
      <4> QED BY <4>1
    <3> QED BY <3>1, <3>2
  <2>3. Slot \in Slots
    BY <2>2 DEF Slot, Min
  <2> QED BY <2>3 DEF Slots, Watched
<1>9. OtherLit = Watched(Visited, 3 - Slot) /\ OtherLit \in Lits
  BY <1>6, <1>8 DEF OtherLit, Watched
<1>10. On(-FalseLit)
  BY <1>1, <1>2 DEF On
<1>11. LiteralFalse(FalseLit)
  BY <1>2, <1>10, TrueOnTrail DEF IInv
<1> QED BY <1>1, <1>2, <1>4, <1>5, <1>6, <1>8, <1>9, <1>10, <1>11

LEMMA FrameFacts ==
  ASSUME TypeOK
  PROVE  /\ DOMAIN frames = 1 .. Len(frames) /\ Len(frames) \in Nat
         /\ \A n \in DOMAIN frames : /\ frames[n] \in Frame /\ frames[n].limit \in Nat
                                    /\ frames[n].lit \in Lits /\ frames[n].branch \in {1, 2}
<1>1. frames \in Seq(Frame)
  BY DEF TypeOK
<1>2. \A n \in DOMAIN frames : frames[n] \in Frame
  BY <1>1
<1> QED BY <1>1, <1>2 DEF Frame

\* What is assigned while a literal is visited is of the same level.
LEMMA VisitedLast ==
  ASSUME IInv, pc = "visit", NEW i
  PROVE  NoLater(i, qhead)
<1>1. \A n \in DOMAIN frames : frames[n].limit < qhead
  BY DEF IInv, FramesOK
<1>2. \A n \in DOMAIN frames : frames[n].limit \in Nat
  BY FrameFacts DEF IInv
<1>3. qhead \in Nat
  BY DEF IInv, TypeOK
<1> QED BY <1>1, <1>2, <1>3 DEF NoLater

\* A literal is not both true and false.
LEMMA NotBoth ==
  ASSUME TypeOK, TrailOK, NEW l \in Lits, LiteralTrue(l), LiteralFalse(l)
  PROVE  FALSE
BY LitFacts DEF LiteralTrue, LiteralFalse

LEMMA SkipEntryKeeps ==
  ASSUME IInv, SkipEntry
  PROVE  IInv'
<1> USE DEF SkipEntry
<1>0. QuietStep /\ pc = "visit"
  BY DEF QuietStep, Visiting
<1>1. TypeOK'
  BY <1>0, QuietFacts DEF IInv, TypeOK, counters
<1>2. ControlOK' /\ BudgetOK'
  BY <1>0, QuietFacts DEF IInv, ControlOK, BudgetOK, Exceeded, counters
<1>3. FramesOK'
  BY <1>0, QuietFacts DEF IInv, FramesOK
<1>4. ASSUME NEW s \in {1, 2}, Watched(Visited, s) = FalseLit
      PROVE  Blocked(Visited, s, qhead)
  <2>1. LiteralTrue(OtherLit)
    BY VisitFacts DEF Slots, Watched
  <2>2. PICK i \in DOMAIN trail : trail[i] = OtherLit
    BY <2>1, VisitFacts, TrueOnTrail DEF IInv, On
  <2>3. s = Slot
    BY <1>4, <2>1, VisitFacts, NotBoth DEF IInv
  <2>4. NoLater(i, qhead)
    BY <1>0, VisitedLast
  <2> QED BY <2>2, <2>3, <2>4, VisitFacts DEF Blocked
<1>5. QueueOK'
  <2>1. ASSUME NEW n \in DOMAIN watches[FalseLit], NEW s \in {1, 2}, n < scan + 1,
               Watched(watches[FalseLit][n], s) = FalseLit
        PROVE  Blocked(watches[FalseLit][n], s, qhead)
    <3>1. n < scan \/ n = scan
      BY <2>1, VisitFacts DEF IInv, TypeOK
    <3>2. CASE n < scan
      BY <1>0, <2>1, <3>2 DEF IInv, QueueOK
    <3>3. CASE n = scan
      BY <1>4, <2>1, <3>3 DEF Visited
    <3> QED BY <3>1, <3>2, <3>3
  <2> QED BY <1>0, <2>1, QuietFacts DEF IInv, QueueOK, Passed
<1>6. BaseOK'
  BY <1>0, QuietFacts DEF IInv, BaseOK
<1> QED BY <1>0, <1>1, <1>2, <1>3, <1>5, <1>6, QuietFacts DEF IInv

LEMMA ConflictKeeps ==
  ASSUME IInv, Conflict
  PROVE  IInv'
<1> USE DEF Conflict
<1>0. QuietStep /\ pc = "visit"
  BY DEF QuietStep, Visiting
<1>1. TypeOK'
  BY <1>0, QuietFacts DEF IInv, TypeOK
<1>2. ControlOK'
  BY <1>0, QuietFacts DEF IInv, ControlOK
<1>3. BudgetOK'
  <2>1. conflicts' \in Nat /\ conflicts \in Nat /\ limits.conflicts \in Nat
    BY LimitsNat DEF IInv, TypeOK
  <2>2. WithinLimits(conflicts') => conflicts' <= limits.conflicts
    BY DEF WithinLimits
  <2>3. ~ WithinLimits(conflicts') => Exceeded'
    BY <1>0, <2>1, GaveUp, QuietFacts DEF IInv, Exceeded
  <2>4. ~ exhausted /\ conflicts <= limits.conflicts /\ result # "Timeout"
    BY <1>0 DEF IInv, ControlOK, BudgetOK
  <2>5. /\ decisions' <= limits'.decisions /\ propagations' <= limits'.propagations + 1
        /\ conflicts' <= limits'.conflicts + 1
    BY <1>0, <2>1, <2>4, QuietFacts DEF IInv, BudgetOK
  <2>6. ~ exhausted' => conflicts' <= limits'.conflicts
    BY <1>0, <2>2, QuietFacts
  <2> QED BY <2>3, <2>4, <2>5, <2>6 DEF BudgetOK
<1>4. FramesOK'
  BY <1>0, QuietFacts DEF IInv, FramesOK
<1>5. QueueOK'
  BY <1>0, QuietFacts DEF IInv, QueueOK, Passed
<1>6. BaseOK'
  BY <1>0, QuietFacts DEF IInv, BaseOK
<1> QED BY <1>0, <1>1, <1>2, <1>3, <1>4, <1>5, <1>6, QuietFacts DEF IInv

\* At the end of a list every clause that watches the literal has been visited.
LEMMA ListDoneKeeps ==
  ASSUME IInv, ListDone
  PROVE  IInv'
<1> USE DEF ListDone
<1>0. QuietStep
  BY DEF QuietStep
<1>1. TypeOK'
  BY <1>0, QuietFacts DEF IInv, TypeOK, counters
<1>2. ControlOK' /\ BudgetOK'
  BY <1>0, QuietFacts DEF IInv, ControlOK, BudgetOK, Exceeded, counters
<1>3. FramesOK'
  BY <1>0, QuietFacts DEF IInv, FramesOK
<1>4. ASSUME NEW k \in DOMAIN watchPos, NEW s \in {1, 2}, NEW j \in DOMAIN trail,
             trail[j] = -Watched(k, s), Passed(j)'
      PROVE  Blocked(k, s, j)
  <2>1. CASE j < qhead
    BY <1>4, <2>1 DEF IInv, QueueOK, Passed
  <2>2. CASE j = qhead
    <3>1. Watched(k, s) \in Lits
      BY LimitsNat DEF IInv, WatchesOK, Watched
    <3>2. Watched(k, s) = FalseLit
      BY <1>4, <2>2, <3>1, LitFacts DEF FalseLit
    <3>3. PICK n \in DOMAIN watches[FalseLit] : watches[FalseLit][n] = k
      BY <3>2 DEF IInv, WatchesOK
    <3>4. n < scan
      <4>1. watches[FalseLit] \in Seq(DOMAIN clauses) /\ scan \in Nat
        BY <3>1, <3>2 DEF IInv, TypeOK
      <4> QED BY <4>1
    <3> QED BY <2>2, <3>2, <3>3, <3>4 DEF IInv, QueueOK
  <2> QED BY <1>0, <1>4, <2>1, <2>2, QuietFacts DEF Passed
<1>5. QueueOK'
  BY <1>0, <1>4, QuietFacts DEF QueueOK
<1>6. BaseOK'
  BY <1>0, QuietFacts DEF IInv, BaseOK
<1> QED BY <1>0, <1>1, <1>2, <1>3, <1>5, <1>6, QuietFacts DEF IInv

LEMMA EndKeeps ==
  ASSUME IInv, Succeed \/ Return
  PROVE  IInv'
<1> USE DEF Succeed, Return, Finish
<1>0. QuietStep /\ pc' = "done"
  BY DEF QuietStep
<1>1. TypeOK'
  BY <1>0, QuietFacts DEF IInv, TypeOK, counters
<1>2. ControlOK' /\ BudgetOK'
  BY <1>0, QuietFacts DEF IInv, ControlOK, BudgetOK, Exceeded, counters
<1>3. FramesOK'
  BY <1>0, QuietFacts DEF IInv, FramesOK
<1>4. QueueOK'
  BY <1>0, QuietFacts DEF IInv, QueueOK, Passed
<1>5. BaseOK'
  BY <1>0, QuietFacts DEF IInv, BaseOK
<1> QED BY <1>0, <1>1, <1>2, <1>3, <1>4, <1>5, QuietFacts DEF IInv

-----------------------------------------------------------------------------
(* Propagation *)

LEMMA TakeLiteralKeeps ==
  ASSUME IInv, TakeLiteral
  PROVE  IInv'
<1>1. CASE WithinLimits(conflicts)
  <2> USE <1>1 DEF TakeLiteral, watchVars, searchVars
  <2>0. /\ Len(trail) \in Nat /\ qhead \in Nat /\ pc = "propagate" /\ pc' = "visit"
        /\ qhead' = qhead + 1 /\ scan' = 1 /\ trail' = trail /\ frames' = frames
        /\ clauses' = clauses /\ watchPos' = watchPos /\ watches' = watches
    BY DEF IInv, TypeOK, clauses
  <2>1. TypeOK'
    BY <2>0 DEF IInv, TypeOK
  <2>2. ControlOK'
    BY <2>0 DEF IInv, ControlOK
  <2>3. TrailOK'
    BY DEF IInv, TrailOK
  <2>4. FramesOK'
    BY <2>0, FrameFacts DEF IInv, FramesOK
  <2>5. WatchesOK'
    BY <2>0 DEF IInv, WatchesOK, Watched
  <2>6. QueueOK'
    <3>1. ASSUME NEW j \in DOMAIN trail, Passed(j)' PROVE Passed(j)
      BY <2>0, <3>1 DEF Passed, IInv, TypeOK
    <3>2. \A k, s, j : Blocked(k, s, j)' <=> Blocked(k, s, j)
      BY <2>0 DEF Blocked, NoLater, Watched
    <3>3. \A k, s : Watched(k, s)' = Watched(k, s)
      BY <2>0 DEF Watched
    <3>4. \A n \in DOMAIN watches[FalseLit]' : ~ (n < 1)
      <4>1. trail[qhead + 1] \in Lits
        BY <2>0 DEF IInv, TypeOK
      <4>2. FalseLit' \in Lits
        BY <2>0, <4>1, LitFacts DEF FalseLit
      <4>3. watches[FalseLit]' \in Seq(DOMAIN clauses)
        BY <2>0, <4>2 DEF IInv, TypeOK
      <4> QED BY <4>3
    <3> QED BY <2>0, <3>1, <3>2, <3>3, <3>4 DEF IInv, QueueOK
  <2>7. BaseOK'
    BY <2>0 DEF IInv, BaseOK, AtBase
  <2>8. BudgetOK'
    <3>1. /\ propagations \in Nat /\ limits.propagations \in Nat
          /\ propagations <= limits.propagations /\ limits' = limits
      BY LimitsNat DEF IInv, TypeOK, WithinLimits, limits
    <3>2. ~ exhausted' /\ result' # "Timeout"
      BY <2>0 DEF IInv, ControlOK
    <3> QED BY <3>1, <3>2 DEF IInv, BudgetOK
  <2> QED BY <2>1, <2>2, <2>3, <2>4, <2>5, <2>6, <2>7, <2>8 DEF IInv
<1>2. CASE ~ WithinLimits(conflicts)
  <2> USE <1>2 DEF TakeLiteral
  <2>0. QuietStep
    BY DEF QuietStep, searchVars
  <2>1. TypeOK'
    BY <2>0, QuietFacts DEF IInv, TypeOK
  <2>2. ControlOK'
    BY <2>0, QuietFacts DEF IInv, ControlOK
  <2>4. FramesOK'
    BY <2>0, QuietFacts DEF IInv, FramesOK
  <2>6. QueueOK'
    BY <2>0, QuietFacts DEF IInv, QueueOK, Passed
  <2>7. BaseOK'
    BY <2>0, QuietFacts DEF IInv, BaseOK
  <2>8. BudgetOK'
    <3>1. conflicts \in Nat /\ limits.conflicts \in Nat /\ limits' = limits
      BY <2>0, QuietFacts, LimitsNat DEF IInv, TypeOK
    <3>2. conflicts <= limits.conflicts
      BY DEF IInv, ControlOK, BudgetOK
    <3>3. Exceeded'
      BY <2>0, <3>1, GaveUp, QuietFacts DEF IInv, Exceeded
    <3> QED BY <3>1, <3>2, <3>3 DEF IInv, BudgetOK
  <2> QED BY <2>0, <2>1, <2>2, <2>4, <2>6, <2>7, <2>8, QuietFacts DEF IInv
<1> QED BY <1>1, <1>2

\* What is on the trail stays there, in its level, when more is pushed.
LEMMA GrowKeeps ==
  ASSUME IInv, problem' = problem, watchPos' = watchPos,
         NEW l \in Lits, trail' = Append(trail, l),
         \/ frames' = frames
         \/ \E f \in Frame : f.limit = Len(trail) /\ frames' = Append(frames, f)
  PROVE  /\ \A k, s, j : Blocked(k, s, j) => Blocked(k, s, j)'
         /\ \A m : AtBase(m) => AtBase(m)'
         /\ \A k, s : Watched(k, s)' = Watched(k, s)
         /\ DOMAIN trail' = 1 .. Len(trail) + 1 /\ Len(trail') = Len(trail) + 1
         /\ trail'[Len(trail) + 1] = l /\ \A j \in 1 .. Len(trail) : trail'[j] = trail[j]
<1>0. /\ trail \in Seq(Lits) /\ Len(trail) \in Nat /\ DOMAIN trail = 1 .. Len(trail)
      /\ frames \in Seq(Frame) /\ Len(frames) \in Nat /\ DOMAIN frames = 1 .. Len(frames)
  BY DEF IInv, TypeOK
<1>1. /\ DOMAIN trail' = 1 .. Len(trail) + 1 /\ Len(trail') = Len(trail) + 1
      /\ trail'[Len(trail) + 1] = l /\ \A j \in 1 .. Len(trail) : trail'[j] = trail[j]
  BY <1>0, Pushed
<1>2. \A k, s : Watched(k, s)' = Watched(k, s)
  BY DEF Watched, clauses
<1>3. ASSUME NEW n \in DOMAIN frames'
      PROVE  (n \in DOMAIN frames /\ frames'[n] = frames[n]) \/ frames'[n].limit = Len(trail)
  <2>1. CASE frames' = frames
    BY <1>3, <2>1
  <2>2. CASE \E f \in Frame : f.limit = Len(trail) /\ frames' = Append(frames, f)
    <3>1. PICK f \in Frame : f.limit = Len(trail) /\ frames' = Append(frames, f)
      BY <2>2
    <3> DEFINE g == Append(frames, f)
    <3>2. /\ DOMAIN g = 1 .. Len(frames) + 1 /\ g[Len(frames) + 1] = f
          /\ \A k \in 1 .. Len(frames) : g[k] = frames[k]
      BY <1>0, Pushed
    <3>3. frames' = g
      BY <3>1
    <3> HIDE DEF g
    <3>4. n \in 1 .. Len(frames) + 1
      BY <1>3, <3>2, <3>3
    <3> QED BY <1>0, <3>1, <3>2, <3>3, <3>4
  <2> QED BY <2>1, <2>2
<1>4. ASSUME NEW i \in DOMAIN trail, NEW j, NoLater(i, j)
      PROVE  NoLater(i, j)'
  BY <1>0, <1>3, <1>4 DEF NoLater
<1>5. ASSUME NEW k, NEW s, NEW j, Blocked(k, s, j)
      PROVE  Blocked(k, s, j)'
  <2>1. PICK i \in DOMAIN trail : trail[i] = Watched(k, 3 - s) /\ NoLater(i, j)
    BY <1>5 DEF Blocked
  <2>2. i \in DOMAIN trail' /\ trail'[i] = trail[i]
    BY <1>0, <1>1
  <2> QED BY <1>2, <1>4, <2>1, <2>2 DEF Blocked
<1>6. ASSUME NEW m, AtBase(m) PROVE AtBase(m)'
  <2>1. PICK j \in DOMAIN trail : trail[j] = m /\ \A n \in DOMAIN frames : j <= frames[n].limit
    BY <1>6 DEF AtBase
  <2>2. j \in DOMAIN trail' /\ trail'[j] = trail[j] /\ j <= Len(trail)
    BY <1>0, <1>1
  <2> QED BY <1>3, <2>1, <2>2 DEF AtBase
<1> QED BY <1>1, <1>2, <1>5, <1>6

LEMMA ImplyKeeps ==
  ASSUME IInv, Imply
  PROVE  IInv'
<1> USE DEF Imply
<1> DEFINE l == OtherLit
<1>0. /\ l \in Lits /\ Unassigned(l) /\ pc = "visit"
      /\ assignment' = [assignment EXCEPT ![Abs(l)] = IF l > 0 THEN 1 ELSE 0]
      /\ trail' = Append(trail, l)
      /\ clauses' = clauses /\ watchPos' = watchPos /\ watches' = watches
      /\ problem' = problem /\ frames' = frames /\ qhead' = qhead /\ pc' = "visit"
      /\ scan' = scan + 1
  BY VisitFacts DEF Assign, watchVars, clauses, Visiting
<1> HIDE DEF l
<1>1. TrailOK'
  BY <1>0, PushFits DEF IInv, TrailOK, Unassigned
<1>2. /\ \A k, s, j : Blocked(k, s, j) => Blocked(k, s, j)'
      /\ \A m : AtBase(m) => AtBase(m)'
      /\ \A k, s : Watched(k, s)' = Watched(k, s)
      /\ DOMAIN trail' = 1 .. Len(trail) + 1 /\ Len(trail') = Len(trail) + 1
      /\ trail'[Len(trail) + 1] = l /\ \A j \in 1 .. Len(trail) : trail'[j] = trail[j]
  BY <1>0, GrowKeeps
<1>3. Len(trail) \in Nat /\ DOMAIN trail = 1 .. Len(trail) /\ qhead \in 1 .. Len(trail)
  BY VisitFacts DEF IInv, TypeOK
<1>4. TypeOK'
  BY <1>0, <1>1, <1>2, <1>3 DEF IInv, TypeOK, TrailOK, Fits, counters
<1>5. ControlOK' /\ BudgetOK'
  BY <1>0 DEF IInv, ControlOK, BudgetOK, Exceeded, counters, limits
<1>6. FramesOK'
  <2>1. ASSUME NEW n \in DOMAIN frames
        PROVE  /\ frames[n].limit < Len(trail) + 1
               /\ trail'[frames[n].limit + 1] = frames[n].lit
    <3>1. frames[n].limit \in Nat /\ frames[n].limit < Len(trail)
      BY FrameFacts DEF IInv, FramesOK
    <3> QED BY <1>2, <1>3, <3>1 DEF IInv, FramesOK
  <2> QED BY <1>0, <1>2, <2>1 DEF IInv, FramesOK
<1>7. WatchesOK'
  BY <1>0, <1>2 DEF IInv, WatchesOK
<1>8. FalseLit' = FalseLit
  BY <1>0, <1>2, <1>3 DEF FalseLit
<1>9. ASSUME NEW k, k = Visited, NEW s \in {1, 2}, Watched(k, s) = FalseLit, NEW j, j = qhead
      PROVE  Blocked(k, s, j)'
  <2>1. s = Slot
    <3>1. l # FalseLit
      BY <1>0, VisitFacts, TrueOnTrail DEF IInv
    <3> QED BY <1>9, <3>1, VisitFacts DEF l
  <2>2. \A i : NoLater(i, j)'
    BY <1>0, <1>9, VisitedLast DEF NoLater
  <2>3. trail'[Len(trail) + 1] = Watched(k, 3 - s)'
    BY <1>2, <1>9, <2>1, VisitFacts DEF l
  <2>4. Len(trail) + 1 \in DOMAIN trail'
    BY <1>2, <1>3
  <2> QED BY <2>2, <2>3, <2>4 DEF Blocked
<1>10. QueueOK'
  <2>1. ASSUME NEW k \in DOMAIN watchPos, NEW s \in {1, 2}, NEW j \in DOMAIN trail',
               trail'[j] = -Watched(k, s), Passed(j)'
        PROVE  Blocked(k, s, j)'
    <3>1. j < qhead /\ j \in DOMAIN trail /\ trail'[j] = trail[j]
      BY <1>0, <1>2, <1>3, <2>1 DEF Passed
    <3> QED BY <1>2, <2>1, <3>1 DEF IInv, QueueOK, Passed
  <2>2. ASSUME NEW n \in DOMAIN watches[FalseLit], NEW s \in {1, 2}, n < scan + 1,
               Watched(watches[FalseLit][n], s) = FalseLit
        PROVE  Blocked(watches[FalseLit][n], s, qhead)'
    <3>1. n < scan \/ n = scan
      BY <2>2, VisitFacts DEF IInv, TypeOK
    <3>2. CASE n < scan
      <4>1. Blocked(watches[FalseLit][n], s, qhead)
        BY <1>0, <2>2, <3>2 DEF IInv, QueueOK
      <4> QED BY <1>0, <1>2, <1>8, <4>1
    <3>3. CASE n = scan
      <4>1. PICK k, j : k = watches[FalseLit][n] /\ k = Visited /\ j = qhead
        BY <3>3 DEF Visited
      <4>2. Blocked(k, s, j)'
        BY <1>9, <2>2, <4>1
      <4> QED BY <1>0, <1>8, <4>1, <4>2
    <3> QED BY <3>1, <3>2, <3>3
  <2> QED BY <1>0, <1>2, <1>8, <2>1, <2>2 DEF QueueOK
<1>11. BaseOK'
  BY <1>0, <1>2 DEF IInv, BaseOK
<1> QED BY <1>1, <1>4, <1>5, <1>6, <1>7, <1>10, <1>11 DEF IInv

-----------------------------------------------------------------------------
(* Moving a watch *)

LEMMA FrontFacts ==
  ASSUME NEW S, NEW s \in Seq(S), Len(s) >= 1, NEW t, t = Front(s)
  PROVE  t \in Seq(S) /\ DOMAIN t = 1 .. Len(s) - 1 /\ \A n \in DOMAIN t : t[n] = s[n]
<1> DEFINE m == Len(s) - 1
<1>1. t = SubSeq(s, 1, m) /\ m \in 0 .. Len(s)
  BY DEF Front
<1> HIDE DEF m
<1> DEFINE w == SubSeq(s, 1, m)
<1>2. w \in Seq(S) /\ DOMAIN w = 1 .. m /\ \A n \in 1 .. m : w[n] = s[n]
  BY <1>1, Prefix
<1>3. t = w
  BY <1>1
<1> HIDE DEF w
<1>4. t \in Seq(S) /\ DOMAIN t = 1 .. m /\ \A n \in 1 .. m : t[n] = s[n]
  BY <1>2, <1>3
<1> QED BY <1>4 DEF m

LEMMA PairExcept ==
  ASSUME NEW q \in Nat \X Nat, NEW s \in {1, 2}, NEW p \in Nat,
         NEW r, r = [q EXCEPT ![s] = p]
  PROVE  /\ r \in Nat \X Nat /\ r[s] = p /\ r[3 - s] = q[3 - s]
         /\ Range(q) = {q[1], q[2]}
<1>1. q = <<q[1], q[2]>> /\ q[1] \in Nat /\ q[2] \in Nat
  OBVIOUS
<1>2. DOMAIN q = {1, 2}
  BY <1>1
<1>3. Range(q) = {q[1], q[2]}
  BY <1>2 DEF Range
<1>4. CASE s = 1
  <2>1. r = <<p, q[2]>>
    BY <1>1, <1>4
  <2> QED BY <1>3, <1>4, <2>1, <1>1
<1>5. CASE s = 2
  <2>1. r = <<q[1], p>>
    BY <1>1, <1>5
  <2> QED BY <1>3, <1>5, <2>1, <1>1
<1> QED BY <1>4, <1>5

\* A nonempty set of naturals has a least member: the intervals 0 .. n, n in
\* the set, have a minimal one under inclusion.
LEMMA MinIsMember ==
  ASSUME NEW T \in SUBSET Nat, T # {}
  PROVE  Min(T) \in T
<1>1. PICK t \in T : TRUE
  OBVIOUS
<1> DEFINE Upto == 0 .. t
           Below == {0 .. n : n \in {m \in T : m <= t}}
<1>2. IsFiniteSet(Upto)
  BY FS_Interval
<1>3. IsWellFoundedOn(StrictSubsetOrdering(Upto), SUBSET Upto)
  BY <1>2, FS_StrictSubsetOrderingWellFounded, FS_FiniteSubsetsOfFinite
<1>4. Below \subseteq SUBSET Upto /\ Below # {}
  BY <1>1
<1>5. PICK x \in Below : \A y \in Below : ~ (<<y, x>> \in StrictSubsetOrdering(Upto))
  <2> HIDE DEF Below, Upto
  <2> QED BY <1>3, <1>4, WFMin
<1>6. PICK m \in T : m <= t /\ x = 0 .. m
  OBVIOUS
<1>7. ASSUME NEW n \in T, n < m PROVE FALSE
  <2>1. 0 .. n \in Below
    BY <1>6, <1>7
  <2>2. 0 .. n \subseteq 0 .. m /\ m \in 0 .. m /\ m \notin 0 .. n
    BY <1>7
  <2>3. <<0 .. n, 0 .. m>> \in StrictSubsetOrdering(Upto)
    BY <2>1, <2>2, <1>4, <1>6 DEF StrictSubsetOrdering
  <2> QED BY <2>1, <2>3, <1>5, <1>6
<1>8. \A n \in T : m <= n
  BY <1>7
<1> QED BY <1>8 DEF Min

\* Where the watch goes: to a third literal of the clause, which is not false.
LEMMA CandidateFacts ==
  ASSUME IInv, Visiting, Candidates # {}
  PROVE  /\ Min(Candidates) \in DOMAIN clauses[Visited]
         /\ clauses[Visited][Min(Candidates)] \in Lits
         /\ ~ LiteralFalse(clauses[Visited][Min(Candidates)])
         /\ Min(Candidates) # watchPos[Visited][1] /\ Min(Candidates) # watchPos[Visited][2]
         /\ clauses[Visited][Min(Candidates)] # OtherLit
         /\ OtherLit # FalseLit
<1> DEFINE c == clauses[Visited]
           q == watchPos[Visited]
           p == Min(Candidates)
<1>1. c \in Seq(Lits) /\ q \in Nat \X Nat
  BY VisitFacts
<1>2. p \in Candidates
  <2>1. Candidates \in SUBSET Nat
    BY <1>1 DEF Candidates
  <2> QED BY <2>1, MinIsMember
<1>3. Range(q) = {q[1], q[2]}
  BY <1>1, PairExcept
<1>4. /\ p \in DOMAIN c /\ ~ LiteralFalse(c[p]) /\ p # q[1] /\ p # q[2] /\ c[p] \in Lits
  <2> HIDE DEF p
  <2>1. p \in DOMAIN c /\ p \notin Range(q) /\ ~ LiteralFalse(c[p])
    BY <1>2 DEF Candidates
  <2> QED BY <1>1, <1>3, <2>1
<1>5. q[1] # q[2]
  <2>1. q[1] = q[2] => Len(c) = 1
    BY VisitFacts DEF IInv, WatchesOK
  <2>2. q[1] \in DOMAIN c
    BY VisitFacts
  <2> QED BY <1>1, <1>4, <2>1, <2>2
<1>6. \A i, j \in DOMAIN c : Abs(c[i]) = Abs(c[j]) => i = j
  BY VisitFacts DEF IInv, TypeOK, IsProblem, clauses
<1>7. q[Slot] \in DOMAIN c /\ q[3 - Slot] \in DOMAIN c /\ q[Slot] # q[3 - Slot] /\ p # q[3 - Slot]
  BY VisitFacts, <1>4, <1>5
<1>8. OtherLit = c[q[3 - Slot]] /\ FalseLit = c[q[Slot]]
  BY VisitFacts DEF Watched
<1> QED BY <1>4, <1>6, <1>7, <1>8

LEMMA MoveWatchKeeps ==
  ASSUME IInv, MoveWatch
  PROVE  IInv'
<1>0. PICK v, a, p, m, f, o, list :
        /\ v = Visited /\ a = Slot /\ p = Min(Candidates) /\ m = clauses[v][p]
        /\ f = FalseLit /\ o = OtherLit /\ list = watches[f]
  OBVIOUS
<1>a. PICK x, rest, pair, longer, new :
        /\ x = scan
        /\ rest = Front([list EXCEPT ![x] = Last(list)])
        /\ pair = [watchPos[v] EXCEPT ![a] = p]
        /\ longer = Append(watches[m], v)
        /\ new = watches'
  OBVIOUS
<1>1. /\ pc = "visit" /\ pc' = "visit" /\ problem' = problem /\ clauses' = clauses
      /\ trail' = trail /\ frames' = frames /\ qhead' = qhead /\ assignment' = assignment
      /\ scan' = scan /\ FalseLit' = f
      /\ UNCHANGED <<counters, late, exhausted, result>>
  BY <1>0 DEF MoveWatch, Visiting, searchVars, clauses, FalseLit
<1>2. Visiting /\ Candidates # {}
  BY DEF MoveWatch
<1>3. /\ p \in DOMAIN clauses[v] /\ m \in Lits /\ ~ LiteralFalse(m)
      /\ p # watchPos[v][1] /\ p # watchPos[v][2]
      /\ m # o /\ o # f /\ m # f
  <2>1. m # f
    BY <1>0, <1>2, CandidateFacts, VisitFacts
  <2> QED BY <1>0, <1>2, <2>1, CandidateFacts
<1>4. /\ v \in DOMAIN watchPos /\ v \in DOMAIN clauses /\ watchPos[v] \in Nat \X Nat
      /\ a \in {1, 2} /\ 3 - a \in {1, 2} /\ 3 - a # a /\ 3 - (3 - a) = a
      /\ Watched(v, a) = f /\ Watched(v, 3 - a) = o
      /\ f \in Lits /\ o \in Lits /\ x \in DOMAIN list /\ list[x] = v
      /\ On(-f) /\ LiteralFalse(f) /\ p \in Nat
  <2>1. /\ v \in DOMAIN watchPos /\ v \in DOMAIN clauses /\ watchPos[v] \in Nat \X Nat
        /\ a \in {1, 2} /\ Watched(v, a) = f /\ Watched(v, 3 - a) = o
        /\ f \in Lits /\ o \in Lits /\ x \in DOMAIN list /\ clauses[v] \in Seq(Lits)
        /\ On(-f) /\ LiteralFalse(f)
    BY <1>0, <1>a, <1>2, VisitFacts
  <2>2. list[x] = v
    BY <1>0, <1>a DEF Visited
  <2> QED BY <1>3, <2>1, <2>2
<1>5. /\ \A l \in Lits : watches[l] \in Seq(DOMAIN clauses)
      /\ watches \in [Lits -> Seq(DOMAIN clauses)] /\ watchPos \in Seq(Nat \X Nat)
  BY DEF IInv, TypeOK
<1>6. pair \in Nat \X Nat /\ pair[a] = p /\ pair[3 - a] = watchPos[v][3 - a]
  BY <1>4, <1>a, PairExcept
<1>7. /\ rest \in Seq(DOMAIN clauses) /\ Len(list) \in Nat /\ DOMAIN list = 1 .. Len(list)
      /\ DOMAIN rest = 1 .. Len(list) - 1
      /\ \A n \in DOMAIN rest : rest[n] = IF n = x THEN list[Len(list)] ELSE list[n]
  <2>1. list \in Seq(DOMAIN clauses) /\ x \in DOMAIN list
    BY <1>0, <1>4, <1>5
  <2>2. PICK S : S = DOMAIN clauses
    OBVIOUS
  <2>3. /\ rest \in Seq(S) /\ Len(list) \in Nat /\ DOMAIN list = 1 .. Len(list)
        /\ DOMAIN rest = 1 .. Len(list) - 1
        /\ \A n \in DOMAIN rest : rest[n] = IF n = x THEN list[Len(list)] ELSE list[n]
    <3>1. list \in Seq(S) /\ x \in DOMAIN list
      BY <2>1, <2>2
    <3>2. PICK e : e = [list EXCEPT ![x] = list[Len(list)]]
      OBVIOUS
    <3>3. rest = Front(e)
      BY <1>a, <3>2 DEF Last
    <3>4. /\ Len(list) \in Nat /\ DOMAIN list = 1 .. Len(list) /\ Len(list) >= 1
          /\ list[Len(list)] \in S
      BY <3>1
    <3>5. /\ e \in Seq(S) /\ Len(e) = Len(list) /\ Len(e) >= 1
          /\ \A n \in 1 .. Len(list) : e[n] = IF n = x THEN list[Len(list)] ELSE list[n]
      BY <3>1, <3>2, <3>4
    <3>6. rest \in Seq(S) /\ DOMAIN rest = 1 .. Len(e) - 1 /\ \A n \in DOMAIN rest : rest[n] = e[n]
      BY <3>3, <3>5, FrontFacts
    <3>7. \A n \in DOMAIN rest : n \in 1 .. Len(list)
      BY <3>4, <3>5, <3>6
    <3> QED BY <3>4, <3>5, <3>6, <3>7
  <2> QED BY <2>2, <2>3
<1>8. /\ longer \in Seq(DOMAIN clauses) /\ DOMAIN longer = 1 .. Len(watches[m]) + 1
      /\ longer[Len(watches[m]) + 1] = v
      /\ \A n \in 1 .. Len(watches[m]) : longer[n] = watches[m][n]
      /\ DOMAIN watches[m] = 1 .. Len(watches[m]) /\ Len(watches[m]) \in Nat
  BY <1>3, <1>4, <1>5, <1>a, Pushed
<1>9. watchPos' = [watchPos EXCEPT ![v] = pair]
  BY <1>0, <1>a DEF MoveWatch
<1>10. new = [watches EXCEPT ![f] = rest, ![m] = longer]
  BY <1>0, <1>a, <1>3, <1>4, <1>5 DEF MoveWatch
<1>11. /\ new \in [Lits -> Seq(DOMAIN clauses)]
       /\ new[f] = rest /\ new[m] = longer
       /\ \A l \in Lits : l # f /\ l # m => new[l] = watches[l]
  BY <1>3, <1>4, <1>5, <1>7, <1>8, <1>10
<1>12. /\ watchPos' \in Seq(Nat \X Nat) /\ DOMAIN watchPos' = DOMAIN watchPos
       /\ Len(watchPos') = Len(watchPos) /\ watchPos'[v] = pair
       /\ \A k \in DOMAIN watchPos : k # v => watchPos'[k] = watchPos[k]
  BY <1>4, <1>5, <1>6, <1>9
<1>13. /\ Watched(v, a)' = m /\ Watched(v, 3 - a)' = o
       /\ \A k \in DOMAIN watchPos : \A s : k # v => Watched(k, s)' = Watched(k, s)
  BY <1>0, <1>1, <1>4, <1>6, <1>12 DEF Watched
\* Entries of the list that is visited: all but the one at x remain.
<1>14. ASSUME NEW n \in DOMAIN rest
       PROVE  \E i \in DOMAIN list : /\ rest[n] = list[i] /\ i # x
                                     /\ i = IF n = x THEN Len(list) ELSE n
  BY <1>4, <1>7
<1>15. ASSUME NEW i \in DOMAIN list, i # x
       PROVE  \E n \in DOMAIN rest : rest[n] = list[i]
  <2>1. CASE i = Len(list)
    <3>1. x \in DOMAIN rest
      BY <1>4, <1>7, <1>15, <2>1
    <3> QED BY <1>7, <2>1, <3>1
  <2>2. CASE i # Len(list)
    <3>1. i \in DOMAIN rest
      BY <1>7, <2>2
    <3> QED BY <1>7, <1>15, <3>1
  <2> QED BY <2>1, <2>2
<1>16. \A i, j \in DOMAIN list : list[i] = list[j] => i = j
  BY <1>0, <1>4 DEF IInv, WatchesOK
<1>17. TypeOK'
  BY <1>1, <1>11, <1>12, <1>a DEF IInv, TypeOK, counters
<1>18. ControlOK' /\ BudgetOK' /\ TrailOK'
  BY <1>1, <1>12 DEF IInv, ControlOK, BudgetOK, Exceeded, counters, limits, TrailOK
<1>19. FramesOK'
  BY <1>1 DEF IInv, FramesOK
<1>20. BaseOK'
  BY <1>1, <1>12 DEF IInv, BaseOK, AtBase
<1>21. ASSUME NEW k \in DOMAIN watchPos
       PROVE  /\ watchPos'[k][1] \in DOMAIN clauses[k] /\ watchPos'[k][2] \in DOMAIN clauses[k]
              /\ watchPos'[k][1] = watchPos'[k][2] => Len(clauses[k]) = 1
  <2>1. CASE k # v
    BY <1>12, <2>1 DEF IInv, WatchesOK
  <2>2. CASE k = v
    <3>1. watchPos[v][1] \in DOMAIN clauses[v] /\ watchPos[v][2] \in DOMAIN clauses[v]
      BY <1>4 DEF IInv, WatchesOK
    <3> QED BY <1>3, <1>4, <1>6, <1>12, <2>2, <3>1
  <2> QED BY <2>1, <2>2
\* Every watch is still entered in the list of its literal.
<1>22. ASSUME NEW k \in DOMAIN watchPos, NEW s \in {1, 2}, NEW w, w = Watched(k, s)'
       PROVE  \E n \in DOMAIN new[w] : new[w][n] = k
  <2>1. CASE k = v /\ s = a
    <3>1. w = m /\ new[w] = longer
      BY <1>11, <1>13, <1>22, <2>1
    <3>2. Len(watches[m]) + 1 \in DOMAIN longer
      BY <1>8
    <3> QED BY <1>8, <2>1, <3>1, <3>2
  <2>2. CASE ~ (k = v /\ s = a)
    <3>1. w = Watched(k, s) /\ w \in Lits
      <4>1. CASE k = v
        BY <1>4, <1>13, <1>22, <2>2, <4>1
      <4>2. CASE k # v
        <5>1. Watched(k, s) \in Lits
          BY LimitsNat DEF IInv, WatchesOK, Watched
        <5> QED BY <1>13, <1>22, <4>2, <5>1
      <4> QED BY <4>1, <4>2
    <3>2. PICK n \in DOMAIN watches[w] : watches[w][n] = k
      BY <3>1 DEF IInv, WatchesOK
    <3>3. CASE w = m
      <4>1. n \in 1 .. Len(watches[m])
        BY <1>8, <3>2, <3>3
      <4>2. n \in DOMAIN longer /\ longer[n] = k /\ new[w] = longer
        BY <1>8, <1>11, <3>2, <3>3, <4>1
      <4> QED BY <4>2
    <3>4. CASE w = f
      <4>1. k # v
        BY <1>3, <1>4, <1>13, <1>22, <2>2, <3>4
      <4> QED BY <1>0, <1>4, <1>11, <1>15, <3>2, <3>4, <4>1
    <3>5. CASE w # m /\ w # f
      BY <1>11, <3>1, <3>2, <3>5
    <3> QED BY <3>3, <3>4, <3>5
  <2> QED BY <2>1, <2>2
\* What is entered in a list watches its literal, and is entered once.
<1>23. ASSUME NEW n \in DOMAIN rest
       PROVE  /\ rest[n] \in DOMAIN watchPos /\ rest[n] # v
              /\ \E s \in {1, 2} : Watched(rest[n], s)' = f
              /\ \A i \in DOMAIN rest : rest[i] = rest[n] => i = n
  <2>1. PICK i \in DOMAIN list : rest[n] = list[i] /\ i # x
    BY <1>14
  <2>2. /\ list[i] \in DOMAIN watchPos /\ \E s \in {1, 2} : Watched(list[i], s) = f
        /\ list[i] # v
    <3>1. list[i] # v
      BY <1>4, <1>16, <2>1
    <3>2. list[i] \in DOMAIN watchPos /\ \E s \in {1, 2} : Watched(list[i], s) = f
      <4>1. f \in Lits /\ i \in DOMAIN watches[f] /\ list = watches[f]
        BY <1>0, <1>4
      <4>2. /\ watches[f][i] \in DOMAIN watchPos
            /\ \E s \in {1, 2} : Watched(watches[f][i], s) = f
        BY <4>1 DEF IInv, WatchesOK
      <4>3. PICK k : k = watches[f][i]
        OBVIOUS
      <4> QED BY <4>1, <4>2, <4>3
    <3> QED BY <3>1, <3>2
  <2>3. ASSUME NEW j \in DOMAIN rest, rest[j] = rest[n] PROVE j = n
    <3>1. PICK y \in DOMAIN list : y = (IF j = x THEN Len(list) ELSE j) /\ rest[j] = list[y] /\ y # x
      BY <1>14
    <3>2. PICK z \in DOMAIN list : z = (IF n = x THEN Len(list) ELSE n) /\ rest[n] = list[z] /\ z # x
      BY <1>14
    <3>3. y = z
      BY <1>16, <2>3, <3>1, <3>2
    <3> QED BY <1>7, <3>1, <3>2, <3>3
  <2> QED BY <1>13, <2>1, <2>2, <2>3
<1>24. ASSUME NEW n \in DOMAIN watches[m]
       PROVE  /\ watches[m][n] \in DOMAIN watchPos /\ watches[m][n] # v
              /\ \E s \in {1, 2} : Watched(watches[m][n], s) = m
              /\ \A i \in DOMAIN watches[m] : watches[m][i] = watches[m][n] => i = n
  <2>1. /\ watches[m][n] \in DOMAIN watchPos
        /\ \E s \in {1, 2} : Watched(watches[m][n], s) = m
        /\ \A i \in DOMAIN watches[m] : watches[m][i] = watches[m][n] => i = n
    BY <1>3 DEF IInv, WatchesOK
  <2>2. \A s \in {1, 2} : Watched(v, s) # m
    BY <1>3, <1>4
  <2> QED BY <2>1, <2>2
<1>25. ASSUME NEW l \in Lits, NEW n \in DOMAIN new[l]
       PROVE  /\ new[l][n] \in DOMAIN watchPos
              /\ \E s \in {1, 2} : Watched(new[l][n], s)' = l
              /\ \A i \in DOMAIN new[l] : new[l][i] = new[l][n] => i = n
  <2>1. CASE l = f
    BY <1>11, <1>23, <1>25, <2>1
  <2>2. CASE l = m
    <3>1. new[l] = longer
      BY <1>11, <2>2
    <3>2. CASE n = Len(watches[m]) + 1
      <4>1. \A i \in DOMAIN longer : longer[i] = v => i = n
        BY <1>8, <1>24, <3>2
      <4> QED BY <1>4, <1>8, <1>13, <2>2, <3>1, <3>2, <4>1
    <3>3. CASE n \in DOMAIN watches[m]
      <4>1. longer[n] = watches[m][n]
        BY <1>8, <3>3
      <4>2. \A i \in DOMAIN longer : longer[i] = longer[n] => i = n
        BY <1>8, <1>24, <3>3
      <4>3. PICK k \in DOMAIN watchPos : k = watches[m][n] /\ k # v /\ \E s \in {1, 2} : Watched(k, s) = m
        BY <1>24, <3>3
      <4>4. \E s \in {1, 2} : Watched(k, s)' = m
        BY <1>13, <4>3
      <4> QED BY <2>2, <3>1, <4>1, <4>2, <4>3, <4>4
    <3> QED BY <1>8, <1>25, <3>1, <3>2, <3>3
  <2>3. CASE l # f /\ l # m
    <3>1. new[l] = watches[l]
      BY <1>11, <2>3
    <3>2. /\ watches[l][n] \in DOMAIN watchPos
          /\ \E s \in {1, 2} : Watched(watches[l][n], s) = l
          /\ \A i \in DOMAIN watches[l] : watches[l][i] = watches[l][n] => i = n
      BY <1>25, <3>1 DEF IInv, WatchesOK
    <3>3. PICK k, t : k = watches[l][n] /\ k \in DOMAIN watchPos /\ t \in {1, 2} /\ Watched(k, t) = l
      BY <3>2
    <3>4. CASE k = v
      <4>1. t = 3 - a /\ l = o
        BY <1>4, <2>3, <3>3, <3>4
      <4> QED BY <1>13, <3>1, <3>2, <3>3, <3>4, <4>1
    <3>5. CASE k # v
      <4>1. Watched(k, t)' = l
        BY <1>13, <3>3, <3>5
      <4> QED BY <3>1, <3>2, <3>3, <4>1
    <3> QED BY <3>4, <3>5
  <2> QED BY <2>1, <2>2, <2>3
<1>26. WatchesOK'
  <2>1. DOMAIN watchPos' = DOMAIN watchPos /\ clauses' = clauses /\ new = watches'
    BY <1>1, <1>12, <1>a
  <2> QED BY <2>1, <1>12, <1>21, <1>22, <1>25 DEF IInv, WatchesOK
<1>27. ASSUME NEW k \in DOMAIN watchPos, k # v, NEW s \in {1, 2}, NEW j, Blocked(k, s, j)
       PROVE  Blocked(k, s, j)'
  <2>1. Watched(k, 3 - s)' = Watched(k, 3 - s)
    BY <1>13, <1>27
  <2> QED BY <1>1, <1>27, <2>1 DEF Blocked, NoLater
<1>28. ASSUME NEW k \in DOMAIN watchPos, NEW s \in {1, 2}, NEW j \in DOMAIN trail,
              NEW w, w = Watched(k, s)', trail[j] = -w, Passed(j)
       PROVE  Blocked(k, s, j)'
  <2>1. CASE k # v
    <3>1. w = Watched(k, s)
      BY <1>13, <1>28, <2>1
    <3>2. Blocked(k, s, j)
      BY <1>28, <3>1 DEF IInv, QueueOK
    <3> QED BY <1>27, <2>1, <3>2
  <2>2. CASE k = v /\ s = a
    <3>1. On(-m)
      BY <1>13, <1>28, <2>2 DEF On
    <3> QED BY <1>3, <3>1, TrueOnTrail DEF IInv
  <2>3. CASE k = v /\ s = 3 - a
    <3>1. w = Watched(k, s)
      BY <1>4, <1>13, <1>28, <2>3
    <3>2. Blocked(k, s, j)
      BY <1>28, <3>1 DEF IInv, QueueOK
    <3>3. On(f)
      BY <1>4, <2>3, <3>2 DEF Blocked, On
    <3> QED BY <1>4, <3>3, TrueOnTrail, NotBoth DEF IInv
  <2> QED BY <1>4, <2>1, <2>2, <2>3
<1>29. ASSUME NEW n \in DOMAIN rest, NEW s \in {1, 2}, n < x,
              NEW k, k = rest[n], Watched(k, s)' = f, NEW j, j = qhead
       PROVE  Blocked(k, s, j)'
  <2>1. n \in DOMAIN list /\ k = list[n] /\ k # v /\ k \in DOMAIN watchPos
    BY <1>4, <1>7, <1>23, <1>29
  <2>2. Watched(k, s) = f
    BY <1>13, <1>29, <2>1
  <2>3. Blocked(k, s, j)
    <3>1. Blocked(watches[FalseLit][n], s, qhead)
      BY <1>0, <1>1, <1>29, <1>a, <2>1, <2>2 DEF IInv, QueueOK
    <3> QED BY <1>0, <1>29, <2>1, <3>1
  <2> QED BY <1>27, <2>1, <2>3
<1>30. QueueOK'
  <2>1. ASSUME NEW k \in DOMAIN watchPos, NEW s \in {1, 2}, NEW j \in DOMAIN trail,
               trail[j] = -(Watched(k, s)'), Passed(j)
        PROVE  Blocked(k, s, j)'
    BY <1>28, <2>1
  <2>2. \A j : Passed(j)' <=> Passed(j)
    BY <1>1 DEF Passed
  <2>3. ASSUME NEW n \in DOMAIN rest, NEW s \in {1, 2}, n < x, NEW k, k = rest[n],
               Watched(k, s)' = f
        PROVE  Blocked(k, s, qhead)'
    <3>1. PICK j : j = qhead
      OBVIOUS
    <3>2. Blocked(k, s, j)'
      BY <1>29, <2>3, <3>1
    <3>3. j = qhead'
      BY <1>1, <3>1
    <3> QED BY <3>2, <3>3
  <2>4. watches'[FalseLit'] = rest /\ scan' = x
    BY <1>1, <1>11, <1>a
  <2>5. DOMAIN watchPos' = DOMAIN watchPos /\ trail' = trail
    BY <1>1, <1>12
  <2> QED BY <1>1, <2>1, <2>2, <2>3, <2>4, <2>5 DEF QueueOK
<1> QED BY <1>17, <1>18, <1>19, <1>20, <1>26, <1>30 DEF IInv

-----------------------------------------------------------------------------
(* Deciding *)

LEMMA DecisionFacts ==
  ASSUME TypeOK
  PROVE  /\ DecisionLit # 0 => DecisionLit \in Lits /\ Unassigned(DecisionLit)
         /\ DecisionLit = 0 => FreeVars = {}
<1>1. CASE Undecided # {}
  <2>1. Undecided \in SUBSET Nat
    BY LimitsNat DEF Undecided
  <2>2. PICK k : k = Min(Undecided)
    OBVIOUS
  <2>3. k \in DOMAIN clauses /\ \E p \in DOMAIN clauses[k] : Unassigned(clauses[k][p])
    <3>1. k \in Undecided
      BY <1>1, <2>1, <2>2, MinIsMember
    <3> QED BY <3>1 DEF Undecided
  <2>4. PICK c : c = clauses[k] /\ c \in Seq(Lits)
    BY <2>3, LimitsNat
  <2>5. PICK T : T = {p \in DOMAIN c : Unassigned(c[p])}
    OBVIOUS
  <2>6. T \in SUBSET Nat /\ T # {}
    BY <2>3, <2>4, <2>5
  <2>7. PICK p : p = Min(T)
    OBVIOUS
  <2>8. p \in T
    BY <2>6, <2>7, MinIsMember
  <2>9. c[p] \in Lits /\ Unassigned(c[p])
    BY <2>4, <2>5, <2>8
  <2>10. DecisionLit = c[p]
    BY <1>1, <2>2, <2>4, <2>5, <2>7 DEF DecisionLit, FirstUnassigned
  <2> QED BY <2>9, <2>10, LitFacts
<1>2. CASE Undecided = {} /\ FreeVars # {}
  <2>1. FreeVars \in SUBSET Nat
    BY NumVarsAssumption DEF FreeVars, Vars
  <2>2. PICK v : v = Min(FreeVars)
    OBVIOUS
  <2>3. v \in FreeVars
    BY <1>2, <2>1, <2>2, MinIsMember
  <2>4. v \in Vars /\ assignment[v] = -1 /\ v \in Lits /\ Abs(v) = v
    BY <2>3, NumVarsAssumption DEF FreeVars, Vars, Lits, Abs
  <2>5. DecisionLit = v
    BY <1>2, <2>2 DEF DecisionLit
  <2> QED BY <2>4, <2>5, LitFacts DEF Unassigned
<1> QED BY <1>1, <1>2 DEF DecisionLit

LEMMA DecideKeeps ==
  ASSUME IInv, Decide
  PROVE  IInv'
<1>0. /\ pc = "propagate" /\ qhead = Len(trail) /\ ~ exhausted
      /\ DecisionLit \in Lits /\ Unassigned(DecisionLit)
  BY DecisionFacts DEF Decide, Propagated, IInv, ControlOK
<1>1. CASE CanDecide
  <2>0. PICK l, f, n0, m0 :
          /\ l = DecisionLit /\ n0 = Len(trail) /\ m0 = Len(frames)
          /\ f = [lit |-> l, branch |-> 1, limit |-> n0]
    OBVIOUS
  <2>1. /\ n0 \in Nat /\ DOMAIN trail = 1 .. n0 /\ trail \in Seq(Lits)
        /\ m0 \in Nat /\ DOMAIN frames = 1 .. m0 /\ frames \in Seq(Frame)
        /\ l \in Lits /\ f \in Frame /\ f.limit = n0 /\ f.lit = l /\ qhead = n0
    BY <1>0, <2>0 DEF IInv, TypeOK, Frame
  <2>2. /\ pc' = "enter" /\ problem' = problem /\ qhead' = qhead /\ trail' = Append(trail, l)
        /\ watchPos' = watchPos /\ watches' = watches /\ clauses' = clauses /\ limits' = limits
        /\ assignment' = [assignment EXCEPT ![Abs(l)] = IF l > 0 THEN 1 ELSE 0]
        /\ decisions' = decisions + 1
        /\ UNCHANGED <<scan, conflicts, propagations, late, exhausted, result>>
    BY <1>1, <2>0 DEF Decide, Branch, watchVars, clauses, limits
  <2>3. frames' = Append(frames, f)
    <3>1. frames' = Append(SubSeq(frames, 1, m0 - 1 + 1), f)
      BY <1>1, <2>0 DEF Decide, Branch
    <3>2. m0 - 1 + 1 = m0
      BY <2>1
    <3>3. SubSeq(frames, 1, m0) = frames
      BY <2>0, <2>1, Whole
    <3> QED BY <3>1, <3>2, <3>3
  <2>4. /\ frames' \in Seq(Frame) /\ DOMAIN frames' = 1 .. m0 + 1
        /\ frames'[m0 + 1] = f /\ \A k \in 1 .. m0 : frames'[k] = frames[k]
    BY <2>0, <2>1, <2>3, Pushed
  <2>5. /\ \A k, s, j : Blocked(k, s, j) => Blocked(k, s, j)'
        /\ \A m : AtBase(m) => AtBase(m)'
        /\ \A k, s : Watched(k, s)' = Watched(k, s)
        /\ DOMAIN trail' = 1 .. n0 + 1 /\ Len(trail') = n0 + 1
        /\ trail'[n0 + 1] = l /\ \A j \in 1 .. n0 : trail'[j] = trail[j]
    BY <2>0, <2>1, <2>2, <2>3, GrowKeeps
  <2>6. TrailOK'
    BY <1>0, <2>0, <2>1, <2>2, PushFits DEF IInv, TrailOK, Unassigned
  <2>7. TypeOK'
    BY <2>1, <2>2, <2>4, <2>5, <2>6 DEF IInv, TypeOK, TrailOK, Fits
  <2>8. ControlOK'
    BY <1>0, <2>2 DEF IInv, ControlOK
  <2>9. BudgetOK'
    BY <1>0, <1>1, <2>2, LimitsNat DEF IInv, BudgetOK, Exceeded, CanDecide, ControlOK, TypeOK
  <2>10. FramesOK'
    <3>1. ASSUME NEW n \in 1 .. m0
          PROVE  frames[n].limit \in Nat /\ frames[n].limit < n0 /\ frames[n].limit + 1 \in 1 .. n0
      <4>1. frames[n].limit \in Nat
        BY <2>1, FrameFacts DEF IInv
      <4>2. frames[n].limit < Len(trail)
        BY <2>1 DEF IInv, FramesOK
      <4> QED BY <2>0, <2>1, <4>1, <4>2
    <3>2. ASSUME NEW n \in 1 .. m0 + 1
          PROVE  /\ frames'[n].limit < n0 + 1 /\ frames'[n].limit <= n0
                 /\ trail'[frames'[n].limit + 1] = frames'[n].lit
      <4>1. CASE n = m0 + 1
        BY <2>1, <2>4, <2>5, <4>1
      <4>2. CASE n \in 1 .. m0
        <5>1. frames'[n] = frames[n] /\ trail'[frames[n].limit + 1] = trail[frames[n].limit + 1]
          BY <2>4, <2>5, <3>1, <4>2
        <5>2. trail[frames[n].limit + 1] = frames[n].lit
          BY <2>1, <4>2 DEF IInv, FramesOK
        <5> QED BY <2>1, <3>1, <4>2, <5>1, <5>2
      <4> QED BY <2>1, <3>2, <4>1, <4>2
    <3>3. ASSUME NEW m \in 1 .. m0 + 1, NEW n \in 1 .. m0 + 1, m < n
          PROVE  frames'[m].limit < frames'[n].limit
      <4>1. m \in 1 .. m0 /\ frames'[m] = frames[m]
        BY <2>1, <2>4, <3>3
      <4>2. CASE n = m0 + 1
        BY <2>1, <2>4, <3>1, <4>1, <4>2
      <4>3. CASE n \in 1 .. m0
        BY <2>1, <2>4, <3>3, <4>1, <4>3 DEF IInv, FramesOK
      <4> QED BY <2>1, <3>3, <4>2, <4>3
    <3> QED BY <2>1, <2>2, <2>4, <2>5, <3>2, <3>3 DEF FramesOK
  <2>11. WatchesOK'
    BY <2>2, <2>5 DEF IInv, WatchesOK
  <2>12. QueueOK'
    <3>1. ASSUME NEW k \in DOMAIN watchPos, NEW s \in {1, 2}, NEW j \in DOMAIN trail',
                 trail'[j] = -Watched(k, s), Passed(j)'
          PROVE  Blocked(k, s, j)'
      <4>1. j \in DOMAIN trail /\ trail'[j] = trail[j] /\ Passed(j)
        BY <1>0, <2>1, <2>2, <2>5, <3>1 DEF Passed
      <4> QED BY <2>5, <3>1, <4>1 DEF IInv, QueueOK
    <3> QED BY <2>2, <2>5, <3>1 DEF QueueOK
  <2>13. BaseOK'
    BY <1>0, <2>2, <2>5 DEF IInv, BaseOK
  <2> QED BY <2>6, <2>7, <2>8, <2>9, <2>10, <2>11, <2>12, <2>13 DEF IInv
<1>2. CASE ~ CanDecide
  <2> USE <1>2 DEF Decide
  <2>0. QuietStep
    BY DEF QuietStep, searchVars
  <2>1. TypeOK'
    BY <2>0, QuietFacts DEF IInv, TypeOK
  <2>2. ControlOK'
    BY <1>0, <2>0, QuietFacts DEF IInv, ControlOK
  <2>3. FramesOK'
    BY <2>0, QuietFacts DEF IInv, FramesOK
  <2>4. QueueOK'
    BY <1>0, <2>0, QuietFacts DEF IInv, QueueOK, Passed
  <2>5. BaseOK'
    BY <1>0, <2>0, QuietFacts DEF IInv, BaseOK
  <2>6. BudgetOK'
    <3>1. decisions >= limits.decisions
      BY LimitsNat DEF IInv, TypeOK, CanDecide
    <3>2. Exceeded'
      BY <2>0, <3>1, QuietFacts DEF Exceeded
    <3> QED BY <2>0, <3>2, QuietFacts DEF IInv, BudgetOK
  <2> QED BY <2>0, <2>1, <2>2, <2>3, <2>4, <2>5, <2>6, QuietFacts DEF IInv
<1> QED BY <1>1, <1>2

-----------------------------------------------------------------------------
(* Backtracking *)

\* What the last level leaves behind when it is popped.
LEMMA PopFacts ==
  ASSUME IInv, pc = "return", frames # << >>,
         NEW m, m = Len(frames), NEW top, top = Last(frames), NEW n, n = top.limit,
         NEW t, t = Popped, NEW b, b = Unwound
  PROVE  /\ m \in Nat /\ m >= 1 /\ DOMAIN frames = 1 .. m /\ top = frames[m] /\ top \in Frame
         /\ n \in 0 .. Len(trail) /\ n <= qhead /\ (~ exhausted => n < qhead)
         /\ Len(trail) \in Nat /\ DOMAIN trail = 1 .. Len(trail) /\ qhead \in Nat
         /\ t \in Seq(Lits) /\ Len(t) = n /\ DOMAIN t = 1 .. n
         /\ \A j \in 1 .. n : t[j] = trail[j]
         /\ Fits(b, t) /\ top.lit \in Lits /\ b[Abs(top.lit)] = -1
         /\ Min({qhead, Len(t)}) = n
<1>1. /\ m \in Nat /\ m >= 1 /\ DOMAIN frames = 1 .. m /\ top = frames[m] /\ top \in Frame
      /\ Len(trail) \in Nat /\ DOMAIN trail = 1 .. Len(trail) /\ qhead \in Nat
      /\ trail \in Seq(Lits)
  <2>1. frames \in Seq(Frame) /\ trail \in Seq(Lits) /\ qhead \in 0 .. Len(trail)
    BY DEF IInv, TypeOK
  <2>2. m \in Nat /\ m >= 1 /\ DOMAIN frames = 1 .. m /\ top = frames[m]
    BY <2>1 DEF Last
  <2> QED BY <2>1, <2>2
<1>2. /\ n \in Nat /\ top.lit \in Lits /\ n < Len(trail) /\ n <= qhead
      /\ (~ exhausted => n < qhead) /\ trail[n + 1] = top.lit
  <2>1. m \in DOMAIN frames
    BY <1>1
  <2> QED BY <1>1, <2>1, FrameFacts DEF IInv, FramesOK
<1>3. n \in 0 .. Len(trail)
  BY <1>1, <1>2
<1>4. t = SubSeq(trail, 1, n)
  BY DEF Popped
<1>5. /\ t \in Seq(Lits) /\ Len(t) = n /\ DOMAIN t = 1 .. n
      /\ \A j \in 1 .. n : t[j] = trail[j]
  <2> DEFINE w == SubSeq(trail, 1, n)
  <2>1. /\ w \in Seq(Lits) /\ Len(w) = n /\ DOMAIN w = 1 .. n
        /\ \A j \in 1 .. n : w[j] = trail[j]
    BY <1>1, <1>3, Prefix
  <2>2. t = w
    BY <1>4
  <2> HIDE DEF w
  <2> QED BY <2>1, <2>2
<1>6. /\ b \in [Vars -> {-1, 0, 1}]
      /\ \A v \in Vars : b[v] = IF \E k \in DOMAIN t : Abs(t[k]) = v THEN assignment[v] ELSE -1
  <2>1. assignment \in [Vars -> {-1, 0, 1}]
    BY DEF IInv, TypeOK
  <2> QED BY <2>1 DEF Unwound
<1>7. Fits(b, t) /\ \A j \in DOMAIN trail : j > n => b[Abs(trail[j])] = -1
  <2>1. PICK a, u : a = assignment /\ u = trail
    OBVIOUS
  <2>2. /\ Fits(a, u) /\ n \in 0 .. Len(u)
        /\ t \in Seq(Lits) /\ DOMAIN t = 1 .. n /\ \A j \in 1 .. n : t[j] = u[j]
        /\ \A v \in Vars : b[v] = IF \E k \in DOMAIN t : Abs(t[k]) = v THEN a[v] ELSE -1
    BY <1>3, <1>5, <1>6, <2>1 DEF IInv, TrailOK
  <2>3. Fits(b, t) /\ \A j \in DOMAIN u : j > n => b[Abs(u[j])] = -1
    BY <1>6, <2>2, CutFits
  <2> QED BY <2>1, <2>3
<1>8. b[Abs(top.lit)] = -1
  <2>1. n + 1 \in DOMAIN trail /\ n + 1 > n
    BY <1>1, <1>2
  <2> QED BY <1>2, <1>7, <2>1
<1>9. Min({qhead, Len(t)}) = n
  <2>1. PICK T : T = {qhead, Len(t)}
    OBVIOUS
  <2>2. Min(T) \in T
    <3>1. T \in SUBSET Nat /\ T # {}
      BY <1>1, <1>2, <1>5, <2>1
    <3> QED BY <3>1, MinIsMember
  <2>3. \E x \in T : \A y \in T : x <= y
    <3>1. n \in T /\ \A y \in T : n <= y
      BY <1>2, <1>5, <2>1
    <3> QED BY <3>1
  <2>4. \A y \in T : Min(T) <= y
    BY <2>3 DEF Min
  <2>5. PICK z : z = Min(T)
    OBVIOUS
  <2>6. z = qhead \/ z = n
    BY <1>5, <2>1, <2>2, <2>5
  <2>7. z <= n
    BY <1>5, <2>1, <2>4, <2>5
  <2> QED BY <1>1, <1>2, <2>1, <2>5, <2>6, <2>7
<1> QED BY <1>1, <1>2, <1>3, <1>5, <1>7, <1>8, <1>9

\* The last level, of limit n, is popped, and may be replaced by another one.
PopStep(m, n) ==
  /\ m = Len(frames) /\ m >= 1 /\ n = frames[m].limit /\ n \in 0 .. Len(trail)
  /\ n <= qhead /\ (~ exhausted => n < qhead)
  /\ UNCHANGED <<problem, watchVars, result>>
  /\ trail' \in Seq(Lits) /\ n <= Len(trail') /\ \A j \in 1 .. n : trail'[j] = trail[j]
  /\ qhead' = n
  /\ frames' \in Seq(Frame) /\ \A k \in 1 .. m - 1 : frames'[k] = frames[k]
  /\ \/ Len(frames') = m - 1 /\ pc' = "return"
     \/ /\ Len(frames') = m /\ pc' = "enter" /\ ~ exhausted
        /\ frames'[m].limit = n /\ Len(trail') > n /\ trail'[n + 1] = frames'[m].lit

LEMMA PopStepFacts ==
  ASSUME IInv, NEW m \in Nat, NEW n \in Nat, PopStep(m, n)
  PROVE  /\ m >= 1 /\ m \in DOMAIN frames /\ DOMAIN frames = 1 .. m /\ frames[m].limit = n
         /\ Len(trail) \in Nat /\ DOMAIN trail = 1 .. Len(trail) /\ 1 .. n \subseteq 1 .. Len(trail)
         /\ Len(trail') \in Nat /\ DOMAIN trail' = 1 .. Len(trail')
         /\ n <= Len(trail') /\ 1 .. n \subseteq 1 .. Len(trail')
         /\ \A j \in 1 .. n : trail'[j] = trail[j]
         /\ Len(frames') \in Nat /\ Len(frames') <= m /\ DOMAIN frames' = 1 .. Len(frames')
         /\ qhead \in Nat /\ clauses' = clauses /\ watchPos' = watchPos
         /\ \A k \in DOMAIN frames' : \/ k \in 1 .. m - 1 /\ frames'[k] = frames[k]
                                      \/ k = m /\ Len(frames') = m /\ frames'[k].limit = n
<1>1. frames \in Seq(Frame) /\ trail \in Seq(Lits) /\ qhead \in Nat
  BY DEF IInv, TypeOK
<1>2. /\ m >= 1 /\ m \in DOMAIN frames /\ DOMAIN frames = 1 .. m /\ frames[m].limit = n
      /\ Len(trail) \in Nat /\ DOMAIN trail = 1 .. Len(trail) /\ 1 .. n \subseteq 1 .. Len(trail)
  BY <1>1 DEF PopStep
<1>3. /\ Len(trail') \in Nat /\ DOMAIN trail' = 1 .. Len(trail')
      /\ n <= Len(trail') /\ 1 .. n \subseteq 1 .. Len(trail')
      /\ \A j \in 1 .. n : trail'[j] = trail[j]
  BY DEF PopStep
<1>4. Len(frames') \in Nat /\ Len(frames') <= m /\ DOMAIN frames' = 1 .. Len(frames')
  BY DEF PopStep
<1>5. clauses' = clauses /\ watchPos' = watchPos
  BY DEF PopStep, clauses, watchVars
<1>6. ASSUME NEW k \in DOMAIN frames'
      PROVE  \/ k \in 1 .. m - 1 /\ frames'[k] = frames[k]
             \/ k = m /\ Len(frames') = m /\ frames'[k].limit = n
  <2>1. k \in 1 .. m
    BY <1>4
  <2>2. CASE k = m
    <3>1. Len(frames') = m
      BY <1>4, <2>2 DEF PopStep
    <3> QED BY <2>2, <3>1 DEF PopStep
  <2>3. CASE k # m
    <3>1. k \in 1 .. m - 1
      BY <2>1, <2>3
    <3> QED BY <3>1 DEF PopStep
  <2> QED BY <2>2, <2>3
<1>7. \A k \in DOMAIN frames' : \/ k \in 1 .. m - 1 /\ frames'[k] = frames[k]
                                \/ k = m /\ Len(frames') = m /\ frames'[k].limit = n
  BY <1>6
<1> QED BY <1>1, <1>2, <1>3, <1>4, <1>5, <1>7, Zenon

\* What holds up to the limit of the last level outlives it.
LEMMA PopSurvives ==
  ASSUME IInv, NEW m \in Nat, NEW n \in Nat, PopStep(m, n)
  PROVE  /\ \A k, s : Watched(k, s)' = Watched(k, s)
         /\ \A k, s : \A j \in 1 .. n : Blocked(k, s, j) => Blocked(k, s, j)'
         /\ \A l : AtBase(l) => AtBase(l)'
<1>1. /\ m >= 1 /\ DOMAIN frames = 1 .. m /\ m \in DOMAIN frames /\ frames[m].limit = n
      /\ Len(trail) \in Nat /\ DOMAIN trail = 1 .. Len(trail) /\ 1 .. n \subseteq DOMAIN trail'
      /\ \A j \in 1 .. n : trail'[j] = trail[j]
      /\ \A k \in DOMAIN frames' : \/ k \in 1 .. m - 1 /\ frames'[k] = frames[k]
                                   \/ frames'[k].limit = n
  BY PopStepFacts
<1>3. \A k, s : Watched(k, s)' = Watched(k, s)
  BY PopStepFacts DEF Watched
<1>4. ASSUME NEW k, NEW s, NEW j \in 1 .. n, Blocked(k, s, j)
      PROVE  Blocked(k, s, j)'
  <2>1. PICK i \in DOMAIN trail : trail[i] = Watched(k, 3 - s) /\ NoLater(i, j)
    BY <1>4 DEF Blocked
  <2>2. i <= n
    BY <1>1, <2>1 DEF NoLater
  <2>3. i \in 1 .. n
    BY <1>1, <2>1, <2>2
  <2>4. NoLater(i, j)'
    <3>1. ASSUME NEW x \in DOMAIN frames', j <= frames'[x].limit
          PROVE  i <= frames'[x].limit
      <4>1. CASE x \in 1 .. m - 1 /\ frames'[x] = frames[x]
        <5>1. x \in DOMAIN frames
          BY <1>1, <4>1
        <5> QED BY <2>1, <3>1, <4>1, <5>1 DEF NoLater
      <4>2. CASE frames'[x].limit = n
        BY <2>2, <4>2
      <4> QED BY <1>1, <3>1, <4>1, <4>2
    <3> QED BY <3>1 DEF NoLater
  <2>5. i \in DOMAIN trail' /\ trail'[i] = Watched(k, 3 - s)
    BY <1>1, <2>1, <2>3
  <2> QED BY <1>3, <2>4, <2>5 DEF Blocked
<1>5. ASSUME NEW l, AtBase(l) PROVE AtBase(l)'
  <2>1. PICK j \in DOMAIN trail : trail[j] = l /\ \A x \in DOMAIN frames : j <= frames[x].limit
    BY <1>5 DEF AtBase
  <2>2. j \in 1 .. n
    BY <1>1, <2>1
  <2>3. \A x \in DOMAIN frames' : j <= frames'[x].limit
    BY <1>1, <2>1, <2>2
  <2>4. j \in DOMAIN trail' /\ trail'[j] = l
    BY <1>1, <2>1, <2>2
  <2> QED BY <2>3, <2>4 DEF AtBase
<1> QED BY <1>3, <1>4, <1>5

LEMMA WatchesKept ==
  ASSUME WatchesOK, UNCHANGED <<problem, watchVars>>
  PROVE  WatchesOK'
BY DEF WatchesOK, Watched, watchVars, clauses

\* The invariant after a pop, whatever replaces the level.
LEMMA PopKeeps ==
  ASSUME IInv, pc = "return", NEW m \in Nat, NEW n \in Nat, PopStep(m, n)
  PROVE  FramesOK' /\ WatchesOK' /\ QueueOK' /\ BaseOK'
<1>1. /\ m >= 1 /\ DOMAIN frames = 1 .. m /\ m \in DOMAIN frames /\ frames[m].limit = n
      /\ DOMAIN trail = 1 .. Len(trail) /\ Len(trail) \in Nat /\ qhead \in Nat
      /\ Len(trail') \in Nat /\ DOMAIN trail' = 1 .. Len(trail') /\ n <= Len(trail')
      /\ 1 .. n \subseteq 1 .. Len(trail) /\ 1 .. n \subseteq DOMAIN trail'
      /\ \A j \in 1 .. n : trail'[j] = trail[j]
      /\ Len(frames') \in Nat /\ Len(frames') <= m /\ DOMAIN frames' = 1 .. Len(frames')
      /\ clauses' = clauses /\ watchPos' = watchPos
  BY PopStepFacts
<1>2. qhead' = n
  BY DEF PopStep
<1>3. ASSUME NEW k \in DOMAIN frames'
      PROVE  \/ k \in 1 .. m - 1 /\ frames'[k] = frames[k]
             \/ k = m /\ Len(frames') = m /\ frames'[k].limit = n
  BY PopStepFacts
<1>4. /\ \A k, s : Watched(k, s)' = Watched(k, s)
      /\ \A k, s : \A j \in 1 .. n : Blocked(k, s, j) => Blocked(k, s, j)'
      /\ \A l : AtBase(l) => AtBase(l)'
  BY PopSurvives
<1>5. ASSUME NEW k \in 1 .. m - 1
      PROVE  /\ frames[k].limit \in Nat /\ frames[k].limit < n
             /\ frames[k].limit + 1 \in 1 .. n /\ trail[frames[k].limit + 1] = frames[k].lit
  <2>1. k \in DOMAIN frames /\ m \in DOMAIN frames /\ k < m
    BY <1>1
  <2>2. frames[k].limit \in Nat /\ frames[k].limit < n
    BY <1>1, <2>1, FrameFacts DEF IInv, FramesOK
  <2>3. trail[frames[k].limit + 1] = frames[k].lit
    BY <2>1 DEF IInv, FramesOK
  <2> QED BY <1>1, <2>2, <2>3
<1>6. FramesOK'
  <2>1. ASSUME NEW k \in DOMAIN frames'
        PROVE  /\ frames'[k].limit < Len(trail') /\ frames'[k].limit <= n
               /\ trail'[frames'[k].limit + 1] = frames'[k].lit
    <3>1. CASE k \in 1 .. m - 1 /\ frames'[k] = frames[k]
      <4>1. frames[k].limit < n /\ frames[k].limit + 1 \in 1 .. n
        BY <1>5, <3>1
      <4>2. trail'[frames[k].limit + 1] = frames[k].lit
        BY <1>1, <1>5, <3>1, <4>1
      <4>3. frames'[k].limit < Len(trail')
        BY <1>1, <1>2, <1>5, <3>1
      <4> QED BY <1>1, <1>5, <3>1, <4>1, <4>2, <4>3
    <3>2. CASE k = m /\ Len(frames') = m
      <4>1. /\ frames'[m].limit = n /\ Len(trail') > n /\ trail'[n + 1] = frames'[m].lit
        BY <1>1, <3>2 DEF PopStep
      <4> QED BY <3>2, <4>1
    <3> QED BY <1>3, <2>1, <3>1, <3>2
  <2>2. ASSUME NEW j \in DOMAIN frames', NEW k \in DOMAIN frames', j < k
        PROVE  frames'[j].limit < frames'[k].limit
    <3>1. j \in 1 .. m - 1 /\ frames'[j] = frames[j]
      <4>1. j \in 1 .. Len(frames') /\ j < m /\ j # m
        BY <1>1, <2>2
      <4>2. (j \in 1 .. m - 1 /\ frames'[j] = frames[j]) \/ j = m
        BY <1>3, <2>2
      <4> QED BY <4>1, <4>2
    <3>2. CASE k \in 1 .. m - 1 /\ frames'[k] = frames[k]
      BY <1>1, <2>2, <3>1, <3>2 DEF IInv, FramesOK
    <3>3. CASE k = m /\ frames'[k].limit = n
      BY <1>5, <3>1, <3>3
    <3> QED BY <1>3, <2>2, <3>2, <3>3
  <2>3. ASSUME pc' = "return", NEW k \in DOMAIN frames'
        PROVE  frames'[k].limit < n
    <3>1. k \in 1 .. m - 1 /\ frames'[k] = frames[k]
      BY <1>1, <1>3, <2>3 DEF PopStep
    <3> QED BY <1>5, <3>1
  <2>4. pc' # "visit"
    BY DEF PopStep
  <2> QED BY <1>2, <2>1, <2>2, <2>3, <2>4 DEF FramesOK
<1>7. WatchesOK'
  BY WatchesKept DEF IInv, PopStep
<1>8. QueueOK'
  <2>1. ASSUME NEW k \in DOMAIN watchPos, NEW s \in {1, 2}, NEW j \in DOMAIN trail',
               trail'[j] = -Watched(k, s), Passed(j)'
        PROVE  Blocked(k, s, j)'
    <3>1. j \in 1 .. n /\ j < qhead
      BY <1>1, <1>2, <2>1 DEF Passed, PopStep
    <3>2. j \in DOMAIN trail /\ trail'[j] = trail[j]
      BY <1>1, <3>1
    <3>3. Blocked(k, s, j)
      BY <2>1, <3>1, <3>2 DEF IInv, QueueOK, Passed
    <3> QED BY <1>4, <3>1, <3>3
  <2>2. pc' # "visit"
    BY DEF PopStep
  <2> QED BY <1>1, <1>4, <2>1, <2>2 DEF QueueOK
<1>9. BaseOK'
  BY <1>1, <1>4 DEF IInv, BaseOK, PopStep
<1> QED BY <1>6, <1>7, <1>8, <1>9

LEMMA BacktrackKeeps ==
  ASSUME IInv, Backtrack
  PROVE  IInv'
<1>0. PICK m, top, n, t, b, r :
        /\ m = Len(frames) /\ top = Last(frames) /\ n = top.limit
        /\ t = Popped /\ b = Unwound /\ r = SubSeq(frames, 1, m - 1)
  OBVIOUS
<1>1. /\ m \in Nat /\ m >= 1 /\ DOMAIN frames = 1 .. m /\ top = frames[m] /\ top \in Frame
      /\ n \in 0 .. Len(trail) /\ n \in Nat /\ n <= qhead /\ (~ exhausted => n < qhead)
      /\ t \in Seq(Lits) /\ Len(t) = n /\ DOMAIN t = 1 .. n
      /\ \A j \in 1 .. n : t[j] = trail[j]
      /\ Fits(b, t) /\ top.lit \in Lits /\ b[Abs(top.lit)] = -1
      /\ Min({qhead, Len(t)}) = n
  BY <1>0, PopFacts DEF Backtrack
<1>2. /\ r \in Seq(Frame) /\ Len(r) = m - 1 /\ \A k \in 1 .. m - 1 : r[k] = frames[k]
  <2> DEFINE w == SubSeq(frames, 1, m - 1)
  <2>1. m - 1 \in 0 .. Len(frames) /\ frames \in Seq(Frame)
    BY <1>0, <1>1 DEF IInv, TypeOK
  <2>2. w \in Seq(Frame) /\ Len(w) = m - 1 /\ \A k \in 1 .. m - 1 : w[k] = frames[k]
    BY <2>1, Prefix
  <2>3. r = w
    BY <1>0
  <2> HIDE DEF w
  <2> QED BY <2>2, <2>3
<1>3. /\ pc = "return" /\ frames # << >> /\ qhead' = n
      /\ problem' = problem /\ watches' = watches /\ watchPos' = watchPos /\ limits' = limits
      /\ clauses' = clauses
      /\ UNCHANGED <<scan, conflicts, propagations, late, result>>
  BY <1>0, <1>1 DEF Backtrack, watchVars, limits, clauses
<1>4. CASE top.branch = 1 /\ ~ exhausted /\ CanDecide
  <2>0. PICK l, f : l = -top.lit /\ f = [lit |-> l, branch |-> 2, limit |-> n]
    OBVIOUS
  <2>1. l \in Lits /\ f \in Frame /\ f.limit = n /\ f.lit = l /\ b[Abs(l)] = -1
    BY <1>1, <2>0, LitFacts DEF Frame
  <2>2. /\ trail' = Append(t, l) /\ decisions' = decisions + 1 /\ pc' = "enter"
        /\ assignment' = [b EXCEPT ![Abs(l)] = IF l > 0 THEN 1 ELSE 0]
        /\ exhausted' = exhausted
    BY <1>0, <1>4, <2>0 DEF Backtrack, Branch
  <2>3. frames' = Append(r, f)
    <3>1. frames' = Append(SubSeq(frames, 1, m - 2 + 1), f)
      BY <1>0, <1>1, <1>4, <2>0 DEF Backtrack, Branch
    <3>2. m - 2 + 1 = m - 1
      BY <1>1
    <3> QED BY <1>0, <3>1, <3>2
  <2>4. /\ frames' \in Seq(Frame) /\ Len(frames') = m
        /\ frames'[m] = f /\ \A k \in 1 .. m - 1 : frames'[k] = frames[k]
    <3>1. /\ frames' \in Seq(Frame) /\ Len(frames') = m - 1 + 1 /\ frames'[m - 1 + 1] = f
          /\ \A k \in 1 .. m - 1 : frames'[k] = r[k]
      BY <1>2, <2>1, <2>3, Pushed
    <3>2. m - 1 + 1 = m
      BY <1>1
    <3> QED BY <1>2, <3>1, <3>2
  <2>5. /\ trail' \in Seq(Lits) /\ Len(trail') = n + 1
        /\ trail'[n + 1] = l /\ \A j \in 1 .. n : trail'[j] = trail[j]
    BY <1>1, <2>1, <2>2, Pushed
  <2>6. TrailOK'
    BY <1>1, <2>1, <2>2, PushFits DEF TrailOK
  <2>7. FramesOK' /\ WatchesOK' /\ QueueOK' /\ BaseOK'
    <3>1. n <= Len(trail') /\ Len(trail') > n
      BY <1>1, <2>5
    <3>2. PopStep(m, n)
      BY <1>0, <1>1, <1>3, <1>4, <2>1, <2>2, <2>4, <2>5, <3>1 DEF PopStep, watchVars
    <3> QED BY <1>1, <1>3, <3>2, PopKeeps
  <2>8. TypeOK'
    <3>1. qhead' \in 0 .. Len(trail')
      BY <1>1, <1>3, <2>5
    <3> QED BY <1>3, <2>2, <2>4, <2>5, <2>6, <3>1 DEF IInv, TypeOK, TrailOK, Fits
  <2>9. ControlOK'
    BY <1>3, <1>4, <2>2 DEF IInv, ControlOK
  <2>10. BudgetOK'
    BY <1>3, <1>4, <2>2, LimitsNat DEF IInv, BudgetOK, Exceeded, CanDecide, ControlOK, TypeOK
  <2> QED BY <2>6, <2>7, <2>8, <2>9, <2>10 DEF IInv
<1>5. CASE ~ (top.branch = 1 /\ ~ exhausted /\ CanDecide)
  <2>1. /\ trail' = t /\ assignment' = b /\ frames' = r /\ pc' = "return"
        /\ exhausted' = (exhausted \/ top.branch = 1) /\ decisions' = decisions
    BY <1>0, <1>5 DEF Backtrack, Front
  <2>2. TrailOK'
    BY <1>1, <2>1 DEF TrailOK
  <2>3. FramesOK' /\ WatchesOK' /\ QueueOK' /\ BaseOK'
    <3>1. n <= Len(t) /\ Len(r) # m
      BY <1>1, <1>2
    <3>2. PopStep(m, n)
      BY <1>0, <1>1, <1>2, <1>3, <2>1, <3>1 DEF PopStep, watchVars
    <3> QED BY <1>1, <1>3, <3>2, PopKeeps
  <2>4. TypeOK'
    <3>1. qhead' \in 0 .. Len(trail')
      BY <1>1, <1>3, <2>1
    <3>2. exhausted' \in BOOLEAN
      BY <2>1 DEF IInv, TypeOK
    <3> QED BY <1>1, <1>2, <1>3, <2>1, <2>2, <3>1, <3>2 DEF IInv, TypeOK, TrailOK, Fits
  <2>5. ControlOK'
    BY <1>3, <2>1 DEF IInv, ControlOK
  <2>6. BudgetOK'
    <3>1. exhausted' => Exceeded
      BY <1>5, <2>1, LimitsNat DEF IInv, BudgetOK, Exceeded, CanDecide, TypeOK
    <3>2. Exceeded' = Exceeded
      BY <1>3, <2>1 DEF Exceeded
    <3>3. result' # "Timeout"
      BY <1>3 DEF IInv, ControlOK
    <3> QED BY <1>3, <2>1, <3>1, <3>2, <3>3 DEF IInv, BudgetOK
  <2> QED BY <2>2, <2>3, <2>4, <2>5, <2>6 DEF IInv
<1> QED BY <1>4, <1>5

-----------------------------------------------------------------------------
(* Before the search: watching the clauses and assuming *)

\* Nothing is propagated yet and there are no levels.
LEMMA RootFacts ==
  ASSUME IInv, pc = "watch"
  PROVE  /\ frames = << >> /\ qhead = 0 /\ result = "none" /\ ~ exhausted
         /\ \A l : AtBase(l) <=> On(l)
BY DEF IInv, ControlOK, AtBase, On

LEMMA RootKeeps ==
  ASSUME frames' = << >>, qhead' = 0, pc' \in {"watch", "done"}, trail' \in Seq(Lits)
  PROVE  FramesOK' /\ QueueOK' /\ \A l : AtBase(l)' <=> On(l)'
<1>1. \A j \in DOMAIN trail' : ~ (j < 0) /\ j # 0
  OBVIOUS
<1>2. QueueOK'
  BY <1>1 DEF QueueOK, Passed
<1>3. FramesOK' /\ \A l : AtBase(l)' <=> On(l)'
  BY DEF FramesOK, AtBase, On
<1> QED BY <1>2, <1>3

\* Assigning a literal that is not false.
LEMMA RootAssign ==
  ASSUME IInv, pc = "watch", NEW l \in Lits, AssignOrRefute(l)
  PROVE  /\ frames' = << >> /\ qhead' = 0 /\ TrailOK'
         /\ pc' \in {"watch", "done"} /\ result' \in {"none", "Unsat"}
         /\ pc' = "done" <=> result' # "none"
         /\ \A m : On(m) => On(m)'
         /\ pc' = "watch" => On(l)'
<1>1. CASE LiteralFalse(l)
  BY <1>1, RootFacts DEF AssignOrRefute, Finish, searchVars, IInv, TrailOK, On
<1>2. CASE ~ LiteralFalse(l) /\ Unassigned(l)
  <2>1. /\ assignment' = [assignment EXCEPT ![Abs(l)] = IF l > 0 THEN 1 ELSE 0]
        /\ trail' = Append(trail, l) /\ UNCHANGED <<frames, qhead, pc, result>>
    BY <1>2 DEF AssignOrRefute, Assign
  <2>2. TrailOK'
    BY <1>2, <2>1, PushFits DEF IInv, TrailOK, Unassigned
  <2>3. /\ DOMAIN trail = 1 .. Len(trail) /\ Len(trail) \in Nat /\ DOMAIN trail' = 1 .. Len(trail) + 1
        /\ trail'[Len(trail) + 1] = l /\ \A j \in 1 .. Len(trail) : trail'[j] = trail[j]
    BY <2>1, Pushed DEF IInv, TypeOK
  <2>4. On(l)' /\ \A m : On(m) => On(m)'
    <3>1. Len(trail) + 1 \in DOMAIN trail'
      BY <2>3
    <3>2. \A j \in DOMAIN trail : j \in DOMAIN trail' /\ trail'[j] = trail[j]
      BY <2>3
    <3> QED BY <2>3, <3>1, <3>2 DEF On
  <2> QED BY <1>2, <2>1, <2>2, <2>4, RootFacts
<1>3. CASE ~ LiteralFalse(l) /\ ~ Unassigned(l)
  <2>1. /\ assignment' = [assignment EXCEPT ![Abs(l)] = IF l > 0 THEN 1 ELSE 0]
        /\ trail' = trail /\ UNCHANGED <<frames, qhead, pc, result>>
    BY <1>3 DEF AssignOrRefute, Assign
  <2>2. LiteralTrue(l) /\ On(l)
    BY <1>3, TrueOnTrail DEF IInv
  <2>3. assignment' = assignment
    BY <2>1, <2>2 DEF LiteralTrue, IInv, TypeOK
  <2>4. TrailOK' /\ \A m : On(m)' <=> On(m)
    BY <2>1, <2>3 DEF IInv, TrailOK, On
  <2> QED BY <1>3, <2>1, <2>2, <2>4, RootFacts
<1> QED BY <1>1, <1>2, <1>3

LEMMA AssumeKeeps ==
  ASSUME IInv, Assume
  PROVE  IInv'
<1>0. PICK l : l = problem.assumptions[scan]
  OBVIOUS
<1>1. /\ pc = "watch" /\ l \in Lits /\ AssignOrRefute(l) /\ scan' = scan + 1
      /\ Len(watchPos) = Len(clauses) /\ problem' = problem
      /\ watches' = watches /\ watchPos' = watchPos /\ clauses' = clauses /\ limits' = limits
      /\ UNCHANGED <<counters, late, exhausted>>
  <2>1. scan \in DOMAIN problem.assumptions
    BY LimitsNat DEF Assume, IInv, TypeOK
  <2> QED BY <1>0, <2>1, LimitsNat DEF Assume, IInv, clauses, limits, watchVars
<1>2. /\ frames' = << >> /\ qhead' = 0 /\ TrailOK'
      /\ pc' \in {"watch", "done"} /\ result' \in {"none", "Unsat"}
      /\ pc' = "done" <=> result' # "none"
      /\ \A m : On(m) => On(m)'
      /\ pc' = "watch" => On(l)'
  BY <1>1, RootAssign
<1>3. TypeOK'
  BY <1>1, <1>2 DEF IInv, TypeOK, TrailOK, Fits, counters
<1>4. ControlOK' /\ BudgetOK'
  BY <1>1, <1>2, RootFacts DEF IInv, ControlOK, BudgetOK, counters
<1>5. FramesOK' /\ QueueOK' /\ \A m : AtBase(m)' <=> On(m)'
  BY <1>2, <1>3, RootKeeps DEF TypeOK
<1>6. WatchesOK'
  BY <1>1, WatchesKept DEF IInv, watchVars
<1>7. BaseOK'
  <2>1. \A m : AtBase(m) <=> On(m)
    BY <1>1, RootFacts
  <2>2. ASSUME pc' = "watch", NEW k \in DOMAIN problem.assumptions, k < scan + 1
        PROVE  On(problem.assumptions[k])'
    <3>1. k < scan \/ k = scan
      BY <2>2, LimitsNat DEF IInv, TypeOK
    <3>2. CASE k = scan
      BY <1>0, <1>1, <1>2, <2>2, <3>2
    <3>3. CASE k < scan
      <4>1. On(problem.assumptions[k])
        BY <1>1, <2>1, <2>2, <3>3 DEF IInv, BaseOK
      <4>2. PICK m : m = problem.assumptions[k]
        OBVIOUS
      <4>3. On(m)'
        BY <1>2, <4>1, <4>2
      <4> QED BY <1>1, <4>2, <4>3
    <3> QED BY <3>1, <3>2, <3>3
  <2>3. ASSUME NEW k \in DOMAIN watchPos, Len(clauses[k]) = 1
        PROVE  AtBase(clauses[k][1])'
    <3>1. PICK m : m = clauses[k][1]
      OBVIOUS
    <3>2. AtBase(m)
      BY <1>1, <2>3, <3>1 DEF IInv, BaseOK
    <3>3. AtBase(m)'
      BY <1>2, <1>5, <2>1, <3>2
    <3> QED BY <1>1, <3>1, <3>3
  <2>4. ASSUME pc' = "watch", NEW k \in DOMAIN problem.assumptions, k < scan + 1
        PROVE  AtBase(problem.assumptions[k])'
    <3>1. PICK m : m = problem.assumptions[k]
      OBVIOUS
    <3>2. On(m)'
      BY <1>1, <2>2, <2>4, <3>1
    <3>3. AtBase(m)'
      BY <1>5, <3>2
    <3> QED BY <1>1, <3>1, <3>3
  <2> QED BY <1>1, <1>2, <2>3, <2>4 DEF BaseOK
<1> QED BY <1>2, <1>3, <1>4, <1>5, <1>6, <1>7 DEF IInv

\* A clause's first two positions, and its number once in their lists.
LEMMA FirstTwoFacts ==
  ASSUME NEW c \in Seq(Lits), c # << >>, \A i, j \in DOMAIN c : Abs(c[i]) = Abs(c[j]) => i = j,
         NEW x, x = Max(FirstTwo(c)), NEW l \in Lits
  PROVE  /\ x \in DOMAIN c /\ 1 \in DOMAIN c /\ x \in {1, 2} /\ (x = 1 => Len(c) = 1)
         /\ c[1] \in Lits /\ c[x] \in Lits /\ (x # 1 => c[1] # c[x])
         /\ Cardinality({p \in FirstTwo(c) : c[p] = l}) = IF l = c[1] \/ l = c[x] THEN 1 ELSE 0
<1>0. Len(c) \in Nat /\ DOMAIN c = 1 .. Len(c) /\ Len(c) >= 1
  OBVIOUS
<1>3. Cardinality({1}) = 1 /\ Cardinality({2}) = 1 /\ Cardinality({}) = 0
  BY FS_EmptySet, FS_Singleton
<1>1. CASE Len(c) = 1
  <2>1. FirstTwo(c) = {1}
    BY <1>0, <1>1 DEF FirstTwo
  <2>2. x = 1
    BY <2>1 DEF Max
  <2>3. {p \in FirstTwo(c) : c[p] = l} = IF l = c[1] THEN {1} ELSE {}
    BY <2>1
  <2>4. Cardinality({p \in FirstTwo(c) : c[p] = l}) = IF l = c[1] THEN 1 ELSE 0
    BY <1>3, <2>3
  <2> QED BY <1>0, <1>1, <2>2, <2>4
<1>2. CASE Len(c) # 1
  <2>1. FirstTwo(c) = {1, 2} /\ 2 \in DOMAIN c /\ 1 \in DOMAIN c
    BY <1>0, <1>2 DEF FirstTwo
  <2>2. x = 2
    <3>1. \E z \in {1, 2} : \A y \in {1, 2} : z >= y
      OBVIOUS
    <3>2. x \in {1, 2} /\ \A y \in {1, 2} : x >= y
      BY <2>1, <3>1 DEF Max
    <3> QED BY <3>2
  <2>3. c[1] # c[2]
    BY <2>1
  <2>4. {p \in FirstTwo(c) : c[p] = l} = IF l = c[1] THEN {1} ELSE IF l = c[2] THEN {2} ELSE {}
    BY <2>1, <2>3
  <2>5. Cardinality({p \in FirstTwo(c) : c[p] = l}) = IF l = c[1] \/ l = c[2] THEN 1 ELSE 0
    BY <1>3, <2>3, <2>4
  <2> QED BY <1>0, <1>2, <2>1, <2>2, <2>3, <2>5
<1> QED BY <1>1, <1>2

LEMMA Joined ==
  ASSUME NEW S, NEW s \in Seq(S), NEW k, NEW n \in {0, 1}, NEW u \in Seq(S), Len(u) = n,
         n = 1 => u[1] = k
  PROVE  /\ s \o u \in Seq(S) /\ Len(s) \in Nat /\ DOMAIN s = 1 .. Len(s)
         /\ DOMAIN (s \o u) = 1 .. Len(s) + n
         /\ \A i \in 1 .. Len(s) : (s \o u)[i] = s[i]
         /\ n = 1 => (s \o u)[Len(s) + 1] = k
OBVIOUS

LEMMA WatchedLit ==
  ASSUME IInv, NEW k \in DOMAIN watchPos, NEW s \in {1, 2}
  PROVE  /\ Watched(k, s) \in Lits /\ k \in DOMAIN clauses /\ clauses[k] \in Seq(Lits)
         /\ watchPos[k][s] \in DOMAIN clauses[k]
<1>1. k \in DOMAIN clauses
  <2>1. watchPos \in Seq(Nat \X Nat) /\ Len(watchPos) <= Len(clauses)
    BY DEF IInv, TypeOK, WatchesOK
  <2> QED BY <2>1, LimitsNat DEF IInv
<1>2. clauses[k] \in Seq(Lits)
  BY <1>1, LimitsNat DEF IInv
<1>3. watchPos[k][s] \in DOMAIN clauses[k]
  BY DEF IInv, WatchesOK
<1> QED BY <1>1, <1>2, <1>3 DEF Watched

LEMMA WatchClauseKeeps ==
  ASSUME IInv, WatchClause
  PROVE  IInv'
<1>0. PICK k, c, x : k = Len(watchPos) + 1 /\ c = clauses[k] /\ x = Max(FirstTwo(c))
  OBVIOUS
<1>1. /\ pc = "watch" /\ k \in Nat /\ k \in DOMAIN clauses /\ DOMAIN watchPos = 1 .. k - 1
      /\ k <= Len(clauses) /\ watchPos \in Seq(Nat \X Nat) /\ c \in Seq(Lits)
      /\ \A i, j \in DOMAIN c : Abs(c[i]) = Abs(c[j]) => i = j
      /\ scan = 1
  <2>1. /\ watchPos \in Seq(Nat \X Nat) /\ Len(watchPos) \in Nat
        /\ Len(watchPos) < Len(clauses) /\ pc = "watch"
    BY DEF IInv, TypeOK, WatchClause
  <2>2. k \in Nat /\ k \in DOMAIN clauses /\ DOMAIN watchPos = 1 .. k - 1 /\ k <= Len(clauses)
    BY <1>0, <2>1, LimitsNat DEF IInv
  <2>3. c \in Seq(Lits)
    BY <1>0, <2>2, LimitsNat DEF IInv
  <2>4. \A i, j \in DOMAIN c : Abs(c[i]) = Abs(c[j]) => i = j
    BY <1>0, <2>2 DEF IInv, TypeOK, IsProblem, clauses
  <2> QED BY <2>1, <2>2, <2>3, <2>4 DEF IInv, BaseOK
<1>2. /\ problem' = problem /\ clauses' = clauses /\ limits' = limits /\ scan' = scan
      /\ UNCHANGED <<counters, late, exhausted>>
  BY DEF WatchClause, clauses, limits
<1>3. CASE c = << >>
  <2>1. pc' = "done" /\ result' = "Unsat" /\ UNCHANGED <<searchVars, watchVars>>
    BY <1>0, <1>3 DEF WatchClause, Finish
  <2>2. QuietStep
    BY <1>2, <2>1 DEF QuietStep
  <2>3. TypeOK'
    BY <1>2, <2>1, <2>2, QuietFacts DEF IInv, TypeOK, counters
  <2>4. ControlOK' /\ BudgetOK'
    BY <1>1, <1>2, <2>1, <2>2, QuietFacts, RootFacts DEF IInv, ControlOK, BudgetOK, counters
  <2>5. FramesOK' /\ BaseOK'
    BY <1>2, <2>1, <2>2, QuietFacts DEF IInv, FramesOK, BaseOK
  <2>6. QueueOK'
    <3>1. frames' = << >> /\ qhead' = 0 /\ pc' = "done" /\ trail' \in Seq(Lits)
      BY <1>1, <2>1, <2>3, RootFacts DEF searchVars, TypeOK
    <3> QED BY <3>1, RootKeeps
  <2> QED BY <2>2, <2>3, <2>4, <2>5, <2>6, QuietFacts DEF IInv
<1>4. CASE c # << >>
  <2>1. /\ x \in DOMAIN c /\ 1 \in DOMAIN c /\ x \in {1, 2} /\ (x = 1 => Len(c) = 1)
        /\ c[1] \in Lits /\ c[x] \in Lits /\ (x # 1 => c[1] # c[x])
    <3>1. PICK l \in Lits : TRUE
      <4>1. c[1] \in Lits
        BY <1>1, <1>4
      <4> QED BY <4>1
    <3> QED BY <1>0, <1>1, <1>4, FirstTwoFacts
  <2>2. PICK new : new = watches'
    OBVIOUS
  <2>3. watchPos' = Append(watchPos, <<1, x>>)
    BY <1>0, <1>4 DEF WatchClause
  <2>4. /\ watchPos' \in Seq(Nat \X Nat) /\ DOMAIN watchPos' = 1 .. k /\ Len(watchPos') = k
        /\ watchPos'[k] = <<1, x>> /\ \A j \in 1 .. k - 1 : watchPos'[j] = watchPos[j]
    <3>1. <<1, x>> \in Nat \X Nat
      BY <2>1
    <3>2. PICK z : z = <<1, x>>
      OBVIOUS
    <3>3. /\ watchPos' \in Seq(Nat \X Nat) /\ DOMAIN watchPos' = 1 .. Len(watchPos) + 1
          /\ Len(watchPos') = Len(watchPos) + 1 /\ watchPos'[Len(watchPos) + 1] = z
          /\ \A j \in 1 .. Len(watchPos) : watchPos'[j] = watchPos[j]
      BY <1>1, <2>3, <3>1, <3>2, Pushed
    <3>4. 1 .. Len(watchPos) = 1 .. k - 1
      BY <1>0, <1>1
    <3> QED BY <1>0, <3>2, <3>3, <3>4
  <2>5. ASSUME NEW l \in Lits
        PROVE  /\ new[l] \in Seq(DOMAIN clauses)
               /\ Len(watches[l]) \in Nat /\ DOMAIN watches[l] = 1 .. Len(watches[l])
               /\ \A n \in DOMAIN watches[l] : n \in DOMAIN new[l] /\ new[l][n] = watches[l][n]
               /\ l = c[1] \/ l = c[x] => /\ DOMAIN new[l] = 1 .. Len(watches[l]) + 1
                                          /\ new[l][Len(watches[l]) + 1] = k
               /\ ~ (l = c[1] \/ l = c[x]) => DOMAIN new[l] = DOMAIN watches[l]
    <3>1. PICK n : n = Cardinality({p \in FirstTwo(c) : c[p] = l})
      OBVIOUS
    <3>2. PICK u : u = [i \in 1 .. n |-> k]
      OBVIOUS
    <3>3. n = IF l = c[1] \/ l = c[x] THEN 1 ELSE 0
      <4>1. Cardinality({p \in FirstTwo(c) : c[p] = l}) = IF l = c[1] \/ l = c[x] THEN 1 ELSE 0
        BY <1>0, <1>1, <1>4, FirstTwoFacts
      <4> QED BY <3>1, <4>1
    <3>4. PICK S : S = DOMAIN clauses
      OBVIOUS
    <3>5. n \in {0, 1} /\ u \in Seq(S) /\ Len(u) = n /\ (n = 1 => u[1] = k)
      BY <1>1, <3>2, <3>3, <3>4
    <3>6. PICK w : w = watches[l] /\ w \in Seq(S)
      BY <3>4 DEF IInv, TypeOK
    <3>7. new[l] = w \o u
      <4>1. new = [m \in Lits |-> watches[m] \o
                     [i \in 1 .. Cardinality({p \in FirstTwo(c) : c[p] = m}) |-> k]]
        BY <1>0, <1>4, <2>2 DEF WatchClause
      <4> QED BY <3>1, <3>2, <3>6, <4>1
    <3>8. /\ new[l] \in Seq(S) /\ Len(w) \in Nat /\ DOMAIN w = 1 .. Len(w)
          /\ DOMAIN new[l] = 1 .. Len(w) + n
          /\ \A i \in 1 .. Len(w) : new[l][i] = w[i]
          /\ n = 1 => new[l][Len(w) + 1] = k
      BY <3>5, <3>6, <3>7, Joined
    <3>9. \A i \in DOMAIN w : i \in DOMAIN new[l] /\ new[l][i] = w[i]
      BY <3>5, <3>8
    <3>10. l = c[1] \/ l = c[x] => DOMAIN new[l] = 1 .. Len(w) + 1 /\ new[l][Len(w) + 1] = k
      BY <3>3, <3>8
    <3>11. ~ (l = c[1] \/ l = c[x]) => DOMAIN new[l] = DOMAIN w
      <4>1. n = 0 => 1 .. Len(w) + n = 1 .. Len(w)
        BY <3>8
      <4> QED BY <3>3, <3>8, <4>1
    <3> QED BY <3>4, <3>6, <3>8, <3>9, <3>10, <3>11, Zenon
  <2>6. new \in [Lits -> Seq(DOMAIN clauses)]
    <3>1. new = [m \in Lits |-> watches[m] \o
                   [i \in 1 .. Cardinality({p \in FirstTwo(c) : c[p] = m}) |-> k]]
      BY <1>0, <1>4, <2>2 DEF WatchClause
    <3>2. new = [m \in Lits |-> new[m]]
      BY <3>1
    <3> QED BY <2>5, <3>2
  <2>7. /\ frames' = << >> /\ qhead' = 0 /\ TrailOK'
        /\ pc' \in {"watch", "done"} /\ result' \in {"none", "Unsat"}
        /\ pc' = "done" <=> result' # "none"
        /\ \A m : On(m) => On(m)'
        /\ pc' = "watch" /\ Len(c) = 1 => On(c[1])'
    <3>1. CASE Len(c) = 1
      <4>1. PICK l : l = c[1]
        OBVIOUS
      <4>2. AssignOrRefute(l)
        BY <1>0, <1>4, <3>1, <4>1 DEF WatchClause
      <4>3. /\ frames' = << >> /\ qhead' = 0 /\ TrailOK'
            /\ pc' \in {"watch", "done"} /\ result' \in {"none", "Unsat"}
            /\ pc' = "done" <=> result' # "none"
            /\ \A m : On(m) => On(m)'
            /\ pc' = "watch" => On(l)'
        BY <1>1, <2>1, <4>1, <4>2, RootAssign
      <4> QED BY <4>1, <4>3
    <3>2. CASE Len(c) # 1
      <4>1. UNCHANGED <<searchVars, pc, result>>
        BY <1>0, <1>4, <3>2 DEF WatchClause
      <4> QED BY <1>1, <3>2, <4>1, RootFacts DEF searchVars, IInv, TrailOK, On
    <3> QED BY <3>1, <3>2
  <2>8. TypeOK'
    BY <1>2, <2>2, <2>4, <2>6, <2>7 DEF IInv, TypeOK, TrailOK, Fits, counters
  <2>9. ControlOK' /\ BudgetOK'
    BY <1>1, <1>2, <2>7, RootFacts DEF IInv, ControlOK, BudgetOK, counters
  <2>10. FramesOK' /\ QueueOK' /\ \A m : AtBase(m)' <=> On(m)'
    BY <2>7, <2>8, RootKeeps DEF TypeOK
  <2>11. /\ Watched(k, 1)' = c[1] /\ Watched(k, 2)' = c[x]
         /\ \A j \in 1 .. k - 1 : \A s : Watched(j, s)' = Watched(j, s)
    BY <1>0, <1>2, <2>4 DEF Watched
  <2>12. ASSUME NEW j \in 1 .. k
         PROVE  /\ watchPos'[j][1] \in DOMAIN clauses[j] /\ watchPos'[j][2] \in DOMAIN clauses[j]
                /\ watchPos'[j][1] = watchPos'[j][2] => Len(clauses[j]) = 1
    <3>1. CASE j = k
      BY <1>0, <2>1, <2>4, <3>1
    <3>2. CASE j \in 1 .. k - 1
      BY <1>1, <2>4, <3>2 DEF IInv, WatchesOK
    <3> QED BY <1>1, <3>1, <3>2
  <2>13. ASSUME NEW j \in 1 .. k, NEW s \in {1, 2}, NEW w, w = Watched(j, s)'
         PROVE  \E n \in DOMAIN new[w] : new[w][n] = j
    <3>1. CASE j = k
      <4>1. w \in Lits /\ (w = c[1] \/ w = c[x])
        BY <2>1, <2>11, <2>13, <3>1
      <4>2. Len(watches[w]) + 1 \in DOMAIN new[w] /\ new[w][Len(watches[w]) + 1] = k
        BY <2>5, <4>1
      <4> QED BY <3>1, <4>2
    <3>2. CASE j \in 1 .. k - 1
      <4>1. w = Watched(j, s) /\ j \in DOMAIN watchPos
        BY <1>1, <2>11, <2>13, <3>2
      <4>2. w \in Lits
        BY <4>1, WatchedLit
      <4>3. PICK n \in DOMAIN watches[w] : watches[w][n] = j
        BY <4>1 DEF IInv, WatchesOK
      <4> QED BY <2>5, <4>2, <4>3
    <3> QED BY <1>1, <3>1, <3>2
  <2>14. ASSUME NEW l \in Lits, NEW n \in DOMAIN new[l]
         PROVE  /\ \E j \in 1 .. k : j = new[l][n] /\ \E s \in {1, 2} : Watched(j, s)' = l
                /\ \A m \in DOMAIN new[l] : new[l][m] = new[l][n] => m = n
    <3>1. ASSUME NEW m \in DOMAIN watches[l]
          PROVE  /\ new[l][m] = watches[l][m] /\ watches[l][m] \in 1 .. k - 1
                 /\ \E s \in {1, 2} : Watched(watches[l][m], s) = l
                 /\ \A i \in DOMAIN watches[l] : watches[l][i] = watches[l][m] => i = m
      BY <1>1, <2>5 DEF IInv, WatchesOK
    <3>2. ASSUME NEW m \in DOMAIN new[l]
          PROVE  m \in DOMAIN watches[l] \/ (m = Len(watches[l]) + 1 /\ new[l][m] = k
                                             /\ (l = c[1] \/ l = c[x]))
      BY <2>5, <3>2
    <3>3. \A m \in DOMAIN new[l] : new[l][m] = new[l][n] => m = n
      <4>1. k \notin 1 .. k - 1
        BY <1>1
      <4> QED BY <3>1, <3>2, <4>1
    <3>4. CASE n \in DOMAIN watches[l]
      <4>1. PICK j, s : j = watches[l][n] /\ j \in 1 .. k - 1 /\ s \in {1, 2} /\ Watched(j, s) = l
        BY <3>1, <3>4
      <4>2. j \in 1 .. k /\ Watched(j, s)' = l /\ j = new[l][n]
        BY <1>1, <2>11, <3>1, <3>4, <4>1
      <4> QED BY <3>3, <4>1, <4>2
    <3>5. CASE n = Len(watches[l]) + 1 /\ new[l][n] = k /\ (l = c[1] \/ l = c[x])
      <4>1. k \in 1 .. k /\ (Watched(k, 1)' = l \/ Watched(k, 2)' = l)
        BY <1>1, <2>11, <3>5
      <4> QED BY <3>3, <3>5, <4>1
    <3> QED BY <3>2, <3>4, <3>5
  <2>15. WatchesOK'
    <3>1. /\ DOMAIN watchPos' = 1 .. k /\ Len(watchPos') <= Len(clauses)
          /\ clauses' = clauses /\ new = watches'
      BY <1>1, <1>2, <2>2, <2>4
    <3>2. ASSUME NEW l \in Lits, NEW n \in DOMAIN new[l]
          PROVE  /\ new[l][n] \in 1 .. k
                 /\ \E s \in {1, 2} : Watched(new[l][n], s)' = l
      BY <2>14, <3>2
    <3> QED BY <2>12, <2>13, <2>14, <3>1, <3>2 DEF WatchesOK
  <2>16. BaseOK'
    <3>1. ASSUME pc' = "watch", NEW j \in 1 .. k, Len(clauses[j]) = 1
          PROVE  AtBase(clauses[j][1])'
      <4>1. PICK m : m = clauses[j][1]
        OBVIOUS
      <4>2. CASE j = k
        BY <1>0, <1>2, <2>7, <2>10, <3>1, <4>1, <4>2
      <4>3. CASE j \in 1 .. k - 1
        <5>1. On(m)
          BY <1>1, <3>1, <4>1, <4>3, RootFacts DEF IInv, BaseOK
        <5>2. AtBase(m)'
          BY <2>7, <2>10, <5>1
        <5> QED BY <1>2, <4>1, <5>2
      <4> QED BY <1>1, <4>2, <4>3
    <3>2. \A i \in DOMAIN problem.assumptions : ~ (i < 1)
      BY LimitsNat DEF IInv
    <3> QED BY <1>1, <1>2, <2>4, <2>7, <3>1, <3>2 DEF BaseOK
  <2> QED BY <2>7, <2>8, <2>9, <2>10, <2>15, <2>16 DEF IInv
<1> QED BY <1>3, <1>4

-----------------------------------------------------------------------------
(* The invariant *)

LEMMA InitIInv ==
  ASSUME Init
  PROVE  IInv
<1> USE DEF Init
<1>1. IsProblem(problem)
  BY ProblemsAssumption
<1>2. TypeOK
  <2>1. assignment \in [Vars -> {-1, 0, 1}] /\ trail \in Seq(Lits) /\ frames \in Seq(Frame)
    OBVIOUS
  <2>2. watches \in [Lits -> Seq(DOMAIN clauses)] /\ watchPos \in Seq(Nat \X Nat)
    OBVIOUS
  <2>3. qhead \in 0 .. Len(trail)
    OBVIOUS
  <2>4. /\ scan \in Nat \ {0} /\ decisions \in Nat /\ conflicts \in Nat /\ propagations \in Nat
    OBVIOUS
  <2>5. late \in BOOLEAN /\ exhausted \in BOOLEAN
    OBVIOUS
  <2>6. /\ pc \in {"watch", "enter", "propagate", "visit", "return", "done"}
        /\ result \in {"none", "Sat", "Unsat", "Timeout"}
    OBVIOUS
  <2> HIDE DEF Init
  <2> QED BY <1>1, <2>1, <2>2, <2>3, <2>4, <2>5, <2>6 DEF TypeOK
<1>3. ControlOK
  BY DEF ControlOK
<1>4. TrailOK
  BY <1>2 DEF TypeOK, TrailOK, Fits
<1>5. FramesOK /\ QueueOK
  BY DEF FramesOK, QueueOK
<1>6. WatchesOK
  BY <1>2, LimitsNat DEF WatchesOK
<1>7. BaseOK
  BY <1>2, LimitsNat DEF BaseOK
<1>8. BudgetOK
  BY <1>2, LimitsNat DEF BudgetOK
<1> QED BY <1>2, <1>3, <1>4, <1>5, <1>6, <1>7, <1>8 DEF IInv

LEMMA StutterKeeps ==
  ASSUME IInv, UNCHANGED vars
  PROVE  IInv'
<1> USE DEF vars
<1>0. QuietStep
  BY DEF QuietStep
<1>1. TypeOK'
  BY <1>0, QuietFacts DEF IInv, TypeOK, counters
<1>2. ControlOK' /\ BudgetOK'
  BY <1>0, QuietFacts DEF IInv, ControlOK, BudgetOK, Exceeded, counters
<1>3. FramesOK' /\ BaseOK'
  BY <1>0, QuietFacts DEF IInv, FramesOK, BaseOK
<1>4. QueueOK'
  BY <1>0, QuietFacts DEF IInv, QueueOK, Passed
<1> QED BY <1>0, <1>1, <1>2, <1>3, <1>4, QuietFacts DEF IInv

LEMMA NextKeeps ==
  ASSUME IInv, [Next]_vars
  PROVE  IInv'
<1>1. CASE WatchClause
  BY <1>1, WatchClauseKeeps
<1>2. CASE Assume
  BY <1>2, AssumeKeeps
<1>3. CASE Begin
  BY <1>3, BeginKeeps
<1>4. CASE Enter
  BY <1>4, EnterKeeps
<1>5. CASE TakeLiteral
  BY <1>5, TakeLiteralKeeps
<1>6. CASE SkipEntry
  BY <1>6, SkipEntryKeeps
<1>7. CASE MoveWatch
  BY <1>7, MoveWatchKeeps
<1>8. CASE Imply
  BY <1>8, ImplyKeeps
<1>9. CASE Conflict
  BY <1>9, ConflictKeeps
<1>10. CASE ListDone
  BY <1>10, ListDoneKeeps
<1>11. CASE Succeed \/ Return
  BY <1>11, EndKeeps
<1>12. CASE Decide
  BY <1>12, DecideKeeps
<1>13. CASE Backtrack
  BY <1>13, BacktrackKeeps
<1>14. CASE Deadline
  BY <1>14, DeadlineKeeps
<1>15. CASE UNCHANGED vars
  BY <1>15, StutterKeeps
<1> QED BY <1>1, <1>2, <1>3, <1>4, <1>5, <1>6, <1>7, <1>8, <1>9, <1>10, <1>11, <1>12,
           <1>13, <1>14, <1>15 DEF Next, Step

\* The invariant above holds throughout every solve.
THEOREM Invariance == Spec => []IInv
<1>1. Init => IInv
  BY InitIInv
<1>2. IInv /\ [Next]_vars => IInv'
  BY NextKeeps
<1> QED BY <1>1, <1>2, PTL DEF Spec

-----------------------------------------------------------------------------
(* What follows from it *)

LEMMA LimitsFollow == IInv => LimitsHonoured
BY DEF IInv, BudgetOK, Exceeded, LimitsHonoured

\* A solve gives up only when a limit was really reached, and no counter passes
\* its limit by more than one, whatever the clauses and the limits are.
THEOREM LimitsAlwaysHonoured == Spec => []LimitsHonoured
<1>1. IInv => LimitsHonoured
  BY LimitsFollow
<1> QED BY <1>1, Invariance, PTL

LEMMA WatchListsFollow ==
  ASSUME IInv
  PROVE  WatchListsExact
<1> SUFFICES ASSUME NEW k \in DOMAIN watchPos, NEW l \in Lits
    PROVE  Cardinality({n \in DOMAIN watches[l] : watches[l][n] = k})
             = Cardinality({p \in Range(watchPos[k]) : clauses[k][p] = l})
  BY DEF WatchListsExact
<1>0. PICK E, P, q : /\ E = {n \in DOMAIN watches[l] : watches[l][n] = k}
                     /\ P = {p \in Range(q) : clauses[k][p] = l} /\ q = watchPos[k]
  OBVIOUS
<1>1. q \in Nat \X Nat /\ Range(q) = {q[1], q[2]}
  <2>1. q \in Nat \X Nat
    BY <1>0 DEF IInv, TypeOK
  <2>2. q = <<q[1], q[2]>> /\ DOMAIN q = {1, 2}
    BY <2>1
  <2> QED BY <2>1, <2>2 DEF Range
<1>2. /\ q[1] \in DOMAIN clauses[k] /\ q[2] \in DOMAIN clauses[k] /\ clauses[k] \in Seq(Lits)
      /\ \A i, j \in DOMAIN clauses[k] : Abs(clauses[k][i]) = Abs(clauses[k][j]) => i = j
  <2>1. 1 \in {1, 2} /\ 2 \in {1, 2}
    OBVIOUS
  <2>2. k \in DOMAIN clauses
    BY <2>1, WatchedLit
  <2> QED BY <1>0, <2>1, <2>2, WatchedLit DEF IInv, TypeOK, IsProblem, clauses
<1>3. \A s \in {1, 2} : Watched(k, s) = clauses[k][q[s]]
  BY <1>0 DEF Watched
<1>4. CASE l # clauses[k][q[1]] /\ l # clauses[k][q[2]]
  <2>1. P = {}
    BY <1>0, <1>1, <1>4
  <2>2. E = {}
    BY <1>0, <1>3, <1>4 DEF IInv, WatchesOK
  <2> QED BY <1>0, <2>1, <2>2
<1>5. ASSUME NEW s \in {1, 2}, l = clauses[k][q[s]]
      PROVE  Cardinality(E) = Cardinality(P)
  <2>1. P = {q[s]}
    BY <1>0, <1>1, <1>2, <1>5
  <2>2. PICK n \in DOMAIN watches[l] : watches[l][n] = k
    BY <1>3, <1>5 DEF IInv, WatchesOK
  <2>3. E = {n}
    BY <1>0, <2>2 DEF IInv, WatchesOK
  <2> QED BY <2>1, <2>3, FS_Singleton
<1> QED BY <1>0, <1>4, <1>5

\* The list of a literal holds exactly the clauses that watch it, once per
\* watch, however watches move and levels are popped.
THEOREM WatchListsAlwaysExact == Spec => []WatchListsExact
<1>1. IInv => WatchListsExact
  BY WatchListsFollow
<1> QED BY <1>1, Invariance, PTL

LEMMA TwoOfMany ==
  ASSUME NEW T, IsFiniteSet(T), NEW x \in T, NEW y \in T, x # y
  PROVE  Cardinality(T) >= 2
<1>1. {x, y} \subseteq T
  OBVIOUS
<1>2. IsFiniteSet({x}) /\ Cardinality({x}) = 1
  BY FS_Singleton
<1>3. IsFiniteSet({x} \cup {y}) /\ Cardinality({x} \cup {y}) = 2
  BY <1>2, FS_AddElement
<1>4. Cardinality({x, y}) = 2
  <2>1. {x, y} = {x} \cup {y}
    OBVIOUS
  <2> QED BY <1>3, <2>1
<1>5. Cardinality({x, y}) <= Cardinality(T)
  BY <1>1, FS_Subset
<1>6. Cardinality(T) \in Nat
  BY FS_CardinalityType
<1> QED BY <1>4, <1>5, <1>6

LEMMA PropagationFollows ==
  ASSUME IInv
  PROVE  PropagationComplete
<1> SUFFICES ASSUME Propagated, NEW k \in DOMAIN clauses, ~ Satisfied(clauses[k])
    PROVE  Cardinality({l \in Range(clauses[k]) : Unassigned(l)}) >= 2
  BY DEF PropagationComplete
<1>1. k \in DOMAIN watchPos
  BY LimitsNat DEF Propagated, IInv, ControlOK, TypeOK
<1>2. PICK c, v, w, i, j : /\ c = clauses[k] /\ v = Watched(k, 1) /\ w = Watched(k, 2)
                           /\ i = watchPos[k][1] /\ j = watchPos[k][2]
  OBVIOUS
<1>3. /\ c \in Seq(Lits) /\ i \in DOMAIN c /\ j \in DOMAIN c /\ v = c[i] /\ w = c[j]
      /\ v \in Lits /\ w \in Lits
  <2>1. 1 \in {1, 2} /\ 2 \in {1, 2}
    OBVIOUS
  <2> QED BY <1>1, <1>2, <2>1, WatchedLit DEF Watched
<1>4. \A p \in DOMAIN c : ~ LiteralTrue(c[p])
  BY <1>2 DEF Satisfied
<1>5. \A n \in DOMAIN trail : Passed(n)
  BY DEF Propagated, Passed, IInv, TypeOK
<1>6. ASSUME NEW s \in {1, 2}
      PROVE  ~ LiteralFalse(Watched(k, s))
  <2>0. /\ Watched(k, s) \in Lits /\ Watched(k, 3 - s) \in Lits /\ ~ LiteralTrue(Watched(k, 3 - s))
    <3>1. 3 - s \in {1, 2}
      OBVIOUS
    <3>2. Watched(k, 3 - s) = c[watchPos[k][3 - s]] /\ watchPos[k][3 - s] \in DOMAIN c
      BY <1>1, <1>2, <3>1, WatchedLit DEF Watched
    <3> QED BY <1>1, <1>4, <3>1, <3>2, WatchedLit
  <2>1. SUFFICES ASSUME LiteralFalse(Watched(k, s)) PROVE FALSE
    OBVIOUS
  <2>2. PICK n \in DOMAIN trail : trail[n] = -Watched(k, s)
    BY <2>0, <2>1, TrueOnTrail DEF IInv, On
  <2>3. Blocked(k, s, n)
    BY <1>1, <1>5, <2>2 DEF IInv, QueueOK
  <2>4. LiteralTrue(Watched(k, 3 - s))
    BY <2>0, <2>3, TrueOnTrail DEF IInv, Blocked, On
  <2> QED BY <2>0, <2>4
<1>7. Unassigned(v) /\ Unassigned(w)
  <2>1. ~ LiteralFalse(v) /\ ~ LiteralFalse(w)
    BY <1>2, <1>6
  <2>2. ~ LiteralTrue(v) /\ ~ LiteralTrue(w)
    BY <1>3, <1>4
  <2> QED BY <1>3, <2>1, <2>2, TrueOnTrail DEF IInv
<1>8. i # j
  <2>1. SUFFICES ASSUME i = j PROVE FALSE
    OBVIOUS
  <2>2. Len(c) = 1
    BY <1>1, <1>2, <2>1 DEF IInv, WatchesOK
  <2>3. On(c[1])
    BY <1>1, <1>2, <2>2 DEF IInv, BaseOK, Propagated, AtBase, On
  <2>4. 1 \in DOMAIN c /\ c[1] \in Lits
    BY <1>3, <2>2
  <2> QED BY <1>4, <2>3, <2>4, TrueOnTrail DEF IInv
<1>9. v # w
  BY <1>2, <1>3, <1>8 DEF IInv, TypeOK, IsProblem, clauses
<1>10. PICK T : T = {l \in Range(c) : Unassigned(l)}
  OBVIOUS
<1>11. v \in T /\ w \in T
  BY <1>3, <1>7, <1>10 DEF Range
<1>12. IsFiniteSet(T)
  <2>1. IsFiniteSet(DOMAIN c)
    BY <1>3, FS_Interval
  <2>2. c \in Surjection(DOMAIN c, Range(c))
    BY <1>3 DEF Range, Surjection
  <2>3. IsFiniteSet(Range(c))
    BY <2>1, <2>2, FS_Surjection
  <2>4. T \subseteq Range(c)
    BY <1>10
  <2> QED BY <2>3, <2>4, FS_Subset
<1> QED BY <1>2, <1>9, <1>10, <1>11, <1>12, TwoOfMany

\* Whenever the queue is empty no conflict and no implication was missed, though
\* watch lists are not restored when a level is popped.
THEOREM PropagationAlwaysComplete == Spec => []PropagationComplete
<1>1. IInv => PropagationComplete
  BY PropagationFollows
<1> QED BY <1>1, Invariance, PTL

-----------------------------------------------------------------------------
(* Refinement: the SAT core implements the search of module DPLL, for any       *)
(* clauses and any limits, and so its verdicts are right.  Watch lists, the     *)
(* propagation queue and the recursion leave no trace but unit implications,    *)
(* decisions and branches that are closed once both of their ends are.          *)
(* The mapping *)

LEMMA SameNames ==
  /\ D!Vars = Vars /\ D!Lits = Lits
  /\ \A l : D!Holds(l) <=> On(l)
BY DEF D!Vars, Vars, D!Lits, Lits, D!Holds, On

LEMMA Members ==
  ASSUME TypeOK
  PROVE  /\ \A k \in DOMAIN clauses : Range(clauses[k]) \in Cnf
         /\ \A k \in DOMAIN problem.assumptions : {problem.assumptions[k]} \in Cnf
         /\ Cnf \subseteq SUBSET Lits
<1>1. ASSUME NEW k \in DOMAIN clauses PROVE Range(clauses[k]) \subseteq Lits
  <2>1. clauses[k] \in Seq(Lits)
    BY LimitsNat
  <2> QED BY <2>1 DEF Range
<1>2. \A k \in DOMAIN problem.assumptions : problem.assumptions[k] \in Lits
  BY LimitsNat
<1> QED BY <1>1, <1>2 DEF Cnf

\* What is open is on the trail.
LEMMA OpenFacts ==
  ASSUME IInv
  PROVE  /\ Open \subseteq 1 .. Len(trail) /\ Len(trail) \in Nat
         /\ trail \in Seq(Lits) /\ DOMAIN trail = 1 .. Len(trail)
<1>1. trail \in Seq(Lits) /\ Len(trail) \in Nat /\ DOMAIN trail = 1 .. Len(trail)
  BY DEF IInv, TypeOK
<1>2. \A n \in DOMAIN frames : frames[n].limit \in Nat /\ frames[n].limit < Len(trail)
  BY FrameFacts DEF IInv, FramesOK
<1>3. \A n \in DOMAIN frames : frames[n].limit + 1 \in 1 .. Len(trail)
  BY <1>1, <1>2
<1> QED BY <1>1, <1>3 DEF Open

LEMMA ModeFacts ==
  ASSUME IInv
  PROVE  /\ pc \in {"watch", "enter", "propagate", "visit"} => Mode = "search"
         /\ pc = "return" /\ exhausted => Mode = "limit"
         /\ pc = "return" /\ ~ exhausted => Mode = "failing"
         /\ pc = "done" => Mode = result
BY DEF IInv, ControlOK, TypeOK, Mode

\* A step that changes none of what is mapped.
Unmapped == UNCHANGED <<problem, trail, frames>> /\ Mode' = Mode

LEMMA KeepsMapped ==
  ASSUME UNCHANGED <<problem, frames>>
  PROVE  Cnf' = Cnf /\ Open' = Open
BY DEF Cnf, Open, clauses

LEMMA Stutters ==
  ASSUME Unmapped
  PROVE  UNCHANGED D!vars
BY KeepsMapped DEF Unmapped, D!vars

\* Giving up without forgetting anything.
LEMMA GivesUp ==
  ASSUME IInv, UNCHANGED <<problem, trail, frames>>,
         Mode \in {"search", "failing", "limit"}, Mode' \in {"limit", "Timeout"}
  PROVE  D!Next
<1>1. Cnf' = Cnf /\ Open' = Open
  BY KeepsMapped
<1>2. SubSeq(trail, 1, Len(trail)) = trail /\ Len(trail) \in 0 .. Len(trail)
  BY OpenFacts, Whole
<1>3. Open \cap 1 .. Len(trail) = Open
  BY OpenFacts
<1>4. D!GiveUp(Len(trail))
  BY <1>1, <1>2, <1>3 DEF D!GiveUp
<1> QED BY <1>2, <1>4 DEF D!Next

-----------------------------------------------------------------------------
(* One step of the search for each step of the solver *)

\* A literal that has to hold before the search is a unit clause.
LEMMA RootImplements ==
  ASSUME IInv, pc = "watch", NEW l \in Lits, {l} \in Cnf, AssignOrRefute(l),
         UNCHANGED <<problem, exhausted>>
  PROVE  [D!Next]_(D!vars)
<1>0. frames = << >> /\ Open = {} /\ ~ exhausted /\ Mode = "search"
  BY RootFacts, ModeFacts DEF Open
<1>1. CASE LiteralFalse(l)
  <2>1. UNCHANGED <<trail, frames>> /\ Mode' = "Unsat"
    BY <1>1 DEF AssignOrRefute, Finish, searchVars, Mode
  <2>2. D!Falsified({l})
    BY <1>1, SameNames, TrueOnTrail DEF IInv, D!Falsified
  <2>3. D!Conflict({l})
    BY <1>0, <2>1, <2>2, KeepsMapped DEF D!Conflict
  <2> QED BY <2>3 DEF D!Next
<1>2. CASE ~ LiteralFalse(l) /\ Unassigned(l)
  <2>1. trail' = Append(trail, l) /\ UNCHANGED <<frames, pc>> /\ Mode' = Mode
    BY <1>0, <1>2 DEF AssignOrRefute, Assign, Mode
  <2>2. ~ D!Assigned(l)
    BY <1>2, SameNames, TrueOnTrail DEF IInv, D!Assigned
  <2>3. D!Imply({l}, l)
    BY <1>0, <2>1, <2>2, KeepsMapped DEF D!Imply
  <2> QED BY <2>3 DEF D!Next
<1>3. CASE ~ LiteralFalse(l) /\ ~ Unassigned(l)
  <2>1. Unmapped
    BY <1>3 DEF AssignOrRefute, Assign, Mode, Unmapped
  <2> QED BY <2>1, Stutters
<1> QED BY <1>1, <1>2, <1>3

LEMMA WatchClauseImplements ==
  ASSUME IInv, WatchClause
  PROVE  [D!Next]_(D!vars)
<1>0. PICK k, c : k = Len(watchPos) + 1 /\ c = clauses[k]
  OBVIOUS
<1>1. pc = "watch" /\ UNCHANGED <<problem, exhausted>> /\ k \in DOMAIN clauses /\ Range(c) \in Cnf
  <2>1. k \in DOMAIN clauses
    <3>1. watchPos \in Seq(Nat \X Nat) /\ Len(watchPos) \in Nat
      BY DEF IInv, TypeOK
    <3> QED BY <1>0, <3>1, LimitsNat DEF IInv, WatchClause
  <2> QED BY <1>0, <2>1, Members DEF IInv, WatchClause
<1>2. c \in Seq(Lits)
  BY <1>0, <1>1, LimitsNat DEF IInv
<1>3. CASE c = << >>
  <2>1. UNCHANGED <<trail, frames>> /\ Mode' = "Unsat"
    BY <1>0, <1>3 DEF WatchClause, Finish, searchVars, Mode
  <2>2. D!Falsified(Range(c))
    BY <1>3 DEF D!Falsified, Range
  <2>3. Open = {} /\ Mode = "search"
    BY <1>1, RootFacts, ModeFacts DEF Open
  <2>4. D!Conflict(Range(c))
    BY <1>1, <2>1, <2>2, <2>3, KeepsMapped DEF D!Conflict
  <2> QED BY <1>1, <2>4 DEF D!Next
<1>4. CASE c # << >> /\ Len(c) = 1
  <2>1. PICK l : l = c[1]
    OBVIOUS
  <2>2. l \in Lits /\ Range(c) = {l}
    BY <1>2, <1>4, <2>1 DEF Range
  <2>3. AssignOrRefute(l)
    BY <1>0, <1>4, <2>1 DEF WatchClause
  <2> QED BY <1>1, <2>2, <2>3, RootImplements
<1>5. CASE c # << >> /\ Len(c) # 1
  <2>1. Unmapped
    BY <1>0, <1>1, <1>5 DEF WatchClause, searchVars, Mode, Unmapped
  <2> QED BY <2>1, Stutters
<1> QED BY <1>3, <1>4, <1>5

LEMMA AssumeImplements ==
  ASSUME IInv, Assume
  PROVE  [D!Next]_(D!vars)
<1>0. PICK l : l = problem.assumptions[scan]
  OBVIOUS
<1>1. scan \in DOMAIN problem.assumptions
  BY LimitsNat DEF Assume, IInv, TypeOK
<1>2. l \in Lits /\ {l} \in Cnf
  BY <1>0, <1>1, LimitsNat, Members DEF IInv
<1> QED BY <1>0, <1>2, RootImplements DEF Assume

\* Steps the search does not see, or sees as giving up.
LEMMA InnerImplements ==
  ASSUME IInv, Begin \/ Enter \/ TakeLiteral \/ SkipEntry \/ MoveWatch \/ ListDone \/ Deadline
  PROVE  [D!Next]_(D!vars)
<1>1. CASE Begin \/ SkipEntry \/ MoveWatch \/ ListDone \/ Deadline
  <2>1. Unmapped
    <3>1. UNCHANGED <<problem, trail, frames, exhausted, result>>
      BY <1>1 DEF Begin, SkipEntry, MoveWatch, ListDone, Deadline, searchVars
    <3>2. pc' = pc \/ (pc \in {"watch", "visit"} /\ pc' \in {"enter", "propagate"})
      BY <1>1 DEF Begin, SkipEntry, MoveWatch, ListDone, Deadline
    <3> QED BY <3>1, <3>2 DEF Unmapped, Mode
  <2> QED BY <2>1, Stutters
<1>2. CASE Enter \/ TakeLiteral
  <2>1. UNCHANGED <<problem, trail, frames, result>> /\ pc \in {"enter", "propagate"} /\ ~ exhausted
    BY <1>2 DEF Enter, TakeLiteral, searchVars, IInv, ControlOK
  <2>2. \/ pc' \in {"propagate", "visit"} /\ exhausted' = exhausted
        \/ pc' = "return" /\ exhausted'
    BY <1>2 DEF Enter, TakeLiteral
  <2>3. CASE pc' \in {"propagate", "visit"} /\ exhausted' = exhausted
    <3>1. Unmapped
      BY <2>1, <2>3 DEF Unmapped, Mode
    <3> QED BY <3>1, Stutters
  <2>4. CASE pc' = "return" /\ exhausted'
    <3>1. Mode = "search" /\ Mode' = "limit"
      BY <2>1, <2>4 DEF Mode
    <3> QED BY <2>1, <3>1, GivesUp
  <2> QED BY <2>2, <2>3, <2>4
<1> QED BY <1>1, <1>2

\* Where the watch can go nowhere, all literals but the other watch are false.
LEMMA LastOne ==
  ASSUME IInv, Visiting, Candidates = {}, NEW p \in DOMAIN clauses[Visited],
         clauses[Visited][p] # OtherLit
  PROVE  On(-clauses[Visited][p])
<1>0. PICK c, q, a, o, f : /\ c = clauses[Visited] /\ q = watchPos[Visited] /\ a = Slot
                           /\ o = OtherLit /\ f = FalseLit
  OBVIOUS
<1>1. /\ c \in Seq(Lits) /\ q \in Nat \X Nat /\ a \in {1, 2} /\ c[p] \in Lits
      /\ c[q[a]] = f /\ c[q[3 - a]] = o /\ LiteralFalse(f)
  <2>1. /\ c \in Seq(Lits) /\ q \in Nat \X Nat /\ a \in {1, 2} /\ LiteralFalse(f)
        /\ c[q[a]] = f /\ c[q[3 - a]] = o
    BY <1>0, VisitFacts DEF Watched
  <2> QED BY <1>0, <2>1
<1>2. Range(q) = {q[1], q[2]}
  BY <1>1, PairExcept
<1>3. LiteralFalse(c[p])
  <2>1. CASE p \in Range(q)
    BY <1>0, <1>1, <1>2, <2>1
  <2>2. CASE p \notin Range(q)
    BY <1>0, <2>2 DEF Candidates
  <2> QED BY <2>1, <2>2
<1> QED BY <1>0, <1>1, <1>3, TrueOnTrail DEF IInv

LEMMA ImplyImplements ==
  ASSUME IInv, Imply
  PROVE  D!Next
<1>0. PICK l, c : l = OtherLit /\ c = clauses[Visited]
  OBVIOUS
<1>1. /\ l \in Lits /\ Visiting /\ pc' = pc /\ pc = "visit" /\ Unassigned(l)
      /\ trail' = Append(trail, l) /\ UNCHANGED <<problem, frames, exhausted, result>>
  BY <1>0, VisitFacts DEF Imply, Assign, Visiting
<1>2. l \in Range(c) /\ Range(c) \in Cnf
  <2>1. PICK q, a : q = watchPos[Visited] /\ a = Slot
    OBVIOUS
  <2>2. q[1] \in DOMAIN c /\ q[2] \in DOMAIN c /\ a \in {1, 2} /\ l = c[q[3 - a]]
    BY <1>0, <1>1, <2>1, VisitFacts DEF Watched
  <2>3. q[3 - a] \in DOMAIN c
    BY <2>2
  <2>4. Visited \in DOMAIN clauses
    BY <1>1, VisitFacts
  <2> QED BY <1>0, <2>2, <2>3, <2>4, Members DEF Range, IInv
<1>3. \A m \in Range(c) \ {l} : D!Holds(-m)
  <2>1. ASSUME NEW m \in Range(c), m # l PROVE On(-m)
    <3>1. PICK p \in DOMAIN c : m = c[p]
      BY DEF Range
    <3> QED BY <1>0, <1>1, <2>1, <3>1, LastOne DEF Imply
  <2> QED BY <2>1, SameNames
<1>4. ~ D!Assigned(l)
  BY <1>1, SameNames, TrueOnTrail DEF IInv, D!Assigned
<1>5. Mode = "search" /\ Mode' = "search"
  BY <1>1 DEF Mode, IInv, ControlOK
<1>6. D!Imply(Range(c), l)
  BY <1>1, <1>2, <1>3, <1>4, <1>5, KeepsMapped DEF D!Imply
<1> QED BY <1>2, <1>6 DEF D!Next

LEMMA ConflictImplements ==
  ASSUME IInv, Conflict
  PROVE  D!Next
<1>0. PICK o, c : o = OtherLit /\ c = clauses[Visited]
  OBVIOUS
<1>1. /\ Visiting /\ pc = "visit" /\ pc' = "return" /\ ~ exhausted /\ LiteralFalse(o)
      /\ o \in Lits /\ UNCHANGED <<problem, trail, frames, result>>
  BY <1>0, VisitFacts DEF Conflict, Visiting, searchVars, IInv, ControlOK
<1>2. Mode = "search" /\ Mode' = IF exhausted' THEN "limit" ELSE "failing"
  BY <1>1 DEF Mode
<1>3. CASE exhausted'
  BY <1>1, <1>2, <1>3, GivesUp
<1>4. CASE ~ exhausted'
  <2>1. Range(c) \in Cnf
    BY <1>0, <1>1, VisitFacts, Members DEF IInv
  <2>2. ASSUME NEW m \in Range(c) PROVE On(-m)
    <3>1. PICK p \in DOMAIN c : m = c[p]
      BY DEF Range
    <3>2. CASE m = o
      BY <1>1, <3>2, TrueOnTrail DEF IInv
    <3>3. CASE m # o
      BY <1>0, <1>1, <3>1, <3>3, LastOne DEF Conflict
    <3> QED BY <3>2, <3>3
  <2>3. D!Falsified(Range(c))
    BY <2>2, SameNames DEF D!Falsified
  <2>4. D!Conflict(Range(c))
    BY <1>1, <1>2, <1>4, <2>3, KeepsMapped DEF D!Conflict
  <2> QED BY <2>1, <2>4 DEF D!Next
<1> QED BY <1>3, <1>4

LEMMA DecideImplements ==
  ASSUME IInv, Decide
  PROVE  D!Next
<1>0. /\ pc = "propagate" /\ ~ exhausted /\ UNCHANGED <<problem, result>>
      /\ DecisionLit \in Lits /\ Unassigned(DecisionLit)
  BY DecisionFacts DEF Decide, Propagated, IInv, ControlOK
<1>1. CASE CanDecide
  <2>0. PICK l, f, n, m : /\ l = DecisionLit /\ n = Len(trail) /\ m = Len(frames)
                          /\ f = [lit |-> l, branch |-> 1, limit |-> n]
    OBVIOUS
  <2>1. /\ m \in Nat /\ DOMAIN frames = 1 .. m /\ frames \in Seq(Frame) /\ n \in Nat
        /\ l \in Lits /\ f \in Frame /\ f.branch = 1 /\ f.limit = n
    BY <1>0, <2>0 DEF IInv, TypeOK, Frame
  <2>2. /\ trail' = Append(trail, l) /\ pc' = "enter" /\ exhausted' = exhausted
        /\ frames' = Append(SubSeq(frames, 1, m - 1 + 1), f)
    BY <1>1, <2>0 DEF Decide, Branch
  <2>3. frames' = Append(frames, f)
    <3>1. m - 1 + 1 = m
      BY <2>1
    <3>2. SubSeq(frames, 1, m) = frames
      BY <2>0, <2>1, Whole
    <3> QED BY <2>2, <3>1, <3>2
  <2>4. /\ DOMAIN frames' = 1 .. m + 1
        /\ frames'[m + 1] = f /\ \A k \in 1 .. m : frames'[k] = frames[k]
    BY <2>0, <2>1, <2>3, Pushed
  <2>5. Open' = Open \cup {n + 1}
    <3>1. Open' \subseteq Open \cup {n + 1}
      <4>1. ASSUME NEW k \in 1 .. m + 1, frames'[k].branch = 1
            PROVE  frames'[k].limit + 1 \in Open \cup {n + 1}
        <5>1. CASE k = m + 1
          BY <2>1, <2>4, <5>1
        <5>2. CASE k \in 1 .. m
          BY <2>1, <2>4, <4>1, <5>2 DEF Open
        <5> QED BY <2>1, <5>1, <5>2
      <4> QED BY <2>4, <4>1 DEF Open
    <3>2. Open \subseteq Open'
      <4>1. ASSUME NEW k \in 1 .. m, frames[k].branch = 1
            PROVE  frames[k].limit + 1 \in Open'
        <5>1. k \in DOMAIN frames' /\ frames'[k] = frames[k]
          BY <2>1, <2>4
        <5> QED BY <4>1, <5>1 DEF Open
      <4> QED BY <2>1, <4>1 DEF Open
    <3>3. n + 1 \in Open'
      <4>1. m + 1 \in DOMAIN frames' /\ frames'[m + 1].branch = 1 /\ frames'[m + 1].limit = n
        BY <2>1, <2>4
      <4> QED BY <4>1 DEF Open
    <3> QED BY <3>1, <3>2, <3>3
  <2>6. ~ D!Assigned(l)
    BY <1>0, <2>0, SameNames, TrueOnTrail DEF IInv, D!Assigned
  <2>7. Mode = "search" /\ Mode' = "search" /\ Cnf' = Cnf
    BY <1>0, <2>2 DEF Mode, Cnf, clauses
  <2>8. D!Decide(l) /\ l \in D!Lits
    BY <2>0, <2>1, <2>2, <2>5, <2>6, <2>7, SameNames DEF D!Decide
  <2> QED BY <2>8 DEF D!Next
<1>2. CASE ~ CanDecide
  <2>1. UNCHANGED <<problem, trail, frames>> /\ Mode = "search" /\ Mode' = "limit"
    BY <1>0, <1>2 DEF Decide, Mode
  <2> QED BY <2>1, GivesUp
<1> QED BY <1>1, <1>2

\* The decisions below the last level are open after it is popped as before.
LEMMA PopOpen ==
  ASSUME IInv, NEW m \in Nat, NEW n \in Nat, m = Len(frames), m >= 1, n = frames[m].limit
  PROVE  /\ \A p \in Open : p <= n + 1
         /\ n + 1 \in Open <=> frames[m].branch = 1
         /\ Open \cap 1 .. n = {frames[k].limit + 1 : k \in {j \in 1 .. m - 1 : frames[j].branch = 1}}
<1>1. DOMAIN frames = 1 .. m /\ \A k \in 1 .. m : frames[k].limit \in Nat
  BY FrameFacts DEF IInv
<1>2. ASSUME NEW k \in 1 .. m - 1 PROVE frames[k].limit < n
  <2>1. k \in DOMAIN frames /\ m \in DOMAIN frames /\ k < m
    BY <1>1
  <2> QED BY <2>1 DEF IInv, FramesOK
<1>3. ASSUME NEW p \in Open
      PROVE  \/ p = n + 1 /\ frames[m].branch = 1
             \/ \E k \in 1 .. m - 1 : frames[k].branch = 1 /\ p = frames[k].limit + 1
  <2>1. PICK k \in 1 .. m : frames[k].branch = 1 /\ p = frames[k].limit + 1
    BY <1>1 DEF Open
  <2>2. CASE k = m
    BY <2>1, <2>2
  <2>3. CASE k # m
    <3>1. k \in 1 .. m - 1
      BY <2>3
    <3> QED BY <2>1, <3>1
  <2> QED BY <2>2, <2>3
<1>4. ASSUME NEW k \in 1 .. m - 1
      PROVE  frames[k].limit + 1 \in 1 .. n
  BY <1>1, <1>2
<1>5. \A p \in Open : p <= n + 1
  BY <1>3, <1>4
<1>6. n + 1 \in Open <=> frames[m].branch = 1
  <2>1. n + 1 \notin 1 .. n /\ m \in DOMAIN frames
    BY <1>1
  <2>2. frames[m].branch = 1 => n + 1 \in Open
    BY <2>1 DEF Open
  <2> QED BY <1>3, <1>4, <2>1, <2>2
<1>7. ASSUME NEW p
      PROVE  p \in Open \cap 1 .. n
             <=> p \in {frames[k].limit + 1 : k \in {j \in 1 .. m - 1 : frames[j].branch = 1}}
  <2>1. ASSUME p \in Open \cap 1 .. n
        PROVE  p \in {frames[k].limit + 1 : k \in {j \in 1 .. m - 1 : frames[j].branch = 1}}
    <3>1. p # n + 1
      BY <2>1
    <3> QED BY <1>3, <2>1, <3>1
  <2>2. ASSUME NEW k \in 1 .. m - 1, frames[k].branch = 1, p = frames[k].limit + 1
        PROVE  p \in Open \cap 1 .. n
    <3>1. k \in DOMAIN frames
      BY <1>1
    <3>2. p \in Open
      BY <2>2, <3>1 DEF Open
    <3> QED BY <1>4, <2>2, <3>2
  <2> QED BY <2>1, <2>2
<1> QED BY <1>5, <1>6, <1>7

LEMMA BacktrackImplements ==
  ASSUME IInv, Backtrack
  PROVE  D!Next
<1>0. PICK m, top, n, t, b, r :
        /\ m = Len(frames) /\ top = Last(frames) /\ n = top.limit
        /\ t = Popped /\ b = Unwound /\ r = SubSeq(frames, 1, m - 1)
  OBVIOUS
<1>1. /\ m \in Nat /\ m >= 1 /\ DOMAIN frames = 1 .. m /\ top = frames[m] /\ top \in Frame
      /\ n \in 0 .. Len(trail) /\ n \in Nat /\ Len(trail) \in Nat
      /\ pc = "return" /\ frames # << >> /\ UNCHANGED <<problem, result>>
  BY <1>0, PopFacts DEF Backtrack
<1>2. /\ r \in Seq(Frame) /\ Len(r) = m - 1 /\ DOMAIN r = 1 .. m - 1
      /\ \A k \in 1 .. m - 1 : r[k] = frames[k]
  <2> DEFINE w == SubSeq(frames, 1, m - 1)
  <2>1. m - 1 \in 0 .. Len(frames) /\ frames \in Seq(Frame)
    BY <1>0, <1>1 DEF IInv, TypeOK
  <2>2. /\ w \in Seq(Frame) /\ Len(w) = m - 1 /\ DOMAIN w = 1 .. m - 1
        /\ \A k \in 1 .. m - 1 : w[k] = frames[k]
    BY <2>1, Prefix
  <2>3. r = w
    BY <1>0
  <2> HIDE DEF w
  <2> QED BY <2>2, <2>3
<1>3. t = SubSeq(trail, 1, n) /\ n < Len(trail) /\ trail[n + 1] = top.lit
  BY <1>0, <1>1 DEF Popped, IInv, FramesOK
<1>4. /\ \A p \in Open : p <= n + 1
      /\ n + 1 \in Open <=> top.branch = 1
      /\ Open \cap 1 .. n = {frames[k].limit + 1 : k \in {j \in 1 .. m - 1 : frames[j].branch = 1}}
  BY <1>0, <1>1, PopOpen
<1>5. Cnf' = Cnf
  BY <1>1 DEF Cnf, clauses
<1>6. Open \subseteq 1 .. Len(trail)
  BY OpenFacts
<1>7. CASE top.branch = 1 /\ ~ exhausted /\ CanDecide
  <2>0. PICK l, f : l = -top.lit /\ f = [lit |-> l, branch |-> 2, limit |-> n]
    OBVIOUS
  <2>1. f \in Frame /\ f.branch = 2
    BY <1>1, <2>0, LitFacts DEF Frame
  <2>2. /\ trail' = Append(t, l) /\ pc' = "enter" /\ exhausted' = exhausted
        /\ \E x : Len(t) = x /\ frames' = Append(SubSeq(frames, 1, m - 2 + 1),
                                            [lit |-> l, branch |-> 2, limit |-> x])
    BY <1>0, <1>1, <1>7, <2>0 DEF Backtrack, Branch
  <2>3. frames' = Append(r, f)
    <3>1. m - 2 + 1 = m - 1
      BY <1>1
    <3>2. Len(t) = n
      BY <1>0, <1>1, PopFacts
    <3> QED BY <1>0, <2>0, <2>2, <3>1, <3>2
  <2>4. /\ DOMAIN frames' = 1 .. m /\ frames'[m] = f
        /\ \A k \in 1 .. m - 1 : frames'[k] = frames[k]
    <3>1. /\ DOMAIN frames' = 1 .. m - 1 + 1 /\ frames'[m - 1 + 1] = f
          /\ \A k \in 1 .. m - 1 : frames'[k] = r[k]
      BY <1>2, <2>1, <2>3, Pushed
    <3>2. m - 1 + 1 = m
      BY <1>1
    <3> QED BY <1>2, <3>1, <3>2
  <2>5. Open' = Open \cap 1 .. n
    <3>1. {k \in 1 .. m : frames'[k].branch = 1} = {j \in 1 .. m - 1 : frames[j].branch = 1}
      <4>1. ASSUME NEW k \in 1 .. m, frames'[k].branch = 1
            PROVE  k \in 1 .. m - 1
        BY <1>1, <2>1, <2>4, <4>1
      <4>2. \A k \in 1 .. m - 1 : k \in 1 .. m
        BY <1>1
      <4> QED BY <2>4, <4>1, <4>2
    <3>2. \A k \in {j \in 1 .. m - 1 : frames[j].branch = 1} : frames'[k] = frames[k]
      BY <2>4
    <3>3. Open' = {frames'[k].limit + 1 : k \in {k \in 1 .. m : frames'[k].branch = 1}}
      BY <2>4 DEF Open
    <3> QED BY <1>4, <3>1, <3>2, <3>3
  <2>6. PICK p : p = n + 1 /\ p \in Open /\ p - 1 = n
    BY <1>1, <1>4, <1>7
  <2>7. Open' = Open \ {p}
    <3>1. \A q \in Open : q \in 1 .. n <=> q # p
      BY <1>1, <1>4, <1>6, <2>6
    <3> QED BY <2>5, <3>1
  <2>8. trail' = Append(SubSeq(trail, 1, p - 1), -trail[p])
    BY <1>3, <2>0, <2>2, <2>6
  <2>9. Mode = "failing" /\ Mode' = "search"
    BY <1>1, <1>7, <2>2 DEF Mode
  <2>10. D!Flip(p)
    BY <1>4, <1>5, <2>6, <2>7, <2>8, <2>9 DEF D!Flip
  <2> QED BY <2>6, <2>10 DEF D!Next
<1>8. CASE ~ (top.branch = 1 /\ ~ exhausted /\ CanDecide)
  <2>1. /\ trail' = t /\ frames' = r /\ pc' = "return"
        /\ exhausted' = (exhausted \/ top.branch = 1)
    BY <1>0, <1>1, <1>8 DEF Backtrack, Front
  <2>2. Open' = Open \cap 1 .. n
    <3>1. {k \in 1 .. m - 1 : r[k].branch = 1} = {j \in 1 .. m - 1 : frames[j].branch = 1}
      BY <1>2
    <3>2. \A k \in {j \in 1 .. m - 1 : frames[j].branch = 1} : r[k] = frames[k]
      BY <1>2
    <3>3. Open' = {r[k].limit + 1 : k \in {k \in 1 .. m - 1 : r[k].branch = 1}}
      BY <1>2, <2>1 DEF Open
    <3> QED BY <1>4, <3>1, <3>2, <3>3
  <2>3. CASE exhausted'
    <3>1. Mode \in {"failing", "limit"} /\ Mode' = "limit"
      BY <1>1, <2>1, <2>3 DEF Mode
    <3>2. D!GiveUp(n)
      BY <1>3, <1>5, <2>1, <2>2, <3>1 DEF D!GiveUp
    <3> QED BY <1>1, <3>2 DEF D!Next
  <2>4. CASE ~ exhausted'
    <3>1. Mode = "failing" /\ Mode' = "failing" /\ top.branch # 1
      BY <1>1, <2>1, <2>4 DEF Mode
    <3>2. \A p \in Open : p <= n /\ p \in 1 .. n
      BY <1>1, <1>4, <1>6, <3>1
    <3>3. Open' = Open
      BY <2>2, <3>2
    <3>4. D!Undo(n)
      BY <1>3, <1>5, <2>1, <3>1, <3>2, <3>3 DEF D!Undo
    <3> QED BY <1>1, <3>4 DEF D!Next
  <2> QED BY <2>3, <2>4
<1> QED BY <1>7, <1>8

LEMMA ReturnImplements ==
  ASSUME IInv, Return
  PROVE  D!Next
<1>1. /\ UNCHANGED <<problem, trail, frames>> /\ Open = {} /\ pc = "return"
      /\ Mode = (IF exhausted THEN "limit" ELSE "failing")
      /\ Mode' = (IF exhausted THEN "Timeout" ELSE "Unsat")
  BY DEF Return, Finish, searchVars, Open, Mode
<1>2. CASE exhausted
  BY <1>1, <1>2, GivesUp
<1>3. CASE ~ exhausted
  <2>1. D!Fail
    BY <1>1, <1>3, KeepsMapped DEF D!Fail
  <2> QED BY <2>1 DEF D!Next
<1> QED BY <1>2, <1>3

\* Nothing is left to decide only when every clause has a true literal.
LEMMA NothingLeft ==
  ASSUME IInv, Propagated, DecisionLit = 0
  PROVE  AllSatisfied
<1>1. \A l \in Lits : ~ Unassigned(l)
  <2>1. FreeVars = {}
    BY DecisionFacts DEF IInv
  <2> QED BY <2>1, LitFacts DEF FreeVars, Unassigned
<1>2. ASSUME NEW k \in DOMAIN clauses PROVE Satisfied(clauses[k])
  <2>1. PICK T : T = {l \in Range(clauses[k]) : Unassigned(l)}
    OBVIOUS
  <2>2. clauses[k] \in Seq(Lits)
    BY LimitsNat DEF IInv
  <2>3. T = {}
    BY <1>1, <2>1, <2>2 DEF Range
  <2>4. Satisfied(clauses[k]) \/ Cardinality(T) >= 2
    BY <2>1, PropagationFollows DEF PropagationComplete
  <2>5. Cardinality(T) = 0
    BY <2>3, FS_EmptySet
  <2> QED BY <2>4, <2>5
<1> QED BY <1>2 DEF AllSatisfied

LEMMA SucceedImplements ==
  ASSUME IInv, Succeed
  PROVE  D!Next
<1>1. /\ UNCHANGED <<problem, trail, frames>> /\ Mode = "search" /\ Mode' = "Sat"
  BY DEF Succeed, Finish, searchVars, Mode, Propagated, IInv, ControlOK
<1>2. AllSatisfied
  BY NothingLeft DEF Succeed
<1>3. ASSUME NEW c \in Cnf PROVE \E l \in c : On(l)
  <2>1. CASE \E k \in DOMAIN clauses : c = Range(clauses[k])
    <3>1. PICK k \in DOMAIN clauses : c = Range(clauses[k])
      BY <2>1
    <3>2. PICK p \in DOMAIN clauses[k] : LiteralTrue(clauses[k][p])
      BY <1>2 DEF AllSatisfied, Satisfied
    <3>3. clauses[k][p] \in Lits /\ clauses[k][p] \in c
      BY <3>1, LimitsNat DEF IInv, Range
    <3> QED BY <3>2, <3>3, TrueOnTrail DEF IInv
  <2>2. CASE \E k \in DOMAIN problem.assumptions : c = {problem.assumptions[k]}
    <3>1. PICK k \in DOMAIN problem.assumptions : c = {problem.assumptions[k]}
      BY <2>2
    <3>2. On(problem.assumptions[k])
      BY DEF Succeed, Propagated, IInv, BaseOK, AtBase, On
    <3> QED BY <3>1, <3>2
  <2> QED BY <2>1, <2>2 DEF Cnf
<1>4. D!Succeed
  BY <1>1, <1>3, SameNames, KeepsMapped DEF D!Succeed
<1> QED BY <1>4 DEF D!Next

LEMMA NextImplements ==
  ASSUME IInv, [Next]_vars
  PROVE  [D!Next]_(D!vars)
<1>1. CASE WatchClause
  BY <1>1, WatchClauseImplements
<1>2. CASE Assume
  BY <1>2, AssumeImplements
<1>3. CASE Begin \/ Enter \/ TakeLiteral \/ SkipEntry \/ MoveWatch \/ ListDone \/ Deadline
  BY <1>3, InnerImplements
<1>4. CASE Imply
  BY <1>4, ImplyImplements
<1>5. CASE Conflict
  BY <1>5, ConflictImplements
<1>6. CASE Succeed
  BY <1>6, SucceedImplements
<1>7. CASE Decide
  BY <1>7, DecideImplements
<1>8. CASE Backtrack
  BY <1>8, BacktrackImplements
<1>9. CASE Return
  BY <1>9, ReturnImplements
<1>10. CASE UNCHANGED vars
  <2>1. Unmapped
    BY <1>10 DEF vars, searchVars, Unmapped, Mode
  <2> QED BY <2>1, Stutters
<1> QED BY <1>1, <1>2, <1>3, <1>4, <1>5, <1>6, <1>7, <1>8, <1>9, <1>10 DEF Next, Step

LEMMA InitImplements ==
  ASSUME Init
  PROVE  D!Init
<1>1. Cnf \in SUBSET SUBSET D!Lits
  BY InitIInv, Members, SameNames DEF IInv
<1>2. trail = << >> /\ Open = {} /\ Mode = "search"
  BY DEF Init, Open, Mode
<1> QED BY <1>1, <1>2 DEF D!Init

\* The solver is a search by unit implication, decision and chronological
\* backtracking, whatever the clauses, the limits and the deadline.
THEOREM Refinement == Spec => ImplementsDPLL
<1>1. Init => D!Init
  BY InitImplements
<1>2. IInv /\ [Next]_vars => [D!Next]_(D!vars)
  BY NextImplements
<1> QED BY <1>1, <1>2, Invariance, PTL DEF Spec, ImplementsDPLL, D!Spec

-----------------------------------------------------------------------------
(* The verdicts.  Those of the abstract search are right, whatever its         *)
(* formula; a model of its clauses is a set of variables with the negatives of *)
(* the others.                                                                 *)
DP == INSTANCE DPLLProofs WITH cnf <- Cnf, open <- Open, mode <- Mode

LEMMA AbstractlySound == Spec => []D!VerdictSound
<1>1. D!Spec => DP!Spec
  BY DEF D!Spec, D!Init, D!Next, D!vars, D!Imply, D!Decide, D!Conflict, D!Undo, D!Flip, D!Fail,
         D!Succeed, D!GiveUp, D!Lits, D!Vars, D!Holds, D!Assigned, D!Falsified, D!Verdicts,
         DP!Spec, DP!Init, DP!Next, DP!vars, DP!Imply, DP!Decide, DP!Conflict, DP!Undo, DP!Flip,
         DP!Fail, DP!Succeed, DP!GiveUp, DP!Lits, DP!Vars, DP!Holds, DP!Assigned, DP!Falsified,
         DP!Verdicts
<1>2. DP!VerdictSound => D!VerdictSound
  BY DEF D!VerdictSound, D!Extracted, D!Models, D!Valuations, D!Lits, D!Vars, D!Holds,
         DP!VerdictSound, DP!Extracted, DP!Models, DP!Valuations, DP!Lits, DP!Vars, DP!Holds
<1> QED BY <1>1, <1>2, Refinement, DP!Soundness, PTL DEF ImplementsDPLL

\* A set of variables makes a literal true.
TrueIn(M, l) == IF l > 0 THEN l \in M ELSE -l \notin M

LEMMA ModelsMeaning ==
  ASSUME NEW M
  PROVE  M \in Models <=>
           /\ M \in SUBSET Vars
           /\ \A k \in DOMAIN clauses : \E p \in DOMAIN clauses[k] : TrueIn(M, clauses[k][p])
           /\ \A k \in DOMAIN problem.assumptions : TrueIn(M, problem.assumptions[k])
BY DEF Models, TrueIn

\* The variables of an abstract valuation, and back.
LEMMA Valued ==
  ASSUME NEW M \in SUBSET Vars, NEW V, V = M \cup {-v : v \in Vars \ M}
  PROVE  V \in D!Valuations /\ \A l \in Lits : l \in V <=> TrueIn(M, l)
<1>1. V \subseteq Lits
  BY DEF Lits
<1>2. ASSUME NEW l \in Lits PROVE l \in V <=> TrueIn(M, l)
  <2>1. CASE l > 0
    <3>1. l \in Vars /\ \A v \in Vars : l # -v
      BY <2>1, NumVarsAssumption DEF Lits, Vars
    <3> QED BY <2>1, <3>1 DEF TrueIn
  <2>2. CASE ~ (l > 0)
    <3>1. l \notin Vars /\ -l \in Vars /\ -(-l) = l
      BY <2>2, NumVarsAssumption DEF Lits, Vars
    <3>2. \A v \in Vars : -v = l => v = -l
      BY <3>1, NumVarsAssumption DEF Vars
    <3> QED BY <2>2, <3>1, <3>2 DEF TrueIn
  <2> QED BY <2>1, <2>2
<1>3. ASSUME NEW v \in Vars PROVE v \in V <=> -v \notin V
  <2>1. v \in Lits /\ -v \in Lits /\ v > 0 /\ ~ (-v > 0) /\ -(-v) = v
    BY NumVarsAssumption DEF Lits, Vars
  <2> QED BY <1>2, <2>1 DEF TrueIn
<1> QED BY <1>1, <1>2, <1>3, SameNames DEF D!Valuations

\* The sets of variables that satisfy the problem are the abstract models.
LEMMA SameModels ==
  ASSUME TypeOK, NEW M \in SUBSET Vars, NEW V, V = M \cup {-v : v \in Vars \ M}
  PROVE  M \in Models <=> V \in D!Models
<1>1. V \in D!Valuations /\ \A l \in Lits : l \in V <=> TrueIn(M, l)
  BY Valued
<1>2. ASSUME NEW k \in DOMAIN clauses
      PROVE  Range(clauses[k]) \cap V # {} <=> \E p \in DOMAIN clauses[k] : TrueIn(M, clauses[k][p])
  <2>1. clauses[k] \in Seq(Lits)
    BY LimitsNat
  <2>2. \A p \in DOMAIN clauses[k] : clauses[k][p] \in Lits
    BY <2>1
  <2> QED BY <1>1, <2>2 DEF Range
<1>3. ASSUME NEW k \in DOMAIN problem.assumptions
      PROVE  {problem.assumptions[k]} \cap V # {} <=> TrueIn(M, problem.assumptions[k])
  <2>1. problem.assumptions[k] \in Lits
    BY LimitsNat
  <2> QED BY <1>1, <2>1
<1>4. (\A c \in Cnf : c \cap V # {})
        <=> /\ \A k \in DOMAIN clauses : Range(clauses[k]) \cap V # {}
            /\ \A k \in DOMAIN problem.assumptions : {problem.assumptions[k]} \cap V # {}
  BY DEF Cnf
<1>5. V \in D!Models <=> \A c \in Cnf : c \cap V # {}
  BY <1>1 DEF D!Models
<1> QED BY <1>2, <1>3, <1>4, <1>5, ModelsMeaning

\* What solve answers is right: Sat comes with a model of every clause and
\* assumption, and Unsat, by which a transformation is proved, is said only of
\* what has none, after any sequence of implications, unwindings and limits.
THEOREM VerdictAlwaysSound == Spec => []VerdictSound
<1>1. IInv /\ D!VerdictSound => VerdictSound
  <2> SUFFICES ASSUME IInv, D!VerdictSound PROVE VerdictSound
    OBVIOUS
  <2>0. TypeOK
    BY DEF IInv
  <2>1. ASSUME result = "Sat" PROVE {v \in Vars : assignment[v] = 1} \in Models
    <3>1. Mode = "Sat"
      BY <2>1 DEF IInv, ControlOK, Mode
    <3>2. PICK M : M = {v \in Vars : assignment[v] = 1}
      OBVIOUS
    <3>3. ASSUME NEW v \in Vars PROVE D!Holds(v) <=> v \in M
      <4>1. v \in Lits /\ Abs(v) = v /\ v > 0
        BY NumVarsAssumption DEF Lits, Vars, Abs
      <4>2. On(v) <=> assignment[v] = 1
        BY <4>1, TrueOnTrail DEF LiteralTrue, IInv
      <4> QED BY <3>2, <4>2, SameNames
    <3>4. D!Extracted = M \cup {-v : v \in Vars \ M}
      <4>1. {v \in D!Vars : D!Holds(v)} = M
        BY <3>2, <3>3, SameNames
      <4>2. {v \in D!Vars : ~ D!Holds(v)} = Vars \ M
        BY <3>2, <3>3, SameNames
      <4> QED BY <4>1, <4>2 DEF D!Extracted
    <3>5. D!Extracted \in D!Models /\ M \in SUBSET Vars
      BY <3>1, <3>2 DEF D!VerdictSound
    <3> QED BY <2>0, <3>2, <3>4, <3>5, SameModels
  <2>2. ASSUME result = "Unsat" PROVE Models = {}
    <3>1. Mode = "Unsat"
      BY <2>2 DEF IInv, ControlOK, Mode
    <3>2. D!Models = {}
      BY <3>1 DEF D!VerdictSound
    <3>3. SUFFICES ASSUME NEW M \in Models PROVE FALSE
      OBVIOUS
    <3>4. M \in SUBSET Vars
      BY ModelsMeaning
    <3>5. M \cup {-v : v \in Vars \ M} \in D!Models
      BY <2>0, <3>4, SameModels
    <3> QED BY <3>2, <3>5
  <2> QED BY <2>1, <2>2 DEF VerdictSound
<1> QED BY <1>1, Invariance, AbstractlySound, PTL
=============================================================================
