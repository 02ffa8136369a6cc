--------------------------- MODULE ColorGraphProofs ---------------------------
(***************************************************************************)
(* Proofs about color_graph, for every palette and every finite            *)
(* interference graph.                                                     *)
(***************************************************************************)
EXTENDS ColorGraph, FiniteSetTheorems, WellFoundedInduction, TLAPS

-----------------------------------------------------------------------------
(* The first wish *)

\* A nonempty set of naturals has a least member: the intervals 0 .. m, m in
\* the set, have a minimal one under inclusion.
LEMMA LeastMember ==
  ASSUME NEW T \in SUBSET Nat, T # {}
  PROVE  \E m \in T : \A n \in T : m <= n
<1>1. PICK t \in T : TRUE
  OBVIOUS
<1> DEFINE D == 0 .. t
           Below == {0 .. n : n \in {m \in T : m <= t}}
<1>2. IsFiniteSet(D)
  BY FS_Interval
<1>3. IsWellFoundedOn(StrictSubsetOrdering(D), SUBSET D)
  BY <1>2, FS_StrictSubsetOrderingWellFounded, FS_FiniteSubsetsOfFinite
<1>4. Below \subseteq SUBSET D /\ Below # {}
  BY <1>1
<1>5. PICK x \in Below : \A y \in Below : ~ (<<y, x>> \in StrictSubsetOrdering(D))
  <2> HIDE DEF Below, D
  <2> QED
    BY <1>3, <1>4, WFMin
<1>6. PICK m \in T : m <= t /\ x = 0 .. m
  OBVIOUS
<1>7. ASSUME NEW n \in T, n < m PROVE FALSE
  <2>1. 0 .. n \in Below
    BY <1>6, <1>7
  <2>2. 0 .. n \subseteq 0 .. m /\ m \in 0 .. m /\ m \notin 0 .. n
    BY <1>7
  <2>3. <<0 .. n, 0 .. m>> \in StrictSubsetOrdering(D)
    BY <2>1, <2>2, <1>4, <1>6 DEF StrictSubsetOrdering
  <2> QED
    BY <2>1, <2>3, <1>5, <1>6
<1> QED
  BY <1>7

\* If some wish is available, FirstAvailable returns an available one.
LEMMA FirstAvailableIsAvailable ==
  ASSUME NEW S, NEW wishes \in Seq(S), NEW available,
         \E i \in DOMAIN wishes : wishes[i] \in available
  PROVE  FirstAvailable(wishes, available) \in available
<1> DEFINE T == {i \in DOMAIN wishes : wishes[i] \in available}
<1>1. T \in SUBSET Nat /\ T # {}
  OBVIOUS
<1>2. PICK m \in T : \A n \in T : m <= n
  BY <1>1, LeastMember
<1>3. \A j \in DOMAIN wishes : j < m => wishes[j] \notin available
  BY <1>2
<1> QED
  BY <1>2, <1>3 DEF FirstAvailable

\* The palette ends the list of wishes, so a node with an available color gets
\* one of them.
LEMMA ChosenIsAvailable ==
  ASSUME TypeOK, NEW n \in problem.nodes, Available(n) # {}
  PROVE  FirstAvailable(Wishes(n), Available(n)) \in Available(n)
<1> DEFINE S == Registers \cup {None}
           shared == [i \in DOMAIN problem.virt[n] |-> color[problem.virt[n][i]]]
<1>1. Palette \in Seq(S) /\ problem.phys[n] \in Seq(S)
  BY PaletteAssumption DEF TypeOK, IsProblem
<1>2. problem.virt[n] \in Seq(problem.nodes)
  BY DEF TypeOK, IsProblem
<1>3. shared \in Seq(S)
  <2>1. \A i \in DOMAIN problem.virt[n] : color[problem.virt[n][i]] \in S
    BY <1>2, PaletteAssumption DEF TypeOK, Colors
  <2> QED
    BY <1>2, <2>1
<1>4. Wishes(n) \in Seq(S)
  BY <1>1, <1>3 DEF Wishes
<1>5. PICK k \in DOMAIN Palette : Palette[k] \in Available(n)
  BY DEF Available, Colors
<1>6. \E i \in DOMAIN Wishes(n) : Wishes(n)[i] = Palette[k]
  <2> DEFINE front == problem.phys[n] \o shared
  <2>1. front \in Seq(S) /\ Wishes(n) = front \o Palette
    BY <1>1, <1>3 DEF Wishes
  <2> HIDE DEF front
  <2>2. Len(front) + k \in DOMAIN Wishes(n) /\ Wishes(n)[Len(front) + k] = Palette[k]
    BY <2>1, <1>1, <1>5
  <2> QED
    BY <2>2
<1> QED
  BY <1>4, <1>5, <1>6, FirstAvailableIsAvailable

-----------------------------------------------------------------------------
(* The inductive invariant *)

Below(i) == {stack[j] : j \in 1 .. i}

\* While nodes are left in the graph, the others are all on the stack.
StackInv ==
  /\ \A i \in 1 .. Len(stack) : /\ stack[i] \notin remaining
                                /\ color[stack[i]] = None
                                /\ stack[i] \notin spills
  /\ \A i, j \in 1 .. Len(stack) : stack[i] = stack[j] => i = j
  /\ \A a \in remaining : color[a] = None /\ a \notin spills /\ a \notin lowDegree
  /\ remaining # {} => problem.nodes \ remaining \subseteq Below(Len(stack))

\* No node is lost, none is both colored and spilled.
Accounted ==
  /\ \A a \in problem.nodes : color[a] # None => a \notin spills
  /\ \A a \in problem.nodes : \/ a \in remaining \cup Below(Len(stack)) \cup spills
                              \/ color[a] # None

\* A node pushed by the degree test has fewer than K neighbours among those
\* that are popped before it.
FewAbove ==
  \A i \in 1 .. Len(stack) : stack[i] \in lowDegree =>
    Cardinality(problem.adj[stack[i]] \cap (problem.nodes \ Below(i))) < K

IInv == /\ TypeOK
        /\ StackInv
        /\ Accounted
        /\ FewAbove
        /\ ProperColoring
        /\ SpillJustified
        /\ LowDegreeColored

\* It holds as color_graph starts, on whatever problem it is handed.
LEMMA StartIInv ==
  ASSUME IsProblem(problem), Start(problem)
  PROVE  IInv
BY DEF Start, IInv, TypeOK, StackInv, Accounted, FewAbove, ProperColoring,
       SpillJustified, LowDegreeColored, IsProblem, Below

LEMMA InitIInv == Init => IInv
<1> SUFFICES ASSUME NEW q \in Problems, Start(q) PROVE IInv
  BY DEF Init
<1>1. problem = q /\ IsProblem(problem)
  BY ProblemsAssumption DEF Start
<1> QED
  BY <1>1, StartIInv

\* Taking a node off the graph.
LEMMA PushKeeps ==
  ASSUME IInv, NEW n \in remaining, Push(n),
         \/ lowDegree' = lowDegree
         \/ Degree(n) < K /\ lowDegree' = lowDegree \cup {n}
  PROVE  IInv'
<1>. PICK L \in Nat : L = Len(stack)
  BY DEF IInv, TypeOK
<1>0. /\ n \in problem.nodes /\ stack \in Seq(problem.nodes) /\ L = Len(stack)
      /\ n \notin Below(L) /\ problem' = problem
  BY DEF IInv, TypeOK, StackInv, Push, Below
<1>1. /\ stack' = Append(stack, n) /\ Len(stack') = L + 1
      /\ \A i \in 1 .. L : stack'[i] = stack[i]
      /\ stack'[L + 1] = n
  BY <1>0 DEF Push
<1>2. \A i \in 1 .. L : Below(i)' = Below(i)
  BY <1>1, <1>0 DEF Below
<1>3. Below(L + 1)' = Below(L) \cup {n}
  BY <1>1, <1>0 DEF Below
<1>4. TypeOK'
  BY <1>0, <1>1 DEF IInv, TypeOK, Push
<1>5. StackInv'
  <2>1. \A i \in 1 .. Len(stack') : stack'[i] \notin remaining' /\ color'[stack'[i]] = None
                                     /\ stack'[i] \notin spills'
    BY <1>0, <1>1 DEF IInv, StackInv, Push
  <2>2. \A i, j \in 1 .. Len(stack') : stack'[i] = stack'[j] => i = j
    BY <1>0, <1>1 DEF IInv, StackInv, Below
  <2>3. \A a \in remaining' : color'[a] = None /\ a \notin spills' /\ a \notin lowDegree'
    BY DEF IInv, StackInv, Push
  <2>4. problem.nodes \ remaining' \subseteq Below(L + 1)'
    BY <1>3 DEF IInv, StackInv, Push
  <2> QED
    BY <2>1, <2>2, <2>3, <2>4, <1>0, <1>1 DEF StackInv
<1>6. Accounted'
  BY <1>0, <1>1, <1>3 DEF IInv, Accounted, Push
<1>7. FewAbove'
  <2> SUFFICES ASSUME NEW i \in 1 .. L + 1, stack'[i] \in lowDegree'
               PROVE  Cardinality(problem.adj[stack'[i]]
                                  \cap (problem.nodes \ Below(i)')) < K
    BY <1>0, <1>1 DEF FewAbove
  <2>1. CASE i \in 1 .. L
    <3>1. stack[i] \in lowDegree
      BY <2>1, <1>0, <1>1 DEF IInv, StackInv, Push
    <3> QED
      BY <3>1, <2>1, <1>1, <1>2 DEF IInv, FewAbove
  <2>2. CASE i = L + 1
    <3>1. n \in lowDegree \/ Degree(n) < K
      BY <2>2, <1>1
    <3>2. problem.adj[n] \cap (problem.nodes \ (Below(L) \cup {n}))
            = problem.adj[n] \cap remaining
      <4>1. n \notin problem.adj[n] /\ remaining \subseteq problem.nodes
        BY <1>0 DEF IInv, TypeOK, IsProblem
      <4>2. problem.nodes \ remaining \subseteq Below(L)
        BY <1>0 DEF IInv, StackInv
      <4>3. \A m \in remaining : m \notin Below(L)
        BY <1>0 DEF IInv, StackInv, Below
      <4> QED
        BY <4>1, <4>2, <4>3
    <3>3. n \notin lowDegree
      BY DEF IInv, StackInv
    <3> QED
      BY <3>1, <3>2, <3>3, <2>2, <1>1, <1>3 DEF Degree
  <2> QED
    BY <2>1, <2>2, <1>0
<1>8. ProperColoring' /\ SpillJustified'
  BY DEF IInv, ProperColoring, SpillJustified, Push
<1>9. LowDegreeColored'
  BY DEF IInv, LowDegreeColored, StackInv, Push
<1> QED
  BY <1>4, <1>5, <1>6, <1>7, <1>8, <1>9 DEF IInv

\* A prefix of a sequence.
LEMMA FrontOfSeq ==
  ASSUME NEW S, NEW s \in Seq(S), NEW n \in Nat, n <= Len(s)
  PROVE  /\ SubSeq(s, 1, n) \in Seq(S)
         /\ Len(SubSeq(s, 1, n)) = n
         /\ \A i \in 1 .. n : SubSeq(s, 1, n)[i] = s[i]
  OBVIOUS

\* The facts about a pop that do not depend on what becomes of the node.
LEMMA PopFacts ==
  ASSUME IInv, Selecting, Pop
  PROVE  /\ Top \in problem.nodes /\ remaining = {}
         /\ Len(stack) \in Nat \ {0} /\ Top = stack[Len(stack)]
         /\ stack' \in Seq(problem.nodes) /\ Len(stack') = Len(stack) - 1
         /\ \A i \in 1 .. Len(stack) - 1 : stack'[i] = stack[i] /\ stack'[i] # Top
         /\ color[Top] = None /\ Top \notin spills
<1>1. stack \in Seq(problem.nodes) /\ stack # << >> /\ remaining = {}
  BY DEF IInv, TypeOK, Selecting
<1>2. Len(stack) \in Nat \ {0} /\ Top \in problem.nodes /\ Top = stack[Len(stack)]
  BY <1>1 DEF Top
<1>3. /\ stack' \in Seq(problem.nodes) /\ Len(stack') = Len(stack) - 1
      /\ \A i \in 1 .. Len(stack) - 1 : stack'[i] = stack[i]
  <2>1. stack' = SubSeq(stack, 1, Len(stack) - 1)
    BY DEF Pop
  <2>2. Len(stack) - 1 \in Nat /\ Len(stack) - 1 <= Len(stack)
    BY <1>2
  <2> QED
    BY <1>1, <2>1, <2>2, FrontOfSeq
<1>4. \A i \in 1 .. Len(stack) - 1 : stack[i] # Top
  BY <1>2 DEF IInv, StackInv
<1>5. color[Top] = None /\ Top \notin spills
  BY <1>2 DEF IInv, StackInv
<1> QED
  BY <1>1, <1>2, <1>3, <1>4, <1>5

\* FewAbove and what is below a stack position survive a pop.
LEMMA PopKeepsFewAbove ==
  ASSUME IInv, Selecting, Pop, UNCHANGED <<problem, lowDegree>>
  PROVE  FewAbove'
<1> SUFFICES ASSUME NEW i \in 1 .. Len(stack) - 1, stack'[i] \in lowDegree
             PROVE  Cardinality(problem.adj[stack'[i]] \cap (problem.nodes \ Below(i)')) < K
  BY PopFacts DEF FewAbove
<1>1. stack'[i] = stack[i] /\ i \in 1 .. Len(stack)
  BY PopFacts
<1>2. Below(i)' = Below(i)
  BY PopFacts DEF Below
<1> QED
  BY <1>1, <1>2 DEF IInv, FewAbove

\* A node of low degree to which no register is forbidden finds a color: each of
\* the K colors would need a neighbour of its own above it.
LEMMA LowDegreeHasColor ==
  ASSUME IInv, Selecting, Pop, Top \in lowDegree, problem.forbidden[Top] \cap Colors = {}
  PROVE  Available(Top) # {}
<1> SUFFICES ASSUME Available(Top) = {} PROVE FALSE
  OBVIOUS
<1> DEFINE S == problem.adj[Top] \cap (problem.nodes \ Below(Len(stack)))
<1>1. Cardinality(S) < K
  BY PopFacts DEF IInv, FewAbove
<1>2. IsFiniteSet(S)
  <2>1. IsFiniteSet(problem.nodes) /\ S \subseteq problem.nodes
    BY DEF IInv, TypeOK, IsProblem
  <2> QED
    BY <2>1, FS_Subset
<1>3. K \in Nat /\ DOMAIN Palette = 1 .. K
  BY PaletteAssumption DEF K
<1>4. \A i \in 1 .. K : \E m \in S : color[m] = Palette[i]
  <2> SUFFICES ASSUME NEW i \in 1 .. K PROVE \E m \in S : color[m] = Palette[i]
    OBVIOUS
  <2>1. Palette[i] \in Colors /\ Palette[i] # None
    BY <1>3, PaletteAssumption DEF Colors
  <2>2. PICK m \in problem.adj[Top] : color[m] = Palette[i]
    BY <2>1 DEF Available
  <2>3. m \in problem.nodes
    BY PopFacts DEF IInv, TypeOK, IsProblem
  <2>4. m \notin Below(Len(stack))
    BY <2>1, <2>2 DEF IInv, StackInv, Below
  <2> QED
    BY <2>2, <2>3, <2>4
<1> DEFINE f == [i \in 1 .. K |-> CHOOSE m \in S : color[m] = Palette[i]]
<1>5. \A i \in 1 .. K : f[i] \in S /\ color[f[i]] = Palette[i]
  <2> HIDE DEF S
  <2> QED
    BY <1>4
<1>6. f \in [1 .. K -> S]
  <2> HIDE DEF S
  <2> QED
    BY <1>5
<1>7. \A i, j \in 1 .. K : f[i] = f[j] => i = j
  <2> HIDE DEF f, S
  <2> QED
    BY <1>5, <1>3, PaletteAssumption
<1>8. IsFiniteSet(1 .. K) /\ Cardinality(1 .. K) = K
  BY <1>3, FS_Interval
<1>9. Cardinality(S) \in Nat
  BY <1>2, FS_CardinalityType
<1>10. PICK x, y \in 1 .. K : x # y /\ f[x] = f[y]
  <2> HIDE DEF f, S
  <2>1. PICK A : A = 1 .. K
    OBVIOUS
  <2>2. IsFiniteSet(A) /\ Cardinality(S) < Cardinality(A) /\ f \in [A -> S]
    BY <2>1, <1>1, <1>6, <1>8
  <2>3. \E x, y \in A : x # y /\ f[x] = f[y]
    BY <1>2, <2>2, FS_PigeonHole
  <2> QED
    BY <2>1, <2>3
<1> QED
  <2> HIDE DEF f, S
  <2> QED
    BY <1>7, <1>10

LEMMA SelectColorKeeps == IInv /\ SelectColor => IInv'
<1> SUFFICES ASSUME IInv, SelectColor PROVE IInv'
  OBVIOUS
<1> DEFINE c == FirstAvailable(Wishes(Top), Available(Top))
<1>0. Selecting /\ Pop /\ UNCHANGED <<problem, remaining, lowDegree, spills>>
  BY DEF SelectColor
<1>1. c \in Available(Top)
  BY <1>0, PopFacts, ChosenIsAvailable DEF SelectColor, IInv
<1> HIDE DEF c
<1>2. /\ c \in Colors /\ c # None /\ c \notin problem.forbidden[Top]
      /\ \A m \in problem.adj[Top] : color[m] # c
  BY <1>1, PaletteAssumption DEF Available, Colors
<1>3. color' = [color EXCEPT ![Top] = c]
  BY DEF SelectColor, c
<1>4. color \in [problem.nodes -> Colors \cup {None}] /\ IsProblem(problem)
  BY DEF IInv, TypeOK
<1>5. TypeOK'
  BY <1>0, <1>2, <1>3, <1>4, PopFacts DEF IInv, TypeOK
<1>6. StackInv'
  BY <1>0, <1>3, <1>4, PopFacts DEF IInv, StackInv
<1>7. Accounted'
  <2>1. \A a \in problem.nodes : a \in Below(Len(stack)) => a = Top \/ a \in Below(Len(stack))'
    BY <1>0, PopFacts DEF Below
  <2> QED
    BY <2>1, <1>0, <1>2, <1>3, <1>4, PopFacts DEF IInv, Accounted
<1>8. FewAbove'
  BY <1>0, PopKeepsFewAbove
<1>9. ProperColoring'
  BY <1>0, <1>2, <1>3, <1>4, PopFacts DEF IInv, ProperColoring, IsProblem
<1>10. SpillJustified'
  <2>1. \A a \in problem.nodes : color[a] # None => color'[a] = color[a]
    BY <1>0, <1>3, <1>4, PopFacts
  <2>2. spills \subseteq problem.nodes /\ \A a \in spills : problem.adj[a] \subseteq problem.nodes
    BY <1>4 DEF IInv, TypeOK, IsProblem
  <2>3. \A d \in Colors : d # None
    BY PaletteAssumption DEF Colors
  <2> QED
    BY <2>1, <2>2, <2>3, <1>0 DEF IInv, SpillJustified
<1>11. LowDegreeColored'
  BY <1>0 DEF IInv, LowDegreeColored
<1> QED
  BY <1>5, <1>6, <1>7, <1>8, <1>9, <1>10, <1>11 DEF IInv

LEMMA SelectSpillKeeps == IInv /\ SelectSpill => IInv'
<1> SUFFICES ASSUME IInv, SelectSpill PROVE IInv'
  OBVIOUS
<1>0. /\ Selecting /\ Pop /\ UNCHANGED <<problem, remaining, lowDegree, color>>
      /\ spills' = spills \cup {Top} /\ Available(Top) = {}
  BY DEF SelectSpill
<1>5. TypeOK'
  BY <1>0, PopFacts DEF IInv, TypeOK
<1>6. StackInv'
  BY <1>0, PopFacts DEF IInv, StackInv
<1>7. Accounted'
  <2>1. \A a \in problem.nodes : a \in Below(Len(stack)) => a = Top \/ a \in Below(Len(stack))'
    BY <1>0, PopFacts DEF Below
  <2> QED
    BY <2>1, <1>0, PopFacts DEF IInv, Accounted
<1>8. FewAbove'
  BY <1>0, PopKeepsFewAbove
<1>9. ProperColoring'
  BY <1>0 DEF IInv, ProperColoring
<1>10. SpillJustified'
  BY <1>0 DEF IInv, SpillJustified, Available
<1>11. LowDegreeColored'
  BY <1>0, LowDegreeHasColor DEF IInv, LowDegreeColored
<1> QED
  BY <1>5, <1>6, <1>7, <1>8, <1>9, <1>10, <1>11 DEF IInv

LEMMA StepIInv == IInv /\ [Next]_vars => IInv'
<1> SUFFICES ASSUME IInv, [Next]_vars PROVE IInv'
  OBVIOUS
<1>1. CASE SimplifyLowDegree
  BY <1>1, PushKeeps DEF SimplifyLowDegree, IsLowDegreePick, Simplifiable
<1>2. CASE SimplifySpillCandidate
  BY <1>2, PushKeeps DEF SimplifySpillCandidate
<1>3. CASE SelectColor
  BY <1>3, SelectColorKeeps
<1>4. CASE SelectSpill
  BY <1>4, SelectSpillKeeps
<1>5. CASE UNCHANGED vars
  BY <1>5 DEF vars, IInv, TypeOK, StackInv, Accounted, FewAbove, ProperColoring,
              SpillJustified, LowDegreeColored, Below
<1> QED
  BY <1>1, <1>2, <1>3, <1>4, <1>5 DEF Next

-----------------------------------------------------------------------------
(* Theorems *)

\* The inductive invariant holds throughout color_graph.
THEOREM Invariance == Spec => []IInv
  BY InitIInv, StepIInv, PTL DEF Spec

\* Types, for every problem and palette.
THEOREM TypeCorrect == Spec => []TypeOK
  BY Invariance, PTL DEF IInv

\* Two interfering virtual registers never share a register, and no node gets a
\* forbidden one.
THEOREM ColoringSound == Spec => []ProperColoring
  BY Invariance, PTL DEF IInv

\* A spill means that the palette really was used up, and stays so to the end.
THEOREM SpillsJustified == Spec => []SpillJustified
  BY Invariance, PTL DEF IInv

\* The simplification invariant the code's comment relies on: degree below k
\* when pushed means a color when popped.
THEOREM LowDegreeNeverSpilled == Spec => []LowDegreeColored
  BY Invariance, PTL DEF IInv

\* When the two loops have ended every node is colored or spilled, not both.
THEOREM NothingLost == Spec => []Partition
<1>1. IInv => Partition
  BY DEF IInv, TypeOK, Accounted, Partition, Done, Below
<1> QED
  BY Invariance, <1>1, PTL
=============================================================================
