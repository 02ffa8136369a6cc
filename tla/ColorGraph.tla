------------------------------ MODULE ColorGraph ------------------------------
(***************************************************************************)
(* RegAllocator::color_graph of pass/mir/MIRRegAllocPass.cpp: optimistic   *)
(* coloring of one register class.  Simplify takes nodes off the graph     *)
(* onto a stack (any node of degree below k, else the cheapest to spill);  *)
(* Select pops them and gives each a color no colored neighbour holds, or  *)
(* declares it spilled.                                                    *)
(***************************************************************************)
EXTENDS Integers, Sequences, FiniteSets

CONSTANTS Registers,    \* the physical registers of the class
          Palette,      \* allocatable(reg_class), in the code's order
          Problems,     \* the coloring problems a behaviour may start from
          None          \* not a color

Colors == {Palette[i] : i \in DOMAIN Palette}
K == Len(Palette)

\* A coloring problem: what allocate_class hands to color_graph.
IsProblem(q) ==
  /\ IsFiniteSet(q.nodes) /\ q.nodes \subseteq Nat
  /\ q.adj \in [q.nodes -> SUBSET q.nodes]
  /\ \A a, b \in q.nodes : b \in q.adj[a] => a \in q.adj[b]
  /\ \A a \in q.nodes : a \notin q.adj[a]
  /\ q.forbidden \in [q.nodes -> SUBSET Registers] \* ruled out for the node
  /\ q.phys \in [q.nodes -> Seq(Registers)]  \* registers moves suggest
  /\ q.virt \in [q.nodes -> Seq(q.nodes)]   \* nodes moves suggest sharing with

ASSUME PaletteAssumption == /\ Palette \in Seq(Registers)
                            /\ \A i, j \in DOMAIN Palette : Palette[i] = Palette[j] => i = j
                            /\ None \notin Registers
\* cost: what spilling the node would cost.
ASSUME ProblemsAssumption ==
  \A q \in Problems : IsProblem(q) /\ q.cost \in [q.nodes -> Nat]

VARIABLES problem,    \* the problem, fixed
          remaining,  \* nodes still in the graph
          stack,      \* nodes taken off it, in order
          lowDegree,  \* history: the nodes taken off by the degree test
          color,      \* the color of a node, or None
          spills      \* nodes for which no color was left

vars == <<problem, remaining, stack, lowDegree, color, spills>>

TypeOK == /\ IsProblem(problem)
          /\ remaining \in SUBSET problem.nodes
          /\ stack \in Seq(problem.nodes)
          /\ lowDegree \in SUBSET problem.nodes
          /\ color \in [problem.nodes -> Colors \cup {None}]
          /\ spills \in SUBSET problem.nodes

Start(q) == /\ problem = q
            /\ remaining = q.nodes
            /\ stack = << >>
            /\ lowDegree = {}
            /\ color = [n \in q.nodes |-> None]
            /\ spills = {}

Init == \E q \in Problems : Start(q)

-----------------------------------------------------------------------------
(* Simplify *)

Degree(n) == Cardinality(problem.adj[n] \cap remaining)

\* Mutant: the degree test lets a node with k neighbours through.
Simplifiable_OffByOne == {n \in remaining : Degree(n) <= K}

Simplifiable == {n \in remaining : Degree(n) < K}

\* spill_priority(a) <= spill_priority(b), the quotients cross-multiplied; the
\* degree here is that of the whole graph.
NoDearer(a, b) ==
  problem.cost[a] * (Cardinality(problem.adj[b]) + 1)
    <= problem.cost[b] * (Cardinality(problem.adj[a]) + 1)

\* The largest id of low degree.
IsLowDegreePick(n) == /\ n \in Simplifiable
                      /\ \A m \in Simplifiable : m <= n

\* With none of low degree, the first of least priority.
IsSpillCandidate(n) ==
  /\ Simplifiable = {}
  /\ n \in remaining
  /\ \A m \in remaining : NoDearer(n, m) /\ (NoDearer(m, n) => n <= m)

Push(n) == /\ stack' = Append(stack, n)
           /\ remaining' = remaining \ {n}
           /\ UNCHANGED <<problem, color, spills>>

SimplifyLowDegree == \E n \in remaining :
  /\ IsLowDegreePick(n)
  /\ lowDegree' = lowDegree \cup {n}
  /\ Push(n)

SimplifySpillCandidate == \E n \in remaining :
  /\ IsSpillCandidate(n)
  /\ UNCHANGED lowDegree
  /\ Push(n)

-----------------------------------------------------------------------------
(* Select *)

\* Mutant: only neighbours with a smaller id are looked at.
Available_HalfTheEdges(n) ==
  {c \in Colors : /\ c \notin problem.forbidden[n]
                  /\ \A m \in problem.adj[n] : m < n => color[m] # c}

\* Mutant: a register once given out is never given to another node.
Available_UsedAnywhere(n) ==
  {c \in Colors : /\ c \notin problem.forbidden[n]
                  /\ \A m \in problem.nodes : color[m] # c}

Available(n) == {c \in Colors : /\ c \notin problem.forbidden[n]
                                /\ \A m \in problem.adj[n] : color[m] # c}

\* What prefer_color tries in turn: the physical colors, the colors the virtual
\* neighbours got, and the palette from its front.
Wishes(n) == problem.phys[n]
             \o [i \in DOMAIN problem.virt[n] |-> color[problem.virt[n][i]]]
             \o Palette

\* The first wish that is available.
FirstAvailable(wishes, available) ==
  wishes[CHOOSE i \in DOMAIN wishes :
           /\ wishes[i] \in available
           /\ \A j \in DOMAIN wishes : j < i => wishes[j] \notin available]

Top == stack[Len(stack)]

Pop == stack' = SubSeq(stack, 1, Len(stack) - 1)

Selecting == remaining = {} /\ stack # << >>

SelectColor ==
  /\ Selecting
  /\ Available(Top) # {}
  /\ color' = [color EXCEPT ![Top] = FirstAvailable(Wishes(Top), Available(Top))]
  /\ Pop
  /\ UNCHANGED <<problem, remaining, lowDegree, spills>>

SelectSpill ==
  /\ Selecting
  /\ Available(Top) = {}
  /\ spills' = spills \cup {Top}
  /\ Pop
  /\ UNCHANGED <<problem, remaining, lowDegree, color>>

Next == \/ SimplifyLowDegree \/ SimplifySpillCandidate
        \/ SelectColor \/ SelectSpill

Spec == Init /\ [][Next]_vars

Done == remaining = {} /\ stack = << >>

-----------------------------------------------------------------------------
(* Properties *)

\* Interfering virtual registers never share a physical one, and none gets a
\* register a call, a physical definition or an implicit use rules out.
ProperColoring ==
  \A a \in problem.nodes : color[a] # None =>
    /\ color[a] \in Colors \ problem.forbidden[a]
    /\ \A b \in problem.adj[a] : color[b] # color[a]

\* A node is spilled only when its colored neighbours and its forbidden registers
\* really use up the palette, also after everything else has been colored.
SpillJustified ==
  \A a \in spills : \A c \in Colors :
    c \in problem.forbidden[a] \/ \E b \in problem.adj[a] : color[b] = c

\* The simplification invariant: a node taken off the graph with fewer than k
\* neighbours left always finds a color, unless registers are forbidden to it.
LowDegreeColored ==
  \A a \in lowDegree : problem.forbidden[a] \cap Colors = {} => a \notin spills

\* At the end each node is colored or spilled, never both, and none is lost.
Partition ==
  Done => \A a \in problem.nodes : (color[a] = None) <=> a \in spills

=============================================================================
