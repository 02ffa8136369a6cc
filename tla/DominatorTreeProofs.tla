------------------------- MODULE DominatorTreeProofs -------------------------
(***************************************************************************)
(* Proofs about the construction of the dominator tree, for every control  *)
(* flow graph.                                                             *)
(***************************************************************************)
EXTENDS DominatorTree, FiniteSetTheorems, WellFoundedInduction, TLAPS

-----------------------------------------------------------------------------
(* The inductive invariant *)

On(s, b) == \E k \in DOMAIN s : s[k] = b
Injective(s) == \A j, k \in DOMAIN s : s[j] = s[k] => j = k

TypeOK ==
  /\ Root \in Block
  /\ phase \in {"dfs", "idom", "meet", "number", "done"}
  /\ stack \in Seq(Block) /\ postorder \in Seq(Block)
  /\ seen \subseteq Block
  /\ next \in Nat \ {0} /\ changed \in BOOLEAN /\ clock \in Nat
  /\ phase \in {"dfs", "idom", "meet"} => dom_post = << >>

\* A block finished after the k-th, or still on the stack.
Later(a, k) == On(stack, a) \/ \E j \in DOMAIN postorder : j > k /\ postorder[j] = a

\* The walk: the stack is a path from the entry, a block only leaves it before
\* the blocks on every path to it and before the one it was found from.
DfsOK ==
  phase = "dfs" =>
    /\ Injective(stack) /\ Injective(postorder)
    /\ \A b \in Block : ~ (On(stack, b) /\ On(postorder, b))
    /\ \A b \in Block : b \in seen <=> On(stack, b) \/ On(postorder, b)
    /\ seen \subseteq Reachable /\ Root \in seen
    /\ stack # <<>> => stack[1] = Root
    /\ \A k \in DOMAIN stack : k > 1 => stack[k] \in Successors(stack[k - 1])
    /\ \A k \in DOMAIN stack, a \in Block :
          (\A j \in 1 .. k : stack[j] # a) => stack[k] \in ReachableWithout(a)
    /\ \A k \in DOMAIN postorder :
          /\ Successors(postorder[k]) \subseteq seen
          /\ \A a \in Block \ {postorder[k]} : OnEveryPath(a, postorder[k]) => Later(a, k)
          /\ postorder[k] # Root => \E p \in Predecessors(postorder[k]) : Later(p, k)

\* Reverse postorder: every reachable block has its place, after those on
\* every path to it and after one of its predecessors.
Ordered ==
  /\ \A k \in DOMAIN rpo : rpo[k] \in Reachable /\ Index(rpo[k]) = k
  /\ \A b \in Reachable : Index(b) \in DOMAIN rpo /\ rpo[Index(b)] = b
  /\ \A b \in Reachable : \A a \in Block \ {b} : OnEveryPath(a, b) =>
        a \in Reachable /\ Index(a) < Index(b)
  /\ \A b \in Reachable \ {Root} : \E p \in Predecessors(b) \cap Reachable : Index(p) < Index(b)
OrderOK == phase # "dfs" => Ordered

\* x is p or one of its ancestors in the tree f.
Above(f, x, p) ==
  \A S \in SUBSET Block : p \in S /\ (\A c \in S \cap DOMAIN f : f[c] \in S) => x \in S

\* The candidate of a block is on the way to each of its predecessors.
Fits(b) == \A p \in Processed(b) : Above(work_idom, work_idom[b], p)

\* The candidates form a tree that never rises above the strict dominators.
SweepsOK ==
  phase \in {"idom", "meet"} =>
    /\ DOMAIN work_idom \subseteq Reachable /\ Root \in DOMAIN work_idom
    /\ \A b \in DOMAIN work_idom : work_idom[b] \in DOMAIN work_idom
    /\ work_idom[Root] = Root
    /\ \A b \in DOMAIN work_idom \ {Root} :
          /\ Index(work_idom[b]) < Index(b)
          /\ \A a \in Block \ {b} : OnEveryPath(a, b) => OnEveryPath(a, work_idom[b])
    /\ \A k \in DOMAIN rpo : k < next => rpo[k] \in DOMAIN work_idom
    /\ \A k \in DOMAIN rpo : k < next /\ ~ changed /\ rpo[k] # Root => Fits(rpo[k])

\* The fingers: every predecessor taken so far has one of them on its way up,
\* and neither has climbed past a strict dominator of the block.
MeetOK ==
  phase = "meet" =>
    /\ next \in DOMAIN rpo /\ rpo[next] # Root
    /\ waiting \subseteq Processed(rpo[next])
    /\ DOMAIN fingers = {1, 2}
    /\ \A k \in {1, 2} :
          /\ fingers[k] \in DOMAIN work_idom
          /\ \A a \in Block \ {rpo[next]} : OnEveryPath(a, rpo[next]) => OnEveryPath(a, fingers[k])
    /\ \A p \in Processed(rpo[next]) \ waiting : \E k \in {1, 2} : Above(work_idom, fingers[k], p)

\* The sweeps have found the tree.
TreeOK ==
  phase \in {"number", "done"} =>
    /\ DOMAIN idom = Reachable \ {Root}
    /\ \A b \in DOMAIN idom : /\ idom[b] \in Reachable /\ Index(idom[b]) < Index(b)
                              /\ Immediate(idom[b], b)

\* The walk of the tree: intervals nest as the tree does.
WalkOK ==
  phase \in {"number", "done"} =>
    /\ numbered \subseteq Reachable /\ Root \in numbered
    /\ DOMAIN dom_pre = numbered
    /\ \A b \in Block : b \in DOMAIN dom_post <=> b \in numbered /\ ~ On(stack, b)
    /\ DOMAIN dom_post \subseteq numbered
    /\ Injective(stack)
    /\ stack # <<>> => stack[1] = Root
    /\ \A k \in DOMAIN stack : /\ stack[k] \in numbered
                               /\ k > 1 => stack[k] \in DOMAIN idom /\ idom[stack[k]] = stack[k - 1]
    /\ \A j, k \in DOMAIN stack : j <= k => Above(idom, stack[j], stack[k])
    /\ \A b \in numbered : dom_pre[b] \in Nat /\ dom_pre[b] < clock
    /\ \A b \in DOMAIN dom_post : dom_post[b] \in Nat /\ dom_pre[b] < dom_post[b] /\ dom_post[b] < clock
    /\ \A a, b \in numbered : dom_pre[a] = dom_pre[b] => a = b
    /\ \A d \in DOMAIN idom :
          /\ d \in numbered => idom[d] \in numbered /\ dom_pre[idom[d]] < dom_pre[d]
          /\ idom[d] \in DOMAIN dom_post => d \in DOMAIN dom_post /\ dom_post[d] < dom_post[idom[d]]
    /\ \A a, b \in numbered :
          dom_pre[a] < dom_pre[b] => \/ Above(idom, a, b)
                                     \/ a \in DOMAIN dom_post /\ dom_post[a] < dom_pre[b]
    /\ phase = "done" => stack = <<>>

IInv == TypeOK /\ DfsOK /\ OrderOK /\ SweepsOK /\ MeetOK /\ TreeOK /\ WalkOK

-----------------------------------------------------------------------------
(* Sets of naturals, sequences *)

\* A nonempty set of naturals has a least member: the intervals 0 .. m, m in
\* the set, have a minimal one under inclusion.
LEMMA LeastMember ==
  ASSUME NEW T \in SUBSET Nat, T # {}
  PROVE  \E m \in T : \A n \in T : m <= n
<1>1. PICK t \in T : TRUE
  OBVIOUS
<1> DEFINE D == 0 .. t
           Below == {0 .. n : n \in {m \in T : m <= t}}
<1>2. IsFiniteSet(D)
  BY FS_Interval
<1>3. IsWellFoundedOn(StrictSubsetOrdering(D), SUBSET D)
  BY <1>2, FS_StrictSubsetOrderingWellFounded, FS_FiniteSubsetsOfFinite
<1>4. Below \subseteq SUBSET D /\ Below # {}
  BY <1>1
<1>5. PICK x \in Below : \A y \in Below : ~ (<<y, x>> \in StrictSubsetOrdering(D))
  <2> HIDE DEF Below, D
  <2> QED
    BY <1>3, <1>4, WFMin
<1>6. PICK m \in T : m <= t /\ x = 0 .. m
  OBVIOUS
<1>7. ASSUME NEW n \in T, n < m PROVE FALSE
  <2>1. 0 .. n \in Below
    BY <1>6, <1>7
  <2>2. 0 .. n \subseteq 0 .. m /\ m \in 0 .. m /\ m \notin 0 .. n
    BY <1>7
  <2>3. <<0 .. n, 0 .. m>> \in StrictSubsetOrdering(D)
    BY <2>1, <2>2, <1>4, <1>6 DEF StrictSubsetOrdering
  <2> QED
    BY <2>1, <2>3, <1>5, <1>6
<1> QED
  BY <1>7

LEMMA Pushed ==
  ASSUME NEW S, NEW s \in Seq(S), NEW x \in S
  PROVE  /\ Append(s, x) \in Seq(S) /\ Len(Append(s, x)) = Len(s) + 1 /\ Len(s) \in Nat
         /\ DOMAIN Append(s, x) = 1 .. Len(s) + 1 /\ DOMAIN s = 1 .. Len(s)
         /\ Append(s, x)[Len(s) + 1] = x
         /\ \A k \in 1 .. Len(s) : Append(s, x)[k] = s[k]
         /\ Append(s, x) # <<>>
OBVIOUS

LEMMA Popped ==
  ASSUME NEW S, NEW s \in Seq(S), s # <<>>
  PROVE  /\ Front(s) \in Seq(S) /\ DOMAIN Front(s) = 1 .. Len(s) - 1 /\ DOMAIN s = 1 .. Len(s)
         /\ \A k \in 1 .. Len(s) - 1 : Front(s)[k] = s[k]
         /\ Len(s) \in Nat \ {0} /\ Last(s) = s[Len(s)] /\ Last(s) \in S
<1> DEFINE m == Len(s) - 1
<1>1. m \in 0 .. Len(s) /\ Front(s) = SubSeq(s, 1, m)
  BY DEF Front
<1>2. Len(s) \in Nat \ {0} /\ DOMAIN s = 1 .. Len(s) /\ Last(s) = s[Len(s)] /\ s[Len(s)] \in S
  BY DEF Last
<1> HIDE DEF m
<1>3. SubSeq(s, 1, m) \in Seq(S) /\ DOMAIN SubSeq(s, 1, m) = 1 .. m
      /\ \A k \in 1 .. m : SubSeq(s, 1, m)[k] = s[k]
  BY <1>1
<1>4. Front(s) \in Seq(S) /\ DOMAIN Front(s) = 1 .. m /\ \A k \in 1 .. m : Front(s)[k] = s[k]
  BY <1>1, <1>3
<1> QED BY <1>2, <1>4 DEF m

LEMMA Reversed ==
  ASSUME NEW S, NEW s \in Seq(S)
  PROVE  /\ Reverse(s) \in Seq(S) /\ DOMAIN Reverse(s) = 1 .. Len(s) /\ DOMAIN s = 1 .. Len(s)
         /\ Len(Reverse(s)) = Len(s) /\ Len(s) \in Nat
         /\ \A k \in 1 .. Len(s) : Reverse(s)[k] = s[Len(s) - k + 1]
BY DEF Reverse

-----------------------------------------------------------------------------
(* Paths and dominance *)

LEMMA PathFacts ==
  ASSUME Root \in Block
  PROVE  /\ Root \in Reachable /\ Reachable \subseteq Block
         /\ \A b \in Reachable : Successors(b) \subseteq Reachable
         /\ \A a : a # Root => Root \in ReachableWithout(a)
         /\ \A a : a \notin ReachableWithout(a) /\ ReachableWithout(a) \subseteq Reachable
         /\ \A a : \A b \in ReachableWithout(a), c \in Block :
               c \in Successors(b) /\ c # a => c \in ReachableWithout(a)
<1>1. Root \in Reachable /\ Reachable \subseteq Block
  BY DEF Reachable
<1>2. ASSUME NEW b \in Reachable PROVE Successors(b) \subseteq Reachable
  BY <1>2 DEF Reachable, Successors
<1>3. \A a : a # Root => Root \in ReachableWithout(a)
  BY DEF ReachableWithout, ClosedWithout
<1>4. ASSUME NEW a PROVE a \notin ReachableWithout(a) /\ ReachableWithout(a) \subseteq Reachable
  <2>1. \A S \in SUBSET Block : Root \in S /\ (\A c \in S : Successors(c) \subseteq S) => ClosedWithout(S, a)
    BY DEF ClosedWithout
  <2> QED BY <2>1 DEF ReachableWithout, Reachable
<1>5. ASSUME NEW a, NEW b \in ReachableWithout(a), NEW c \in Block, c \in Successors(b), c # a
      PROVE  c \in ReachableWithout(a)
  <2>1. \A S \in SUBSET Block : ClosedWithout(S, a) => c \in S
    BY <1>5 DEF ReachableWithout, ClosedWithout
  <2> QED BY <2>1, <1>5 DEF ReachableWithout
<1> QED BY <1>1, <1>2, <1>3, <1>4, <1>5

LEMMA OnlyRoot ==
  ASSUME Root \in Block, NEW a, OnEveryPath(a, Root)
  PROVE  a = Root
BY PathFacts DEF OnEveryPath

\* What is on every path to a block is on every path to its predecessors.
LEMMA OnPathToPredecessor ==
  ASSUME Root \in Block, NEW b \in Block, NEW p \in Predecessors(b), NEW a \in Block \ {b},
         OnEveryPath(a, b)
  PROVE  OnEveryPath(a, p)
<1>1. b \in Successors(p) /\ p \in Block
  BY DEF Predecessors, Successors
<1> QED BY <1>1, PathFacts DEF OnEveryPath

LEMMA OnPathReachable ==
  ASSUME Root \in Block, NEW b \in Reachable, NEW a, OnEveryPath(a, b)
  PROVE  a \in Reachable
<1>1. SUFFICES ASSUME a \notin Reachable PROVE b \in ReachableWithout(a)
  BY <1>1 DEF OnEveryPath
<1>2. b # a /\ b \in Block
  BY <1>1, PathFacts
<1>3. ASSUME NEW S \in SUBSET Block, ClosedWithout(S, a) PROVE b \in S
  <2> DEFINE T == S \cap Reachable
  <2>1. Root \in T /\ \A c \in T : Successors(c) \subseteq T
    BY <1>1, <1>3, PathFacts DEF ClosedWithout
  <2>2. T \in SUBSET Block
    OBVIOUS
  <2>3. b \in T
    BY <2>1, <2>2 DEF Reachable
  <2> QED BY <2>3
<1> QED BY <1>2, <1>3 DEF ReachableWithout

LEMMA OnPathTransitive ==
  ASSUME Root \in Block, NEW a, NEW c, NEW b, OnEveryPath(a, c), OnEveryPath(c, b)
  PROVE  OnEveryPath(a, b)
<1>1. SUFFICES ASSUME a # c, c # b, a # b, b \in ReachableWithout(a) PROVE FALSE
  BY DEF OnEveryPath
<1>2. c \notin ReachableWithout(a) /\ b \notin ReachableWithout(c) /\ b \in Block
  BY <1>1, PathFacts DEF OnEveryPath
<1>3. ASSUME NEW S \in SUBSET Block, ClosedWithout(S, c) PROVE b \in S
  <2> DEFINE T == S \cap ReachableWithout(a)
  <2>1. T \in SUBSET Block
    OBVIOUS
  <2>2. Root \in T \cup {a}
    <3>1. CASE Root = a
      BY <3>1
    <3>2. CASE Root # a
      <4>1. Root \in ReachableWithout(a)
        BY <3>2, PathFacts
      <4> QED BY <4>1, <1>2, <1>3 DEF ClosedWithout
    <3> QED BY <3>1, <3>2
  <2>3. ASSUME NEW x \in T, NEW y \in Successors(x) PROVE y \in T \cup {a}
    <3>1. y \in Block
      BY DEF Successors
    <3>2. CASE y # a
      <4>1. y \in ReachableWithout(a)
        BY <3>1, <3>2, PathFacts
      <4> QED BY <4>1, <1>2, <1>3 DEF ClosedWithout
    <3> QED BY <3>2
  <2>4. ClosedWithout(T, a)
    BY <2>2, <2>3 DEF ClosedWithout
  <2> QED BY <1>1, <2>1, <2>4 DEF ReachableWithout
<1> QED BY <1>1, <1>2, <1>3 DEF ReachableWithout

-----------------------------------------------------------------------------
(* Ancestors in a tree of candidates *)

LEMMA AboveFacts ==
  ASSUME NEW f
  PROVE  /\ \A p : Above(f, p, p)
         /\ \A x, y, z : Above(f, x, y) /\ Above(f, y, z) => Above(f, x, z)
         /\ \A p \in DOMAIN f : Above(f, f[p], p)
BY DEF Above

\* An ancestor of p other than p is one of the block p hangs from.
LEMMA AboveStep ==
  ASSUME NEW f, NEW p \in Block, NEW x, Above(f, x, p), x # p
  PROVE  p \in DOMAIN f /\ Above(f, x, f[p])
<1>1. p \in DOMAIN f
  <2>1. ASSUME p \notin DOMAIN f PROVE FALSE
    <3>1. \A c \in {p} \cap DOMAIN f : f[c] \in {p}
      BY <2>1
    <3> QED BY <3>1 DEF Above
  <2> QED BY <2>1
<1>2. ASSUME NEW S \in SUBSET Block, f[p] \in S, \A c \in S \cap DOMAIN f : f[c] \in S
      PROVE  x \in S
  <2>1. S \cup {p} \in SUBSET Block /\ p \in S \cup {p}
    OBVIOUS
  <2>2. \A c \in (S \cup {p}) \cap DOMAIN f : f[c] \in S \cup {p}
    BY <1>2
  <2>3. x \in S \cup {p}
    BY <2>1, <2>2 DEF Above
  <2> QED BY <2>3
<1> QED BY <1>1, <1>2 DEF Above

-----------------------------------------------------------------------------
(* The order and the tree in it *)

\* What no later phase changes.
LEMMA SameGraph ==
  ASSUME UNCHANGED <<edges, dfsVars>>
  PROVE  /\ Reachable' = Reachable /\ rpo' = rpo /\ DOMAIN rpo' = DOMAIN rpo
         /\ \A b : Successors(b)' = Successors(b) /\ Predecessors(b)' = Predecessors(b)
         /\ \A b : Index(b)' = Index(b)
         /\ \A k : rpo'[k] = rpo[k]
         /\ \A a, b : OnEveryPath(a, b)' = OnEveryPath(a, b)
         /\ \A a, b : Immediate(a, b)' = Immediate(a, b)
BY DEF dfsVars, Reachable, rpo, Successors, Predecessors, Index, OnEveryPath, Immediate,
       ReachableWithout, ClosedWithout

LEMMA SameEdges ==
  ASSUME edges' = edges
  PROVE  /\ Reachable' = Reachable
         /\ \A b : Successors(b)' = Successors(b) /\ Predecessors(b)' = Predecessors(b)
         /\ \A a : ReachableWithout(a)' = ReachableWithout(a)
         /\ \A a, b : OnEveryPath(a, b)' = OnEveryPath(a, b)
BY DEF Reachable, Successors, Predecessors, OnEveryPath, ReachableWithout, ClosedWithout

LEMMA SequenceOfOrder ==
  ASSUME TypeOK
  PROVE  /\ Len(rpo) \in Nat /\ DOMAIN rpo = 1 .. Len(rpo) /\ rpo \in Seq(Block)
         /\ Len(rpo) = Len(postorder) /\ DOMAIN postorder = 1 .. Len(rpo)
         /\ \A k \in 1 .. Len(rpo) : rpo[k] = postorder[Len(rpo) - k + 1]
BY Reversed DEF TypeOK, rpo

LEMMA OrderNumbers ==
  ASSUME TypeOK, OrderOK, phase # "dfs"
  PROVE  \A b \in Reachable : Index(b) \in Nat
BY SequenceOfOrder DEF OrderOK, Ordered

\* In a tree whose edges lead to smaller numbers, so do all ancestors.
LEMMA AboveIsEarlier ==
  ASSUME TypeOK, OrderOK, phase # "dfs",
         NEW f, \A b \in DOMAIN f \cap Reachable :
                   f[b] \in Reachable /\ (f[b] = b \/ Index(f[b]) < Index(b)),
         NEW p \in Reachable, NEW x, Above(f, x, p)
  PROVE  x \in Reachable /\ Index(x) <= Index(p)
<1> DEFINE S == {c \in Reachable : Index(c) <= Index(p)}
<1>1. \A b \in Reachable : Index(b) \in Nat
  BY OrderNumbers
<1>2. S \in SUBSET Block /\ p \in S
  BY <1>1, PathFacts DEF TypeOK
<1>3. ASSUME NEW c \in S \cap DOMAIN f PROVE f[c] \in S
  <2>1. f[c] \in Reachable /\ (f[c] = c \/ Index(f[c]) < Index(c))
    OBVIOUS
  <2>2. Index(f[c]) \in Nat /\ Index(c) \in Nat /\ Index(p) \in Nat
    BY <1>1, <2>1
  <2> QED BY <2>1, <2>2
<1>4. x \in S
  BY <1>2, <1>3 DEF Above
<1> QED BY <1>4

\* What holds of the entry and, with a block, of its children, holds of all.
LEMMA TreeInduction ==
  ASSUME TypeOK, OrderOK, TreeOK, phase \in {"number", "done"},
         NEW T, Root \in T, \A b \in DOMAIN idom : idom[b] \in T => b \in T
  PROVE  Reachable \subseteq T
<1> DEFINE Missing == {Index(b) : b \in Reachable \ T}
<1>1. SUFFICES ASSUME NEW b \in Reachable, b \notin T PROVE FALSE
  OBVIOUS
<1>2. \A c \in Reachable : Index(c) \in Nat
  BY OrderNumbers
<1>3. Missing \in SUBSET Nat /\ Missing # {}
  BY <1>1, <1>2
<1>4. PICK m \in Missing : \A n \in Missing : m <= n
  BY <1>3, LeastMember
<1>5. PICK c \in Reachable \ T : Index(c) = m
  BY <1>4
<1>6. c \in DOMAIN idom /\ idom[c] \in Reachable /\ Index(idom[c]) < Index(c)
  BY <1>5 DEF TreeOK
<1>7. idom[c] \notin T
  BY <1>5, <1>6
<1>8. Index(idom[c]) \in Missing
  BY <1>6, <1>7
<1> QED BY <1>2, <1>4, <1>5, <1>6, <1>8

-----------------------------------------------------------------------------
(* The depth-first walk *)

LEMMA InitOK ==
  ASSUME Root \in Block, Begin
  PROVE  IInv
<1>1. /\ stack = <<Root>> /\ seen = {Root} /\ postorder = <<>> /\ phase = "dfs"
      /\ stack \in Seq(Block) /\ DOMAIN stack = {1} /\ stack[1] = Root
      /\ postorder \in Seq(Block) /\ DOMAIN postorder = {}
  BY DEF Begin
<1>2. TypeOK
  <2>1. next \in Nat \ {0} /\ clock \in Nat
    BY DEF Begin
  <2>2. changed \in BOOLEAN
    BY DEF Begin
  <2> QED BY <1>1, <2>1, <2>2 DEF Begin, TypeOK
<1>3. DfsOK
  <2>1. \A b : (On(stack, b) <=> b = Root) /\ ~ On(postorder, b)
    BY <1>1 DEF On
  <2>2. Injective(stack) /\ Injective(postorder)
    BY <1>1 DEF Injective
  <2>3. Root \in Reachable
    BY PathFacts
  <2>4. \A k \in DOMAIN stack, a \in Block :
          (\A j \in 1 .. k : stack[j] # a) => stack[k] \in ReachableWithout(a)
    <3>1. ASSUME NEW a \in Block, \A j \in 1 .. 1 : stack[j] # a PROVE Root \in ReachableWithout(a)
      <4>1. a # Root
        BY <1>1, <3>1
      <4> QED BY <4>1, PathFacts
    <3> QED BY <1>1, <3>1
  <2> QED BY <1>1, <2>1, <2>2, <2>3, <2>4 DEF DfsOK
<1> QED BY <1>1, <1>2, <1>3 DEF IInv, OrderOK, SweepsOK, MeetOK, TreeOK, WalkOK

LEMMA DfsEnterKeeps ==
  ASSUME IInv, NEW b \in Block, DfsEnter(b)
  PROVE  IInv'
<1> DEFINE n == Len(stack)
           t == stack[n]
<1>0. TypeOK /\ DfsOK /\ phase = "dfs" /\ stack # <<>> /\ stack \in Seq(Block)
  BY DEF IInv, TypeOK, DfsEnter
<1>1. /\ n \in Nat \ {0} /\ DOMAIN stack = 1 .. n /\ t \in Block /\ Top = t
      /\ stack' = Append(stack, b) /\ stack' \in Seq(Block)
      /\ DOMAIN stack' = 1 .. n + 1 /\ stack'[n + 1] = b
      /\ \A k \in 1 .. n : stack'[k] = stack[k]
      /\ stack' # <<>>
  <2>1. stack' = Append(stack, b)
    BY DEF DfsEnter
  <2>2. /\ Append(stack, b) \in Seq(Block) /\ n \in Nat /\ DOMAIN Append(stack, b) = 1 .. n + 1
        /\ Append(stack, b)[n + 1] = b /\ \A k \in 1 .. n : Append(stack, b)[k] = stack[k]
        /\ Append(stack, b) # <<>> /\ DOMAIN stack = 1 .. n
    BY <1>0, Pushed
  <2>3. n \in Nat \ {0} /\ t \in Block /\ Top = t
    BY <1>0, Popped DEF Top
  <2> QED BY <2>1, <2>2, <2>3
<1>2. /\ phase' = "dfs" /\ seen' = seen \cup {b} /\ postorder' = postorder /\ edges' = edges
      /\ b \in Successors(t) /\ b \notin seen
      /\ next' = next /\ changed' = changed /\ clock' = clock /\ dom_post' = dom_post
  BY <1>0, <1>1 DEF DfsEnter, meetVars, numberVars
<1> HIDE DEF n, t
<1>3. TypeOK'
  BY <1>0, <1>1, <1>2 DEF TypeOK
<1>4. /\ \A c : On(stack, c)' <=> On(stack, c) \/ c = b
      /\ \A c : On(postorder, c)' <=> On(postorder, c)
  BY <1>1, <1>2 DEF On
<1>5. ~ On(stack, b) /\ ~ On(postorder, b)
  BY <1>0, <1>2 DEF DfsOK
<1>6. Injective(stack)' /\ Injective(postorder)'
  <2>1. \A k \in 1 .. n : stack[k] # b
    BY <1>1, <1>5 DEF On
  <2>2. \A j, k \in 1 .. n : stack[j] = stack[k] => j = k
    BY <1>0, <1>1 DEF DfsOK, Injective
  <2>3. Injective(stack)'
    <3>1. \A j, k \in 1 .. n + 1 : stack'[j] = stack'[k] => j = k
      BY <1>1, <2>1, <2>2
    <3> QED BY <1>1, <3>1 DEF Injective
  <2> QED BY <1>0, <1>2, <2>3 DEF DfsOK, Injective
<1>7. /\ Reachable' = Reachable
      /\ \A c : Successors(c)' = Successors(c) /\ Predecessors(c)' = Predecessors(c)
      /\ \A a : ReachableWithout(a)' = ReachableWithout(a)
      /\ \A a, c : OnEveryPath(a, c)' = OnEveryPath(a, c)
  BY <1>2, SameEdges
<1>8. t \in Reachable /\ b \in Reachable
  <2>1. On(stack, t)
    BY <1>1 DEF On, t
  <2>2. t \in seen
    BY <1>0, <1>1, <2>1 DEF DfsOK
  <2>3. t \in Reachable
    BY <1>0, <2>2 DEF DfsOK
  <2> QED BY <1>0, <1>2, <2>3, PathFacts DEF TypeOK
<1>9. \A k \in DOMAIN stack', a \in Block :
         (\A j \in 1 .. k : stack'[j] # a) => stack'[k] \in ReachableWithout(a)
  <2>1. ASSUME NEW k \in 1 .. n, NEW a \in Block, \A j \in 1 .. k : stack'[j] # a
        PROVE  stack'[k] \in ReachableWithout(a)
    <3>1. \A j \in 1 .. k : stack[j] # a
      BY <1>1, <2>1
    <3> QED BY <1>0, <1>1, <3>1 DEF DfsOK
  <2>2. ASSUME NEW a \in Block, \A j \in 1 .. n + 1 : stack'[j] # a
        PROVE  b \in ReachableWithout(a)
    <3>1. t \in ReachableWithout(a)
      <4>1. \A j \in 1 .. n : stack'[j] # a
        BY <1>1, <2>2
      <4>2. n \in 1 .. n /\ stack'[n] = t
        BY <1>1 DEF t
      <4> QED BY <2>1, <4>1, <4>2
    <3>2. b # a
      BY <1>1, <2>2
    <3> QED BY <1>0, <1>2, <3>1, <3>2, PathFacts DEF TypeOK
  <2> QED BY <1>1, <2>1, <2>2
<1>10. \A k \in DOMAIN stack' : k > 1 => stack'[k] \in Successors(stack'[k - 1])
  <2>1. ASSUME NEW k \in 1 .. n + 1, k > 1 PROVE stack'[k] \in Successors(stack'[k - 1])
    <3>1. CASE k = n + 1
      <4>1. stack'[k] = b /\ stack'[k - 1] = t
        BY <1>1, <3>1 DEF t
      <4> QED BY <1>2, <4>1
    <3>2. CASE k # n + 1
      <4>1. k \in 1 .. n /\ k - 1 \in 1 .. n
        BY <1>1, <2>1, <3>2
      <4>2. stack'[k] = stack[k] /\ stack'[k - 1] = stack[k - 1]
        BY <1>1, <4>1
      <4>3. stack[k] \in Successors(stack[k - 1])
        BY <1>0, <1>1, <2>1, <4>1 DEF DfsOK
      <4> QED BY <4>2, <4>3
    <3> QED BY <3>1, <3>2
  <2> QED BY <1>1, <2>1
<1>11. \A k \in DOMAIN postorder :
          /\ Successors(postorder[k]) \subseteq seen'
          /\ \A a \in Block \ {postorder[k]} : OnEveryPath(a, postorder[k]) => Later(a, k)'
          /\ postorder[k] # Root => \E p \in Predecessors(postorder[k]) : Later(p, k)'
  <2>1. \A a, k : Later(a, k) => Later(a, k)'
    BY <1>2, <1>4 DEF Later
  <2> QED BY <1>0, <1>2, <2>1 DEF DfsOK
<1>12. DfsOK'
  <2>1. \A c \in Block : ~ (On(stack, c)' /\ On(postorder, c)')
    BY <1>0, <1>4, <1>5 DEF DfsOK
  <2>2. \A c \in Block : c \in seen' <=> On(stack, c)' \/ On(postorder, c)'
    BY <1>0, <1>2, <1>4 DEF DfsOK
  <2>3. seen' \subseteq Reachable /\ Root \in seen'
    BY <1>0, <1>2, <1>8 DEF DfsOK
  <2>4. stack'[1] = Root
    BY <1>0, <1>1 DEF DfsOK
  <2> QED BY <1>2, <1>6, <1>7, <1>9, <1>10, <1>11, <2>1, <2>2, <2>3, <2>4 DEF DfsOK
<1> QED
  <2>1. \A x : TypeOK' /\ DfsOK' /\ phase' = "dfs" => IInv'
    BY DEF IInv, OrderOK, SweepsOK, MeetOK, TreeOK, WalkOK
  <2> QED BY <1>2, <1>3, <1>12, <2>1

LEMMA DfsLeaveKeeps ==
  ASSUME IInv, DfsLeave
  PROVE  IInv'
<1>a. PICK n, m, t : n = Len(stack) /\ m = Len(postorder) /\ t = stack[n]
  OBVIOUS
<1>0. TypeOK /\ DfsOK /\ phase = "dfs" /\ stack # <<>> /\ stack \in Seq(Block) /\ postorder \in Seq(Block)
  BY DEF IInv, TypeOK, DfsLeave
<1>1. /\ n \in Nat \ {0} /\ DOMAIN stack = 1 .. n /\ t \in Block /\ Top = t
      /\ stack' \in Seq(Block) /\ DOMAIN stack' = 1 .. n - 1
      /\ \A k \in 1 .. n - 1 : stack'[k] = stack[k]
  <2>1. stack' = Front(stack)
    BY DEF DfsLeave
  <2>2. /\ Front(stack) \in Seq(Block) /\ n \in Nat \ {0} /\ DOMAIN Front(stack) = 1 .. n - 1
        /\ \A k \in 1 .. n - 1 : Front(stack)[k] = stack[k]
        /\ DOMAIN stack = 1 .. n /\ t \in Block /\ Top = t
    BY <1>0, <1>a, Popped DEF Top
  <2> QED BY <2>1, <2>2
<1>2. /\ m \in Nat /\ DOMAIN postorder = 1 .. m
      /\ postorder' \in Seq(Block) /\ DOMAIN postorder' = 1 .. m + 1 /\ postorder'[m + 1] = t
      /\ \A k \in 1 .. m : postorder'[k] = postorder[k]
  <2>1. postorder' = Append(postorder, t)
    BY <1>1 DEF DfsLeave
  <2>2. /\ Append(postorder, t) \in Seq(Block) /\ m \in Nat /\ DOMAIN Append(postorder, t) = 1 .. m + 1
        /\ Append(postorder, t)[m + 1] = t
        /\ \A k \in 1 .. m : Append(postorder, t)[k] = postorder[k]
        /\ DOMAIN postorder = 1 .. m
    BY <1>0, <1>a, <1>1, Pushed
  <2> QED BY <2>1, <2>2
<1>3. /\ phase' = "dfs" /\ seen' = seen /\ edges' = edges
      /\ Successors(t) \subseteq seen
      /\ next' = next /\ changed' = changed /\ clock' = clock /\ dom_post' = dom_post
  BY <1>0, <1>1 DEF DfsLeave, meetVars, numberVars
<1>4. TypeOK'
  BY <1>0, <1>1, <1>2, <1>3 DEF TypeOK
<1>5. Injective(stack) /\ Injective(postorder) /\ On(stack, t) /\ ~ On(postorder, t) /\ t \in seen
  <2>1. On(stack, t)
    BY <1>a, <1>1 DEF On
  <2> QED BY <1>0, <1>1, <2>1 DEF DfsOK
<1>6. \A c : On(stack, c)' <=> On(stack, c) /\ c # t
  <2>1. \A k \in 1 .. n - 1 : stack[k] # t /\ k \in 1 .. n
    BY <1>1, <1>a, <1>5 DEF Injective
  <2>2. \A k \in 1 .. n : stack[k] # t => k \in 1 .. n - 1
    BY <1>a, <1>1
  <2>3. ASSUME NEW c, On(stack, c)' PROVE On(stack, c) /\ c # t
    BY <1>1, <2>1, <2>3 DEF On
  <2>4. ASSUME NEW c, On(stack, c), c # t PROVE On(stack, c)'
    BY <1>1, <2>2, <2>4 DEF On
  <2> QED BY <2>3, <2>4
<1>7. \A c : On(postorder, c)' <=> On(postorder, c) \/ c = t
  BY <1>2 DEF On
<1>8. Injective(stack)'
  BY <1>1, <1>5 DEF Injective
<1>9. Injective(postorder)'
  <2>1. \A k \in 1 .. m : postorder[k] # t
    BY <1>2, <1>5 DEF On
  <2>2. \A j, k \in 1 .. m : postorder[j] = postorder[k] => j = k
    BY <1>2, <1>5 DEF Injective
  <2>3. \A j, k \in 1 .. m + 1 : postorder'[j] = postorder'[k] => j = k
    BY <1>2, <2>1, <2>2
  <2> QED BY <1>2, <2>3 DEF Injective
<1>10. /\ Reachable' = Reachable
       /\ \A c : Successors(c)' = Successors(c) /\ Predecessors(c)' = Predecessors(c)
       /\ \A a : ReachableWithout(a)' = ReachableWithout(a)
       /\ \A a, c : OnEveryPath(a, c)' = OnEveryPath(a, c)
  BY <1>3, SameEdges
<1>11. \A k \in 1 .. m : \A a : Later(a, k) => Later(a, k)'
  <2>1. ASSUME NEW k \in 1 .. m, NEW a, On(stack, a) PROVE Later(a, k)'
    <3>1. CASE a = t
      <4>1. m + 1 \in DOMAIN postorder' /\ m + 1 > k /\ postorder'[m + 1] = a
        BY <1>2, <3>1
      <4> QED BY <4>1 DEF Later
    <3>2. CASE a # t
      BY <1>6, <2>1, <3>2 DEF Later
    <3> QED BY <3>1, <3>2
  <2>2. ASSUME NEW k \in 1 .. m, NEW a, NEW j \in 1 .. m, j > k, postorder[j] = a PROVE Later(a, k)'
    <3>1. j \in DOMAIN postorder' /\ j > k /\ postorder'[j] = a
      BY <1>2, <2>2
    <3> QED BY <3>1 DEF Later
  <2> QED BY <1>2, <2>1, <2>2 DEF Later
<1>12. ASSUME NEW a \in Block \ {t}, OnEveryPath(a, t) PROVE Later(a, m + 1)'
  <2>1. On(stack, a)
    <3>1. SUFFICES ASSUME ~ On(stack, a) PROVE FALSE
      OBVIOUS
    <3>2. n \in DOMAIN stack /\ \A j \in 1 .. n : stack[j] # a
      BY <1>1, <3>1 DEF On
    <3>3. stack[n] \in ReachableWithout(a)
      BY <1>0, <3>2 DEF DfsOK
    <3> QED BY <1>12, <1>a, <3>3 DEF OnEveryPath
  <2> QED BY <1>6, <2>1 DEF Later
<1>13. t # Root => \E p \in Predecessors(t) : Later(p, m + 1)'
  <2>1. SUFFICES ASSUME t # Root PROVE \E p \in Predecessors(t) : Later(p, m + 1)'
    OBVIOUS
  <2>2. n > 1
    BY <1>0, <1>1, <1>a, <2>1 DEF DfsOK
  <2>3. n - 1 \in 1 .. n - 1 /\ n - 1 \in DOMAIN stack /\ n \in DOMAIN stack
    BY <1>1, <2>2
  <2>4. t \in Successors(stack[n - 1])
    BY <1>0, <2>2, <1>a, <2>3 DEF DfsOK
  <2>5. stack[n - 1] \in Block
    BY <1>0, <2>3
  <2>6. stack[n - 1] \in Predecessors(t)
    BY <2>4, <2>5 DEF Successors, Predecessors
  <2>7. PICK p : p = stack[n - 1]
    OBVIOUS
  <2>8. On(stack, p)'
    BY <1>1, <2>3, <2>7 DEF On
  <2>9. Later(p, m + 1)'
    BY <2>8 DEF Later
  <2> QED BY <2>6, <2>7, <2>9
<1>14. \A k \in DOMAIN postorder' :
          /\ Successors(postorder'[k]) \subseteq seen
          /\ \A a \in Block \ {postorder'[k]} : OnEveryPath(a, postorder'[k]) => Later(a, k)'
          /\ postorder'[k] # Root => \E p \in Predecessors(postorder'[k]) : Later(p, k)'
  <2>1. ASSUME NEW k \in 1 .. m
        PROVE /\ Successors(postorder'[k]) \subseteq seen
              /\ \A a \in Block \ {postorder'[k]} : OnEveryPath(a, postorder'[k]) => Later(a, k)'
              /\ postorder'[k] # Root => \E p \in Predecessors(postorder'[k]) : Later(p, k)'
    BY <1>0, <1>2, <1>11 DEF DfsOK
  <2> QED BY <1>2, <1>3, <1>12, <1>13, <2>1
<1>15. \A k \in DOMAIN stack', a \in Block :
          (\A j \in 1 .. k : stack'[j] # a) => stack'[k] \in ReachableWithout(a)
  BY <1>0, <1>1 DEF DfsOK
<1>16. \A k \in DOMAIN stack' : k > 1 => stack'[k] \in Successors(stack'[k - 1])
  <2>1. ASSUME NEW k \in 1 .. n - 1, k > 1 PROVE stack'[k] \in Successors(stack'[k - 1])
    <3>1. k \in 1 .. n /\ k - 1 \in 1 .. n - 1
      BY <1>1, <2>1
    <3>2. stack'[k] = stack[k] /\ stack'[k - 1] = stack[k - 1]
      BY <1>1, <3>1
    <3> QED BY <1>0, <1>1, <2>1, <3>1, <3>2 DEF DfsOK
  <2> QED BY <1>1, <2>1
<1>17. stack' # <<>> => stack'[1] = Root
  <2>1. stack' # <<>> => 1 \in 1 .. n - 1
    BY <1>1
  <2> QED BY <1>0, <1>1, <2>1 DEF DfsOK
<1>18. DfsOK'
  <2>1. \A c \in Block : ~ (On(stack, c)' /\ On(postorder, c)')
    BY <1>0, <1>6, <1>7 DEF DfsOK
  <2>2. \A c \in Block : c \in seen' <=> On(stack, c)' \/ On(postorder, c)'
    BY <1>0, <1>3, <1>5, <1>6, <1>7 DEF DfsOK
  <2>3. seen' \subseteq Reachable /\ Root \in seen'
    BY <1>0, <1>3 DEF DfsOK
  <2> QED BY <1>3, <1>8, <1>9, <1>10, <1>14, <1>15, <1>16, <1>17, <2>1, <2>2, <2>3 DEF DfsOK
<1> QED BY <1>3, <1>4, <1>18 DEF IInv, OrderOK, SweepsOK, MeetOK, TreeOK, WalkOK

-----------------------------------------------------------------------------
(* From the walk to the sweeps *)

LEMMA WalkEndsOrdered ==
  ASSUME TypeOK, DfsOK, phase = "dfs", stack = <<>>
  PROVE  Ordered
<1>a. PICK m : m = Len(postorder)
  OBVIOUS
<1>1. /\ m \in Nat /\ DOMAIN postorder = 1 .. m /\ DOMAIN rpo = 1 .. m
      /\ \A k \in 1 .. m : rpo[k] = postorder[m - k + 1] /\ m - k + 1 \in 1 .. m
      /\ \A k \in 1 .. m : postorder[k] = rpo[m - k + 1]
  BY <1>a, SequenceOfOrder
<1>2. \A b : ~ On(stack, b)
  BY DEF On
<1>3. \A j, k \in 1 .. m : postorder[j] = postorder[k] => j = k
  BY <1>1 DEF DfsOK, Injective
<1>4. ASSUME NEW k \in 1 .. m PROVE Index(rpo[k]) = k
  <2>1. \A j \in 1 .. m : rpo[j] = rpo[k] => j = k
    <3>1. ASSUME NEW j \in 1 .. m, rpo[j] = rpo[k] PROVE j = k
      <4>1. m - j + 1 = m - k + 1
        BY <1>1, <1>3, <3>1
      <4> QED BY <1>1, <4>1
    <3> QED BY <3>1
  <2> QED BY <1>1, <2>1 DEF Index
<1>5. Reachable \subseteq seen
  <2>1. \A c \in seen : Successors(c) \subseteq seen
    <3>1. ASSUME NEW c \in seen PROVE Successors(c) \subseteq seen
      <4>1. PICK k \in 1 .. m : postorder[k] = c
        BY <1>1, <1>2 DEF TypeOK, DfsOK, On
      <4> QED BY <1>1, <4>1 DEF DfsOK
    <3> QED BY <3>1
  <2>2. seen \in SUBSET Block /\ Root \in seen
    BY DEF TypeOK, DfsOK
  <2> QED BY <2>1, <2>2 DEF Reachable
<1>6. ASSUME NEW b \in Reachable PROVE Index(b) \in 1 .. m /\ rpo[Index(b)] = b
  <2>1. PICK k \in 1 .. m : postorder[k] = b
    BY <1>1, <1>2, <1>5 DEF TypeOK, DfsOK, On
  <2>2. m - k + 1 \in 1 .. m /\ rpo[m - k + 1] = b
    BY <1>1, <2>1
  <2>3. Index(b) = m - k + 1
    BY <1>4, <2>2
  <2> QED BY <2>2, <2>3
<1>7. \A k \in 1 .. m : rpo[k] \in Reachable
  <2>1. ASSUME NEW k \in 1 .. m PROVE postorder[k] \in Reachable
    <3>1. On(postorder, postorder[k]) /\ postorder[k] \in Block
      BY <1>1 DEF TypeOK, On
    <3> QED BY <3>1 DEF DfsOK
  <2> QED BY <1>1, <2>1
\* What was finished later comes earlier.
<1>8. ASSUME NEW b \in Reachable, NEW a, Later(a, m - Index(b) + 1)
      PROVE  a \in Reachable /\ Index(a) < Index(b)
  <2>1. PICK j \in 1 .. m : j > m - Index(b) + 1 /\ postorder[j] = a
    BY <1>1, <1>2, <1>8 DEF Later
  <2>2. m - j + 1 \in 1 .. m /\ rpo[m - j + 1] = a
    BY <1>1, <2>1
  <2>3. Index(a) = m - j + 1 /\ a \in Reachable
    BY <1>4, <1>7, <2>2
  <2>4. Index(b) \in 1 .. m
    BY <1>6
  <2> QED BY <1>1, <2>1, <2>3, <2>4
<1>9. ASSUME NEW b \in Reachable
      PROVE  m - Index(b) + 1 \in DOMAIN postorder /\ postorder[m - Index(b) + 1] = b
  BY <1>1, <1>6
<1>10. ASSUME NEW b \in Reachable, NEW a \in Block \ {b}, OnEveryPath(a, b)
       PROVE  a \in Reachable /\ Index(a) < Index(b)
  <2>1. Later(a, m - Index(b) + 1)
    BY <1>9, <1>10 DEF DfsOK
  <2> QED BY <1>8, <2>1
<1>11. ASSUME NEW b \in Reachable \ {Root}
       PROVE  \E p \in Predecessors(b) \cap Reachable : Index(p) < Index(b)
  <2>1. PICK p \in Predecessors(b) : Later(p, m - Index(b) + 1)
    BY <1>9 DEF DfsOK
  <2> QED BY <1>8, <2>1
<1> QED BY <1>1, <1>4, <1>6, <1>7, <1>10, <1>11 DEF Ordered

LEMMA SameOrdered ==
  ASSUME UNCHANGED <<edges, dfsVars>>, Ordered
  PROVE  Ordered'
BY SameGraph DEF Ordered

LEMMA StartSweepsKeeps ==
  ASSUME IInv, StartSweeps
  PROVE  IInv'
<1>0. TypeOK /\ DfsOK /\ phase = "dfs" /\ stack = <<>>
  BY DEF IInv, StartSweeps
<1>1. /\ phase' = "idom" /\ work_idom' = [b \in {Root} |-> Root] /\ next' = 1 /\ changed' = FALSE
      /\ edges' = edges /\ stack' = stack /\ seen' = seen /\ postorder' = postorder
      /\ clock' = clock /\ dom_post' = dom_post
      /\ UNCHANGED <<edges, dfsVars>>
  BY DEF StartSweeps, dfsVars, numberVars
<1>2. TypeOK'
  <2>1. changed' \in BOOLEAN
    BY <1>1
  <2> QED BY <1>0, <1>1, <2>1 DEF TypeOK
<1>3. Ordered'
  BY <1>0, <1>1, WalkEndsOrdered, SameOrdered
<1>4. /\ DOMAIN work_idom' = {Root} /\ work_idom'[Root] = Root
  BY <1>1
<1>5. DOMAIN work_idom' \subseteq Reachable'
  BY <1>0, <1>1, <1>4, SameGraph, PathFacts DEF TypeOK
<1>6. \A k \in DOMAIN rpo' : ~ (k < next')
  BY <1>0, <1>1, SameGraph, SequenceOfOrder
<1>7. SweepsOK'
  BY <1>4, <1>5, <1>6 DEF SweepsOK
<1> QED BY <1>1, <1>2, <1>3, <1>7 DEF IInv, DfsOK, OrderOK, MeetOK, TreeOK, WalkOK

-----------------------------------------------------------------------------
(* The sweeps *)

Sweeping == phase \in {"idom", "meet"}

LEMMA SweepFacts ==
  ASSUME IInv, Sweeping
  PROVE  /\ TypeOK /\ Ordered /\ OrderOK /\ phase # "dfs"
         /\ Reachable \subseteq Block /\ Root \in Reachable
         /\ DOMAIN work_idom \subseteq Reachable /\ Root \in DOMAIN work_idom
         /\ \A b \in DOMAIN work_idom : work_idom[b] \in DOMAIN work_idom
         /\ work_idom[Root] = Root
         /\ \A b \in DOMAIN work_idom \ {Root} :
               /\ Index(work_idom[b]) < Index(b)
               /\ \A a \in Block \ {b} : OnEveryPath(a, b) => OnEveryPath(a, work_idom[b])
         /\ \A k \in DOMAIN rpo : k < next => rpo[k] \in DOMAIN work_idom
         /\ \A k \in DOMAIN rpo : k < next /\ ~ changed /\ rpo[k] # Root => Fits(rpo[k])
         /\ DOMAIN rpo = 1 .. Len(rpo) /\ Len(rpo) \in Nat /\ next \in Nat \ {0}
         /\ \A b \in Reachable : Index(b) \in Nat
BY PathFacts, SequenceOfOrder, OrderNumbers DEF IInv, TypeOK, OrderOK, SweepsOK, Sweeping

LEMMA CandidatesAreEarlier ==
  ASSUME IInv, Sweeping, NEW p \in DOMAIN work_idom, NEW x, Above(work_idom, x, p)
  PROVE  x \in Reachable /\ Index(x) <= Index(p)
<1>1. \A b \in DOMAIN work_idom \cap Reachable :
         work_idom[b] \in Reachable /\ (work_idom[b] = b \/ Index(work_idom[b]) < Index(b))
  BY SweepFacts
<1>2. TypeOK /\ OrderOK /\ phase # "dfs" /\ p \in Reachable
  BY SweepFacts
<1> QED BY <1>1, <1>2, AboveIsEarlier

\* A step of a sweep that leaves the candidates alone.
LEMMA StillSweeping ==
  ASSUME IInv, Sweeping, Sweeping', UNCHANGED <<edges, dfsVars>>, work_idom' = work_idom,
         next' \in Nat \ {0}, changed' \in BOOLEAN, clock' = clock, dom_post' = dom_post,
         \A k \in DOMAIN rpo : k < next' => rpo[k] \in DOMAIN work_idom,
         \A k \in DOMAIN rpo : k < next' /\ ~ changed' /\ rpo[k] # Root => Fits(rpo[k]),
         MeetOK'
  PROVE  IInv'
<1>0. /\ TypeOK /\ Ordered /\ phase # "dfs"
      /\ stack' = stack /\ seen' = seen /\ postorder' = postorder /\ edges' = edges
  BY SweepFacts DEF dfsVars
<1>1. TypeOK'
  BY <1>0 DEF TypeOK, Sweeping
<1>2. Ordered'
  BY <1>0, SameOrdered
<1>3. /\ Reachable' = Reachable /\ rpo' = rpo /\ DOMAIN rpo' = DOMAIN rpo
      /\ \A b : Index(b)' = Index(b)
      /\ \A k : rpo'[k] = rpo[k]
      /\ \A a, b : OnEveryPath(a, b)' = OnEveryPath(a, b)
      /\ \A b : Predecessors(b)' = Predecessors(b)
  BY SameGraph
<1>4. \A b : Fits(b)' = Fits(b)
  BY <1>3 DEF Fits, Processed
<1>5. SweepsOK'
  <2>1. \A k \in DOMAIN rpo' : k < next' => rpo'[k] \in DOMAIN work_idom'
    BY <1>3
  <2>2. ASSUME NEW k \in DOMAIN rpo', k < next' /\ ~ changed' /\ rpo'[k] # Root PROVE Fits(rpo[k])'
    <3>1. PICK b : b = rpo[k]
      OBVIOUS
    <3>2. Fits(b)
      BY <1>3, <2>2, <3>1
    <3> QED BY <1>3, <1>4, <3>1, <3>2
  <2>3. /\ DOMAIN work_idom' \subseteq Reachable' /\ Root \in DOMAIN work_idom'
        /\ \A b \in DOMAIN work_idom' : work_idom'[b] \in DOMAIN work_idom'
        /\ work_idom'[Root] = Root
    BY <1>3, SweepFacts
  <2>4. ASSUME NEW b \in DOMAIN work_idom' \ {Root}
        PROVE  /\ (Index(work_idom[b]) < Index(b))'
               /\ \A a \in Block \ {b} : OnEveryPath(a, b)' => OnEveryPath(a, work_idom[b])'
    <3>1. PICK z : z = work_idom[b]
      OBVIOUS
    <3>2. b \in DOMAIN work_idom \ {Root} /\ z = work_idom'[b]
      BY <3>1
    <3>3. Index(z) < Index(b) /\ \A a \in Block \ {b} : OnEveryPath(a, b) => OnEveryPath(a, z)
      BY <3>1, <3>2, SweepFacts
    <3>4. (Index(z) < Index(b))' /\ \A a \in Block \ {b} : OnEveryPath(a, b)' => OnEveryPath(a, z)'
      BY <1>3, <3>3
    <3> QED BY <3>2, <3>4
  <2> QED BY <2>1, <2>2, <2>3, <2>4 DEF SweepsOK
<1> QED BY <1>1, <1>2, <1>5 DEF IInv, Sweeping, DfsOK, OrderOK, TreeOK, WalkOK

\* The block in turn has a predecessor with a candidate.
LEMMA InTurn ==
  ASSUME IInv, Sweeping, next <= Len(rpo)
  PROVE  /\ next \in DOMAIN rpo /\ rpo[next] \in Reachable /\ rpo[next] \in Block
         /\ Index(rpo[next]) = next
         /\ rpo[next] # Root => \E p \in Processed(rpo[next]) : Index(p) < next
<1>1. next \in DOMAIN rpo /\ rpo[next] \in Reachable /\ Index(rpo[next]) = next
  BY SweepFacts DEF Ordered
<1>2. ASSUME rpo[next] # Root PROVE \E p \in Processed(rpo[next]) : Index(p) < next
  <2>1. PICK p \in Predecessors(rpo[next]) \cap Reachable : Index(p) < Index(rpo[next])
    BY <1>1, <1>2, SweepFacts DEF Ordered
  <2>2. Index(p) \in DOMAIN rpo /\ rpo[Index(p)] = p /\ Index(p) < next
    BY <1>1, <2>1, SweepFacts DEF Ordered
  <2>3. p \in DOMAIN work_idom
    BY <2>2, SweepFacts
  <2> QED BY <2>1, <2>2, <2>3 DEF Processed
<1> QED BY <1>1, <1>2, SweepFacts

LEMMA SkipBlockKeeps ==
  ASSUME IInv, SkipBlock
  PROVE  IInv'
<1>1. /\ Sweeping /\ Sweeping' /\ next <= Len(rpo) /\ next' = next + 1 /\ phase' = "idom"
      /\ UNCHANGED <<edges, dfsVars>> /\ work_idom' = work_idom
      /\ changed' = changed /\ clock' = clock /\ dom_post' = dom_post
  BY DEF SkipBlock, Sweeping, numberVars
<1>2. rpo[next] = Root
  BY <1>1, InTurn DEF SkipBlock
<1>3. next' \in Nat \ {0}
  BY <1>1, SweepFacts
<1>4. changed' \in BOOLEAN
  BY <1>1, SweepFacts DEF TypeOK
<1>5. \A k \in DOMAIN rpo : k < next' => k < next \/ rpo[k] = Root
  BY <1>1, <1>2, SweepFacts
<1>6. \A k \in DOMAIN rpo : k < next' => rpo[k] \in DOMAIN work_idom
  BY <1>1, <1>5, SweepFacts
<1>7. \A k \in DOMAIN rpo : k < next' /\ ~ changed' /\ rpo[k] # Root => Fits(rpo[k])
  BY <1>1, <1>5, SweepFacts
<1>8. MeetOK'
  BY <1>1 DEF MeetOK
<1> QED BY <1>1, <1>3, <1>4, <1>6, <1>7, <1>8, StillSweeping

\* A step after which the fingers are at x and y and the predecessors in w
\* are still to be taken.
LEMMA FingersAt ==
  ASSUME IInv, Sweeping, UNCHANGED <<edges, dfsVars>>, work_idom' = work_idom,
         phase' = "meet", next' = next, changed' = changed, clock' = clock, dom_post' = dom_post,
         next <= Len(rpo),
         NEW b, b = rpo[next], b # Root,
         NEW w, waiting' = w, w \subseteq Processed(b),
         NEW x \in DOMAIN work_idom, NEW y \in DOMAIN work_idom,
         DOMAIN fingers' = {1, 2}, fingers'[1] = x, fingers'[2] = y,
         \A a \in Block \ {b} : OnEveryPath(a, b) => OnEveryPath(a, x) /\ OnEveryPath(a, y),
         \A p \in Processed(b) \ w : Above(work_idom, x, p) \/ Above(work_idom, y, p)
  PROVE  IInv'
<1>1. PICK g : g = work_idom
  OBVIOUS
<1>2. /\ Reachable' = Reachable /\ rpo' = rpo /\ DOMAIN rpo' = DOMAIN rpo
      /\ \A c : Index(c)' = Index(c)
      /\ \A k : rpo'[k] = rpo[k]
      /\ \A a, c : OnEveryPath(a, c)' = OnEveryPath(a, c)
      /\ \A c : Predecessors(c)' = Predecessors(c)
  BY SameGraph
<1>3. Processed(b)' = Processed(b)
  BY <1>2 DEF Processed
<1>4. /\ next' \in DOMAIN rpo' /\ rpo'[next'] = b
  BY <1>2, InTurn
<1>5. \A k \in {1, 2} :
        /\ fingers'[k] \in DOMAIN work_idom'
        /\ \A a \in Block \ {b} : OnEveryPath(a, b)' => OnEveryPath(a, fingers[k])'
  <2>1. \A a \in Block \ {b} : OnEveryPath(a, b)' => OnEveryPath(a, x)' /\ OnEveryPath(a, y)'
    BY <1>2
  <2>2. \A a : OnEveryPath(a, fingers[1])' <=> OnEveryPath(a, x)'
    BY DEF OnEveryPath, ReachableWithout, ClosedWithout
  <2>3. \A a : OnEveryPath(a, fingers[2])' <=> OnEveryPath(a, y)'
    BY DEF OnEveryPath, ReachableWithout, ClosedWithout
  <2> QED BY <2>1, <2>2, <2>3
<1>6. \A p \in Processed(b) \ w : \E k \in {1, 2} : Above(work_idom, fingers[k], p)'
  <2>1. \A p : (Above(work_idom, fingers[1], p)' <=> Above(work_idom, x, p))
           /\ (Above(work_idom, fingers[2], p)' <=> Above(work_idom, y, p))
    BY DEF Above
  <2> QED BY <2>1
<1>7. MeetOK'
  BY <1>3, <1>4, <1>5, <1>6 DEF MeetOK
<1>8. /\ next' \in Nat \ {0} /\ Sweeping'
      /\ \A k \in DOMAIN rpo : k < next' => rpo[k] \in DOMAIN work_idom
      /\ \A k \in DOMAIN rpo : k < next' /\ ~ changed' /\ rpo[k] # Root => Fits(rpo[k])
  BY SweepFacts DEF Sweeping
<1>9. changed' \in BOOLEAN
  BY SweepFacts DEF TypeOK
<1> QED BY <1>7, <1>8, <1>9, StillSweeping

LEMMA FirstPredecessorKeeps ==
  ASSUME IInv, NEW p \in Block, FirstPredecessor(p)
  PROVE  IInv'
<1>1. PICK b : b = rpo[next]
  OBVIOUS
<1>2. /\ Sweeping /\ next <= Len(rpo) /\ b # Root /\ p \in Processed(b)
      /\ phase' = "meet" /\ waiting' = Processed(b) \ {p} /\ fingers' = <<p, p>>
      /\ UNCHANGED <<edges, dfsVars>> /\ work_idom' = work_idom /\ next' = next
      /\ changed' = changed /\ clock' = clock /\ dom_post' = dom_post
  BY <1>1 DEF FirstPredecessor, Sweeping, numberVars
<1>3. DOMAIN fingers' = {1, 2} /\ fingers'[1] = p /\ fingers'[2] = p
  BY <1>2
<1>4. b \in Block /\ p \in Predecessors(b) /\ p \in DOMAIN work_idom /\ Root \in Block
  BY <1>1, <1>2, InTurn, SweepFacts DEF Processed, TypeOK
<1>5. \A a \in Block \ {b} : OnEveryPath(a, b) => OnEveryPath(a, p)
  BY <1>4, OnPathToPredecessor
<1>6. Above(work_idom, p, p)
  BY AboveFacts
<1>7. \A q \in Processed(b) \ (Processed(b) \ {p}) : Above(work_idom, p, q)
  BY <1>6
<1>8. PICK w : w = Processed(b) \ {p}
  OBVIOUS
<1> QED BY <1>1, <1>2, <1>3, <1>4, <1>5, <1>7, <1>8, FingersAt

LEMMA MeetFacts ==
  ASSUME IInv, phase = "meet", NEW b, b = rpo[next]
  PROVE  /\ Sweeping /\ next <= Len(rpo) /\ b # Root /\ waiting \subseteq Processed(b)
         /\ DOMAIN fingers = {1, 2}
         /\ fingers[1] \in DOMAIN work_idom /\ fingers[2] \in DOMAIN work_idom
         /\ \A a \in Block \ {b} : OnEveryPath(a, b) =>
               OnEveryPath(a, fingers[1]) /\ OnEveryPath(a, fingers[2])
         /\ \A p \in Processed(b) \ waiting :
               Above(work_idom, fingers[1], p) \/ Above(work_idom, fingers[2], p)
<1>1. Sweeping /\ MeetOK
  BY DEF IInv, Sweeping
<1>2. next <= Len(rpo)
  BY <1>1, SweepFacts DEF MeetOK
<1> QED BY <1>1, <1>2 DEF MeetOK

LEMMA NextPredecessorKeeps ==
  ASSUME IInv, NEW p \in Block, NextPredecessor(p)
  PROVE  IInv'
<1>1. PICK b, w, y : b = rpo[next] /\ w = waiting \ {p} /\ y = fingers[2]
  OBVIOUS
<1>2. /\ phase = "meet" /\ fingers[1] = y /\ p \in waiting
      /\ phase' = "meet" /\ waiting' = w /\ fingers' = <<p, y>>
      /\ UNCHANGED <<edges, dfsVars>> /\ work_idom' = work_idom /\ next' = next
      /\ changed' = changed /\ clock' = clock /\ dom_post' = dom_post
  BY <1>1 DEF NextPredecessor, numberVars
<1>3. DOMAIN fingers' = {1, 2} /\ fingers'[1] = p /\ fingers'[2] = y
  BY <1>2
<1>4. Sweeping /\ next <= Len(rpo) /\ b # Root /\ w \subseteq Processed(b) /\ y \in DOMAIN work_idom
  BY <1>1, <1>2, MeetFacts
<1>5. b \in Block /\ p \in Predecessors(b) /\ p \in DOMAIN work_idom /\ Root \in Block
  BY <1>1, <1>2, <1>4, MeetFacts, InTurn, SweepFacts DEF Processed, TypeOK
<1>6. \A a \in Block \ {b} : OnEveryPath(a, b) => OnEveryPath(a, p) /\ OnEveryPath(a, y)
  BY <1>1, <1>2, <1>5, MeetFacts, OnPathToPredecessor
<1>7. \A q \in Processed(b) \ w : Above(work_idom, p, q) \/ Above(work_idom, y, q)
  <2>1. Above(work_idom, p, p)
    BY AboveFacts
  <2>2. \A q \in Processed(b) \ waiting : Above(work_idom, y, q)
    BY <1>1, <1>2, MeetFacts
  <2> QED BY <1>1, <2>1, <2>2
<1> QED BY <1>1, <1>2, <1>3, <1>4, <1>5, <1>6, <1>7, FingersAt

\* The finger that climbs is further from the entry than the other, so it is
\* not on every path to the block: what is, it does not leave behind.
LEMMA ClimbKeepsDominators ==
  ASSUME IInv, Sweeping, NEW b \in Block,
         NEW x \in DOMAIN work_idom, NEW y \in DOMAIN work_idom, Index(x) > Index(y),
         \A a \in Block \ {b} : OnEveryPath(a, b) => OnEveryPath(a, x) /\ OnEveryPath(a, y)
  PROVE  \A a \in Block \ {b} : OnEveryPath(a, b) => OnEveryPath(a, work_idom[x]) /\ OnEveryPath(a, y)
<1>1. SUFFICES ASSUME NEW a \in Block \ {b}, OnEveryPath(a, b)
               PROVE  OnEveryPath(a, work_idom[x])
  OBVIOUS
<1>2. OnEveryPath(a, x) /\ OnEveryPath(a, y)
  BY <1>1
<1>3. a # x
  <2>1. SUFFICES ASSUME a = x PROVE FALSE
    OBVIOUS
  <2>2. x # y /\ x \in Block /\ y \in Reachable /\ Index(x) \in Nat /\ Index(y) \in Nat
    BY SweepFacts
  <2>3. Index(x) < Index(y)
    BY <1>2, <2>1, <2>2, SweepFacts DEF Ordered
  <2> QED BY <2>2, <2>3
<1>4. CASE x = Root
  BY <1>2, <1>4, SweepFacts
<1>5. CASE x # Root
  BY <1>2, <1>3, <1>5, SweepFacts
<1> QED BY <1>4, <1>5

LEMMA ClimbKeeps ==
  ASSUME IInv, Climb
  PROVE  IInv'
<1>1. PICK b, w, x, y, g : /\ b = rpo[next] /\ w = waiting /\ x = fingers[1] /\ y = fingers[2]
                           /\ g = work_idom
  OBVIOUS
<1>2. /\ phase = "meet" /\ x # y /\ phase' = "meet" /\ waiting' = w
      /\ fingers' = [fingers EXCEPT ![IF Index(x) > Index(y) THEN 1 ELSE 2] = work_idom[@]]
      /\ UNCHANGED <<edges, dfsVars>> /\ work_idom' = work_idom /\ next' = next
      /\ changed' = changed /\ clock' = clock /\ dom_post' = dom_post
  BY <1>1 DEF Climb, numberVars
<1>3. /\ Sweeping /\ next <= Len(rpo) /\ b # Root /\ w \subseteq Processed(b)
      /\ DOMAIN fingers = {1, 2}
      /\ x \in DOMAIN g /\ y \in DOMAIN g
      /\ \A a \in Block \ {b} : OnEveryPath(a, b) => OnEveryPath(a, x) /\ OnEveryPath(a, y)
      /\ \A p \in Processed(b) \ w : Above(g, x, p) \/ Above(g, y, p)
  BY <1>1, <1>2, MeetFacts
<1>4. b \in Block /\ g[x] \in DOMAIN g /\ g[y] \in DOMAIN g
  BY <1>1, <1>3, InTurn, SweepFacts
<1>5. \A z \in DOMAIN g : \A p : Above(g, z, p) => Above(g, g[z], p)
  BY AboveFacts
<1>6. CASE Index(x) > Index(y)
  <2>1. DOMAIN fingers' = {1, 2} /\ fingers'[1] = g[x] /\ fingers'[2] = y
    BY <1>1, <1>2, <1>3, <1>6
  <2>2. \A a \in Block \ {b} : OnEveryPath(a, b) => OnEveryPath(a, g[x]) /\ OnEveryPath(a, y)
    BY <1>1, <1>3, <1>4, <1>6, ClimbKeepsDominators
  <2>3. \A p \in Processed(b) \ w : Above(g, g[x], p) \/ Above(g, y, p)
    BY <1>3, <1>5
  <2> QED BY <1>1, <1>2, <1>3, <1>4, <2>1, <2>2, <2>3, FingersAt
<1>7. CASE ~ (Index(x) > Index(y))
  <2>1. DOMAIN fingers' = {1, 2} /\ fingers'[1] = x /\ fingers'[2] = g[y]
    BY <1>1, <1>2, <1>3, <1>7
  <2>2. Index(y) > Index(x)
    <3>1. /\ Index(x) \in DOMAIN rpo /\ rpo[Index(x)] = x /\ Index(x) \in Nat
          /\ Index(y) \in DOMAIN rpo /\ rpo[Index(y)] = y /\ Index(y) \in Nat
      BY <1>1, <1>3, SweepFacts DEF Ordered
    <3> QED BY <1>2, <1>7, <3>1
  <2>3. \A a \in Block \ {b} : OnEveryPath(a, b) => OnEveryPath(a, x) /\ OnEveryPath(a, g[y])
    BY <1>1, <1>3, <1>4, <2>2, ClimbKeepsDominators
  <2>4. \A p \in Processed(b) \ w : Above(g, x, p) \/ Above(g, g[y], p)
    BY <1>3, <1>5
  <2> QED BY <1>1, <1>2, <1>3, <1>4, <2>1, <2>3, <2>4, FingersAt
<1> QED BY <1>6, <1>7

LEMMA EndBlockKeeps ==
  ASSUME IInv, EndBlock
  PROVE  IInv'
<1>1. PICK b, z, g, h : b = rpo[next] /\ z = fingers[2] /\ g = work_idom /\ h = work_idom'
  OBVIOUS
<1>2. /\ phase = "meet" /\ fingers[1] = z /\ waiting = {} /\ phase' = "idom" /\ next' = next + 1
      /\ UNCHANGED <<edges, dfsVars>> /\ clock' = clock /\ dom_post' = dom_post
      /\ stack' = stack /\ seen' = seen /\ postorder' = postorder
  BY <1>1 DEF EndBlock, numberVars, dfsVars
<1>3. \/ b \in DOMAIN g /\ g[b] = z /\ work_idom' = work_idom /\ changed' = changed
      \/ h = With(g, b, z) /\ changed' = TRUE
  BY <1>1 DEF EndBlock
<1>4. /\ Sweeping /\ next <= Len(rpo) /\ b # Root /\ z \in DOMAIN g
      /\ \A a \in Block \ {b} : OnEveryPath(a, b) => OnEveryPath(a, z)
      /\ \A p \in Processed(b) : Above(g, z, p)
  BY <1>1, <1>2, MeetFacts
<1>5. /\ next \in DOMAIN rpo /\ b \in Reachable /\ b \in Block /\ Index(b) = next
      /\ \E p \in Processed(b) : Index(p) < next
  BY <1>1, <1>4, InTurn
<1>6. Index(z) < Index(b)
  <2>1. PICK p \in Processed(b) : Index(p) < next
    BY <1>5
  <2>2. p \in DOMAIN work_idom
    BY <2>1 DEF Processed
  <2>3. Index(z) <= Index(p)
    BY <1>1, <1>4, <2>2, CandidatesAreEarlier
  <2>4. Index(z) \in Nat /\ Index(p) \in Nat /\ next \in Nat
    BY <1>1, <1>4, <2>2, SweepFacts
  <2> QED BY <1>5, <2>1, <2>3, <2>4
<1>7. Sweeping' /\ next' \in Nat \ {0}
  BY <1>2, <1>4, SweepFacts DEF Sweeping
<1>8. MeetOK'
  BY <1>2 DEF MeetOK
<1>9. \A k \in DOMAIN rpo : k < next' => k < next \/ rpo[k] = b
  BY <1>1, <1>2, <1>4, SweepFacts
<1>10. CASE b \in DOMAIN g /\ g[b] = z /\ work_idom' = work_idom /\ changed' = changed
  <2>1. changed' \in BOOLEAN
    BY <1>4, <1>10, SweepFacts DEF TypeOK
  <2>2. Fits(b)
    BY <1>1, <1>4, <1>10 DEF Fits
  <2>3. \A k \in DOMAIN rpo : k < next' => rpo[k] \in DOMAIN work_idom
    BY <1>1, <1>4, <1>9, <1>10, SweepFacts
  <2>4. \A k \in DOMAIN rpo : k < next' /\ ~ changed' /\ rpo[k] # Root => Fits(rpo[k])
    BY <1>4, <1>9, <1>10, <2>2, SweepFacts
  <2> QED BY <1>2, <1>4, <1>7, <1>8, <1>10, <2>1, <2>3, <2>4, StillSweeping
<1>11. CASE h = With(g, b, z) /\ changed' = TRUE
  <2>1. /\ DOMAIN h = DOMAIN g \cup {b} /\ h[b] = z /\ h[Root] = g[Root]
        /\ \A c \in DOMAIN g \ {b} : h[c] = g[c]
    BY <1>1, <1>4, <1>11, SweepFacts DEF With
  <2>2. TypeOK'
    <3>1. changed' \in BOOLEAN
      BY <1>11
    <3> QED BY <1>2, <1>4, <1>7, <3>1, SweepFacts DEF TypeOK
  <2>3. Ordered'
    BY <1>2, <1>4, SweepFacts, SameOrdered
  <2>4. /\ Reachable' = Reachable /\ rpo' = rpo /\ DOMAIN rpo' = DOMAIN rpo
        /\ \A c : Index(c)' = Index(c)
        /\ \A k : rpo'[k] = rpo[k]
        /\ \A a, c : OnEveryPath(a, c)' = OnEveryPath(a, c)
    BY <1>2, SameGraph
  <2>5. /\ DOMAIN h \subseteq Reachable /\ Root \in DOMAIN h /\ h[Root] = Root
        /\ \A c \in DOMAIN h : h[c] \in DOMAIN h
    BY <1>1, <1>4, <1>5, <2>1, SweepFacts
  <2>6. ASSUME NEW c \in DOMAIN h \ {Root}
        PROVE  /\ Index(h[c]) < Index(c)
               /\ \A a \in Block \ {c} : OnEveryPath(a, c) => OnEveryPath(a, h[c])
    <3>1. CASE c = b
      BY <1>4, <1>6, <2>1, <3>1
    <3>2. CASE c # b
      BY <1>1, <1>4, <2>1, <3>2, SweepFacts
    <3> QED BY <3>1, <3>2
  <2>7. \A c \in DOMAIN h \ {Root} :
           /\ (Index(h[c]) < Index(c))'
           /\ \A a \in Block \ {c} : OnEveryPath(a, c)' => OnEveryPath(a, h[c])'
    BY <2>4, <2>6
  <2>8. \A k \in DOMAIN rpo' : k < next' => rpo'[k] \in DOMAIN h
    BY <1>1, <1>4, <1>9, <2>1, <2>4, SweepFacts
  <2>9. SweepsOK'
    <3>1. /\ DOMAIN work_idom' \subseteq Reachable' /\ Root \in DOMAIN work_idom'
          /\ \A c \in DOMAIN work_idom' : work_idom'[c] \in DOMAIN work_idom'
          /\ work_idom'[Root] = Root
          /\ \A k \in DOMAIN rpo' : k < next' => rpo'[k] \in DOMAIN work_idom'
      BY <1>1, <2>4, <2>5, <2>8
    <3>2. ASSUME NEW c \in DOMAIN work_idom' \ {Root}
          PROVE  /\ (Index(work_idom[c]) < Index(c))'
                 /\ \A a \in Block \ {c} : OnEveryPath(a, c)' => OnEveryPath(a, work_idom[c])'
      <4>1. PICK y : y = h[c]
        OBVIOUS
      <4>2. y = work_idom'[c] /\ c \in DOMAIN h \ {Root}
        BY <1>1, <4>1
      <4>3. (Index(y) < Index(c))' /\ \A a \in Block \ {c} : OnEveryPath(a, c)' => OnEveryPath(a, y)'
        BY <2>7, <4>1, <4>2
      <4> QED BY <4>2, <4>3
    <3> QED BY <1>11, <3>1, <3>2 DEF SweepsOK
  <2> QED BY <1>2, <1>8, <2>2, <2>3, <2>9 DEF IInv, DfsOK, OrderOK, TreeOK, WalkOK
<1> QED BY <1>3, <1>10, <1>11

LEMMA SweepAgainKeeps ==
  ASSUME IInv, SweepAgain
  PROVE  IInv'
<1>1. /\ Sweeping /\ Sweeping' /\ next' = 1 /\ changed' = FALSE /\ phase' = "idom"
      /\ UNCHANGED <<edges, dfsVars>> /\ work_idom' = work_idom
      /\ clock' = clock /\ dom_post' = dom_post
  BY DEF SweepAgain, Sweeping, numberVars
<1>2. \A k \in DOMAIN rpo : ~ (k < next')
  BY <1>1, SweepFacts
<1>3. next' \in Nat \ {0}
  BY <1>1
<1>4. changed' \in BOOLEAN
  BY <1>1
<1>5. MeetOK'
  BY <1>1 DEF MeetOK
<1> QED BY <1>1, <1>2, <1>3, <1>4, <1>5, StillSweeping

-----------------------------------------------------------------------------
(* What the sweeps end with *)

\* When nothing changed, what is above a block in the tree is on every path to
\* it: the blocks that it is not above are closed under successors without it.
LEMMA CandidatesDominate ==
  ASSUME IInv, Sweeping, next > Len(rpo), ~ changed,
         NEW b \in Reachable, NEW x, Above(work_idom, x, b)
  PROVE  OnEveryPath(x, b)
<1>1. Reachable \subseteq DOMAIN work_idom
  BY SweepFacts DEF Ordered
<1>2. \A c \in Reachable \ {Root} : Fits(c)
  BY SweepFacts DEF Ordered
<1> DEFINE S == {c \in Reachable : ~ Above(work_idom, x, c)}
<1>3. S \in SUBSET Block /\ Root \in Block
  BY SweepFacts DEF TypeOK
<1>4. Above(work_idom, x, Root) => x = Root
  <2>1. {Root} \in SUBSET Block /\ \A c \in {Root} \cap DOMAIN work_idom : work_idom[c] \in {Root}
    BY <1>3, SweepFacts
  <2> QED BY <2>1 DEF Above
<1>5. ASSUME NEW c \in S, NEW d \in Successors(c) PROVE d \in S \cup {x}
  <2>1. d \in Reachable /\ d \in Block /\ c \in Block
    BY <1>3, PathFacts DEF Successors
  <2>2. SUFFICES ASSUME d # x, Above(work_idom, x, d) PROVE FALSE
    BY <2>1
  <2>3. d # Root /\ Above(work_idom, x, work_idom[d])
    BY <1>4, <2>1, <2>2, AboveStep
  <2>4. c \in Processed(d)
    BY <1>1, <2>1 DEF Processed, Predecessors, Successors
  <2>5. Above(work_idom, work_idom[d], c)
    BY <1>2, <2>1, <2>3, <2>4 DEF Fits
  <2> QED BY <2>3, <2>5, AboveFacts
<1>6. ClosedWithout(S, x)
  <2>1. Root \in S \cup {x}
    BY <1>4, SweepFacts
  <2> QED BY <1>5, <2>1 DEF ClosedWithout
<1>7. b \notin S
  OBVIOUS
<1> QED BY <1>3, <1>6, <1>7 DEF OnEveryPath, ReachableWithout

LEMMA SameNumbers ==
  ASSUME edges' = edges, postorder' = postorder
  PROVE  /\ Reachable' = Reachable
         /\ \A b : Index(b)' = Index(b)
         /\ \A a, b : OnEveryPath(a, b)' = OnEveryPath(a, b)
         /\ \A a, b : Immediate(a, b)' = Immediate(a, b)
         /\ Ordered => Ordered'
<1>1. /\ Reachable' = Reachable /\ rpo' = rpo
      /\ \A b : Successors(b)' = Successors(b) /\ Predecessors(b)' = Predecessors(b)
      /\ \A b : Index(b)' = Index(b)
      /\ \A a, b : OnEveryPath(a, b)' = OnEveryPath(a, b)
      /\ \A a, b : Immediate(a, b)' = Immediate(a, b)
  BY DEF Reachable, rpo, Successors, Predecessors, Index, OnEveryPath, Immediate,
         ReachableWithout, ClosedWithout
<1> QED BY <1>1 DEF Ordered

LEMMA EndSweepsKeeps ==
  ASSUME IInv, EndSweeps
  PROVE  IInv'
<1>1. PICK g, i : g = work_idom /\ i = idom'
  OBVIOUS
<1>2. /\ Sweeping /\ phase \in {"idom", "meet"} /\ next > Len(rpo) /\ ~ changed /\ phase' = "number"
      /\ i = [b \in DOMAIN g \ {Root} |-> g[b]]
      /\ stack' = <<Root>> /\ numbered' = {Root} /\ dom_pre' = [b \in {Root} |-> 0] /\ clock' = 1
      /\ edges' = edges /\ postorder' = postorder /\ seen' = seen
      /\ next' = next /\ changed' = changed /\ dom_post' = dom_post
  BY <1>1 DEF EndSweeps, Sweeping
<1>3. TypeOK /\ Root \in Block
  BY <1>2, SweepFacts DEF TypeOK
<1>4. TypeOK'
  <2>1. stack' \in Seq(Block) /\ clock' \in Nat
    BY <1>2, <1>3
  <2> QED BY <1>2, <1>3, <2>1 DEF TypeOK
<1>5. /\ Reachable' = Reachable
      /\ \A b : Index(b)' = Index(b)
      /\ \A a, b : Immediate(a, b)' = Immediate(a, b)
      /\ Ordered'
  BY <1>2, SweepFacts, SameNumbers
<1>6. DOMAIN g = Reachable
  <2>1. Reachable \subseteq DOMAIN work_idom
    BY <1>2, SweepFacts DEF Ordered
  <2>2. DOMAIN work_idom \subseteq Reachable
    BY <1>2, SweepFacts
  <2> QED BY <1>1, <2>1, <2>2
<1>7. ASSUME NEW b \in Reachable \ {Root}
      PROVE  i[b] \in Reachable /\ Index(i[b]) < Index(b) /\ Immediate(i[b], b)
  <2>1. i[b] = g[b] /\ g[b] \in Reachable /\ Index(g[b]) < Index(b) /\ Index(b) \in Nat
    BY <1>1, <1>2, <1>6, SweepFacts
  <2>2. Above(g, g[b], b)
    BY <1>6, AboveFacts
  <2>3. OnEveryPath(g[b], b)
    BY <1>1, <1>2, <2>2, CandidatesDominate
  <2>4. \A c \in Reachable \ {b} : OnEveryPath(c, b) => OnEveryPath(c, g[b])
    BY <1>1, <1>2, <1>6, SweepFacts
  <2>5. g[b] # b
    BY <2>1
  <2> QED BY <2>1, <2>3, <2>4, <2>5 DEF Immediate
<1>8. DOMAIN i = Reachable \ {Root}
  BY <1>2, <1>6
<1>9. TreeOK'
  <2>1. \A b \in DOMAIN i : i[b] \in Reachable' /\ (Index(i[b]) < Index(b))' /\ Immediate(i[b], b)'
    BY <1>5, <1>7, <1>8
  <2>2. ASSUME NEW b \in DOMAIN idom'
        PROVE  idom'[b] \in Reachable' /\ (Index(idom[b]) < Index(b))' /\ Immediate(idom[b], b)'
    <3>1. PICK y : y = i[b]
      OBVIOUS
    <3>2. y \in Reachable' /\ (Index(y) < Index(b))' /\ Immediate(y, b)'
      BY <1>1, <2>1, <3>1
    <3>3. y = idom'[b]
      BY <1>1, <3>1
    <3> QED BY <3>2, <3>3
  <2> QED BY <1>1, <1>5, <1>8, <2>2 DEF TreeOK
<1>10. WalkOK'
  <2>1. DOMAIN stack' = {1} /\ stack'[1] = Root /\ DOMAIN dom_pre' = {Root} /\ dom_pre'[Root] = 0
    BY <1>2
  <2>2. dom_post' = << >> /\ DOMAIN dom_post' = {}
    BY <1>2, <1>3 DEF TypeOK
  <2>3. \A b : On(stack, b)' <=> b = Root
    BY <2>1 DEF On
  <2>4. Injective(stack)'
    BY <2>1 DEF Injective
  <2>5. numbered' \subseteq Reachable' /\ Root \in numbered'
    BY <1>2, <1>5, SweepFacts
  <2>6. Above(idom, Root, Root)'
    BY DEF Above
  <2>7. \A j, k \in DOMAIN stack' : j <= k => Above(idom, stack[j], stack[k])'
    <3>1. ASSUME NEW j \in DOMAIN stack', NEW k \in DOMAIN stack' PROVE Above(idom, stack[j], stack[k])'
      <4>1. stack'[j] = Root /\ stack'[k] = Root
        BY <2>1
      <4> QED BY <2>6, <4>1
    <3> QED BY <3>1
  <2>8. \A d \in DOMAIN idom' : d \notin numbered' /\ idom'[d] \notin DOMAIN dom_post'
    BY <1>1, <1>2, <1>8, <2>2
  <2>9. \A k \in DOMAIN stack' : stack'[k] \in numbered' /\ ~ (k > 1)
    BY <1>2, <2>1
  <2>10. \A b \in Block : b \in DOMAIN dom_post' <=> b \in numbered' /\ ~ On(stack, b)'
    BY <1>2, <2>2, <2>3
  <2>11. \A a, b \in numbered' : dom_pre'[a] = 0 /\ a = b
    BY <1>2, <2>1
  <2>12. \A b \in numbered' : dom_pre'[b] \in Nat /\ dom_pre'[b] < clock'
    BY <1>2, <2>11
  <2>13. \A a, b \in numbered' : ~ (dom_pre'[a] < dom_pre'[b])
    BY <2>11
  <2> QED
    BY <1>2, <2>1, <2>2, <2>4, <2>5, <2>7, <2>8, <2>9, <2>10, <2>11, <2>12, <2>13 DEF WalkOK
<1> QED BY <1>2, <1>4, <1>5, <1>9, <1>10 DEF IInv, DfsOK, OrderOK, SweepsOK, MeetOK

-----------------------------------------------------------------------------
(* Numbering the tree *)

Numbering == phase \in {"number", "done"}

LEMMA WalkFacts ==
  ASSUME IInv, Numbering
  PROVE  /\ TypeOK /\ OrderOK /\ Ordered /\ TreeOK /\ phase # "dfs"
         /\ stack \in Seq(Block) /\ clock \in Nat
         /\ Reachable \subseteq Block /\ Root \in Reachable
         /\ DOMAIN idom = Reachable \ {Root}
         /\ \A b \in DOMAIN idom : idom[b] \in Reachable
         /\ numbered \subseteq Reachable /\ Root \in numbered
         /\ DOMAIN dom_pre = numbered
         /\ \A b \in Block : b \in DOMAIN dom_post <=> b \in numbered /\ ~ On(stack, b)
         /\ DOMAIN dom_post \subseteq numbered
         /\ Injective(stack)
         /\ stack # <<>> => stack[1] = Root
         /\ \A k \in DOMAIN stack : /\ stack[k] \in numbered
                                    /\ k > 1 => stack[k] \in DOMAIN idom /\ idom[stack[k]] = stack[k - 1]
         /\ \A j, k \in DOMAIN stack : j <= k => Above(idom, stack[j], stack[k])
         /\ \A b \in numbered : dom_pre[b] \in Nat /\ dom_pre[b] < clock
         /\ \A b \in DOMAIN dom_post :
               dom_post[b] \in Nat /\ dom_pre[b] < dom_post[b] /\ dom_post[b] < clock
         /\ \A a, b \in numbered : dom_pre[a] = dom_pre[b] => a = b
         /\ \A d \in DOMAIN idom :
               /\ d \in numbered => idom[d] \in numbered /\ dom_pre[idom[d]] < dom_pre[d]
               /\ idom[d] \in DOMAIN dom_post => d \in DOMAIN dom_post /\ dom_post[d] < dom_post[idom[d]]
         /\ \A a, b \in numbered :
               dom_pre[a] < dom_pre[b] => \/ Above(idom, a, b)
                                          \/ a \in DOMAIN dom_post /\ dom_post[a] < dom_pre[b]
         /\ phase = "done" => stack = <<>>
<1>1. TypeOK /\ OrderOK /\ TreeOK /\ WalkOK /\ phase # "dfs"
  BY DEF IInv, Numbering
<1>2. Root \in Block /\ stack \in Seq(Block) /\ clock \in Nat
  BY <1>1 DEF TypeOK
<1>3. Reachable \subseteq Block /\ Root \in Reachable
  BY <1>2, PathFacts
<1>4. DOMAIN idom = Reachable \ {Root} /\ \A b \in DOMAIN idom : idom[b] \in Reachable
  BY <1>1 DEF TreeOK, Numbering
<1> QED BY <1>1, <1>2, <1>3, <1>4 DEF OrderOK, WalkOK, Numbering

\* What a step of this walk leaves alone.
LEMMA StillNumbering ==
  ASSUME IInv, Numbering, Numbering', edges' = edges, postorder' = postorder, seen' = seen,
         idom' = idom, next' = next, changed' = changed,
         stack' \in Seq(Block), clock' \in Nat, WalkOK'
  PROVE  IInv'
<1>1. TypeOK /\ Ordered /\ TreeOK
  BY WalkFacts
<1>2. phase' \in {"dfs", "idom", "meet", "number", "done"} /\ phase' \notin {"dfs", "idom", "meet"}
  BY DEF Numbering
<1>3. TypeOK'
  BY <1>1, <1>2 DEF TypeOK
<1>4. /\ Reachable' = Reachable
      /\ \A b : Index(b)' = Index(b)
      /\ \A a, b : Immediate(a, b)' = Immediate(a, b)
      /\ Ordered'
  BY <1>1, SameNumbers
<1>5. TreeOK'
  <2>1. PICK i : i = idom
    OBVIOUS
  <2>2. \A b \in DOMAIN i : i[b] \in Reachable /\ Index(i[b]) < Index(b) /\ Immediate(i[b], b)
    BY <1>1, <2>1 DEF TreeOK, Numbering
  <2>3. \A b \in DOMAIN i : i[b] \in Reachable' /\ (Index(i[b]) < Index(b))' /\ Immediate(i[b], b)'
    BY <1>4, <2>2
  <2>4. ASSUME NEW b \in DOMAIN idom'
        PROVE  idom'[b] \in Reachable' /\ (Index(idom[b]) < Index(b))' /\ Immediate(idom[b], b)'
    <3>1. PICK y : y = i[b]
      OBVIOUS
    <3>2. y \in Reachable' /\ (Index(y) < Index(b))' /\ Immediate(y, b)'
      BY <2>1, <2>3, <3>1
    <3>3. y = idom'[b]
      BY <2>1, <3>1
    <3> QED BY <3>2, <3>3
  <2>5. DOMAIN idom' = Reachable' \ {Root}
    BY <1>4, WalkFacts
  <2> QED BY <2>4, <2>5 DEF TreeOK
<1> QED BY <1>2, <1>3, <1>4, <1>5 DEF IInv, DfsOK, OrderOK, SweepsOK, MeetOK

LEMMA NumberEnterKeeps ==
  ASSUME IInv, NEW b \in Block, NumberEnter(b)
  PROVE  IInv'
<1>a. PICK n, t : n = Len(stack) /\ t = stack[n]
  OBVIOUS
<1>0. Numbering /\ Numbering' /\ stack # <<>> /\ stack \in Seq(Block) /\ phase' = "number"
  BY WalkFacts DEF NumberEnter, Numbering
<1>1. /\ n \in Nat \ {0} /\ DOMAIN stack = 1 .. n /\ t \in Block /\ Top = t
      /\ stack' \in Seq(Block) /\ DOMAIN stack' = 1 .. n + 1 /\ stack'[n + 1] = b
      /\ \A k \in 1 .. n : stack'[k] = stack[k]
      /\ stack' # <<>>
  <2>1. stack' = Append(stack, b)
    BY DEF NumberEnter
  <2>2. /\ Append(stack, b) \in Seq(Block) /\ n \in Nat /\ DOMAIN Append(stack, b) = 1 .. n + 1
        /\ Append(stack, b)[n + 1] = b /\ \A k \in 1 .. n : Append(stack, b)[k] = stack[k]
        /\ Append(stack, b) # <<>> /\ DOMAIN stack = 1 .. n
    BY <1>0, <1>a, Pushed
  <2>3. n \in Nat \ {0} /\ t \in Block /\ Top = t
    BY <1>0, <1>a, Popped DEF Top
  <2> QED BY <2>1, <2>2, <2>3
<1>2. /\ b \in DOMAIN idom /\ idom[b] = t /\ b \notin numbered
      /\ numbered' = numbered \cup {b} /\ clock' = clock + 1
      /\ edges' = edges /\ postorder' = postorder /\ seen' = seen /\ idom' = idom
      /\ next' = next /\ changed' = changed /\ dom_post' = dom_post
      /\ dom_pre' = With(dom_pre, b, clock)
  BY <1>1 DEF NumberEnter, Children
<1>3. /\ DOMAIN dom_pre' = numbered' /\ dom_pre'[b] = clock
      /\ \A c \in numbered : dom_pre'[c] = dom_pre[c]
  BY <1>0, <1>2, WalkFacts DEF With
<1>4. Reachable' = Reachable
  BY <1>2, SameNumbers
<1>5. \A c : On(stack, c)' <=> On(stack, c) \/ c = b
  BY <1>1 DEF On
<1>6. clock \in Nat /\ b \in Reachable /\ b # Root /\ t \in numbered /\ n \in 1 .. n
  BY <1>0, <1>1, <1>2, <1>a, WalkFacts
<1>7. \A c \in Block : c \in DOMAIN dom_post' <=> c \in numbered' /\ ~ On(stack, c)'
  BY <1>0, <1>2, <1>5, WalkFacts
<1>8. Injective(stack)'
  <2>1. \A k \in 1 .. n : stack[k] # b
    BY <1>0, <1>1, <1>2, WalkFacts
  <2>2. \A j, k \in 1 .. n : stack[j] = stack[k] => j = k
    BY <1>0, <1>1, WalkFacts DEF Injective
  <2>3. \A j, k \in 1 .. n + 1 : stack'[j] = stack'[k] => j = k
    BY <1>1, <2>1, <2>2
  <2> QED BY <1>1, <2>3 DEF Injective
<1>9. stack'[1] = Root
  BY <1>0, <1>1, WalkFacts
<1>10. ASSUME NEW k \in DOMAIN stack'
       PROVE  /\ stack'[k] \in numbered'
              /\ k > 1 => stack'[k] \in DOMAIN idom' /\ idom'[stack'[k]] = stack'[k - 1]
  <2>1. CASE k = n + 1
    <3>1. stack'[k] = b /\ stack'[k - 1] = t
      BY <1>1, <1>6, <1>a, <2>1
    <3> QED BY <1>2, <3>1
  <2>2. CASE k # n + 1
    <3>1. k \in 1 .. n /\ stack'[k] = stack[k] /\ (k > 1 => stack'[k - 1] = stack[k - 1])
      BY <1>1, <2>2
    <3> QED BY <1>0, <1>1, <1>2, <3>1, WalkFacts
  <2> QED BY <2>1, <2>2
<1>11. ASSUME NEW j \in DOMAIN stack', NEW k \in DOMAIN stack', j <= k
       PROVE  Above(idom', stack'[j], stack'[k])
  <2>1. CASE k # n + 1
    <3>1. j \in 1 .. n /\ k \in 1 .. n /\ stack'[j] = stack[j] /\ stack'[k] = stack[k]
      BY <1>1, <1>11, <2>1
    <3> QED BY <1>0, <1>1, <1>2, <1>11, <3>1, WalkFacts
  <2>2. CASE k = n + 1 /\ j = n + 1
    BY <2>2, AboveFacts
  <2>3. CASE k = n + 1 /\ j # n + 1
    <3>1. j \in 1 .. n /\ stack'[j] = stack[j] /\ stack'[k] = b /\ j <= n
      BY <1>1, <1>11, <2>3
    <3>2. Above(idom, stack[j], t)
      BY <1>0, <1>1, <1>6, <1>a, <3>1, WalkFacts
    <3>3. Above(idom, t, b)
      BY <1>2, AboveFacts
    <3>4. Above(idom, stack[j], b)
      BY <3>2, <3>3, AboveFacts
    <3> QED BY <1>2, <3>1, <3>4
  <2> QED BY <2>1, <2>2, <2>3
<1>12. \A c \in numbered' : dom_pre'[c] \in Nat /\ dom_pre'[c] < clock'
  BY <1>0, <1>2, <1>3, <1>6, WalkFacts
<1>13. \A c \in DOMAIN dom_post' :
          dom_post'[c] \in Nat /\ dom_pre'[c] < dom_post'[c] /\ dom_post'[c] < clock'
  BY <1>0, <1>2, <1>3, <1>6, WalkFacts
<1>14. \A a, c \in numbered' : dom_pre'[a] = dom_pre'[c] => a = c
  BY <1>0, <1>2, <1>3, <1>6, WalkFacts
<1>15. ASSUME NEW d \in DOMAIN idom'
       PROVE  /\ d \in numbered' => idom'[d] \in numbered' /\ dom_pre'[idom'[d]] < dom_pre'[d]
              /\ idom'[d] \in DOMAIN dom_post' =>
                    d \in DOMAIN dom_post' /\ dom_post'[d] < dom_post'[idom'[d]]
  <2>1. CASE d = b
    <3>1. t \in numbered /\ dom_pre[t] < clock /\ t \notin DOMAIN dom_post
      <4>1. On(stack, t)
        BY <1>1, <1>6, <1>a DEF On
      <4> QED BY <1>0, <1>1, <1>6, <4>1, WalkFacts
    <3> QED BY <1>2, <1>3, <2>1, <3>1
  <2>2. CASE d # b
    BY <1>0, <1>2, <1>3, <2>2, WalkFacts
  <2> QED BY <2>1, <2>2
<1>16. ASSUME NEW a \in numbered', NEW c \in numbered', dom_pre'[a] < dom_pre'[c]
       PROVE  Above(idom', a, c) \/ (a \in DOMAIN dom_post' /\ dom_post'[a] < dom_pre'[c])
  <2>1. CASE c # b
    <3>1. a # b
      BY <1>0, <1>2, <1>3, <1>6, <1>16, <2>1, WalkFacts
    <3> QED BY <1>0, <1>2, <1>3, <1>16, <2>1, <3>1, WalkFacts
  <2>2. CASE c = b
    <3>1. a # b /\ a \in numbered /\ a \in Block
      BY <1>0, <1>2, <1>3, <1>6, <1>16, <2>2, WalkFacts
    <3>2. CASE On(stack, a)
      <4>1. PICK k \in 1 .. n : stack[k] = a
        BY <1>1, <3>2 DEF On
      <4>2. k <= n + 1 /\ stack'[k] = a /\ stack'[n + 1] = b /\ k \in DOMAIN stack' /\ n + 1 \in DOMAIN stack'
        BY <1>1, <4>1
      <4> QED BY <1>11, <2>2, <4>2
    <3>3. CASE ~ On(stack, a)
      BY <1>0, <1>2, <1>3, <2>2, <3>1, <3>3, WalkFacts
    <3> QED BY <3>2, <3>3
  <2> QED BY <2>1, <2>2
<1>17. WalkOK'
  <2>1. numbered' \subseteq Reachable' /\ Root \in numbered' /\ DOMAIN dom_post' \subseteq numbered'
    BY <1>0, <1>2, <1>4, <1>6, WalkFacts
  <2> QED BY <1>0, <1>3, <1>7, <1>8, <1>9, <1>10, <1>11, <1>12, <1>13, <1>14, <1>15, <1>16, <2>1
          DEF WalkOK
<1> QED BY <1>0, <1>1, <1>2, <1>6, <1>17, StillNumbering

LEMMA NumberLeaveKeeps ==
  ASSUME IInv, NumberLeave
  PROVE  IInv'
<1>a. PICK n, t : n = Len(stack) /\ t = stack[n]
  OBVIOUS
<1>0. Numbering /\ Numbering' /\ stack # <<>> /\ stack \in Seq(Block) /\ phase' = "number"
  BY WalkFacts DEF NumberLeave, Numbering
<1>1. /\ n \in Nat \ {0} /\ DOMAIN stack = 1 .. n /\ t \in Block /\ Top = t
      /\ stack' \in Seq(Block) /\ DOMAIN stack' = 1 .. n - 1
      /\ \A k \in 1 .. n - 1 : stack'[k] = stack[k]
  <2>1. stack' = Front(stack)
    BY DEF NumberLeave
  <2>2. /\ Front(stack) \in Seq(Block) /\ n \in Nat \ {0} /\ DOMAIN Front(stack) = 1 .. n - 1
        /\ \A k \in 1 .. n - 1 : Front(stack)[k] = stack[k]
        /\ DOMAIN stack = 1 .. n /\ t \in Block /\ Top = t
    BY <1>0, <1>a, Popped DEF Top
  <2> QED BY <2>1, <2>2
<1>2. /\ Children(t) \subseteq numbered
      /\ numbered' = numbered /\ clock' = clock + 1 /\ dom_pre' = dom_pre
      /\ edges' = edges /\ postorder' = postorder /\ seen' = seen /\ idom' = idom
      /\ next' = next /\ changed' = changed
      /\ dom_post' = With(dom_post, t, clock)
  BY <1>1 DEF NumberLeave
<1>3. /\ clock \in Nat /\ n \in 1 .. n /\ On(stack, t) /\ t \in numbered /\ t \notin DOMAIN dom_post
      /\ dom_pre[t] < clock
  <2>1. n \in 1 .. n /\ On(stack, t)
    BY <1>1, <1>a DEF On
  <2> QED BY <1>0, <1>1, <1>a, <2>1, WalkFacts
<1>4. /\ DOMAIN dom_post' = DOMAIN dom_post \cup {t} /\ dom_post'[t] = clock
      /\ \A c \in DOMAIN dom_post : dom_post'[c] = dom_post[c]
  BY <1>2, <1>3 DEF With
<1>5. Reachable' = Reachable
  BY <1>2, SameNumbers
<1>6. \A c : On(stack, c)' <=> On(stack, c) /\ c # t
  <2>1. \A k \in 1 .. n - 1 : stack[k] # t /\ k \in 1 .. n
    <3>1. Injective(stack)
      BY <1>0, WalkFacts
    <3> QED BY <1>1, <1>3, <1>a, <3>1 DEF Injective
  <2>2. \A k \in 1 .. n : stack[k] # t => k \in 1 .. n - 1
    BY <1>1, <1>a
  <2>3. ASSUME NEW c, On(stack, c)' PROVE On(stack, c) /\ c # t
    BY <1>1, <2>1, <2>3 DEF On
  <2>4. ASSUME NEW c, On(stack, c), c # t PROVE On(stack, c)'
    BY <1>1, <2>2, <2>4 DEF On
  <2> QED BY <2>3, <2>4
<1>7. \A c \in Block : c \in DOMAIN dom_post' <=> c \in numbered' /\ ~ On(stack, c)'
  BY <1>0, <1>2, <1>3, <1>4, <1>6, WalkFacts
<1>8. Injective(stack)'
  <2>1. \A j, k \in 1 .. n : stack[j] = stack[k] => j = k
    BY <1>0, <1>1, WalkFacts DEF Injective
  <2> QED BY <1>1, <2>1 DEF Injective
<1>9. stack' # <<>> => stack'[1] = Root
  <2>1. stack' # <<>> => 1 \in 1 .. n - 1
    BY <1>1
  <2> QED BY <1>0, <1>1, <2>1, WalkFacts
<1>10. ASSUME NEW k \in DOMAIN stack'
       PROVE  /\ stack'[k] \in numbered'
              /\ k > 1 => stack'[k] \in DOMAIN idom' /\ idom'[stack'[k]] = stack'[k - 1]
  <2>1. k \in 1 .. n /\ stack'[k] = stack[k] /\ (k > 1 => stack'[k - 1] = stack[k - 1])
    BY <1>1
  <2> QED BY <1>0, <1>1, <1>2, <2>1, WalkFacts
<1>11. ASSUME NEW j \in DOMAIN stack', NEW k \in DOMAIN stack', j <= k
       PROVE  Above(idom', stack'[j], stack'[k])
  <2>1. j \in 1 .. n /\ k \in 1 .. n /\ stack'[j] = stack[j] /\ stack'[k] = stack[k]
    BY <1>1
  <2> QED BY <1>0, <1>1, <1>2, <1>11, <2>1, WalkFacts
<1>12. \A c \in numbered' : dom_pre'[c] \in Nat /\ dom_pre'[c] < clock'
  BY <1>0, <1>2, <1>3, WalkFacts
<1>13. \A c \in DOMAIN dom_post' :
          dom_post'[c] \in Nat /\ dom_pre'[c] < dom_post'[c] /\ dom_post'[c] < clock'
  BY <1>0, <1>2, <1>3, <1>4, WalkFacts
\* A child of the block that is left was left before.
<1>14. ASSUME NEW d \in DOMAIN idom, idom[d] = t PROVE d \in DOMAIN dom_post
  <2>1. d \in numbered /\ d \in Block /\ d # Root
    BY <1>0, <1>2, <1>14, WalkFacts DEF Children
  <2>2. ~ On(stack, d)
    <3>1. SUFFICES ASSUME NEW k \in 1 .. n, stack[k] = d PROVE FALSE
      BY <1>1 DEF On
    <3>2. k > 1
      BY <1>0, <1>1, <2>1, <3>1, WalkFacts
    <3>3. idom[d] = stack[k - 1] /\ k - 1 \in 1 .. n
      <4>1. k \in DOMAIN stack /\ k - 1 \in 1 .. n
        BY <1>1, <3>1, <3>2
      <4>2. idom[stack[k]] = stack[k - 1]
        BY <1>0, <3>2, <4>1, WalkFacts
      <4> QED BY <3>1, <4>1, <4>2
    <3>4. Injective(stack)
      BY <1>0, WalkFacts
    <3>5. k - 1 = n
      BY <1>1, <1>3, <1>14, <1>a, <3>3, <3>4 DEF Injective
    <3> QED BY <1>1, <3>1, <3>5
  <2> QED BY <1>0, <2>1, <2>2, WalkFacts
<1>15. ASSUME NEW d \in DOMAIN idom'
       PROVE  /\ d \in numbered' => idom'[d] \in numbered' /\ dom_pre'[idom'[d]] < dom_pre'[d]
              /\ idom'[d] \in DOMAIN dom_post' =>
                    d \in DOMAIN dom_post' /\ dom_post'[d] < dom_post'[idom'[d]]
  <2>1. d \in numbered' => idom'[d] \in numbered' /\ dom_pre'[idom'[d]] < dom_pre'[d]
    BY <1>0, <1>2, WalkFacts
  <2>2. CASE idom[d] = t
    <3>1. d \in DOMAIN dom_post /\ dom_post[d] < clock
      BY <1>0, <1>2, <1>14, <2>2, WalkFacts
    <3> QED BY <1>2, <1>4, <2>1, <2>2, <3>1
  <2>3. CASE idom[d] # t /\ idom[d] \in DOMAIN dom_post
    <3>1. d \in DOMAIN dom_post /\ dom_post[d] < dom_post[idom[d]]
      BY <1>0, <1>2, <2>3, WalkFacts
    <3> QED BY <1>2, <1>4, <2>1, <2>3, <3>1
  <2>4. CASE idom[d] # t /\ idom[d] \notin DOMAIN dom_post
    BY <1>2, <1>4, <2>1, <2>4
  <2> QED BY <2>2, <2>3, <2>4
<1>16. ASSUME NEW a \in numbered', NEW c \in numbered', dom_pre'[a] < dom_pre'[c]
       PROVE  Above(idom', a, c) \/ (a \in DOMAIN dom_post' /\ dom_post'[a] < dom_pre'[c])
  <2>1. Above(idom, a, c) \/ (a \in DOMAIN dom_post /\ dom_post[a] < dom_pre[c])
    BY <1>0, <1>2, <1>16, WalkFacts
  <2> QED BY <1>2, <1>4, <2>1
<1>17. WalkOK'
  <2>1. /\ numbered' \subseteq Reachable' /\ Root \in numbered' /\ DOMAIN dom_post' \subseteq numbered'
        /\ DOMAIN dom_pre' = numbered'
        /\ \A a, c \in numbered' : dom_pre'[a] = dom_pre'[c] => a = c
    BY <1>0, <1>2, <1>3, <1>4, <1>5, WalkFacts
  <2> QED BY <1>0, <1>7, <1>8, <1>9, <1>10, <1>11, <1>12, <1>13, <1>15, <1>16, <2>1
          DEF WalkOK
<1> QED BY <1>0, <1>1, <1>2, <1>3, <1>17, StillNumbering

LEMMA FinishKeeps ==
  ASSUME IInv, Finish
  PROVE  IInv'
<1>1. /\ Numbering /\ Numbering' /\ phase = "number" /\ stack = <<>> /\ phase' = "done"
      /\ edges' = edges /\ stack' = stack /\ postorder' = postorder /\ seen' = seen
      /\ idom' = idom /\ next' = next /\ changed' = changed
      /\ numbered' = numbered /\ dom_pre' = dom_pre /\ dom_post' = dom_post /\ clock' = clock
  BY DEF Finish, Numbering, dfsVars, numberVars
<1>2. Reachable' = Reachable
  BY <1>1, SameNumbers
<1>3. \A c : On(stack, c)' <=> On(stack, c)
  BY <1>1 DEF On
<1>4. Injective(stack)'
  BY <1>1, WalkFacts DEF Injective
<1>5. WalkOK
  BY DEF IInv
<1>6. WalkOK'
  BY <1>1, <1>2, <1>3, <1>4, <1>5 DEF WalkOK
<1> QED BY <1>1, <1>6, StillNumbering, WalkFacts

LEMMA StutterKeeps ==
  ASSUME IInv, UNCHANGED vars
  PROVE  IInv'
<1>1. /\ edges' = edges /\ phase' = phase /\ stack' = stack /\ seen' = seen /\ postorder' = postorder
      /\ work_idom' = work_idom /\ next' = next /\ changed' = changed
      /\ waiting' = waiting /\ fingers' = fingers /\ idom' = idom
      /\ numbered' = numbered /\ dom_pre' = dom_pre /\ dom_post' = dom_post /\ clock' = clock
  BY DEF vars, dfsVars, meetVars, numberVars
<1>2. UNCHANGED <<edges, dfsVars>>
  BY <1>1 DEF dfsVars
<1>3. CASE phase = "dfs"
  <2>1. TypeOK /\ DfsOK /\ TypeOK'
    BY <1>1 DEF IInv, TypeOK
  <2>2. /\ Reachable' = Reachable
        /\ \A b : Successors(b)' = Successors(b) /\ Predecessors(b)' = Predecessors(b)
        /\ \A a : ReachableWithout(a)' = ReachableWithout(a)
        /\ \A a, b : OnEveryPath(a, b)' = OnEveryPath(a, b)
    BY <1>1, SameEdges
  <2>3. /\ \A b : (On(stack, b)' <=> On(stack, b)) /\ (On(postorder, b)' <=> On(postorder, b))
        /\ Injective(stack)' <=> Injective(stack)
        /\ Injective(postorder)' <=> Injective(postorder)
    BY <1>1 DEF On, Injective
  <2>4. \A a, k : Later(a, k)' <=> Later(a, k)
    BY <1>1, <2>3 DEF Later
  <2>5. \A k \in DOMAIN postorder :
          /\ Successors(postorder[k]) \subseteq seen
          /\ \A a \in Block \ {postorder[k]} : OnEveryPath(a, postorder[k]) => Later(a, k)'
          /\ postorder[k] # Root => \E p \in Predecessors(postorder[k]) : Later(p, k)'
    BY <1>3, <2>1, <2>4 DEF DfsOK
  <2>6. DfsOK'
    BY <1>1, <1>3, <2>1, <2>2, <2>3, <2>5 DEF DfsOK
  <2> QED BY <1>1, <1>3, <2>1, <2>6 DEF IInv, OrderOK, SweepsOK, MeetOK, TreeOK, WalkOK
<1>4. CASE phase = "idom"
  <2>1. Sweeping /\ Sweeping' /\ MeetOK'
    BY <1>1, <1>4 DEF Sweeping, MeetOK
  <2>2. changed' \in BOOLEAN
    BY <1>1, <2>1, SweepFacts DEF TypeOK
  <2> QED BY <1>1, <1>2, <2>1, <2>2, SweepFacts, StillSweeping
<1>5. CASE phase = "meet"
  <2>1. PICK b, w, x, y : b = rpo[next] /\ w = waiting /\ x = fingers[1] /\ y = fingers[2]
    OBVIOUS
  <2>2. Sweeping
    BY <1>5 DEF Sweeping
  <2>3. DOMAIN fingers' = {1, 2} /\ fingers'[1] = x /\ fingers'[2] = y
    BY <1>1, <1>5, <2>1, MeetFacts
  <2> QED BY <1>1, <1>2, <1>5, <2>1, <2>2, <2>3, MeetFacts, FingersAt
<1>6. CASE Numbering
  <2>1. Numbering'
    BY <1>1, <1>6 DEF Numbering
  <2>2. Reachable' = Reachable
    BY <1>1, SameNumbers
  <2>3. WalkOK'
    BY <1>1, <2>2 DEF IInv, WalkOK, On, Injective
  <2> QED BY <1>1, <1>6, <2>1, <2>3, StillNumbering, WalkFacts
<1> QED BY <1>3, <1>4, <1>5, <1>6 DEF IInv, TypeOK, Numbering

LEMMA NextKeeps ==
  ASSUME IInv, [Next]_vars
  PROVE  IInv'
BY DfsEnterKeeps, DfsLeaveKeeps, StartSweepsKeeps, SkipBlockKeeps, FirstPredecessorKeeps,
   NextPredecessorKeeps, ClimbKeeps, EndBlockKeeps, SweepAgainKeeps, EndSweepsKeeps,
   NumberEnterKeeps, NumberLeaveKeeps, FinishKeeps, StutterKeeps DEF Next

-----------------------------------------------------------------------------
(* What follows from the invariant *)

LEMMA FoundInInvariant ==
  ASSUME IInv
  PROVE  ImmediateDominatorsFound
BY DEF IInv, TreeOK, ImmediateDominatorsFound

\* The ancestors of a block in the tree are the blocks on every path to it.
LEMMA AboveIsDominance ==
  ASSUME IInv, Numbering, NEW a \in Block, NEW b \in Reachable
  PROVE  Above(idom, a, b) <=> OnEveryPath(a, b)
<1>1. /\ Root \in Block /\ Reachable \subseteq Block /\ DOMAIN idom = Reachable \ {Root}
      /\ \A c \in DOMAIN idom : idom[c] \in Reachable /\ Immediate(idom[c], c)
  BY WalkFacts DEF TypeOK, TreeOK, Numbering
<1>2. ASSUME Above(idom, a, b) PROVE OnEveryPath(a, b)
  <2> DEFINE S == {c \in Reachable : OnEveryPath(c, b)}
  <2>1. S \in SUBSET Block /\ b \in S
    BY <1>1 DEF OnEveryPath
  <2>2. ASSUME NEW c \in S \cap DOMAIN idom PROVE idom[c] \in S
    <3>1. idom[c] \in Reachable /\ OnEveryPath(idom[c], c) /\ OnEveryPath(c, b)
      BY <1>1 DEF Immediate
    <3>2. OnEveryPath(idom[c], b)
      BY <1>1, <3>1, OnPathTransitive
    <3> QED BY <3>1, <3>2
  <2>3. a \in S
    BY <1>2, <2>1, <2>2 DEF Above
  <2> QED BY <2>3
<1>3. ASSUME OnEveryPath(a, b) PROVE Above(idom, a, b)
  <2> DEFINE T == {c \in Reachable : OnEveryPath(a, c) => Above(idom, a, c)}
  <2>1. Root \in T
    <3>1. OnEveryPath(a, Root) => a = Root
      BY <1>1, OnlyRoot
    <3>2. Above(idom, Root, Root)
      BY AboveFacts
    <3> QED BY <3>1, <3>2, WalkFacts
  <2>2. ASSUME NEW c \in DOMAIN idom, idom[c] \in T PROVE c \in T
    <3>1. c \in Reachable
      BY <1>1
    <3>2. SUFFICES ASSUME OnEveryPath(a, c) PROVE Above(idom, a, c)
      BY <3>1
    <3>3. CASE a = c
      BY <3>3, AboveFacts
    <3>4. CASE a # c
      <4>1. a \in Reachable
        BY <1>1, <3>1, <3>2, OnPathReachable
      <4>2. OnEveryPath(a, idom[c])
        BY <1>1, <3>2, <3>4, <4>1 DEF Immediate
      <4>3. Above(idom, a, idom[c]) /\ Above(idom, idom[c], c)
        BY <2>2, <4>2, AboveFacts
      <4> QED BY <4>3, AboveFacts
    <3> QED BY <3>3, <3>4
  <2>3. TypeOK /\ OrderOK /\ TreeOK /\ phase \in {"number", "done"}
    BY WalkFacts DEF Numbering
  <2> HIDE DEF T
  <2>4. Reachable \subseteq T
    BY <2>1, <2>2, <2>3, TreeInduction
  <2> QED BY <1>3, <2>4 DEF T
<1> QED BY <1>2, <1>3

\* When the walk has ended every reachable block has its interval.
LEMMA AllNumbered ==
  ASSUME IInv, phase = "done"
  PROVE  numbered = Reachable /\ DOMAIN dom_post = Reachable
<1>1. Numbering /\ phase \in {"number", "done"}
  BY DEF Numbering
<1>2. /\ TypeOK /\ OrderOK /\ TreeOK /\ Root \in numbered /\ numbered \subseteq Reachable
      /\ Reachable \subseteq Block /\ stack = <<>> /\ DOMAIN dom_post \subseteq numbered
      /\ \A b \in Block : b \in DOMAIN dom_post <=> b \in numbered /\ ~ On(stack, b)
  BY <1>1, WalkFacts
<1>3. \A b \in Block : b \in DOMAIN dom_post <=> b \in numbered
  BY <1>2 DEF On
<1>4. ASSUME NEW d \in DOMAIN idom, idom[d] \in numbered PROVE d \in numbered
  <2>1. idom[d] \in DOMAIN dom_post
    BY <1>2, <1>3, <1>4
  <2> QED BY <1>1, <1>2, <2>1, WalkFacts
<1>5. Reachable \subseteq numbered
  BY <1>1, <1>2, <1>4, TreeInduction
<1> QED BY <1>2, <1>3, <1>5

LEMMA IntervalsInInvariant ==
  ASSUME IInv
  PROVE  IntervalsDecide
<1>1. SUFFICES ASSUME phase = "done", NEW a \in Reachable, NEW b \in Reachable
               PROVE  Dominates(a, b) <=> OnEveryPath(a, b)
  BY DEF IntervalsDecide
<1>2. Numbering /\ numbered = Reachable /\ DOMAIN dom_post = Reachable
  BY <1>1, AllNumbered DEF Numbering
<1>3. a \in Block /\ Reachable \subseteq Block
  BY <1>2, WalkFacts
<1>4. /\ \A c \in Reachable : dom_pre[c] \in Nat /\ dom_post[c] \in Nat /\ dom_pre[c] < dom_post[c]
      /\ \A c, d \in Reachable : dom_pre[c] = dom_pre[d] => c = d
      /\ \A c, d \in Reachable :
            dom_pre[c] < dom_pre[d] => Above(idom, c, d) \/ dom_post[c] < dom_pre[d]
  BY <1>2, WalkFacts
<1>5. ASSUME Dominates(a, b) PROVE OnEveryPath(a, b)
  <2>1. CASE a = b
    BY <2>1 DEF OnEveryPath
  <2>2. CASE a # b
    <3>1. dom_pre[a] <= dom_pre[b] /\ dom_post[b] <= dom_post[a]
      BY <1>5, <2>2 DEF Dominates
    <3>2. dom_pre[a] < dom_pre[b] /\ ~ (dom_post[a] < dom_pre[b])
      BY <1>4, <2>2, <3>1
    <3>3. Above(idom, a, b)
      BY <1>4, <3>2
    <3> QED BY <1>2, <1>3, <3>3, AboveIsDominance
  <2> QED BY <2>1, <2>2
<1>6. ASSUME OnEveryPath(a, b) PROVE Dominates(a, b)
  <2> DEFINE S == {c \in Reachable : dom_pre[c] <= dom_pre[b] /\ dom_post[b] <= dom_post[c]}
  <2>1. Above(idom, a, b)
    BY <1>2, <1>3, <1>6, AboveIsDominance
  <2>2. S \in SUBSET Block /\ b \in S
    BY <1>3, <1>4
  <2>3. ASSUME NEW c \in S \cap DOMAIN idom PROVE idom[c] \in S
    <3>1. idom[c] \in Reachable /\ dom_pre[idom[c]] < dom_pre[c] /\ dom_post[c] < dom_post[idom[c]]
      BY <1>2, WalkFacts
    <3> QED BY <1>4, <3>1
  <2>4. a \in S
    BY <2>1, <2>2, <2>3 DEF Above
  <2> QED BY <2>4 DEF Dominates
<1> QED BY <1>5, <1>6

-----------------------------------------------------------------------------
(* The theorems *)

\* The strengthening holds from the start of the walk to the end of the
\* numbering, whatever the graph and the order blocks are visited in.
THEOREM Invariance ==
  ASSUME Root \in Block
  PROVE  Spec => []IInv
<1>1. Init => IInv
  BY InitOK DEF Init
<1>2. IInv /\ [Next]_vars => IInv'
  BY NextKeeps
<1> QED BY <1>1, <1>2, PTL DEF Spec

\* compute_immediate_dominators finds the immediate dominator of every
\* reachable block but the entry, whether the graph is reducible or not.
THEOREM DominatorsAlwaysFound ==
  ASSUME Root \in Block
  PROVE  Spec => []ImmediateDominatorsFound
<1>1. Spec => []IInv
  BY Invariance
<1>2. IInv => ImmediateDominatorsFound
  BY FoundInInvariant
<1> QED BY <1>1, <1>2, PTL

\* dominates(), one comparison of intervals, says what paths say.
THEOREM IntervalsAlwaysDecide ==
  ASSUME Root \in Block
  PROVE  Spec => []IntervalsDecide
<1>1. Spec => []IInv
  BY Invariance
<1>2. IInv => IntervalsDecide
  BY IntervalsInInvariant
<1> QED BY <1>1, <1>2, PTL
=============================================================================
