--------------------------- MODULE OIRMem2RegProofs ---------------------------
(***************************************************************************)
(* Proofs about the promotion of cells, for every function it may be       *)
(* given: it reads a dominator tree that is right.                         *)
(***************************************************************************)
EXTENDS OIRMem2Reg, SequenceTheorems, FiniteSetTheorems, TLAPS

DTP == INSTANCE DominatorTreeProofs WITH
          Block <- Labels, Root <- EntryLabel, Graphs <- {},
          phase <- tree_phase, stack <- tree_stack, changed <- moved

-----------------------------------------------------------------------------
(* The tree *)

\* The two instances name the same things.
LEMMA SameNames ==
  /\ DT!Top = DTP!Top /\ DT!rpo = DTP!rpo
  /\ \A b : DT!Successors(b) = DTP!Successors(b) /\ DT!Predecessors(b) = DTP!Predecessors(b)
  /\ \A b : DT!Index(b) = DTP!Index(b)
  /\ \A b : DT!Processed(b) = DTP!Processed(b) /\ DT!Children(b) = DTP!Children(b)
  /\ \A g, b, x : DT!With(g, b, x) = DTP!With(g, b, x)
<1>1. DT!Top = DTP!Top /\ DT!rpo = DTP!rpo
  BY DEF DT!Top, DTP!Top, DT!rpo, DTP!rpo, DT!Last, DTP!Last, DT!Reverse, DTP!Reverse
<1>2. \A b : DT!Successors(b) = DTP!Successors(b) /\ DT!Predecessors(b) = DTP!Predecessors(b)
  BY DEF DT!Successors, DTP!Successors, DT!Predecessors, DTP!Predecessors
<1>3. \A b : DT!Index(b) = DTP!Index(b)
  BY <1>1 DEF DT!Index, DTP!Index
<1>4. \A b : DT!Processed(b) = DTP!Processed(b) /\ DT!Children(b) = DTP!Children(b)
  BY <1>2 DEF DT!Processed, DTP!Processed, DT!Children, DTP!Children
<1>5. \A g, b, x : DT!With(g, b, x) = DTP!With(g, b, x)
  BY DEF DT!With, DTP!With
<1> QED BY <1>1, <1>2, <1>3, <1>4, <1>5

\* Of the steps of the pass only FindTree touches the tree.
LEMMA TreeSteps ==
  ASSUME [Next]_vars
  PROVE  [DTP!Next]_(DTP!vars)
<1>1. CASE FindTree
  <2>1. \A b \in Labels : DT!DfsEnter(b) => DTP!DfsEnter(b)
    BY SameNames DEF DT!DfsEnter, DTP!DfsEnter, DT!dfsVars, DTP!dfsVars,
       DT!meetVars, DTP!meetVars, DT!numberVars, DTP!numberVars
  <2>2. DT!DfsLeave => DTP!DfsLeave
    BY SameNames DEF DT!DfsLeave, DTP!DfsLeave, DT!Front, DTP!Front, DT!dfsVars, DTP!dfsVars,
       DT!meetVars, DTP!meetVars, DT!numberVars, DTP!numberVars
  <2>3. DT!StartSweeps => DTP!StartSweeps
    BY SameNames DEF DT!StartSweeps, DTP!StartSweeps, DT!dfsVars, DTP!dfsVars,
       DT!meetVars, DTP!meetVars, DT!numberVars, DTP!numberVars
  <2>4. DT!SkipBlock => DTP!SkipBlock
    BY SameNames DEF DT!SkipBlock, DTP!SkipBlock, DT!dfsVars, DTP!dfsVars,
       DT!meetVars, DTP!meetVars, DT!numberVars, DTP!numberVars
  <2>5. \A b \in Labels : DT!FirstPredecessor(b) => DTP!FirstPredecessor(b)
    BY SameNames DEF DT!FirstPredecessor, DTP!FirstPredecessor, DT!dfsVars, DTP!dfsVars,
       DT!meetVars, DTP!meetVars, DT!numberVars, DTP!numberVars
  <2>6. \A b \in Labels : DT!NextPredecessor(b) => DTP!NextPredecessor(b)
    BY SameNames DEF DT!NextPredecessor, DTP!NextPredecessor, DT!dfsVars, DTP!dfsVars,
       DT!meetVars, DTP!meetVars, DT!numberVars, DTP!numberVars
  <2>7. DT!Climb => DTP!Climb
    BY SameNames DEF DT!Climb, DTP!Climb, DT!dfsVars, DTP!dfsVars,
       DT!meetVars, DTP!meetVars, DT!numberVars, DTP!numberVars
  <2>8. DT!EndBlock => DTP!EndBlock
    BY SameNames DEF DT!EndBlock, DTP!EndBlock, DT!dfsVars, DTP!dfsVars,
       DT!meetVars, DTP!meetVars, DT!numberVars, DTP!numberVars
  <2>9. DT!SweepAgain => DTP!SweepAgain
    BY SameNames DEF DT!SweepAgain, DTP!SweepAgain, DT!dfsVars, DTP!dfsVars,
       DT!meetVars, DTP!meetVars, DT!numberVars, DTP!numberVars
  <2>10. DT!EndSweeps => DTP!EndSweeps
    BY SameNames DEF DT!EndSweeps, DTP!EndSweeps, DT!dfsVars, DTP!dfsVars,
       DT!meetVars, DTP!meetVars, DT!numberVars, DTP!numberVars
  <2>11. \A b \in Labels : DT!NumberEnter(b) => DTP!NumberEnter(b)
    BY SameNames DEF DT!NumberEnter, DTP!NumberEnter, DT!dfsVars, DTP!dfsVars,
       DT!meetVars, DTP!meetVars, DT!numberVars, DTP!numberVars
  <2>12. DT!NumberLeave => DTP!NumberLeave
    BY SameNames DEF DT!NumberLeave, DTP!NumberLeave, DT!Front, DTP!Front, DT!dfsVars, DTP!dfsVars,
       DT!meetVars, DTP!meetVars, DT!numberVars, DTP!numberVars
  <2>13. DT!Finish => DTP!Finish
    BY SameNames DEF DT!Finish, DTP!Finish, DT!dfsVars, DTP!dfsVars,
       DT!meetVars, DTP!meetVars, DT!numberVars, DTP!numberVars
  <2> QED
    BY <1>1, <2>1, <2>2, <2>3, <2>4, <2>5, <2>6, <2>7, <2>8, <2>9, <2>10, <2>11, <2>12, <2>13
       DEF FindTree, DT!Next, DTP!Next
<1>2. CASE UNCHANGED tree
  BY <1>2 DEF tree, DTP!vars, DTP!dfsVars, DTP!meetVars, DTP!numberVars
<1> QED
  BY <1>1, <1>2 DEF Next, vars, Collect, StartPlacing, PlaceOne, PlaceFor, StartRenaming, RenameChild,
     RenameFrom, Return, Finish

\* What is right of the one is right of the other.
LEMMA SameProperties ==
  /\ DTP!ImmediateDominatorsFound => DT!ImmediateDominatorsFound
  /\ DTP!IntervalsDecide => DT!IntervalsDecide
<1>1. DT!Reachable = DTP!Reachable
  BY SameNames DEF DT!Reachable, DTP!Reachable
<1>2. \A a : DT!ReachableWithout(a) = DTP!ReachableWithout(a)
  BY SameNames DEF DT!ReachableWithout, DTP!ReachableWithout, DT!ClosedWithout, DTP!ClosedWithout
<1>3. \A a, b : DT!OnEveryPath(a, b) <=> DTP!OnEveryPath(a, b)
  BY <1>2 DEF DT!OnEveryPath, DTP!OnEveryPath
<1>4. \A a, b : DT!Immediate(a, b) <=> DTP!Immediate(a, b)
  BY <1>1, <1>3 DEF DT!Immediate, DTP!Immediate
<1>5. \A a, b : DT!Dominates(a, b) <=> DTP!Dominates(a, b)
  BY <1>1 DEF DT!Dominates, DTP!Dominates
<1>6. DTP!ImmediateDominatorsFound => DT!ImmediateDominatorsFound
  BY <1>1, <1>4 DEF DT!ImmediateDominatorsFound, DTP!ImmediateDominatorsFound
<1>7. DTP!IntervalsDecide => DT!IntervalsDecide
  BY <1>1, <1>3, <1>5 DEF DT!IntervalsDecide, DTP!IntervalsDecide
<1> QED BY <1>6, <1>7

\* The tree FindTree builds inside the pass is under the invariant of its own
\* construction all along.
THEOREM TreeInvariance == Spec => []DTP!IInv
<1>1. EntryLabel \in Labels
  BY EntryAssumption
<1>2. Init => DTP!IInv
  <2>1. DT!Begin => DTP!Begin
    BY DEF DT!Begin, DTP!Begin
  <2> QED BY <1>1, <2>1, DTP!InitOK DEF Init
<1>3. DTP!IInv /\ [Next]_vars => DTP!IInv'
  BY TreeSteps, DTP!NextKeeps
<1> QED BY <1>2, <1>3, PTL DEF Spec

\* When promotion begins, the tree it reads gives every reachable block its
\* immediate dominator.
THEOREM TreeAlwaysFound == Spec => []TreeFound
<1>1. DTP!IInv => TreeFound
  BY DTP!FoundInInvariant, SameProperties DEF TreeFound
<1> QED BY <1>1, TreeInvariance, PTL

\* And one comparison of the intervals of two blocks says whether one is on
\* every path to the other.
THEOREM IntervalsAlwaysDecide == Spec => []IntervalsDecide
<1>1. DTP!IInv => IntervalsDecide
  BY DTP!IntervalsInInvariant, SameProperties DEF IntervalsDecide
<1> QED BY <1>1, TreeInvariance, PTL

-----------------------------------------------------------------------------
(* The phis *)

\* What keeps its shape while phis and their entries are added.
Shaped(s) ==
  /\ s \in Seq(ToSet(s))
  /\ \A i \in ToSet(s) : DOMAIN i = {"op", "id", "bits", "args", "to"}
ShapeOK ==
  phase # "done" =>
    /\ DOMAIN f = {"order", "body"} /\ DOMAIN f.body = Blocks(f)
    /\ \A b \in Blocks(f) : Shaped(f.body[b])

CollectOK ==
  phase = "collect" =>
    f \in Programs /\ allocas = {} /\ placing = 0 /\ worklist = {} /\ phis = {}

\* The cells are done in order, and of the one at hand every definition is in
\* the queue; those taken out of it have their frontier.
Closed(a) == \A b \in DefinedIn(a) : \A d \in frontiers[b] : HasPhi(a, d)
PlacingOK ==
  phase \in {"place", "rename"} =>
    /\ allocas \subseteq Nat \ {0} /\ placing \in Nat
    /\ \A a, b : HasPhi(a, b) => a \in Nat /\ a <= placing
    /\ \A a \in allocas : a < placing => Closed(a)
    /\ placing \notin allocas => worklist = {}
    /\ placing \in allocas =>
          /\ DefinedIn(placing) \subseteq queued
          /\ \A b \in queued \ worklist : \A d \in frontiers[b] : HasPhi(placing, d)

RenamingOK == phase = "rename" => worklist = {} /\ Unplaced = {}

PhiInv ==
  /\ phase \in {"collect", "place", "rename", "done"}
  /\ ShapeOK /\ CollectOK /\ PlacingOK /\ RenamingOK

Stores(s, a) == \E i \in ToSet(s) : i.op = "store" /\ Val(a) \in ToSet(i.args)

\* The blocks that define a cell are those with a store of it.
LEMMA DefBlocksAre ==
  /\ \A a : DefBlocks(a) = {b \in Blocks(f) : Stores(f.body[b], a)}
  /\ \A a : DefBlocks(a)' = {b \in Blocks(f') : Stores(f'.body[b], a)}
<1>1. ASSUME NEW a PROVE DefBlocks(a) = {b \in Blocks(f) : Stores(f.body[b], a)}
  <2>1. ASSUME NEW b \in DefBlocks(a) PROVE b \in Blocks(f) /\ Stores(f.body[b], a)
    <3>1. PICK q \in Places : b = q[1] /\ Val(a) \in ToSet(At(q).args) /\ At(q).op = "store"
      BY DEF DefBlocks, Users
    <3>2. PICK c \in Blocks(f) : q \in {c} \X DOMAIN f.body[c]
      BY DEF Places
    <3>3. b = c /\ q[2] \in DOMAIN f.body[b] /\ At(q) = f.body[b][q[2]]
      BY <3>1, <3>2 DEF At
    <3>4. At(q) \in ToSet(f.body[b])
      BY <3>3 DEF ToSet
    <3> QED BY <3>1, <3>2, <3>3, <3>4 DEF Stores
  <2>2. ASSUME NEW b \in Blocks(f), Stores(f.body[b], a) PROVE b \in DefBlocks(a)
    <3>1. PICK k \in DOMAIN f.body[b] :
            f.body[b][k].op = "store" /\ Val(a) \in ToSet(f.body[b][k].args)
      BY <2>2 DEF Stores, ToSet
    <3>2. <<b, k>> \in Places
      BY <3>1 DEF Places
    <3>3. At(<<b, k>>) = f.body[b][k]
      BY DEF At
    <3> QED BY <3>1, <3>2, <3>3 DEF DefBlocks, Users
  <2> QED BY <2>1, <2>2
<1>2. ASSUME NEW a PROVE DefBlocks(a)' = {b \in Blocks(f') : Stores(f'.body[b], a)}
  <2>1. ASSUME NEW b \in DefBlocks(a)' PROVE b \in Blocks(f') /\ Stores(f'.body[b], a)
    <3>1. PICK q \in Places' : b = q[1] /\ Val(a) \in ToSet(f'.body[q[1]][q[2]].args)
                               /\ f'.body[q[1]][q[2]].op = "store"
      BY DEF DefBlocks, Users, At
    <3>2. PICK c \in Blocks(f') : q \in {c} \X DOMAIN f'.body[c]
      BY DEF Places
    <3>3. b = c /\ q[2] \in DOMAIN f'.body[b]
      BY <3>1, <3>2
    <3>4. f'.body[b][q[2]] \in ToSet(f'.body[b])
      BY <3>3 DEF ToSet
    <3> QED BY <3>1, <3>2, <3>3, <3>4 DEF Stores
  <2>2. ASSUME NEW b \in Blocks(f'), Stores(f'.body[b], a) PROVE b \in DefBlocks(a)'
    <3>1. PICK k \in DOMAIN f'.body[b] :
            f'.body[b][k].op = "store" /\ Val(a) \in ToSet(f'.body[b][k].args)
      BY <2>2 DEF Stores, ToSet
    <3>2. <<b, k>> \in Places'
      BY <3>1 DEF Places
    <3> QED BY <3>1, <3>2 DEF DefBlocks, Users, At
  <2> QED BY <2>1, <2>2
<1> QED BY <1>1, <1>2

\* Adding a phi keeps the shape of a block and its stores.
LEMMA InsertedPhi ==
  ASSUME NEW s, Shaped(s), NEW id
  PROVE  /\ Shaped(InsertPhi(s, id))
         /\ \A a : Stores(InsertPhi(s, id), a) <=> Stores(s, a)
         /\ ToSet(InsertPhi(s, id)) = ToSet(s) \cup {Phi(id, <<>>, <<>>)}
<1> DEFINE at == Min(NotAPhiAt(s))
           phi == Phi(id, <<>>, <<>>)
           S == ToSet(s) \cup {phi}
           before == SubSeq(s, 1, at - 1)
           after == SubSeq(s, at, Len(s))
           t == InsertPhi(s, id)
<1>1. Len(s) \in Nat /\ DOMAIN s = 1 .. Len(s) /\ \A k \in 1 .. Len(s) : s[k] \in ToSet(s)
  BY DEF Shaped, ToSet
<1>2. NotAPhiAt(s) \in SUBSET Nat /\ Len(s) + 1 \in NotAPhiAt(s)
  BY <1>1 DEF NotAPhiAt
<1>3. at \in NotAPhiAt(s)
  BY <1>2, DTP!LeastMember DEF Min
<1>4. at \in 1 .. Len(s) + 1
  BY <1>3 DEF NotAPhiAt
<1>5. t = before \o <<phi>> \o after
  BY DEF InsertPhi, InsertAt
<1>6. phi = [op |-> "phi", id |-> id, bits |-> W, args |-> <<>>, to |-> <<>>]
  BY DEF Phi, Instr
<1> HIDE DEF phi, at, t, S
<1>7. /\ before \in Seq(S) /\ Len(before) = at - 1
      /\ \A k \in 1 .. at - 1 : before[k] = s[k]
  <2>1. \A k \in 1 .. at - 1 : s[k] \in S
    BY <1>1, <1>4 DEF S
  <2>2. 1 \in Int /\ at - 1 \in Int
    BY <1>4
  <2> QED BY <1>4, <2>1, <2>2, SubSeqProperties
<1>8. /\ after \in Seq(S) /\ Len(after) = Len(s) + 1 - at
      /\ \A k \in 1 .. Len(s) + 1 - at : after[k] = s[at + k - 1]
  <2>1. \A k \in at .. Len(s) : s[k] \in S
    BY <1>1, <1>4 DEF S
  <2>2. at \in Int /\ Len(s) \in Int
    BY <1>1, <1>4
  <2> QED BY <1>1, <1>4, <2>1, <2>2, SubSeqProperties
<1> HIDE DEF before, after
<1>9. <<phi>> \in Seq(S) /\ Len(<<phi>>) = 1 /\ <<phi>>[1] = phi
  BY DEF S
<1>10. DEFINE both == before \o <<phi>>
<1>11. /\ both \in Seq(S) /\ Len(both) = at
       /\ \A k \in 1 .. at : both[k] = IF k <= at - 1 THEN s[k] ELSE phi
  <2>1. both \in Seq(S) /\ Len(both) = Len(before) + Len(<<phi>>)
    BY <1>7, <1>9, ConcatProperties
  <2>2. \A k \in 1 .. Len(before) + Len(<<phi>>) :
           both[k] = IF k <= Len(before) THEN before[k] ELSE <<phi>>[k - Len(before)]
    BY <1>7, <1>9, ConcatProperties
  <2> HIDE DEF both
  <2>3. Len(both) = at
    BY <2>1, <1>4, <1>7, <1>9
  <2>4. ASSUME NEW k \in 1 .. at PROVE both[k] = IF k <= at - 1 THEN s[k] ELSE phi
    <3>1. both[k] = IF k <= at - 1 THEN before[k] ELSE <<phi>>[k - (at - 1)]
      BY <2>2, <1>4, <1>7, <1>9
    <3>2. CASE k <= at - 1
      BY <3>1, <3>2, <1>4, <1>7
    <3>3. CASE k = at
      <4>1. k - (at - 1) = 1 /\ ~ (k <= at - 1)
        BY <3>3, <1>4
      <4> QED BY <3>1, <4>1, <1>9
    <3> QED BY <3>2, <3>3, <1>4
  <2> QED BY <2>1, <2>3, <2>4
<1> HIDE DEF both
<1>12. t = both \o after
  BY <1>5 DEF both
<1>13. t \in Seq(S) /\ Len(t) = Len(s) + 1
  <2>1. t \in Seq(S) /\ Len(t) = Len(both) + Len(after)
    BY <1>8, <1>11, <1>12, ConcatProperties
  <2> QED BY <2>1, <1>1, <1>4, <1>8, <1>11
<1>14. \A k \in 1 .. Len(s) + 1 : t[k] = IF k < at THEN s[k] ELSE IF k = at THEN phi ELSE s[k - 1]
  <2>1. \A k \in 1 .. Len(both) + Len(after) :
           t[k] = IF k <= Len(both) THEN both[k] ELSE after[k - Len(both)]
    BY <1>8, <1>11, <1>12, ConcatProperties
  <2> TAKE k \in 1 .. Len(s) + 1
  <2>2. t[k] = IF k <= at THEN both[k] ELSE after[k - at]
    BY <2>1, <1>1, <1>4, <1>8, <1>11
  <2>3. CASE k <= at
    BY <2>2, <2>3, <1>4, <1>11
  <2>4. CASE k > at
    <3>1. k - at \in 1 .. Len(s) + 1 - at /\ at + (k - at) - 1 = k - 1
      BY <2>4, <1>1, <1>4
    <3>2. after[k - at] = s[k - 1]
      BY <3>1, <1>8
    <3> QED BY <2>2, <2>4, <3>2, <1>4
  <2> QED BY <2>3, <2>4, <1>4
<1>15. ToSet(t) = S
  <2>1. DOMAIN t = 1 .. Len(s) + 1
    BY <1>13
  <2>2. ToSet(t) \subseteq S
    BY <1>13 DEF ToSet
  <2>3. phi \in ToSet(t)
    <3>1. t[at] = phi /\ at \in DOMAIN t
      BY <1>4, <1>14, <2>1
    <3> QED BY <3>1 DEF ToSet
  <2>4. ASSUME NEW i \in ToSet(s) PROVE i \in ToSet(t)
    <3>1. PICK k \in 1 .. Len(s) : s[k] = i
      BY <1>1 DEF ToSet
    <3>2. CASE k < at
      <4>1. t[k] = i /\ k \in DOMAIN t
        BY <3>1, <3>2, <1>1, <1>14, <2>1
      <4> QED BY <4>1 DEF ToSet
    <3>3. CASE k >= at
      <4>1. k + 1 \in 1 .. Len(s) + 1 /\ ~ (k + 1 < at) /\ k + 1 # at /\ (k + 1) - 1 = k
        BY <3>3, <1>1, <1>4
      <4>2. t[k + 1] = i /\ k + 1 \in DOMAIN t
        BY <3>1, <4>1, <1>14, <2>1
      <4> QED BY <4>2 DEF ToSet
    <3> QED BY <3>2, <3>3, <1>4
  <2> QED BY <2>2, <2>3, <2>4 DEF S
<1>16. Shaped(t)
  <2>1. DOMAIN phi = {"op", "id", "bits", "args", "to"}
    BY <1>6
  <2>2. \A i \in ToSet(t) : DOMAIN i = {"op", "id", "bits", "args", "to"}
    BY <2>1, <1>15 DEF S, Shaped
  <2> QED BY <2>2, <1>13, <1>15 DEF Shaped
<1>17. \A a : Stores(t, a) <=> Stores(s, a)
  <2>1. phi.op # "store"
    BY <1>6
  <2> QED BY <2>1, <1>15 DEF S, Stores
<1> QED BY <1>15, <1>16, <1>17 DEF t, S, phi

\* Entries added to phis keep the shape of a block and its stores too.
LEMMA AddedEntries ==
  ASSUME NEW s, Shaped(s), NEW t, t = [k \in DOMAIN s |-> t[k]],
         \A k \in DOMAIN s : t[k] = s[k] \/
            (IsPhi(s[k]) /\ \E v, b : t[k] = AddIncoming(s[k], v, b))
  PROVE  /\ Shaped(t)
         /\ \A a : Stores(t, a) <=> Stores(s, a)
         /\ IdsIn(t) = IdsIn(s)
         /\ \A i \in ToSet(t) : IsPhi(i) \/ i \in ToSet(s)
<1>1. Len(s) \in Nat /\ DOMAIN s = 1 .. Len(s) /\ DOMAIN t = DOMAIN s
  BY DEF Shaped
<1>2. \A k \in DOMAIN s : DOMAIN s[k] = {"op", "id", "bits", "args", "to"}
  BY DEF Shaped, ToSet
<1>3. \A k \in DOMAIN s : t[k] # s[k] =>
         /\ DOMAIN t[k] = {"op", "id", "bits", "args", "to"}
         /\ t[k].op = "phi" /\ s[k].op = "phi" /\ t[k].id = s[k].id
  <2> TAKE k \in DOMAIN s
  <2> HAVE t[k] # s[k]
  <2>1. PICK v, b : t[k] = AddIncoming(s[k], v, b)
    OBVIOUS
  <2>2. s[k].op = "phi"
    BY DEF IsPhi
  <2>3. DOMAIN s[k] = {"op", "id", "bits", "args", "to"}
    BY <1>2
  <2> QED BY <2>1, <2>2, <2>3 DEF AddIncoming
<1>4. \A k \in DOMAIN t : DOMAIN t[k] = {"op", "id", "bits", "args", "to"}
  BY <1>1, <1>2, <1>3
<1>5. t \in Seq(ToSet(t))
  <2>1. t \in [1 .. Len(s) -> ToSet(t)]
    BY <1>1 DEF ToSet
  <2> QED BY <2>1, <1>1, SeqDef
<1>6. Shaped(t)
  BY <1>4, <1>5 DEF Shaped, ToSet
<1>7. ASSUME NEW a PROVE Stores(t, a) <=> Stores(s, a)
  <2>1. ASSUME NEW k \in DOMAIN s
        PROVE  (t[k].op = "store" /\ Val(a) \in ToSet(t[k].args)) <=>
               (s[k].op = "store" /\ Val(a) \in ToSet(s[k].args))
    BY <1>3
  <2> QED BY <1>1, <2>1 DEF Stores, ToSet
<1>8. \A k \in DOMAIN s : t[k].id = s[k].id
  BY <1>3
<1>9. IdsIn(t) = IdsIn(s)
  BY <1>1, <1>8 DEF IdsIn, ToSet
<1>10. \A i \in ToSet(t) : IsPhi(i) \/ i \in ToSet(s)
  BY <1>1, <1>3 DEF IsPhi, ToSet
<1> QED BY <1>6, <1>7, <1>9, <1>10

\* A step that keeps the shape and the stores of every block keeps where the
\* cells are defined but for their phis.
LEMMA SameStores ==
  ASSUME ShapeOK, phase # "done", NEW body,
         f' = [f EXCEPT !.body = body], DOMAIN body = Blocks(f),
         \A b \in Blocks(f) : Shaped(body[b]) /\ \A a : Stores(body[b], a) <=> Stores(f.body[b], a)
  PROVE  /\ ShapeOK'
         /\ Blocks(f') = Blocks(f)
         /\ \A a : DefBlocks(a)' = DefBlocks(a)
<1>1. DOMAIN f = {"order", "body"}
  BY DEF ShapeOK
<1>2. DOMAIN f' = {"order", "body"} /\ f'.body = body /\ f'.order = f.order
  BY <1>1
<1>3. Blocks(f') = Blocks(f)
  BY <1>2 DEF Blocks
<1>4. ShapeOK'
  BY <1>2, <1>3 DEF ShapeOK
<1>5. \A a : DefBlocks(a)' = DefBlocks(a)
  BY <1>2, <1>3, DefBlocksAre
<1> QED BY <1>3, <1>4, <1>5

LEMMA PhiInit == Init => PhiInv
<1> SUFFICES ASSUME Init PROVE PhiInv
  OBVIOUS
<1>1. f \in Programs /\ phase = "collect" /\ allocas = {} /\ placing = 0 /\ worklist = {} /\ phis = {}
  BY DEF Init
<1>2. IsFunction(f)
  BY <1>1, ProgramsAssumption
<1>3. ShapeOK
  BY <1>2 DEF ShapeOK, IsFunction, IsBody, Shaped
<1> QED BY <1>1, <1>3 DEF PhiInv, CollectOK, PlacingOK, RenamingOK

LEMMA CollectKeeps ==
  ASSUME PhiInv, Collect
  PROVE  PhiInv'
<1>1. f \in Programs /\ placing = 0 /\ worklist = {} /\ phis = {}
  BY DEF PhiInv, CollectOK, Collect
<1>2. /\ f' = f /\ placing' = 0 /\ worklist' = {} /\ phis' = {} /\ allocas' = Promotable
      /\ phase' \in {"done", "place"} /\ phase # "done"
  BY <1>1 DEF Collect
<1>3. Promotable \subseteq Nat \ {0}
  <2>1. IsFunction(f)
    BY <1>1, ProgramsAssumption
  <2>2. Entry(f) \in Blocks(f)
    <3>1. Len(f.order) \in Nat /\ DOMAIN f.order = 1 .. Len(f.order) /\ Len(f.order) # 0
      BY <2>1 DEF IsFunction
    <3>2. 1 \in DOMAIN f.order
      BY <3>1
    <3> QED BY <3>2 DEF Entry, Blocks, ToSet
  <2>3. \A i \in ToSet(f.body[Entry(f)]) : i.op = "alloca" => i.id \in Nat \ {0}
    BY <2>1, <2>2 DEF IsFunction, IsBody
  <2> QED BY <2>3 DEF Promotable, Cells
<1>4. ShapeOK'
  BY <1>2 DEF PhiInv, ShapeOK
<1>5. PlacingOK'
  <2>1. \A a \in allocas' : ~ (a < placing')
    BY <1>2, <1>3
  <2>2. placing' \notin allocas'
    BY <1>2, <1>3
  <2>3. \A a, b : ~ HasPhi(a, b)'
    BY <1>2 DEF HasPhi
  <2> QED BY <1>2, <1>3, <2>1, <2>2, <2>3 DEF PlacingOK
<1> QED BY <1>2, <1>4, <1>5 DEF PhiInv, CollectOK, RenamingOK

LEMMA StartPlacingKeeps ==
  ASSUME PhiInv, StartPlacing
  PROVE  PhiInv'
<1>1. /\ phase = "place" /\ phase' = "place" /\ worklist = {} /\ f' = f /\ phis' = phis
      /\ allocas' = allocas /\ frontiers' = frontiers
      /\ worklist' = DefBlocks(placing') /\ queued' = worklist'
  BY DEF StartPlacing
<1>2. /\ allocas \subseteq Nat \ {0} /\ placing \in Nat
      /\ \A a, b : HasPhi(a, b) => a \in Nat /\ a <= placing
      /\ \A a \in allocas : a < placing => Closed(a)
      /\ placing \in allocas =>
            /\ DefinedIn(placing) \subseteq queued
            /\ \A b \in queued : \A d \in frontiers[b] : HasPhi(placing, d)
  BY <1>1 DEF PhiInv, PlacingOK
<1>3. PICK next_cell : next_cell = Min(Unplaced)
  OBVIOUS
<1>4. Unplaced # {} /\ Unplaced \in SUBSET Nat
  BY <1>2 DEF StartPlacing, Unplaced
<1>5. next_cell \in Unplaced /\ \A a \in Unplaced : next_cell <= a
  BY <1>3, <1>4, DTP!LeastMember DEF Min
<1>6. placing' = next_cell /\ next_cell \in allocas /\ next_cell \in Nat /\ placing < next_cell
  BY <1>2, <1>3, <1>5 DEF StartPlacing, Unplaced
<1>7. \A a \in allocas : a < next_cell => Closed(a)
  <2> TAKE a \in allocas
  <2> HAVE a < next_cell
  <2>1. a \in Nat /\ a <= placing
    BY <1>2, <1>5, <1>6 DEF Unplaced
  <2>2. CASE a < placing
    BY <1>2, <2>2
  <2>3. CASE a = placing
    BY <1>2, <2>3 DEF Closed
  <2> QED BY <1>2, <2>1, <2>2, <2>3
<1>8. \A a, b : HasPhi(a, b)' <=> HasPhi(a, b)
  BY <1>1 DEF HasPhi
<1>9. \A a : DefBlocks(a)' = DefBlocks(a)
  BY <1>1, DefBlocksAre
<1>10. \A a : Closed(a) => Closed(a)'
  BY <1>1, <1>8, <1>9 DEF Closed, DefinedIn
<1>11. \A b : ~ HasPhi(next_cell, b)
  BY <1>2, <1>6
<1>12. DefinedIn(placing)' \subseteq queued'
  <2>1. queued' = DefBlocks(next_cell)
    BY <1>1, <1>6
  <2>2. DefinedIn(next_cell)' \subseteq DefBlocks(next_cell)
    BY <1>8, <1>9, <1>11 DEF DefinedIn
  <2>3. DefinedIn(placing)' = DefinedIn(next_cell)'
    BY <1>6
  <2> QED BY <2>1, <2>2, <2>3
<1>13. queued' \ worklist' = {}
  BY <1>1
<1>14. \A a, b : HasPhi(a, b)' => a \in Nat /\ a <= placing'
  BY <1>2, <1>6, <1>8
<1>15. PlacingOK'
  BY <1>1, <1>2, <1>6, <1>7, <1>10, <1>12, <1>13, <1>14 DEF PlacingOK
<1>16. ShapeOK'
  BY <1>1 DEF PhiInv, ShapeOK
<1> QED BY <1>1, <1>15, <1>16 DEF PhiInv, CollectOK, RenamingOK

LEMMA PlaceKeeps ==
  ASSUME PhiInv, NEW x \in worklist, PlaceFor(x)
  PROVE  PhiInv'
<1> DEFINE new == {d \in frontiers[x] : ~HasPhi(placing, d)}
           body == [d \in DOMAIN f.body |->
                      IF d \in new THEN InsertPhi(f.body[d], PhiId(placing, d)) ELSE f.body[d]]
<1>1. PICK cell : cell = placing
  OBVIOUS
<1>2. /\ phase = "place" /\ phase' = "place" /\ phis' = phis \cup ({cell} \X new)
      /\ allocas' = allocas /\ frontiers' = frontiers /\ placing' = cell
      /\ worklist' = (worklist \ {x}) \cup (new \ queued) /\ queued' = queued \cup new
  BY <1>1 DEF PlaceFor, Requeued
<1>3. f' = [f EXCEPT !.body = body]
  BY DEF PlaceFor
<1>4. /\ allocas \subseteq Nat \ {0} /\ cell \in Nat /\ cell \in allocas
      /\ \A a, b : HasPhi(a, b) => a \in Nat /\ a <= cell
      /\ \A a \in allocas : a < cell => Closed(a)
      /\ DefinedIn(cell) \subseteq queued
      /\ \A b \in queued \ worklist : \A d \in frontiers[b] : HasPhi(cell, d)
  BY <1>1, <1>2 DEF PhiInv, PlacingOK
<1>5. /\ DOMAIN f.body = Blocks(f) /\ \A b \in Blocks(f) : Shaped(f.body[b])
  BY <1>2 DEF PhiInv, ShapeOK
<1>6. /\ DOMAIN body = Blocks(f)
      /\ \A b \in Blocks(f) : Shaped(body[b]) /\ \A a : Stores(body[b], a) <=> Stores(f.body[b], a)
  <2>1. ASSUME NEW b \in Blocks(f)
        PROVE  Shaped(body[b]) /\ \A a : Stores(body[b], a) <=> Stores(f.body[b], a)
    <3>1. CASE b \in new
      BY <3>1, <1>5, InsertedPhi
    <3>2. CASE b \notin new
      BY <3>2, <1>5
    <3> QED BY <3>1, <3>2
  <2> QED BY <2>1, <1>5
<1>7. ShapeOK' /\ Blocks(f') = Blocks(f) /\ \A a : DefBlocks(a)' = DefBlocks(a)
  <2> HIDE DEF body
  <2> QED BY <1>2, <1>3, <1>6, SameStores DEF PhiInv
<1>8. \A a, b : HasPhi(a, b)' <=> HasPhi(a, b) \/ (a = cell /\ b \in new)
  BY <1>2 DEF HasPhi
<1>9. \A a, b : HasPhi(a, b)' => a \in Nat /\ a <= placing'
  BY <1>2, <1>4, <1>8
<1>10. \A a \in allocas' : a < placing' => Closed(a)'
  <2> TAKE a \in allocas'
  <2> HAVE a < placing'
  <2>1. a \in allocas /\ a # cell /\ Closed(a)
    BY <1>2, <1>4
  <2>2. \A b : HasPhi(a, b)' <=> HasPhi(a, b)
    BY <1>8, <2>1
  <2>3. DefinedIn(a)' = DefinedIn(a)
    BY <1>7, <2>2 DEF DefinedIn
  <2> QED BY <1>2, <2>1, <2>2, <2>3 DEF Closed
<1>11. \A d \in frontiers[x] : HasPhi(cell, d)'
  BY <1>1, <1>8
<1>12. DefinedIn(cell)' \subseteq queued'
  BY <1>2, <1>4, <1>7, <1>8 DEF DefinedIn
<1>13. \A b \in queued' \ worklist' : \A d \in frontiers[b] : HasPhi(cell, d)'
  <2> TAKE b \in queued' \ worklist'
  <2>1. b = x \/ b \in queued \ worklist
    BY <1>2
  <2> QED BY <2>1, <1>4, <1>8, <1>11
<1>14. PlacingOK'
  <2> HIDE DEF new, body
  <2> QED BY <1>2, <1>4, <1>9, <1>10, <1>12, <1>13 DEF PlacingOK
<1> QED BY <1>2, <1>7, <1>14 DEF PhiInv, CollectOK, RenamingOK

\* What the phis of the successors get changes nothing else.
OnlyPhisOf(s, t) ==
  /\ Shaped(t) /\ \A a : Stores(t, a) <=> Stores(s, a)
  /\ IdsIn(t) = IdsIn(s)
  /\ \A i \in ToSet(t) : IsPhi(i) \/ i \in ToSet(s)
LEMMA IncomingAdded ==
  ASSUME ShapeOK, phase # "done", NEW b, NEW cur
  PROVE  \E body : /\ WithIncoming(b, cur) = [f EXCEPT !.body = body] /\ DOMAIN body = Blocks(f)
                   /\ \A s \in Blocks(f) : OnlyPhisOf(f.body[s], body[s])
<1> DEFINE Entries(s, k) ==
             IF IsPhi(f.body[s][k]) /\ \E a \in allocas : HasPhi(a, s) /\ PhiId(a, s) = f.body[s][k].id
             THEN AddIncoming(f.body[s][k],
                     Holds(cur, CHOOSE a \in allocas : PhiId(a, s) = f.body[s][k].id), b)
             ELSE f.body[s][k]
           body == [s \in DOMAIN f.body |->
             IF s \notin SuccessorSet(f, b) THEN f.body[s]
             ELSE [k \in DOMAIN f.body[s] |-> Entries(s, k)]]
<1>1. WithIncoming(b, cur) = [f EXCEPT !.body = body]
  BY DEF WithIncoming
<1>2. DOMAIN f.body = Blocks(f) /\ \A s \in Blocks(f) : Shaped(f.body[s])
  BY DEF ShapeOK
<1>3. ASSUME NEW s \in Blocks(f) PROVE OnlyPhisOf(f.body[s], body[s])
  <2>1. CASE s \notin SuccessorSet(f, b)
    BY <2>1, <1>2 DEF OnlyPhisOf
  <2>2. CASE s \in SuccessorSet(f, b)
    <3>1. body[s] = [k \in DOMAIN f.body[s] |-> Entries(s, k)]
      BY <2>2, <1>2
    <3>2. \A k \in DOMAIN f.body[s] : Entries(s, k) = f.body[s][k] \/
            (IsPhi(f.body[s][k]) /\ \E v, c : Entries(s, k) = AddIncoming(f.body[s][k], v, c))
      OBVIOUS
    <3> HIDE DEF Entries, body
    <3>3. body[s] = [k \in DOMAIN f.body[s] |-> body[s][k]]
      BY <3>1
    <3>4. \A k \in DOMAIN f.body[s] : body[s][k] = f.body[s][k] \/
            (IsPhi(f.body[s][k]) /\ \E v, c : body[s][k] = AddIncoming(f.body[s][k], v, c))
      BY <3>1, <3>2
    <3> QED BY <1>2, <3>3, <3>4, AddedEntries DEF OnlyPhisOf
  <2> QED BY <2>1, <2>2
<1>4. DOMAIN body = Blocks(f)
  BY <1>2
<1> HIDE DEF body
<1> QED BY <1>1, <1>3, <1>4

LEMMA RenameKeeps ==
  ASSUME PhiInv, phase \in {"place", "rename"}, worklist = {}, Unplaced = {},
         NEW frames, NEW b, RenameFrom(frames, b)
  PROVE  PhiInv'
<1>1. PICK cur : f' = WithIncoming(b, cur)
  BY DEF RenameFrom
<1>2. /\ phase' = "rename" /\ phis' = phis /\ allocas' = allocas /\ frontiers' = frontiers
      /\ placing' = placing /\ worklist' = worklist /\ queued' = queued
  BY DEF RenameFrom
<1>3. PICK body : /\ f' = [f EXCEPT !.body = body] /\ DOMAIN body = Blocks(f)
                  /\ \A s \in Blocks(f) : OnlyPhisOf(f.body[s], body[s])
  BY <1>1, IncomingAdded DEF PhiInv
<1>6. ShapeOK' /\ Blocks(f') = Blocks(f) /\ \A a : DefBlocks(a)' = DefBlocks(a)
  BY <1>3, SameStores DEF PhiInv, OnlyPhisOf
<1>7. \A a, c : HasPhi(a, c)' <=> HasPhi(a, c)
  BY <1>2 DEF HasPhi
<1>8. \A a : DefinedIn(a)' = DefinedIn(a)
  BY <1>6, <1>7 DEF DefinedIn
<1>9. \A a : Closed(a)' <=> Closed(a)
  BY <1>2, <1>7, <1>8 DEF Closed
<1>10. PlacingOK
  BY DEF PhiInv
<1>11. PlacingOK'
  BY <1>2, <1>7, <1>8, <1>9, <1>10 DEF PlacingOK
<1>12. Unplaced' = {}
  BY <1>2 DEF Unplaced
<1> QED BY <1>2, <1>6, <1>11, <1>12 DEF PhiInv, CollectOK, RenamingOK

\* What leaves the function, the phis and the queue alone.
LEMMA OthersKeep ==
  ASSUME PhiInv, FindTree \/ Return \/ Finish \/ UNCHANGED vars
  PROVE  PhiInv'
<1>1. CASE FindTree \/ Return \/ UNCHANGED vars
  <2>1. /\ f' = f /\ frontiers' = frontiers /\ phase' = phase /\ allocas' = allocas
        /\ placing' = placing /\ worklist' = worklist /\ queued' = queued /\ phis' = phis
    BY <1>1 DEF FindTree, Return, vars, promotion
  <2>2. \A a, c : HasPhi(a, c)' <=> HasPhi(a, c)
    BY <2>1 DEF HasPhi
  <2>3. \A a : DefinedIn(a)' = DefinedIn(a)
    BY <2>1, <2>2, DefBlocksAre DEF DefinedIn
  <2>4. \A a : Closed(a)' <=> Closed(a)
    BY <2>1, <2>2, <2>3 DEF Closed
  <2>5. PlacingOK'
    BY <2>1, <2>2, <2>3, <2>4 DEF PhiInv, PlacingOK
  <2>6. ShapeOK' /\ CollectOK' /\ RenamingOK'
    BY <2>1 DEF PhiInv, ShapeOK, CollectOK, RenamingOK, Unplaced
  <2> QED BY <2>1, <2>5, <2>6 DEF PhiInv
<1>2. CASE Finish
  BY <1>2 DEF Finish, PhiInv, ShapeOK, CollectOK, PlacingOK, RenamingOK
<1> QED BY <1>1, <1>2

LEMMA PhiStep ==
  ASSUME PhiInv, [Next]_vars
  PROVE  PhiInv'
<1>1. CASE Collect
  BY <1>1, CollectKeeps
<1>2. CASE StartPlacing
  BY <1>2, StartPlacingKeeps
<1>3. CASE PlaceOne
  BY <1>3, PlaceKeeps DEF PlaceOne
<1>4. CASE StartRenaming
  BY <1>4, RenameKeeps DEF StartRenaming
<1>5. CASE RenameChild
  BY <1>5, RenameKeeps DEF RenameChild, PhiInv, RenamingOK
<1>6. CASE FindTree \/ Return \/ Finish \/ UNCHANGED vars
  BY <1>6, OthersKeep
<1> QED BY <1>1, <1>2, <1>3, <1>4, <1>5, <1>6 DEF Next

\* Placement keeps its queue ahead of the phis, in every order of its sets, and
\* the walk begins with every phi in place.
THEOREM PhiInvariance == Spec => []PhiInv
BY PhiInit, PhiStep, PTL DEF Spec

\* When renaming begins every cell has a phi wherever two of its definitions,
\* stores or phis, may meet: the work list has missed none, whatever order it
\* was emptied in.
THEOREM PhisAlwaysOnFrontier == Spec => []PhisOnIteratedFrontier
<1>1. PhiInv => PhisOnIteratedFrontier
  <2> SUFFICES ASSUME PhiInv, phase = "rename", NEW a \in allocas
               PROVE  Closed(a)
    BY DEF PhisOnIteratedFrontier, Closed
  <2>1. PlacingOK /\ worklist = {} /\ Unplaced = {}
    BY DEF PhiInv, RenamingOK
  <2>2. a \in Nat /\ placing \in Nat /\ a <= placing
    BY <2>1 DEF PlacingOK, Unplaced
  <2>3. CASE a < placing
    BY <2>1, <2>3 DEF PlacingOK
  <2>4. CASE a = placing
    BY <2>1, <2>4 DEF PlacingOK, Closed
  <2> QED BY <2>2, <2>3, <2>4
<1> QED BY <1>1, PhiInvariance, PTL

-----------------------------------------------------------------------------
(* Dominance, by the verifier of functions and by the tree *)

\* What holds of 0 and goes from a number to the next holds up to n.
LEMMA UpTo ==
  ASSUME NEW n \in Nat, NEW S, 0 \in S, \A k \in 1..n : k - 1 \in S => k \in S
  PROVE  \A k \in 0..n : k \in S
<1> DEFINE Missing == {k \in 0..n : k \notin S}
<1>1. SUFFICES ASSUME Missing # {} PROVE FALSE
  OBVIOUS
<1>2. PICK k \in Missing : \A m \in Missing : k <= m
  <2>1. Missing \in SUBSET Nat
    OBVIOUS
  <2> HIDE DEF Missing
  <2> QED BY <1>1, <2>1, DTP!LeastMember
<1>3. k # 0 /\ k \in 0..n /\ k \notin S
  BY <1>2
<1>4. k \in 1..n /\ k - 1 \in 0..n /\ k - 1 < k
  BY <1>3
<1>5. k - 1 \notin Missing
  <2>1. k - 1 \in Int /\ k \in Int /\ ~ (k <= k - 1)
    BY <1>4
  <2> HIDE DEF Missing
  <2> QED BY <1>2, <2>1
<1> QED BY <1>3, <1>4, <1>5

\* What sets grow to in a number of steps, n, as large as all there is, is
\* closed under the steps: each either adds something or is the last that could.
LEMMA Saturates ==
  ASSUME NEW n \in Nat, NEW B, IsFiniteSet(B), Cardinality(B) <= n,
         NEW E \in [B -> SUBSET B], NEW r \in [0..n -> SUBSET B], r[0] # {},
         \A k \in 1..n : r[k] = r[k - 1] \cup UNION {E[b] : b \in r[k - 1]}
  PROVE  \A b \in r[n] : E[b] \subseteq r[n]
<1> DEFINE Still(k) == \A b \in r[k] : E[b] \subseteq r[k]
<1>1. SUFFICES ASSUME ~ Still(n) PROVE FALSE
  OBVIOUS
<1>2. \A k \in 0..n : IsFiniteSet(r[k]) /\ Cardinality(r[k]) \in Nat
  <2> TAKE k \in 0..n
  <2>1. r[k] \subseteq B
    OBVIOUS
  <2> QED BY <2>1, FS_Subset, FS_CardinalityType
<1>3. ASSUME NEW m \in 0..n, Still(m) PROVE FALSE
  <2> DEFINE Same == {k \in 0..n : k <= m \/ r[k] = r[m]}
  <2>1. 0 \in Same
    OBVIOUS
  <2>2. ASSUME NEW k \in 1..n, k - 1 \in Same PROVE k \in Same
    <3>1. SUFFICES ASSUME k > m PROVE r[k] = r[m]
      OBVIOUS
    <3>2. r[k - 1] = r[m]
      BY <2>2, <3>1
    <3>3. r[k] = r[k - 1] \cup UNION {E[b] : b \in r[k - 1]}
      OBVIOUS
    <3> QED BY <3>2, <3>3, <1>3
  <2>3. n \in Same
    <3> HIDE DEF Same
    <3> QED BY <2>1, <2>2, UpTo
  <2> QED BY <2>3, <1>1, <1>3
<1> DEFINE Grown == {k \in 0..n : Cardinality(r[k]) >= k + 1}
<1>4. 0 \in Grown
  <2>1. 0 \in 0..n /\ Cardinality(r[0]) # 0
    BY <1>2, FS_EmptySet
  <2>2. Cardinality(r[0]) \in Nat
    BY <1>2, <2>1
  <2> QED BY <2>1, <2>2
<1>5. ASSUME NEW k \in 1..n, k - 1 \in Grown PROVE k \in Grown
  <2>1. k - 1 \in 0..n /\ k \in 0..n
    OBVIOUS
  <2>2. r[k] = r[k - 1] \cup UNION {E[b] : b \in r[k - 1]}
    OBVIOUS
  <2>3. ~ Still(k - 1)
    BY <1>3, <2>1
  <2>4. r[k - 1] \subseteq r[k] /\ r[k - 1] # r[k]
    BY <2>2, <2>3
  <2>5. Cardinality(r[k - 1]) < Cardinality(r[k])
    BY <1>2, <2>1, <2>4, FS_Subset
  <2>6. Cardinality(r[k - 1]) \in Nat /\ Cardinality(r[k]) \in Nat
    BY <1>2, <2>1
  <2> QED BY <1>5, <2>1, <2>5, <2>6
<1>6. n \in Grown
  <2> HIDE DEF Grown
  <2> QED BY <1>4, <1>5, UpTo
<1>7. r[n] \subseteq B
  OBVIOUS
<1>8. Cardinality(r[n]) <= Cardinality(B) /\ Cardinality(B) \in Nat
  BY <1>7, FS_Subset, FS_CardinalityType
<1> QED BY <1>2, <1>6, <1>8

\* There are such sets, whatever they start from.
Spreading(n, B, E, base, r) ==
  /\ r \in [0..n -> SUBSET B] /\ r[0] = base
  /\ \A k \in 1..n : r[k] = r[k - 1] \cup UNION {E[b] : b \in r[k - 1]}
LEMMA Spreads ==
  ASSUME NEW n \in Nat, NEW B, NEW E \in [B -> SUBSET B], NEW base \in SUBSET B
  PROVE  \E r : Spreading(n, B, E, base, r)
<1> DEFINE Is(m, r) == Spreading(m, B, E, base, r)
           Have == {m \in 0..n : \E r : Is(m, r)}
<1>1. 0 \in Have
  <2> DEFINE z == [k \in 0..0 |-> base]
  <2>1. Is(0, z)
    BY DEF Spreading
  <2> HIDE DEF Is, z
  <2> QED BY <2>1
<1>2. ASSUME NEW m \in 1..n, m - 1 \in Have PROVE m \in Have
  <2>1. PICK r : Is(m - 1, r)
    BY <1>2
  <2> DEFINE last == r[m - 1] \cup UNION {E[b] : b \in r[m - 1]}
             s == [k \in 0..m |-> IF k = m THEN last ELSE r[k]]
  <2>2. last \in SUBSET B
    BY <2>1 DEF Spreading
  <2>3. s \in [0..m -> SUBSET B] /\ s[0] = base
    BY <2>1, <2>2 DEF Spreading
  <2>4. ASSUME NEW k \in 1..m PROVE s[k] = s[k - 1] \cup UNION {E[b] : b \in s[k - 1]}
    <3>1. s[k - 1] = r[k - 1]
      OBVIOUS
    <3>2. CASE k = m
      BY <3>1, <3>2
    <3>3. CASE k # m
      <4>1. k \in 1..(m - 1) /\ s[k] = r[k]
        BY <3>3
      <4>2. r[k] = r[k - 1] \cup UNION {E[b] : b \in r[k - 1]}
        BY <4>1, <2>1 DEF Spreading
      <4> HIDE DEF s
      <4> QED BY <3>1, <4>1, <4>2
    <3> QED BY <3>2, <3>3
  <2>5. Is(m, s)
    BY <2>3, <2>4 DEF Spreading
  <2> HIDE DEF Is, s
  <2> QED BY <2>5
<1>3. n \in Have
  <2> HIDE DEF Have
  <2> QED BY <1>1, <1>2, UpTo
<1> QED BY <1>3

\* The functions over the graph the tree is built for.
GraphOf(g) ==
  /\ g.order \in Seq(Labels) /\ g.order # <<>> /\ Entry(g) = EntryLabel
  /\ \A b \in Blocks(g) : SuccessorSet(g, b) \subseteq Blocks(g)
  /\ edges = UNION {{b} \X SuccessorSet(g, b) : b \in Blocks(g)}

LEMMA GraphFacts ==
  ASSUME NEW g, GraphOf(g)
  PROVE  /\ Blocks(g) \subseteq Labels /\ EntryLabel \in Blocks(g)
         /\ IsFiniteSet(Blocks(g)) /\ Len(g.order) \in Nat
         /\ Cardinality(Blocks(g)) <= Len(g.order) /\ Cardinality(Blocks(g)) \in Nat
         /\ \A b \in Blocks(g) : DTP!Successors(b) = SuccessorSet(g, b)
         /\ \A b : b \notin Blocks(g) => DTP!Successors(b) = {}
<1>1. Len(g.order) \in Nat /\ DOMAIN g.order = 1..Len(g.order) /\ 1 \in DOMAIN g.order
  BY EmptySeq DEF GraphOf
<1>2. \A k \in 1..Len(g.order) : g.order[k] \in Labels
  BY DEF GraphOf
<1>3. Blocks(g) \subseteq Labels /\ EntryLabel \in Blocks(g)
  BY <1>1, <1>2 DEF GraphOf, Entry, Blocks, ToSet
<1>4. IsFiniteSet(Blocks(g)) /\ Cardinality(Blocks(g)) <= Len(g.order) /\ Cardinality(Blocks(g)) \in Nat
  <2>1. IsFiniteSet(1..Len(g.order)) /\ Cardinality(1..Len(g.order)) = Len(g.order)
    BY <1>1, FS_Interval
  <2>2. Blocks(g) = {g.order[k] : k \in 1..Len(g.order)}
    BY <1>1 DEF Blocks, ToSet
  <2>3. g.order \in Surjection(1..Len(g.order), Blocks(g))
    BY <1>1, <2>2 DEF GraphOf, Surjection
  <2> QED BY <2>1, <2>3, FS_Surjection, FS_CardinalityType
<1>5. ASSUME NEW b PROVE DTP!Successors(b) = {c \in Labels : b \in Blocks(g) /\ c \in SuccessorSet(g, b)}
  BY DEF GraphOf, DTP!Successors
<1>6. \A b \in Blocks(g) : DTP!Successors(b) = SuccessorSet(g, b)
  BY <1>3, <1>5 DEF GraphOf
<1> QED BY <1>1, <1>3, <1>4, <1>5, <1>6

\* From the entry on, what is added as often as there are blocks is closed.
LEMMA Folded ==
  ASSUME NEW g, GraphOf(g), NEW E \in [Blocks(g) -> SUBSET Blocks(g)]
  PROVE  \E r \in [0..Len(g.order) -> SUBSET Blocks(g)] :
            /\ r[0] = {EntryLabel}
            /\ \A k \in 1..Len(g.order) : r[k] = r[k - 1] \cup UNION {E[b] : b \in r[k - 1]}
            /\ EntryLabel \in r[Len(g.order)]
            /\ \A b \in r[Len(g.order)] : E[b] \subseteq r[Len(g.order)]
<1> DEFINE n == Len(g.order)
           B == Blocks(g)
<1>1. n \in Nat /\ EntryLabel \in B /\ IsFiniteSet(B) /\ Cardinality(B) <= n
  BY GraphFacts
<1> HIDE DEF n, B
<1>2. E \in [B -> SUBSET B]
  BY DEF B
<1>r. PICK r : Spreading(n, B, E, {EntryLabel}, r)
  <2> DEFINE base == {EntryLabel}
  <2>1. base \in SUBSET B
    BY <1>1
  <2> HIDE DEF base
  <2>2. \E r : Spreading(n, B, E, base, r)
    BY <1>1, <1>2, <2>1, Spreads
  <2> QED BY <2>2 DEF base
<1>3. r \in [0..n -> SUBSET B] /\ r[0] = {EntryLabel}
  BY <1>r DEF Spreading
<1>4. \A k \in 1..n : r[k] = r[k - 1] \cup UNION {E[b] : b \in r[k - 1]}
  BY <1>r DEF Spreading
<1>5. \A b \in r[n] : E[b] \subseteq r[n]
  <2>1. r[0] # {}
    BY <1>3
  <2> QED BY <1>1, <1>2, <1>3, <1>4, <2>1, Saturates
<1>6. EntryLabel \in r[n]
  <2> DEFINE S == {k \in 0..n : EntryLabel \in r[k]}
  <2>1. 0 \in S /\ \A k \in 1..n : k - 1 \in S => k \in S
    BY <1>1, <1>3, <1>4
  <2>2. \A k \in 0..n : k \in S
    <3> HIDE DEF S
    <3> QED BY <1>1, <2>1, UpTo
  <2>3. n \in 0..n
    BY <1>1
  <2> QED BY <2>2, <2>3
<1> QED BY <1>3, <1>4, <1>5, <1>6 DEF n, B

\* The blocks the verifier finds some way to that does not come by a.
LEMMA AvoidingClosed ==
  ASSUME NEW g, GraphOf(g), NEW a, a # EntryLabel
  PROVE  /\ EntryLabel \in Avoiding(g, a) /\ Avoiding(g, a) \subseteq Blocks(g)
         /\ \A b \in Avoiding(g, a) : SuccessorSet(g, b) \ {a} \subseteq Avoiding(g, a)
<1> DEFINE n == Len(g.order)
           E == [b \in Blocks(g) |-> SuccessorSet(g, b) \ {a}]
           Grow(Q) == Q \cup ((UNION {SuccessorSet(g, x) : x \in Q}) \ {a})
<1>1. n \in Nat
  BY GraphFacts
<1>2. E \in [Blocks(g) -> SUBSET Blocks(g)]
  BY DEF GraphOf
<1>3. PICK r \in [0..n -> SUBSET Blocks(g)] :
            /\ r[0] = {EntryLabel}
            /\ \A k \in 1..n : r[k] = r[k - 1] \cup UNION {E[b] : b \in r[k - 1]}
            /\ EntryLabel \in r[n] /\ \A b \in r[n] : E[b] \subseteq r[n]
  <2> HIDE DEF E
  <2> QED BY <1>2, Folded
<1>4. \A k \in 1..n : r[k] = Grow(r[k - 1])
  <2> TAKE k \in 1..n
  <2>1. r[k - 1] \subseteq Blocks(g)
    BY <1>1, <1>3
  <2>2. UNION {E[b] : b \in r[k - 1]} = (UNION {SuccessorSet(g, x) : x \in r[k - 1]}) \ {a}
    <3>1. \A b \in r[k - 1] : E[b] = SuccessorSet(g, b) \ {a}
      BY <2>1
    <3> HIDE DEF E
    <3> QED BY <3>1
  <2>3. r[k] = r[k - 1] \cup UNION {E[b] : b \in r[k - 1]}
    BY <1>3
  <2> QED BY <2>2, <2>3
<1> DEFINE Step(P) == The({Grow(Q) : Q \in {P}})
           IsUpTo(h) == h = [k \in 0..Len(g.order) |-> IF k = 0 THEN {Entry(g)} ELSE Step(h[k - 1])]
           upTo == CHOOSE h : IsUpTo(h)
<1>5. \A Q : Step(Q) = Grow(Q)
  BY DEF The
<1>6. IsUpTo(r)
  <2> HIDE DEF Grow, Step
  <2>1. Entry(g) = EntryLabel
    BY DEF GraphOf
  <2> QED BY <1>1, <1>3, <1>4, <1>5, <2>1
<1>7. IsUpTo(upTo)
  <2> HIDE DEF IsUpTo
  <2> QED BY <1>6
<1>8. Avoiding(g, a) = upTo[n]
  BY DEF Avoiding, Through, GraphOf
<1> HIDE DEF upTo, Grow, Step
<1>9. \A k \in 0..n : upTo[k] = r[k]
  <2> DEFINE S == {k \in 0..n : upTo[k] = r[k]}
  <2>1. 0 \in S
    BY <1>1, <1>6, <1>7
  <2>2. ASSUME NEW k \in 1..n, k - 1 \in S PROVE k \in S
    <3>0. upTo = [m \in 0..n |-> IF m = 0 THEN {Entry(g)} ELSE Step(upTo[m - 1])]
      BY <1>7
    <3>2. k \in 0..n /\ k # 0
      BY <1>1
    <3> HIDE DEF n, S
    <3>1. upTo[k] = Step(upTo[k - 1])
      BY <3>0, <3>2
    <3> QED BY <3>1, <3>2, <2>2, <1>4, <1>5 DEF S, n
  <2> HIDE DEF S
  <2>3. \A k \in 0..n : k \in S
    BY <1>1, <2>1, <2>2, UpTo
  <2> QED BY <2>3 DEF S
<1>10. Avoiding(g, a) = r[n] /\ r[n] \subseteq Blocks(g)
  BY <1>1, <1>3, <1>8, <1>9
<1>11. \A b \in r[n] : SuccessorSet(g, b) \ {a} \subseteq r[n]
  BY <1>3, <1>10
<1> HIDE DEF E
<1> QED BY <1>3, <1>10, <1>11

\* The blocks it finds any way to.
LEMMA ReachableClosed ==
  ASSUME NEW g, GraphOf(g)
  PROVE  /\ EntryLabel \in Reachable(g) /\ Reachable(g) \subseteq Blocks(g)
         /\ \A b \in Reachable(g) : SuccessorSet(g, b) \subseteq Reachable(g)
<1> DEFINE n == Len(g.order)
           E == [b \in Blocks(g) |-> SuccessorSet(g, b)]
           Grow(Q) == Q \cup UNION {SuccessorSet(g, x) : x \in Q}
<1>1. n \in Nat
  BY GraphFacts
<1>2. E \in [Blocks(g) -> SUBSET Blocks(g)]
  BY DEF GraphOf
<1>3. PICK r \in [0..n -> SUBSET Blocks(g)] :
            /\ r[0] = {EntryLabel}
            /\ \A k \in 1..n : r[k] = r[k - 1] \cup UNION {E[b] : b \in r[k - 1]}
            /\ EntryLabel \in r[n] /\ \A b \in r[n] : E[b] \subseteq r[n]
  <2> HIDE DEF E
  <2> QED BY <1>2, Folded
<1>4. \A k \in 1..n : r[k] = Grow(r[k - 1])
  <2> TAKE k \in 1..n
  <2>1. r[k - 1] \subseteq Blocks(g)
    BY <1>1, <1>3
  <2>2. UNION {E[b] : b \in r[k - 1]} = UNION {SuccessorSet(g, x) : x \in r[k - 1]}
    BY <2>1
  <2>3. r[k] = r[k - 1] \cup UNION {E[b] : b \in r[k - 1]}
    BY <1>3
  <2> QED BY <2>2, <2>3
<1> DEFINE Step(P) == The({Grow(Q) : Q \in {P}})
           IsUpTo(h) == h = [k \in 0..Len(g.order) |-> IF k = 0 THEN {Entry(g)} ELSE Step(h[k - 1])]
           upTo == CHOOSE h : IsUpTo(h)
<1>5. \A Q : Step(Q) = Grow(Q)
  BY DEF The
<1>6. IsUpTo(r)
  <2> HIDE DEF Grow, Step
  <2>1. Entry(g) = EntryLabel
    BY DEF GraphOf
  <2> QED BY <1>1, <1>3, <1>4, <1>5, <2>1
<1>7. IsUpTo(upTo)
  <2> HIDE DEF IsUpTo
  <2> QED BY <1>6
<1>8. Reachable(g) = upTo[n]
  BY DEF Reachable, ReachableFrom, Through, GraphOf
<1> HIDE DEF upTo, Grow, Step
<1>9. \A k \in 0..n : upTo[k] = r[k]
  <2> DEFINE S == {k \in 0..n : upTo[k] = r[k]}
  <2>1. 0 \in S
    BY <1>1, <1>6, <1>7
  <2>2. ASSUME NEW k \in 1..n, k - 1 \in S PROVE k \in S
    <3>0. upTo = [m \in 0..n |-> IF m = 0 THEN {Entry(g)} ELSE Step(upTo[m - 1])]
      BY <1>7
    <3>2. k \in 0..n /\ k # 0
      BY <1>1
    <3> HIDE DEF n, S
    <3>1. upTo[k] = Step(upTo[k - 1])
      BY <3>0, <3>2
    <3> QED BY <3>1, <3>2, <2>2, <1>4, <1>5 DEF S, n
  <2> HIDE DEF S
  <2>3. \A k \in 0..n : k \in S
    BY <1>1, <2>1, <2>2, UpTo
  <2> QED BY <2>3 DEF S
<1>10. Reachable(g) = r[n] /\ r[n] \subseteq Blocks(g)
  BY <1>1, <1>3, <1>8, <1>9
<1> QED BY <1>3, <1>10

\* What the verifier takes for dominance is dominance to the tree.
LEMMA SameDominance ==
  ASSUME NEW g, GraphOf(g)
  PROVE  /\ DTP!Reachable \subseteq Reachable(g)
         /\ \A a, b : <<a, b>> \in Dominated(g) => a \in Blocks(g) /\ DTP!OnEveryPath(a, b)
<1>1. DTP!Reachable \subseteq Reachable(g)
  <2>1. Reachable(g) \in SUBSET Labels
    BY GraphFacts, ReachableClosed
  <2>2. \A b \in Reachable(g) : DTP!Successors(b) \subseteq Reachable(g)
    BY GraphFacts, ReachableClosed
  <2> QED BY <2>1, <2>2, ReachableClosed DEF DTP!Reachable
<1>2. ASSUME NEW a, NEW b, <<a, b>> \in Dominated(g)
      PROVE  a \in Blocks(g) /\ DTP!OnEveryPath(a, b)
  <2>1. PICK c \in Blocks(g) : <<a, b>> \in {c} \X ((Blocks(g) \ Avoiding(g, c)) \cup {c})
    BY <1>2 DEF Dominated
  <2>2. a \in Blocks(g) /\ (a = b \/ b \notin Avoiding(g, a))
    BY <2>1
  <2>3. CASE a = b
    BY <2>2, <2>3 DEF DTP!OnEveryPath
  <2>4. CASE b \notin Avoiding(g, a) /\ a # EntryLabel
    <3>1. Avoiding(g, a) \in SUBSET Labels
      BY <2>4, GraphFacts, AvoidingClosed
    <3>2. DTP!ClosedWithout(Avoiding(g, a), a)
      <4>1. \A d \in Avoiding(g, a) : DTP!Successors(d) \subseteq Avoiding(g, a) \cup {a}
        BY <2>4, GraphFacts, AvoidingClosed
      <4> QED BY <2>4, <4>1, AvoidingClosed DEF DTP!ClosedWithout
    <3> QED BY <2>2, <2>4, <3>1, <3>2 DEF DTP!OnEveryPath, DTP!ReachableWithout
  <2>5. CASE a = EntryLabel
    <3>1. DTP!ClosedWithout({}, a)
      BY <2>5 DEF DTP!ClosedWithout
    <3> QED BY <2>2, <3>1 DEF DTP!OnEveryPath, DTP!ReachableWithout
  <2> QED BY <2>2, <2>3, <2>4, <2>5
<1> QED BY <1>1, <1>2

-----------------------------------------------------------------------------
(* What the walk changes it puts back *)

\* Putting back what was saved, latest first, leads from what the cells hold to
\* what they held.
PutsBack(saved, cur, old) ==
  /\ saved \in Seq(ToSet(saved))
  /\ \E c : /\ c[0] = old /\ c[Len(saved)] = cur
            /\ \A k \in 1..Len(saved) : c[k - 1] = [c[k] EXCEPT ![saved[k][1]] = saved[k][2]]

LEMMA NothingSaved ==
  ASSUME NEW cur
  PROVE  PutsBack(<<>>, cur, cur)
<1> DEFINE c == [k \in 0..0 |-> cur]
<1>1. c[0] = cur /\ Len(<<>>) = 0 /\ <<>> \in Seq(ToSet(<<>>))
  OBVIOUS
<1> HIDE DEF c
<1> QED BY <1>1 DEF PutsBack

\* What one cell held is saved when it is set.
LEMMA SavedOneMore ==
  ASSUME NEW saved, NEW cur, NEW old, PutsBack(saved, cur, old),
         NEW A, cur = [a \in A |-> cur[a]], NEW a \in A, NEW v
  PROVE  PutsBack(Append(saved, <<a, cur[a]>>), [cur EXCEPT ![a] = v], old)
<1> DEFINE s == Append(saved, <<a, cur[a]>>)
           n == Len(saved)
           S == ToSet(saved) \cup {<<a, cur[a]>>}
           set == [cur EXCEPT ![a] = v]
<1>1. PICK c : /\ c[0] = old /\ c[n] = cur
               /\ \A k \in 1..n : c[k - 1] = [c[k] EXCEPT ![saved[k][1]] = saved[k][2]]
  BY DEF PutsBack
<1>2. n \in Nat /\ saved \in Seq(S)
  <2>1. saved \in Seq(ToSet(saved))
    BY DEF PutsBack
  <2> QED BY <2>1
<1>3. /\ s \in Seq(S) /\ Len(s) = n + 1 /\ DOMAIN s = 1..(n + 1) /\ s[n + 1] = <<a, cur[a]>>
      /\ \A k \in 1..n : s[k] = saved[k]
  BY <1>2
<1>4. s \in Seq(ToSet(s))
  <2>1. \A k \in 1..(n + 1) : s[k] \in ToSet(s)
    BY <1>3 DEF ToSet
  <2> HIDE DEF s
  <2> QED BY <2>1, <1>2, <1>3
<1>5. [set EXCEPT ![a] = cur[a]] = cur
  OBVIOUS
<1> DEFINE d == [k \in 0..(n + 1) |-> IF k = n + 1 THEN set ELSE c[k]]
<1> HIDE DEF s, set
<1>6. d[0] = old /\ d[n + 1] = set
  BY <1>1, <1>2
<1>7. ASSUME NEW k \in 1..(n + 1) PROVE d[k - 1] = [d[k] EXCEPT ![s[k][1]] = s[k][2]]
  <2>1. CASE k = n + 1
    <3>1. d[k - 1] = cur /\ d[k] = set
      BY <1>1, <1>2, <2>1
    <3> HIDE DEF d
    <3> QED BY <3>1, <2>1, <1>3, <1>5
  <2>2. CASE k # n + 1
    <3>1. k \in 1..n /\ d[k - 1] = c[k - 1] /\ d[k] = c[k] /\ s[k] = saved[k]
      BY <1>2, <1>3, <2>2
    <3> HIDE DEF d
    <3> QED BY <3>1, <1>1
  <2> QED BY <2>1, <2>2
<1> HIDE DEF d
<1>8. PutsBack(s, set, old)
  BY <1>3, <1>4, <1>6, <1>7 DEF PutsBack
<1> QED BY <1>8 DEF s, set

\* What PutBack computes.
LEMMA PutBackRestores ==
  ASSUME NEW saved, NEW old, PutsBack(saved, current, old)
  PROVE  PutBack(saved) = old
<1> DEFINE n == Len(saved)
           back == Reverse(saved)
           Put(cur, s) == [cur EXCEPT ![s[1]] = s[2]]
           Step(P, k) == The({Put(cur, back[k]) : cur \in {P}})
           IsUpTo(h) == h = [k \in 0..Len(back) |-> IF k = 0 THEN current ELSE Step(h[k - 1], k)]
           upTo == CHOOSE h : IsUpTo(h)
<1>1. PICK c : /\ c[0] = old /\ c[n] = current
               /\ \A k \in 1..n : c[k - 1] = [c[k] EXCEPT ![saved[k][1]] = saved[k][2]]
  BY DEF PutsBack
<1>2. n \in Nat /\ Len(back) = n /\ \A k \in 1..n : back[k] = saved[n - k + 1]
  <2>1. saved \in Seq(ToSet(saved))
    BY DEF PutsBack
  <2> QED BY <2>1 DEF Reverse
<1>3. \A P, k : Step(P, k) = Put(P, back[k])
  BY DEF The
<1>4. PutBack(saved) = upTo[n]
  BY <1>2 DEF PutBack, Through
<1> HIDE DEF back, Step
<1> DEFINE u == [k \in 0..n |-> c[n - k]]
<1>5. ASSUME NEW k \in 1..n PROVE u[k] = Step(u[k - 1], k)
  <2>1. /\ u[k] = c[n - k] /\ u[k - 1] = c[n - k + 1] /\ n - k + 1 \in 1..n
        /\ back[k] = saved[n - k + 1] /\ (n - k + 1) - 1 = n - k
    BY <1>2
  <2>2. c[n - k] = Put(c[n - k + 1], saved[n - k + 1])
    BY <1>1, <2>1
  <2> HIDE DEF u
  <2> QED BY <1>3, <2>1, <2>2
<1>6. u[0] = current /\ u[n] = old /\ u = [k \in 0..n |-> u[k]]
  BY <1>1, <1>2
<1> HIDE DEF u
<1>7. IsUpTo(upTo)
  <2>1. IsUpTo(u)
    <3> HIDE DEF n
    <3>1. ASSUME NEW k \in 0..n PROVE u[k] = IF k = 0 THEN current ELSE Step(u[k - 1], k)
      <4>1. CASE k = 0
        BY <4>1, <1>6
      <4>2. CASE k # 0
        <5>1. k \in 1..n
          BY <4>2, <1>2
        <5> QED BY <4>2, <5>1, <1>5
      <4> QED BY <4>1, <4>2
    <3> QED BY <3>1, <1>2, <1>6
  <2> HIDE DEF IsUpTo
  <2> QED BY <2>1
<1> HIDE DEF upTo
<1>8. upTo = [k \in 0..n |-> IF k = 0 THEN current ELSE Step(upTo[k - 1], k)]
  BY <1>2, <1>7
<1> DEFINE S == {k \in 0..n : upTo[k] = u[k]}
<1> HIDE DEF n
<1>9. 0 \in S
  BY <1>2, <1>6, <1>8
<1>10. ASSUME NEW k \in 1..n, k - 1 \in S PROVE k \in S
  <2>1. upTo[k] = Step(upTo[k - 1], k)
    BY <1>2, <1>8
  <2> QED BY <2>1, <1>2, <1>5, <1>10
<1>11. n \in S
  <2> HIDE DEF S
  <2>1. n \in 0..n
    BY <1>2
  <2> QED BY <2>1, <1>2, <1>9, <1>10, UpTo
<1> QED BY <1>4, <1>6, <1>11

-----------------------------------------------------------------------------
(* What a visit of a block does to the cells *)

\* A value a visit of b gives a cell: of a phi of b, or stored there.
GivenIn(b, v) == \E i \in ToSet(f.body[b]) : v = Val(i.id) \/ (i.op = "store" /\ v = i.args[1])
VisitOK(w, b) ==
  /\ w = [cur |-> w.cur, saved |-> w.saved, repl |-> w.repl, dead |-> w.dead]
  /\ w.cur = [a \in allocas |-> w.cur[a]]
  /\ PutsBack(w.saved, w.cur, current)
  /\ \A a \in allocas : w.cur[a] = current[a] \/ GivenIn(b, w.cur[a])

LEMMA SetCellOK ==
  ASSUME NEW b, NEW w, VisitOK(w, b), NEW a \in allocas, NEW v, GivenIn(b, v)
  PROVE  VisitOK(SetCell(w, a, v), b)
<1> DEFINE cur == [w.cur EXCEPT ![a] = v]
           saved == Append(w.saved, <<a, w.cur[a]>>)
<1>1. SetCell(w, a, v) = [cur |-> cur, saved |-> saved, repl |-> w.repl, dead |-> w.dead]
  <2>1. DOMAIN w = {"cur", "saved", "repl", "dead"} /\ w = [x \in DOMAIN w |-> w[x]]
    BY DEF VisitOK
  <2>2. SetCell(w, a, v) = [[w EXCEPT !.cur = cur] EXCEPT !.saved = saved]
    BY <2>1 DEF SetCell
  <2> HIDE DEF cur, saved
  <2> QED BY <2>1, <2>2
<1>2. PutsBack(saved, cur, current)
  BY SavedOneMore DEF VisitOK
<1>3. cur = [c \in allocas |-> IF c = a THEN v ELSE w.cur[c]]
  BY DEF VisitOK
<1>4. \A c \in allocas : cur[c] = current[c] \/ GivenIn(b, cur[c])
  BY <1>3 DEF VisitOK
<1> HIDE DEF saved
<1>5. cur = [c \in allocas |-> cur[c]]
  BY <1>3
<1> HIDE DEF cur
<1> QED BY <1>1, <1>2, <1>4, <1>5 DEF VisitOK

LEMMA SetPhisOK ==
  ASSUME NEW b, f.body[b] \in Seq(ToSet(f.body[b])), current = [a \in allocas |-> current[a]]
  PROVE  VisitOK(SetPhis(b), b)
<1> DEFINE body == f.body[b]
           n == Len(body)
           base == [cur |-> current, saved |-> <<>>, repl |-> replacements, dead |-> dead]
           Set(w, i) == IF \E a \in allocas : HasPhi(a, b) /\ PhiId(a, b) = i.id
                        THEN LET a == CHOOSE c \in allocas : PhiId(c, b) = i.id
                             IN  SetCell(w, a, Val(i.id))
                        ELSE w
           Step(P, k) == The({Set(w, body[k]) : w \in {P}})
           Is(m, h) == h = [k \in 0..m |-> IF k = 0 THEN base ELSE Step(h[k - 1], k)]
           upTo == CHOOSE h : Is(Len(body), h)
<1>1. SetPhis(b) = upTo[n]
  BY DEF SetPhis, Through
<1>2. n \in Nat /\ \A k \in 1..n : body[k] \in ToSet(body)
  BY DEF ToSet
<1>3. \A P, k : Step(P, k) = Set(P, body[k])
  BY DEF The
<1>4. ASSUME NEW w, VisitOK(w, b), NEW i \in ToSet(body) PROVE VisitOK(Set(w, i), b)
  <2>1. CASE \E a \in allocas : HasPhi(a, b) /\ PhiId(a, b) = i.id
    <3>1. PICK a : a = CHOOSE c \in allocas : PhiId(c, b) = i.id
      OBVIOUS
    <3>2. a \in allocas
      BY <2>1, <3>1
    <3>3. Set(w, i) = SetCell(w, a, Val(i.id))
      BY <2>1, <3>1
    <3>4. GivenIn(b, Val(i.id))
      BY DEF GivenIn
    <3> HIDE DEF Set
    <3> QED BY <1>4, <3>2, <3>3, <3>4, SetCellOK
  <2>2. CASE ~ \E a \in allocas : HasPhi(a, b) /\ PhiId(a, b) = i.id
    BY <2>2, <1>4
  <2> QED BY <2>1, <2>2
<1>5. VisitOK(base, b)
  <2>1. PutsBack(<<>>, current, current)
    BY NothingSaved
  <2> QED BY <2>1 DEF VisitOK
<1> HIDE DEF base, Set, Step, body
<1> DEFINE Have == {m \in 0..n : \E h : Is(m, h)}
<1>6. 0 \in Have
  <2> DEFINE z == [k \in 0..0 |-> base]
  <2>1. Is(0, z)
    OBVIOUS
  <2> HIDE DEF Is, z
  <2> QED BY <2>1, <1>2
<1>7. ASSUME NEW m \in 1..n, m - 1 \in Have PROVE m \in Have
  <2>1. PICK g : Is(m - 1, g)
    BY <1>7
  <2> DEFINE h == [k \in 0..m |-> IF k = m THEN Step(g[m - 1], m) ELSE g[k]]
  <2>2. ASSUME NEW k \in 0..m PROVE h[k] = IF k = 0 THEN base ELSE Step(h[k - 1], k)
    <3>1. CASE k = m
      BY <3>1
    <3>2. CASE k # m
      <4>1. k \in 0..(m - 1) /\ h[k] = g[k] /\ (k # 0 => h[k - 1] = g[k - 1])
        BY <3>2
      <4>2. g[k] = IF k = 0 THEN base ELSE Step(g[k - 1], k)
        BY <4>1, <2>1
      <4> HIDE DEF h
      <4> QED BY <4>1, <4>2
    <3> QED BY <3>1, <3>2
  <2>3. Is(m, h)
    BY <2>2
  <2> HIDE DEF Is, h
  <2> QED BY <2>3
<1>8. Is(n, upTo)
  <2>1. n \in Have
    <3> HIDE DEF Have
    <3>1. n \in 0..n
      BY <1>2
    <3> QED BY <3>1, <1>2, <1>6, <1>7, UpTo
  <2> HIDE DEF Is
  <2> QED BY <2>1
<1> HIDE DEF upTo, n
<1>9. \A k \in 0..n : upTo[k] = IF k = 0 THEN base ELSE Step(upTo[k - 1], k)
  BY <1>8
<1> DEFINE S == {k \in 0..n : VisitOK(upTo[k], b)}
<1>10. 0 \in S
  BY <1>2, <1>5, <1>9
<1>11. ASSUME NEW k \in 1..n, k - 1 \in S PROVE k \in S
  <2>1. upTo[k] = Set(upTo[k - 1], body[k])
    BY <1>2, <1>3, <1>9
  <2>2. k \in 0..n /\ VisitOK(upTo[k - 1], b) /\ body[k] \in ToSet(body)
    BY <1>2, <1>11
  <2> QED BY <2>1, <2>2, <1>4
<1>12. n \in S
  <2> HIDE DEF S
  <2>1. n \in 0..n
    BY <1>2
  <2> QED BY <2>1, <1>2, <1>10, <1>11, UpTo
<1> QED BY <1>1, <1>12

LEMMA VisitInstrOK ==
  ASSUME NEW b, NEW w, VisitOK(w, b), NEW k \in DOMAIN f.body[b]
  PROVE  VisitOK(VisitInstr(w, b, k), b)
<1> DEFINE i == f.body[b][k]
           gone == [w EXCEPT !.dead = @ \cup {<<b, k>>}]
<1>1. i \in ToSet(f.body[b])
  BY DEF ToSet
<1>2. VisitOK(gone, b)
  <2>1. gone = [cur |-> w.cur, saved |-> w.saved, repl |-> w.repl, dead |-> w.dead \cup {<<b, k>>}]
    BY DEF VisitOK
  <2> HIDE DEF gone
  <2> QED BY <2>1 DEF VisitOK
<1> HIDE DEF i, gone
<1>3. CASE i.op = "alloca" /\ i.id \in allocas
  <2>1. ~ (\E a \in allocas : IsLoadOf(i, a)) /\ ~ (\E a \in allocas : IsStoreTo(i, a))
    BY <1>3 DEF IsLoadOf, IsStoreTo
  <2>2. VisitInstr(w, b, k) = gone
    BY <1>3, <2>1 DEF VisitInstr, i, gone
  <2> QED BY <2>2, <1>2
<1>4. CASE \E a \in allocas : IsLoadOf(i, a)
  <2>1. ~ (i.op = "alloca" /\ i.id \in allocas) /\ ~ (\E a \in allocas : IsStoreTo(i, a))
    BY <1>4 DEF IsLoadOf, IsStoreTo
  <2> DEFINE repl == (i.id :> Holds(w.cur, i.args[1][2])) @@ gone.repl
  <2>2. VisitInstr(w, b, k) = [gone EXCEPT !.repl = repl]
    BY <1>4, <2>1 DEF VisitInstr, i, gone
  <2> HIDE DEF repl
  <2>3. [gone EXCEPT !.repl = repl] = [cur |-> gone.cur, saved |-> gone.saved, repl |-> repl, dead |-> gone.dead]
    BY <1>2 DEF VisitOK
  <2> QED BY <2>2, <2>3, <1>2 DEF VisitOK
<1>5. CASE \E a \in allocas : IsStoreTo(i, a)
  <2>1. ~ (i.op = "alloca" /\ i.id \in allocas) /\ ~ (\E a \in allocas : IsLoadOf(i, a))
    BY <1>5 DEF IsLoadOf, IsStoreTo
  <2>2. VisitInstr(w, b, k) = SetCell(gone, i.args[2][2], i.args[1])
    BY <1>5, <2>1 DEF VisitInstr, i, gone
  <2>3. i.args[2][2] \in allocas /\ i.op = "store"
    BY <1>5 DEF IsStoreTo, Val
  <2>4. GivenIn(b, i.args[1])
    BY <1>1, <2>3 DEF GivenIn
  <2> QED BY <2>2, <2>3, <2>4, <1>2, SetCellOK
<1>6. CASE /\ ~ (i.op = "alloca" /\ i.id \in allocas) /\ ~ (\E a \in allocas : IsLoadOf(i, a))
           /\ ~ (\E a \in allocas : IsStoreTo(i, a))
  <2>1. VisitInstr(w, b, k) = w
    BY <1>6 DEF VisitInstr, i
  <2> QED BY <2>1
<1> QED BY <1>3, <1>4, <1>5, <1>6

LEMMA VisitedOK ==
  ASSUME NEW b, f.body[b] \in Seq(ToSet(f.body[b])), current = [a \in allocas |-> current[a]]
  PROVE  VisitOK(Visited(b), b)
<1> DEFINE places == [k \in DOMAIN f.body[b] |-> k]
           n == Len(f.body[b])
           base == SetPhis(b)
           Step(P, k) == The({VisitInstr(w, b, places[k]) : w \in {P}})
           Is(m, h) == h = [k \in 0..m |-> IF k = 0 THEN base ELSE Step(h[k - 1], k)]
           upTo == CHOOSE h : Is(Len(places), h)
<1>1. Visited(b) = upTo[Len(places)]
  BY DEF Visited, Through
<1>2. n \in Nat /\ Len(places) = n /\ \A k \in 1..n : places[k] = k /\ k \in DOMAIN f.body[b]
  OBVIOUS
<1>3. \A P, k : Step(P, k) = VisitInstr(P, b, places[k])
  BY DEF The
<1>5. VisitOK(base, b)
  BY SetPhisOK
<1> HIDE DEF base, Step, places
<1> DEFINE Have == {m \in 0..n : \E h : Is(m, h)}
<1>6. 0 \in Have
  <2> DEFINE z == [k \in 0..0 |-> base]
  <2>1. Is(0, z)
    OBVIOUS
  <2> HIDE DEF Is, z
  <2> QED BY <2>1, <1>2
<1>7. ASSUME NEW m \in 1..n, m - 1 \in Have PROVE m \in Have
  <2>1. PICK g : Is(m - 1, g)
    BY <1>7
  <2> DEFINE h == [k \in 0..m |-> IF k = m THEN Step(g[m - 1], m) ELSE g[k]]
  <2>2. ASSUME NEW k \in 0..m PROVE h[k] = IF k = 0 THEN base ELSE Step(h[k - 1], k)
    <3>1. CASE k = m
      BY <3>1
    <3>2. CASE k # m
      <4>1. k \in 0..(m - 1) /\ h[k] = g[k] /\ (k # 0 => h[k - 1] = g[k - 1])
        BY <3>2
      <4>2. g[k] = IF k = 0 THEN base ELSE Step(g[k - 1], k)
        BY <4>1, <2>1
      <4> HIDE DEF h
      <4> QED BY <4>1, <4>2
    <3> QED BY <3>1, <3>2
  <2>3. Is(m, h)
    BY <2>2
  <2> HIDE DEF Is, h
  <2> QED BY <2>3
<1>8. Is(n, upTo)
  <2>1. n \in Have
    <3> HIDE DEF Have
    <3>1. n \in 0..n
      BY <1>2
    <3> QED BY <3>1, <1>2, <1>6, <1>7, UpTo
  <2> HIDE DEF Is
  <2> QED BY <2>1, <1>2
<1> HIDE DEF upTo, n
<1>9. \A k \in 0..n : upTo[k] = IF k = 0 THEN base ELSE Step(upTo[k - 1], k)
  BY <1>8
<1> DEFINE S == {k \in 0..n : VisitOK(upTo[k], b)}
<1>10. 0 \in S
  BY <1>2, <1>5, <1>9
<1>11. ASSUME NEW k \in 1..n, k - 1 \in S PROVE k \in S
  <2>1. upTo[k] = VisitInstr(upTo[k - 1], b, k)
    BY <1>2, <1>3, <1>9
  <2>2. k \in 0..n /\ VisitOK(upTo[k - 1], b) /\ k \in DOMAIN f.body[b]
    BY <1>2, <1>11
  <2> QED BY <2>1, <2>2, VisitInstrOK
<1>12. n \in S
  <2> HIDE DEF S
  <2>1. n \in 0..n
    BY <1>2
  <2> QED BY <2>1, <1>2, <1>10, <1>11, UpTo
<1> QED BY <1>1, <1>2, <1>12

-----------------------------------------------------------------------------
(* What cells hold during the walk *)

\* The function is one it was given, and promotion adds phis to its blocks,
\* under names no instruction had, and entries to them.
GivenOK ==
  /\ original \in Programs /\ GraphOf(original)
  /\ phase = "collect" => f = original /\ stack = <<>>
  /\ phase \in {"place", "rename"} => tree_phase = "done"
Kept(b) ==
  /\ \A i \in ToSet(f.body[b]) : IsPhi(i) \/ i \in ToSet(original.body[b])
  /\ IdsIn(original.body[b]) \subseteq IdsIn(f.body[b])
  /\ IdsIn(f.body[b]) \cap Nat \subseteq IdsIn(original.body[b])
LayoutOK ==
  phase \in {"place", "rename"} =>
    f.order = original.order /\ \A b \in Blocks(original) : Kept(b)

\* With a block its dominators are on the way to it.
WayOK ==
  phase \in {"place", "rename"} =>
    /\ stack \in Seq(ToSet(stack))
    /\ \A k \in 1..Len(stack) :
         /\ stack[k] = [block |-> stack[k].block, saved |-> stack[k].saved, todo |-> stack[k].todo]
         /\ stack[k].block \in DTP!Reachable
         /\ \A c \in stack[k].todo : c \in DOMAIN idom /\ idom[c] = stack[k].block
         /\ \A a, b : b = stack[k].block /\ DTP!OnEveryPath(a, b) => \E j \in 1..k : stack[j].block = a

\* What the cells held when the k-th block of the way was done: what it saved
\* leads back to what they held before, and so on to nothing.
Defined(k) == UNION {IdsIn(f.body[stack[j].block]) : j \in 1..k}
Levels(h) ==
  /\ h[0] = [a \in allocas |-> None] /\ h[Len(stack)] = current
  /\ \A k \in 0..Len(stack) :
       /\ h[k] = [a \in allocas |-> h[k][a]]
       /\ \A a \in allocas : IsVal(h[k][a]) /\ h[k][a][2] \in Ids(f) => h[k][a][2] \in Defined(k)
  /\ \A k \in 1..Len(stack) : PutsBack(stack[k].saved, h[k], h[k - 1])
LevelsOK ==
  /\ phase = "place" => stack = <<>> /\ current = [a \in allocas |-> None]
  /\ phase = "rename" => \E h : Levels(h)
  /\ phase = "done" => \A a \in allocas : current[a] = None

WalkInv == PhiInv /\ GivenOK /\ LayoutOK /\ WayOK /\ LevelsOK

LEMMA IdsAre ==
  ASSUME NEW g
  PROVE  Ids(g) = UNION {IdsIn(g.body[b]) : b \in Blocks(g)}
BY DEF Ids, InstrsOf, IdsIn

\* The name of a new phi is no instruction's of the function it was given.
LEMMA NewNames ==
  ASSUME f.order \in Seq(Labels), NEW a \in Nat \ {0}, NEW b \in Blocks(f)
  PROVE  PhiId(a, b) \notin Nat
<1> DEFINE k == CHOOSE n \in DOMAIN f.order : f.order[n] = b
           m == Len(f.order) + 1
<1>1. k \in Nat \ {0}
  <2>1. \E n \in DOMAIN f.order : f.order[n] = b
    BY DEF Blocks, ToSet
  <2>2. k \in DOMAIN f.order
    BY <2>1
  <2>3. DOMAIN f.order = 1..Len(f.order)
    OBVIOUS
  <2> HIDE DEF k
  <2> QED BY <2>2, <2>3
<1>2. m \in Nat
  OBVIOUS
<1> HIDE DEF k, m
<1>3. a * m \in Nat
  BY <1>2
<1>4. PhiId(a, b) = -(a * m + k)
  BY DEF PhiId, k, m
<1> HIDE DEF PhiId
<1> DEFINE p == a * m
<1> HIDE DEF p
<1>5. p \in Nat /\ PhiId(a, b) = -(p + k)
  BY <1>3, <1>4 DEF p
<1> QED BY <1>1, <1>5

\* A value a visit of b gives is defined in a dominator of b.
LEMMA GivenDominate ==
  ASSUME GivenOK, LayoutOK, phase \in {"place", "rename"}, NEW b \in DTP!Reachable,
         NEW v, GivenIn(b, v), IsVal(v), v[2] \in Ids(f)
  PROVE  \E d : DTP!OnEveryPath(d, b) /\ v[2] \in IdsIn(f.body[d])
<1>1. Blocks(f) = Blocks(original) /\ \A d \in Blocks(original) : Kept(d)
  BY DEF LayoutOK, Blocks
<1>2. IsFunction(original) /\ GraphOf(original)
  BY ProgramsAssumption DEF GivenOK
<1>3. b \in Reachable(original) /\ b \in Blocks(original)
  BY <1>2, SameDominance, ReachableClosed
<1>4. PICK i \in ToSet(f.body[b]) : v = Val(i.id) \/ (i.op = "store" /\ v = i.args[1])
  BY DEF GivenIn
<1>5. CASE v = Val(i.id)
  <2>1. v[2] = i.id
    BY <1>5 DEF Val
  <2>2. v[2] # 0
    BY DEF Ids
  <2>3. v[2] \in IdsIn(f.body[b])
    BY <2>1, <2>2 DEF IdsIn
  <2> QED BY <2>3 DEF DTP!OnEveryPath
<1>6. CASE i.op = "store" /\ v = i.args[1]
  <2>1. i \in ToSet(original.body[b])
    BY <1>1, <1>3, <1>4, <1>6 DEF Kept, IsPhi
  <2>2. IsBody(original.body[b]) /\ WellFormed(original)
    BY <1>2, <1>3 DEF IsFunction
  <2>3. PICK k \in DOMAIN original.body[b] : original.body[b][k] = i
    BY <2>1 DEF ToSet
  <2>4. v \in ToSet(i.args) /\ v[2] \in Nat
    <3>1. Len(i.args) = 2 /\ i.args \in Seq(ToSet(i.args))
      BY <2>1, <2>2, <1>6 DEF IsBody
    <3>2. 1 \in DOMAIN i.args
      BY <3>1
    <3>3. v \in ToSet(i.args)
      BY <3>2, <1>6 DEF ToSet
    <3> QED BY <3>3, <2>1, <2>2 DEF IsBody
  <2>5. v[2] \in Ids(original)
    <3>1. PICK c \in Blocks(f) : v[2] \in IdsIn(f.body[c])
      BY IdsAre
    <3>2. v[2] \in IdsIn(original.body[c])
      BY <3>1, <1>1, <2>4 DEF Kept
    <3> QED BY <3>1, <3>2, <1>1, IdsAre
  <2> DEFINE dominated == Dominated(original)
             above == AtEnd(original, dominated, b) \ IdsIn(original.body[b])
  <2>6. UsesDominated(original, Reachable(original), dominated, Ids(original), b)
    BY <2>2, <1>3 DEF WellFormed
  <2>7. v[2] \in above \/ \E n \in 1..(k - 1) : original.body[b][n].id = v[2]
    <3>1. ~ IsPhi(i)
      BY <1>6 DEF IsPhi
    <3> HIDE DEF dominated
    <3> QED BY <3>1, <2>3, <2>4, <2>5, <2>6 DEF UsesDominated
  <2>8. CASE v[2] \in above
    <3>1. PICK d \in Blocks(original) : <<d, b>> \in dominated /\ v[2] \in IdsIn(original.body[d])
      BY <2>8 DEF AtEnd
    <3>2. DTP!OnEveryPath(d, b)
      BY <3>1, <1>2, SameDominance
    <3>3. v[2] \in IdsIn(f.body[d])
      BY <3>1, <1>1 DEF Kept
    <3> QED BY <3>2, <3>3
  <2>9. CASE \E n \in 1..(k - 1) : original.body[b][n].id = v[2]
    <3>1. PICK n \in 1..(k - 1) : original.body[b][n].id = v[2]
      BY <2>9
    <3>2. DOMAIN original.body[b] = 1..Len(original.body[b]) /\ Len(original.body[b]) \in Nat
      <4> DEFINE s == original.body[b]
      <4>1. s \in Seq(ToSet(s))
        BY <2>2 DEF IsBody
      <4> HIDE DEF s
      <4>2. DOMAIN s = 1..Len(s) /\ Len(s) \in Nat
        BY <4>1
      <4> QED BY <4>2 DEF s
    <3>3. n \in DOMAIN original.body[b]
      BY <2>3, <3>2
    <3>4. v[2] # 0
      BY DEF Ids
    <3>5. v[2] \in IdsIn(original.body[b])
      BY <3>1, <3>3, <3>4 DEF IdsIn, ToSet
    <3>6. v[2] \in IdsIn(f.body[b])
      BY <3>5, <1>1, <1>3 DEF Kept
    <3> QED BY <3>6 DEF DTP!OnEveryPath
  <2> QED BY <2>7, <2>8, <2>9
<1> QED BY <1>4, <1>5, <1>6

LEMMA WalkInit == Init => WalkInv
<1> SUFFICES ASSUME Init PROVE WalkInv
  OBVIOUS
<1>1. f \in Programs /\ original = f /\ phase = "collect" /\ stack = <<>>
  BY DEF Init
<1>2. IsFunction(original)
  BY <1>1, ProgramsAssumption
<1>3. \A b \in Blocks(original) : SuccessorSet(original, b) \subseteq Blocks(original)
  <2> TAKE b \in Blocks(original)
  <2>1. WellFormedBlock(original, b) /\ IsBody(original.body[b])
    BY <1>2 DEF IsFunction, WellFormed
  <2> DEFINE body == original.body[b]
  <2>2. body \in Seq(ToSet(body)) /\ body # <<>>
    BY <2>1 DEF WellFormedBlock, IsBody
  <2>3. Len(body) \in DOMAIN body
    <3> HIDE DEF body
    <3> QED BY <2>2
  <2>4. SuccessorSet(original, b) = ToSet(body[Len(body)].to)
    BY DEF SuccessorSet, Terminator, Last
  <2> QED BY <2>1, <2>3, <2>4 DEF WellFormedBlock
<1>4. GraphOf(original)
  BY <1>1, <1>2, <1>3 DEF GraphOf, IsFunction, Init
<1> QED BY <1>1, <1>4, PhiInit DEF WalkInv, GivenOK, LayoutOK, WayOK, LevelsOK

\* No step changes the graph or the function it was given.
LEMMA SameGiven ==
  ASSUME GivenOK, [Next]_vars
  PROVE  /\ original' = original /\ edges' = edges
         /\ GraphOf(original)' /\ (DTP!Reachable)' = DTP!Reachable
         /\ \A a, b : (DTP!OnEveryPath(a, b))' <=> DTP!OnEveryPath(a, b)
<1>1. original' = original
  BY DEF Next, vars, promotion, FindTree, Collect, StartPlacing, PlaceOne, PlaceFor, StartRenaming,
     RenameChild, RenameFrom, Return, Finish
<1>2. edges' = edges
  <2>1. CASE DTP!Next
    BY <2>1 DEF DTP!Next, DTP!DfsEnter, DTP!DfsLeave, DTP!StartSweeps, DTP!SkipBlock,
       DTP!FirstPredecessor, DTP!NextPredecessor, DTP!Climb, DTP!EndBlock, DTP!SweepAgain,
       DTP!EndSweeps, DTP!NumberEnter, DTP!NumberLeave, DTP!Finish
  <2>2. CASE UNCHANGED DTP!vars
    BY <2>2 DEF DTP!vars
  <2> QED BY <2>1, <2>2, TreeSteps
<1>3. GraphOf(original)'
  BY <1>1, <1>2 DEF GivenOK, GraphOf
<1>4. (DTP!Reachable)' = DTP!Reachable /\ \A a, b : (DTP!OnEveryPath(a, b))' <=> DTP!OnEveryPath(a, b)
  BY <1>2, DTP!SameEdges
<1> QED BY <1>1, <1>2, <1>3, <1>4

LEMMA WalkCollect ==
  ASSUME WalkInv, Collect
  PROVE  WalkInv'
<1>1. /\ phase = "collect" /\ tree_phase = "done" /\ f' = f /\ UNCHANGED <<tree, stack, original>>
      /\ allocas' = Promotable /\ phase' \in {"done", "place"} /\ (phase' = "done" => Promotable = {})
      /\ current' = [a \in Promotable |-> None]
  BY DEF Collect
<1>2. f = original /\ stack = <<>>
  BY <1>1 DEF WalkInv, GivenOK
<1>3. PhiInv'
  BY CollectKeeps DEF WalkInv
<1>4. GivenOK'
  BY <1>1, SameGiven DEF WalkInv, GivenOK, Next, tree
<1>5. LayoutOK'
  BY <1>1, <1>2 DEF LayoutOK, Kept
<1>6. WayOK'
  BY <1>1, <1>2 DEF WayOK
<1>7. LevelsOK'
  BY <1>1, <1>2 DEF LevelsOK
<1> QED BY <1>3, <1>4, <1>5, <1>6, <1>7 DEF WalkInv

LEMMA WalkStartPlacing ==
  ASSUME WalkInv, StartPlacing
  PROVE  WalkInv'
<1>1. /\ phase = "place" /\ phase' = "place" /\ f' = f
      /\ UNCHANGED <<tree, stack, original, allocas, current>>
  BY DEF StartPlacing
<1>2. PhiInv'
  BY StartPlacingKeeps DEF WalkInv
<1>3. GivenOK'
  BY <1>1, SameGiven DEF WalkInv, GivenOK, Next, tree
<1>4. LayoutOK'
  BY <1>1 DEF WalkInv, LayoutOK, Kept
<1>5. stack = <<>> /\ stack' = <<>>
  BY <1>1 DEF WalkInv, LevelsOK
<1>6. WayOK' /\ LevelsOK'
  BY <1>1, <1>5 DEF WalkInv, WayOK, LevelsOK
<1> QED BY <1>2, <1>3, <1>4, <1>6 DEF WalkInv

LEMMA WalkPlace ==
  ASSUME WalkInv, NEW x \in worklist, PlaceFor(x)
  PROVE  WalkInv'
<1> DEFINE new == {d \in frontiers[x] : ~HasPhi(placing, d)}
           body == [d \in DOMAIN f.body |->
                      IF d \in new THEN InsertPhi(f.body[d], PhiId(placing, d)) ELSE f.body[d]]
<1>1. /\ phase = "place" /\ phase' = "place" /\ f' = [f EXCEPT !.body = body]
      /\ UNCHANGED <<tree, stack, original, allocas, current>>
  BY DEF PlaceFor
<1>2. PhiInv'
  BY PlaceKeeps DEF WalkInv
<1>3. GivenOK'
  <2>1. Next
    BY DEF Next, PlaceOne
  <2> QED BY <2>1, <1>1, SameGiven DEF WalkInv, GivenOK, tree
<1>4. /\ DOMAIN f = {"order", "body"} /\ DOMAIN f.body = Blocks(f)
      /\ \A b \in Blocks(f) : Shaped(f.body[b])
  BY <1>1 DEF WalkInv, PhiInv, ShapeOK
<1>5. f'.order = f.order /\ f'.body = body
  BY <1>1, <1>4
<1>6. /\ f.order = original.order /\ f.order \in Seq(Labels) /\ Blocks(f) = Blocks(original)
      /\ \A b \in Blocks(original) : Kept(b)
  BY <1>1 DEF WalkInv, GivenOK, GraphOf, LayoutOK, Blocks
<1>7. placing \in Nat \ {0}
  BY <1>1 DEF WalkInv, PhiInv, PlacingOK
<1>8. ASSUME NEW b \in Blocks(original) PROVE Kept(b)'
  <2>1. CASE b \notin new
    <3>1. f'.body[b] = f.body[b]
      BY <2>1, <1>4, <1>5, <1>6
    <3> QED BY <3>1, <1>1, <1>6 DEF Kept
  <2>2. CASE b \in new
    <3> DEFINE id == PhiId(placing, b)
    <3>1. f'.body[b] = InsertPhi(f.body[b], id)
      BY <2>2, <1>4, <1>5, <1>6
    <3>2. ToSet(f'.body[b]) = ToSet(f.body[b]) \cup {Phi(id, <<>>, <<>>)}
      BY <3>1, <1>4, <1>6, InsertedPhi
    <3>3. id \notin Nat
      BY <1>6, <1>7, NewNames
    <3> HIDE DEF id
    <3>4. Phi(id, <<>>, <<>>).op = "phi" /\ Phi(id, <<>>, <<>>).id = id
      BY DEF Phi, Instr
    <3>5. IdsIn(f'.body[b]) = IdsIn(f.body[b]) \cup ({id} \ {0})
      BY <3>2, <3>4 DEF IdsIn
    <3>6. \A i \in ToSet(f'.body[b]) : IsPhi(i) \/ i \in ToSet(original.body[b])
      BY <3>2, <3>4, <1>6 DEF Kept, IsPhi
    <3> QED BY <3>3, <3>5, <3>6, <1>1, <1>6 DEF Kept
  <2> QED BY <2>1, <2>2
<1>9. LayoutOK'
  BY <1>1, <1>5, <1>6, <1>8 DEF LayoutOK
<1>10. stack = <<>> /\ stack' = <<>>
  BY <1>1 DEF WalkInv, LevelsOK
<1>11. WayOK' /\ LevelsOK'
  BY <1>1, <1>10 DEF WalkInv, WayOK, LevelsOK
<1> QED BY <1>2, <1>3, <1>9, <1>11 DEF WalkInv

\* The block the walk goes on to has its dominators on the way, and what it
\* leaves in the cells is defined there.
LEMMA WalkRename ==
  ASSUME WalkInv, [Next]_vars, phase \in {"place", "rename"}, worklist = {}, Unplaced = {},
         NEW frames, NEW b, RenameFrom(frames, b),
         frames \in Seq(ToSet(frames)), Len(frames) = Len(stack),
         \A k \in 1..Len(stack) :
            /\ frames[k] = [block |-> stack[k].block, saved |-> stack[k].saved, todo |-> frames[k].todo]
            /\ frames[k].todo \subseteq stack[k].todo,
         b \in DTP!Reachable,
         \A a : DTP!OnEveryPath(a, b) => a = b \/ \E j \in 1..Len(stack) : stack[j].block = a
  PROVE  WalkInv'
<1>n. PICK n : n = Len(stack)
  OBVIOUS
<1>w. PICK w : w = Visited(b)
  OBVIOUS
<1>f. PICK frame : frame = [block |-> b, saved |-> w.saved, todo |-> DomChildren(b)]
  OBVIOUS
<1>1. /\ f' = WithIncoming(b, w.cur) /\ current' = w.cur
      /\ stack' = Append(frames, frame) /\ phase' = "rename"
      /\ UNCHANGED <<original, tree, allocas>>
  BY <1>w, <1>f DEF RenameFrom
<1>2. PhiInv'
  BY RenameKeeps DEF WalkInv
<1>3. original' = original /\ GraphOf(original)' /\ (DTP!Reachable)' = DTP!Reachable
      /\ \A a, c : (DTP!OnEveryPath(a, c))' <=> DTP!OnEveryPath(a, c)
  BY SameGiven DEF WalkInv
<1>4. GivenOK'
  BY <1>1, <1>3 DEF WalkInv, GivenOK, tree
<1>5. /\ DOMAIN f = {"order", "body"} /\ DOMAIN f.body = Blocks(f)
      /\ \A s \in Blocks(f) : Shaped(f.body[s])
  BY DEF WalkInv, PhiInv, ShapeOK
<1>6. f.order = original.order /\ Blocks(f) = Blocks(original) /\ \A s \in Blocks(f) : Kept(s)
  BY DEF WalkInv, LayoutOK, Blocks
<1>7. PICK body : /\ f' = [f EXCEPT !.body = body] /\ DOMAIN body = Blocks(f)
                  /\ \A s \in Blocks(f) : OnlyPhisOf(f.body[s], body[s])
  <2>1. ShapeOK /\ phase # "done"
    BY DEF WalkInv, PhiInv
  <2>2. PICK cur : cur = w.cur
    OBVIOUS
  <2>3. f' = WithIncoming(b, cur)
    BY <2>2, <1>1
  <2> QED BY <2>1, <2>3, IncomingAdded
<1>8. f'.order = f.order /\ f'.body = body /\ Blocks(f') = Blocks(f)
  BY <1>5, <1>7 DEF Blocks
<1>9. Ids(f') = Ids(f)
  <2>1. \A s \in Blocks(f) : IdsIn(f'.body[s]) = IdsIn(f.body[s])
    BY <1>7, <1>8 DEF OnlyPhisOf
  <2>2. Ids(f) = UNION {IdsIn(f.body[s]) : s \in Blocks(f)}
    BY IdsAre
  <2>3. Ids(f') = UNION {IdsIn(f'.body[s]) : s \in Blocks(f)}
    BY <1>8, IdsAre
  <2>4. \A x : x \in Ids(f) <=> \E s \in Blocks(f) : x \in IdsIn(f.body[s])
    BY <2>2
  <2>5. \A x : x \in Ids(f') <=> \E s \in Blocks(f) : x \in IdsIn(f'.body[s])
    BY <2>3
  <2> QED BY <2>1, <2>4, <2>5
<1>10. LayoutOK'
  BY <1>1, <1>6, <1>7, <1>8 DEF LayoutOK, Kept, OnlyPhisOf
<1>11. b \in Blocks(f) /\ DTP!Reachable \subseteq Blocks(f)
  <2>1. DTP!Reachable \subseteq Blocks(original)
    BY SameDominance, ReachableClosed DEF WalkInv, GivenOK
  <2> QED BY <2>1, <1>6
<1>12. n \in Nat /\ WayOK /\ n = Len(frames) /\ n = Len(stack)
  BY <1>n DEF WalkInv
<1>13. /\ stack' \in Seq(ToSet(stack')) /\ Len(stack') = n + 1 /\ stack'[n + 1] = frame
       /\ \A k \in 1..n : stack'[k] = frames[k]
  <2> DEFINE F == ToSet(frames) \cup {frame}
  <2>1. frames \in Seq(F) /\ frame \in F
    OBVIOUS
  <2> HIDE DEF F
  <2>2. /\ Append(frames, frame) \in Seq(F) /\ Len(Append(frames, frame)) = n + 1
        /\ Append(frames, frame)[n + 1] = frame
        /\ \A k \in 1..n : Append(frames, frame)[k] = frames[k]
    BY <2>1, <1>12, AppendProperties
  <2> DEFINE s == Append(frames, frame)
  <2> HIDE DEF s
  <2>3. s \in Seq(F) /\ Len(s) = n + 1
    BY <2>2 DEF s
  <2>4. s \in Seq(ToSet(s))
    BY <2>3 DEF ToSet
  <2> QED BY <1>1, <2>2, <2>4 DEF s
<1>14. \A k \in 1..n : stack'[k].block = stack[k].block /\ stack'[k].saved = stack[k].saved
                       /\ stack'[k].todo \subseteq stack[k].todo
                       /\ stack'[k] = [block |-> stack'[k].block, saved |-> stack'[k].saved, todo |-> stack'[k].todo]
  <2> TAKE k \in 1..n
  <2> DEFINE t == frames[k].todo
  <2>1. frames[k] = [block |-> stack[k].block, saved |-> stack[k].saved, todo |-> t] /\ t \subseteq stack[k].todo
    BY <1>n
  <2> HIDE DEF t
  <2> QED BY <2>1, <1>13
<1>15. stack'[n + 1].block = b /\ stack'[n + 1].saved = w.saved /\ stack'[n + 1].todo = DomChildren(b)
       /\ stack'[n + 1] = [block |-> b, saved |-> w.saved, todo |-> DomChildren(b)]
  BY <1>13, <1>f
<1>16. idom' = idom
  BY <1>1 DEF tree
<1>17. WayOK'
  <2>1. ASSUME NEW k \in 1..(n + 1)
        PROVE  /\ stack'[k] = [block |-> stack'[k].block, saved |-> stack'[k].saved, todo |-> stack'[k].todo]
               /\ stack'[k].block \in DTP!Reachable
               /\ \A c \in stack'[k].todo : c \in DOMAIN idom /\ idom[c] = stack'[k].block
               /\ \A a, c : c = stack'[k].block /\ DTP!OnEveryPath(a, c) => \E j \in 1..k : stack'[j].block = a
    <3>1. CASE k = n + 1
      <4>1. ASSUME NEW a, DTP!OnEveryPath(a, b) PROVE \E j \in 1..k : stack'[j].block = a
        <5>1. CASE a = b
          BY <3>1, <5>1, <1>12, <1>15
        <5>2. CASE \E j \in 1..n : stack[j].block = a
          <6>1. PICK j \in 1..n : stack[j].block = a
            BY <5>2
          <6>2. stack'[j].block = stack[j].block
            BY <1>14
          <6>3. j \in 1..k
            BY <3>1, <1>12
          <6> QED BY <6>1, <6>2, <6>3
        <5> QED BY <4>1, <5>1, <5>2, <1>n
      <4> QED BY <3>1, <4>1, <1>15 DEF DomChildren
    <3>2. CASE k # n + 1
      <4>1. k \in 1..n /\ \A j \in 1..k : j \in 1..n
        BY <3>2, <1>12
      <4>2. \A a, c : c = stack[k].block /\ DTP!OnEveryPath(a, c) => \E j \in 1..k : stack[j].block = a
        BY <4>1, <1>12 DEF WayOK
      <4>3. ASSUME NEW a, NEW c, c = stack'[k].block, DTP!OnEveryPath(a, c)
            PROVE  \E j \in 1..k : stack'[j].block = a
        <5>1. PICK j \in 1..k : stack[j].block = a
          BY <4>1, <4>2, <4>3, <1>14
        <5> QED BY <4>1, <5>1, <1>14
      <4>4. stack[k].block \in DTP!Reachable /\ \A c \in stack[k].todo : c \in DOMAIN idom /\ idom[c] = stack[k].block
        BY <4>1, <1>12 DEF WayOK
      <4> QED BY <4>1, <4>3, <4>4, <1>14
    <3> QED BY <3>1, <3>2
  <2> QED BY <2>1, <1>3, <1>13, <1>16 DEF WayOK
<1>18. PICK h : Levels(h)
  <2>1. CASE phase = "rename"
    BY <2>1 DEF WalkInv, LevelsOK
  <2>2. CASE phase = "place"
    <3>1. n = 0 /\ current = [a \in allocas |-> None] /\ stack = <<>>
      BY <2>2, <1>n DEF WalkInv, LevelsOK
    <3> DEFINE g == [k \in 0..0 |-> current]
    <3>2. Levels(g)
      BY <3>1 DEF Levels, None, IsVal
    <3> HIDE DEF g
    <3> QED BY <3>2
  <2> QED BY <2>1, <2>2
<1>h. /\ h[0] = [a \in allocas |-> None] /\ h[n] = current
      /\ \A k \in 0..n :
           /\ h[k] = [a \in allocas |-> h[k][a]]
           /\ \A a \in allocas : IsVal(h[k][a]) /\ h[k][a][2] \in Ids(f) => h[k][a][2] \in Defined(k)
      /\ \A k \in 1..n : PutsBack(stack[k].saved, h[k], h[k - 1])
  BY <1>n, <1>18 DEF Levels
<1>19. current = [a \in allocas |-> current[a]]
  <2>1. h[n] = current /\ n \in 0..n
    BY <1>12, <1>h
  <2> QED BY <2>1, <1>h
<1>20. VisitOK(w, b)
  BY <1>5, <1>11, <1>19, <1>w, VisitedOK DEF Shaped
<1>21. \A k \in 0..n : Defined(k)' = Defined(k)
  <2> TAKE k \in 0..n
  <2>1. ASSUME NEW j \in 1..k
        PROVE  j \in 1..n /\ stack'[j].block = stack[j].block /\ stack[j].block \in Blocks(f)
    <3>1. j \in 1..n
      BY <1>12
    <3>2. stack[j].block \in DTP!Reachable
      BY <3>1, <1>12 DEF WayOK
    <3> QED BY <3>1, <3>2, <1>11, <1>14
  <2>2. \A j \in 1..k : IdsIn(f'.body[stack'[j].block]) = IdsIn(f.body[stack[j].block])
    BY <2>1, <1>7, <1>8 DEF OnlyPhisOf
  <2> QED BY <2>2 DEF Defined
<1>m. PICK m : m = [k \in 0..(n + 1) |-> IF k = n + 1 THEN w.cur ELSE h[k]]
  OBVIOUS
<1>22. m[n + 1] = w.cur /\ \A k \in 0..n : m[k] = h[k]
  BY <1>12, <1>m
<1>23. ASSUME NEW k \in 0..(n + 1)
       PROVE  /\ m[k] = [a \in allocas |-> m[k][a]]
              /\ \A a \in allocas : IsVal(m[k][a]) /\ m[k][a][2] \in Ids(f) => m[k][a][2] \in Defined(k)'
  <2>1. CASE k # n + 1
    <3>1. k \in 0..n
      BY <2>1, <1>12
    <3> QED BY <3>1, <1>h, <1>21, <1>22
  <2>2. CASE k = n + 1
    <3>1. m[k] = [a \in allocas |-> m[k][a]]
      BY <2>2, <1>20, <1>22 DEF VisitOK
    <3>2. ASSUME NEW a \in allocas, IsVal(w.cur[a]), w.cur[a][2] \in Ids(f)
          PROVE  \E j \in 1..(n + 1) : w.cur[a][2] \in IdsIn(f'.body[stack'[j].block])
      <4>1. CASE w.cur[a] = current[a]
        <5>1. h[n] = current /\ n \in 0..n
          BY <1>12, <1>h
        <5>2. w.cur[a][2] \in Defined(n)
          BY <3>2, <4>1, <5>1, <1>h
        <5>3. w.cur[a][2] \in Defined(n)'
          BY <5>1, <5>2, <1>21
        <5>4. PICK j \in 1..n : w.cur[a][2] \in IdsIn(f'.body[stack'[j].block])
          BY <5>3 DEF Defined
        <5>5. j \in 1..(n + 1)
          BY <1>12
        <5> QED BY <5>4, <5>5
      <4>2. CASE GivenIn(b, w.cur[a])
        <5>1. PICK d : DTP!OnEveryPath(d, b) /\ w.cur[a][2] \in IdsIn(f.body[d])
          BY <3>2, <4>2, GivenDominate DEF WalkInv
        <5>2. PICK j \in 1..(n + 1) : stack'[j].block = d
          <6>1. CASE d = b
            <7>1. n + 1 \in 1..(n + 1)
              BY <1>12
            <7> QED BY <6>1, <7>1, <1>15
          <6>2. CASE \E j \in 1..n : stack[j].block = d
            <7>1. PICK j \in 1..n : stack[j].block = d
              BY <6>2
            <7>2. stack'[j].block = stack[j].block
              BY <1>14
            <7>3. j \in 1..(n + 1)
              BY <1>12
            <7> QED BY <7>1, <7>2, <7>3
          <6> QED BY <5>1, <6>1, <6>2, <1>n
        <5>3. d \in Blocks(f)
          <6>1. d \in DTP!Reachable
            BY <5>1, EntryAssumption, DTP!OnPathReachable
          <6> QED BY <6>1, <1>11
        <5>4. IdsIn(f'.body[d]) = IdsIn(f.body[d])
          BY <5>3, <1>7, <1>8 DEF OnlyPhisOf
        <5> QED BY <5>1, <5>2, <5>4
      <4> QED BY <4>1, <4>2, <1>20 DEF VisitOK
    <3>3. \A a \in allocas : IsVal(w.cur[a]) /\ w.cur[a][2] \in Ids(f) => w.cur[a][2] \in Defined(n + 1)'
      BY <3>2 DEF Defined
    <3> QED BY <2>2, <3>1, <3>3, <1>22
  <2> QED BY <2>1, <2>2
<1>24. ASSUME NEW k \in 1..(n + 1) PROVE PutsBack(stack'[k].saved, m[k], m[k - 1])
  <2>1. CASE k # n + 1
    <3>1. k \in 1..n /\ k \in 0..n /\ k - 1 \in 0..n
      BY <2>1, <1>12
    <3> QED BY <3>1, <1>14, <1>h, <1>22
  <2>2. CASE k = n + 1
    <3>1. m[k - 1] = current
      <4>1. n \in 0..n /\ k - 1 = n
        BY <2>2, <1>12
      <4> QED BY <4>1, <1>h, <1>22
    <3> QED BY <2>2, <3>1, <1>15, <1>20, <1>22 DEF VisitOK
  <2> QED BY <2>1, <2>2
<1>25. Levels(m)'
  <2>1. m[0] = [a \in allocas |-> None]
    <3>1. 0 \in 0..n
      BY <1>12
    <3> QED BY <3>1, <1>h, <1>22
  <2>2. Len(stack') = n + 1
    BY <1>13
  <2> QED BY <2>1, <2>2, <1>1, <1>9, <1>22, <1>23, <1>24 DEF Levels
<1>26. LevelsOK'
  BY <1>1, <1>25 DEF LevelsOK
<1> QED BY <1>2, <1>4, <1>10, <1>17, <1>26 DEF WalkInv

\* The walk begins at the entry and goes on to blocks whose immediate dominator
\* it is in.
LEMMA WalkStart ==
  ASSUME WalkInv, StartRenaming
  PROVE  WalkInv'
<1>1. /\ phase = "place" /\ worklist = {} /\ Unplaced = {} /\ RenameFrom(<<>>, EntryLabel)
      /\ stack = <<>>
  <2>1. phase = "place" /\ RenameFrom(<<>>, Entry(f)) /\ worklist = {} /\ Unplaced = {}
    BY DEF StartRenaming
  <2>2. Entry(f) = EntryLabel
    BY <2>1 DEF WalkInv, GivenOK, LayoutOK, GraphOf, Entry
  <2>3. stack = <<>>
    BY <2>1 DEF WalkInv, LevelsOK
  <2> QED BY <2>1, <2>2, <2>3
<1>2. EntryLabel \in DTP!Reachable
  BY EntryAssumption, DTP!PathFacts
<1>3. \A a : DTP!OnEveryPath(a, EntryLabel) => a = EntryLabel
  BY EntryAssumption, DTP!OnlyRoot
<1>4. Next
  BY DEF Next
<1> DEFINE frames == <<>>
<1>5. frames \in Seq(ToSet(frames)) /\ Len(frames) = Len(stack) /\ Len(stack) = 0
  BY <1>1
<1>6. RenameFrom(frames, EntryLabel)
  BY <1>1
<1> HIDE DEF frames
<1>7. \A k \in 1..Len(stack) : FALSE
  BY <1>5
<1>8. \A k \in 1..Len(stack) :
        /\ frames[k] = [block |-> stack[k].block, saved |-> stack[k].saved, todo |-> frames[k].todo]
        /\ frames[k].todo \subseteq stack[k].todo
  BY <1>7
<1>9. \A a : DTP!OnEveryPath(a, EntryLabel) => a = EntryLabel \/ \E j \in 1..Len(stack) : stack[j].block = a
  BY <1>3
<1>10. frames \in Seq(ToSet(frames)) /\ Len(frames) = Len(stack)
  BY <1>5
<1> QED BY <1>1, <1>2, <1>4, <1>6, <1>8, <1>9, <1>10, WalkRename

LEMMA WalkChild ==
  ASSUME WalkInv, DTP!IInv, RenameChild
  PROVE  WalkInv'
<1>1. phase = "rename" /\ stack # <<>> /\ worklist = {} /\ Unplaced = {}
  BY DEF RenameChild, WalkInv, PhiInv, RenamingOK
<1>2. PICK c \in Top.todo : RenameFrom([stack EXCEPT ![Len(stack)].todo = @ \ {c}], c)
  BY DEF RenameChild
<1>n. PICK n : n = Len(stack)
  OBVIOUS
<1>3. stack \in Seq(ToSet(stack)) /\ n \in Nat \ {0} /\ DOMAIN stack = 1..n /\ Top = stack[n]
  BY <1>1, <1>n DEF WalkInv, WayOK, Top, Last
<1>4. PICK d : d = stack[n].block
  OBVIOUS
<1>5. c \in DOMAIN idom /\ idom[c] = d /\ stack[n].todo \ {c} \subseteq stack[n].todo
  BY <1>1, <1>2, <1>3, <1>4, <1>n DEF WalkInv, WayOK
<1>6. DOMAIN idom = DTP!Reachable \ {EntryLabel} /\ DTP!Immediate(idom[c], c)
  BY <1>1, <1>5, DTP!FoundInInvariant DEF WalkInv, GivenOK, DTP!ImmediateDominatorsFound
<1>7. ASSUME NEW a, DTP!OnEveryPath(a, c)
      PROVE  a = c \/ \E j \in 1..n : stack[j].block = a
  <2>1. SUFFICES ASSUME a # c PROVE \E j \in 1..n : stack[j].block = a
    OBVIOUS
  <2>2. a \in DTP!Reachable
    BY <1>5, <1>6, <1>7, EntryAssumption, DTP!OnPathReachable
  <2>3. DTP!OnEveryPath(a, d)
    BY <2>1, <2>2, <1>5, <1>6, <1>7 DEF DTP!Immediate
  <2> QED BY <2>3, <1>1, <1>3, <1>4, <1>n DEF WalkInv, WayOK
<1>8. PICK frames : frames = [stack EXCEPT ![n].todo = @ \ {c}]
  OBVIOUS
<1>9. ASSUME NEW k \in 1..n
      PROVE  /\ frames[k] = [block |-> stack[k].block, saved |-> stack[k].saved, todo |-> frames[k].todo]
             /\ frames[k].todo \subseteq stack[k].todo
  <2>1. stack[k] = [block |-> stack[k].block, saved |-> stack[k].saved, todo |-> stack[k].todo]
    BY <1>1, <1>n DEF WalkInv, WayOK
  <2>2. CASE k = n
    <3>1. frames[k] = [stack[k] EXCEPT !.todo = @ \ {c}]
      BY <2>2, <1>3, <1>8
    <3>2. frames[k] = [block |-> stack[k].block, saved |-> stack[k].saved, todo |-> stack[k].todo \ {c}]
      BY <2>1, <3>1
    <3> QED BY <3>2
  <2>3. CASE k # n
    <3>1. frames[k] = stack[k]
      BY <2>3, <1>3, <1>8
    <3> QED BY <2>1, <3>1
  <2> QED BY <2>2, <2>3
<1>10. frames \in Seq(ToSet(frames)) /\ Len(frames) = n
  <2>1. DOMAIN frames = 1..n /\ frames = [k \in 1..n |-> frames[k]]
    BY <1>3, <1>8
  <2>2. \A k \in 1..n : frames[k] \in ToSet(frames)
    BY <2>1 DEF ToSet
  <2>3. frames \in [1..n -> ToSet(frames)]
    BY <2>1, <2>2
  <2> QED BY <2>3, <1>3, SeqDef, LenProperties
<1>11. [Next]_vars
  BY DEF Next
<1>12. RenameFrom(frames, c)
  BY <1>2, <1>8, <1>n
<1> QED BY <1>1, <1>5, <1>6, <1>7, <1>9, <1>10, <1>11, <1>12, <1>n, WalkRename

\* Leaving a block puts back what the cells held before it.
LEMMA WalkReturn ==
  ASSUME WalkInv, Return
  PROVE  WalkInv'
<1>1. /\ phase = "rename" /\ phase' = "rename" /\ stack # <<>> /\ f' = f
      /\ current' = PutBack(Top.saved) /\ stack' = Front(stack)
      /\ UNCHANGED <<original, tree, allocas>>
  BY DEF Return
<1>n. PICK n : n = Len(stack)
  OBVIOUS
<1>2. /\ stack \in Seq(ToSet(stack)) /\ n \in Nat \ {0} /\ DOMAIN stack = 1..n /\ Top = stack[n]
      /\ n - 1 \in Nat
  BY <1>1, <1>n DEF WalkInv, WayOK, Top, Last
<1>3. /\ stack' \in Seq(ToSet(stack')) /\ Len(stack') = n - 1
      /\ \A k \in 1..(n - 1) : stack'[k] = stack[k]
  <2> DEFINE T == ToSet(stack)
             s == SubSeq(stack, 1, n - 1)
  <2>1. stack' = s
    BY <1>1, <1>n DEF Front
  <2>2. \A k \in 1..(n - 1) : stack[k] \in T
    BY <1>2 DEF ToSet
  <2>3. s \in Seq(T) /\ Len(s) = n - 1 /\ \A k \in 1..(n - 1) : s[k] = stack[k]
    <3>1. stack \in Seq(T) /\ 1 \in 1..(n + 1) /\ n - 1 \in 0..n
      BY <1>2
    <3> HIDE DEF T
    <3> QED BY <3>1, <1>2, <1>n, SubSeqProperties
  <2> HIDE DEF s, T
  <2>4. s \in Seq(ToSet(s))
    BY <2>3 DEF ToSet
  <2> QED BY <2>1, <2>3, <2>4
<1>4. PhiInv'
  BY OthersKeep DEF WalkInv
<1>5. [Next]_vars
  BY DEF Next
<1>6. GivenOK' /\ (DTP!Reachable)' = DTP!Reachable
      /\ \A a, b : (DTP!OnEveryPath(a, b))' <=> DTP!OnEveryPath(a, b)
  BY <1>1, <1>5, SameGiven DEF WalkInv, GivenOK, tree
<1>7. LayoutOK'
  BY <1>1 DEF WalkInv, LayoutOK, Kept
<1>8. WayOK'
  <2>1. ASSUME NEW k \in 1..(n - 1)
        PROVE  /\ stack'[k] = [block |-> stack'[k].block, saved |-> stack'[k].saved, todo |-> stack'[k].todo]
               /\ stack'[k].block \in DTP!Reachable
               /\ \A c \in stack'[k].todo : c \in DOMAIN idom /\ idom[c] = stack'[k].block
               /\ \A a, c : c = stack'[k].block /\ DTP!OnEveryPath(a, c) => \E j \in 1..k : stack'[j].block = a
    <3>1. k \in 1..n /\ stack'[k] = stack[k] /\ \A j \in 1..k : stack'[j] = stack[j]
      BY <1>2, <1>3
    <3>2. /\ stack[k] = [block |-> stack[k].block, saved |-> stack[k].saved, todo |-> stack[k].todo]
          /\ stack[k].block \in DTP!Reachable
          /\ \A c \in stack[k].todo : c \in DOMAIN idom /\ idom[c] = stack[k].block
          /\ \A a, c : c = stack[k].block /\ DTP!OnEveryPath(a, c) => \E j \in 1..k : stack[j].block = a
      BY <1>1, <1>n, <3>1 DEF WalkInv, WayOK
    <3> QED BY <3>1, <3>2
  <2>2. idom' = idom
    BY <1>1 DEF tree
  <2> QED BY <2>1, <2>2, <1>3, <1>6 DEF WayOK
<1>9. PICK h : Levels(h)
  BY <1>1 DEF WalkInv, LevelsOK
<1>10. /\ h[0] = [a \in allocas |-> None] /\ h[n] = current
       /\ \A k \in 0..n :
            /\ h[k] = [a \in allocas |-> h[k][a]]
            /\ \A a \in allocas : IsVal(h[k][a]) /\ h[k][a][2] \in Ids(f) => h[k][a][2] \in Defined(k)
       /\ \A k \in 1..n : PutsBack(stack[k].saved, h[k], h[k - 1])
  BY <1>9, <1>n DEF Levels
<1>11. current' = h[n - 1]
  <2>1. PutsBack(Top.saved, current, h[n - 1])
    BY <1>2, <1>10
  <2> QED BY <2>1, <1>1, PutBackRestores
<1>12. \A k \in 0..(n - 1) : Defined(k)' = Defined(k)
  <2> TAKE k \in 0..(n - 1)
  <2>1. \A j \in 1..k : stack'[j] = stack[j]
    BY <1>2, <1>3
  <2> QED BY <2>1, <1>1 DEF Defined
<1>13. Levels(h)'
  <2>1. \A k \in 0..(n - 1) : k \in 0..n
    BY <1>2
  <2>2. \A k \in 1..(n - 1) : k \in 1..n /\ stack'[k] = stack[k]
    BY <1>2, <1>3
  <2>3. Ids(f') = Ids(f)
    BY <1>1
  <2> QED BY <2>1, <2>2, <2>3, <1>1, <1>3, <1>10, <1>11, <1>12 DEF Levels
<1>14. LevelsOK'
  BY <1>1, <1>13 DEF LevelsOK
<1> QED BY <1>4, <1>6, <1>7, <1>8, <1>14 DEF WalkInv

LEMMA WalkOthers ==
  ASSUME WalkInv, FindTree \/ Finish \/ UNCHANGED vars
  PROVE  WalkInv'
<1>1. PhiInv' /\ [Next]_vars
  BY OthersKeep DEF WalkInv, Next
<1>2. original' = original /\ edges' = edges /\ GraphOf(original)'
      /\ (DTP!Reachable)' = DTP!Reachable
      /\ \A a, b : (DTP!OnEveryPath(a, b))' <=> DTP!OnEveryPath(a, b)
  BY <1>1, SameGiven DEF WalkInv
<1>3. CASE FindTree
  <2>1. phase = "collect" /\ phase' = "collect" /\ f' = f /\ stack' = stack
    BY <1>3 DEF FindTree, promotion
  <2> QED BY <2>1, <1>1, <1>2 DEF WalkInv, GivenOK, LayoutOK, WayOK, LevelsOK
<1>4. CASE Finish
  <2>1. phase = "rename" /\ phase' = "done" /\ stack = <<>> /\ UNCHANGED <<current, allocas>>
    BY <1>4 DEF Finish
  <2>2. PICK h : Levels(h)
    BY <2>1 DEF WalkInv, LevelsOK
  <2>3. current = [a \in allocas |-> None]
    BY <2>1, <2>2 DEF Levels
  <2> QED BY <2>1, <2>3, <1>1, <1>2 DEF WalkInv, GivenOK, LayoutOK, WayOK, LevelsOK
<1>5. CASE UNCHANGED vars
  <2>1. UNCHANGED <<f, original, phase, allocas, current, stack, idom, tree_phase>>
    BY <1>5 DEF vars, promotion, tree
  <2>2. GivenOK' /\ LayoutOK'
    BY <2>1, <1>2 DEF WalkInv, GivenOK, LayoutOK, Kept
  <2>3. WayOK'
    <3>1. ASSUME phase \in {"place", "rename"}, NEW k \in 1..Len(stack)
          PROVE  /\ stack[k] = [block |-> stack[k].block, saved |-> stack[k].saved, todo |-> stack[k].todo]
                 /\ stack[k].block \in DTP!Reachable
                 /\ \A c \in stack[k].todo : c \in DOMAIN idom /\ idom[c] = stack[k].block
                 /\ \A a, c : c = stack[k].block /\ DTP!OnEveryPath(a, c) => \E j \in 1..k : stack[j].block = a
      BY <3>1 DEF WalkInv, WayOK
    <3>2. phase \in {"place", "rename"} => stack' \in Seq(ToSet(stack'))
      BY <2>1 DEF WalkInv, WayOK
    <3>3. stack' = stack /\ phase' = phase /\ idom' = idom
      BY <2>1
    <3> QED BY <3>1, <3>2, <3>3, <1>2 DEF WayOK
  <2>4. \A h : Levels(h) => Levels(h)'
    <3>1. \A k : Defined(k)' = Defined(k)
      BY <2>1 DEF Defined
    <3>2. Ids(f') = Ids(f)
      BY <2>1
    <3> QED BY <2>1, <3>1, <3>2 DEF Levels
  <2>5. LevelsOK'
    BY <2>1, <2>4 DEF WalkInv, LevelsOK
  <2> QED BY <1>1, <2>2, <2>3, <2>5 DEF WalkInv
<1> QED BY <1>3, <1>4, <1>5

LEMMA WalkStep ==
  ASSUME WalkInv, DTP!IInv, [Next]_vars
  PROVE  WalkInv'
<1>1. CASE Collect
  BY <1>1, WalkCollect
<1>2. CASE StartPlacing
  BY <1>2, WalkStartPlacing
<1>3. CASE PlaceOne
  BY <1>3, WalkPlace DEF PlaceOne
<1>4. CASE StartRenaming
  BY <1>4, WalkStart
<1>5. CASE RenameChild
  BY <1>5, WalkChild
<1>6. CASE Return
  BY <1>6, WalkReturn
<1>7. CASE FindTree \/ Finish \/ UNCHANGED vars
  BY <1>7, WalkOthers
<1> QED BY <1>1, <1>2, <1>3, <1>4, <1>5, <1>6, <1>7 DEF Next

\* All along the walk what the blocks on the way have saved leads back, block
\* by block, to cells that hold nothing.
THEOREM WalkInvariance == Spec => []WalkInv
BY WalkInit, WalkStep, TreeInvariance, PTL DEF Spec

\* At every point of the walk, whatever the function and in whatever order the
\* tree is walked, a cell only holds values of the blocks on the way from the
\* entry: what the branches left behind have stored was put back.
THEOREM HeldValuesAlwaysDominate == Spec => []HeldValuesDominate
<1>1. WalkInv => HeldValuesDominate
  <2> SUFFICES ASSUME WalkInv, NEW a \in allocas, IsVal(current[a]), current[a][2] \in Ids(f)
               PROVE  \E k \in DOMAIN stack : \E i \in ToSet(f.body[stack[k].block]) : i.id = current[a][2]
    BY DEF HeldValuesDominate, DefinedOnTheWay
  <2>1. CASE phase = "rename"
    <3>1. PICK h : Levels(h)
      BY <2>1 DEF WalkInv, LevelsOK
    <3>2. stack \in Seq(ToSet(stack)) /\ Len(stack) \in Nat /\ DOMAIN stack = 1..Len(stack)
      BY <2>1 DEF WalkInv, WayOK
    <3>3. current[a][2] \in Defined(Len(stack))
      <4>1. Len(stack) \in 0..Len(stack)
        BY <3>2
      <4> QED BY <3>1, <4>1 DEF Levels
    <3>4. PICK j \in 1..Len(stack) : current[a][2] \in IdsIn(f.body[stack[j].block])
      BY <3>3 DEF Defined
    <3> QED BY <3>2, <3>4 DEF IdsIn
  <2>2. CASE phase = "collect"
    BY <2>2 DEF WalkInv, PhiInv, CollectOK
  <2>3. CASE phase \in {"place", "done"}
    BY <2>3 DEF WalkInv, LevelsOK, None, IsVal
  <2> QED BY <2>1, <2>2, <2>3 DEF WalkInv, PhiInv
<1> QED BY <1>1, WalkInvariance, PTL
=============================================================================
