-------------------------- MODULE MIRRegAllocProofs --------------------------
(***************************************************************************)
(* Proofs about the allocation of the registers of one class, for any      *)
(* function, with any graph, and in every round of spilling.  The sweeps   *)
(* of compute_liveness end in exactly the live registers, and what comes   *)
(* out of the allocator reads the values that what went in reads.          *)
(***************************************************************************)
EXTENDS MIRRegAlloc, FiniteSetTheorems, TLAPS

-----------------------------------------------------------------------------
(* The invariant *)

\* The registers read before they are written in some block; no other is live.
Mentioned == UNION {BlockUse(b) : b \in Blocks}

\* The graph keeps its blocks, whatever is rewritten in them.
ShapeOK ==
  /\ Len(code) \in Nat \ {0} /\ Blocks = 1 .. Len(code)
  /\ succ \in [Blocks -> SUBSET Blocks]

Analyzing == phase \in {"liveness", "build"}

FlowTypeOK ==
  /\ liveIn \in [Blocks -> SUBSET Mentioned]
  /\ liveOut \in [Blocks -> SUBSET Mentioned]
  /\ cursor \in Blocks
  /\ changed \in BOOLEAN

\* A register is only put into a set when a path reads it.
OnlyExposed ==
  \A b \in Blocks : /\ \A v \in liveIn[b] : Exposed(v, b)
                    /\ \A v \in liveOut[b] : \E s \in succ[b] : Exposed(v, s)

\* The sets of block b are what the equations ask for.
Balanced(b) ==
  /\ liveOut[b] = UNION {liveIn[s] : s \in succ[b]}
  /\ liveIn[b] = BlockUse(b) \cup (liveOut[b] \ BlockDef(b))

\* As long as a sweep changes nothing, the blocks behind it are balanced.
SweepOK ==
  /\ phase = "liveness" /\ ~ changed => \A b \in Blocks : b > cursor => Balanced(b)
  /\ phase = "build" => \A b \in Blocks : Balanced(b)

IInv == ShapeOK /\ (Analyzing => FlowTypeOK /\ OnlyExposed /\ SweepOK)

-----------------------------------------------------------------------------
(* What a path reads *)

\* What a block reads is exposed there.
LEMMA ReadIsExposed ==
  ASSUME NEW b \in Blocks, NEW v \in BlockUse(b)
  PROVE  Exposed(v, b)
BY DEF Exposed

\* What the next block exposes is exposed before a block that does not write it.
LEMMA ExposedThrough ==
  ASSUME NEW b \in Blocks, NEW v, v \notin BlockDef(b), NEW s \in succ[b], Exposed(v, s)
  PROVE  Exposed(v, b)
BY DEF Exposed

\* In balanced sets everything exposed is live: the blocks where v is not live
\* are closed under the edges, and none of them reads it.
LEMMA ExposedIsLive ==
  ASSUME ShapeOK, \A b \in Blocks : Balanced(b),
         NEW b \in Blocks, NEW v, Exposed(v, b)
  PROVE  v \in liveIn[b]
<1> SUFFICES ASSUME v \notin liveIn[b] PROVE FALSE
  OBVIOUS
<1> DEFINE S == {c \in Blocks : v \notin liveIn[c]}
<1>1. b \in S /\ S \in SUBSET Blocks
  OBVIOUS
<1>2. ASSUME NEW c \in S PROVE v \notin BlockUse(c)
  BY <1>2 DEF Balanced
<1>3. ASSUME NEW c \in S, v \notin BlockDef(c), NEW s \in succ[c] PROVE s \in S
  <2>1. c \in Blocks /\ s \in Blocks
    BY <1>3 DEF ShapeOK
  <2>2. v \notin liveOut[c]
    BY <1>3 DEF Balanced
  <2>3. v \notin liveIn[s]
    BY <1>3, <2>1, <2>2 DEF Balanced
  <2> QED BY <2>1, <2>3
<1> HIDE DEF S
<1> QED BY <1>1, <1>2, <1>3 DEF Exposed

-----------------------------------------------------------------------------
(* The steps *)

\* One block of a sweep.
LEMMA LivenessStepKeeps ==
  ASSUME IInv, LivenessStep
  PROVE  IInv'
<1> USE DEF IInv, Analyzing
<1>0. phase = "liveness" /\ FlowTypeOK /\ OnlyExposed /\ SweepOK /\ ShapeOK
  BY DEF LivenessStep
<1>1. PICK out : out = UNION {liveIn[s] : s \in succ[cursor]}
  OBVIOUS
<1>2. PICK in : in = BlockUse(cursor) \cup (out \ BlockDef(cursor))
  OBVIOUS
<1>3. /\ liveIn' = [liveIn EXCEPT ![cursor] = in]
      /\ liveOut' = [liveOut EXCEPT ![cursor] = out]
      /\ UNCHANGED <<code, succ>>
  BY <1>1, <1>2 DEF LivenessStep, progVars
<1>4. cursor \in Blocks /\ succ[cursor] \subseteq Blocks
  BY <1>0 DEF FlowTypeOK, ShapeOK
<1>5. /\ Blocks' = Blocks /\ Mentioned' = Mentioned
      /\ \A b \in Blocks : BlockUse(b)' = BlockUse(b) /\ BlockDef(b)' = BlockDef(b)
      /\ \A v, b : Exposed(v, b)' <=> Exposed(v, b)
  BY <1>3 DEF Blocks, Mentioned, BlockUse, BlockDef, Exposed
<1>6. in \subseteq Mentioned /\ out \subseteq Mentioned
  <2>1. out \subseteq Mentioned
    BY <1>0, <1>1, <1>4 DEF FlowTypeOK
  <2> QED BY <1>2, <1>4, <2>1 DEF Mentioned
<1>7. ShapeOK'
  BY <1>0, <1>3 DEF ShapeOK, Blocks
<1>8. FlowTypeOK'
  <2>1. liveIn' \in [Blocks -> SUBSET Mentioned] /\ liveOut' \in [Blocks -> SUBSET Mentioned]
    BY <1>0, <1>3, <1>6 DEF FlowTypeOK
  <2>2. cursor' \in Blocks
    BY <1>0 DEF LivenessStep, FlowTypeOK, ShapeOK
  <2>3. changed' \in BOOLEAN
    BY DEF LivenessStep
  <2> QED BY <1>5, <2>1, <2>2, <2>3 DEF FlowTypeOK
<1>9. OnlyExposed'
  <2>1. ASSUME NEW v \in out PROVE \E s \in succ[cursor] : Exposed(v, s)
    BY <1>0, <1>1, <1>4, <2>1 DEF OnlyExposed
  <2>2. ASSUME NEW v \in in PROVE Exposed(v, cursor)
    BY <1>2, <1>4, <2>1, <2>2, ReadIsExposed, ExposedThrough
  <2>3. ASSUME NEW b \in Blocks
        PROVE  /\ \A v \in liveIn'[b] : Exposed(v, b)
               /\ \A v \in liveOut'[b] : \E s \in succ[b] : Exposed(v, s)
    <3>1. CASE b = cursor
      BY <1>0, <1>3, <2>1, <2>2, <3>1 DEF FlowTypeOK
    <3>2. CASE b # cursor
      BY <1>0, <1>3, <3>2 DEF FlowTypeOK, OnlyExposed
    <3> QED BY <3>1, <3>2
  <2> QED BY <1>3, <1>5, <2>3 DEF OnlyExposed
<1>10. PICK c : c = cursor
  OBVIOUS
<1>11. SweepOK'
  <2>1. ASSUME in = liveIn[cursor], out = liveOut[cursor]
        PROVE  /\ liveIn' = liveIn /\ liveOut' = liveOut /\ Balanced(cursor)
               /\ \A b \in Blocks : Balanced(b)' <=> Balanced(b)
    <3>1. liveIn' = liveIn /\ liveOut' = liveOut
      BY <1>0, <1>3, <2>1 DEF FlowTypeOK
    <3> QED BY <1>1, <1>2, <1>3, <1>5, <2>1, <3>1 DEF Balanced
  <2>2. CASE changed \/ in # liveIn[cursor] \/ out # liveOut[cursor]
    <3>1. CASE cursor > 1
      <4>1. changed' /\ phase' = "liveness"
        BY <1>0, <1>1, <1>2, <2>2, <3>1 DEF LivenessStep
      <4> QED BY <4>1 DEF SweepOK
    <3>2. CASE ~ (cursor > 1)
      <4>1. cursor' = Len(code) /\ phase' = "liveness"
        BY <1>1, <1>2, <2>2, <3>2 DEF LivenessStep
      <4>2. \A b \in Blocks' : ~ (b > cursor')
        BY <1>0, <1>5, <4>1 DEF ShapeOK
      <4> QED BY <4>1, <4>2 DEF SweepOK
    <3> QED BY <3>1, <3>2
  <2>3. CASE ~ (changed \/ in # liveIn[cursor] \/ out # liveOut[cursor])
    <3>1. \A b \in Blocks : b > cursor => Balanced(b)'
      BY <1>0, <2>1, <2>3 DEF SweepOK
    <3>2. Balanced(c)'
      BY <1>4, <1>10, <2>1, <2>3
    <3>3. CASE cursor > 1
      <4>1. cursor' = cursor - 1 /\ phase' = "liveness"
        BY <1>0, <3>3 DEF LivenessStep
      <4>2. \A b \in Blocks : b > cursor' => b = c \/ b > cursor
        BY <1>0, <1>4, <1>10, <4>1 DEF ShapeOK
      <4> QED BY <1>5, <3>1, <3>2, <4>1, <4>2 DEF SweepOK
    <3>4. CASE ~ (cursor > 1)
      <4>1. phase' = "build"
        BY <1>1, <1>2, <2>3, <3>4 DEF LivenessStep
      <4>2. \A b \in Blocks : b = c \/ b > cursor
        BY <1>0, <1>4, <1>10, <3>4 DEF ShapeOK
      <4> QED BY <1>5, <3>1, <3>2, <4>1, <4>2 DEF SweepOK
    <3> QED BY <3>3, <3>4
  <2> QED BY <2>2, <2>3
<1> QED BY <1>7, <1>8, <1>9, <1>11

\* The sets a round starts from.
LEMMA EnteredOK ==
  ASSUME ShapeOK, phase = "liveness", cursor = Len(code), changed = FALSE,
         liveIn = [b \in 1 .. Len(code) |-> {}], liveOut = [b \in 1 .. Len(code) |-> {}]
  PROVE  IInv
<1>1. FlowTypeOK
  <2>1. cursor \in Blocks /\ Blocks = 1 .. Len(code)
    BY DEF ShapeOK
  <2>2. changed \in BOOLEAN
    BY Zenon
  <2> QED BY <2>1, <2>2 DEF FlowTypeOK
<1>2. OnlyExposed
  BY DEF OnlyExposed, ShapeOK
<1>3. SweepOK
  BY DEF SweepOK, ShapeOK
<1> QED BY <1>1, <1>2, <1>3 DEF IInv

\* The spilled registers are rewritten: the blocks stay, the sets are emptied.
LEMMA RewriteKeeps ==
  ASSUME IInv, Rewrite
  PROVE  IInv'
<1>1. PICK n \in Nat \ {0} : n = Len(code) /\ Blocks = 1 .. n
  BY DEF IInv, ShapeOK
<1>2. code' = [b \in 1 .. n |-> FlattenSeq([i \in DOMAIN code[b] |-> RewriteAt(<<b, i>>)])]
  BY <1>1 DEF Rewrite, RewriteSpills
<1>3. DOMAIN code' = 1 .. n /\ Len(code') = n
  BY <1>2
<1>4. ShapeOK'
  BY <1>1, <1>3 DEF IInv, ShapeOK, Rewrite, Blocks
<1>5. CASE phase' = "liveness"
  <2>1. /\ cursor' = n /\ changed' = FALSE
        /\ liveIn' = [b \in 1 .. n |-> {}] /\ liveOut' = [b \in 1 .. n |-> {}]
    BY <1>1 DEF Rewrite, EnterLiveness
  <2>2. FlowTypeOK'
    <3>1. cursor' \in Blocks' /\ Blocks' = 1 .. n
      BY <1>3, <1>4, <2>1 DEF ShapeOK
    <3>2. changed' \in BOOLEAN
      BY <2>1, Zenon
    <3> QED BY <2>1, <3>1, <3>2 DEF FlowTypeOK
  <2>3. OnlyExposed'
    BY <1>3, <1>4, <2>1 DEF OnlyExposed, ShapeOK
  <2>4. SweepOK'
    BY <1>3, <1>4, <1>5, <2>1 DEF SweepOK, ShapeOK
  <2> QED BY <1>4, <2>2, <2>3, <2>4 DEF IInv
<1>6. CASE phase' # "liveness"
  BY <1>4, <1>6 DEF IInv, Analyzing, Rewrite
<1> QED BY <1>5, <1>6

LEMMA ApplyKeeps ==
  ASSUME IInv, Apply
  PROVE  IInv'
<1>1. PICK n \in Nat \ {0} : n = Len(code) /\ Blocks = 1 .. n
  BY DEF IInv, ShapeOK
<1>2. code' = [b \in 1 .. n |-> [i \in DOMAIN code[b] |-> Substitute(code[b][i], color)]]
  BY <1>1 DEF Apply
<1>3. DOMAIN code' = 1 .. n /\ Len(code') = n
  BY <1>2
<1>4. ShapeOK'
  BY <1>1, <1>3 DEF IInv, ShapeOK, Apply, Blocks
<1> QED BY <1>4 DEF IInv, Analyzing, Apply

\* Steps outside the analysis, and none.
LEMMA OtherKeeps ==
  ASSUME IInv, Build \/ ColorStep \/ Run \/ UNCHANGED vars
  PROVE  IInv'
<1>1. UNCHANGED <<code, succ>>
  BY DEF Build, ColorStep, Run, vars, progVars
<1>2. ShapeOK'
  BY <1>1 DEF IInv, ShapeOK, Blocks
<1>3. CASE Build \/ ColorStep \/ Run
  BY <1>2, <1>3 DEF Build, ColorStep, Run, IInv, Analyzing
<1>4. CASE UNCHANGED vars
  <2>1. UNCHANGED <<phase, code, succ, liveIn, liveOut, cursor, changed>>
    BY <1>4 DEF vars, progVars, flowVars
  <2>2. /\ Blocks' = Blocks /\ Mentioned' = Mentioned
        /\ \A b : BlockUse(b)' = BlockUse(b) /\ BlockDef(b)' = BlockDef(b)
        /\ \A v, b : Exposed(v, b)' <=> Exposed(v, b)
    BY <2>1 DEF Blocks, Mentioned, BlockUse, BlockDef, Exposed
  <2> QED BY <1>2, <2>1, <2>2 DEF IInv, Analyzing, FlowTypeOK, OnlyExposed, SweepOK, Balanced
<1> QED BY <1>3, <1>4

LEMMA InitOK ==
  ASSUME Init
  PROVE  IInv
<1>1. PICK p \in Programs : /\ code = p.code /\ succ = p.succ /\ cursor = Len(p.code)
                            /\ liveIn = [b \in DOMAIN p.code |-> {}]
                            /\ liveOut = [b \in DOMAIN p.code |-> {}]
  BY DEF Init
<1>2. /\ code \in Seq(Range(code)) /\ code # << >>
      /\ succ \in [DOMAIN code -> SUBSET DOMAIN code]
  BY <1>1, ProgramsAssumption
<1>3. ShapeOK
  BY <1>2 DEF ShapeOK, Blocks
<1> QED BY <1>1, <1>3, EnteredOK DEF Init, ShapeOK, Blocks

\* Every step of the allocator, rewriting between its rounds included, keeps the
\* sets of compute_liveness within what some path reads, and the sweep in order.
THEOREM Invariance == Spec => []IInv
<1>1. IInv /\ [Next]_vars => IInv'
  BY LivenessStepKeeps, RewriteKeeps, ApplyKeeps, OtherKeeps DEF Next
<1> QED BY <1>1, InitOK, PTL DEF Spec

\* In every round of the allocation, for any function, the sweeps stop at
\* exactly the registers some path still reads.
THEOREM LivenessAlwaysExact == Spec => []LivenessExact
<1>1. IInv => LivenessExact
  <2> SUFFICES ASSUME IInv, phase = "build", NEW b \in Blocks, NEW v
               PROVE  /\ v \in liveIn[b] <=> Exposed(v, b)
                      /\ v \in liveOut[b] <=> \E s \in succ[b] : Exposed(v, s)
    BY DEF LivenessExact
  <2>1. ShapeOK /\ OnlyExposed /\ \A c \in Blocks : Balanced(c)
    BY DEF IInv, Analyzing, SweepOK
  <2>2. \A c \in Blocks : v \in liveIn[c] <=> Exposed(v, c)
    BY <2>1, ExposedIsLive DEF OnlyExposed
  <2>3. succ[b] \subseteq Blocks
    BY <2>1 DEF ShapeOK
  <2> QED BY <2>1, <2>2, <2>3 DEF Balanced
<1> QED BY <1>1, Invariance, PTL

CGP == INSTANCE ColorGraphProofs WITH Registers <- Physical, Problems <- {}

\* What color_graph is promised of the registers.
LEMMA ColoringAssumptions == CGP!PaletteAssumption /\ CGP!ProblemsAssumption
BY RegistersAssumption DEF CGP!PaletteAssumption, CGP!ProblemsAssumption

-----------------------------------------------------------------------------
(* Sequences *)

\* Up to n, in a set closed under the next number.
LEMMA UpTo ==
  ASSUME NEW n \in Nat, NEW S, 0 \in S, \A k \in 1 .. n : k - 1 \in S => k \in S
  PROVE  \A k \in 0 .. n : k \in S
<1> DEFINE Missing == {k \in 0 .. n : k \notin S}
<1>1. SUFFICES ASSUME Missing # {} PROVE FALSE
  OBVIOUS
<1>2. PICK k \in Missing : \A m \in Missing : k <= m
  <2>1. Missing \in SUBSET Nat
    OBVIOUS
  <2> HIDE DEF Missing
  <2> QED BY <1>1, <2>1, CGP!LeastMember, ColoringAssumptions
<1>3. k # 0 /\ k \in 0 .. n /\ k \notin S
  BY <1>2
<1>4. k \in 1 .. n /\ k - 1 \in 0 .. n /\ k - 1 < k
  BY <1>3
<1>5. k - 1 \notin Missing
  <2>1. k - 1 \in Int /\ k \in Int /\ ~ (k <= k - 1)
    BY <1>4
  <2> HIDE DEF Missing
  <2> QED BY <1>2, <2>1
<1> QED BY <1>3, <1>4, <1>5

\* flat[k] is what the first k of the n sequences q make.
Flattens(S, n, q, flat) ==
  /\ flat \in [0 .. n -> Seq(S)]
  /\ flat[0] = << >> /\ flat[n] = FlattenSeq(q)
  /\ \A k \in 1 .. n : flat[k] = flat[k - 1] \o q[k]

\* A flattened sequence of sequences, with what its first k members make.
LEMMA Flattened ==
  ASSUME NEW S, NEW n \in Nat, NEW q \in [1 .. n -> Seq(S)]
  PROVE  \E flat : Flattens(S, n, q, flat)
<1>1. Len(q) = n /\ DOMAIN q = 1 .. n
  OBVIOUS
<1>2. CASE n = 0
  <2>1. FlattenSeq(q) = << >>
    BY <1>1, <1>2 DEF FlattenSeq
  <2> DEFINE flat == [k \in 0 .. n |-> << >>]
  <2>2. flat \in [0 .. n -> Seq(S)]
    OBVIOUS
  <2>3. Flattens(S, n, q, flat)
    BY <1>2, <2>1, <2>2 DEF Flattens
  <2> QED BY <2>3
<1>3. CASE n # 0
  <2> DEFINE Is(m, h) == h = [i \in 1 .. m |-> IF i = 1 THEN q[i] ELSE h[i - 1] \o q[i]]
             flatten == CHOOSE h : Is(n, h)
             Have == {m \in 0 .. n : \E h \in [1 .. m -> Seq(S)] : Is(m, h)}
  <2>1. FlattenSeq(q) = flatten[n]
    BY <1>1, <1>3 DEF FlattenSeq
  <2>2. 0 \in Have
    <3>1. << >> \in [1 .. 0 -> Seq(S)] /\ Is(0, << >>)
      OBVIOUS
    <3>2. 0 \in 0 .. n
      OBVIOUS
    <3> HIDE DEF Is
    <3> QED BY <3>1, <3>2, Zenon
  <2>3. ASSUME NEW m \in 1 .. n, m - 1 \in Have PROVE m \in Have
    <3>1. PICK g \in [1 .. m - 1 -> Seq(S)] : Is(m - 1, g)
      BY <2>3
    <3> DEFINE last == IF m = 1 THEN q[m] ELSE g[m - 1] \o q[m]
               h == [i \in 1 .. m |-> IF i = m THEN last ELSE g[i]]
    <3>2. last \in Seq(S)
      OBVIOUS
    <3>3. h \in [1 .. m -> Seq(S)]
      BY <3>2
    <3>4. ASSUME NEW i \in 1 .. m PROVE h[i] = IF i = 1 THEN q[i] ELSE h[i - 1] \o q[i]
      <4>1. CASE i = m
        BY <4>1
      <4>2. CASE i # m
        <5>1. i \in 1 .. m - 1 /\ (i # 1 => i - 1 # m /\ i - 1 \in 1 .. m)
          BY <4>2
        <5>2. g[i] = IF i = 1 THEN q[i] ELSE g[i - 1] \o q[i]
          BY <3>1, <5>1, Zenon
        <5>3. h[i] = g[i] /\ (i # 1 => h[i - 1] = g[i - 1])
          BY <4>2, <5>1
        <5> QED BY <5>2, <5>3
      <4> QED BY <4>1, <4>2
    <3>5. Is(m, h)
      <4> HIDE DEF last
      <4> QED BY <3>4
    <3> HIDE DEF h, Is
    <3> QED BY <3>3, <3>5
  <2>4. \A k \in 0 .. n : k \in Have
    <3> HIDE DEF Have
    <3> QED BY <2>2, <2>3, UpTo, Zenon
  <2>5. PICK g \in [1 .. n -> Seq(S)] : Is(n, g)
    <3>1. n \in Have
      <4> HIDE DEF Have
      <4> QED BY <2>4
    <3> HIDE DEF Is
    <3> QED BY <3>1
  <2>6. Is(n, flatten)
    <3> HIDE DEF Is
    <3> QED BY <2>5
  <2>7. ASSUME NEW i \in 1 .. n PROVE flatten[i] = g[i]
    <3> DEFINE Same == {k \in 0 .. n : k = 0 \/ flatten[k] = g[k]}
    <3>1. 0 \in Same
      OBVIOUS
    <3>2. ASSUME NEW k \in 1 .. n, k - 1 \in Same PROVE k \in Same
      <4>1. /\ flatten[k] = IF k = 1 THEN q[k] ELSE flatten[k - 1] \o q[k]
            /\ g[k] = IF k = 1 THEN q[k] ELSE g[k - 1] \o q[k]
        <5> HIDE DEF flatten
        <5> QED BY <2>5, <2>6, Zenon
      <4>2. k = 1 \/ flatten[k - 1] = g[k - 1]
        <5> HIDE DEF flatten
        <5> QED BY <3>2
      <4>3. k \in 0 .. n
        OBVIOUS
      <4> HIDE DEF flatten
      <4> QED BY <4>1, <4>2, <4>3, Zenon
    <3>3. \A k \in 0 .. n : k \in Same
      <4> HIDE DEF Same
      <4> QED BY <3>1, <3>2, UpTo, Zenon
    <3> HIDE DEF flatten
    <3> QED BY <3>3
  <2> DEFINE flat == [k \in 0 .. n |-> IF k = 0 THEN << >> ELSE g[k]]
  <2>8. flat \in [0 .. n -> Seq(S)]
    OBVIOUS
  <2>9. flat[n] = FlattenSeq(q)
    <3> HIDE DEF flatten
    <3> QED BY <1>3, <2>1, <2>7
  <2>10. ASSUME NEW k \in 1 .. n PROVE flat[k] = flat[k - 1] \o q[k]
    <3>1. g[k] = IF k = 1 THEN q[k] ELSE g[k - 1] \o q[k]
      BY <2>5, Zenon
    <3>2. CASE k = 1
      <4>1. flat[k] = q[k] /\ flat[k - 1] = << >> /\ q[k] \in Seq(S)
        BY <3>1, <3>2
      <4> HIDE DEF flat
      <4> QED BY <4>1
    <3>3. CASE k # 1
      <4>1. flat[k] = g[k] /\ flat[k - 1] = g[k - 1]
        BY <3>3
      <4> QED BY <3>1, <3>3, <4>1
    <3> QED BY <3>2, <3>3
  <2>11. flat[0] = << >>
    OBVIOUS
  <2> HIDE DEF flat
  <2>12. Flattens(S, n, q, flat)
    BY <2>8, <2>9, <2>10, <2>11 DEF Flattens
  <2> QED BY <2>12
<1> QED BY <1>2, <1>3

LEMMA FlattenedIn ==
  ASSUME NEW S, NEW n \in Nat, NEW q \in [1 .. n -> Seq(S)]
  PROVE  FlattenSeq(q) \in Seq(S)
<1>1. PICK flat : Flattens(S, n, q, flat)
  BY Flattened
<1> QED BY <1>1 DEF Flattens

-----------------------------------------------------------------------------
(* Finite sets of integers, in order *)

\* Sets of every size, up to that of the largest one considered.
LEMMA HasLargest ==
  ASSUME NEW S \in SUBSET Int, IsFiniteSet(S), S # {}
  PROVE  \E m \in S : \A x \in S : x <= m
<1> DEFINE N == Cardinality(S)
           Fits == {n \in 0 .. N : \A X \in SUBSET S :
                      Cardinality(X) = n /\ X # {} => \E m \in X : \A x \in X : x <= m}
<1>1. N \in Nat
  BY FS_CardinalityType
<1>2. 0 \in Fits
  <2>1. ASSUME NEW X \in SUBSET S, Cardinality(X) = 0 PROVE X = {}
    BY <2>1, FS_Subset, FS_EmptySet
  <2>2. 0 \in 0 .. N
    BY <1>1
  <2> HIDE DEF N
  <2> QED BY <2>1, <2>2
<1>3. ASSUME NEW n \in 1 .. N, n - 1 \in Fits PROVE n \in Fits
  <2> SUFFICES ASSUME NEW X \in SUBSET S, Cardinality(X) = n
               PROVE  \E m \in X : \A x \in X : x <= m
    BY <1>1
  <2>0. Cardinality(X) # 0
    BY <1>3
  <2>1. PICK a \in X : TRUE
    BY <2>0, FS_EmptySet
  <2>2. IsFiniteSet(X) /\ X \ {a} \in SUBSET S
    BY FS_Subset
  <2>3. Cardinality(X \ {a}) = n - 1
    BY <2>1, <2>2, FS_RemoveElement
  <2>4. CASE X \ {a} = {}
    BY <2>1, <2>4
  <2>5. CASE X \ {a} # {}
    <3>1. PICK m \in X \ {a} : \A x \in X \ {a} : x <= m
      BY <1>3, <2>2, <2>3, <2>5
    <3>2. a \in Int /\ m \in Int /\ \A x \in X : x \in Int
      OBVIOUS
    <3>3. CASE a <= m
      BY <3>1, <3>2, <3>3
    <3>4. CASE m <= a
      <4>1. \A x \in X : x <= a
        BY <3>1, <3>2, <3>4
      <4> QED BY <2>1, <4>1
    <3> QED BY <3>2, <3>3, <3>4
  <2> QED BY <2>4, <2>5
<1>4. \A n \in 0 .. N : n \in Fits
  <2> HIDE DEF Fits, N
  <2> QED BY <1>1, <1>2, <1>3, UpTo, Zenon
<1>5. N \in Fits
  BY <1>1, <1>4
<1> QED BY <1>5

LEMMA LargestIs ==
  ASSUME NEW S \in SUBSET Int, IsFiniteSet(S), S # {}
  PROVE  Max(S) \in S /\ \A x \in S : x <= Max(S)
<1>1. PICK m \in S : \A x \in S : x <= m
  BY HasLargest
<1>2. \A x \in S : m >= x
  BY <1>1
<1>3. Max(S) \in S /\ \A x \in S : Max(S) >= x
  BY <1>2 DEF Max
<1> QED BY <1>3

Increasing(q, S) ==
  /\ q \in [1 .. Cardinality(S) -> S]
  /\ \A j, k \in DOMAIN q : j < k => q[j] < q[k]

LEMMA HasOrder ==
  ASSUME NEW S \in SUBSET Int, IsFiniteSet(S)
  PROVE  \E q : Increasing(q, S)
<1> DEFINE N == Cardinality(S)
           Fits == {n \in 0 .. N : \A X \in SUBSET S : Cardinality(X) = n => \E q : Increasing(q, X)}
<1>1. N \in Nat
  BY FS_CardinalityType
<1>2. 0 \in Fits
  <2>1. ASSUME NEW X \in SUBSET S, Cardinality(X) = 0 PROVE \E q : Increasing(q, X)
    <3>1. Increasing(<< >>, X)
      BY <2>1 DEF Increasing
    <3> QED BY <3>1
  <2> QED BY <1>1, <2>1
<1>3. ASSUME NEW n \in 1 .. N, n - 1 \in Fits PROVE n \in Fits
  <2> SUFFICES ASSUME NEW X \in SUBSET S, Cardinality(X) = n
               PROVE  \E q : Increasing(q, X)
    BY <1>1
  <2>0. Cardinality(X) # 0
    BY <1>3
  <2>1. IsFiniteSet(X) /\ X # {}
    BY <2>0, FS_Subset, FS_EmptySet
  <2>2. PICK m \in X : \A x \in X : x <= m
    BY <2>1, HasLargest
  <2>3. Cardinality(X \ {m}) = n - 1 /\ X \ {m} \in SUBSET S
    BY <2>1, FS_RemoveElement
  <2>4. PICK q : Increasing(q, X \ {m})
    BY <1>3, <2>3
  <2> DEFINE r == [k \in 1 .. n |-> IF k = n THEN m ELSE q[k]]
  <2>5. q \in [1 .. n - 1 -> X \ {m}] /\ \A j, k \in 1 .. n - 1 : j < k => q[j] < q[k]
    BY <2>3, <2>4 DEF Increasing
  <2>6. \A k \in 1 .. n - 1 : q[k] \in Int /\ q[k] < m
    <3>1. ASSUME NEW k \in 1 .. n - 1 PROVE q[k] \in Int /\ q[k] < m
      <4>1. q[k] \in X /\ q[k] # m
        BY <2>5
      <4>2. q[k] \in Int /\ m \in Int /\ q[k] <= m
        BY <2>2, <4>1
      <4> QED BY <4>1, <4>2
    <3> QED BY <3>1
  <2>7. r \in [1 .. n -> X]
    BY <2>5
  <2>8. \A j, k \in 1 .. n : j < k => r[j] < r[k]
    BY <2>5, <2>6
  <2>9. Increasing(r, X)
    <3> HIDE DEF r
    <3> QED BY <2>7, <2>8 DEF Increasing
  <2> QED BY <2>9
<1>4. \A n \in 0 .. N : n \in Fits
  <2> HIDE DEF Fits, N
  <2> QED BY <1>1, <1>2, <1>3, UpTo, Zenon
<1>5. N \in Fits
  <2> HIDE DEF Fits
  <2> QED BY <1>1, <1>4
<1> QED BY <1>5

\* q is a list of S without repetitions.
Lists(q, S) ==
  /\ Cardinality(S) \in Nat
  /\ q \in [1 .. Cardinality(S) -> S]
  /\ \A j, k \in 1 .. Cardinality(S) : q[j] = q[k] => j = k
  /\ \A x \in S : \E j \in 1 .. Cardinality(S) : q[j] = x

LEMMA AscendingLists ==
  ASSUME NEW S \in SUBSET Int, IsFiniteSet(S)
  PROVE  Lists(Ascending(S), S)
<1>1. PICK n \in Nat : n = Cardinality(S)
  BY FS_CardinalityType
<1>2. PICK q : q = Ascending(S)
  OBVIOUS
<1>3. Increasing(q, S)
  <2>1. PICK r : Increasing(r, S)
    BY HasOrder
  <2> QED BY <1>2, <2>1 DEF Ascending, Increasing
<1>4. q \in [1 .. n -> S] /\ \A j, k \in 1 .. n : j < k => q[j] < q[k]
  BY <1>1, <1>3 DEF Increasing
<1>5. \A j, k \in 1 .. n : q[j] = q[k] => j = k
  <2> SUFFICES ASSUME NEW j \in 1 .. n, NEW k \in 1 .. n, q[j] = q[k], j # k PROVE FALSE
    OBVIOUS
  <2>1. q[j] \in Int /\ q[k] \in Int
    BY <1>4
  <2>2. j < k \/ k < j
    OBVIOUS
  <2> QED BY <1>4, <2>1, <2>2
<1>6. q \in Surjection(1 .. n, S)
  <2>1. IsFiniteSet(1 .. n) /\ Cardinality(1 .. n) = n
    BY FS_Interval
  <2>2. PICK A : A = 1 .. n
    OBVIOUS
  <2>3. q \in Injection(A, S)
    BY <1>4, <1>5, <2>2 DEF Injection, IsInjective
  <2>4. q \in Surjection(A, S)
    BY <1>1, <2>1, <2>2, <2>3, FS_Injection
  <2> QED BY <2>2, <2>4
<1>7. \A x \in S : \E j \in 1 .. n : q[j] = x
  BY <1>6 DEF Surjection
<1> QED BY <1>1, <1>2, <1>4, <1>5, <1>7 DEF Lists

-----------------------------------------------------------------------------
(* The machine as allocation has to fear it                                    *)
(*                                                                             *)
(* An instruction spoils every physical register that an allocation may give   *)
(* away around it: what it holds is poison, and so is what a virtual register  *)
(* holds before it is written.  The functions the allocator works on never     *)
(* read poison, and each has to read what the original reads.                  *)

Values == {"imm", "op", "entry", "undef", "junk", "poison"} \X Int \X Nat
Files == [Int -> Values]
Poison == Value("poison", 0, 0)

StrictStep(i, file, t) ==
  [r \in Int |->
     IF r \in i.def THEN Result(i, file, t)
     ELSE IF i.op = "store" /\ r = i.slot THEN file[i.uses[1]]
     ELSE IF r \in Harmed(i) THEN Poison
     ELSE file[r]]

\* Nothing i reads is poison, copies apart.
Clean(i, file) == i.op \notin Silent => \A r \in UseSet(i) \cup i.imp : file[r] # Poison

Follow(i, s, t) == [file |-> StrictStep(i, s.file, t), reads |-> Seen(i, s)]

\* The instructions lead from s to u without reading poison.
Goes(instrs, t, s, u) ==
  \E h : /\ h[0] = s /\ h[Len(instrs)] = u
         /\ \A k \in 1 .. Len(instrs) :
              Clean(instrs[k], h[k - 1].file) /\ h[k] = Follow(instrs[k], h[k - 1], t)

Fresh(file) == [file |-> file, reads |-> << >>]
EntryPoisoned == [r \in Int |-> IF r \in Physical THEN Value("entry", r, 0) ELSE Poison]

\* R relates what holds at the start of a block, in the original function and in
\* the rewritten one, so that they read the same as long as they run.
Simulates(R) ==
  /\ R \subseteq Blocks \X Nat \X Files \X Files
  /\ <<1, 0, EntryPoisoned, EntryPoisoned>> \in R
  /\ \A b, t, F, G : <<b, t, F, G>> \in R =>
       \E s, u : /\ Goes(original[b], t, Fresh(F), s)
                 /\ Goes(code[b], t, Fresh(G), u)
                 /\ s.reads = u.reads
                 /\ \A c \in succ[b] : <<c, t + 1, s.file, u.file>> \in R

LEMMA PhysicalIs ==
  /\ \A r \in Physical : r \in Int /\ r < 0 /\ ~ Virtual(r)
  /\ Range(Palette) \subseteq Physical /\ Range(Scratch) \subseteq Physical
  /\ CG!Colors = Range(Palette)
  /\ CallerSaved \cup CallClobbers \cup ZeroClobbers \subseteq Physical
<1>1. \A r \in Physical : r \in Int /\ r < 0 /\ ~ Virtual(r)
  BY RegistersAssumption DEF Virtual
<1>2. Range(Palette) \subseteq Physical /\ Range(Scratch) \subseteq Physical
  BY RegistersAssumption DEF Range
<1>3. CG!Colors = Range(Palette)
  BY DEF CG!Colors, Range
<1> QED BY <1>1, <1>2, <1>3, RegistersAssumption

\* What Instrs says, field by field.
LEMMA InstrIs ==
  ASSUME NEW N \in SUBSET (Nat \ {0}), NEW i \in Instrs(N)
  PROVE  /\ i.def \subseteq Physical \cup N /\ i.def \subseteq Int
         /\ \A c, d \in i.def : c = d
         /\ i.uses \in Seq(Physical \cup N) /\ UseSet(i) \subseteq Physical \cup N
         /\ \A k \in DOMAIN i.uses : i.uses[k] \in UseSet(i) /\ i.uses[k] \in Int
         /\ i.imp \subseteq Physical /\ i.imp \subseteq Int
         /\ i.slot \in N \cup {0} /\ i.slot \in Int /\ i.id \in Int /\ i.op \in Kinds
         /\ i.op \in {"imm", "load"} => i.uses = << >>
         /\ i.op \in {"move", "store"} => Len(i.uses) = 1 /\ i.uses[1] \in UseSet(i) /\ 1 \in DOMAIN i.uses
         /\ i.op = "store" => i.def = {}
         /\ i.op \in {"load", "store"} => i.slot \in N
<1>1. /\ i.def \in SUBSET (Physical \cup N) /\ i.uses \in Seq(Physical \cup N)
      /\ i.imp \in SUBSET Physical /\ i.slot \in N \cup {0} /\ i.id \in Int /\ i.op \in Kinds
      /\ \A c, d \in i.def : c = d
      /\ i.op \in {"imm", "load"} => i.uses = << >>
      /\ i.op \in {"move", "store"} => Len(i.uses) = 1
      /\ i.op = "store" => i.def = {}
      /\ i.op \in {"load", "store"} => i.slot # 0
  BY DEF Instrs
<1>2. Physical \cup N \subseteq Int
  <2>1. Physical \subseteq Int
    BY PhysicalIs
  <2> QED BY <2>1
<1>3. /\ UseSet(i) \subseteq Physical \cup N
      /\ \A k \in DOMAIN i.uses : i.uses[k] \in UseSet(i) /\ i.uses[k] \in Int
  BY <1>1, <1>2 DEF UseSet, Range
<1>4. i.op \in {"move", "store"} => 1 \in DOMAIN i.uses
  BY <1>1
<1> QED BY <1>1, <1>2, <1>3, <1>4, PhysicalIs

LEMMA HarmedPhysical ==
  ASSUME NEW i
  PROVE  Harmed(i) \subseteq Physical /\ Lost(i) \subseteq Harmed(i)
BY PhysicalIs DEF Harmed, Lost

LEMMA ResultTyped ==
  ASSUME NEW N \in SUBSET (Nat \ {0}), NEW i \in Instrs(N),
         NEW D, N \subseteq D, i.op = "load" => i.slot \in D, UseSet(i) \subseteq D,
         NEW file \in [D -> Values], NEW t \in Nat
  PROVE  Result(i, file, t) \in Values
<1>1. /\ i.id \in Int /\ (i.op = "move" => i.uses[1] \in D)
      /\ (i.op = "load" => i.slot \in D)
  BY InstrIs
<1>2. Value("imm", i.id, 0) \in Values /\ Value("op", i.id, t) \in Values
  BY <1>1 DEF Values, Value
<1>3. i.op = "move" => file[i.uses[1]] \in Values
  BY <1>1
<1>4. i.op = "load" => file[i.slot] \in Values
  BY <1>1
<1> QED BY <1>2, <1>3, <1>4 DEF Result

LEMMA StrictTyped ==
  ASSUME NEW N \in SUBSET (Nat \ {0}), NEW i \in Instrs(N),
         NEW file \in Files, NEW t \in Nat
  PROVE  StrictStep(i, file, t) \in Files
<1>1. Result(i, file, t) \in Values
  <2>1. N \subseteq Int /\ Physical \subseteq Int
    BY PhysicalIs
  <2>2. UseSet(i) \subseteq Physical \cup N /\ i.slot \in Int
    BY InstrIs
  <2>3. UseSet(i) \subseteq Int
    BY <2>1, <2>2
  <2> QED BY <2>1, <2>2, <2>3, ResultTyped DEF Files
<1>2. Poison \in Values
  BY DEF Poison, Value, Values
<1>3. i.op = "store" => file[i.uses[1]] \in Values
  <2>1. i.op = "store" => i.uses[1] \in Int
    BY InstrIs
  <2> QED BY <2>1 DEF Files
<1>4. \A r \in Int : file[r] \in Values
  BY DEF Files
<1>5. \A r \in Int : StrictStep(i, file, t)[r] \in Values
  BY <1>1, <1>2, <1>3, <1>4 DEF StrictStep
<1> QED BY <1>5 DEF StrictStep, Files

LEMMA GoesNowhere ==
  ASSUME NEW t, NEW s
  PROVE  Goes(<< >>, t, s, s)
<1> DEFINE h == [k \in {0} |-> s]
<1>1. h[0] = s /\ Len(<< >>) = 0
  OBVIOUS
<1>2. ~ \E k \in 1 .. 0 : TRUE
  OBVIOUS
<1> HIDE DEF h
<1> QED BY <1>1, <1>2 DEF Goes

LEMMA GoesOne ==
  ASSUME NEW i, NEW t, NEW s, Clean(i, s.file)
  PROVE  Goes(<<i>>, t, s, Follow(i, s, t))
<1> DEFINE h == [k \in {0, 1} |-> IF k = 0 THEN s ELSE Follow(i, s, t)]
<1>1. h[0] = s /\ h[1] = Follow(i, s, t) /\ Len(<<i>>) = 1 /\ <<i>>[1] = i
  OBVIOUS
<1>2. \A k \in 1 .. 1 : k = 1 /\ k - 1 = 0
  OBVIOUS
<1> HIDE DEF h
<1> QED BY <1>1, <1>2 DEF Goes

LEMMA GoesOn ==
  ASSUME NEW S, NEW p \in Seq(S), NEW q \in Seq(S), NEW t, NEW s, NEW u, NEW w,
         Goes(p, t, s, u), Goes(q, t, u, w)
  PROVE  Goes(p \o q, t, s, w)
<1>1. PICK m \in Nat, n \in Nat : m = Len(p) /\ n = Len(q)
  OBVIOUS
<1>2. PICK g : /\ g[0] = s /\ g[m] = u
               /\ \A k \in 1 .. m : Clean(p[k], g[k - 1].file) /\ g[k] = Follow(p[k], g[k - 1], t)
  BY <1>1 DEF Goes
<1>3. PICK h : /\ h[0] = u /\ h[n] = w
               /\ \A k \in 1 .. n : Clean(q[k], h[k - 1].file) /\ h[k] = Follow(q[k], h[k - 1], t)
  BY <1>1 DEF Goes
<1> DEFINE f == [k \in 0 .. m + n |-> IF k <= m THEN g[k] ELSE h[k - m]]
<1>4. Len(p \o q) = m + n
  BY <1>1
<1>5. f[0] = s /\ f[m + n] = w
  BY <1>2, <1>3
<1>6. ASSUME NEW k \in 1 .. m + n
      PROVE  Clean((p \o q)[k], f[k - 1].file) /\ f[k] = Follow((p \o q)[k], f[k - 1], t)
  <2>1. CASE k <= m
    <3>1. k \in 1 .. m /\ (p \o q)[k] = p[k] /\ f[k] = g[k] /\ f[k - 1] = g[k - 1]
      BY <1>1, <2>1
    <3> HIDE DEF f
    <3> QED BY <1>2, <3>1
  <2>2. CASE k > m
    <3>1. k - m \in 1 .. n /\ (p \o q)[k] = q[k - m] /\ f[k] = h[k - m]
      BY <1>1, <2>2
    <3>2. f[k - 1] = h[k - m - 1]
      <4>1. CASE k - 1 = m
        <5>1. f[k - 1] = g[m] /\ k - m - 1 = 0
          BY <4>1
        <5> HIDE DEF f
        <5> QED BY <1>2, <1>3, <5>1
      <4>2. CASE k - 1 # m
        <5>1. ~ (k - 1 <= m) /\ k - 1 \in 0 .. m + n /\ (k - 1) - m = k - m - 1
          BY <2>2, <4>2
        <5> QED BY <5>1
      <4> QED BY <4>1, <4>2
    <3> HIDE DEF f
    <3> QED BY <1>3, <3>1, <3>2
  <2>3. k <= m \/ k > m
    OBVIOUS
  <2> HIDE DEF f
  <2> QED BY <2>1, <2>2, <2>3
<1> HIDE DEF f
<1> QED BY <1>4, <1>5, <1>6 DEF Goes

-----------------------------------------------------------------------------
(* The original function reads no poison *)

LEMMA NameIs ==
  ASSUME NEW N \in SUBSET (Nat \ {0}), NEW v \in N
  PROVE  v \in Int /\ v > 0 /\ Virtual(v) /\ v \notin Physical
<1>1. v \in Nat \ {0}
  OBVIOUS
<1>2. v \in Int /\ v > 0 /\ ~ (v < 0)
  BY <1>1
<1> QED BY <1>2, PhysicalIs DEF Virtual

\* What an instruction awaits itself, and what it leaves awaited.
LEMMA AwaitedStep ==
  ASSUME NEW N \in SUBSET (Nat \ {0}), NEW instrs \in Seq(Instrs(N)), NEW k \in 1 .. Len(instrs)
  PROVE  /\ \A r \in UseSet(instrs[k]) \cup instrs[k].imp :
              ~ Virtual(r) => r \in Awaited(instrs, k - 1)
         /\ Awaited(instrs, k) \ instrs[k].def \subseteq Awaited(instrs, k - 1)
<1>1. PICK n \in Nat : n = Len(instrs) /\ k \in 1 .. n /\ DOMAIN instrs = 1 .. n
  OBVIOUS
<1>2. ASSUME NEW r \in UseSet(instrs[k]) \cup instrs[k].imp, ~ Virtual(r)
      PROVE  r \in Awaited(instrs, k - 1)
  <2>1. instrs[k] \in Instrs(N)
    OBVIOUS
  <2>2. r \in Physical
    <3>1. r \in Physical \cup N
      BY <2>1, InstrIs
    <3>2. r \notin N
      BY <1>2, NameIs
    <3> QED BY <3>1, <3>2
  <2>3. k \in (k - 1) + 1 .. n /\ ~ \E j \in (k - 1) + 1 .. k - 1 : TRUE
    BY <1>1
  <2> QED BY <1>1, <2>2, <2>3 DEF Awaited
<1>3. ASSUME NEW r \in Awaited(instrs, k), r \notin instrs[k].def PROVE r \in Awaited(instrs, k - 1)
  <2>1. PICK m \in k + 1 .. n : /\ r \in UseSet(instrs[m]) \cup instrs[m].imp
                                /\ \A j \in k + 1 .. m - 1 : r \notin instrs[j].def
    BY <1>1 DEF Awaited
  <2>2. m \in (k - 1) + 1 .. n /\ \A j \in (k - 1) + 1 .. m - 1 : j = k \/ j \in k + 1 .. m - 1
    BY <1>1
  <2> QED BY <1>1, <1>3, <2>1, <2>2 DEF Awaited
<1> QED BY <1>2, <1>3

\* From file on, with at most the registers of W poisoned, instrs lead to u.
Survives(instrs, t, file, N, W, u) ==
  /\ Goes(instrs, t, Fresh(file), u) /\ u.file \in Files
  /\ \A v \in N : u.file[v] = Poison => v \in W \ Written(instrs)

\* A block that reads first nothing poisoned, and loses nothing it awaits.
LEMMA BlockGoes ==
  ASSUME NEW N \in SUBSET (Nat \ {0}), NEW instrs \in Seq(Instrs(N)),
         \A k \in DOMAIN instrs : /\ instrs[k].op \notin {"load", "store"}
                                  /\ (Awaited(instrs, k) \ instrs[k].def) \cap Harmed(instrs[k]) = {},
         NEW F \in Files, NEW t \in Nat,
         NEW W, W \cap ReadFirst(instrs) = {},
         \A v \in N : F[v] = Poison => v \in W,
         \A r \in Awaited(instrs, 0) : F[r] # Poison
  PROVE  \E u : Survives(instrs, t, F, N, W, u)
<1>1. PICK n \in Nat : n = Len(instrs) /\ DOMAIN instrs = 1 .. n
  OBVIOUS
<1> DEFINE Runs(k, h) == /\ h[0] = Fresh(F)
                         /\ \A j \in 1 .. k : /\ Clean(instrs[j], h[j - 1].file)
                                              /\ h[j] = Follow(instrs[j], h[j - 1], t)
           Sound(k, file) == /\ file \in Files
                             /\ \A v \in N : file[v] = Poison =>
                                  v \in W /\ \A j \in 1 .. k : v \notin VirtualDefs(instrs[j])
                             /\ \A r \in Awaited(instrs, k) : file[r] # Poison
           Have == {k \in 0 .. n : \E h : Runs(k, h) /\ Sound(k, h[k].file)}
<1>2. 0 \in Have
  <2> DEFINE h == [k \in {0} |-> Fresh(F)]
  <2>1. h[0] = Fresh(F) /\ Fresh(F).file = F /\ ~ \E j \in 1 .. 0 : TRUE
    BY DEF Fresh
  <2> HIDE DEF h
  <2>2. Runs(0, h) /\ Sound(0, h[0].file)
    BY <2>1
  <2>3. 0 \in 0 .. n
    BY <1>1
  <2> HIDE DEF Runs, Sound
  <2> QED BY <2>2, <2>3
<1>3. ASSUME NEW k \in 1 .. n, NEW file, Sound(k - 1, file)
      PROVE  Clean(instrs[k], file) /\ Sound(k, StrictStep(instrs[k], file, t))
  <2>1. PICK i : i = instrs[k] /\ i \in Instrs(N) /\ k \in DOMAIN instrs /\ k \in 1 .. Len(instrs)
    BY <1>1
  <2>2. /\ file \in Files
        /\ \A v \in N : file[v] = Poison => v \in W /\ \A j \in 1 .. k - 1 : v \notin VirtualDefs(instrs[j])
        /\ \A r \in Awaited(instrs, k - 1) : file[r] # Poison
    BY <1>3
  <2>3. ASSUME NEW r \in UseSet(i) \cup i.imp PROVE file[r] # Poison
    <3>1. CASE Virtual(r)
      <4>1. r \in Physical \cup N
        BY <2>1, InstrIs
      <4>2. r \in N /\ r \in UseSet(i)
        <5>1. i.imp \subseteq Physical
          BY <2>1, InstrIs
        <5> QED BY <3>1, <4>1, <5>1, PhysicalIs
      <4>3. ASSUME file[r] = Poison PROVE FALSE
        <5>1. r \in W /\ \A j \in 1 .. k - 1 : r \notin VirtualDefs(instrs[j])
          BY <2>2, <4>2, <4>3
        <5>2. r \in VirtualUses(instrs[k])
          BY <2>1, <3>1, <4>2 DEF VirtualUses
        <5>3. r \in ReadFirst(instrs)
          BY <2>1, <5>1, <5>2 DEF ReadFirst
        <5> QED BY <5>1, <5>3
      <4> QED BY <4>3
    <3>2. CASE ~ Virtual(r)
      BY <2>1, <2>2, <3>2, AwaitedStep
    <3> QED BY <3>1, <3>2
  <2>4. Clean(i, file)
    BY <2>3 DEF Clean
  <2>5. Result(i, file, t) # Poison
    <3>1. i.op # "load"
      BY <2>1
    <3>2. i.op = "move" => file[i.uses[1]] # Poison
      BY <2>1, <2>3, InstrIs
    <3> QED BY <3>1, <3>2 DEF Result, Poison, Value
  <2>6. PICK next : next = StrictStep(i, file, t)
    OBVIOUS
  <2>7. next \in Files /\ i.op # "store"
    BY <2>1, <2>2, <2>6, StrictTyped
  <2>8. ASSUME NEW v \in N, next[v] = Poison
        PROVE  v \in W /\ \A j \in 1 .. k : v \notin VirtualDefs(instrs[j])
    <3>1. v \in Int /\ Virtual(v) /\ v \notin Physical
      BY NameIs
    <3>2. v \notin Harmed(i)
      BY <3>1, HarmedPhysical
    <3>3. v \notin i.def /\ next[v] = file[v]
      BY <2>5, <2>6, <2>7, <2>8, <3>1, <3>2 DEF StrictStep
    <3>4. v \notin VirtualDefs(instrs[k])
      BY <2>1, <3>3 DEF VirtualDefs
    <3>5. v \in W /\ \A j \in 1 .. k - 1 : v \notin VirtualDefs(instrs[j])
      BY <2>2, <2>8, <3>3
    <3>6. \A j \in 1 .. k : j = k \/ j \in 1 .. k - 1
      OBVIOUS
    <3> QED BY <3>4, <3>5, <3>6
  <2>9. ASSUME NEW r \in Awaited(instrs, k) PROVE next[r] # Poison
    <3>1. r \in Int
      BY PhysicalIs DEF Awaited
    <3>2. CASE r \in i.def
      BY <2>5, <2>6, <3>1, <3>2 DEF StrictStep
    <3>3. CASE r \notin i.def
      <4>1. r \in Awaited(instrs, k - 1)
        BY <2>1, <3>3, AwaitedStep
      <4>2. r \notin Harmed(i)
        BY <2>1, <3>3
      <4>3. next[r] = file[r]
        BY <2>6, <2>7, <3>1, <3>3, <4>2 DEF StrictStep
      <4> QED BY <2>2, <4>1, <4>3
    <3> QED BY <3>2, <3>3
  <2>10. Sound(k, next)
    BY <2>7, <2>8, <2>9
  <2> HIDE DEF Sound
  <2> QED BY <2>1, <2>4, <2>6, <2>10
<1>4. ASSUME NEW k \in 1 .. n, k - 1 \in Have PROVE k \in Have
  <2>1. PICK g : Runs(k - 1, g) /\ Sound(k - 1, g[k - 1].file)
    BY <1>4
  <2> DEFINE h == [j \in 0 .. k |-> IF j = k THEN Follow(instrs[k], g[k - 1], t) ELSE g[j]]
  <2>2. Clean(instrs[k], g[k - 1].file) /\ Sound(k, StrictStep(instrs[k], g[k - 1].file, t))
    <3> HIDE DEF Sound, Runs
    <3> QED BY <1>3, <2>1
  <2>3. Runs(k, h)
    <3>1. h[0] = g[0]
      OBVIOUS
    <3>2. ASSUME NEW j \in 1 .. k
          PROVE  Clean(instrs[j], h[j - 1].file) /\ h[j] = Follow(instrs[j], h[j - 1], t)
      <4>1. CASE j = k
        <5>1. h[j] = Follow(instrs[k], g[k - 1], t) /\ h[j - 1] = g[k - 1]
          BY <4>1
        <5> HIDE DEF h, Sound, Runs
        <5> QED BY <2>2, <4>1, <5>1
      <4>2. CASE j # k
        <5>1. h[j] = g[j] /\ h[j - 1] = g[j - 1] /\ j \in 1 .. k - 1
          BY <4>2
        <5> HIDE DEF h, Sound
        <5> QED BY <2>1, <5>1
      <4> QED BY <4>1, <4>2
    <3> HIDE DEF h
    <3> QED BY <2>1, <3>1, <3>2
  <2>4. Sound(k, h[k].file)
    <3>1. h[k].file = StrictStep(instrs[k], g[k - 1].file, t)
      BY DEF Follow
    <3> HIDE DEF h, Sound
    <3> QED BY <2>2, <3>1
  <2>5. k \in 0 .. n
    BY <1>1
  <2> HIDE DEF h, Runs, Sound
  <2> QED BY <2>3, <2>4, <2>5
<1>5. \A k \in 0 .. n : k \in Have
  <2> HIDE DEF Have
  <2> QED BY <1>1, <1>2, <1>4, UpTo, Zenon
<1>6. PICK h : Runs(n, h) /\ Sound(n, h[n].file)
  <2>1. n \in Have
    <3> HIDE DEF Have
    <3> QED BY <1>1, <1>5
  <2> HIDE DEF Runs, Sound
  <2> QED BY <2>1
<1>7. Goes(instrs, t, Fresh(F), h[n])
  BY <1>1, <1>6 DEF Goes
<1>8. ASSUME NEW v \in N, h[n].file[v] = Poison PROVE v \in W \ Written(instrs)
  BY <1>1, <1>6, <1>8 DEF Written
<1>9. Survives(instrs, t, F, N, W, h[n])
  <2> HIDE DEF Runs
  <2> QED BY <1>6, <1>7, <1>8 DEF Survives
<1> QED BY <1>9

LEMMA EntryTyped ==
  /\ EntryPoisoned \in Files
  /\ \A r \in Physical : EntryPoisoned[r] = Value("entry", r, 0) /\ EntryPoisoned[r] # Poison
<1>1. ASSUME NEW r \in Physical
      PROVE  EntryPoisoned[r] = Value("entry", r, 0) /\ Value("entry", r, 0) # Poison
  BY PhysicalIs DEF EntryPoisoned, Value, Poison
<1>2. ASSUME NEW r \in Int
      PROVE  Value("entry", r, 0) \in Values /\ Poison \in Values
  BY DEF Value, Values, Poison
<1>3. EntryPoisoned \in Files
  BY <1>2 DEF EntryPoisoned, Files
<1> QED BY <1>1, <1>3

\* A program as it is handed over is simulated by itself.
LEMMA OriginalSimulates ==
  ASSUME NEW p \in Programs, code = p.code, original = p.code, succ = p.succ, regs = p.regs
  PROVE  \E R : Simulates(R)
<1>1. /\ Blocks = DOMAIN p.code /\ 1 \in Blocks
      /\ succ \in [Blocks -> SUBSET Blocks]
      /\ regs \in SUBSET (Nat \ {0})
      /\ \A b \in Blocks : code[b] \in Seq(Instrs(regs))
      /\ \A b \in Blocks : \A k \in DOMAIN code[b] :
           /\ code[b][k].op \notin {"load", "store"}
           /\ (Awaited(code[b], k) \ code[b][k].def) \cap Harmed(code[b][k]) = {}
      /\ \A b \in Blocks : \A c \in succ[b] : Awaited(code[c], 0) = {}
  <2>1. 1 \in DOMAIN p.code
    BY ProgramsAssumption
  <2> QED BY <2>1, ProgramsAssumption, CodeAssumption DEF Blocks, PhysicalLocal
<1> DEFINE Within(v, S) == /\ 1 \in S
                           /\ \A b \in S : /\ v \notin ReadFirst(code[b])
                                           /\ v \notin Written(code[b]) => succ[b] \subseteq S
           unwritten == [v \in regs |-> CHOOSE S \in SUBSET Blocks : Within(v, S)]
           Sound(b, file) == /\ \A v \in regs : file[v] = Poison => b \in unwritten[v]
                             /\ \A r \in Awaited(code[b], 0) : file[r] # Poison
           R == {x \in Blocks \X Nat \X Files \X Files : x[3] = x[4] /\ Sound(x[1], x[3])}
<1>2. ASSUME NEW v \in regs PROVE Within(v, unwritten[v])
  <2>1. \E S \in SUBSET Blocks : Within(v, S)
    <3>1. PICK S \in SUBSET DOMAIN p.code :
            /\ 1 \in S
            /\ \A b \in S : /\ v \notin ReadFirst(p.code[b])
                            /\ v \notin Written(p.code[b]) => p.succ[b] \subseteq S
      BY CodeAssumption DEF WrittenFirst
    <3>2. S \in SUBSET Blocks /\ Within(v, S)
      <4>1. Blocks = DOMAIN p.code /\ code = p.code /\ succ = p.succ
        BY <1>1
      <4>2. S \in SUBSET Blocks /\ 1 \in S
        BY <3>1, <4>1
      <4>3. ASSUME NEW b \in S
            PROVE  /\ v \notin ReadFirst(code[b])
                   /\ v \notin Written(code[b]) => succ[b] \subseteq S
        <5>1. /\ v \notin ReadFirst(p.code[b])
              /\ v \notin Written(p.code[b]) => p.succ[b] \subseteq S
          BY <3>1, <4>3
        <5>2. p.code[b] = code[b] /\ p.succ[b] = succ[b]
          OBVIOUS
        <5> QED BY <5>1, <5>2
      <4> QED BY <4>2, <4>3
    <3> HIDE DEF Within
    <3> QED BY <3>2
  <2> HIDE DEF Within
  <2> QED BY <2>1
<1> HIDE DEF unwritten
<1>3. <<1, 0, EntryPoisoned, EntryPoisoned>> \in R
  <2>1. Sound(1, EntryPoisoned)
    BY <1>2, EntryTyped DEF Awaited
  <2> HIDE DEF Sound
  <2> QED BY <1>1, <2>1, EntryTyped
<1>4. ASSUME NEW b, NEW t, NEW F, NEW G, <<b, t, F, G>> \in R
      PROVE  \E s, u : /\ Goes(original[b], t, Fresh(F), s)
                       /\ Goes(code[b], t, Fresh(G), u)
                       /\ s.reads = u.reads
                       /\ \A c \in succ[b] : <<c, t + 1, s.file, u.file>> \in R
  <2>1. b \in Blocks /\ t \in Nat /\ F \in Files /\ F = G /\ Sound(b, F)
    <3> HIDE DEF Sound
    <3> QED BY <1>4
  <2> DEFINE W == {v \in regs : b \in unwritten[v]}
  <2>2. W \cap ReadFirst(code[b]) = {}
    BY <1>2
  <2>3. PICK u : Survives(code[b], t, F, regs, W, u)
    <3>1. (\A v \in regs : F[v] = Poison => v \in W) /\ \A r \in Awaited(code[b], 0) : F[r] # Poison
      BY <2>1
    <3>2. PICK instrs : instrs = code[b]
      OBVIOUS
    <3>3. /\ instrs \in Seq(Instrs(regs)) /\ regs \in SUBSET (Nat \ {0})
          /\ \A k \in DOMAIN instrs :
               /\ instrs[k].op \notin {"load", "store"}
               /\ (Awaited(instrs, k) \ instrs[k].def) \cap Harmed(instrs[k]) = {}
      BY <1>1, <2>1, <3>2
    <3> HIDE DEF W
    <3>4. \E u : Survives(instrs, t, F, regs, W, u)
      BY <2>1, <2>2, <3>1, <3>2, <3>3, BlockGoes
    <3> QED BY <3>2, <3>4
  <2>4. ASSUME NEW c \in succ[b] PROVE <<c, t + 1, u.file, u.file>> \in R
    <3>1. c \in Blocks /\ t + 1 \in Nat /\ Awaited(code[c], 0) = {}
      <4>1. succ[b] \in SUBSET Blocks
        BY <1>1, <2>1
      <4>2. c \in Blocks /\ t + 1 \in Nat
        BY <2>1, <4>1
      <4> QED BY <1>1, <2>1, <4>2, Zenon
    <3>2. \A v \in regs : u.file[v] = Poison => c \in unwritten[v]
      BY <1>2, <2>3 DEF Survives
    <3>3. Sound(c, u.file)
      BY <3>1, <3>2
    <3> HIDE DEF Sound
    <3> QED BY <2>3, <3>1, <3>3 DEF Survives
  <2>5. original = code
    OBVIOUS
  <2> HIDE DEF R
  <2> QED BY <2>1, <2>3, <2>4, <2>5 DEF Survives
<1>5. Simulates(R)
  <2>1. R \subseteq Blocks \X Nat \X Files \X Files
    OBVIOUS
  <2> HIDE DEF R
  <2> QED BY <1>3, <1>4, <2>1 DEF Simulates
<1> HIDE DEF R
<1> QED BY <1>5

-----------------------------------------------------------------------------
(* What rewrite_spills puts in place of the spilled registers *)

\* The code of a round: instructions over the registers made so far, and spill
\* slots named by registers that no instruction mentions any more.
SlotsApart ==
  \A p, q \in Sites : At(p).op \in {"load", "store"} => At(p).slot \notin UseSet(At(q)) \cup At(q).def

CodeOK ==
  /\ ShapeOK
  /\ regs \in SUBSET (Nat \ {0}) /\ IsFiniteSet(regs)
  /\ \A b \in Blocks : code[b] \in Seq(Instrs(regs))
  /\ SlotsApart

\* Every use that is reloaded finds a scratch register.
ReloadsFit ==
  phase = "color" /\ CG!Done => \A p \in Sites : Cardinality(SpilledUses(At(p))) <= Len(Pool(At(p)))

\* v is not stored: its constant is loaded again at each use.
Remade(v) == v \in spills /\ Rematerializable(v)

LEMMA SiteIs ==
  ASSUME CodeOK
  PROVE  /\ \A b \in Blocks : \A k \in 1 .. Len(code[b]) : <<b, k>> \in Sites /\ At(<<b, k>>) = code[b][k]
         /\ \A p \in Sites : /\ p[1] \in Blocks /\ p[2] \in 1 .. Len(code[p[1]]) /\ At(p) = code[p[1]][p[2]]
                             /\ p[1] \in Nat /\ p[2] \in Nat /\ At(p) \in Instrs(regs)
<1>1. ASSUME NEW b \in Blocks, NEW k \in 1 .. Len(code[b])
      PROVE  <<b, k>> \in Sites /\ At(<<b, k>>) = code[b][k]
  <2>1. k \in DOMAIN code[b]
    BY DEF CodeOK
  <2> QED BY <2>1 DEF Sites, At
<1>2. ASSUME NEW p \in Sites
      PROVE  /\ p[1] \in Blocks /\ p[2] \in 1 .. Len(code[p[1]]) /\ At(p) = code[p[1]][p[2]]
             /\ p[1] \in Nat /\ p[2] \in Nat /\ At(p) \in Instrs(regs)
  <2>1. PICK b \in Blocks : p \in {b} \X DOMAIN code[b]
    BY DEF Sites
  <2>2. p[1] = b /\ p[2] \in DOMAIN code[b] /\ code[b] \in Seq(Instrs(regs))
    BY <2>1 DEF CodeOK
  <2>3. p[2] \in 1 .. Len(code[b]) /\ code[b][p[2]] \in Instrs(regs) /\ p[2] \in Nat
    BY <2>2
  <2>4. b \in Nat
    BY DEF CodeOK, ShapeOK
  <2> QED BY <2>2, <2>3, <2>4 DEF At
<1> QED BY <1>1, <1>2

LEMMA JoinIs ==
  ASSUME NEW S, NEW p \in Seq(S), NEW q \in Seq(S)
  PROVE  /\ Len(p \o q) = Len(p) + Len(q) /\ DOMAIN (p \o q) = 1 .. Len(p) + Len(q)
         /\ \A k \in 1 .. Len(p) : (p \o q)[k] = p[k]
         /\ \A k \in Len(p) + 1 .. Len(p) + Len(q) : (p \o q)[k] = q[k - Len(p)]
OBVIOUS

LEMMA SpilledFinite ==
  ASSUME CodeOK, spills \subseteq regs, NEW S \in SUBSET spills
  PROVE  S \in SUBSET Int /\ IsFiniteSet(S)
<1>1. S \in SUBSET regs
  OBVIOUS
<1>2. IsFiniteSet(S)
  BY <1>1, FS_Subset DEF CodeOK
<1>3. S \in SUBSET Int
  BY <1>1 DEF CodeOK
<1> QED BY <1>2, <1>3

\* The scratch registers i does not mention, in order.
Free(i) == {k \in DOMAIN Scratch : Scratch[k] \notin UseSet(i) \cup i.def \cup i.imp}

LEMMA PoolIs ==
  ASSUME NEW i
  PROVE  /\ Len(Pool(i)) \in Nat
         /\ \A k \in 1 .. Len(Pool(i)) :
              Pool(i)[k] \in Range(Scratch) /\ Pool(i)[k] \notin UseSet(i) \cup i.def \cup i.imp
         /\ \A j, k \in 1 .. Len(Pool(i)) : Pool(i)[j] = Pool(i)[k] => j = k
<1>1. DOMAIN Scratch = 1 .. Len(Scratch) /\ Len(Scratch) \in Nat
  BY RegistersAssumption
<1>2. IsFiniteSet(DOMAIN Scratch)
  BY <1>1, FS_Interval
<1>3. Free(i) \in SUBSET DOMAIN Scratch /\ Free(i) \in SUBSET Int
  BY <1>1 DEF Free
<1>4. IsFiniteSet(Free(i))
  BY <1>2, <1>3, FS_Subset
<1>5. PICK q : q = Ascending(Free(i)) /\ Lists(q, Free(i))
  BY <1>3, <1>4, AscendingLists
<1>6. PICK n \in Nat : n = Cardinality(Free(i))
  BY <1>5 DEF Lists
<1>7. /\ q \in [1 .. n -> Free(i)]
      /\ \A j, k \in 1 .. n : q[j] = q[k] => j = k
  BY <1>5, <1>6 DEF Lists
<1>8. Pool(i) = [k \in 1 .. n |-> Scratch[q[k]]]
  BY <1>5, <1>6 DEF Pool, Free
<1>9. Len(Pool(i)) = n
  BY <1>8
<1>10. ASSUME NEW k \in 1 .. n
       PROVE  Pool(i)[k] \in Range(Scratch) /\ Pool(i)[k] \notin UseSet(i) \cup i.def \cup i.imp
  <2>1. q[k] \in Free(i) /\ Pool(i)[k] = Scratch[q[k]]
    BY <1>7, <1>8
  <2> QED BY <2>1 DEF Free, Range
<1>11. ASSUME NEW j \in 1 .. n, NEW k \in 1 .. n, Pool(i)[j] = Pool(i)[k] PROVE j = k
  <2>1. q[j] \in DOMAIN Scratch /\ q[k] \in DOMAIN Scratch /\ Scratch[q[j]] = Scratch[q[k]]
    BY <1>7, <1>8, <1>11 DEF Free
  <2>2. q[j] = q[k]
    BY <2>1, RegistersAssumption
  <2> QED BY <1>7, <2>2
<1> QED BY <1>9, <1>10, <1>11

\* The registers put in place of the spilled ones: for a use a scratch register
\* of its own, for a result a scratch register or a fresh one.
LEMMA ReplacementIs ==
  ASSUME CodeOK, spills \subseteq regs, NEW p \in Sites,
         Cardinality(SpilledUses(At(p))) <= Len(Pool(At(p)))
  PROVE  /\ DOMAIN Replacement(p) = SpilledUses(At(p)) \cup SpilledDefs(At(p))
         /\ \A v \in SpilledUses(At(p)) :
              /\ Replacement(p)[v] \in Range(Scratch)
              /\ Replacement(p)[v] \notin UseSet(At(p)) \cup At(p).def \cup At(p).imp
         /\ \A v, w \in SpilledUses(At(p)) : Replacement(p)[v] = Replacement(p)[w] => v = w
         /\ \A v \in SpilledDefs(At(p)) : Replacement(p)[v] \in Range(Scratch) \cup FreshAt(p)
<1> DEFINE i == At(p)
           used == SpilledUses(i)
           made == SpilledDefs(i) \ SpilledUses(i)
           a == Ascending(used)
           c == Ascending(made)
           n == Cardinality(used)
           m == Cardinality(made)
           names == Replaced(i)
           pool == Pool(i)
           rank(v) == CHOOSE k \in DOMAIN names : names[k] = v
           to == Replacement(p)
<1>1. Lists(a, used) /\ Lists(c, made)
  <2>1. used \in SUBSET spills /\ made \in SUBSET spills
    BY DEF SpilledUses, SpilledDefs
  <2> HIDE DEF used, made
  <2> QED BY <2>1, SpilledFinite, AscendingLists
<1>2. n \in Nat /\ m \in Nat /\ a \in [1 .. n -> used] /\ c \in [1 .. m -> made]
  BY <1>1 DEF Lists
<1>3. Len(pool) \in Nat /\ n <= Len(pool)
  BY PoolIs
<1>4. names = a \o c
  BY DEF Replaced
<1> HIDE DEF a, c, n, m
<1>20. a \in Seq(spills) /\ c \in Seq(spills) /\ Len(a) = n /\ Len(c) = m
  <2>1. used \subseteq spills /\ made \subseteq spills
    BY DEF SpilledUses, SpilledDefs
  <2> HIDE DEF used, made
  <2> QED BY <1>2, <2>1
<1>5. /\ DOMAIN names = 1 .. n + m
      /\ \A k \in 1 .. n : names[k] = a[k]
      /\ \A k \in n + 1 .. n + m : names[k] = c[k - n]
  <2> HIDE DEF names, used, made
  <2> QED BY <1>4, <1>20, JoinIs
<1>6. Len(names) = n + m
  <2> HIDE DEF names, used, made
  <2> QED BY <1>4, <1>20, JoinIs
<1>7. to = [v \in Range(names) |-> IF rank(v) <= Len(pool) THEN pool[rank(v)]
                                   ELSE FreshId(p, rank(v) - Len(pool))]
  BY DEF Replacement
<1>8. ASSUME NEW k \in 1 .. n + m - Len(pool) PROVE FreshId(p, k) \in FreshAt(p)
  <2>1. k \in 1 .. Len(names) - Len(pool)
    <3> HIDE DEF names, pool
    <3> QED BY <1>2, <1>3, <1>6
  <2> QED BY <2>1 DEF FreshAt
<1> HIDE DEF names, pool, to, made, used
<1>9. ASSUME NEW k \in DOMAIN names
      PROVE  IF k <= n THEN names[k] \in used ELSE names[k] \in made
  <2>1. CASE k <= n
    BY <1>2, <1>5, <2>1
  <2>2. CASE ~ (k <= n)
    <3>1. k \in n + 1 .. n + m /\ k - n \in 1 .. m
      BY <1>2, <1>5, <2>2
    <3> QED BY <1>2, <1>5, <2>2, <3>1
  <2> QED BY <2>1, <2>2
<1>10. ASSUME NEW v \in used PROVE \E k \in 1 .. n : k \in DOMAIN names /\ names[k] = v
  <2>1. PICK k \in 1 .. n : a[k] = v
    BY <1>1, <1>10 DEF Lists, n
  <2> QED BY <1>2, <1>5, <2>1
<1>11. ASSUME NEW v \in made PROVE \E k \in DOMAIN names : names[k] = v
  <2>1. PICK k \in 1 .. m : c[k] = v
    BY <1>1, <1>11 DEF Lists, m
  <2>2. n + k \in n + 1 .. n + m /\ n + k \in DOMAIN names /\ (n + k) - n = k
    BY <1>2, <1>5
  <2>3. names[n + k] = v
    BY <1>5, <2>1, <2>2
  <2> QED BY <2>2, <2>3
<1>12. Range(names) = used \cup made
  BY <1>9, <1>10, <1>11 DEF Range
<1>13. ASSUME NEW v \in used \cup made PROVE rank(v) \in DOMAIN names /\ names[rank(v)] = v
  BY <1>10, <1>11, <1>13
<1>14. ASSUME NEW v \in used PROVE rank(v) \in 1 .. n /\ rank(v) <= Len(pool) /\ to[v] = pool[rank(v)]
  <2>1. v \notin made
    BY DEF made, used
  <2>2. rank(v) \in DOMAIN names /\ names[rank(v)] = v
    BY <1>13
  <2> HIDE DEF rank
  <2>3. rank(v) <= n
    BY <1>9, <2>1, <2>2
  <2>4. rank(v) \in 1 .. n /\ rank(v) <= Len(pool)
    BY <1>2, <1>3, <1>5, <2>2, <2>3
  <2> QED BY <1>7, <1>12, <2>4
<1>15. ASSUME NEW v \in used
       PROVE  to[v] \in Range(Scratch) /\ to[v] \notin UseSet(i) \cup i.def \cup i.imp
  <2>1. rank(v) \in 1 .. Len(pool) /\ to[v] = pool[rank(v)]
    <3> HIDE DEF rank
    <3> QED BY <1>2, <1>3, <1>14
  <2> HIDE DEF rank, i
  <2> QED BY <2>1, PoolIs DEF pool
<1>16. ASSUME NEW v \in used, NEW w \in used, to[v] = to[w] PROVE v = w
  <2>1. rank(v) \in 1 .. Len(pool) /\ rank(w) \in 1 .. Len(pool) /\ pool[rank(v)] = pool[rank(w)]
    <3> HIDE DEF rank
    <3> QED BY <1>2, <1>3, <1>14, <1>16
  <2>2. names[rank(v)] = v /\ names[rank(w)] = w
    BY <1>13
  <2> HIDE DEF rank, i
  <2>3. rank(v) = rank(w)
    BY <2>1, PoolIs DEF pool
  <2> QED BY <2>2, <2>3
<1>17. ASSUME NEW v \in made PROVE to[v] \in Range(Scratch) \cup FreshAt(p)
  <2>1. rank(v) \in 1 .. n + m
    <3> HIDE DEF rank
    <3> QED BY <1>5, <1>13
  <2>2. to[v] = IF rank(v) <= Len(pool) THEN pool[rank(v)] ELSE FreshId(p, rank(v) - Len(pool))
    BY <1>7, <1>12
  <2> HIDE DEF rank, i
  <2>3. CASE rank(v) <= Len(pool)
    BY <2>1, <2>2, <2>3, PoolIs DEF pool
  <2>4. CASE ~ (rank(v) <= Len(pool))
    <3>1. rank(v) - Len(pool) \in 1 .. n + m - Len(pool)
      BY <1>2, <1>3, <2>1, <2>4
    <3> QED BY <1>8, <2>2, <2>4, <3>1
  <2> QED BY <2>3, <2>4
<1>18. DOMAIN to = SpilledUses(i) \cup SpilledDefs(i)
  <2>1. DOMAIN to = used \cup made
    BY <1>7, <1>12
  <2> QED BY <2>1 DEF used, made
<1>19. \A v \in SpilledDefs(i) : v \in used \/ v \in made
  BY DEF used, made
<1> QED BY <1>15, <1>16, <1>17, <1>18, <1>19 DEF used, to

LEMMA FreshIs ==
  ASSUME CodeOK, regs # {}, NEW p \in Sites, NEW r \in FreshAt(p)
  PROVE  r \in Nat \ {0} /\ r \notin regs /\ r \notin Physical /\ Virtual(r)
<1>1. PICK k \in 1 .. Len(Replaced(At(p))) - Len(Pool(At(p))) : r = FreshId(p, k)
  BY DEF FreshAt
<1>2. Max(regs) \in regs /\ \A x \in regs : x <= Max(regs)
  <2>1. regs \in SUBSET Int
    BY DEF CodeOK
  <2> QED BY <2>1, LargestIs DEF CodeOK
<1>3. PICK m \in Nat \ {0} : m = Max(regs) /\ \A x \in regs : x <= m
  <2>1. Max(regs) \in Nat \ {0}
    BY <1>2 DEF CodeOK
  <2> QED BY <1>2, <2>1
<1>4. PICK b \in Nat, j \in Nat : b = p[1] /\ j = p[2]
  BY SiteIs
<1>5. k \in Int /\ k > 0
  OBVIOUS
<1>6. r = m + 100 * b + 3 * j + k
  BY <1>1, <1>3, <1>4 DEF FreshId
<1>7. r \in Nat \ {0} /\ r > m
  <2>1. 100 * b \in Nat /\ 3 * j \in Nat
    BY <1>4
  <2>2. PICK x \in Nat, y \in Nat : x = 100 * b /\ y = 3 * j
    BY <2>1
  <2>3. r = m + x + y + k
    BY <1>6, <2>2
  <2> QED BY <1>3, <1>5, <2>3
<1>8. r \notin regs
  BY <1>3, <1>7
<1>9. r \in Int /\ r > 0 /\ ~ (r < 0)
  BY <1>7
<1> QED BY <1>7, <1>8, <1>9, PhysicalIs DEF Virtual

LEMMA RematIs ==
  ASSUME CodeOK, NEW v, Rematerializable(v)
  PROVE  /\ RematDef(v) \in Instrs(regs) /\ RematDef(v).op = "imm" /\ v \in RematDef(v).def
         /\ \A q \in Sites : v \in At(q).def => At(q) = RematDef(v)
<1>1. PICK q \in Sites : DefSites(v) = {q} /\ At(q).op = "imm"
  BY DEF Rematerializable
<1>2. \A x \in Sites : v \in At(x).def <=> x = q
  BY <1>1 DEF DefSites
<1>3. RematDef(v) = At(q)
  BY <1>2 DEF RematDef
<1> QED BY <1>1, <1>2, <1>3, SiteIs

\* The cell a reload reads: the constant again, or the slot.
Reloaded(v, file) == IF Rematerializable(v) THEN Value("imm", RematDef(v).id, 0) ELSE file[v]

\* A reload into a physical register changes nothing else.
LEMMA ReloadIs ==
  ASSUME CodeOK, NEW v \in regs, NEW r \in Physical, NEW file \in Files, NEW t, NEW s, s.file = file
  PROVE  /\ Clean(Reload(v, r), file)
         /\ Follow(Reload(v, r), s, t)
              = [file |-> [x \in Int |-> IF x = r THEN Reloaded(v, file) ELSE file[x]], reads |-> s.reads]
<1> DEFINE i == Reload(v, r)
<1>1. /\ i.uses = << >> /\ i.def = {r} /\ i.op \in {"imm", "load"}
      /\ i.op = "imm" => Rematerializable(v) /\ i.id = RematDef(v).id
      /\ i.op = "load" => ~ Rematerializable(v) /\ i.slot = v
  <2>1. CASE Rematerializable(v)
    <3>1. RematDef(v) \in Instrs(regs) /\ RematDef(v).op = "imm"
      BY <2>1, RematIs
    <3>2. RematDef(v).uses = << >>
      BY <3>1, InstrIs DEF CodeOK
    <3>3. /\ [RematDef(v) EXCEPT !.def = {r}].def = {r}
          /\ [RematDef(v) EXCEPT !.def = {r}].uses = RematDef(v).uses
          /\ [RematDef(v) EXCEPT !.def = {r}].op = RematDef(v).op
          /\ [RematDef(v) EXCEPT !.def = {r}].id = RematDef(v).id
      BY <3>1 DEF Instrs
    <3> QED BY <2>1, <3>1, <3>2, <3>3 DEF Reload
  <2>2. CASE ~ Rematerializable(v)
    BY <2>2 DEF Reload, LoadSlot
  <2> QED BY <2>1, <2>2
<1> HIDE DEF i
<1>2. Clean(i, file)
  BY <1>1 DEF Clean, Silent
<1>3. Harmed(i) = {}
  <2>1. VirtualDefs(i) = {} /\ VirtualUses(i) = {} /\ Lost(i) = {}
    BY <1>1, PhysicalIs DEF VirtualDefs, VirtualUses, UseSet, Range, Lost
  <2> QED BY <2>1 DEF Harmed
<1>4. Result(i, file, t) = Reloaded(v, file)
  BY <1>1 DEF Result, Reloaded
<1>5. StrictStep(i, file, t) = [x \in Int |-> IF x = r THEN Reloaded(v, file) ELSE file[x]]
  BY <1>1, <1>3, <1>4 DEF StrictStep
<1>6. Seen(i, s) = s.reads
  BY <1>1 DEF Seen, Silent
<1> QED BY <1>2, <1>5, <1>6 DEF Follow, i

\* After the reloads of an instruction: u holds what file held, and in the
\* registers to[v] what was spilled.
LoadsDone(S, to, file, u) ==
  /\ u.file \in Files
  /\ \A v \in S : u.file[to[v]] = Reloaded(v, file)
  /\ \A x \in Int : (\A v \in S : x # to[v]) => u.file[x] = file[x]

LEMMA ReloadedTyped ==
  ASSUME CodeOK, NEW v \in regs, NEW file \in Files
  PROVE  Reloaded(v, file) \in Values
<1>1. v \in Int
  BY DEF CodeOK
<1>2. Rematerializable(v) => Value("imm", RematDef(v).id, 0) \in Values
  <2> SUFFICES ASSUME Rematerializable(v) PROVE RematDef(v).id \in Int
    BY DEF Value, Values
  <2> QED BY RematIs, InstrIs DEF CodeOK
<1> QED BY <1>1, <1>2 DEF Reloaded, Files

\* The reloads of the registers S, listed by q, lead from file to u.
Loaded(q, t, S, to, file, reads, u) ==
  /\ Goes([k \in DOMAIN q |-> Reload(q[k], to[q[k]])], t, [file |-> file, reads |-> reads], u)
  /\ u.reads = reads /\ LoadsDone(S, to, file, u)

LEMMA LoadsGo ==
  ASSUME CodeOK, NEW S \in SUBSET regs, NEW q, Lists(q, S),
         NEW to, \A v \in S : to[v] \in Physical, \A v, w \in S : to[v] = to[w] => v = w,
         NEW file \in Files, NEW t, NEW reads
  PROVE  \E u : Loaded(q, t, S, to, file, reads, u)
<1>1. PICK n \in Nat : n = Cardinality(S)
  BY DEF Lists
<1>2. /\ q \in [1 .. n -> S] /\ DOMAIN q = 1 .. n
      /\ \A j, k \in 1 .. n : q[j] = q[k] => j = k
      /\ \A v \in S : \E j \in 1 .. n : q[j] = v
  BY <1>1 DEF Lists
<1> DEFINE loads == [k \in DOMAIN q |-> Reload(q[k], to[q[k]])]
           Before(x, k) == \E j \in 1 .. k : to[q[j]] = x
           owner(x) == CHOOSE v \in S : to[v] = x
           f(k) == [x \in Int |-> IF Before(x, k) THEN Reloaded(owner(x), file) ELSE file[x]]
           h == [k \in 0 .. n |-> [file |-> f(k), reads |-> reads]]
<1>3. \A k \in 1 .. n : q[k] \in S /\ q[k] \in regs /\ to[q[k]] \in Physical /\ owner(to[q[k]]) = q[k]
  BY <1>2
<1>4. Len(loads) = n /\ \A k \in 1 .. n : loads[k] = Reload(q[k], to[q[k]])
  BY <1>2
<1>5. \A k \in 0 .. n : f(k) \in Files
  <2> SUFFICES ASSUME NEW k \in 0 .. n, NEW x \in Int
               PROVE  (IF Before(x, k) THEN Reloaded(owner(x), file) ELSE file[x]) \in Values
    BY DEF Files
  <2>1. CASE Before(x, k)
    <3>1. PICK j \in 1 .. n : to[q[j]] = x
      BY <1>1, <2>1
    <3>2. owner(x) \in regs
      BY <1>3, <3>1
    <3> HIDE DEF owner
    <3> QED BY <2>1, <3>2, ReloadedTyped
  <2>2. CASE ~ Before(x, k)
    <3> HIDE DEF Before
    <3> QED BY <2>2 DEF Files
  <2> QED BY <2>1, <2>2
<1>6. ASSUME NEW k \in 1 .. n
      PROVE  /\ Clean(loads[k], f(k - 1))
             /\ [file |-> f(k), reads |-> reads] = Follow(loads[k], [file |-> f(k - 1), reads |-> reads], t)
  <2>1. PICK v : v = q[k] /\ v \in S /\ v \in regs
    BY <1>3
  <2>2. PICK r : r = to[v] /\ r \in Physical /\ r \in Int /\ owner(r) = v
    BY <1>3, <2>1, PhysicalIs
  <2>3. k - 1 \in 0 .. n /\ f(k - 1) \in Files
    BY <1>5
  <2>4. ASSUME NEW x \in Int PROVE Before(x, k) <=> x = r \/ Before(x, k - 1)
    <3>1. \A j \in 1 .. k : j = k \/ j \in 1 .. k - 1
      OBVIOUS
    <3>2. \A j \in 1 .. k - 1 : j \in 1 .. k
      OBVIOUS
    <3>3. k \in 1 .. k
      OBVIOUS
    <3> QED BY <2>1, <2>2, <3>1, <3>2, <3>3
  <2>5. ~ Before(v, k - 1)
    <3> SUFFICES ASSUME NEW j \in 1 .. k - 1, to[q[j]] = v PROVE FALSE
      OBVIOUS
    <3>1. v \in Physical
      BY <1>3
    <3> QED BY <2>1, <3>1, NameIs DEF CodeOK
  <2>6. Reloaded(v, f(k - 1)) = Reloaded(v, file)
    <3>1. v \in Int
      BY <2>1, NameIs DEF CodeOK
    <3> HIDE DEF Before
    <3>2. f(k - 1)[v] = file[v]
      BY <2>5, <3>1
    <3> HIDE DEF f
    <3> QED BY <3>2 DEF Reloaded
  <2>7. f(k) = [x \in Int |-> IF x = r THEN Reloaded(v, f(k - 1)) ELSE f(k - 1)[x]]
    <3>1. ASSUME NEW x \in Int
          PROVE  f(k)[x] = IF x = r THEN Reloaded(v, f(k - 1)) ELSE f(k - 1)[x]
      <4>1. f(k)[x] = IF x = r \/ Before(x, k - 1) THEN Reloaded(owner(x), file) ELSE file[x]
        <5> HIDE DEF Before, owner
        <5> QED BY <2>4
      <4>2. f(k - 1)[x] = IF Before(x, k - 1) THEN Reloaded(owner(x), file) ELSE file[x]
        OBVIOUS
      <4> HIDE DEF f, Before, owner
      <4> QED BY <2>2, <2>6, <4>1, <4>2
    <3> HIDE DEF Before, owner
    <3> QED BY <3>1
  <2>8. loads[k] = Reload(v, r)
    BY <1>4, <2>1, <2>2
  <2>9. PICK s : s = [file |-> f(k - 1), reads |-> reads]
    OBVIOUS
  <2>10. s.file = f(k - 1) /\ s.reads = reads
    BY <2>9
  <2> HIDE DEF f, loads, Before, owner
  <2>11. /\ Clean(Reload(v, r), f(k - 1))
         /\ Follow(Reload(v, r), s, t)
              = [file |-> [x \in Int |-> IF x = r THEN Reloaded(v, f(k - 1)) ELSE f(k - 1)[x]], reads |-> s.reads]
    BY <2>1, <2>2, <2>3, <2>10, ReloadIs
  <2> QED BY <2>7, <2>8, <2>9, <2>10, <2>11
<1>7. Goes(loads, t, [file |-> file, reads |-> reads], h[n])
  <2>1. h[0] = [file |-> file, reads |-> reads]
    <3>1. \A x \in Int : ~ Before(x, 0)
      OBVIOUS
    <3>2. f(0) = [x \in Int |-> file[x]]
      <4> HIDE DEF Before, owner
      <4> QED BY <3>1
    <3>3. f(0) = file
      <4> HIDE DEF f
      <4> QED BY <3>2 DEF Files
    <3> HIDE DEF f
    <3> QED BY <1>1, <3>3
  <2>2. ASSUME NEW k \in 1 .. n
        PROVE  Clean(loads[k], h[k - 1].file) /\ h[k] = Follow(loads[k], h[k - 1], t)
    <3>1. h[k] = [file |-> f(k), reads |-> reads] /\ h[k - 1] = [file |-> f(k - 1), reads |-> reads]
      <4> HIDE DEF f
      <4> QED OBVIOUS
    <3>2. h[k - 1].file = f(k - 1)
      <4> HIDE DEF f, h
      <4> QED BY <3>1
    <3> HIDE DEF f, h, loads
    <3> QED BY <1>6, <3>1, <3>2
  <2> HIDE DEF h, loads
  <2> QED BY <1>4, <2>1, <2>2 DEF Goes
<1>8. h[n].file = f(n) /\ h[n].reads = reads
  <2> HIDE DEF f
  <2> QED BY <1>1
<1>9. ASSUME NEW v \in S PROVE f(n)[to[v]] = Reloaded(v, file)
  <2>1. to[v] \in Int /\ Before(to[v], n) /\ owner(to[v]) = v
    BY <1>2, <1>3, PhysicalIs
  <2> HIDE DEF Before, owner
  <2> QED BY <2>1
<1>10. ASSUME NEW x \in Int, \A v \in S : x # to[v] PROVE f(n)[x] = file[x]
  <2>1. ~ Before(x, n)
    BY <1>3, <1>10
  <2> HIDE DEF Before, owner
  <2> QED BY <2>1
<1>11. LoadsDone(S, to, file, h[n])
  <2>1. f(n) \in Files
    <3> HIDE DEF f
    <3> QED BY <1>1, <1>5
  <2> HIDE DEF h, f
  <2> QED BY <1>8, <1>9, <1>10, <2>1 DEF LoadsDone
<1> HIDE DEF h
<1>12. Loaded(q, t, S, to, file, reads, h[n])
  BY <1>7, <1>8, <1>11 DEF Loaded
<1> QED BY <1>12

-----------------------------------------------------------------------------
(* A rewritten instruction does what it did *)

LEMMA SubstituteIs ==
  ASSUME NEW N \in SUBSET (Nat \ {0}), NEW i \in Instrs(N), NEW map
  PROVE  LET j == Substitute(i, map)
         IN  /\ j.op = i.op /\ j.imp = i.imp /\ j.slot = i.slot /\ j.id = i.id
             /\ j.def = {IF d \in DOMAIN map THEN map[d] ELSE d : d \in i.def}
             /\ j.uses = [k \in DOMAIN i.uses |->
                            IF i.uses[k] \in DOMAIN map THEN map[i.uses[k]] ELSE i.uses[k]]
             /\ DOMAIN j = {"op", "def", "uses", "imp", "slot", "id"}
BY DEF Substitute, Instrs

\* H, of the rewritten function, holds what G does of the one before: the spilled
\* registers in their slots, but for the constants that are made again.
Matches(G, H) ==
  /\ \A r \in Physical \cup regs : ~ Remade(r) /\ G[r] # Poison => H[r] = G[r]
  /\ \A v \in spills : Rematerializable(v) /\ G[v] # Poison => G[v] = Value("imm", RematDef(v).id, 0)

\* From H, instrs reads and leaves what i does from G.
Replaces(instrs, i, t, G, H, reads, u) ==
  /\ Goes(instrs, t, [file |-> H, reads |-> reads], u)
  /\ u.file \in Files
  /\ u.reads = Seen(i, [file |-> G, reads |-> reads])
  /\ Matches(StrictStep(i, G, t), u.file)

\* A constant that is made again needs no definition.
LEMMA DropOne ==
  ASSUME CodeOK, spills \subseteq regs, NEW p \in Sites,
         NEW d \in SpilledDefs(At(p)), Rematerializable(d),
         NEW G \in Files, NEW H \in Files, NEW t \in Nat, Matches(G, H), NEW reads
  PROVE  \E u : Replaces(<< >>, At(p), t, G, H, reads, u)
<1>1. PICK i : i = At(p) /\ i \in Instrs(regs) /\ d \in i.def /\ d \in spills
  BY SiteIs DEF SpilledDefs
<1>2. i = RematDef(d) /\ i.op = "imm"
  BY <1>1, RematIs
<1>3. \A c \in i.def : c = d
  BY <1>1, InstrIs DEF CodeOK
<1>4. PICK G1 : G1 = StrictStep(i, G, t)
  OBVIOUS
<1>5. G1 = [r \in Int |-> IF r = d THEN Value("imm", i.id, 0) ELSE IF r \in Harmed(i) THEN Poison ELSE G[r]]
  BY <1>1, <1>2, <1>3, <1>4 DEF StrictStep, Result
<1>6. Physical \cup regs \subseteq Int
  <2>1. Physical \subseteq Int /\ regs \subseteq Int
    BY PhysicalIs DEF CodeOK
  <2> QED BY <2>1
<1>7. Remade(d)
  BY <1>1 DEF Remade
<1>8. Matches(G1, H)
  <2>1. ASSUME NEW r \in Physical \cup regs, ~ Remade(r), G1[r] # Poison PROVE H[r] = G1[r]
    <3>1. r \in Int /\ r # d
      BY <1>6, <1>7, <2>1
    <3>2. G1[r] = G[r]
      BY <1>5, <2>1, <3>1
    <3> QED BY <2>1, <3>2 DEF Matches
  <2>2. ASSUME NEW v \in spills, Rematerializable(v), G1[v] # Poison
        PROVE  G1[v] = Value("imm", RematDef(v).id, 0)
    <3>1. v \in Int
      BY <1>6
    <3>2. CASE v = d
      BY <1>2, <1>5, <3>1, <3>2
    <3>3. CASE v # d
      <4>1. G1[v] = G[v]
        BY <1>5, <2>2, <3>1, <3>3
      <4> QED BY <2>2, <4>1 DEF Matches
    <3> QED BY <3>2, <3>3
  <2> QED BY <2>1, <2>2 DEF Matches
<1>9. Seen(i, [file |-> G, reads |-> reads]) = reads
  BY <1>2 DEF Seen, Silent
<1> DEFINE u == [file |-> H, reads |-> reads]
<1>10. Goes(<< >>, t, u, u)
  BY GoesNowhere
<1>11. Replaces(<< >>, At(p), t, G, H, reads, u)
  BY <1>1, <1>4, <1>8, <1>9, <1>10 DEF Replaces
<1> QED BY <1>11

LEMMA SubstituteTyped ==
  ASSUME NEW N \in SUBSET (Nat \ {0}), NEW M \in SUBSET (Nat \ {0}), N \subseteq M,
         NEW i \in Instrs(N), NEW map, \A d \in DOMAIN map : map[d] \in Physical \cup M
  PROVE  Substitute(i, map) \in Instrs(M)
<1>1. PICK j : j = Substitute(i, map)
  OBVIOUS
<1>2. /\ j.op = i.op /\ j.imp = i.imp /\ j.slot = i.slot /\ j.id = i.id
      /\ j.def = {IF d \in DOMAIN map THEN map[d] ELSE d : d \in i.def}
      /\ j.uses = [k \in DOMAIN i.uses |->
                     IF i.uses[k] \in DOMAIN map THEN map[i.uses[k]] ELSE i.uses[k]]
  BY <1>1, SubstituteIs
<1>3. j = [op |-> j.op, def |-> j.def, uses |-> j.uses, imp |-> j.imp, slot |-> j.slot, id |-> j.id]
  BY <1>1 DEF Substitute, Instrs
<1>4. /\ i.def \subseteq Physical \cup N /\ \A c, d \in i.def : c = d
      /\ i.uses \in Seq(Physical \cup N)
      /\ i.imp \subseteq Physical /\ i.slot \in N \cup {0} /\ i.id \in Int /\ i.op \in Kinds
      /\ i.op \in {"imm", "load"} => i.uses = << >>
      /\ i.op \in {"move", "store"} => Len(i.uses) = 1
      /\ i.op = "store" => i.def = {}
      /\ i.op \in {"load", "store"} => i.slot \in N
  BY InstrIs
<1>5. j.def \in SUBSET (Physical \cup M) /\ \A c, d \in j.def : c = d
  <2>1. \A d \in i.def : (IF d \in DOMAIN map THEN map[d] ELSE d) \in Physical \cup M
    BY <1>4
  <2> QED BY <1>2, <1>4, <2>1
<1>6. PICK n \in Nat : n = Len(i.uses) /\ DOMAIN i.uses = 1 .. n /\ \A k \in 1 .. n : i.uses[k] \in Physical \cup N
  BY <1>4
<1>7. j.uses \in Seq(Physical \cup M) /\ Len(j.uses) = n /\ (n = 0 => j.uses = << >>)
  <2>1. ASSUME NEW k \in 1 .. n
        PROVE  (IF i.uses[k] \in DOMAIN map THEN map[i.uses[k]] ELSE i.uses[k]) \in Physical \cup M
    BY <1>6
  <2>2. j.uses \in [1 .. n -> Physical \cup M]
    BY <1>2, <1>6, <2>1
  <2> QED BY <2>2
<1>8. /\ j.op \in {"imm", "load"} => j.uses = << >>
      /\ j.op \in {"move", "store"} => Len(j.uses) = 1
      /\ j.op = "store" => j.def = {}
      /\ j.op \in {"load", "store"} => j.slot # 0
  BY <1>2, <1>4, <1>6, <1>7
<1>9. j \in [op : Kinds, def : SUBSET (Physical \cup M), uses : Seq(Physical \cup M),
             imp : SUBSET Physical, slot : M \cup {0}, id : Int]
  <2>1. j.slot \in M \cup {0} /\ j.imp \in SUBSET Physical /\ j.op \in Kinds /\ j.id \in Int
    BY <1>2, <1>4
  <2> QED BY <1>3, <1>5, <1>7, <2>1
<1>10. j \in Instrs(M)
  BY <1>5, <1>8, <1>9 DEF Instrs
<1> QED BY <1>1, <1>10

\* The makings of an instruction.
LEMMA MadeTyped ==
  ASSUME NEW M \in SUBSET (Nat \ {0}), NEW op \in {"imm", "load", "store"},
         NEW def \in SUBSET (Physical \cup M), \A c, d \in def : c = d,
         NEW uses \in Seq(Physical \cup M), NEW imp \in SUBSET Physical,
         NEW slot \in M \cup {0}, NEW id \in Int,
         op \in {"imm", "load"} => uses = << >>,
         op = "store" => Len(uses) = 1 /\ def = {},
         op \in {"load", "store"} => slot # 0
  PROVE  [op |-> op, def |-> def, uses |-> uses, imp |-> imp, slot |-> slot, id |-> id] \in Instrs(M)
<1> DEFINE i == [op |-> op, def |-> def, uses |-> uses, imp |-> imp, slot |-> slot, id |-> id]
<1>1. /\ i.op = op /\ i.def = def /\ i.uses = uses /\ i.imp = imp /\ i.slot = slot /\ i.id = id
  OBVIOUS
<1>3. i \in [op : Kinds, def : SUBSET (Physical \cup M), uses : Seq(Physical \cup M),
             imp : SUBSET Physical, slot : M \cup {0}, id : Int]
  BY DEF Kinds
<1> HIDE DEF i
<1>4. /\ \A c, d \in i.def : c = d
      /\ i.op \in {"imm", "load"} => i.uses = << >>
      /\ i.op \in {"move", "store"} => Len(i.uses) = 1
      /\ i.op = "store" => i.def = {}
      /\ i.op \in {"load", "store"} => i.slot # 0
  BY <1>1
<1>5. i \in Instrs(M)
  BY <1>3, <1>4 DEF Instrs
<1> QED BY <1>5 DEF i

LEMMA SlotTyped ==
  ASSUME NEW M \in SUBSET (Nat \ {0}), NEW r \in Physical \cup M, NEW v \in M
  PROVE  LoadSlot(r, v) \in Instrs(M) /\ StoreSlot(r, v) \in Instrs(M)
<1>1. v # 0 /\ v \in M \cup {0} /\ 0 \in Int
  BY NameIs
<1>2. /\ <<r>> \in Seq(Physical \cup M) /\ << >> \in Seq(Physical \cup M) /\ Len(<<r>>) = 1
      /\ {r} \in SUBSET (Physical \cup M) /\ {} \in SUBSET (Physical \cup M) /\ {} \in SUBSET Physical
      /\ (\A c, d \in {r} : c = d) /\ (\A c, d \in {} : c = d)
  OBVIOUS
<1>3. LoadSlot(r, v) \in Instrs(M)
  <2>1. /\ "load" \in {"imm", "load", "store"} /\ "load" # "store"
    OBVIOUS
  <2>2. [op |-> "load", def |-> {r}, uses |-> << >>, imp |-> {}, slot |-> v, id |-> 0] \in Instrs(M)
    BY <1>1, <1>2, <2>1, MadeTyped
  <2> QED BY <2>2 DEF LoadSlot
<1>4. StoreSlot(r, v) \in Instrs(M)
  <2>1. /\ "store" \in {"imm", "load", "store"} /\ "store" \notin {"imm", "load"}
    OBVIOUS
  <2>2. [op |-> "store", def |-> {}, uses |-> <<r>>, imp |-> {}, slot |-> v, id |-> 0] \in Instrs(M)
    BY <1>1, <1>2, <2>1, MadeTyped
  <2> QED BY <2>2 DEF StoreSlot
<1> QED BY <1>3, <1>4

LEMMA ReloadTyped ==
  ASSUME CodeOK, NEW M \in SUBSET (Nat \ {0}), regs \subseteq M, NEW r \in Physical \cup M, NEW v \in regs
  PROVE  Reload(v, r) \in Instrs(M)
<1>1. CASE Rematerializable(v)
  <2>1. PICK d : d = RematDef(v) /\ d \in Instrs(regs) /\ d.op = "imm"
    BY <1>1, RematIs
  <2>2. PICK j : j = [d EXCEPT !.def = {r}]
    OBVIOUS
  <2>3. /\ d.uses = << >> /\ d.imp \subseteq Physical /\ d.slot \in regs \cup {0} /\ d.id \in Int
    BY <2>1, InstrIs DEF CodeOK
  <2>4. j = [op |-> "imm", def |-> {r}, uses |-> << >>, imp |-> d.imp, slot |-> d.slot, id |-> d.id]
    BY <2>1, <2>2, <2>3 DEF Instrs
  <2>5. << >> \in Seq(Physical \cup M) /\ {r} \in SUBSET (Physical \cup M) /\ (\A c, e \in {r} : c = e)
    OBVIOUS
  <2>6. "imm" \in {"imm", "load", "store"} /\ "imm" # "store" /\ "imm" # "load"
    OBVIOUS
  <2>7. d.imp \in SUBSET Physical /\ d.slot \in M \cup {0}
    BY <2>3
  <2>8. j \in Instrs(M)
    BY <2>3, <2>4, <2>5, <2>6, <2>7, MadeTyped
  <2> QED BY <1>1, <2>1, <2>2, <2>8 DEF Reload
<1>2. CASE ~ Rematerializable(v)
  <2>1. v \in M
    OBVIOUS
  <2> QED BY <1>2, <2>1, SlotTyped DEF Reload
<1> QED BY <1>1, <1>2

\* The other instructions: reloads before, the instruction over their registers,
\* and a store after.
LEMMA KeepOne ==
  ASSUME CodeOK, spills \subseteq regs, NEW p \in Sites,
         \A d \in SpilledDefs(At(p)) : ~ Rematerializable(d),
         Cardinality(SpilledUses(At(p))) <= Len(Pool(At(p))),
         NEW G \in Files, NEW H \in Files, NEW t \in Nat, Matches(G, H), NEW reads,
         Clean(At(p), G)
  PROVE  \E u : Replaces(RewriteAt(p), At(p), t, G, H, reads, u)
<1>1. PICK i : i = At(p) /\ i \in Instrs(regs)
  BY SiteIs
<1>2. PICK to : to = Replacement(p)
  OBVIOUS
<1>3. PICK used, made : used = SpilledUses(i) /\ made = SpilledDefs(i)
  OBVIOUS
<1>4. /\ used = UseSet(i) \cap spills /\ made = i.def \cap spills
      /\ used \in SUBSET spills /\ made \in SUBSET spills
      /\ used \in SUBSET regs /\ made \in SUBSET regs
  BY <1>3 DEF SpilledUses, SpilledDefs
<1>5. /\ DOMAIN to = used \cup made
      /\ \A v \in used : to[v] \in Range(Scratch) /\ to[v] \notin UseSet(i) \cup i.def \cup i.imp
      /\ \A v, w \in used : to[v] = to[w] => v = w
      /\ \A v \in made : to[v] \in Range(Scratch) \cup FreshAt(p)
  BY <1>1, <1>2, <1>3, ReplacementIs
<1>6. /\ i.def \subseteq Int /\ \A c, d \in i.def : c = d
      /\ i.imp \subseteq Physical /\ UseSet(i) \subseteq Physical \cup regs
      /\ \A k \in DOMAIN i.uses : i.uses[k] \in UseSet(i) /\ i.uses[k] \in Int
      /\ i.op \in {"move", "store"} => 1 \in DOMAIN i.uses
      /\ i.op = "store" => i.def = {}
      /\ i.op \in {"load", "store"} => i.slot \in regs
      /\ i.def \subseteq Physical \cup regs
  <2>1. regs \in SUBSET (Nat \ {0})
    BY DEF CodeOK
  <2>2. i.def \subseteq Physical \cup regs /\ i.def \subseteq Int
    BY <1>1, <2>1, InstrIs
  <2>5. \A c, d \in i.def : c = d
    BY <1>1, <2>1, InstrIs
  <2>6. i.imp \subseteq Physical
    BY <1>1, <2>1, InstrIs
  <2>7. UseSet(i) \subseteq Physical \cup regs
    BY <1>1, <2>1, InstrIs
  <2>3. \A k \in DOMAIN i.uses : i.uses[k] \in UseSet(i) /\ i.uses[k] \in Int
    BY <1>1, <2>1, InstrIs
  <2>4. /\ i.op \in {"move", "store"} => 1 \in DOMAIN i.uses
        /\ i.op = "store" => i.def = {}
        /\ i.op \in {"load", "store"} => i.slot \in regs
    BY <1>1, <2>1, InstrIs
  <2> QED BY <2>2, <2>3, <2>4, <2>5, <2>6, <2>7
<1>7. PICK j : j = Substitute(i, to)
  OBVIOUS
<1>8. /\ j.op = i.op /\ j.imp = i.imp /\ j.slot = i.slot /\ j.id = i.id
      /\ j.def = {IF d \in DOMAIN to THEN to[d] ELSE d : d \in i.def}
      /\ j.uses = [k \in DOMAIN i.uses |-> IF i.uses[k] \in DOMAIN to THEN to[i.uses[k]] ELSE i.uses[k]]
  BY <1>1, <1>7, SubstituteIs DEF CodeOK
<1>9. \A r \in Physical \cup regs : r \in Int /\ (r \in Physical => r \notin regs)
  <2>1. \A v \in regs : v \in Int /\ v \notin Physical
    BY NameIs DEF CodeOK
  <2> QED BY <2>1, PhysicalIs
\* What is harmed where registers are replaced.
<1>10. /\ used # {} \/ made # {} => Range(Scratch) \subseteq Harmed(i)
       /\ \A v \in spills : Virtual(v)
  <2>1. \A v \in spills : Virtual(v)
    BY NameIs DEF CodeOK
  <2>2. used \subseteq VirtualUses(i) /\ made \subseteq VirtualDefs(i)
    BY <1>4, <2>1 DEF VirtualUses, VirtualDefs
  <2> QED BY <2>1, <2>2 DEF Harmed
\* The reloads.
<1>11. PICK loads : loads = Ascending(used) /\ Lists(loads, used)
  BY <1>4, SpilledFinite, AscendingLists
<1>12. PICK before1 : before1 = [k \in DOMAIN loads |-> Reload(loads[k], to[loads[k]])]
  OBVIOUS
<1>13. PICK u1 : Loaded(loads, t, used, to, H, reads, u1)
  <2>1. \A v \in used : to[v] \in Physical
    BY <1>5, PhysicalIs
  <2>2. \A v, w \in used : to[v] = to[w] => v = w
    BY <1>5
  <2> QED BY <1>4, <1>11, <2>1, <2>2, LoadsGo
<1>42. /\ Goes(before1, t, [file |-> H, reads |-> reads], u1)
       /\ u1.reads = reads /\ LoadsDone(used, to, H, u1)
  BY <1>12, <1>13 DEF Loaded
<1>14. PICK H1 : H1 = u1.file /\ H1 \in Files
  BY <1>42 DEF LoadsDone
<1>15. ASSUME NEW v \in used, G[v] # Poison PROVE H1[to[v]] = G[v]
  <2>1. H1[to[v]] = Reloaded(v, H)
    BY <1>42, <1>14 DEF LoadsDone
  <2>2. v \in spills /\ v \in regs
    BY <1>4
  <2>3. CASE Rematerializable(v)
    BY <1>15, <2>1, <2>2, <2>3 DEF Reloaded, Matches
  <2>4. CASE ~ Rematerializable(v)
    BY <1>15, <2>1, <2>2, <2>4 DEF Reloaded, Matches, Remade
  <2> QED BY <2>3, <2>4
<1>16. ASSUME NEW r \in Physical \cup regs, \A v \in used : r # to[v], ~ Remade(r), G[r] # Poison
       PROVE  H1[r] = G[r]
  <2>1. H1[r] = H[r]
    BY <1>9, <1>42, <1>14, <1>16 DEF LoadsDone
  <2> QED BY <1>16, <2>1 DEF Matches
<1>17. ASSUME NEW k \in DOMAIN i.uses, G[i.uses[k]] # Poison PROVE H1[j.uses[k]] = G[i.uses[k]]
  <2>1. i.uses[k] \in UseSet(i) /\ i.uses[k] \in Physical \cup regs
    BY <1>6
  <2>2. CASE i.uses[k] \in used
    BY <1>5, <1>8, <1>15, <1>17, <2>2
  <2>3. CASE i.uses[k] \notin used
    <3>1. i.uses[k] \notin spills
      BY <1>4, <2>1, <2>3
    <3>2. j.uses[k] = i.uses[k]
      BY <1>4, <1>5, <1>8, <3>1
    <3>3. \A v \in used : i.uses[k] # to[v]
      BY <1>5, <2>1
    <3> QED BY <1>16, <1>17, <2>1, <3>1, <3>2, <3>3 DEF Remade
  <2> QED BY <2>2, <2>3
<1>18. ASSUME NEW r \in i.imp, G[r] # Poison PROVE H1[r] = G[r]
  <2>1. r \in Physical \cup regs /\ r \notin spills
    BY <1>6, <1>9
  <2> QED BY <1>5, <1>16, <1>18, <2>1 DEF Remade
\* The instruction itself.
<1>19. Clean(j, H1) /\ Seen(j, [file |-> H1, reads |-> reads]) = Seen(i, [file |-> G, reads |-> reads])
  <2>1. CASE i.op \in Silent
    BY <1>8, <2>1 DEF Clean, Seen
  <2>2. CASE i.op \notin Silent
    <3>1. \A r \in UseSet(i) \cup i.imp : G[r] # Poison
      BY <1>1, <2>2 DEF Clean
    <3>2. \A k \in DOMAIN i.uses : H1[j.uses[k]] = G[i.uses[k]] /\ G[i.uses[k]] # Poison
      BY <1>6, <1>17, <3>1
    <3>3. DOMAIN j.uses = DOMAIN i.uses
      BY <1>8
    <3>4. \A r \in UseSet(j) : H1[r] # Poison
      BY <3>2, <3>3 DEF UseSet, Range
    <3>5. \A r \in i.imp : H1[r] = G[r] /\ G[r] # Poison
      BY <1>18, <3>1
    <3>6. Clean(j, H1)
      BY <1>8, <3>4, <3>5 DEF Clean
    <3>7. [k \in DOMAIN j.uses |-> H1[j.uses[k]]] = [k \in DOMAIN i.uses |-> G[i.uses[k]]]
      BY <3>2, <3>3
    <3>8. [r \in j.imp |-> H1[r]] = [r \in i.imp |-> G[r]]
      BY <1>8, <3>5
    <3> QED BY <1>8, <2>2, <3>6, <3>7, <3>8 DEF Seen
  <2> QED BY <2>1, <2>2
<1>20. PICK H2 : H2 = StrictStep(j, H1, t)
  OBVIOUS
<1>21. \A v \in regs : (\E q \in Sites : At(q).op \in {"load", "store"} /\ v = At(q).slot) => ~ Rematerializable(v)
  <2> SUFFICES ASSUME NEW v \in regs, NEW q \in Sites, At(q).op \in {"load", "store"}, v = At(q).slot,
                      Rematerializable(v)
               PROVE  FALSE
    OBVIOUS
  <2>1. PICK x \in Sites : v \in At(x).def
    BY DEF Rematerializable, DefSites
  <2> QED BY <2>1 DEF CodeOK, SlotsApart
<1>22. Result(i, G, t) # Poison => Result(j, H1, t) = Result(i, G, t)
  <2>1. CASE i.op = "move"
    BY <1>6, <1>8, <1>17, <2>1 DEF Result
  <2>2. CASE i.op = "load"
    <3>1. i.slot \in regs /\ ~ Remade(i.slot)
      BY <1>1, <1>6, <1>21, <2>2 DEF Remade
    <3>2. \A v \in used : i.slot # to[v]
      BY <1>5, <1>9, <3>1, PhysicalIs
    <3> QED BY <1>8, <1>16, <2>2, <3>1, <3>2 DEF Result
  <2>3. CASE i.op \notin {"move", "load"}
    BY <1>8, <2>3 DEF Result
  <2> QED BY <2>1, <2>2, <2>3
<1>23. /\ \A r \in Int : r \in j.def => H2[r] = Result(j, H1, t)
       /\ \A r \in Int : r \notin j.def /\ ~ (i.op = "store" /\ r = i.slot) /\ r \notin Harmed(j) => H2[r] = H1[r]
       /\ \A r \in Int : r \notin j.def /\ i.op = "store" /\ r = i.slot => H2[r] = H1[j.uses[1]]
  BY <1>8, <1>20 DEF StrictStep
<1>24. Harmed(j) \subseteq Harmed(i)
  <2>1. Lost(j) = Lost(i)
    BY <1>8 DEF Lost
  <2>2. VirtualDefs(j) # {} => VirtualDefs(i) # {}
    BY <1>4, <1>5, <1>8, <1>10 DEF VirtualDefs
  <2>3. VirtualUses(j) # {} => VirtualUses(i) # {} \/ VirtualDefs(i) # {}
    <3> SUFFICES ASSUME NEW x \in VirtualUses(j) PROVE VirtualUses(i) # {} \/ VirtualDefs(i) # {}
      OBVIOUS
    <3>1. PICK k \in DOMAIN i.uses : x = j.uses[k] /\ Virtual(x)
      BY <1>8 DEF VirtualUses, UseSet, Range
    <3>2. CASE i.uses[k] \in DOMAIN to
      <4>1. i.uses[k] \in spills
        BY <1>4, <1>5, <3>2
      <4> QED BY <1>6, <1>10, <4>1 DEF VirtualUses
    <3>3. CASE i.uses[k] \notin DOMAIN to
      <4>1. x = i.uses[k]
        BY <1>8, <3>1, <3>3
      <4> QED BY <1>6, <3>1, <4>1 DEF VirtualUses
    <3> QED BY <3>2, <3>3
  <2> QED BY <1>8, <2>1, <2>2, <2>3 DEF Harmed
\* The store of a spilled result.
<1>25. PICK stores : stores = [k \in DOMAIN Ascending(made) |-> StoreSlot(to[Ascending(made)[k]], Ascending(made)[k])]
  OBVIOUS
<1>26. PICK u2 : u2 = Follow(j, u1, t)
  OBVIOUS
<1>27. u2.file = H2 /\ u2.reads = Seen(i, [file |-> G, reads |-> reads]) /\ Goes(<<j>>, t, u1, u2)
  <2>1. u2.file = H2
    BY <1>14, <1>20, <1>26 DEF Follow
  <2>2. Seen(j, u1) = Seen(j, [file |-> H1, reads |-> reads])
    BY <1>42, <1>14 DEF Seen
  <2> QED BY <1>14, <1>19, <1>26, <2>1, <2>2, GoesOne DEF Follow
<1>28. /\ made = {} => stores = << >>
       /\ \A d \in made : stores = <<StoreSlot(to[d], d)>>
  <2>1. Lists(Ascending(made), made)
    BY <1>4, SpilledFinite, AscendingLists
  <2>2. PICK a, n : a = Ascending(made) /\ n = Cardinality(made) /\ n \in Nat /\ a \in [1 .. n -> made]
    BY <2>1 DEF Lists
  <2>3. made = {} => n = 0
    BY <2>2, FS_EmptySet
  <2>4. ASSUME NEW d \in made PROVE stores = <<StoreSlot(to[d], d)>>
    <3>1. made = {d}
      BY <1>4, <1>6
    <3>2. n = 1
      BY <2>2, <3>1, FS_Singleton
    <3>3. a \in [1 .. 1 -> {d}]
      BY <2>2, <3>1, <3>2
    <3>4. stores = [k \in DOMAIN a |-> StoreSlot(to[a[k]], a[k])]
      BY <1>25, <2>2
    <3>5. DOMAIN a = 1 .. 1 /\ \A k \in 1 .. 1 : a[k] = d
      BY <3>3
    <3>6. stores = [k \in 1 .. 1 |-> StoreSlot(to[d], d)]
      BY <3>4, <3>5
    <3> QED BY <3>6
  <2>5. made = {} => stores = << >>
    BY <1>25, <2>2, <2>3
  <2> QED BY <2>4, <2>5
<1>29. PICK u3 : /\ Goes(stores, t, u2, u3) /\ u3.reads = u2.reads
                 /\ made = {} => u3.file = H2
                 /\ \A d \in made : u3.file = StrictStep(StoreSlot(to[d], d), H2, t)
  <2>1. CASE made = {}
    <3>1. Goes(stores, t, u2, u2)
      BY <1>28, <2>1, GoesNowhere
    <3> QED BY <1>27, <2>1, <3>1
  <2>2. CASE made # {}
    <3>1. PICK d \in made : TRUE
      BY <2>2
    <3>2. PICK i3 : i3 = StoreSlot(to[d], d)
      OBVIOUS
    <3>8. i3.op = "store"
      BY <3>2 DEF StoreSlot
    <3>3. Clean(i3, u2.file) /\ Seen(i3, u2) = u2.reads
      BY <3>8 DEF Clean, Seen, Silent
    <3>4. PICK u4 : u4 = Follow(i3, u2, t)
      OBVIOUS
    <3>5. Goes(stores, t, u2, u4)
      BY <1>28, <3>1, <3>2, <3>3, <3>4, GoesOne
    <3>6. u4.file = StrictStep(i3, H2, t) /\ u4.reads = u2.reads
      BY <1>27, <3>3, <3>4 DEF Follow
    <3>7. made = {d}
      BY <1>4, <1>6
    <3> QED BY <2>2, <3>2, <3>5, <3>6, <3>7
  <2> QED BY <2>1, <2>2
<1>30. PICK H3 : H3 = u3.file
  OBVIOUS
<1>31. /\ \A d \in made : H3[d] = H2[to[d]]
       /\ \A r \in Int : r \notin made /\ (made = {} \/ r \notin Range(Scratch)) => H3[r] = H2[r]
  <2>1. CASE made = {}
    BY <1>29, <1>30, <2>1
  <2>2. CASE made # {}
    <3>1. PICK d \in made : made = {d} /\ d \in Int
      BY <1>4, <1>6, <2>2
    <3>2. PICK i3 : i3 = StoreSlot(to[d], d)
      OBVIOUS
    <3>3. i3.op = "store" /\ i3.def = {} /\ i3.uses = <<to[d]>> /\ i3.slot = d
      BY <3>2 DEF StoreSlot
    <3>4. Harmed(i3) \subseteq Range(Scratch)
      BY <3>3 DEF Harmed, Lost, VirtualDefs
    <3>5. H3 = StrictStep(i3, H2, t)
      BY <1>29, <1>30, <3>2
    <3> QED BY <3>1, <3>3, <3>4, <3>5 DEF StrictStep
  <2> QED BY <2>1, <2>2

<1>32. H3 \in Files
  <2> DEFINE M == regs \cup FreshAt(p)
  <2>1. M \in SUBSET (Nat \ {0}) /\ regs \subseteq M
    <3>1. regs # {} \/ FreshAt(p) = {}
      <4>1. CASE spills # {}
        BY <4>1
      <4>2. CASE spills = {}
        <5>1. used = {} /\ made = {}
          BY <1>4, <4>2
        <5>2. Replaced(i) = << >>
          <6>1. Lists(Ascending({}), {})
            BY SpilledFinite, AscendingLists
          <6>2. Ascending({}) = << >>
            BY <6>1, FS_EmptySet DEF Lists
          <6>3. SpilledUses(i) = {} /\ SpilledDefs(i) \ SpilledUses(i) = {}
            BY <1>3, <5>1
          <6> QED BY <6>2, <6>3 DEF Replaced
        <5>3. ~ \E k \in 1 .. Len(Replaced(i)) - Len(Pool(i)) : TRUE
          <6>1. Len(Replaced(i)) = 0
            BY <5>2
          <6> QED BY <6>1, PoolIs
        <5> QED BY <1>1, <5>3 DEF FreshAt
      <4> QED BY <4>1, <4>2
    <3>2. \A r \in FreshAt(p) : r \in Nat \ {0}
      BY <3>1, FreshIs
    <3> QED BY <3>2 DEF CodeOK
  <2>2. \A d \in DOMAIN to : to[d] \in Physical \cup M
    BY <1>5, PhysicalIs
  <2> HIDE DEF M
  <2>3. j \in Instrs(M)
    BY <1>1, <1>7, <2>1, <2>2, SubstituteTyped DEF CodeOK
  <2>4. H2 \in Files
    BY <1>14, <1>20, <2>1, <2>3, StrictTyped
  <2>5. CASE made = {}
    BY <1>29, <1>30, <2>4, <2>5
  <2>6. CASE made # {}
    <3>1. PICK d \in made : d \in M /\ to[d] \in Physical \cup M
      BY <1>4, <1>5, <2>1, <2>2, <2>6
    <3>2. StoreSlot(to[d], d) \in Instrs(M)
      BY <2>1, <3>1, SlotTyped
    <3> QED BY <1>29, <1>30, <2>1, <2>4, <3>1, <3>2, StrictTyped
  <2> QED BY <2>5, <2>6
\* What holds afterwards.
<1>33. PICK G1 : G1 = StrictStep(i, G, t)
  OBVIOUS
<1>34. /\ \A r \in Int : r \in i.def => G1[r] = Result(i, G, t)
       /\ \A r \in Int : r \notin i.def /\ i.op = "store" /\ r = i.slot => G1[r] = G[i.uses[1]]
       /\ \A r \in Int : r \notin i.def /\ ~ (i.op = "store" /\ r = i.slot) /\ G1[r] # Poison
                           => r \notin Harmed(i) /\ G1[r] = G[r]
  BY <1>33 DEF StrictStep
\* What i neither defines nor harms is out of the way of its replacement.
<1>35. ASSUME NEW r \in Physical \cup regs, r \notin i.def, r \notin Harmed(i)
       PROVE  /\ r \notin j.def /\ r \notin Harmed(j) /\ \A v \in used : r # to[v]
              /\ r \notin made /\ (made = {} \/ r \notin Range(Scratch))
  <2>1. used # {} \/ made # {} => r \notin Range(Scratch)
    BY <1>10, <1>35
  <2>2. \A v \in used : r # to[v]
    BY <1>5, <2>1
  <2>3. r \notin FreshAt(p) \/ made = {}
    <3> SUFFICES ASSUME r \in FreshAt(p), made # {} PROVE FALSE
      OBVIOUS
    <3>1. regs # {}
      BY <1>4
    <3> QED BY <3>1, FreshIs
  <2>4. r \notin j.def
    <3> SUFFICES ASSUME r \in j.def PROVE FALSE
      OBVIOUS
    <3>1. PICK d \in i.def : r = IF d \in DOMAIN to THEN to[d] ELSE d
      BY <1>8
    <3>2. d \in DOMAIN to /\ r = to[d]
      BY <1>35, <3>1
    <3>3. d \in made
      BY <1>4, <1>5, <3>2
    <3> QED BY <1>5, <2>1, <2>3, <3>2, <3>3
  <2> QED BY <1>4, <1>24, <1>35, <2>1, <2>2, <2>4
<1>36. ASSUME NEW r \in Physical \cup regs, ~ Remade(r), G1[r] # Poison PROVE H3[r] = G1[r]
  <2>1. r \in Int
    BY <1>9
  <2>2. CASE r \in i.def
    <3>1. G1[r] = Result(i, G, t) /\ Result(j, H1, t) = G1[r]
      BY <1>22, <1>34, <1>36, <2>1, <2>2
    <3>2. CASE r \in spills
      <4>1. r \in made /\ to[r] \in j.def
        BY <1>4, <1>5, <1>8, <2>2, <3>2
      <4>2. to[r] \in Int
        <5>1. regs # {} /\ to[r] \in Range(Scratch) \cup FreshAt(p)
          BY <1>4, <1>5, <4>1
        <5> QED BY <5>1, FreshIs, PhysicalIs
      <4> QED BY <1>23, <1>31, <3>1, <4>1, <4>2
    <3>3. CASE r \notin spills
      <4>1. made = {} /\ r \notin DOMAIN to /\ r \in j.def
        BY <1>4, <1>5, <1>6, <1>8, <2>2, <3>3
      <4> QED BY <1>23, <1>31, <2>1, <3>1, <4>1
    <3> QED BY <3>2, <3>3
  <2>3. CASE i.op = "store" /\ r = i.slot
    <3>1. i.def = {} /\ made = {} /\ j.def = {} /\ 1 \in DOMAIN i.uses
      BY <1>4, <1>6, <1>8, <2>3
    <3>2. G1[r] = G[i.uses[1]] /\ H2[r] = H1[j.uses[1]]
      BY <1>23, <1>34, <2>1, <2>3, <3>1
    <3>3. H3[r] = H2[r]
      BY <1>31, <2>1, <3>1
    <3> QED BY <1>17, <1>36, <3>1, <3>2, <3>3
  <2>4. CASE r \notin i.def /\ ~ (i.op = "store" /\ r = i.slot)
    <3>1. r \notin Harmed(i) /\ G1[r] = G[r]
      BY <1>34, <1>36, <2>1, <2>4
    <3>2. /\ r \notin j.def /\ r \notin Harmed(j) /\ \A v \in used : r # to[v]
          /\ r \notin made /\ (made = {} \/ r \notin Range(Scratch))
      BY <1>35, <2>4, <3>1
    <3>3. H3[r] = H2[r] /\ H2[r] = H1[r]
      BY <1>23, <1>31, <2>1, <2>4, <3>2
    <3>4. H1[r] = G[r]
      BY <1>16, <1>36, <3>1, <3>2
    <3> QED BY <3>1, <3>3, <3>4
  <2> QED BY <2>2, <2>3, <2>4
<1>37. ASSUME NEW v \in spills, Rematerializable(v), G1[v] # Poison
       PROVE  G1[v] = Value("imm", RematDef(v).id, 0)
  <2>1. v \in regs /\ v \in Int
    BY <1>9
  <2>2. v \notin i.def
    BY <1>1, <1>3, <1>4, <1>37
  <2>3. ~ (i.op = "store" /\ v = i.slot)
    BY <1>1, <1>21, <1>37, <2>1
  <2>4. G1[v] = G[v]
    BY <1>34, <1>37, <2>1, <2>2, <2>3
  <2> QED BY <1>37, <2>4 DEF Matches
<1>38. Matches(G1, H3)
  BY <1>36, <1>37 DEF Matches
<1>39. RewriteAt(p) = before1 \o <<j>> \o stores
  BY <1>1, <1>2, <1>3, <1>7, <1>11, <1>12, <1>25 DEF RewriteAt
<1>40. Goes(before1 \o <<j>> \o stores, t, [file |-> H, reads |-> reads], u3)
  <2>1. PICK S : S = UNION {Range(before1), {j}, Range(stores)}
    OBVIOUS
  <2>2. before1 \in Seq(S)
    <3>1. PICK n \in Nat : loads \in [1 .. n -> used]
      BY <1>11 DEF Lists
    <3>2. before1 = [k \in 1 .. n |-> before1[k]] /\ DOMAIN before1 = 1 .. n
      BY <1>12, <3>1
    <3>3. \A k \in 1 .. n : before1[k] \in S
      BY <2>1, <3>2 DEF Range
    <3> QED BY <3>2, <3>3
  <2>3. <<j>> \in Seq(S)
    BY <2>1
  <2>4. stores \in Seq(S)
    <3>1. CASE made = {}
      BY <1>28, <3>1
    <3>2. CASE made # {}
      <4>1. PICK x : stores = <<x>>
        BY <1>28, <3>2
      <4>2. 1 \in DOMAIN stores /\ stores[1] = x
        BY <4>1
      <4>3. x \in S
        BY <2>1, <4>2 DEF Range
      <4> QED BY <4>1, <4>3
    <3> QED BY <3>1, <3>2
  <2>5. Goes(before1 \o <<j>>, t, [file |-> H, reads |-> reads], u2)
    BY <1>42, <1>27, <2>2, <2>3, GoesOn
  <2>6. before1 \o <<j>> \in Seq(S)
    BY <2>2, <2>3
  <2> QED BY <1>29, <2>4, <2>5, <2>6, GoesOn
<1>41. Replaces(RewriteAt(p), At(p), t, G, H, reads, u3)
  BY <1>1, <1>27, <1>29, <1>30, <1>32, <1>33, <1>38, <1>39, <1>40 DEF Replaces
<1> QED BY <1>41

-----------------------------------------------------------------------------
(* A rewritten block does what it did *)

IsState(s) == s = [file |-> s.file, reads |-> s.reads]

LEMMA GoesToState ==
  ASSUME NEW instrs, Len(instrs) \in Nat, NEW t, NEW s, NEW u, Goes(instrs, t, s, u), IsState(s)
  PROVE  IsState(u)
<1>1. PICK n \in Nat : n = Len(instrs)
  OBVIOUS
<1>2. PICK h : /\ h[0] = s /\ h[n] = u
               /\ \A k \in 1 .. n : h[k] = Follow(instrs[k], h[k - 1], t)
  BY <1>1 DEF Goes
<1>3. CASE n = 0
  BY <1>2, <1>3
<1>4. CASE n # 0
  <2>1. n \in 1 .. n
    BY <1>4
  <2>2. u = Follow(instrs[n], h[n - 1], t)
    BY <1>2, <2>1
  <2> QED BY <2>2 DEF Follow, IsState
<1> QED BY <1>3, <1>4

LEMMA RewriteOne ==
  ASSUME CodeOK, spills \subseteq regs, NEW p \in Sites,
         Cardinality(SpilledUses(At(p))) <= Len(Pool(At(p))),
         NEW G \in Files, NEW H \in Files, NEW t \in Nat, Matches(G, H), NEW reads,
         Clean(At(p), G)
  PROVE  \E u : Replaces(RewriteAt(p), At(p), t, G, H, reads, u)
<1>1. CASE \E d \in SpilledDefs(At(p)) : Rematerializable(d)
  <2>1. RewriteAt(p) = << >>
    BY <1>1 DEF RewriteAt
  <2>2. PICK d \in SpilledDefs(At(p)) : Rematerializable(d)
    BY <1>1
  <2>3. \E u : Replaces(<< >>, At(p), t, G, H, reads, u)
    BY <2>2, DropOne
  <2> QED BY <2>1, <2>3
<1>2. CASE ~ \E d \in SpilledDefs(At(p)) : Rematerializable(d)
  BY <1>2, KeepOne
<1> QED BY <1>1, <1>2

\* From H the rewritten instructions lead to u, where the original ones led to s.
Rewritten(instrs, t, H, s, u) ==
  /\ Goes(instrs, t, Fresh(H), u) /\ u.file \in Files
  /\ u.reads = s.reads /\ Matches(s.file, u.file)

LEMMA RewriteBlock ==
  ASSUME CodeOK, spills \subseteq regs,
         \A p \in Sites : Cardinality(SpilledUses(At(p))) <= Len(Pool(At(p))),
         NEW b \in Blocks, NEW S, \A p \in Sites : RewriteAt(p) \in Seq(S),
         NEW t \in Nat, NEW G \in Files, NEW H \in Files, Matches(G, H),
         NEW s, Goes(code[b], t, Fresh(G), s)
  PROVE  /\ s.file \in Files
         /\ \E u : Rewritten(FlattenSeq([i \in DOMAIN code[b] |-> RewriteAt(<<b, i>>)]), t, H, s, u)
<1>1. PICK n \in Nat : n = Len(code[b]) /\ DOMAIN code[b] = 1 .. n
  BY DEF CodeOK
<1>2. PICK q : q = [i \in 1 .. n |-> RewriteAt(<<b, i>>)]
  OBVIOUS
<1>3. q \in [1 .. n -> Seq(S)] /\ \A k \in 1 .. n : q[k] = RewriteAt(<<b, k>>)
  <2>1. \A k \in 1 .. n : <<b, k>> \in Sites
    BY <1>1, SiteIs
  <2> QED BY <1>2, <2>1
<1>4. PICK flat : Flattens(S, n, q, flat)
  BY <1>3, Flattened
<1>5. PICK h : /\ h[0] = Fresh(G) /\ h[n] = s
               /\ \A k \in 1 .. n : Clean(code[b][k], h[k - 1].file) /\ h[k] = Follow(code[b][k], h[k - 1], t)
  BY <1>1 DEF Goes
<1> DEFINE Have == {k \in 0 .. n : h[k].file \in Files /\ \E u : Rewritten(flat[k], t, H, h[k], u)}
<1>6. 0 \in Have
  <2>1. flat[0] = << >> /\ 0 \in 0 .. n
    BY <1>4 DEF Flattens
  <2>2. Fresh(H).file = H /\ Fresh(G).file = G /\ Fresh(H).reads = Fresh(G).reads
    BY DEF Fresh
  <2>3. Rewritten(flat[0], t, H, h[0], Fresh(H))
    BY <1>5, <2>1, <2>2, GoesNowhere DEF Rewritten
  <2> QED BY <1>5, <2>1, <2>2, <2>3
<1>7. ASSUME NEW k \in 1 .. n, k - 1 \in Have PROVE k \in Have
  <2>1. PICK v : h[k - 1].file \in Files /\ Rewritten(flat[k - 1], t, H, h[k - 1], v)
    BY <1>7
  <2>2. PICK p : p = <<b, k>> /\ p \in Sites /\ At(p) = code[b][k] /\ At(p) \in Instrs(regs)
    BY <1>1, SiteIs
  <2>3. PICK F, K, reads : F = h[k - 1].file /\ K = v.file /\ reads = v.reads /\ reads = h[k - 1].reads
    BY <2>1 DEF Rewritten
  <2>4. F \in Files /\ K \in Files /\ Matches(F, K) /\ Clean(At(p), F)
    BY <1>5, <2>1, <2>2, <2>3 DEF Rewritten
  <2>5. PICK u : Replaces(RewriteAt(p), At(p), t, F, K, reads, u)
    BY <2>2, <2>4, RewriteOne
  <2>6. /\ flat[k - 1] \in Seq(S) /\ q[k] \in Seq(S) /\ q[k] = RewriteAt(p)
        /\ flat[k] = flat[k - 1] \o q[k]
    <3>1. flat \in [0 .. n -> Seq(S)] /\ k - 1 \in 0 .. n
      BY <1>4 DEF Flattens
    <3>2. flat[k] = flat[k - 1] \o q[k]
      BY <1>4 DEF Flattens
    <3>3. q[k] = RewriteAt(p) /\ q[k] \in Seq(S)
      BY <1>3, <2>2
    <3> QED BY <3>1, <3>2, <3>3
  <2>7. v = [file |-> K, reads |-> reads]
    <3>1. IsState(Fresh(H))
      BY DEF IsState, Fresh
    <3>2. Len(flat[k - 1]) \in Nat
      BY <2>6
    <3>3. IsState(v)
      BY <2>1, <3>1, <3>2, GoesToState DEF Rewritten
    <3> QED BY <2>3, <3>3 DEF IsState
  <2>8. Goes(flat[k], t, Fresh(H), u)
    <3>1. Goes(flat[k - 1], t, Fresh(H), v)
      BY <2>1 DEF Rewritten
    <3>2. Goes(q[k], t, v, u)
      BY <2>5, <2>6, <2>7 DEF Replaces
    <3>3. Goes(flat[k - 1] \o q[k], t, Fresh(H), u)
      BY <2>6, <3>1, <3>2, GoesOn
    <3> QED BY <2>6, <3>3
  <2>9. h[k].file = StrictStep(At(p), F, t) /\ h[k].reads = Seen(At(p), [file |-> F, reads |-> reads])
    <3>1. h[k] = Follow(At(p), h[k - 1], t)
      BY <1>5, <2>2
    <3> QED BY <2>3, <3>1 DEF Follow, Seen
  <2>10. Rewritten(flat[k], t, H, h[k], u)
    BY <2>5, <2>8, <2>9 DEF Replaces, Rewritten
  <2>11. h[k].file \in Files
    <3>1. regs \in SUBSET (Nat \ {0})
      BY DEF CodeOK
    <3> QED BY <2>2, <2>4, <2>9, <3>1, StrictTyped
  <2>12. k \in 0 .. n
    OBVIOUS
  <2> QED BY <2>10, <2>11, <2>12
<1>8. \A k \in 0 .. n : k \in Have
  <2> HIDE DEF Have
  <2> QED BY <1>6, <1>7, UpTo, Zenon
<1>9. n \in Have
  <2> HIDE DEF Have
  <2> QED BY <1>8
<1>10. flat[n] = FlattenSeq([i \in DOMAIN code[b] |-> RewriteAt(<<b, i>>)])
  BY <1>1, <1>2, <1>4 DEF Flattens
<1>11. s.file \in Files /\ \E u : Rewritten(flat[n], t, H, s, u)
  BY <1>5, <1>9
<1> QED BY <1>10, <1>11

-----------------------------------------------------------------------------
(* The rewritten function is again one to allocate *)

\* The registers that only name spill slots from now on.
Slots == spills \cup {At(p).slot : p \in {q \in Sites : At(q).op \in {"load", "store"}}}

Fitting(M) ==
  {i \in Instrs(M) : /\ i.op \in {"load", "store"} => i.slot \in Slots
                     /\ (UseSet(i) \cup i.def) \cap Slots = {}}

LEMMA SlotsAre ==
  ASSUME CodeOK, spills \subseteq regs
  PROVE  /\ Slots \subseteq regs
         /\ \A p \in Sites : At(p).op \in {"load", "store"} => At(p).slot \in Slots
         /\ \A p \in Sites : (UseSet(At(p)) \cup At(p).def) \cap Slots \subseteq spills
<1>1. ASSUME NEW p \in Sites, At(p).op \in {"load", "store"} PROVE At(p).slot \in regs
  <2>1. regs \in SUBSET (Nat \ {0}) /\ At(p) \in Instrs(regs)
    BY SiteIs DEF CodeOK
  <2> QED BY <1>1, <2>1, InstrIs
<1>2. \A p \in Sites : (UseSet(At(p)) \cup At(p).def) \cap Slots \subseteq spills
  BY DEF CodeOK, SlotsApart, Slots
<1> QED BY <1>1, <1>2 DEF Slots

\* A list of members of T, one for each member of S.
LEMMA ListIn ==
  ASSUME NEW S, NEW q, Lists(q, S), NEW T, NEW r, DOMAIN r = DOMAIN q, \A k \in DOMAIN q : r[k] \in T,
         r = [k \in DOMAIN q |-> r[k]]
  PROVE  r \in Seq(T)
<1>1. PICK n \in Nat : n = Cardinality(S)
  BY DEF Lists
<1>2. DOMAIN q = 1 .. n
  BY <1>1 DEF Lists
<1>3. r \in [1 .. n -> T]
  BY <1>2
<1> QED BY <1>3

LEMMA RewriteFits ==
  ASSUME CodeOK, spills \subseteq regs, NEW p \in Sites,
         Cardinality(SpilledUses(At(p))) <= Len(Pool(At(p))),
         NEW M \in SUBSET (Nat \ {0}), regs \subseteq M, RewriteAt(p) # << >> => FreshAt(p) \subseteq M
  PROVE  RewriteAt(p) \in Seq(Fitting(M))
<1>1. CASE RewriteAt(p) = << >>
  BY <1>1
<1>2. CASE RewriteAt(p) # << >>
  <2>1. PICK i : i = At(p) /\ i \in Instrs(regs)
    BY SiteIs
  <2>2. PICK to : to = Replacement(p)
    OBVIOUS
  <2>3. PICK used, made : used = SpilledUses(i) /\ made = SpilledDefs(i)
    OBVIOUS
  <2>4. /\ used = UseSet(i) \cap spills /\ made = i.def \cap spills
        /\ used \in SUBSET spills /\ made \in SUBSET spills
        /\ used \in SUBSET regs /\ made \in SUBSET regs
    BY <2>3 DEF SpilledUses, SpilledDefs
  <2>5. /\ DOMAIN to = used \cup made
        /\ \A v \in used : to[v] \in Range(Scratch)
        /\ \A v \in made : to[v] \in Range(Scratch) \cup FreshAt(p)
    BY <2>1, <2>2, <2>3, ReplacementIs
  <2>6. /\ Slots \subseteq regs /\ spills \subseteq Slots
        /\ i.op \in {"load", "store"} => i.slot \in Slots
        /\ (UseSet(i) \cup i.def) \cap Slots \subseteq spills
    BY <2>1, SlotsAre DEF Slots
  <2>7. ASSUME NEW v \in used \cup made PROVE to[v] \in Physical \cup M /\ to[v] \notin Slots
    <3>1. CASE to[v] \in Range(Scratch)
      <4>1. to[v] \in Physical
        BY <3>1, PhysicalIs
      <4>2. to[v] \notin regs
        BY <4>1, NameIs DEF CodeOK
      <4> QED BY <2>6, <4>1, <4>2
    <3>2. CASE to[v] \in FreshAt(p)
      <4>1. regs # {}
        BY <2>4
      <4>2. to[v] \notin regs
        BY <3>2, <4>1, FreshIs
      <4> QED BY <1>2, <2>6, <3>2, <4>2
    <3> QED BY <2>5, <3>1, <3>2
  <2>8. PICK loads, stores : loads = Ascending(used) /\ stores = Ascending(made)
    OBVIOUS
  <2>9. Lists(loads, used) /\ Lists(stores, made)
    BY <2>4, <2>8, SpilledFinite, AscendingLists
  <2>10. (\A k \in DOMAIN loads : loads[k] \in used) /\ \A k \in DOMAIN stores : stores[k] \in made
    BY <2>9 DEF Lists
  <2>11. PICK before1, j, after1 : /\ before1 = [k \in DOMAIN loads |-> Reload(loads[k], to[loads[k]])]
                                   /\ j = Substitute(i, to)
                                   /\ after1 = [k \in DOMAIN stores |-> StoreSlot(to[stores[k]], stores[k])]
    OBVIOUS
  <2>12. RewriteAt(p) = before1 \o <<j>> \o after1
    BY <1>2, <2>1, <2>2, <2>3, <2>8, <2>11 DEF RewriteAt
  <2>13. ASSUME NEW v \in used PROVE Reload(v, to[v]) \in Fitting(M)
    <3>1. v \in regs /\ v \in spills /\ to[v] \in Physical \cup M /\ to[v] \notin Slots
      BY <2>4, <2>7
    <3>2. Reload(v, to[v]) \in Instrs(M)
      BY <3>1, ReloadTyped
    <3>3. /\ Reload(v, to[v]).op \in {"imm", "load"} /\ Reload(v, to[v]).def = {to[v]}
          /\ Reload(v, to[v]).op = "load" => Reload(v, to[v]).slot = v
      <4>1. CASE Rematerializable(v)
        <5>1. PICK d : d = RematDef(v) /\ d \in Instrs(regs) /\ d.op = "imm"
          BY <4>1, RematIs
        <5>2. PICK e : e = [d EXCEPT !.def = {to[v]}]
          OBVIOUS
        <5>3. e.op = "imm" /\ e.def = {to[v]}
          BY <5>1, <5>2 DEF Instrs
        <5> QED BY <4>1, <5>1, <5>2, <5>3 DEF Reload
      <4>2. CASE ~ Rematerializable(v)
        BY <4>2 DEF Reload, LoadSlot
      <4> QED BY <4>1, <4>2
    <3>4. UseSet(Reload(v, to[v])) = {}
      <4>1. Reload(v, to[v]).uses = << >>
        BY <3>2, <3>3, InstrIs
      <4> QED BY <4>1 DEF UseSet, Range
    <3> QED BY <2>6, <3>1, <3>2, <3>3, <3>4 DEF Fitting
  <2>14. j \in Fitting(M)
    <3>1. regs \in SUBSET (Nat \ {0})
      BY DEF CodeOK
    <3>2. j \in Instrs(M)
      BY <2>1, <2>5, <2>7, <2>11, <3>1, SubstituteTyped
    <3>3. /\ j.op = i.op /\ j.slot = i.slot
          /\ j.def = {IF d \in DOMAIN to THEN to[d] ELSE d : d \in i.def}
          /\ j.uses = [k \in DOMAIN i.uses |-> IF i.uses[k] \in DOMAIN to THEN to[i.uses[k]] ELSE i.uses[k]]
      BY <2>1, <2>11, <3>1, SubstituteIs
    <3>4. ASSUME NEW d \in j.def PROVE d \notin Slots
      <4>1. PICK e \in i.def : d = IF e \in DOMAIN to THEN to[e] ELSE e
        BY <3>3
      <4>2. CASE e \in DOMAIN to
        BY <2>5, <2>7, <4>1, <4>2
      <4>3. CASE e \notin DOMAIN to
        BY <2>4, <2>5, <2>6, <4>1, <4>3
      <4> QED BY <4>2, <4>3
    <3>5. ASSUME NEW k \in DOMAIN i.uses PROVE j.uses[k] \notin Slots
      <4>1. i.uses[k] \in UseSet(i)
        BY DEF UseSet, Range
      <4> QED BY <2>4, <2>5, <2>6, <2>7, <3>3, <4>1
    <3>6. \A d \in UseSet(j) : d \notin Slots
      BY <3>3, <3>5 DEF UseSet, Range
    <3> QED BY <2>6, <3>2, <3>3, <3>4, <3>6 DEF Fitting
  <2>15. ASSUME NEW d \in made PROVE StoreSlot(to[d], d) \in Fitting(M)
    <3>1. d \in M /\ d \in Slots /\ to[d] \in Physical \cup M /\ to[d] \notin Slots
      BY <2>4, <2>6, <2>7
    <3>2. StoreSlot(to[d], d) \in Instrs(M)
      BY <3>1, SlotTyped
    <3>3. PICK x : x = StoreSlot(to[d], d)
      OBVIOUS
    <3>4. x.slot = d /\ x.def = {} /\ x.uses = <<to[d]>>
      BY <3>3 DEF StoreSlot
    <3>5. UseSet(x) = {to[d]}
      BY <3>4 DEF UseSet, Range
    <3> QED BY <3>1, <3>2, <3>3, <3>4, <3>5 DEF Fitting
  <2>16. before1 \in Seq(Fitting(M))
    <3>1. \A k \in DOMAIN loads : before1[k] \in Fitting(M)
      BY <2>10, <2>11, <2>13
    <3>2. DOMAIN before1 = DOMAIN loads /\ before1 = [k \in DOMAIN loads |-> before1[k]]
      BY <2>11
    <3> QED BY <2>9, <3>1, <3>2, ListIn
  <2>17. after1 \in Seq(Fitting(M))
    <3>1. \A k \in DOMAIN stores : after1[k] \in Fitting(M)
      BY <2>10, <2>11, <2>15
    <3>2. DOMAIN after1 = DOMAIN stores /\ after1 = [k \in DOMAIN stores |-> after1[k]]
      BY <2>11
    <3> QED BY <2>9, <3>1, <3>2, ListIn
  <2>18. <<j>> \in Seq(Fitting(M))
    BY <2>14
  <2>19. before1 \o <<j>> \o after1 \in Seq(Fitting(M))
    <3> HIDE DEF Fitting
    <3> QED BY <2>16, <2>17, <2>18
  <2> QED BY <2>12, <2>19
<1> QED BY <1>1, <1>2

\* The registers of the next round.
RegsAfter == regs \cup UNION {FreshAt(p) : p \in {q \in Sites : RewriteAt(q) # << >>}}

LEMMA SitesFinite ==
  ASSUME CodeOK
  PROVE  IsFiniteSet(Sites)
<1>1. PICK n \in Nat : Blocks = 1 .. n /\ n = Len(code)
  BY DEF CodeOK, ShapeOK
<1>2. ASSUME NEW b \in Blocks PROVE IsFiniteSet({b} \X DOMAIN code[b])
  <2>1. PICK m \in Nat : DOMAIN code[b] = 1 .. m
    BY DEF CodeOK
  <2>2. IsFiniteSet(DOMAIN code[b])
    BY <2>1, FS_Interval
  <2> QED BY <2>2, FS_Singleton, FS_Product
<1> DEFINE Of == [b \in Blocks |-> {b} \X DOMAIN code[b]]
           All == {{b} \X DOMAIN code[b] : b \in Blocks}
<1>3. IsFiniteSet(Blocks)
  BY <1>1, FS_Interval
<1>4. Of \in Surjection(Blocks, All)
  BY DEF Surjection
<1>5. IsFiniteSet(All) /\ \A T \in All : IsFiniteSet(T)
  <2>1. \A T \in All : IsFiniteSet(T)
    BY <1>2
  <2> HIDE DEF Of, All
  <2> QED BY <1>3, <1>4, <2>1, FS_Surjection
<1>6. IsFiniteSet(UNION All)
  <2> HIDE DEF All
  <2> QED BY <1>5, FS_UNION
<1> QED BY <1>6 DEF Sites

LEMMA RegsAfterIs ==
  ASSUME CodeOK, spills \subseteq regs, spills # {}
  PROVE  /\ RegsAfter \in SUBSET (Nat \ {0}) /\ IsFiniteSet(RegsAfter) /\ regs \subseteq RegsAfter
         /\ \A p \in Sites : RewriteAt(p) # << >> => FreshAt(p) \subseteq RegsAfter
<1> DEFINE Kept == {q \in Sites : RewriteAt(q) # << >>}
           Of == [p \in Kept |-> FreshAt(p)]
           All == {FreshAt(p) : p \in Kept}
<1>1. RegsAfter = regs \cup UNION All
  BY DEF RegsAfter
<1>2. ASSUME NEW p \in Sites PROVE IsFiniteSet(FreshAt(p))
  <2>1. PICK I : I = 1 .. Len(Replaced(At(p))) - Len(Pool(At(p)))
    OBVIOUS
  <2>2. Len(Replaced(At(p))) \in Int
    <3>1. PICK i : i = At(p)
      OBVIOUS
    <3>2. PICK A, B : A = SpilledUses(i) /\ B = SpilledDefs(i) \ SpilledUses(i)
      OBVIOUS
    <3>3. A \in SUBSET spills /\ B \in SUBSET spills
      BY <3>2 DEF SpilledUses, SpilledDefs
    <3>4. Lists(Ascending(A), A) /\ Lists(Ascending(B), B)
      BY <3>3, SpilledFinite, AscendingLists
    <3>5. PICK a, c : a = Ascending(A) /\ c = Ascending(B)
      OBVIOUS
    <3>6. PICK m \in Nat, n \in Nat : a \in [1 .. m -> spills] /\ c \in [1 .. n -> spills]
      <4>1. a \in [1 .. Cardinality(A) -> A] /\ c \in [1 .. Cardinality(B) -> B]
        BY <3>4, <3>5 DEF Lists
      <4>2. Cardinality(A) \in Nat /\ Cardinality(B) \in Nat
        BY <3>4 DEF Lists
      <4>3. a \in [1 .. Cardinality(A) -> spills] /\ c \in [1 .. Cardinality(B) -> spills]
        BY <3>3, <4>1
      <4> QED BY <4>2, <4>3
    <3>7. a \o c \in Seq(spills)
      BY <3>6
    <3> QED BY <3>1, <3>2, <3>5, <3>7 DEF Replaced
  <2>3. IsFiniteSet(I)
    <3>1. Len(Pool(At(p))) \in Int
      BY PoolIs
    <3> QED BY <2>1, <2>2, <3>1, FS_Interval
  <2> DEFINE f == [k \in I |-> FreshId(p, k)]
  <2>4. f \in Surjection(I, FreshAt(p))
    BY <2>1 DEF Surjection, FreshAt
  <2> HIDE DEF f
  <2> QED BY <2>3, <2>4, FS_Surjection
<1>3. IsFiniteSet(Kept) /\ Kept \subseteq Sites
  BY SitesFinite, FS_Subset
<1>4. Of \in Surjection(Kept, All)
  <2> HIDE DEF Kept
  <2> QED BY DEF Surjection
<1>5. IsFiniteSet(All) /\ \A T \in All : IsFiniteSet(T)
  <2>1. \A T \in All : IsFiniteSet(T)
    BY <1>2
  <2> HIDE DEF Of, All, Kept
  <2> QED BY <1>3, <1>4, <2>1, FS_Surjection
<1>6. IsFiniteSet(UNION All)
  <2> HIDE DEF All
  <2> QED BY <1>5, FS_UNION
<1>7. IsFiniteSet(RegsAfter)
  <2> HIDE DEF All
  <2> QED BY <1>1, <1>6, FS_Union DEF CodeOK
<1>8. \A p \in Sites : \A r \in FreshAt(p) : r \in Nat \ {0}
  BY FreshIs
<1>9. RegsAfter \in SUBSET (Nat \ {0})
  <2>1. \A r \in UNION All : r \in Nat \ {0}
    BY <1>8
  <2> HIDE DEF All
  <2> QED BY <1>1, <2>1 DEF CodeOK
<1> QED BY <1>7, <1>9 DEF RegsAfter

\* rewrite_spills hands on a function to allocate that does what the one before did.
LEMMA RewriteSound ==
  ASSUME CodeOK, spills \subseteq regs, spills # {},
         \A p \in Sites : Cardinality(SpilledUses(At(p))) <= Len(Pool(At(p))),
         RewriteSpills, ShapeOK', UNCHANGED <<original, succ>>,
         NEW R, Simulates(R)
  PROVE  CodeOK' /\ \E T : Simulates(T)'
<1>1. regs' = RegsAfter
  BY DEF RewriteSpills, RegsAfter
<1>2. /\ RegsAfter \in SUBSET (Nat \ {0}) /\ IsFiniteSet(RegsAfter) /\ regs \subseteq RegsAfter
      /\ \A p \in Sites : RewriteAt(p) # << >> => FreshAt(p) \subseteq RegsAfter
  BY RegsAfterIs
<1>3. PICK S : S = Fitting(RegsAfter)
  OBVIOUS
<1>4. \A p \in Sites : RewriteAt(p) \in Seq(S)
  BY <1>2, <1>3, RewriteFits
<1>5. /\ Blocks' = Blocks /\ succ' = succ /\ original' = original
      /\ \A b \in Blocks : code'[b] = FlattenSeq([i \in DOMAIN code[b] |-> RewriteAt(<<b, i>>)])
  <2>1. code' = [b \in Blocks |-> FlattenSeq([i \in DOMAIN code[b] |-> RewriteAt(<<b, i>>)])]
    BY DEF RewriteSpills
  <2>2. DOMAIN code' = Blocks
    BY <2>1
  <2>3. Blocks' = DOMAIN code'
    BY DEF Blocks
  <2> QED BY <2>1, <2>2, <2>3
<1>6. ASSUME NEW b \in Blocks PROVE code'[b] \in Seq(S)
  <2>1. PICK n \in Nat : DOMAIN code[b] = 1 .. n /\ n = Len(code[b])
    BY DEF CodeOK
  <2>2. PICK q : q = [i \in 1 .. n |-> RewriteAt(<<b, i>>)]
    OBVIOUS
  <2>3. q \in [1 .. n -> Seq(S)]
    <3>1. \A k \in 1 .. n : <<b, k>> \in Sites
      BY <2>1, SiteIs
    <3> QED BY <1>4, <2>2, <3>1
  <2>4. FlattenSeq(q) \in Seq(S)
    BY <2>3, FlattenedIn
  <2> QED BY <1>5, <2>1, <2>2, <2>4
<1>7. \A i \in S : /\ i \in Instrs(RegsAfter)
                   /\ i.op \in {"load", "store"} => i.slot \in Slots
                   /\ (UseSet(i) \cup i.def) \cap Slots = {}
  BY <1>3 DEF Fitting
<1>8. ASSUME NEW p \in Sites' PROVE At(p)' \in S
  <2>1. PICK b \in Blocks : p \in {b} \X DOMAIN code'[b]
    BY <1>5 DEF Sites
  <2>2. p[1] = b /\ p[2] \in DOMAIN code'[b] /\ code'[b] \in Seq(S)
    BY <1>6, <2>1
  <2>3. code'[b][p[2]] \in S
    BY <2>2
  <2>4. At(p)' = code'[b][p[2]]
    BY <2>2 DEF At
  <2> QED BY <2>3, <2>4
<1>9. SlotsApart'
  <2> SUFFICES ASSUME NEW p \in Sites', NEW q \in Sites', At(p)'.op \in {"load", "store"}
               PROVE  At(p)'.slot \notin UseSet(At(q)') \cup At(q)'.def
    BY DEF SlotsApart, UseSet
  <2>1. At(p)' \in S /\ At(q)' \in S
    BY <1>8
  <2>2. At(p)'.slot \in Slots
    BY <1>7, <2>1
  <2> QED BY <1>7, <2>1, <2>2
<1>10. \A b \in Blocks' : code'[b] \in Seq(Instrs(regs'))
  <2>1. S \subseteq Instrs(RegsAfter)
    BY <1>7
  <2> QED BY <1>1, <1>5, <1>6, <2>1
<1>11. CodeOK'
  BY <1>1, <1>2, <1>9, <1>10 DEF CodeOK
<1>16. PICK T : T = {x \in Blocks \X Nat \X Files \X Files :
                      \E G \in Files : <<x[1], x[2], x[3], G>> \in R /\ Matches(G, x[4])}
  OBVIOUS
<1>12. <<1, 0, EntryPoisoned, EntryPoisoned>> \in T
  <2>1. Matches(EntryPoisoned, EntryPoisoned)
    <3> SUFFICES ASSUME NEW v \in spills, EntryPoisoned[v] # Poison PROVE FALSE
      BY DEF Matches
    <3>1. v \in Int /\ v \notin Physical
      BY NameIs DEF CodeOK
    <3> QED BY <3>1 DEF EntryPoisoned
  <2>2. 1 \in Blocks
    BY DEF CodeOK, ShapeOK
  <2> QED BY <1>16, <2>1, <2>2, EntryTyped DEF Simulates
<1>13. ASSUME NEW b, NEW t, NEW F, NEW H, <<b, t, F, H>> \in T
       PROVE  \E s, u : /\ Goes(original[b], t, Fresh(F), s)
                        /\ Goes(code'[b], t, Fresh(H), u)
                        /\ s.reads = u.reads
                        /\ \A c \in succ[b] : <<c, t + 1, s.file, u.file>> \in T
  <2>1. PICK G \in Files : <<b, t, F, G>> \in R /\ Matches(G, H)
    BY <1>13, <1>16
  <2>2. b \in Blocks /\ t \in Nat /\ F \in Files /\ H \in Files
    BY <1>13, <1>16
  <2>3. PICK s, u : /\ Goes(original[b], t, Fresh(F), s)
                    /\ Goes(code[b], t, Fresh(G), u)
                    /\ s.reads = u.reads
                    /\ \A c \in succ[b] : <<c, t + 1, s.file, u.file>> \in R
    BY <2>1 DEF Simulates
  <2>4. u.file \in Files /\ \E w : Rewritten(code'[b], t, H, u, w)
    <3>1. /\ u.file \in Files
          /\ \E w : Rewritten(FlattenSeq([i \in DOMAIN code[b] |-> RewriteAt(<<b, i>>)]), t, H, u, w)
      BY <1>4, <2>1, <2>2, <2>3, RewriteBlock
    <3> QED BY <1>5, <2>2, <3>1
  <2>5. PICK w : Rewritten(code'[b], t, H, u, w)
    BY <2>4
  <2>6. ASSUME NEW c \in succ[b] PROVE <<c, t + 1, s.file, w.file>> \in T
    <3>1. <<c, t + 1, s.file, u.file>> \in R
      BY <2>3
    <3>2. c \in Blocks /\ t + 1 \in Nat /\ s.file \in Files
      BY <3>1 DEF Simulates
    <3>3. w.file \in Files /\ Matches(u.file, w.file)
      BY <2>5 DEF Rewritten
    <3> QED BY <1>16, <2>2, <2>4, <3>1, <3>2, <3>3
  <2>7. Goes(code'[b], t, Fresh(H), w) /\ s.reads = w.reads
    BY <2>3, <2>5 DEF Rewritten
  <2> QED BY <2>3, <2>6, <2>7
<1>14. T \subseteq Blocks' \X Nat \X Files \X Files
  BY <1>5, <1>16
<1>15. Simulates(T)'
  <2>1. \A b, t, F, H : <<b, t, F, H>> \in T =>
          \E s, u : /\ Goes(original'[b], t, Fresh(F), s)
                   /\ Goes(code'[b], t, Fresh(H), u)
                   /\ s.reads = u.reads
                   /\ \A c \in succ'[b] : <<c, t + 1, s.file, u.file>> \in T
    BY <1>5, <1>13, Zenon
  <2> QED BY <1>12, <1>14, <2>1 DEF Simulates
<1> QED BY <1>11, <1>15

-----------------------------------------------------------------------------
(* What color_graph is given, and what it gives *)

\* The names of the library, through one module and the other.
LEMMA SameSizes ==
  /\ \A S : CG!Cardinality(S) = CGP!Cardinality(S)
  /\ \A S : CGP!IsFiniteSet(S) <=> IsFiniteSet(S)
<1>1. \A S : CG!Cardinality(S) = CGP!Cardinality(S)
  BY Zenon DEF CG!Cardinality, CGP!Cardinality
<1>2. \A S : CGP!IsFiniteSet(S) <=> IsFiniteSet(S)
  BY Zenon DEF IsFiniteSet, CGP!IsFiniteSet
<1> QED BY <1>1, <1>2

LEMMA ColorSteps ==
  ASSUME ColorStep
  PROVE  CGP!Next
<1>1. /\ CG!K = CGP!K /\ CG!Colors = CGP!Colors /\ CG!Top = CGP!Top
      /\ (CG!Pop <=> CGP!Pop) /\ (CG!Selecting <=> CGP!Selecting)
      /\ \A n : CG!Degree(n) = CGP!Degree(n)
      /\ \A n : CG!Push(n) <=> CGP!Push(n)
      /\ \A n : CG!Wishes(n) = CGP!Wishes(n)
      /\ \A x, y : CG!FirstAvailable(x, y) = CGP!FirstAvailable(x, y)
  <2>1. CG!K = CGP!K /\ CG!Colors = CGP!Colors /\ CG!Top = CGP!Top
    BY Zenon DEF CG!K, CGP!K, CG!Colors, CGP!Colors, CG!Top, CGP!Top
  <2>2. (CG!Pop <=> CGP!Pop) /\ (CG!Selecting <=> CGP!Selecting)
    BY Zenon DEF CG!Pop, CGP!Pop, CG!Selecting, CGP!Selecting
  <2>3. \A n : CG!Degree(n) = CGP!Degree(n)
    BY SameSizes, Zenon DEF CG!Degree, CGP!Degree
  <2>4. \A n : CG!Push(n) <=> CGP!Push(n)
    BY Zenon DEF CG!Push, CGP!Push
  <2>5. \A n : CG!Wishes(n) = CGP!Wishes(n)
    BY Zenon DEF CG!Wishes, CGP!Wishes
  <2>6. \A x, y : CG!FirstAvailable(x, y) = CGP!FirstAvailable(x, y)
    BY Zenon DEF CG!FirstAvailable, CGP!FirstAvailable
  <2> QED BY <2>1, <2>2, <2>3, <2>4, <2>5, <2>6
<1>2. CG!Simplifiable = CGP!Simplifiable
  BY <1>1 DEF CG!Simplifiable, CGP!Simplifiable
<1>3. \A n : CG!Available(n) = CGP!Available(n)
  BY <1>1 DEF CG!Available, CGP!Available
<1>4. \A a, b : CG!NoDearer(a, b) <=> CGP!NoDearer(a, b)
  BY SameSizes, Zenon DEF CG!NoDearer, CGP!NoDearer
<1>5. CG!SimplifyLowDegree => CGP!SimplifyLowDegree
  BY <1>1, <1>2 DEF CG!SimplifyLowDegree, CGP!SimplifyLowDegree, CG!IsLowDegreePick, CGP!IsLowDegreePick
<1>6. CG!SimplifySpillCandidate => CGP!SimplifySpillCandidate
  BY <1>1, <1>2, <1>4 DEF CG!SimplifySpillCandidate, CGP!SimplifySpillCandidate,
     CG!IsSpillCandidate, CGP!IsSpillCandidate
<1>7. CG!SelectColor => CGP!SelectColor
  BY <1>1, <1>3 DEF CG!SelectColor, CGP!SelectColor
<1>8. CG!SelectSpill => CGP!SelectSpill
  BY <1>1, <1>3 DEF CG!SelectSpill, CGP!SelectSpill
<1> QED BY <1>5, <1>6, <1>7, <1>8 DEF ColorStep, CG!Next, CGP!Next

LEMMA ScanIs ==
  ASSUME CodeOK
  PROVE  ScanOrder \in Seq(Sites)
<1>1. PICK n \in Nat : n = Len(code) /\ Blocks = 1 .. n
  BY DEF CodeOK, ShapeOK
<1>2. PICK q : q = [b \in 1 .. n |-> [k \in 1 .. Len(code[b]) |-> <<b, Len(code[b]) - k + 1>>]]
  OBVIOUS
<1>3. ASSUME NEW b \in 1 .. n PROVE q[b] \in Seq(Sites)
  <2>1. PICK m \in Nat : m = Len(code[b])
    BY <1>1 DEF CodeOK
  <2>2. q[b] = [k \in 1 .. m |-> <<b, m - k + 1>>]
    BY <1>2, <2>1
  <2>3. \A k \in 1 .. m : <<b, m - k + 1>> \in Sites
    <3>1. \A k \in 1 .. m : m - k + 1 \in 1 .. m
      OBVIOUS
    <3> QED BY <1>1, <2>1, <3>1, SiteIs
  <2>4. q[b] \in [1 .. m -> Sites]
    BY <2>2, <2>3
  <2> QED BY <2>4
<1>4. q \in [1 .. n -> Seq(Sites)]
  BY <1>2, <1>3
<1>5. FlattenSeq(q) \in Seq(Sites)
  BY <1>4, FlattenedIn
<1> QED BY <1>1, <1>2, <1>5 DEF ScanOrder

\* What i says of its registers, one by one.
LEMMA PhysicalHintIs ==
  ASSUME CodeOK, NEW p \in Sites, NEW v, NEW live
  PROVE  PhysicalHint(At(p), v, live) \in Seq(Physical)
<1>1. PICK i : i = At(p) /\ i \in Instrs(regs) /\ regs \in SUBSET (Nat \ {0})
  BY SiteIs DEF CodeOK
<1>2. /\ i.def \subseteq Physical \cup regs /\ \A c, d \in i.def : c = d
      /\ i.op = "move" => i.uses[1] \in Physical \cup regs
  <2>1. i.def \subseteq Physical \cup regs
    BY <1>1, InstrIs
  <2>2. \A c, d \in i.def : c = d
    BY <1>1, InstrIs
  <2>3. i.op = "move" => i.uses[1] \in UseSet(i)
    BY <1>1, InstrIs
  <2>4. UseSet(i) \subseteq Physical \cup regs
    BY <1>1, InstrIs
  <2> QED BY <2>1, <2>2, <2>3, <2>4
<1>3. \A r \in Physical \cup regs : ~ Virtual(r) => r \in Physical
  BY <1>1, NameIs
<1>4. PICK S : S = {d \in i.def : ~ Virtual(d)}
  OBVIOUS
<1>5. S \in SUBSET Physical /\ S \in SUBSET Int /\ IsFiniteSet(S)
  <2>1. S \in SUBSET Physical
    BY <1>2, <1>3, <1>4
  <2>2. IsFiniteSet(S)
    <3>1. CASE S = {}
      BY <3>1, FS_EmptySet
    <3>2. CASE S # {}
      <4>1. PICK d : S = {d}
        BY <1>2, <1>4, <3>2
      <4> QED BY <4>1, FS_Singleton
    <3> QED BY <3>1, <3>2
  <2>3. Physical \subseteq Int
    BY PhysicalIs
  <2> QED BY <2>1, <2>2, <2>3
<1>6. Ascending(S) \in Seq(Physical)
  <2>1. Lists(Ascending(S), S)
    BY <1>5, AscendingLists
  <2>2. Cardinality(S) \in Nat /\ Ascending(S) \in [1 .. Cardinality(S) -> S]
    BY <2>1 DEF Lists
  <2>3. Ascending(S) \in [1 .. Cardinality(S) -> Physical]
    BY <1>5, <2>2
  <2> QED BY <2>2, <2>3
<1>7. PICK x, y, z :
         /\ x = IF i.op = "move" /\ v \in i.def /\ ~ Virtual(i.uses[1]) THEN <<i.uses[1]>> ELSE << >>
         /\ y = IF i.op = "move" /\ v = i.uses[1] THEN Ascending(S) ELSE << >>
         /\ z = IF i.op = "call" /\ v \in live \ i.def THEN CalleeSaved ELSE << >>
  OBVIOUS
<1>8. x \in Seq(Physical)
  BY <1>2, <1>3, <1>7
<1>9. y \in Seq(Physical)
  BY <1>6, <1>7
<1>10. z \in Seq(Physical)
  BY <1>7, RegistersAssumption
<1>11. PhysicalHint(i, v, live) = x \o y \o z
  BY <1>4, <1>7 DEF PhysicalHint
<1>12. x \o y \o z \in Seq(Physical)
  BY <1>8, <1>9, <1>10
<1> QED BY <1>1, <1>11, <1>12

LEMMA VirtualHintIs ==
  ASSUME CodeOK, NEW p \in Sites, NEW v
  PROVE  VirtualHint(At(p), v) \in Seq(regs)
<1>1. PICK i : i = At(p) /\ i \in Instrs(regs) /\ regs \in SUBSET (Nat \ {0})
  BY SiteIs DEF CodeOK
<1>2. /\ i.def \subseteq Physical \cup regs /\ \A c, d \in i.def : c = d
      /\ i.op = "move" => i.uses[1] \in Physical \cup regs
  <2>1. i.def \subseteq Physical \cup regs
    BY <1>1, InstrIs
  <2>2. \A c, d \in i.def : c = d
    BY <1>1, InstrIs
  <2>3. i.op = "move" => i.uses[1] \in UseSet(i)
    BY <1>1, InstrIs
  <2>4. UseSet(i) \subseteq Physical \cup regs
    BY <1>1, InstrIs
  <2> QED BY <2>1, <2>2, <2>3, <2>4
<1>3. \A r \in Physical \cup regs : Virtual(r) => r \in regs
  BY PhysicalIs
<1>4. CASE ~ IsVirtualMove(i)
  BY <1>1, <1>4 DEF VirtualHint
<1>5. CASE IsVirtualMove(i)
  <2>1. i.uses[1] \in regs /\ i.def \in SUBSET regs
    BY <1>2, <1>3, <1>5 DEF IsVirtualMove
  <2>2. IsFiniteSet(i.def) /\ i.def \in SUBSET Int
    <3>1. IsFiniteSet(regs)
      BY DEF CodeOK
    <3>2. IsFiniteSet(i.def)
      BY <2>1, <3>1, FS_Subset
    <3>3. regs \subseteq Int
      BY <1>1
    <3> QED BY <2>1, <3>2, <3>3
  <2>3. Ascending(i.def) \in Seq(regs)
    <3>1. Lists(Ascending(i.def), i.def)
      BY <2>2, AscendingLists
    <3>2. Cardinality(i.def) \in Nat /\ Ascending(i.def) \in [1 .. Cardinality(i.def) -> i.def]
      BY <3>1 DEF Lists
    <3>3. Ascending(i.def) \in [1 .. Cardinality(i.def) -> regs]
      BY <2>1, <3>2
    <3> QED BY <3>2, <3>3
  <2>4. <<i.uses[1]>> \in Seq(regs) /\ << >> \in Seq(regs)
    BY <2>1
  <2> QED BY <1>1, <1>5, <2>3, <2>4 DEF VirtualHint
<1> QED BY <1>4, <1>5

LEMMA ProblemIs ==
  ASSUME CodeOK, NEW live
  PROVE  CGP!IsProblem(ColoringProblem(live)) /\ ColoringProblem(live).nodes = regs
<1>1. PICK q : q = ColoringProblem(live)
  OBVIOUS
<1>2. /\ q.nodes = regs
      /\ q.adj = [v \in regs |-> {w \in regs : Interfere(v, w, live)}]
      /\ q.forbidden = [v \in regs |-> UNION {Takes(At(p), v, live[p[1]][p[2]]) : p \in Sites}]
      /\ q.phys = [v \in regs |-> Hints(LAMBDA p : PhysicalHint(At(p), v, live[p[1]][p[2]]))]
      /\ q.virt = [v \in regs |-> Hints(LAMBDA p : VirtualHint(At(p), v))]
  BY <1>1 DEF ColoringProblem
<1>3. IsFiniteSet(regs) /\ regs \subseteq Nat
  BY DEF CodeOK
<1>4. /\ q.adj \in [regs -> SUBSET regs]
      /\ \A a, b \in regs : b \in q.adj[a] => a \in q.adj[b]
      /\ \A a \in regs : a \notin q.adj[a]
  <2>1. \A a, b : Interfere(a, b, live) => a # b /\ Interfere(b, a, live)
    BY DEF Interfere
  <2> QED BY <1>2, <2>1
<1>5. q.forbidden \in [regs -> SUBSET Physical]
  <2>1. ASSUME NEW v \in regs, NEW p \in Sites PROVE Takes(At(p), v, live[p[1]][p[2]]) \subseteq Physical
    <3>1. At(p) \in Instrs(regs) /\ regs \in SUBSET (Nat \ {0})
      BY SiteIs DEF CodeOK
    <3>2. At(p).def \subseteq Physical \cup regs
      BY <3>1, InstrIs
    <3>3. At(p).imp \subseteq Physical
      BY <3>1, InstrIs
    <3>4. \A r \in Physical \cup regs : ~ Virtual(r) => r \in Physical
      BY <3>1, NameIs
    <3> QED BY <3>2, <3>3, <3>4, PhysicalIs DEF Takes
  <2> QED BY <1>2, <2>1
<1>6. PICK n \in Nat : n = Len(ScanOrder) /\ \A k \in 1 .. n : ScanOrder[k] \in Sites
  BY ScanIs
<1>7. q.phys \in [regs -> Seq(Physical)]
  <2>1. ASSUME NEW v \in regs
        PROVE  Hints(LAMBDA p : PhysicalHint(At(p), v, live[p[1]][p[2]])) \in Seq(Physical)
    <3>1. PICK h : h = [k \in 1 .. n |-> PhysicalHint(At(ScanOrder[k]), v,
                                          live[ScanOrder[k][1]][ScanOrder[k][2]])]
      OBVIOUS
    <3>2. h \in [1 .. n -> Seq(Physical)]
      BY <1>6, <3>1, PhysicalHintIs
    <3>3. FlattenSeq(h) \in Seq(Physical)
      BY <3>2, FlattenedIn
    <3> QED BY <1>6, <3>1, <3>3 DEF Hints
  <2> QED BY <1>2, <2>1
<1>8. q.virt \in [regs -> Seq(regs)]
  <2>1. ASSUME NEW v \in regs
        PROVE  Hints(LAMBDA p : VirtualHint(At(p), v)) \in Seq(regs)
    <3>1. PICK h : h = [k \in 1 .. n |-> VirtualHint(At(ScanOrder[k]), v)]
      OBVIOUS
    <3>2. h \in [1 .. n -> Seq(regs)]
      BY <1>6, <3>1, VirtualHintIs
    <3>3. FlattenSeq(h) \in Seq(regs)
      BY <3>2, FlattenedIn
    <3> QED BY <1>6, <3>1, <3>3 DEF Hints
  <2> QED BY <1>2, <2>1
<1>9. CGP!IsProblem(q)
  <2>1. q.nodes = regs
    BY <1>2
  <2> QED BY <1>3, <1>4, <1>5, <1>7, <1>8, <2>1, SameSizes DEF CGP!IsProblem
<1> QED BY <1>1, <1>2, <1>9

\* A coloring of the registers of the code under the liveness live.
Coloring(live) ==
  /\ color \in [regs -> Range(Palette)]
  /\ \A v \in regs : \A p \in Sites : color[v] \notin Takes(At(p), v, live[p[1]][p[2]])
  /\ \A v, w \in regs : color[v] = color[w] /\ v # w => ~ Interfere(v, w, live)

\* The problem q asks of the registers what the code and its liveness live do.
Poses(q, live) ==
  /\ q.nodes = regs
  /\ \A v, w \in regs : Interfere(v, w, live) => w \in q.adj[v]
  /\ \A v \in regs : \A p \in Sites : Takes(At(p), v, live[p[1]][p[2]]) \subseteq q.forbidden[v]

LEMMA ProblemPoses ==
  ASSUME NEW live
  PROVE  Poses(ColoringProblem(live), live)
BY DEF ColoringProblem, Poses

\* A problem without spills is solved.
LEMMA Colored ==
  ASSUME CodeOK, CGP!IInv, CG!Done, spills = {}, NEW live, Poses(problem, live)
  PROVE  Coloring(live)
<1>1. CGP!TypeOK /\ CGP!ProperColoring /\ CGP!Accounted
  BY DEF CGP!IInv
<1>2. /\ problem.nodes = regs
      /\ \A v, w \in regs : Interfere(v, w, live) => w \in problem.adj[v]
      /\ \A v \in regs : \A p \in Sites : Takes(At(p), v, live[p[1]][p[2]]) \subseteq problem.forbidden[v]
  BY DEF Poses
<1>3. \A v \in regs : color[v] # None
  <2>1. remaining = {} /\ CGP!Below(Len(stack)) = {}
    BY DEF CG!Done, CGP!Below
  <2> QED BY <1>1, <1>2, <2>1 DEF CGP!Accounted
<1>4. color \in [regs -> CGP!Colors \cup {None}]
  BY <1>1, <1>2 DEF CGP!TypeOK
<1>5. CGP!Colors = Range(Palette)
  BY DEF CGP!Colors, Range
<1>6. \A v \in regs : /\ color[v] \notin problem.forbidden[v]
                      /\ \A w \in problem.adj[v] : color[w] # color[v]
  BY <1>1, <1>2, <1>3 DEF CGP!ProperColoring
<1>7. color \in [regs -> Range(Palette)]
  BY <1>3, <1>4, <1>5
<1>8. ASSUME NEW v \in regs, NEW p \in Sites PROVE color[v] \notin Takes(At(p), v, live[p[1]][p[2]])
  BY <1>2, <1>6
<1>9. ASSUME NEW v \in regs, NEW w \in regs, color[v] = color[w], v # w PROVE ~ Interfere(v, w, live)
  BY <1>2, <1>6, <1>9
<1> QED BY <1>7, <1>8, <1>9 DEF Coloring

-----------------------------------------------------------------------------
(* Running a block, and what is live in it *)

\* What RunBlock goes through.
RunsTo(instrs, file, side, t, u) ==
  \E h : /\ h[0] = Fresh(file) /\ h[Len(instrs)] = u
         /\ \A k \in 1 .. Len(instrs) :
              h[k] = [file |-> Step(instrs[k], h[k - 1].file, side, t), reads |-> Seen(instrs[k], h[k - 1])]

LEMMA RunIs ==
  ASSUME NEW instrs, Len(instrs) \in Nat, NEW file, NEW side, NEW t
  PROVE  RunsTo(instrs, file, side, t, RunBlock(instrs, file, side, t))
<1>1. PICK n \in Nat : n = Len(instrs)
  OBVIOUS
<1> DEFINE After(k, s) == [file |-> Step(instrs[k], s.file, side, t), reads |-> Seen(instrs[k], s)]
           Is(m, h) == h = [k \in 0 .. m |-> IF k = 0 THEN [file |-> file, reads |-> << >>]
                                             ELSE The({After(k, s) : s \in {h[k - 1]}})]
           run == CHOOSE h : Is(n, h)
           Have == {m \in 0 .. n : \E h : Is(m, h)}
<1>2. RunBlock(instrs, file, side, t) = run[n]
  BY <1>1 DEF RunBlock
<1>3. \A k, s : The({After(k, x) : x \in {s}}) = After(k, s)
  <2>1. ASSUME NEW k, NEW s PROVE The({After(k, x) : x \in {s}}) = After(k, s)
    <3>1. {After(k, x) : x \in {s}} = {After(k, s)}
      OBVIOUS
    <3> HIDE DEF After
    <3> QED BY <3>1 DEF The
  <2> HIDE DEF After
  <2> QED BY <2>1
<1> HIDE DEF After
<1>4. 0 \in Have
  <2> DEFINE h == [k \in 0 .. 0 |-> [file |-> file, reads |-> << >>]]
  <2>1. \A k \in 0 .. 0 : k = 0
    OBVIOUS
  <2>2. Is(0, h)
    BY <2>1
  <2>3. 0 \in 0 .. n
    BY <1>1
  <2> HIDE DEF Is, h
  <2> QED BY <2>2, <2>3
<1>5. ASSUME NEW m \in 1 .. n, m - 1 \in Have PROVE m \in Have
  <2>1. PICK g : Is(m - 1, g)
    BY <1>5
  <2> DEFINE last == The({After(m, s) : s \in {g[m - 1]}})
             h == [k \in 0 .. m |-> IF k = m THEN last ELSE g[k]]
  <2>2. ASSUME NEW k \in 0 .. m
        PROVE  h[k] = IF k = 0 THEN [file |-> file, reads |-> << >>]
                      ELSE The({After(k, s) : s \in {h[k - 1]}})
    <3>1. CASE k = m
      <4>1. h[m] = last /\ h[m - 1] = g[m - 1] /\ m # 0
        OBVIOUS
      <4> HIDE DEF h
      <4> QED BY <3>1, <4>1
    <3>2. CASE k # m
      <4>1. k \in 0 .. m - 1 /\ h[k] = g[k] /\ (k # 0 => h[k - 1] = g[k - 1])
        BY <3>2
      <4>2. g[k] = IF k = 0 THEN [file |-> file, reads |-> << >>] ELSE The({After(k, s) : s \in {g[k - 1]}})
        <5> HIDE DEF h
        <5> QED BY <2>1, <4>1
      <4> HIDE DEF h
      <4> QED BY <4>1, <4>2
    <3> QED BY <3>1, <3>2
  <2>3. Is(m, h)
    <3> HIDE DEF last
    <3> QED BY <2>2
  <2> HIDE DEF h, Is
  <2> QED BY <2>3
<1>6. \A k \in 0 .. n : k \in Have
  <2> HIDE DEF Have
  <2> QED BY <1>1, <1>4, <1>5, UpTo, Zenon
<1>7. Is(n, run)
  <2>1. n \in Have
    <3> HIDE DEF Have
    <3> QED BY <1>1, <1>6
  <2> HIDE DEF Is
  <2> QED BY <2>1
<1>8. run[0] = Fresh(file) /\ \A k \in 1 .. n : run[k] = After(k, run[k - 1])
  <2>1. 0 \in 0 .. n /\ \A k \in 1 .. n : k \in 0 .. n /\ k # 0
    BY <1>1
  <2> HIDE DEF run
  <2>2. run[0] = [file |-> file, reads |-> << >>]
    BY <1>7, <2>1
  <2>3. ASSUME NEW k \in 1 .. n PROVE run[k] = After(k, run[k - 1])
    <3>1. run[k] = The({After(k, s) : s \in {run[k - 1]}})
      BY <1>7, <2>1
    <3> QED BY <1>3, <3>1
  <2> QED BY <2>2, <2>3 DEF Fresh
<1> HIDE DEF run
<1> QED BY <1>1, <1>2, <1>8 DEF RunsTo, After

\* From the end of the block on: what is live after so many instructions fewer.
LiveBack(b, n, M) ==
  /\ M[0] = liveOut[b]
  /\ \A k \in 1 .. n : M[k] = (M[k - 1] \ VirtualDefs(code[b][n - k + 1])) \cup VirtualUses(code[b][n - k + 1])
  /\ \A i \in 1 .. n : LiveAfterIn(b)[i] = M[n - i]

LEMMA LiveIs ==
  ASSUME NEW b, NEW n \in Nat, n = Len(code[b])
  PROVE  \E M : LiveBack(b, n, M)
<1> DEFINE After(k, S) == (S \ VirtualDefs(code[b][n - k + 1])) \cup VirtualUses(code[b][n - k + 1])
           Is(m, h) == h = [k \in 0 .. m |-> IF k = 0 THEN liveOut[b] ELSE After(k, h[k - 1])]
           live == CHOOSE h : Is(n, h)
           Have == {m \in 0 .. n : \E h : Is(m, h)}
<1>2. LiveAfterIn(b) = [i \in 1 .. n |-> live[n - i]]
  BY DEF LiveAfterIn
<1> HIDE DEF After
<1>4. 0 \in Have
  <2> DEFINE h == [k \in 0 .. 0 |-> liveOut[b]]
  <2>1. \A k \in 0 .. 0 : k = 0
    OBVIOUS
  <2>2. Is(0, h)
    BY <2>1
  <2>3. 0 \in 0 .. n
    OBVIOUS
  <2> HIDE DEF Is, h
  <2> QED BY <2>2, <2>3
<1>5. ASSUME NEW m \in 1 .. n, m - 1 \in Have PROVE m \in Have
  <2>1. PICK g : Is(m - 1, g)
    BY <1>5
  <2> DEFINE last == After(m, g[m - 1])
             h == [k \in 0 .. m |-> IF k = m THEN last ELSE g[k]]
  <2>2. ASSUME NEW k \in 0 .. m PROVE h[k] = IF k = 0 THEN liveOut[b] ELSE After(k, h[k - 1])
    <3>1. CASE k = m
      <4>1. h[m] = last /\ h[m - 1] = g[m - 1] /\ m # 0
        OBVIOUS
      <4> HIDE DEF h
      <4> QED BY <3>1, <4>1
    <3>2. CASE k # m
      <4>1. k \in 0 .. m - 1 /\ h[k] = g[k] /\ (k # 0 => h[k - 1] = g[k - 1])
        BY <3>2
      <4>2. g[k] = IF k = 0 THEN liveOut[b] ELSE After(k, g[k - 1])
        <5> HIDE DEF h
        <5> QED BY <2>1, <4>1
      <4> HIDE DEF h
      <4> QED BY <4>1, <4>2
    <3> QED BY <3>1, <3>2
  <2>3. Is(m, h)
    <3> HIDE DEF last
    <3> QED BY <2>2
  <2> HIDE DEF h, Is
  <2> QED BY <2>3
<1>6. \A k \in 0 .. n : k \in Have
  <2> HIDE DEF Have
  <2> QED BY <1>4, <1>5, UpTo, Zenon
<1>7. Is(n, live)
  <2>1. n \in Have
    <3> HIDE DEF Have
    <3> QED BY <1>6
  <2> HIDE DEF Is
  <2> QED BY <2>1
<1>8. live[0] = liveOut[b] /\ \A k \in 1 .. n : live[k] = After(k, live[k - 1])
  <2>1. 0 \in 0 .. n /\ \A k \in 1 .. n : k \in 0 .. n /\ k # 0
    OBVIOUS
  <2> HIDE DEF live
  <2> QED BY <1>7, <2>1
<1>9. \A i \in 1 .. n : LiveAfterIn(b)[i] = live[n - i]
  <2> HIDE DEF live
  <2> QED BY <1>2
<1> HIDE DEF live
<1>10. LiveBack(b, n, live)
  BY <1>8, <1>9 DEF LiveBack, After
<1> QED BY <1>10

\* v is a register some instruction mentions.
Used(v) == \E p \in Sites : v \in UseSet(At(p)) \cup At(p).def

\* What is live anywhere in the block is mentioned somewhere, and what is live at
\* its start is in its live-in set.
LEMMA LiveWithin ==
  ASSUME CodeOK, NEW b \in Blocks, Balanced(b), liveOut[b] \subseteq Mentioned,
         NEW n \in Nat, n = Len(code[b]), NEW M, LiveBack(b, n, M)
  PROVE  /\ \A k \in 0 .. n : \A v \in M[k] : v \in regs /\ Used(v)
         /\ M[n] \subseteq liveIn[b]
<1>1. DOMAIN code[b] = 1 .. n
  BY DEF CodeOK
<1>2. ASSUME NEW p \in Sites, NEW v \in VirtualUses(At(p)) PROVE v \in regs /\ Used(v)
  <2>1. At(p) \in Instrs(regs) /\ regs \in SUBSET (Nat \ {0})
    BY SiteIs DEF CodeOK
  <2>2. UseSet(At(p)) \subseteq Physical \cup regs
    BY <2>1, InstrIs
  <2>3. v \in UseSet(At(p)) /\ Virtual(v)
    BY DEF VirtualUses
  <2> QED BY <2>2, <2>3, PhysicalIs DEF Used
<1>3. ASSUME NEW v \in Mentioned PROVE v \in regs /\ Used(v)
  <2>1. PICK c \in Blocks : v \in ReadFirst(code[c])
    BY DEF Mentioned, BlockUse
  <2>2. PICK k \in DOMAIN code[c] : v \in VirtualUses(code[c][k])
    BY <2>1 DEF ReadFirst
  <2>3. k \in 1 .. Len(code[c])
    BY <2>2 DEF CodeOK
  <2>4. <<c, k>> \in Sites /\ At(<<c, k>>) = code[c][k]
    BY <2>3, SiteIs
  <2> QED BY <1>2, <2>2, <2>4
<1> DEFINE Within == {k \in 0 .. n : \A v \in M[k] : v \in regs /\ Used(v)}
           First(x, k) == \E m \in n - k + 1 .. n :
                            /\ x \in VirtualUses(code[b][m])
                            /\ \A l \in n - k + 1 .. m - 1 : x \notin VirtualDefs(code[b][l])
           Past(x, k) == x \in liveOut[b] /\ \A l \in n - k + 1 .. n : x \notin VirtualDefs(code[b][l])
           Split == {k \in 0 .. n : \A x \in M[k] : First(x, k) \/ Past(x, k)}
<1>4. 0 \in Within /\ 0 \in Split
  <2>1. M[0] = liveOut[b] /\ ~ \E l \in n - 0 + 1 .. n : TRUE
    BY DEF LiveBack
  <2>2. 0 \in Within
    BY <1>3, <2>1
  <2>3. \A x \in M[0] : Past(x, 0)
    BY <2>1
  <2> HIDE DEF First, Past
  <2> QED BY <2>2, <2>3
<1>5. ASSUME NEW k \in 1 .. n
      PROVE  /\ n - k + 1 \in 1 .. n
             /\ M[k] = (M[k - 1] \ VirtualDefs(code[b][n - k + 1])) \cup VirtualUses(code[b][n - k + 1])
  <2>1. M[k] = (M[k - 1] \ VirtualDefs(code[b][n - k + 1])) \cup VirtualUses(code[b][n - k + 1])
    BY DEF LiveBack
  <2> QED BY <2>1
<1>6. ASSUME NEW k \in 1 .. n, k - 1 \in Within PROVE k \in Within
  <2>1. PICK j : j = n - k + 1 /\ j \in 1 .. n
    BY <1>5
  <2>2. <<b, j>> \in Sites /\ At(<<b, j>>) = code[b][j]
    BY <2>1, SiteIs
  <2>3. \A v \in VirtualUses(code[b][j]) : v \in regs /\ Used(v)
    BY <1>2, <2>2
  <2>4. k \in 0 .. n
    OBVIOUS
  <2> QED BY <1>5, <1>6, <2>1, <2>3, <2>4
<1>7. ASSUME NEW k \in 1 .. n, k - 1 \in Split PROVE k \in Split
  <2>1. PICK j : j = n - k + 1 /\ j \in 1 .. n
    BY <1>5
  <2>2. ASSUME NEW x \in M[k] PROVE First(x, k) \/ Past(x, k)
    <3>1. CASE x \in VirtualUses(code[b][j])
      <4>1. j \in n - k + 1 .. n /\ ~ \E l \in n - k + 1 .. j - 1 : TRUE
        BY <2>1
      <4>2. First(x, k)
        BY <3>1, <4>1
      <4> HIDE DEF First, Past
      <4> QED BY <4>2
    <3>2. CASE x \notin VirtualUses(code[b][j])
      <4>1. x \in M[k - 1] /\ x \notin VirtualDefs(code[b][j])
        BY <1>5, <2>1, <2>2, <3>2
      <4>2. \A l : l \in n - k + 1 .. n => l = j \/ l \in n - (k - 1) + 1 .. n
        BY <2>1
      <4>3. First(x, k - 1) \/ Past(x, k - 1)
        <5> HIDE DEF First, Past
        <5> QED BY <1>7, <4>1
      <4>4. CASE Past(x, k - 1)
        <5>1. Past(x, k)
          BY <4>1, <4>2, <4>4
        <5> HIDE DEF First, Past
        <5> QED BY <5>1
      <4>5. CASE First(x, k - 1)
        <5>1. PICK m \in n - (k - 1) + 1 .. n :
                /\ x \in VirtualUses(code[b][m])
                /\ \A l \in n - (k - 1) + 1 .. m - 1 : x \notin VirtualDefs(code[b][l])
          BY <4>5
        <5>2. m \in n - k + 1 .. n
          BY <5>1
        <5>3. \A l \in n - k + 1 .. m - 1 : l = j \/ l \in n - (k - 1) + 1 .. m - 1
          BY <2>1, <5>1
        <5>4. First(x, k)
          BY <4>1, <5>1, <5>2, <5>3
        <5> HIDE DEF First, Past
        <5> QED BY <5>4
      <4> QED BY <4>3, <4>4, <4>5
    <3> QED BY <3>1, <3>2
  <2>3. k \in 0 .. n
    OBVIOUS
  <2> HIDE DEF First, Past
  <2> QED BY <2>2, <2>3
<1>8. \A k \in 0 .. n : k \in Within
  <2> HIDE DEF Within
  <2> QED BY <1>4, <1>6, UpTo, Zenon
<1>9. \A k \in 0 .. n : k \in Split
  <2> HIDE DEF Split
  <2> QED BY <1>4, <1>7, UpTo, Zenon
<1>10. ASSUME NEW x \in M[n] PROVE x \in liveIn[b]
  <2>1. First(x, n) \/ Past(x, n)
    <3>1. n \in Split
      <4> HIDE DEF Split
      <4> QED BY <1>9
    <3> HIDE DEF First, Past
    <3> QED BY <1>10, <3>1
  <2>2. n - n + 1 = 1
    OBVIOUS
  <2>3. CASE First(x, n)
    <3>1. PICK m \in 1 .. n : x \in VirtualUses(code[b][m]) /\ \A l \in 1 .. m - 1 : x \notin VirtualDefs(code[b][l])
      BY <2>2, <2>3
    <3>2. x \in ReadFirst(code[b])
      BY <1>1, <3>1 DEF ReadFirst
    <3> QED BY <3>2 DEF Balanced, BlockUse
  <2>4. CASE Past(x, n)
    <3>1. x \in liveOut[b] /\ \A l \in 1 .. n : x \notin VirtualDefs(code[b][l])
      BY <2>2, <2>4
    <3>2. x \notin Written(code[b])
      BY <1>1, <3>1 DEF Written
    <3> QED BY <3>1, <3>2 DEF Balanced, BlockDef
  <2> QED BY <2>1, <2>3, <2>4
<1>11. \A k \in 0 .. n : \A v \in M[k] : v \in regs /\ Used(v)
  BY <1>8
<1> QED BY <1>10, <1>11

-----------------------------------------------------------------------------
(* The machine itself *)

Cells == Physical \cup regs

LEMMA CellsAre ==
  ASSUME regs \in SUBSET (Nat \ {0})
  PROVE  Cells \subseteq Int /\ Physical \subseteq Cells /\ regs \subseteq Cells
<1>1. Physical \subseteq Int
  BY PhysicalIs
<1> QED BY <1>1 DEF Cells

LEMMA StepTyped ==
  ASSUME regs \in SUBSET (Nat \ {0}), NEW i \in Instrs(regs), NEW file \in [Cells -> Values],
         NEW side \in Int, NEW t \in Nat
  PROVE  Step(i, file, side, t) \in [Cells -> Values]
<1>1. UseSet(i) \subseteq Cells
  BY InstrIs DEF Cells
<1>2. i.op \in {"load", "store"} => i.slot \in regs
  BY InstrIs
<1>3. i.op = "store" => i.uses[1] \in UseSet(i)
  BY InstrIs
<1>4. Result(i, file, t) \in Values
  <2>1. regs \subseteq Cells /\ (i.op = "load" => i.slot \in Cells)
    BY <1>2, CellsAre
  <2> QED BY <1>1, <2>1, ResultTyped
<1>5. Value("junk", side, t) \in Values
  BY DEF Value, Values
<1>6. i.op = "store" => file[i.uses[1]] \in Values
  BY <1>1, <1>3
<1>7. \A r \in Cells : Step(i, file, side, t)[r] \in Values
  BY <1>4, <1>5, <1>6 DEF Step
<1> QED BY <1>7 DEF Step

\* A holds what F does, where that is not poison.
Tracks(A, F) ==
  /\ A \in [Cells -> Values]
  /\ \A r \in Cells : F[r] # Poison => A[r] = F[r]

\* A step reads and writes the same in both, where the strict one reads no poison.
LEMMA RealStep ==
  ASSUME regs \in SUBSET (Nat \ {0}), NEW i \in Instrs(regs), NEW x, NEW y, Tracks(x.file, y.file),
         NEW side \in Int, NEW t \in Nat, Clean(i, y.file), x.reads = y.reads
  PROVE  /\ Tracks(Step(i, x.file, side, t), StrictStep(i, y.file, t))
         /\ Seen(i, x) = Seen(i, y)
<1>0. PICK A, F : A = x.file /\ F = y.file /\ Tracks(A, F) /\ Clean(i, F)
  OBVIOUS
<1>1. /\ A \in [Cells -> Values] /\ \A r \in Cells : F[r] # Poison => A[r] = F[r]
  BY <1>0 DEF Tracks
<1>2. PICK A1, F1 : A1 = Step(i, A, side, t) /\ F1 = StrictStep(i, F, t)
  OBVIOUS
<1>3. A1 \in [Cells -> Values]
  BY <1>1, <1>2, StepTyped
<1>4. /\ \A k \in DOMAIN i.uses : i.uses[k] \in UseSet(i) /\ i.uses[k] \in Cells
      /\ \A r \in i.imp : r \in Cells
      /\ i.op \in {"move", "store"} => i.uses[1] \in Cells
      /\ i.op \in {"load", "store"} => i.slot \in Cells
  <2>1. UseSet(i) \subseteq Cells
    BY InstrIs DEF Cells
  <2>2. \A k \in DOMAIN i.uses : i.uses[k] \in UseSet(i)
    BY InstrIs
  <2>3. i.op \in {"move", "store"} => 1 \in DOMAIN i.uses
    BY InstrIs
  <2>4. i.imp \subseteq Physical
    BY InstrIs
  <2>5. i.op \in {"load", "store"} => i.slot \in regs
    BY InstrIs
  <2> QED BY <2>1, <2>2, <2>3, <2>4, <2>5 DEF Cells
<1>5. Result(i, F, t) # Poison => Result(i, A, t) = Result(i, F, t)
  BY <1>1, <1>4 DEF Result
<1>6. ASSUME NEW r \in Cells, F1[r] # Poison PROVE A1[r] = F1[r]
  <2>1. r \in Int
    BY CellsAre
  <2>2. /\ F1[r] = IF r \in i.def THEN Result(i, F, t)
                   ELSE IF i.op = "store" /\ r = i.slot THEN F[i.uses[1]]
                   ELSE IF r \in Harmed(i) THEN Poison ELSE F[r]
    BY <1>2, <2>1 DEF StrictStep
  <2>3. /\ A1[r] = IF r \in i.def THEN Result(i, A, t)
                   ELSE IF i.op = "store" /\ r = i.slot THEN A[i.uses[1]]
                   ELSE IF r \in Lost(i) THEN Value("junk", side, t) ELSE A[r]
    BY <1>1, <1>2 DEF Step
  <2>4. Lost(i) \subseteq Harmed(i)
    BY HarmedPhysical
  <2>5. CASE r \in i.def
    BY <1>5, <1>6, <2>2, <2>3, <2>5
  <2>6. CASE r \notin i.def /\ i.op = "store" /\ r = i.slot
    BY <1>1, <1>4, <1>6, <2>2, <2>3, <2>6
  <2>7. CASE r \notin i.def /\ ~ (i.op = "store" /\ r = i.slot)
    BY <1>1, <1>6, <2>2, <2>3, <2>4, <2>7
  <2> QED BY <2>5, <2>6, <2>7
<1>7. Seen(i, x) = Seen(i, y)
  <2>1. CASE i.op \in Silent
    BY <2>1 DEF Seen
  <2>2. CASE i.op \notin Silent
    <3>1. \A r \in UseSet(i) \cup i.imp : F[r] # Poison
      BY <1>0, <2>2 DEF Clean
    <3>2. [k \in DOMAIN i.uses |-> A[i.uses[k]]] = [k \in DOMAIN i.uses |-> F[i.uses[k]]]
      BY <1>1, <1>4, <3>1
    <3>3. [r \in i.imp |-> A[r]] = [r \in i.imp |-> F[r]]
      BY <1>1, <1>4, <3>1
    <3> QED BY <1>0, <2>2, <3>2, <3>3 DEF Seen
  <2> QED BY <2>1, <2>2
<1>8. Tracks(A1, F1)
  BY <1>3, <1>6 DEF Tracks
<1> QED BY <1>0, <1>2, <1>7, <1>8

LEMMA RealBlock ==
  ASSUME regs \in SUBSET (Nat \ {0}), NEW instrs \in Seq(Instrs(regs)), NEW F \in Files, NEW A, Tracks(A, F),
         NEW side \in Int, NEW t \in Nat, NEW s, Goes(instrs, t, Fresh(F), s)
  PROVE  /\ RunBlock(instrs, A, side, t).reads = s.reads
         /\ Tracks(RunBlock(instrs, A, side, t).file, s.file)
<1>1. PICK n \in Nat : n = Len(instrs) /\ \A k \in 1 .. n : instrs[k] \in Instrs(regs)
  OBVIOUS
<1>2. PICK h : /\ h[0] = Fresh(F) /\ h[n] = s
               /\ \A k \in 1 .. n : Clean(instrs[k], h[k - 1].file) /\ h[k] = Follow(instrs[k], h[k - 1], t)
  BY <1>1 DEF Goes
<1>3. PICK u : u = RunBlock(instrs, A, side, t) /\ RunsTo(instrs, A, side, t, u)
  BY <1>1, RunIs
<1>4. PICK g : /\ g[0] = Fresh(A) /\ g[n] = u
               /\ \A k \in 1 .. n :
                    g[k] = [file |-> Step(instrs[k], g[k - 1].file, side, t), reads |-> Seen(instrs[k], g[k - 1])]
  BY <1>1, <1>3 DEF RunsTo
<1> DEFINE Have == {k \in 0 .. n : Tracks(g[k].file, h[k].file) /\ g[k].reads = h[k].reads}
<1>5. 0 \in Have
  <2>1. 0 \in 0 .. n /\ Fresh(A).file = A /\ Fresh(F).file = F /\ Fresh(A).reads = Fresh(F).reads
    BY <1>1 DEF Fresh
  <2> QED BY <1>2, <1>4, <2>1
<1>6. ASSUME NEW k \in 1 .. n, k - 1 \in Have PROVE k \in Have
  <2>1. PICK i, x, y : i = instrs[k] /\ x = g[k - 1] /\ y = h[k - 1] /\ i \in Instrs(regs)
    BY <1>1
  <2>2. Tracks(x.file, y.file) /\ x.reads = y.reads /\ Clean(i, y.file)
    BY <1>2, <1>6, <2>1
  <2>3. /\ g[k] = [file |-> Step(i, x.file, side, t), reads |-> Seen(i, x)]
        /\ h[k] = Follow(i, y, t)
    BY <1>2, <1>4, <2>1
  <2>4. /\ g[k].file = Step(i, x.file, side, t) /\ g[k].reads = Seen(i, x)
        /\ h[k].file = StrictStep(i, y.file, t) /\ h[k].reads = Seen(i, y)
    BY <2>3 DEF Follow
  <2>5. /\ Tracks(Step(i, x.file, side, t), StrictStep(i, y.file, t))
        /\ Seen(i, x) = Seen(i, y)
    BY <2>1, <2>2, RealStep
  <2>6. k \in 0 .. n
    OBVIOUS
  <2> QED BY <2>4, <2>5, <2>6
<1>7. \A k \in 0 .. n : k \in Have
  <2> HIDE DEF Have
  <2> QED BY <1>1, <1>5, <1>6, UpTo, Zenon
<1>8. Tracks(g[n].file, h[n].file) /\ g[n].reads = h[n].reads
  BY <1>7
<1> QED BY <1>2, <1>3, <1>4, <1>8

-----------------------------------------------------------------------------
(* Registers in their colors *)

\* B, of the colored function, holds what G does: a live register in its color, a
\* physical one and a spill slot in itself.
Held(B, G, live) ==
  /\ B \in [Cells -> Values]
  /\ \A r \in Physical : G[r] # Poison => B[r] = G[r]
  /\ \A r \in regs : r \in live /\ G[r] # Poison => B[color[r]] = G[r]
  /\ \A r \in regs : ~ Used(r) /\ G[r] # Poison => B[r] = G[r]

\* The name a register has once the colors are in place.
Named(r) == IF r \in regs THEN color[r] ELSE r

LEMMA ColorsAre ==
  ASSUME CodeOK, NEW live, Coloring(live)
  PROVE  /\ DOMAIN color = regs
         /\ \A r \in regs : color[r] \in Range(Palette) /\ color[r] \in Physical /\ color[r] \notin regs
         /\ \A r \in Physical : r \notin regs /\ ~ Virtual(r)
         /\ \A r \in regs : r \notin Physical /\ Virtual(r)
         /\ \A r \in Physical \cup regs : Named(r) \in Cells
<1>1. regs \in SUBSET (Nat \ {0}) /\ color \in [regs -> Range(Palette)]
  BY DEF CodeOK, Coloring
<1>2. \A r \in regs : r \notin Physical /\ Virtual(r)
  BY <1>1, NameIs
<1>3. \A r \in Physical : r \notin regs /\ ~ Virtual(r)
  BY <1>2, PhysicalIs
<1>4. \A r \in regs : color[r] \in Range(Palette) /\ color[r] \in Physical /\ color[r] \notin regs
  BY <1>1, <1>3, PhysicalIs
<1>5. \A r \in Physical \cup regs : Named(r) \in Cells
  BY <1>4 DEF Named, Cells
<1> QED BY <1>1, <1>2, <1>3, <1>4, <1>5

\* Renaming a colored instruction.
LEMMA ColoredIs ==
  ASSUME CodeOK, NEW live, Coloring(live), NEW p \in Sites, NEW c, c = Substitute(At(p), color)
  PROVE  /\ c \in Instrs(regs)
         /\ c.op = At(p).op /\ c.imp = At(p).imp /\ c.slot = At(p).slot /\ c.id = At(p).id
         /\ c.def = {Named(d) : d \in At(p).def}
         /\ DOMAIN c.uses = DOMAIN At(p).uses
         /\ \A k \in DOMAIN At(p).uses : c.uses[k] = Named(At(p).uses[k])
<1>1. At(p) \in Instrs(regs) /\ regs \in SUBSET (Nat \ {0})
  BY SiteIs DEF CodeOK
<1>2. DOMAIN color = regs /\ \A r \in regs : color[r] \in Physical
  BY ColorsAre
<1>3. /\ c.op = At(p).op /\ c.imp = At(p).imp /\ c.slot = At(p).slot /\ c.id = At(p).id
      /\ c.def = {IF d \in DOMAIN color THEN color[d] ELSE d : d \in At(p).def}
      /\ c.uses = [k \in DOMAIN At(p).uses |->
                     IF At(p).uses[k] \in DOMAIN color THEN color[At(p).uses[k]] ELSE At(p).uses[k]]
  BY <1>1, SubstituteIs
<1>4. c \in Instrs(regs)
  <2>1. \A d \in DOMAIN color : color[d] \in Physical \cup regs
    BY <1>2
  <2>2. Substitute(At(p), color) \in Instrs(regs)
    BY <1>1, <2>1, SubstituteTyped
  <2> QED BY <2>2
<1>5. c.def = {Named(d) : d \in At(p).def}
  BY <1>2, <1>3 DEF Named
<1>6. /\ DOMAIN c.uses = DOMAIN At(p).uses
      /\ \A k \in DOMAIN At(p).uses : c.uses[k] = Named(At(p).uses[k])
  BY <1>2, <1>3 DEF Named
<1> QED BY <1>3, <1>4, <1>5, <1>6

\* What the renamed instruction reads and gives.
LEMMA ColoredReads ==
  ASSUME CodeOK, NEW live, Coloring(live), NEW p \in Sites, NEW c, c = Substitute(At(p), color),
         NEW now, VirtualUses(At(p)) \subseteq now, NEW B, NEW G, Held(B, G, now), NEW t
  PROVE  /\ \A r \in UseSet(At(p)) : G[r] # Poison => B[Named(r)] = G[r]
         /\ Result(At(p), G, t) # Poison => Result(c, B, t) = Result(At(p), G, t)
         /\ At(p).op = "store" /\ G[At(p).uses[1]] # Poison => B[c.uses[1]] = G[At(p).uses[1]]
<1>1. PICK i : i = At(p) /\ i \in Instrs(regs) /\ regs \in SUBSET (Nat \ {0})
  BY SiteIs DEF CodeOK
<1>2. ASSUME NEW r \in UseSet(i), G[r] # Poison PROVE B[Named(r)] = G[r]
  <2>1. UseSet(i) \subseteq Physical \cup regs
    BY <1>1, InstrIs
  <2>2. CASE r \in regs
    <3>1. Virtual(r)
      BY <2>2, ColorsAre
    <3>2. r \in now
      BY <1>1, <3>1 DEF VirtualUses
    <3> QED BY <1>2, <2>2, <3>2 DEF Held, Named
  <2>3. CASE r \notin regs
    BY <1>2, <2>1, <2>3 DEF Held, Named
  <2> QED BY <2>2, <2>3
<1>3. i.op \in {"move", "store"} => i.uses[1] \in UseSet(i) /\ 1 \in DOMAIN i.uses
  BY <1>1, InstrIs
<1>4. i.op = "load" => i.slot \in regs /\ ~ Used(i.slot)
  <2>1. i.op \in {"load", "store"} => i.slot \in regs
    BY <1>1, InstrIs
  <2> QED BY <1>1, <2>1 DEF Used, CodeOK, SlotsApart
<1>5. c.op = i.op /\ c.id = i.id /\ c.slot = i.slot
  BY <1>1, ColoredIs
<1>6. \A k \in DOMAIN i.uses : c.uses[k] = Named(i.uses[k])
  BY <1>1, ColoredIs
<1>7. ASSUME i.op \in {"move", "store"}, G[i.uses[1]] # Poison PROVE B[c.uses[1]] = G[i.uses[1]]
  BY <1>2, <1>3, <1>6, <1>7
<1>8. ASSUME i.op = "load", G[i.slot] # Poison PROVE B[i.slot] = G[i.slot]
  BY <1>4, <1>8 DEF Held
<1>9. Result(i, G, t) # Poison => Result(c, B, t) = Result(i, G, t)
  BY <1>5, <1>7, <1>8 DEF Result
<1> QED BY <1>1, <1>2, <1>7, <1>9

\* What a live register does not share its color with.
LEMMA ColorKept ==
  ASSUME CodeOK, NEW live, Coloring(live), NEW p \in Sites, NEW later, later = live[p[1]][p[2]],
         NEW r \in regs, r \in later, r \notin At(p).def,
         NEW c, c = Substitute(At(p), color)
  PROVE  /\ color[r] \notin Lost(At(p))
         /\ color[r] \in c.def => IsVirtualMove(At(p)) /\ r = At(p).uses[1]
<1>1. PICK i : i = At(p)
  OBVIOUS
<1>2. color[r] \notin Takes(i, r, later)
  BY <1>1 DEF Coloring
<1>3. color[r] \in Range(Palette) /\ color[r] \in Physical
  BY ColorsAre
<1>4. color[r] \notin Lost(i)
  <2>1. i.op = "call" => color[r] \notin CallerSaved
    BY <1>1, <1>2 DEF Takes
  <2>2. i.op = "memzero" => color[r] \notin ZeroClobbers
    BY <1>2 DEF Takes
  <2> QED BY <1>3, <2>1, <2>2, RegistersAssumption DEF Lost
<1>5. ASSUME color[r] \in c.def PROVE IsVirtualMove(i) /\ r = i.uses[1]
  <2>1. PICK d \in i.def : color[r] = Named(d)
    <3>1. c.def = {Named(d) : d \in i.def}
      BY <1>1, ColoredIs
    <3> QED BY <1>5, <3>1
  <2>2. CASE d \in regs
    <3>1. color[r] = color[d] /\ d # r
      BY <1>1, <2>1, <2>2 DEF Named
    <3>2. ~ Interfere(d, r, live)
      BY <2>2, <3>1 DEF Coloring
    <3>3. ~ DefMeets(i, d, r, later)
      BY <1>1, <3>1, <3>2 DEF Interfere
    <3> QED BY <3>3 DEF DefMeets
  <2>3. CASE d \notin regs
    <3>1. color[r] = d /\ ~ Virtual(d)
      BY <1>3, <2>1, <2>3, ColorsAre DEF Named
    <3>2. d \in Takes(i, r, later)
      BY <3>1 DEF Takes
    <3> QED BY <1>2, <3>1, <3>2
  <2> QED BY <2>2, <2>3
<1> QED BY <1>1, <1>4, <1>5

\* c keeps in x what i does in y, and reads the same.
Kept(i, c, x, y, side, t, later) ==
  /\ Held(Step(c, x.file, side, t), StrictStep(i, y.file, t), later)
  /\ Seen(c, x) = Seen(i, y)

\* One instruction: the colors keep what is live, and it reads the same.
LEMMA ColoredStep ==
  ASSUME CodeOK, NEW live, Coloring(live), NEW p \in Sites, NEW c, c = Substitute(At(p), color),
         NEW later, later = live[p[1]][p[2]], \A r \in later : r \in regs /\ Used(r),
         NEW now, now = (later \ VirtualDefs(At(p))) \cup VirtualUses(At(p)),
         NEW x, NEW y, Held(x.file, y.file, now), Clean(At(p), y.file), x.reads = y.reads,
         NEW side \in Int, NEW t \in Nat
  PROVE  Kept(At(p), c, x, y, side, t, later)
<1>1. PICK i : i = At(p) /\ i \in Instrs(regs) /\ regs \in SUBSET (Nat \ {0})
  BY SiteIs DEF CodeOK
<1>2. PICK B, G : B = x.file /\ G = y.file /\ Held(B, G, now) /\ Clean(i, G)
  BY <1>1
<1>3. PICK C, H : C = Step(c, B, side, t) /\ H = StrictStep(i, G, t)
  OBVIOUS
<1>4. c \in Instrs(regs)
  BY ColoredIs
<1>5. c.op = i.op /\ c.imp = i.imp /\ c.slot = i.slot /\ c.id = i.id
  BY <1>1, ColoredIs
<1>6. c.def = {Named(d) : d \in i.def}
  BY <1>1, ColoredIs
<1>7. B \in [Cells -> Values]
  BY <1>2 DEF Held
<1>8. C \in [Cells -> Values]
  BY <1>1, <1>3, <1>4, <1>7, StepTyped
<1>9. VirtualUses(i) \subseteq now
  BY <1>1
<1>10. \A r \in UseSet(i) : G[r] # Poison => B[Named(r)] = G[r]
  BY <1>1, <1>2, <1>9, ColoredReads
<1>11. Result(i, G, t) # Poison => Result(c, B, t) = Result(i, G, t)
  <2>1. VirtualUses(At(p)) \subseteq now /\ Held(B, G, now)
    BY <1>1, <1>2, <1>9
  <2>2. Result(At(p), G, t) # Poison => Result(c, B, t) = Result(At(p), G, t)
    BY <2>1, ColoredReads
  <2> QED BY <1>1, <2>2
<1>12. i.op = "store" /\ G[i.uses[1]] # Poison => B[c.uses[1]] = G[i.uses[1]]
  <2>1. VirtualUses(At(p)) \subseteq now /\ Held(B, G, now)
    BY <1>1, <1>2, <1>9
  <2>2. At(p).op = "store" /\ G[At(p).uses[1]] # Poison => B[c.uses[1]] = G[At(p).uses[1]]
    BY <2>1, ColoredReads
  <2> QED BY <1>1, <2>2
<1>13. \A r \in Cells : C[r] = IF r \in c.def THEN Result(c, B, t)
                              ELSE IF i.op = "store" /\ r = i.slot THEN B[c.uses[1]]
                              ELSE IF r \in Lost(i) THEN Value("junk", side, t) ELSE B[r]
  BY <1>3, <1>5, <1>7 DEF Step, Lost
<1>14. \A r \in Int : H[r] = IF r \in i.def THEN Result(i, G, t)
                             ELSE IF i.op = "store" /\ r = i.slot THEN G[i.uses[1]]
                             ELSE IF r \in Harmed(i) THEN Poison ELSE G[r]
  BY <1>3 DEF StrictStep
<1>15. i.op = "store" => i.slot \in regs /\ ~ Used(i.slot)
  <2>1. i.op \in {"load", "store"} => i.slot \in regs
    BY <1>1, InstrIs
  <2> QED BY <1>1, <2>1 DEF Used, CodeOK, SlotsApart
<1>16. Harmed(i) \subseteq Physical /\ Lost(i) \subseteq Harmed(i)
  BY HarmedPhysical
<1>17. Cells \subseteq Int /\ Physical \subseteq Cells /\ regs \subseteq Cells
  BY <1>1, CellsAre
<1>18. ASSUME NEW r \in Physical, H[r] # Poison PROVE C[r] = H[r]
  <2>1. r \notin regs /\ Named(r) = r
    BY ColorsAre DEF Named
  <2>2. CASE r \in i.def
    <3>1. r \in c.def
      BY <1>6, <2>1, <2>2
    <3> QED BY <1>11, <1>13, <1>14, <1>17, <1>18, <2>2, <3>1
  <2>3. CASE r \notin i.def
    <3>1. ~ (i.op = "store" /\ r = i.slot)
      BY <1>15, <2>1
    <3>2. r \notin Harmed(i) /\ H[r] = G[r]
      BY <1>14, <1>17, <1>18, <2>3, <3>1
    <3>3. r \notin c.def
      <4> SUFFICES ASSUME NEW d \in i.def, r = Named(d) PROVE FALSE
        BY <1>6
      <4>1. d \in regs /\ r = color[d]
        BY <2>3 DEF Named
      <4>2. d \in VirtualDefs(i) /\ r \in Range(Palette)
        BY <4>1, ColorsAre DEF VirtualDefs
      <4>3. r \in i.imp
        BY <3>2, <4>2 DEF Harmed
      <4>4. r \in Takes(i, d, later)
        BY <4>3 DEF Takes
      <4>5. color[d] \notin Takes(i, d, later)
        BY <1>1, <4>1 DEF Coloring
      <4> QED BY <4>1, <4>4, <4>5
    <3>4. C[r] = B[r]
      BY <1>13, <1>16, <1>17, <3>1, <3>2, <3>3
    <3> QED BY <1>2, <1>18, <3>2, <3>4 DEF Held
  <2> QED BY <2>2, <2>3
<1>19. ASSUME NEW r \in regs, r \in later, H[r] # Poison PROVE C[color[r]] = H[r]
  <2>1. color[r] \in Physical /\ color[r] \notin regs /\ Named(r) = color[r] /\ r \notin Physical
    BY ColorsAre DEF Named
  <2>2. CASE r \in i.def
    <3>1. color[r] \in c.def
      BY <1>6, <2>1, <2>2
    <3> QED BY <1>11, <1>13, <1>14, <1>17, <1>19, <2>1, <2>2, <3>1
  <2>3. CASE r \notin i.def
    <3>1. ~ (i.op = "store" /\ r = i.slot)
      BY <1>15, <1>19
    <3>2. H[r] = G[r]
      BY <1>14, <1>16, <1>17, <2>1, <2>3, <3>1
    <3>3. r \in now
      BY <1>1, <1>19, <2>3 DEF VirtualDefs
    <3>4. B[color[r]] = G[r]
      BY <1>2, <1>19, <3>2, <3>3 DEF Held
    <3>5. color[r] \notin Lost(i) /\ (color[r] \in c.def => IsVirtualMove(i) /\ r = i.uses[1])
      BY <1>1, <1>19, <2>3, ColorKept
    <3>6. CASE color[r] \in c.def
      <4>1. i.op = "move" /\ r = i.uses[1] /\ 1 \in DOMAIN i.uses
        <5>1. i.op \in {"move", "store"} => 1 \in DOMAIN i.uses
          BY <1>1, InstrIs
        <5> QED BY <3>5, <3>6, <5>1 DEF IsVirtualMove
      <4>2. c.uses[1] = color[r]
        <5>1. \A k \in DOMAIN i.uses : c.uses[k] = Named(i.uses[k])
          BY <1>1, ColoredIs
        <5> QED BY <2>1, <4>1, <5>1
      <4>3. Result(c, B, t) = B[color[r]]
        BY <1>5, <4>1, <4>2 DEF Result
      <4> QED BY <1>13, <1>17, <2>1, <3>2, <3>4, <3>6, <4>3
    <3>7. CASE color[r] \notin c.def
      <4>1. ~ (i.op = "store" /\ color[r] = i.slot)
        BY <1>15, <2>1
      <4> QED BY <1>13, <1>17, <2>1, <3>2, <3>4, <3>5, <3>7, <4>1
    <3> QED BY <3>6, <3>7
  <2> QED BY <2>2, <2>3
<1>20. ASSUME NEW r \in regs, ~ Used(r), H[r] # Poison PROVE C[r] = H[r]
  <2>1. r \notin i.def /\ r \notin Physical
    BY <1>1, <1>20, ColorsAre DEF Used
  <2>2. r \notin c.def
    <3> SUFFICES ASSUME NEW d \in i.def, r = Named(d) PROVE FALSE
      BY <1>6
    <3> QED BY <2>1, ColorsAre DEF Named
  <2>3. r \notin Harmed(i) /\ r \notin Lost(i)
    BY <1>16, <2>1
  <2>4. CASE i.op = "store" /\ r = i.slot
    BY <1>12, <1>13, <1>14, <1>17, <1>20, <2>1, <2>2, <2>4
  <2>5. CASE ~ (i.op = "store" /\ r = i.slot)
    <3>1. H[r] = G[r] /\ C[r] = B[r]
      BY <1>13, <1>14, <1>17, <2>1, <2>2, <2>3, <2>5
    <3> QED BY <1>2, <1>20, <3>1 DEF Held
  <2> QED BY <2>4, <2>5
<1>21. Seen(c, x) = Seen(i, y)
  <2>1. CASE i.op \in Silent
    BY <1>5, <2>1 DEF Seen
  <2>2. CASE i.op \notin Silent
    <3>1. \A r \in UseSet(i) \cup i.imp : G[r] # Poison
      BY <1>2, <2>2 DEF Clean
    <3>2. \A k \in DOMAIN i.uses : i.uses[k] \in UseSet(i)
      BY <1>1, InstrIs
    <3>3. \A k \in DOMAIN i.uses : c.uses[k] = Named(i.uses[k])
      BY <1>1, ColoredIs
    <3>4. DOMAIN c.uses = DOMAIN i.uses
      BY <1>1, ColoredIs
    <3>5. [k \in DOMAIN c.uses |-> B[c.uses[k]]] = [k \in DOMAIN i.uses |-> G[i.uses[k]]]
      BY <1>10, <3>1, <3>2, <3>3, <3>4
    <3>6. i.imp \subseteq Physical
      BY <1>1, InstrIs
    <3>7. [r \in c.imp |-> B[r]] = [r \in i.imp |-> G[r]]
      BY <1>2, <1>5, <3>1, <3>6 DEF Held
    <3> QED BY <1>2, <1>5, <2>2, <3>5, <3>7 DEF Seen
  <2> QED BY <2>1, <2>2
<1>22. Held(C, H, later)
  BY <1>8, <1>18, <1>19, <1>20 DEF Held
<1> QED BY <1>1, <1>2, <1>3, <1>21, <1>22 DEF Kept

\* A block of the colored function, beside what the code did.
LEMMA ColoredBlock ==
  ASSUME CodeOK, NEW live, live = [b \in Blocks |-> LiveAfterIn(b)], Coloring(live),
         NEW b \in Blocks, Balanced(b), liveOut[b] \subseteq Mentioned,
         NEW instrs, instrs = [k \in DOMAIN code[b] |-> Substitute(code[b][k], color)],
         NEW G, NEW B, Held(B, G, liveIn[b]), NEW side \in Int, NEW t \in Nat,
         NEW s, Goes(code[b], t, Fresh(G), s)
  PROVE  /\ RunBlock(instrs, B, side, t).reads = s.reads
         /\ Held(RunBlock(instrs, B, side, t).file, s.file, liveOut[b])
<1>1. PICK n \in Nat : n = Len(code[b]) /\ DOMAIN code[b] = 1 .. n
  BY DEF CodeOK
<1>2. DOMAIN instrs = 1 .. n /\ Len(instrs) = n
  BY <1>1
<1>3. \A k \in 1 .. n : /\ <<b, k>> \in Sites /\ At(<<b, k>>) = code[b][k]
                        /\ instrs[k] = Substitute(At(<<b, k>>), color)
  <2>1. \A k \in 1 .. n : <<b, k>> \in Sites /\ At(<<b, k>>) = code[b][k]
    BY <1>1, SiteIs
  <2> QED BY <1>1, <2>1
<1>4. PICK M : LiveBack(b, n, M)
  BY <1>1, LiveIs
<1>5. \A k \in 0 .. n : \A v \in M[k] : v \in regs /\ Used(v)
  BY <1>1, <1>4, LiveWithin
<1>6. M[n] \subseteq liveIn[b]
  BY <1>1, <1>4, LiveWithin
<1>7. /\ M[0] = liveOut[b]
      /\ \A k \in 1 .. n : live[b][k] = M[n - k]
      /\ \A k \in 1 .. n : M[n - (k - 1)] = (M[n - k] \ VirtualDefs(code[b][k])) \cup VirtualUses(code[b][k])
  <2>1. M[0] = liveOut[b] /\ \A k \in 1 .. n : live[b][k] = M[n - k]
    BY <1>4 DEF LiveBack
  <2>2. ASSUME NEW k \in 1 .. n
        PROVE  M[n - (k - 1)] = (M[n - k] \ VirtualDefs(code[b][k])) \cup VirtualUses(code[b][k])
    <3>0. PICK j : j = n - k + 1
      OBVIOUS
    <3>1. j \in 1 .. n /\ j - 1 = n - k /\ n - j + 1 = k /\ j = n - (k - 1)
      <4>1. n \in Int /\ k \in Int /\ 1 <= k /\ k <= n
        OBVIOUS
      <4> QED BY <3>0, <4>1
    <3>2. M[j] = (M[j - 1] \ VirtualDefs(code[b][n - j + 1])) \cup VirtualUses(code[b][n - j + 1])
      BY <1>4, <3>1 DEF LiveBack
    <3> QED BY <3>1, <3>2
  <2> QED BY <2>1, <2>2
<1>8. PICK h : /\ h[0] = Fresh(G) /\ h[n] = s
               /\ \A k \in 1 .. n : Clean(code[b][k], h[k - 1].file) /\ h[k] = Follow(code[b][k], h[k - 1], t)
  BY <1>1 DEF Goes
<1>9. PICK u : u = RunBlock(instrs, B, side, t) /\ RunsTo(instrs, B, side, t, u)
  BY <1>2, RunIs
<1>10. PICK g : /\ g[0] = Fresh(B) /\ g[n] = u
                /\ \A k \in 1 .. n :
                     g[k] = [file |-> Step(instrs[k], g[k - 1].file, side, t), reads |-> Seen(instrs[k], g[k - 1])]
  BY <1>2, <1>9 DEF RunsTo
<1> DEFINE Have == {k \in 0 .. n : Held(g[k].file, h[k].file, M[n - k]) /\ g[k].reads = h[k].reads}
<1>11. 0 \in Have
  <2>1. /\ 0 \in 0 .. n /\ n - 0 = n
        /\ Fresh(B).file = B /\ Fresh(G).file = G /\ Fresh(B).reads = Fresh(G).reads
    BY <1>1 DEF Fresh
  <2>2. Held(B, G, M[n])
    BY <1>6 DEF Held
  <2> QED BY <1>8, <1>10, <2>1, <2>2
<1>12. ASSUME NEW k \in 1 .. n, k - 1 \in Have PROVE k \in Have
  <2>1. PICK p, c, x, y : p = <<b, k>> /\ c = instrs[k] /\ x = g[k - 1] /\ y = h[k - 1]
    OBVIOUS
  <2>2. PICK later, now : later = M[n - k] /\ now = M[n - (k - 1)]
    OBVIOUS
  <2>3. p \in Sites /\ At(p) = code[b][k] /\ c = Substitute(At(p), color) /\ p[1] = b /\ p[2] = k
    BY <1>3, <2>1
  <2>4. later = live[p[1]][p[2]] /\ now = (later \ VirtualDefs(At(p))) \cup VirtualUses(At(p))
    BY <1>7, <2>2, <2>3
  <2>5. \A r \in later : r \in regs /\ Used(r)
    <3>1. n - k \in 0 .. n
      BY <1>1
    <3> QED BY <1>5, <2>2, <3>1
  <2>6. Held(x.file, y.file, now) /\ x.reads = y.reads
    BY <1>12, <2>1, <2>2
  <2>7. Clean(At(p), y.file)
    BY <1>8, <2>1, <2>3
  <2>8. /\ Held(Step(c, x.file, side, t), StrictStep(At(p), y.file, t), later)
        /\ Seen(c, x) = Seen(At(p), y)
    <3>1. Kept(At(p), c, x, y, side, t, later)
      BY <2>3, <2>4, <2>5, <2>6, <2>7, ColoredStep
    <3> QED BY <3>1 DEF Kept
  <2>10. /\ g[k] = [file |-> Step(c, x.file, side, t), reads |-> Seen(c, x)]
         /\ h[k] = [file |-> StrictStep(At(p), y.file, t), reads |-> Seen(At(p), y)]
    BY <1>8, <1>10, <2>1, <2>3 DEF Follow
  <2>11. k \in 0 .. n
    OBVIOUS
  <2>12. Held(g[k].file, h[k].file, M[n - k]) /\ g[k].reads = h[k].reads
    BY <2>2, <2>8, <2>10
  <2> QED BY <2>11, <2>12
<1>13. \A k \in 0 .. n : k \in Have
  <2> HIDE DEF Have
  <2> QED BY <1>1, <1>11, <1>12, UpTo, Zenon
<1>14. Held(g[n].file, h[n].file, M[0]) /\ g[n].reads = h[n].reads
  <2>1. n \in Have /\ n - n = 0
    <3> HIDE DEF Have
    <3> QED BY <1>1, <1>13
  <2> QED BY <2>1
<1> QED BY <1>7, <1>8, <1>9, <1>10, <1>14

-----------------------------------------------------------------------------
(* Both functions, side by side *)

\* R relates the register files of the two at the start of a block, so that they
\* read the same as long as they run.
Agrees(R) ==
  /\ <<1, 0, EntryFile(Physical \cup regs, 0), EntryFile(Physical \cup regs, 1)>> \in R
  /\ \A b, t, A, B : <<b, t, A, B>> \in R =>
       /\ RunBlock(original[b], A, 0, t).reads = RunBlock(code[b], B, 1, t).reads
       /\ \A c \in succ[b] :
            <<c, t + 1, RunBlock(original[b], A, 0, t).file, RunBlock(code[b], B, 1, t).file>> \in R

\* On entry.
LEMMA EntryHeld ==
  ASSUME CodeOK, NEW S, NEW side \in Int
  PROVE  /\ EntryFile(Cells, side) \in [Cells -> Values]
         /\ Tracks(EntryFile(Cells, side), EntryPoisoned)
         /\ Held(EntryFile(Cells, side), EntryPoisoned, S)
<1>1. regs \in SUBSET (Nat \ {0})
  BY DEF CodeOK
<1>2. Cells \subseteq Int
  BY <1>1, CellsAre
<1>3. PICK E : E = EntryFile(Cells, side)
  OBVIOUS
<1>4. /\ DOMAIN E = Cells /\ E = [r \in Cells |-> E[r]]
      /\ \A r \in Cells : E[r] = IF Virtual(r) THEN Value("undef", side, 0) ELSE Value("entry", r, 0)
  BY <1>3 DEF EntryFile
<1>5. \A r \in Cells : E[r] \in Values
  <2>1. ASSUME NEW r \in Cells PROVE Value("undef", side, 0) \in Values /\ Value("entry", r, 0) \in Values
    BY <1>2 DEF Value, Values
  <2> QED BY <1>4, <2>1
<1>6. \A r \in Physical : E[r] = EntryPoisoned[r]
  BY <1>4, EntryTyped, PhysicalIs DEF Cells
<1>7. \A r \in regs : EntryPoisoned[r] = Poison
  <2>1. ASSUME NEW r \in regs PROVE EntryPoisoned[r] = Poison
    <3>1. r \in Int /\ r \notin Physical
      BY <1>1, NameIs
    <3> QED BY <3>1 DEF EntryPoisoned
  <2> QED BY <2>1
<1>8. E \in [Cells -> Values]
  BY <1>4, <1>5
<1>9. Tracks(E, EntryPoisoned)
  BY <1>6, <1>7, <1>8 DEF Tracks, Cells
<1>10. Held(E, EntryPoisoned, S)
  BY <1>6, <1>7, <1>8 DEF Held
<1> QED BY <1>3, <1>8, <1>9, <1>10

\* The colors in place, what code does is still done.
LEMMA ApplySound ==
  ASSUME CodeOK, \A b \in Blocks : original[b] \in Seq(Instrs(regs)),
         \A b \in Blocks : Balanced(b) /\ liveOut[b] \subseteq Mentioned,
         NEW live, live = [b \in Blocks |-> LiveAfterIn(b)], Coloring(live),
         NEW S, Simulates(S), Apply
  PROVE  \E R : Agrees(R)'
<1>1. /\ regs' = regs /\ original' = original /\ succ' = succ
      /\ code' = [b \in Blocks |-> [i \in DOMAIN code[b] |-> Substitute(code[b][i], color)]]
  BY DEF Apply
<1>2. regs \in SUBSET (Nat \ {0}) /\ 1 \in Blocks
  BY DEF CodeOK, ShapeOK
<1>3. PICK R : R = {x \in Blocks \X Nat \X [Cells -> Values] \X [Cells -> Values] :
                      \E F, G \in Files : /\ <<x[1], x[2], F, G>> \in S
                                          /\ Tracks(x[3], F) /\ Held(x[4], G, liveIn[x[1]])}
  OBVIOUS
<1>4. <<1, 0, EntryFile(Cells, 0), EntryFile(Cells, 1)>> \in R
  <2>1. <<1, 0, EntryPoisoned, EntryPoisoned>> \in S /\ EntryPoisoned \in Files
    BY EntryTyped DEF Simulates
  <2>2. /\ EntryFile(Cells, 0) \in [Cells -> Values] /\ Tracks(EntryFile(Cells, 0), EntryPoisoned)
        /\ EntryFile(Cells, 1) \in [Cells -> Values] /\ Held(EntryFile(Cells, 1), EntryPoisoned, liveIn[1])
    <3>1. 0 \in Int /\ 1 \in Int
      OBVIOUS
    <3>2. EntryFile(Cells, 0) \in [Cells -> Values] /\ Tracks(EntryFile(Cells, 0), EntryPoisoned)
      BY <3>1, EntryHeld
    <3>3. /\ EntryFile(Cells, 1) \in [Cells -> Values]
          /\ Held(EntryFile(Cells, 1), EntryPoisoned, liveIn[1])
      BY <3>1, EntryHeld
    <3> QED BY <3>2, <3>3
  <2> QED BY <1>2, <1>3, <2>1, <2>2
<1>5. ASSUME NEW b, NEW t, NEW A, NEW B, <<b, t, A, B>> \in R
      PROVE  /\ RunBlock(original[b], A, 0, t).reads = RunBlock(code'[b], B, 1, t).reads
             /\ \A c \in succ[b] :
                  <<c, t + 1, RunBlock(original[b], A, 0, t).file, RunBlock(code'[b], B, 1, t).file>> \in R
  <2>1. PICK F \in Files, G \in Files : <<b, t, F, G>> \in S /\ Tracks(A, F) /\ Held(B, G, liveIn[b])
    BY <1>3, <1>5
  <2>2. b \in Blocks /\ t \in Nat
    BY <1>3, <1>5
  <2>3. PICK s, u : /\ Goes(original[b], t, Fresh(F), s)
                    /\ Goes(code[b], t, Fresh(G), u)
                    /\ s.reads = u.reads
                    /\ \A c \in succ[b] : <<c, t + 1, s.file, u.file>> \in S
    BY <2>1 DEF Simulates
  <2>4. PICK x, y : x = RunBlock(original[b], A, 0, t) /\ y = RunBlock(code'[b], B, 1, t)
    OBVIOUS
  <2>5. x.reads = s.reads /\ Tracks(x.file, s.file)
    BY <1>2, <2>1, <2>2, <2>3, <2>4, RealBlock
  <2>6. PICK instrs : instrs = [k \in DOMAIN code[b] |-> Substitute(code[b][k], color)]
    OBVIOUS
  <2>7. y = RunBlock(instrs, B, 1, t)
    BY <1>1, <2>2, <2>4, <2>6
  <2>8. y.reads = u.reads /\ Held(y.file, u.file, liveOut[b])
    <3>1. /\ RunBlock(instrs, B, 1, t).reads = u.reads
          /\ Held(RunBlock(instrs, B, 1, t).file, u.file, liveOut[b])
      <4>1. Balanced(b) /\ liveOut[b] \subseteq Mentioned /\ 1 \in Int
        BY <2>2
      <4> QED BY <2>1, <2>2, <2>3, <2>6, <4>1, ColoredBlock
    <3> QED BY <2>7, <3>1
  <2>9. ASSUME NEW c \in succ[b] PROVE <<c, t + 1, x.file, y.file>> \in R
    <3>1. <<c, t + 1, s.file, u.file>> \in S
      BY <2>3
    <3>2. c \in Blocks /\ t + 1 \in Nat /\ s.file \in Files /\ u.file \in Files
      BY <3>1 DEF Simulates
    <3>3. liveIn[c] \subseteq liveOut[b]
      BY <2>2 DEF Balanced
    <3>4. Held(y.file, u.file, liveIn[c])
      BY <2>8, <3>3 DEF Held
    <3>5. x.file \in [Cells -> Values] /\ y.file \in [Cells -> Values]
      BY <2>5, <2>8 DEF Tracks, Held
    <3> QED BY <1>3, <2>5, <3>1, <3>2, <3>4, <3>5
  <2> QED BY <2>3, <2>4, <2>5, <2>8, <2>9
<1>6. <<1, 0, EntryFile(Physical \cup regs, 0), EntryFile(Physical \cup regs, 1)>> \in R
  BY <1>4 DEF Cells
<1>7. Agrees(R)'
  <2>1. \A b, t, A, B : <<b, t, A, B>> \in R =>
          /\ RunBlock(original'[b], A, 0, t).reads = RunBlock(code'[b], B, 1, t).reads
          /\ \A c \in succ'[b] :
               <<c, t + 1, RunBlock(original'[b], A, 0, t).file, RunBlock(code'[b], B, 1, t).file>> \in R
    <3>1. /\ original' = original /\ succ' = succ
      BY <1>1
    <3> QED BY <1>5, <3>1
  <2>2. <<1, 0, EntryFile(Physical \cup regs', 0), EntryFile(Physical \cup regs', 1)>> \in R
    BY <1>1, <1>6
  <2> QED BY <2>1, <2>2 DEF Agrees
<1> QED BY <1>7

-----------------------------------------------------------------------------
(* The rounds *)

\* What depends on the code and the live registers alone.
LEMMA SameCode ==
  ASSUME UNCHANGED <<code, succ, regs>>
  PROVE  /\ Blocks' = Blocks /\ Mentioned' = Mentioned
         /\ CodeOK' <=> CodeOK
<1>1. code' = code /\ succ' = succ /\ regs' = regs
  OBVIOUS
<1>2. Blocks' = Blocks /\ Mentioned' = Mentioned
  BY <1>1 DEF Blocks, Mentioned, BlockUse
<1>3. Sites' = Sites /\ \A p : At(p)' = At(p)
  BY <1>1, <1>2 DEF Sites, At
<1>4. (SlotsApart)' <=> SlotsApart
  BY <1>3 DEF SlotsApart
<1> QED BY <1>1, <1>2, <1>4 DEF CodeOK, ShapeOK

LEMMA SameSimulation ==
  ASSUME UNCHANGED <<code, original, succ>>, NEW R, Simulates(R)
  PROVE  Simulates(R)'
BY DEF Simulates, Blocks

LEMMA SameProblem ==
  ASSUME UNCHANGED <<code, succ, regs, liveOut>>, NEW live, NEW q
  PROVE  /\ Poses(q, live) => Poses(q, live)'
         /\ [b \in Blocks |-> LiveAfterIn(b)]' = [b \in Blocks |-> LiveAfterIn(b)]
<1>1. code' = code /\ succ' = succ /\ regs' = regs /\ liveOut' = liveOut
  OBVIOUS
<1>2. [b \in Blocks |-> LiveAfterIn(b)]' = [b \in Blocks |-> LiveAfterIn(b)]
  BY <1>1 DEF Blocks, LiveAfterIn
<1>3. Sites' = Sites /\ \A p : At(p)' = At(p)
  BY <1>1 DEF Blocks, Sites, At
<1>4. \A v, w : Interfere(v, w, live)' <=> Interfere(v, w, live)
  BY <1>3 DEF Interfere
<1>5. Poses(q, live) => Poses(q, live)'
  BY <1>1, <1>3, <1>4 DEF Poses
<1> QED BY <1>2, <1>5

Working == phase \in {"liveness", "build", "color"}

\* While the allocator works, its code still simulates what it was given.
CodeInv ==
  Working => /\ CodeOK
             /\ \A b \in Blocks : original[b] \in Seq(Instrs(regs))
             /\ \E R : Simulates(R)

\* The graph that is colored is that of the live registers.
ColorInv ==
  phase = "color" => /\ \A b \in Blocks : Balanced(b) /\ liveOut[b] \subseteq Mentioned
                     /\ Poses(problem, [b \in Blocks |-> LiveAfterIn(b)])
                     /\ CGP!IInv

RunInv ==
  phase = "run" => \E R : Agrees(R) /\ (at = 0 \/ <<at, clock, before, after>> \in R)

VInv == /\ CodeInv /\ ColorInv /\ RunInv
        /\ phase # "run" => clock = 0
        /\ SameValues

LEMMA ColoringStarts == CGP!IsProblem(problem) /\ CGP!Start(problem) => CGP!IInv
BY CGP!StartIInv, ColoringAssumptions

LEMMA InstrsGrow ==
  ASSUME NEW N, NEW M, N \subseteq M
  PROVE  Seq(Instrs(N)) \subseteq Seq(Instrs(M))
<1>1. SUBSET (Physical \cup N) \subseteq SUBSET (Physical \cup M) /\ N \cup {0} \subseteq M \cup {0}
  OBVIOUS
<1>2. Seq(Physical \cup N) \subseteq Seq(Physical \cup M)
  OBVIOUS
<1>3. Instrs(N) \subseteq Instrs(M)
  <2> SUFFICES ASSUME NEW i \in Instrs(N) PROVE i \in Instrs(M)
    OBVIOUS
  <2>1. /\ i \in [op : Kinds, def : SUBSET (Physical \cup N), uses : Seq(Physical \cup N),
                  imp : SUBSET Physical, slot : N \cup {0}, id : Int]
        /\ \A c, d \in i.def : c = d
        /\ i.op \in {"imm", "load"} => i.uses = << >>
        /\ i.op \in {"move", "store"} => Len(i.uses) = 1
        /\ i.op = "store" => i.def = {}
        /\ i.op \in {"load", "store"} => i.slot # 0
    BY DEF Instrs
  <2>2. i \in [op : Kinds, def : SUBSET (Physical \cup M), uses : Seq(Physical \cup M),
               imp : SUBSET Physical, slot : M \cup {0}, id : Int]
    BY <1>1, <1>2, <2>1
  <2> QED BY <2>1, <2>2 DEF Instrs
<1> QED BY <1>3

LEMMA InitVInv ==
  ASSUME Init
  PROVE  VInv
<1>1. PICK p \in Programs : code = p.code /\ original = p.code /\ succ = p.succ /\ regs = p.regs
  BY DEF Init
<1>2. ShapeOK
  BY InitOK DEF IInv
<1>3. /\ IsFiniteSet(regs) /\ regs \in SUBSET (Nat \ {0})
      /\ \A b \in Blocks : code[b] \in Seq(Instrs(regs))
      /\ \A b \in Blocks : \A k \in DOMAIN code[b] : code[b][k].op \notin {"load", "store"}
  BY <1>1, CodeAssumption DEF Blocks
<1>4. SlotsApart
  <2>1. ASSUME NEW p1 \in Sites PROVE At(p1).op \notin {"load", "store"}
    <3>1. PICK b \in Blocks : p1 \in {b} \X DOMAIN code[b]
      BY DEF Sites
    <3>2. p1[1] = b /\ p1[2] \in DOMAIN code[b]
      BY <3>1
    <3> QED BY <1>3, <3>2 DEF At
  <2> QED BY <2>1 DEF SlotsApart
<1>5. CodeOK
  BY <1>2, <1>3, <1>4 DEF CodeOK
<1>6. \E R : Simulates(R)
  BY <1>1, OriginalSimulates
<1>7. phase = "liveness" /\ clock = 0 /\ SameValues
  BY DEF Init, SameValues
<1> QED BY <1>1, <1>3, <1>5, <1>6, <1>7 DEF VInv, CodeInv, ColorInv, RunInv

\* The code stays as it is.
LEMMA CodeKept ==
  ASSUME CodeInv, UNCHANGED <<code, original, succ, regs>>, Working
  PROVE  CodeInv'
<1>1. /\ CodeOK /\ \A b \in Blocks : original[b] \in Seq(Instrs(regs))
  BY DEF CodeInv
<1>2. PICK R : Simulates(R)
  BY DEF CodeInv
<1>3. Blocks' = Blocks /\ CodeOK'
  BY <1>1, SameCode
<1>4. Simulates(R)'
  BY <1>2, SameSimulation
<1>5. original' = original /\ regs' = regs
  OBVIOUS
<1> QED BY <1>1, <1>3, <1>4, <1>5 DEF CodeInv

LEMMA LivenessStepVInv ==
  ASSUME VInv, LivenessStep
  PROVE  VInv'
<1>1. /\ phase = "liveness" /\ phase' \in {"liveness", "build"}
      /\ UNCHANGED <<code, original, succ, regs, clock, readBefore, readAfter>>
  BY DEF LivenessStep, progVars, execVars
<1>2. CodeInv'
  BY <1>1, CodeKept DEF VInv, Working
<1> QED BY <1>1, <1>2 DEF VInv, ColorInv, RunInv, SameValues

LEMMA BuildVInv ==
  ASSUME IInv, VInv, Build
  PROVE  VInv'
<1>1. /\ phase = "build" /\ phase' = "color"
      /\ UNCHANGED <<code, original, succ, regs, liveIn, liveOut, clock, readBefore, readAfter>>
      /\ remaining' = regs /\ stack' = << >> /\ lowDegree' = {}
      /\ color' = [v \in regs |-> None] /\ spills' = {}
  BY DEF Build, progVars, flowVars, execVars
<1>2. CodeInv'
  BY <1>1, CodeKept DEF VInv, Working
<1>3. CodeOK
  BY <1>1 DEF VInv, CodeInv, Working
<1>4. PICK live, q : live = [b \in Blocks |-> LiveAfterIn(b)] /\ q = ColoringProblem(live) /\ problem' = q
  BY DEF Build
<1>5. CGP!IsProblem(q) /\ q.nodes = regs
  BY <1>3, <1>4, ProblemIs
<1>6. CGP!IInv'
  <2>1. CGP!IsProblem(problem')
    BY <1>4, <1>5
  <2>2. CGP!Start(problem)'
    BY <1>1, <1>4, <1>5 DEF CGP!Start
  <2>3. (CGP!IsProblem(problem) /\ CGP!Start(problem) => CGP!IInv)'
    BY ColoringStarts, PTL
  <2> QED BY <2>1, <2>2, <2>3
<1>7. Poses(problem, [b \in Blocks |-> LiveAfterIn(b)])'
  <2>1. Poses(q, live)
    BY <1>4, ProblemPoses
  <2>2. Poses(q, live)'
    BY <1>1, <2>1, SameProblem
  <2>3. [b \in Blocks |-> LiveAfterIn(b)]' = live
    BY <1>1, <1>4, SameProblem
  <2> QED BY <1>4, <2>2, <2>3 DEF Poses
<1>8. \A b \in Blocks : Balanced(b) /\ liveOut[b] \subseteq Mentioned
  BY <1>1 DEF IInv, Analyzing, SweepOK, FlowTypeOK
<1>9. (\A b \in Blocks : Balanced(b) /\ liveOut[b] \subseteq Mentioned)'
  BY <1>1, <1>8, SameCode DEF Balanced, BlockUse, BlockDef
<1> QED BY <1>1, <1>2, <1>6, <1>7, <1>9 DEF VInv, ColorInv, RunInv, SameValues

LEMMA ColorStepVInv ==
  ASSUME VInv, ColorStep
  PROVE  VInv'
<1>1. /\ phase = "color" /\ phase' = "color"
      /\ UNCHANGED <<code, original, succ, regs, liveIn, liveOut, clock, readBefore, readAfter>>
  BY DEF ColorStep, progVars, flowVars, execVars
<1>2. CodeInv'
  BY <1>1, CodeKept DEF VInv, Working
<1>3. CGP!IInv /\ CGP!Next
  BY <1>1, ColorSteps DEF VInv, ColorInv
<1>4. CGP!IInv'
  BY <1>3, CGP!StepIInv, ColoringAssumptions
<1>5. problem' = problem
  BY <1>3 DEF CGP!Next, CGP!SimplifyLowDegree, CGP!SimplifySpillCandidate, CGP!SelectColor, CGP!SelectSpill, CGP!Push
<1>6. Poses(problem, [b \in Blocks |-> LiveAfterIn(b)])'
  <2>1. PICK live, q : live = [b \in Blocks |-> LiveAfterIn(b)] /\ q = problem
    OBVIOUS
  <2>2. Poses(q, live)
    BY <1>1, <2>1 DEF VInv, ColorInv
  <2>3. Poses(q, live)'
    BY <1>1, <2>2, SameProblem
  <2>4. [b \in Blocks |-> LiveAfterIn(b)]' = live
    BY <1>1, <2>1, SameProblem
  <2> QED BY <1>5, <2>1, <2>3, <2>4 DEF Poses
<1>7. (\A b \in Blocks : Balanced(b) /\ liveOut[b] \subseteq Mentioned)'
  <2>1. \A b \in Blocks : Balanced(b) /\ liveOut[b] \subseteq Mentioned
    BY <1>1 DEF VInv, ColorInv
  <2> QED BY <1>1, <2>1, SameCode DEF Balanced, BlockUse, BlockDef
<1> QED BY <1>1, <1>2, <1>4, <1>6, <1>7 DEF VInv, ColorInv, RunInv, SameValues

LEMMA RewriteVInv ==
  ASSUME IInv, VInv, ReloadsFit, Rewrite
  PROVE  VInv'
<1>1. /\ phase = "color" /\ phase' \in {"liveness", "failed"} /\ CG!Done /\ spills # {} /\ RewriteSpills
      /\ UNCHANGED <<original, succ, clock, readBefore, readAfter>>
  BY DEF Rewrite, execVars
<1>2. /\ CodeOK /\ \A b \in Blocks : original[b] \in Seq(Instrs(regs))
      /\ CGP!IInv /\ problem.nodes = regs
  BY <1>1 DEF VInv, CodeInv, ColorInv, Working, Poses
<1>3. PICK R : Simulates(R)
  BY <1>1 DEF VInv, CodeInv, Working
<1>4. spills \subseteq regs
  BY <1>2 DEF CGP!IInv, CGP!TypeOK
<1>5. \A p \in Sites : Cardinality(SpilledUses(At(p))) <= Len(Pool(At(p)))
  BY <1>1 DEF ReloadsFit
<1>6. ShapeOK'
  BY RewriteKeeps DEF IInv
<1>7. CodeOK' /\ \E T : Simulates(T)'
  <2>1. UNCHANGED <<original, succ>>
    BY <1>1
  <2> QED BY <1>1, <1>2, <1>3, <1>4, <1>5, <1>6, <2>1, RewriteSound
<1>8. (\A b \in Blocks : original[b] \in Seq(Instrs(regs)))'
  <2>1. Blocks' = Blocks /\ regs \subseteq regs'
    BY <1>1 DEF RewriteSpills, Blocks
  <2>2. Seq(Instrs(regs)) \subseteq Seq(Instrs(regs'))
    BY <2>1, InstrsGrow
  <2> QED BY <1>1, <1>2, <2>1, <2>2
<1>9. CodeInv'
  BY <1>7, <1>8 DEF CodeInv
<1> QED BY <1>1, <1>9 DEF VInv, ColorInv, RunInv, SameValues

LEMMA ApplyVInv ==
  ASSUME VInv, Apply
  PROVE  VInv'
<1>1. /\ phase = "color" /\ phase' = "run" /\ CG!Done /\ spills = {} /\ at' = 1
      /\ before' = EntryFile(Physical \cup regs, 0) /\ after' = EntryFile(Physical \cup regs, 1)
      /\ UNCHANGED <<regs, clock, readBefore, readAfter>>
  BY DEF Apply
<1>2. PICK live : live = [b \in Blocks |-> LiveAfterIn(b)]
  OBVIOUS
<1>3. /\ CodeOK /\ \A b \in Blocks : original[b] \in Seq(Instrs(regs))
      /\ \A b \in Blocks : Balanced(b) /\ liveOut[b] \subseteq Mentioned
      /\ CGP!IInv /\ Poses(problem, live) /\ clock = 0
  BY <1>1, <1>2 DEF VInv, CodeInv, ColorInv, Working
<1>4. PICK S : Simulates(S)
  BY <1>1 DEF VInv, CodeInv, Working
<1>5. Coloring(live)
  BY <1>1, <1>3, Colored
<1>6. PICK R : Agrees(R)'
  BY <1>2, <1>3, <1>4, <1>5, ApplySound
<1>7. <<at', clock', before', after'>> \in R
  BY <1>1, <1>3, <1>6 DEF Agrees
<1> QED BY <1>1, <1>6, <1>7 DEF VInv, CodeInv, ColorInv, RunInv, Working, SameValues

LEMMA RunVInv ==
  ASSUME VInv, Run
  PROVE  VInv'
<1>1. /\ phase = "run" /\ phase' = "run" /\ at # 0 /\ clock' = clock + 1
      /\ at' \in IF succ[at] = {} THEN {0} ELSE succ[at]
      /\ UNCHANGED <<code, original, succ, regs>>
      /\ before' = RunBlock(original[at], before, 0, clock).file
      /\ readBefore' = RunBlock(original[at], before, 0, clock).reads
      /\ after' = RunBlock(code[at], after, 1, clock).file
      /\ readAfter' = RunBlock(code[at], after, 1, clock).reads
  BY DEF Run, progVars
<1>2. PICK R : Agrees(R) /\ <<at, clock, before, after>> \in R
  BY <1>1 DEF VInv, RunInv
<1>3. /\ readBefore' = readAfter'
      /\ \A c \in succ[at] : <<c, clock', before', after'>> \in R
  BY <1>1, <1>2 DEF Agrees
<1>4. at' = 0 \/ <<at', clock', before', after'>> \in R
  BY <1>1, <1>3
<1>5. Agrees(R)'
  BY <1>1, <1>2 DEF Agrees
<1> QED BY <1>1, <1>3, <1>4, <1>5 DEF VInv, CodeInv, ColorInv, RunInv, Working, SameValues

LEMMA StutterVInv ==
  ASSUME VInv, UNCHANGED vars
  PROVE  VInv'
<1>1. UNCHANGED <<phase, code, original, succ, regs, liveIn, liveOut, problem, remaining, stack, lowDegree,
                  color, spills, at, clock, before, after, readBefore, readAfter>>
  BY DEF vars, progVars, flowVars, colorVars, execVars
<1>2. CodeInv'
  <2>1. CASE Working
    BY <1>1, <2>1, CodeKept DEF VInv
  <2>2. CASE ~ Working
    BY <1>1, <2>2 DEF CodeInv, Working
  <2> QED BY <2>1, <2>2
<1>3. ColorInv'
  <2> SUFFICES ASSUME phase = "color" PROVE ColorInv'
    BY <1>1 DEF ColorInv
  <2>1. CGP!IInv'
    <3>1. CGP!IInv /\ UNCHANGED CGP!vars
      BY <1>1 DEF VInv, ColorInv, CGP!vars
    <3> QED BY <3>1, CGP!StepIInv, ColoringAssumptions
  <2>2. PICK live, q : live = [b \in Blocks |-> LiveAfterIn(b)] /\ q = problem
    OBVIOUS
  <2>3. Poses(q, live)
    BY <2>2 DEF VInv, ColorInv
  <2>4. Poses(q, live)'
    BY <1>1, <2>3, SameProblem
  <2>5. [b \in Blocks |-> LiveAfterIn(b)]' = live
    BY <1>1, <2>2, SameProblem
  <2>6. Poses(problem, [b \in Blocks |-> LiveAfterIn(b)])'
    BY <1>1, <2>2, <2>4, <2>5 DEF Poses
  <2>7. \A b \in Blocks : Balanced(b) /\ liveOut[b] \subseteq Mentioned
    BY DEF VInv, ColorInv
  <2>8. (\A b \in Blocks : Balanced(b) /\ liveOut[b] \subseteq Mentioned)'
    BY <1>1, <2>7, SameCode DEF Balanced, BlockUse, BlockDef
  <2> QED BY <2>1, <2>6, <2>8 DEF ColorInv
<1>4. RunInv'
  <2> SUFFICES ASSUME phase = "run" PROVE RunInv'
    BY <1>1 DEF RunInv
  <2>1. PICK R : Agrees(R) /\ (at = 0 \/ <<at, clock, before, after>> \in R)
    BY DEF VInv, RunInv
  <2>2. Agrees(R)'
    BY <1>1, <2>1 DEF Agrees
  <2> QED BY <1>1, <2>1, <2>2 DEF RunInv
<1> QED BY <1>1, <1>2, <1>3, <1>4 DEF VInv, SameValues

\* Register allocation is sound: as long as every reload finds a scratch register,
\* the allocated function reads the values the original reads, on every path, for
\* any function, any palette and any number of rounds of spilling.
THEOREM ValuesAlwaysSame == Spec /\ []ReloadsFit => []SameValues
<1>1. IInv /\ VInv /\ ReloadsFit /\ [Next]_vars => VInv'
  BY LivenessStepVInv, BuildVInv, ColorStepVInv, RewriteVInv, ApplyVInv, RunVInv, StutterVInv DEF Next
<1>2. VInv => SameValues
  BY DEF VInv
<1> QED BY <1>1, <1>2, InitVInv, Invariance, PTL DEF Spec

-----------------------------------------------------------------------------
(* Enough scratch registers *)

\* The registers an instruction names.
Names(i) == UseSet(i) \cup i.def

\* An instruction that could have all the registers it names in scratch registers.
Roomy(i) ==
  /\ Cardinality(Names(i)) <= Len(Scratch)
  /\ i.imp \cap Range(Scratch) = {}

LEMMA NamesFinite ==
  ASSUME NEW N \in SUBSET (Nat \ {0}), NEW i \in Instrs(N)
  PROVE  IsFiniteSet(Names(i)) /\ Cardinality(Names(i)) \in Nat
<1>1. PICK n \in Nat : n = Len(i.uses) /\ DOMAIN i.uses = 1 .. n
  <2>1. i.uses \in Seq(Physical \cup N)
    BY InstrIs
  <2> QED BY <2>1
<1>2. PICK A, U : A = 1 .. n /\ U = UseSet(i)
  OBVIOUS
<1>3. IsFiniteSet(U)
  <2>1. IsFiniteSet(A)
    BY <1>2, FS_Interval
  <2> DEFINE f == [k \in A |-> i.uses[k]]
  <2>2. f \in Surjection(A, U)
    BY <1>1, <1>2 DEF Surjection, UseSet, Range
  <2> HIDE DEF f
  <2> QED BY <2>1, <2>2, FS_Surjection
<1>4. IsFiniteSet(i.def)
  <2>1. \A c, d \in i.def : c = d
    BY InstrIs
  <2>2. CASE i.def = {}
    BY <2>2, FS_EmptySet
  <2>3. CASE i.def # {}
    <3>1. PICK d : i.def = {d}
      BY <2>1, <2>3
    <3> QED BY <3>1, FS_Singleton
  <2> QED BY <2>2, <2>3
<1>5. IsFiniteSet(Names(i))
  BY <1>2, <1>3, <1>4, FS_Union DEF Names
<1> QED BY <1>5, FS_CardinalityType

\* What has to be reloaded finds scratch registers that the instruction does not name.
LEMMA RoomFits ==
  ASSUME CodeOK, spills \subseteq regs, NEW p \in Sites, Roomy(At(p))
  PROVE  Cardinality(SpilledUses(At(p))) <= Len(Pool(At(p)))
<1>1. PICK i : i = At(p) /\ i \in Instrs(regs) /\ regs \in SUBSET (Nat \ {0}) /\ Roomy(i)
  BY SiteIs DEF CodeOK
<1>2. PICK L \in Nat : L = Len(Scratch) /\ DOMAIN Scratch = 1 .. L
  BY RegistersAssumption
<1>3. PICK D, F, T, M, P, U : /\ D = 1 .. L /\ F = Free(i) /\ T = D \ F /\ M = Names(i)
                              /\ P = M \cap Range(Scratch) /\ U = SpilledUses(i)
  OBVIOUS
<1>4. IsFiniteSet(D) /\ Cardinality(D) = L
  <2>1. IsFiniteSet(1 .. L) /\ Cardinality(1 .. L) = L
    <3>1. 1 \in Int /\ L \in Int /\ L >= 0
      BY <1>2
    <3>2. IsFiniteSet(1 .. L) /\ Cardinality(1 .. L) = IF 1 > L THEN 0 ELSE L - 1 + 1
      BY <3>1, FS_Interval
    <3> QED BY <3>1, <3>2
  <2> QED BY <1>3, <2>1
<1>5. F \subseteq D /\ T \subseteq D /\ F \cup T = D /\ F \cap T = {}
  BY <1>2, <1>3 DEF Free
<1>6. IsFiniteSet(F) /\ IsFiniteSet(T)
  BY <1>4, <1>5, FS_Subset
<1>7. Cardinality(F) + Cardinality(T) = L /\ Cardinality(F) \in Nat /\ Cardinality(T) \in Nat
  <2>1. /\ Cardinality(F) \in Nat /\ Cardinality(T) \in Nat
        /\ Cardinality(F \cup T) = Cardinality(F) + Cardinality(T) - Cardinality(F \cap T)
        /\ Cardinality(F \cap T) = 0
    BY <1>5, <1>6, FS_Union, FS_EmptySet, FS_CardinalityType
  <2>2. Cardinality(F \cup T) = L
    BY <1>4, <1>5
  <2> QED BY <1>2, <2>1, <2>2
<1>8. IsFiniteSet(M) /\ Cardinality(M) \in Nat /\ Cardinality(M) <= L
  BY <1>1, <1>2, <1>3, NamesFinite DEF Roomy
<1>9. U \subseteq M /\ P \subseteq M /\ U \cap P = {}
  <2>1. U \subseteq regs /\ U \subseteq M
    BY <1>3 DEF SpilledUses, Names
  <2>2. P \subseteq Physical /\ P \subseteq M
    BY <1>3, PhysicalIs
  <2>3. \A r \in regs : r \notin Physical
    BY <1>1, NameIs
  <2> QED BY <2>1, <2>2, <2>3
<1>10. IsFiniteSet(U) /\ IsFiniteSet(P) /\ U \cup P \subseteq M
  BY <1>8, <1>9, FS_Subset
<1>11. Cardinality(U) + Cardinality(P) <= L /\ Cardinality(U) \in Nat /\ Cardinality(P) \in Nat
  <2>1. /\ Cardinality(U) \in Nat /\ Cardinality(P) \in Nat
        /\ Cardinality(U \cup P) = Cardinality(U) + Cardinality(P) - Cardinality(U \cap P)
        /\ Cardinality(U \cap P) = 0
    BY <1>9, <1>10, FS_Union, FS_EmptySet, FS_CardinalityType
  <2>2. Cardinality(U \cup P) <= Cardinality(M)
    BY <1>8, <1>10, FS_Subset
  <2> QED BY <1>8, <2>1, <2>2
<1>12. Cardinality(T) <= Cardinality(P)
  <2> DEFINE f == [k \in T |-> Scratch[k]]
  <2>1. ASSUME NEW k \in T PROVE Scratch[k] \in P
    <3>1. k \in DOMAIN Scratch /\ k \notin Free(i)
      BY <1>2, <1>3, <1>5
    <3>2. Scratch[k] \in UseSet(i) \cup i.def \cup i.imp /\ Scratch[k] \in Range(Scratch)
      BY <3>1 DEF Free, Range
    <3>3. Scratch[k] \notin i.imp
      BY <1>1, <3>2 DEF Roomy
    <3> QED BY <1>3, <3>2, <3>3 DEF Names
  <2>2. \A j, k \in T : Scratch[j] = Scratch[k] => j = k
    BY <1>2, <1>3, <1>5, RegistersAssumption
  <2>3. f \in Injection(T, P)
    BY <2>1, <2>2 DEF Injection, IsInjective
  <2> HIDE DEF f
  <2> QED BY <1>10, <2>3, FS_Injection
<1>13. Len(Pool(i)) = Cardinality(F)
  BY <1>3, <1>7 DEF Pool, Free
<1>14. Cardinality(U) <= Cardinality(F)
  BY <1>2, <1>7, <1>11, <1>12
<1> QED BY <1>1, <1>3, <1>13, <1>14

LEMMA SubstituteRoomy ==
  ASSUME NEW N \in SUBSET (Nat \ {0}), NEW i \in Instrs(N), Roomy(i), NEW map
  PROVE  Roomy(Substitute(i, map))
<1>1. PICK j : j = Substitute(i, map)
  OBVIOUS
<1>2. /\ j.imp = i.imp
      /\ j.def = {IF d \in DOMAIN map THEN map[d] ELSE d : d \in i.def}
      /\ j.uses = [k \in DOMAIN i.uses |-> IF i.uses[k] \in DOMAIN map THEN map[i.uses[k]] ELSE i.uses[k]]
  BY <1>1, SubstituteIs
<1>3. PICK S, T : S = Names(i) /\ T = Names(j)
  OBVIOUS
<1>4. IsFiniteSet(S) /\ Cardinality(S) \in Nat
  BY <1>3, NamesFinite
<1>5. /\ S = {i.uses[k] : k \in DOMAIN i.uses} \cup i.def
      /\ T = {j.uses[k] : k \in DOMAIN j.uses} \cup j.def
  BY <1>3 DEF Names, UseSet, Range
<1> DEFINE f == [r \in S |-> IF r \in DOMAIN map THEN map[r] ELSE r]
<1>6. f \in Surjection(S, T)
  <2>1. \A r \in S : f[r] \in T
    BY <1>2, <1>5
  <2>2. \A x \in T : \E r \in S : f[r] = x
    BY <1>2, <1>5
  <2>3. f \in [S -> T]
    BY <2>1
  <2> HIDE DEF f
  <2> QED BY <2>2, <2>3 DEF Surjection
<1>7. Cardinality(T) <= Cardinality(S) /\ IsFiniteSet(T)
  <2> HIDE DEF f
  <2> QED BY <1>4, <1>6, FS_Surjection
<1>8. Cardinality(T) \in Nat /\ Len(Scratch) \in Nat
  BY <1>7, FS_CardinalityType, RegistersAssumption
<1>9. Cardinality(T) <= Len(Scratch)
  BY <1>3, <1>4, <1>7, <1>8 DEF Roomy
<1> QED BY <1>1, <1>2, <1>3, <1>9 DEF Roomy

LEMMA OneRoomy ==
  ASSUME NEW x, NEW r, Names(x) = {r}, x.imp \cap Range(Scratch) = {}, Scratch # << >>
  PROVE  Roomy(x)
<1>1. Len(Scratch) \in Nat /\ 1 <= Len(Scratch)
  BY RegistersAssumption
<1>2. Cardinality({r}) = 1
  BY FS_Singleton
<1> QED BY <1>1, <1>2 DEF Roomy

\* What is put in place of an instruction has the room that it had.
LEMMA RewriteRoomy ==
  ASSUME CodeOK, spills \subseteq regs, NEW p \in Sites, \A q \in Sites : Roomy(At(q)), Scratch # << >>
  PROVE  \A k \in DOMAIN RewriteAt(p) : Roomy(RewriteAt(p)[k])
<1>1. CASE RewriteAt(p) = << >>
  BY <1>1
<1>2. CASE RewriteAt(p) # << >>
  <2>1. PICK i : i = At(p) /\ i \in Instrs(regs) /\ regs \in SUBSET (Nat \ {0}) /\ Roomy(i)
    BY SiteIs DEF CodeOK
  <2>2. PICK to, used, made, loads, stores :
          /\ to = Replacement(p) /\ used = SpilledUses(i) /\ made = SpilledDefs(i)
          /\ loads = Ascending(used) /\ stores = Ascending(made)
    OBVIOUS
  <2>3. used \in SUBSET spills /\ made \in SUBSET spills
    BY <2>2 DEF SpilledUses, SpilledDefs
  <2>4. Lists(loads, used) /\ Lists(stores, made)
    BY <2>2, <2>3, SpilledFinite, AscendingLists
  <2>5. (\A k \in DOMAIN loads : loads[k] \in used) /\ \A k \in DOMAIN stores : stores[k] \in made
    BY <2>4 DEF Lists
  <2>6. PICK before1, j, after1 : /\ before1 = [k \in DOMAIN loads |-> Reload(loads[k], to[loads[k]])]
                                  /\ j = Substitute(i, to)
                                  /\ after1 = [k \in DOMAIN stores |-> StoreSlot(to[stores[k]], stores[k])]
    OBVIOUS
  <2>7. RewriteAt(p) = before1 \o <<j>> \o after1
    BY <1>2, <2>1, <2>2, <2>6 DEF RewriteAt
  <2>8. PICK T : T = {Reload(v, to[v]) : v \in used} \cup {j} \cup {StoreSlot(to[d], d) : d \in made}
    OBVIOUS
  <2>11. ASSUME NEW v \in used PROVE Roomy(Reload(v, to[v]))
    <3>1. CASE Rematerializable(v)
      <4>1. PICK q \in Sites : v \in At(q).def
        BY <3>1 DEF Rematerializable, DefSites
      <4>2. PICK d : d = RematDef(v) /\ d = At(q) /\ d \in Instrs(regs) /\ d.op = "imm"
        BY <3>1, <4>1, RematIs
      <4>3. d.uses = << >>
        BY <2>1, <4>2, InstrIs
      <4>8. d.imp \cap Range(Scratch) = {}
        <5>1. Roomy(At(q))
          OBVIOUS
        <5> QED BY <4>2, <5>1 DEF Roomy
      <4>4. PICK e : e = [d EXCEPT !.def = {to[v]}]
        OBVIOUS
      <4>5. e.uses = << >> /\ e.def = {to[v]} /\ e.imp = d.imp
        BY <4>2, <4>3, <4>4 DEF Instrs
      <4>6. Names(e) = {to[v]}
        BY <4>5 DEF Names, UseSet, Range
      <4>7. Reload(v, to[v]) = e
        BY <3>1, <4>2, <4>4 DEF Reload
      <4> QED BY <4>5, <4>6, <4>7, <4>8, OneRoomy
    <3>2. CASE ~ Rematerializable(v)
      <4>1. PICK e : e = Reload(v, to[v])
        OBVIOUS
      <4>2. e.uses = << >> /\ e.def = {to[v]} /\ e.imp = {}
        BY <3>2, <4>1 DEF Reload, LoadSlot
      <4>3. Names(e) = {to[v]}
        BY <4>2 DEF Names, UseSet, Range
      <4> QED BY <4>1, <4>2, <4>3, OneRoomy
    <3> QED BY <3>1, <3>2
  <2>12. Roomy(j)
    BY <2>1, <2>6, SubstituteRoomy
  <2>13. ASSUME NEW d \in made PROVE Roomy(StoreSlot(to[d], d))
    <3>1. PICK e : e = StoreSlot(to[d], d)
      OBVIOUS
    <3>2. e.uses = <<to[d]>> /\ e.def = {} /\ e.imp = {}
      BY <3>1 DEF StoreSlot
    <3>3. Names(e) = {to[d]}
      BY <3>2 DEF Names, UseSet, Range
    <3> QED BY <3>1, <3>2, <3>3, OneRoomy
  <2>14. \A x \in T : Roomy(x)
    BY <2>8, <2>11, <2>12, <2>13
  <2>15. before1 \in Seq(T)
    <3>1. \A k \in DOMAIN loads : before1[k] \in T
      BY <2>5, <2>6, <2>8
    <3>2. DOMAIN before1 = DOMAIN loads /\ before1 = [k \in DOMAIN loads |-> before1[k]]
      BY <2>6
    <3> QED BY <2>4, <3>1, <3>2, ListIn
  <2>16. after1 \in Seq(T)
    <3>1. \A k \in DOMAIN stores : after1[k] \in T
      BY <2>5, <2>6, <2>8
    <3>2. DOMAIN after1 = DOMAIN stores /\ after1 = [k \in DOMAIN stores |-> after1[k]]
      BY <2>6
    <3> QED BY <2>4, <3>1, <3>2, ListIn
  <2>17. <<j>> \in Seq(T)
    BY <2>8
  <2>18. RewriteAt(p) \in Seq(T)
    BY <2>7, <2>15, <2>16, <2>17
  <2> QED BY <2>14, <2>18
<1> QED BY <1>1, <1>2

\* Every instruction of the functions leaves room.
RoomyPrograms ==
  /\ Scratch # << >>
  /\ \A p \in Programs : \A b \in DOMAIN p.code : \A k \in DOMAIN p.code[b] : Roomy(p.code[b][k])

RoomInv == Working => \A b \in Blocks : \A k \in DOMAIN code[b] : Roomy(code[b][k])

LEMMA RoomyFit ==
  ASSUME VInv, RoomInv
  PROVE  ReloadsFit
<1> SUFFICES ASSUME phase = "color", NEW p \in Sites
             PROVE  Cardinality(SpilledUses(At(p))) <= Len(Pool(At(p)))
  BY DEF ReloadsFit
<1>1. CodeOK /\ CGP!IInv /\ problem.nodes = regs
  BY DEF VInv, CodeInv, ColorInv, Working, Poses
<1>2. spills \subseteq regs
  BY <1>1 DEF CGP!IInv, CGP!TypeOK
<1>3. Roomy(At(p))
  <2>1. p[1] \in Blocks /\ p[2] \in 1 .. Len(code[p[1]]) /\ At(p) = code[p[1]][p[2]]
    BY <1>1, SiteIs
  <2>2. p[2] \in DOMAIN code[p[1]]
    BY <1>1, <2>1 DEF CodeOK
  <2> QED BY <2>1, <2>2 DEF RoomInv, Working
<1> QED BY <1>1, <1>2, <1>3, RoomFits

LEMMA RewriteKeepsRoom ==
  ASSUME VInv, RoomInv, Scratch # << >>, Rewrite
  PROVE  RoomInv'
<1>1. phase = "color" /\ RewriteSpills /\ spills # {}
  BY DEF Rewrite
<1>2. CodeOK /\ CGP!IInv /\ problem.nodes = regs
  BY <1>1 DEF VInv, CodeInv, ColorInv, Working, Poses
<1>3. spills \subseteq regs
  BY <1>2 DEF CGP!IInv, CGP!TypeOK
<1>4. \A b \in Blocks : \A k \in DOMAIN code[b] : Roomy(code[b][k])
  BY <1>1 DEF RoomInv, Working
<1>5. \A q \in Sites : Roomy(At(q))
  <2>1. \A q \in Sites : q[1] \in Blocks /\ q[2] \in DOMAIN code[q[1]] /\ At(q) = code[q[1]][q[2]]
    BY <1>2, SiteIs DEF CodeOK
  <2> QED BY <1>4, <2>1
<1>6. Blocks' = Blocks /\ code' = [b \in Blocks |-> FlattenSeq([i \in DOMAIN code[b] |-> RewriteAt(<<b, i>>)])]
  BY <1>1 DEF RewriteSpills, Blocks
<1>7. PICK M, S : M = RegsAfter /\ S = {x \in Fitting(M) : Roomy(x)}
  OBVIOUS
<1>8. /\ M \in SUBSET (Nat \ {0}) /\ regs \subseteq M
      /\ \A p \in Sites : RewriteAt(p) # << >> => FreshAt(p) \subseteq M
  BY <1>1, <1>2, <1>3, <1>7, RegsAfterIs
<1>9. ASSUME NEW p \in Sites PROVE RewriteAt(p) \in Seq(S)
  <2>1. \A k \in DOMAIN RewriteAt(p) : Roomy(RewriteAt(p)[k])
    BY <1>2, <1>3, <1>5, RewriteRoomy
  <2>2. Cardinality(SpilledUses(At(p))) <= Len(Pool(At(p)))
    BY <1>2, <1>3, <1>5, RoomFits
  <2>3. RewriteAt(p) \in Seq(Fitting(M))
    BY <1>2, <1>3, <1>8, <2>2, RewriteFits
  <2> QED BY <1>7, <2>1, <2>3
<1>10. ASSUME NEW b \in Blocks PROVE \A k \in DOMAIN code'[b] : Roomy(code'[b][k])
  <2>1. PICK n \in Nat : n = Len(code[b]) /\ DOMAIN code[b] = 1 .. n
    BY <1>2 DEF CodeOK
  <2>2. PICK q : q = [i \in 1 .. n |-> RewriteAt(<<b, i>>)]
    OBVIOUS
  <2>3. \A i \in 1 .. n : <<b, i>> \in Sites
    BY <1>2, <2>1, SiteIs
  <2>4. q \in [1 .. n -> Seq(S)]
    BY <1>9, <2>2, <2>3
  <2>5. FlattenSeq(q) \in Seq(S)
    BY <2>4, FlattenedIn
  <2>6. code'[b] \in Seq(S)
    BY <1>6, <2>1, <2>2, <2>5
  <2> QED BY <1>7, <2>6
<1> QED BY <1>6, <1>10 DEF RoomInv

LEMMA OtherKeepsRoom ==
  ASSUME RoomInv, LivenessStep \/ Build \/ ColorStep \/ Apply \/ Run \/ UNCHANGED vars
  PROVE  RoomInv'
<1>1. CASE LivenessStep \/ Build \/ ColorStep \/ UNCHANGED vars
  <2>1. code' = code /\ (Working' => Working)
    BY <1>1 DEF LivenessStep, Build, ColorStep, vars, progVars, Working
  <2> QED BY <2>1 DEF RoomInv, Blocks
<1>2. CASE Apply \/ Run
  <2>1. phase' = "run"
    BY <1>2 DEF Apply, Run
  <2> QED BY <2>1 DEF RoomInv, Working
<1> QED BY <1>1, <1>2

\* For functions whose instructions name no more registers of the class than there
\* are scratch registers, every reload finds one, in every round: allocation is
\* sound without further condition.
THEOREM RoomyValuesAlwaysSame ==
  ASSUME RoomyPrograms
  PROVE  Spec => []SameValues
<1>1. Init => RoomInv
  BY DEF Init, RoomyPrograms, RoomInv, Blocks
<1>2. VInv /\ RoomInv /\ [Next]_vars => RoomInv'
  BY RewriteKeepsRoom, OtherKeepsRoom DEF Next, RoomyPrograms
<1>3. IInv /\ VInv /\ RoomInv /\ [Next]_vars => VInv'
  BY RoomyFit, LivenessStepVInv, BuildVInv, ColorStepVInv, RewriteVInv, ApplyVInv, RunVInv, StutterVInv DEF Next
<1>4. VInv => SameValues
  BY DEF VInv
<1> QED BY <1>1, <1>2, <1>3, <1>4, InitVInv, Invariance, PTL DEF Spec
=============================================================================
