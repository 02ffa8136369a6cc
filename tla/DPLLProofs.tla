----------------------------- MODULE DPLLProofs ------------------------------
(* The verdicts of the search are right, for any set of variables and any      *)
(* clauses.  The invariant says where the models still are: every model of     *)
(* the clauses agrees with the whole trail, or leaves it first at a decision   *)
(* whose other branch is untried.  A falsified clause excludes the former.     *)
EXTENDS DPLL, TLAPS

Agrees(M) == \A k \in DOMAIN trail : trail[k] \in M
LeavesAt(M, p) == trail[p] \notin M /\ \A k \in 1 .. p - 1 : trail[k] \in M
Unexplored(M) == \E p \in open : LeavesAt(M, p)

\* No literal is on the trail twice, or with its negation.
Consistent ==
  \A j, k \in DOMAIN trail : j # k => trail[j] # trail[k] /\ trail[j] # -trail[k]

Accounted ==
  /\ mode = "search" => \A M \in Models : Agrees(M) \/ Unexplored(M)
  /\ mode = "failing" => \A M \in Models : Unexplored(M)
  /\ mode = "Unsat" => Models = {}
  /\ mode = "Sat" => \A c \in cnf : \E l \in c : Holds(l)

Inv == TypeOK /\ Consistent /\ Accounted

-----------------------------------------------------------------------------
(* Literals and prefixes *)

\* Variables are positive, so a literal and its negation differ.
LEMMA VarsPositive == Vars \subseteq Nat \ {0}
  BY DEF Vars

LEMMA LitFacts ==
  ASSUME NEW l \in Lits
  PROVE  /\ l \in Int /\ -l \in Lits /\ l # -l /\ -(-l) = l
         /\ l \in Vars \/ -l \in Vars
BY VarsPositive DEF Lits

\* A valuation holds one literal of each pair.
LEMMA OneOfPair ==
  ASSUME NEW M \in Valuations, NEW l \in Lits
  PROVE  l \in M <=> -l \notin M
<1>1. CASE l \in Vars
  BY <1>1 DEF Valuations
<1>2. CASE -l \in Vars
  <2>1. -l \in M <=> -(-l) \notin M
    BY <1>2 DEF Valuations
  <2> QED BY <2>1, LitFacts
<1> QED BY <1>1, <1>2, LitFacts

LEMMA Prefix ==
  ASSUME NEW S, NEW s \in Seq(S), NEW n \in 0 .. Len(s)
  PROVE  /\ SubSeq(s, 1, n) \in Seq(S)
         /\ Len(SubSeq(s, 1, n)) = n /\ DOMAIN SubSeq(s, 1, n) = 1 .. n
         /\ \A k \in 1 .. n : SubSeq(s, 1, n)[k] = s[k]
OBVIOUS

LEMMA Pushed ==
  ASSUME NEW S, NEW s \in Seq(S), NEW x \in S
  PROVE  /\ Append(s, x) \in Seq(S)
         /\ DOMAIN Append(s, x) = 1 .. Len(s) + 1
         /\ Append(s, x)[Len(s) + 1] = x
         /\ \A k \in 1 .. Len(s) : Append(s, x)[k] = s[k]
OBVIOUS

-----------------------------------------------------------------------------
(* The steps *)

\* A literal pushed on the trail that is not assigned keeps it consistent.
LEMMA PushConsistent ==
  ASSUME TypeOK, Consistent, NEW l \in Lits, ~ Assigned(l), trail' = Append(trail, l)
  PROVE  Consistent' /\ trail' \in Seq(Lits) /\ DOMAIN trail' = 1 .. Len(trail) + 1
<1> USE DEF TypeOK
<1>1. /\ trail' \in Seq(Lits) /\ DOMAIN trail' = 1 .. Len(trail) + 1
      /\ trail'[Len(trail) + 1] = l /\ \A k \in 1 .. Len(trail) : trail'[k] = trail[k]
  BY Pushed
<1>2. \A k \in 1 .. Len(trail) : trail[k] # l /\ trail[k] # -l /\ l # -trail[k]
  <2> TAKE k \in 1 .. Len(trail)
  <2>1. trail[k] # l /\ trail[k] # -l
    BY DEF Assigned, Holds
  <2>2. trail[k] \in Lits
    OBVIOUS
  <2> QED BY <2>1, <2>2, LitFacts
<1>3. ASSUME NEW j \in DOMAIN trail', NEW k \in DOMAIN trail', j # k
      PROVE  trail'[j] # trail'[k] /\ trail'[j] # -trail'[k]
  <2>1. CASE j = Len(trail) + 1
    BY <1>1, <1>2, <1>3, <2>1
  <2>2. CASE k = Len(trail) + 1
    BY <1>1, <1>2, <1>3, <2>2
  <2>3. CASE j \in 1 .. Len(trail) /\ k \in 1 .. Len(trail)
    BY <1>1, <1>3, <2>3 DEF Consistent
  <2> QED BY <1>1, <1>3, <2>1, <2>2, <2>3
<1> QED BY <1>1, <1>3 DEF Consistent

LEMMA ImplyKeeps ==
  ASSUME Inv, NEW c \in cnf, NEW l \in c, Imply(c, l)
  PROVE  Inv'
<1> USE DEF Inv, Imply
<1>0. l \in Lits /\ c \in SUBSET Lits
  BY DEF TypeOK
<1>1. Consistent' /\ trail' \in Seq(Lits) /\ DOMAIN trail' = 1 .. Len(trail) + 1
  BY <1>0, PushConsistent
<1>2. trail'[Len(trail) + 1] = l /\ \A k \in 1 .. Len(trail) : trail'[k] = trail[k]
  BY <1>0, Pushed DEF TypeOK
<1>3. TypeOK'
  BY <1>1 DEF TypeOK
<1>4. ASSUME NEW M \in Models'
      PROVE  Agrees(M)' \/ Unexplored(M)'
  <2>1. M \in Models
    BY DEF Models
  <2>2. CASE Unexplored(M)
    BY <1>2, <2>2 DEF Unexplored, LeavesAt, TypeOK
  <2>3. CASE Agrees(M)
    <3>1. PICK m \in c : m \in M
      BY <2>1 DEF Models
    <3>2. ASSUME m # l PROVE FALSE
      <4>1. Holds(-m)
        BY <3>2
      <4>2. -m \in M
        BY <4>1, <2>3 DEF Holds, Agrees
      <4> QED BY <3>1, <4>2, <2>1, <1>0, OneOfPair DEF Models
    <3> QED BY <3>1, <3>2, <2>3, <1>1, <1>2 DEF Agrees, TypeOK
  <2> QED BY <2>1, <2>2, <2>3 DEF Accounted
<1> QED BY <1>1, <1>3, <1>4 DEF Accounted

LEMMA DecideKeeps ==
  ASSUME Inv, NEW l \in Lits, Decide(l)
  PROVE  Inv'
<1> USE DEF Inv, Decide
<1>1. Consistent' /\ trail' \in Seq(Lits) /\ DOMAIN trail' = 1 .. Len(trail) + 1
  BY PushConsistent
<1>2. trail'[Len(trail) + 1] = l /\ \A k \in 1 .. Len(trail) : trail'[k] = trail[k]
  BY Pushed DEF TypeOK
<1>3. TypeOK'
  BY <1>1 DEF TypeOK
<1>4. ASSUME NEW M \in Models'
      PROVE  Agrees(M)' \/ Unexplored(M)'
  <2>1. M \in Models
    BY DEF Models
  <2>2. CASE Unexplored(M)
    BY <1>2, <2>2 DEF Unexplored, LeavesAt, TypeOK
  <2>3. CASE Agrees(M) /\ l \in M
    BY <1>1, <1>2, <2>3 DEF Agrees, TypeOK
  <2>4. CASE Agrees(M) /\ l \notin M
    <3>1. PICK n \in Nat : n = Len(trail) + 1
      BY DEF TypeOK
    <3>2. LeavesAt(M, n)' /\ n \in open'
      BY <1>2, <2>4, <3>1 DEF LeavesAt, Agrees, TypeOK
    <3> QED BY <3>2 DEF Unexplored
  <2> QED BY <2>1, <2>2, <2>3, <2>4 DEF Accounted
<1> QED BY <1>1, <1>3, <1>4 DEF Accounted

LEMMA ConflictKeeps ==
  ASSUME Inv, NEW c \in cnf, Conflict(c)
  PROVE  Inv'
<1> USE DEF Inv, Conflict
<1>1. ASSUME NEW M \in Models
      PROVE  Unexplored(M)
  <2>1. PICK m \in c : m \in M
    BY DEF Models
  <2>2. PICK k \in DOMAIN trail : trail[k] = -m
    BY DEF Falsified, Holds
  <2>3. m \in Lits
    BY DEF TypeOK
  <2>4. -m \notin M
    BY <2>1, <2>3, OneOfPair DEF Models
  <2> QED BY <2>2, <2>4 DEF Accounted, Agrees
<1>2. open = {} => Models = {}
  BY <1>1 DEF Unexplored
<1>3. Models' = Models /\ \A M : Unexplored(M)' <=> Unexplored(M)
  BY DEF Models, Unexplored, LeavesAt
<1>4. mode' = "failing" \/ (mode' = "Unsat" /\ open = {})
  OBVIOUS
<1>5. TypeOK' /\ Consistent'
  BY <1>4 DEF TypeOK, Consistent, Verdicts
<1>6. Accounted'
  BY <1>1, <1>2, <1>3, <1>4 DEF Accounted
<1> QED BY <1>5, <1>6

\* Cutting the trail at n keeps what leaves it at or before n.
LEMMA CutKeeps ==
  ASSUME Inv, NEW n \in 0 .. Len(trail), trail' = SubSeq(trail, 1, n)
  PROVE  /\ trail' \in Seq(Lits) /\ DOMAIN trail' = 1 .. n
         /\ \A k \in 1 .. n : trail'[k] = trail[k]
         /\ Consistent'
<1>1. /\ trail' \in Seq(Lits) /\ DOMAIN trail' = 1 .. n
      /\ \A k \in 1 .. n : trail'[k] = trail[k]
  BY Prefix DEF Inv, TypeOK
<1>2. Consistent'
  BY <1>1 DEF Inv, Consistent, TypeOK
<1> QED BY <1>1, <1>2

LEMMA UndoKeeps ==
  ASSUME Inv, NEW n \in 0 .. Len(trail), Undo(n)
  PROVE  Inv'
<1> USE DEF Undo
<1>1. /\ trail' \in Seq(Lits) /\ DOMAIN trail' = 1 .. n
      /\ \A k \in 1 .. n : trail'[k] = trail[k]
      /\ Consistent'
  BY CutKeeps
<1>2. TypeOK'
  BY <1>1 DEF Inv, TypeOK
<1>3. ASSUME NEW M \in Models'
      PROVE  Unexplored(M)'
  <2>1. PICK p \in open : LeavesAt(M, p)
    BY DEF Inv, Accounted, Models, Unexplored
  <2>2. LeavesAt(M, p)'
    BY <1>1, <2>1 DEF LeavesAt, Inv, TypeOK
  <2> QED BY <2>2 DEF Unexplored
<1> QED BY <1>1, <1>2, <1>3 DEF Inv, Accounted

LEMMA GiveUpKeeps ==
  ASSUME Inv, NEW n \in 0 .. Len(trail), GiveUp(n)
  PROVE  Inv'
<1> USE DEF GiveUp
<1>1. /\ trail' \in Seq(Lits) /\ DOMAIN trail' = 1 .. n
      /\ Consistent'
  BY CutKeeps
<1>2. TypeOK'
  BY <1>1 DEF Inv, TypeOK, Verdicts
<1> QED BY <1>1, <1>2 DEF Inv, Accounted

LEMMA FlipKeeps ==
  ASSUME Inv, NEW p \in open, Flip(p)
  PROVE  Inv'
<1> USE DEF Flip
<1> DEFINE s == SubSeq(trail, 1, p - 1)
           l == trail[p]
<1>0. p \in 1 .. Len(trail) /\ p - 1 \in 0 .. Len(trail) /\ l \in Lits
  BY DEF Inv, TypeOK
<1>1. /\ s \in Seq(Lits) /\ Len(s) = p - 1
      /\ \A k \in 1 .. p - 1 : s[k] = trail[k]
  BY <1>0, Prefix DEF Inv, TypeOK
<1>2. -l \in Lits
  BY <1>0, LitFacts
<1> HIDE DEF s, l
<1>3. trail' = Append(s, -l)
  BY DEF s, l
<1>4. /\ trail' \in Seq(Lits) /\ DOMAIN trail' = 1 .. p
      /\ trail'[p] = -l /\ \A k \in 1 .. p - 1 : trail'[k] = trail[k]
  <2>1. /\ trail' \in Seq(Lits) /\ DOMAIN trail' = 1 .. Len(s) + 1
        /\ trail'[Len(s) + 1] = -l /\ \A k \in 1 .. Len(s) : trail'[k] = s[k]
    BY <1>1, <1>2, <1>3, Pushed
  <2> QED BY <1>0, <1>1, <2>1
<1>5. TypeOK'
  BY <1>0, <1>4 DEF Inv, TypeOK
<1>6. Consistent'
  <2>1. \A k \in 1 .. p - 1 : /\ trail[k] \in Lits /\ trail[k] # l /\ trail[k] # -l
    BY <1>0 DEF Inv, Consistent, TypeOK, l
  <2>2. \A k \in 1 .. p - 1 : /\ trail[k] # -l /\ trail[k] # -(-l) /\ -l # -trail[k]
    BY <1>0, <2>1, LitFacts
  <2>3. ASSUME NEW j \in 1 .. p, NEW k \in 1 .. p, j # k
        PROVE  trail'[j] # trail'[k] /\ trail'[j] # -trail'[k]
    <3>1. CASE j = p
      BY <1>4, <2>2, <2>3, <3>1
    <3>2. CASE k = p
      BY <1>4, <2>2, <2>3, <3>2
    <3>3. CASE j # p /\ k # p
      BY <1>0, <1>4, <2>3, <3>3 DEF Inv, Consistent, TypeOK
    <3> QED BY <3>1, <3>2, <3>3
  <2>4. DOMAIN trail' = 1 .. p
    BY <1>4
  <2> HIDE DEF Flip
  <2> QED BY <2>3, <2>4 DEF Consistent
<1>7. ASSUME NEW M \in Models'
      PROVE  Agrees(M)' \/ Unexplored(M)'
  <2>1. PICK q \in open : LeavesAt(M, q)
    BY DEF Inv, Accounted, Models, Unexplored
  <2>2. q \in 1 .. p
    BY <1>0 DEF Inv, TypeOK
  <2>3. CASE q # p
    <3>1. LeavesAt(M, q)'
      BY <1>0, <1>4, <2>1, <2>2, <2>3 DEF LeavesAt
    <3> QED BY <2>3, <3>1 DEF Unexplored
  <2>4. CASE q = p
    <3>1. -l \in M
      BY <1>0, <2>1, <2>4, OneOfPair DEF LeavesAt, Models, l
    <3>2. \A k \in 1 .. p - 1 : trail'[k] \in M
      BY <1>4, <2>1, <2>4 DEF LeavesAt
    <3> QED BY <1>0, <1>4, <3>1, <3>2 DEF Agrees
  <2> QED BY <2>3, <2>4
<1> QED BY <1>5, <1>6, <1>7 DEF Inv, Accounted

LEMMA EndKeeps ==
  ASSUME Inv, Fail \/ Succeed
  PROVE  Inv'
<1>1. TypeOK' /\ Consistent'
  BY DEF Inv, TypeOK, Consistent, Fail, Succeed, Verdicts
<1>2. CASE Fail
  <2>1. Models = {}
    BY <1>2 DEF Inv, Accounted, Fail, Unexplored
  <2>2. Models' = Models
    BY <1>2 DEF Fail, Models
  <2> QED BY <1>1, <1>2, <2>1, <2>2 DEF Inv, Accounted, Fail
<1>3. CASE Succeed
  BY <1>1, <1>3 DEF Inv, Accounted, Succeed, Holds
<1> QED BY <1>2, <1>3

-----------------------------------------------------------------------------
(* Every behaviour of the search keeps track of all models, whatever the       *)
(* formula, the decisions and the branches taken.                              *)
THEOREM Invariance == Spec => []Inv
<1>1. Init => Inv
  <2> SUFFICES ASSUME Init PROVE Inv
    OBVIOUS
  <2>1. TypeOK
    BY DEF Init, TypeOK
  <2>2. Consistent
    BY DEF Init, Consistent
  <2>3. \A M : Agrees(M)
    BY DEF Init, Agrees
  <2> QED BY <2>1, <2>2, <2>3 DEF Init, Inv, Accounted
<1>2. Inv /\ [Next]_vars => Inv'
  <2> SUFFICES ASSUME Inv, [Next]_vars PROVE Inv'
    OBVIOUS
  <2>1. CASE \E c \in cnf : \E l \in c : Imply(c, l)
    BY <2>1, ImplyKeeps
  <2>2. CASE \E l \in Lits : Decide(l)
    BY <2>2, DecideKeeps
  <2>3. CASE \E c \in cnf : Conflict(c)
    BY <2>3, ConflictKeeps
  <2>4. CASE \E n \in 0 .. Len(trail) : Undo(n) \/ GiveUp(n)
    BY <2>4, UndoKeeps, GiveUpKeeps
  <2>5. CASE \E p \in open : Flip(p)
    BY <2>5, FlipKeeps
  <2>6. CASE Fail \/ Succeed
    BY <2>6, EndKeeps
  <2>7. CASE UNCHANGED vars
    <3>1. Models' = Models /\ \A M : /\ Agrees(M)' <=> Agrees(M)
                                     /\ Unexplored(M)' <=> Unexplored(M)
      BY <2>7 DEF vars, Models, Agrees, Unexplored, LeavesAt
    <3>2. TypeOK' /\ Consistent'
      BY <2>7 DEF vars, Inv, TypeOK, Consistent
    <3> QED BY <2>7, <3>1, <3>2 DEF vars, Inv, Accounted, Holds
  <2> QED BY <2>1, <2>2, <2>3, <2>4, <2>5, <2>6, <2>7 DEF Next
<1> QED BY <1>1, <1>2, PTL DEF Spec

\* Sat comes with a model, which reads what is not assigned as false, and Unsat
\* is only said when there is none.
THEOREM Soundness == Spec => []VerdictSound
<1>1. Inv => VerdictSound
  <2> SUFFICES ASSUME Inv PROVE VerdictSound
    OBVIOUS
  <2>1. ASSUME mode = "Sat" PROVE Extracted \in Models
    <3>1. Extracted \in Valuations
      <4>1. Extracted \in SUBSET Lits
        BY DEF Extracted, Lits
      <4>2. ASSUME NEW v \in Vars PROVE v \in Extracted <=> -v \notin Extracted
        <5>1. v \in Extracted <=> Holds(v)
          BY VarsPositive DEF Extracted
        <5>2. -v \in Extracted <=> ~ Holds(v)
          BY VarsPositive DEF Extracted
        <5> QED BY <5>1, <5>2
      <4> QED BY <4>1, <4>2 DEF Valuations
    <3>2. ASSUME NEW l \in Lits, Holds(l) PROVE l \in Extracted
      <4>1. CASE l \in Vars
        BY <3>2, <4>1 DEF Extracted
      <4>2. CASE -l \in Vars
        <5>1. ~ Holds(-l)
          <6>1. PICK j \in DOMAIN trail : trail[j] = l
            BY <3>2 DEF Holds
          <6>2. SUFFICES ASSUME NEW k \in DOMAIN trail, trail[k] = -l PROVE FALSE
            BY DEF Holds
          <6>3. j # k
            BY <6>1, <6>2, LitFacts
          <6> QED BY <6>1, <6>2, <6>3 DEF Inv, Consistent
        <5>2. -(-l) \in Extracted
          BY <4>2, <5>1 DEF Extracted
        <5> QED BY <5>2, LitFacts
      <4> QED BY <4>1, <4>2, LitFacts
    <3>3. \A c \in cnf : c \cap Extracted # {}
      <4> TAKE c \in cnf
      <4>1. PICK l \in c : Holds(l)
        BY <2>1 DEF Inv, Accounted
      <4>2. l \in Lits
        BY DEF Inv, TypeOK
      <4> QED BY <3>2, <4>1, <4>2
    <3> QED BY <3>1, <3>3 DEF Models
  <2>2. mode = "Unsat" => Models = {}
    BY DEF Inv, Accounted
  <2> QED BY <2>1, <2>2 DEF VerdictSound
<1> QED BY <1>1, Invariance, PTL
=============================================================================
