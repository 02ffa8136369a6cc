--------------------------- MODULE OIRScalarProofs ---------------------------
(***************************************************************************)
(* Proofs about constant propagation and the value ranges that follow it,  *)
(* for any functions and any width of the integers.                        *)
(***************************************************************************)
EXTENDS OIRScalarPasses, FiniteSetTheorems, FunctionTheorems, WellFoundedInduction, SequenceTheorems, TLAPS

-----------------------------------------------------------------------------
(* Sets of integers.                                                       *)

\* A nonempty set of naturals has a least member: the intervals 0 .. m, m in
\* the set, have a minimal one under inclusion.
LEMMA LeastMember ==
  ASSUME NEW T \in SUBSET Nat, T # {}
  PROVE  \E m \in T : \A n \in T : m <= n
<1>1. PICK t \in T : TRUE
  OBVIOUS
<1> DEFINE D == 0 .. t
           Segments == {0 .. n : n \in {m \in T : m <= t}}
<1>2. IsFiniteSet(D)
  BY FS_Interval
<1>3. IsWellFoundedOn(StrictSubsetOrdering(D), SUBSET D)
  BY <1>2, FS_StrictSubsetOrderingWellFounded, FS_FiniteSubsetsOfFinite
<1>4. Segments \subseteq SUBSET D /\ Segments # {}
  BY <1>1
<1>5. PICK x \in Segments : \A y \in Segments : ~ (<<y, x>> \in StrictSubsetOrdering(D))
  <2> HIDE DEF Segments, D
  <2> QED
    BY <1>3, <1>4, WFMin
<1>6. PICK m \in T : m <= t /\ x = 0 .. m
  OBVIOUS
<1>7. ASSUME NEW n \in T, n < m PROVE FALSE
  <2>1. 0 .. n \in Segments
    BY <1>6, <1>7
  <2>2. 0 .. n \subseteq 0 .. m /\ m \in 0 .. m /\ m \notin 0 .. n
    BY <1>7
  <2>3. <<0 .. n, 0 .. m>> \in StrictSubsetOrdering(D)
    BY <2>1, <2>2, <1>4, <1>6 DEF StrictSubsetOrdering
  <2> QED
    BY <2>1, <2>3, <1>5, <1>6
<1> QED
  BY <1>7

(* Bounded sets of integers have a smallest and a largest member.          *)
LEMMA MinIs ==
  ASSUME NEW lo \in Int, NEW S \in SUBSET Int, S # {}, \A n \in S : lo <= n
  PROVE  Min(S) \in S /\ \A n \in S : Min(S) <= n
<1> DEFINE T == {n - lo : n \in S}
<1>1. T \in SUBSET Nat /\ T # {}
  <2>1. \A n \in S : n - lo \in Nat
    OBVIOUS
  <2> QED BY <2>1
<1>2. PICK m \in T : \A n \in T : m <= n
  <2> HIDE DEF T
  <2> QED BY <1>1, LeastMember
<1>3. PICK x \in S : m = x - lo
  BY <1>2
<1>4. \A n \in S : x <= n
  BY <1>2, <1>3
<1> QED BY <1>4 DEF Min

LEMMA MaxIs ==
  ASSUME NEW hi \in Int, NEW S \in SUBSET Int, S # {}, \A n \in S : n <= hi
  PROVE  Max(S) \in S /\ \A n \in S : n <= Max(S)
<1> DEFINE T == {hi - n : n \in S}
<1>1. T \in SUBSET Nat /\ T # {}
  <2>1. \A n \in S : hi - n \in Nat
    OBVIOUS
  <2> QED BY <2>1
<1>2. PICK m \in T : \A n \in T : m <= n
  <2> HIDE DEF T
  <2> QED BY <1>1, LeastMember
<1>3. PICK x \in S : m = hi - x
  BY <1>2
<1>4. ASSUME NEW n \in S PROVE x >= n
  <2>1. m <= hi - n
    BY <1>2
  <2> QED BY <2>1, <1>3
<1>5. Max(S) \in S /\ \A n \in S : Max(S) >= n
  BY <1>4 DEF Max
<1> QED BY <1>5

-----------------------------------------------------------------------------
(* Powers of two: there are 2^n subsets of a set of n.                     *)

LEMMA PowerIs ==
  ASSUME NEW n \in Nat
  PROVE  IsFiniteSet(SUBSET (1 .. n)) /\ Cardinality(SUBSET (1 .. n)) = 2^n
<1>1. IsFiniteSet(1 .. n) /\ Cardinality(1 .. n) = n
  BY FS_Interval
<1> QED BY <1>1, FS_SUBSET

LEMMA PowerDoubles ==
  ASSUME NEW n \in Nat
  PROVE  2^n \in Nat /\ 2^(n + 1) = 2 * 2^n
<1> DEFINE A == SUBSET (1 .. n)
           With(s) == s \cup {n + 1}
           B == {With(s) : s \in A}
<1>1. IsFiniteSet(A) /\ Cardinality(A) = 2^n
  BY PowerIs
<1>2. Cardinality(SUBSET (1 .. n + 1)) = 2^(n + 1)
  BY PowerIs
<1>3. 2^n \in Nat
  BY <1>1, FS_CardinalityType
<1>4. SUBSET (1 .. n + 1) = A \cup B
  <2>1. ASSUME NEW s \in SUBSET (1 .. n + 1) PROVE s \in A \cup B
    <3>1. CASE n + 1 \notin s
      <4>1. s \subseteq 1 .. n
        BY <3>1
      <4> QED BY <4>1
    <3>2. CASE n + 1 \in s
      <4>1. s \ {n + 1} \in A
        OBVIOUS
      <4>2. s = With(s \ {n + 1})
        BY <3>2
      <4> QED BY <4>1, <4>2
    <3> QED BY <3>1, <3>2
  <2>2. ASSUME NEW s \in A \cup B PROVE s \in SUBSET (1 .. n + 1)
    <3>1. 1 .. n \subseteq 1 .. n + 1 /\ n + 1 \in 1 .. n + 1
      OBVIOUS
    <3> QED BY <3>1
  <2> HIDE DEF A, B
  <2> QED BY <2>1, <2>2
<1>5. A \cap B = {}
  OBVIOUS
<1> DEFINE g == [s \in A |-> With(s)]
<1>6. g \in Bijection(A, B)
  <2>1. ASSUME NEW s \in A, NEW t \in A, With(s) = With(t) PROVE s = t
    <3>1. n + 1 \notin s /\ n + 1 \notin t
      OBVIOUS
    <3> QED BY <2>1, <3>1
  <2>2. g \in Injection(A, B)
    <3>1. g \in [A -> B] /\ \A s \in A : g[s] = With(s)
      OBVIOUS
    <3> HIDE DEF g, A, B, With
    <3>2. \A s, t \in A : g[s] = g[t] => s = t
      BY <3>1, <2>1
    <3> QED BY <3>1, <3>2, Fun_IsInj
  <2>3. \A y \in B : \E s \in A : g[s] = y
    OBVIOUS
  <2> QED BY <2>2, <2>3, Fun_IsSurj DEF Bijection
<1>7. IsFiniteSet(B) /\ Cardinality(B) = 2^n
  <2> HIDE DEF A, B, g
  <2> QED BY <1>1, <1>6, FS_Bijection DEF ExistsBijection
<1>8. Cardinality(A \cup B) = 2^n + 2^n
  <2>1. Cardinality(A \cup B) = Cardinality(A) + Cardinality(B) - Cardinality(A \cap B)
    <3> HIDE DEF A, B
    <3> QED BY <1>1, <1>7, FS_Union
  <2>2. Cardinality(A \cap B) = 0
    BY <1>5, FS_EmptySet
  <2> QED BY <2>1, <2>2, <1>1, <1>7, <1>3
<1>9. 2^(n + 1) = 2^n + 2^n
  BY <1>2, <1>4, <1>8
<1> QED BY <1>3, <1>9

(* What the W bits hold.                                                   *)
LEMMA WidthFacts ==
  /\ 2^(W - 1) \in Nat /\ 2^(W - 1) >= 2 /\ 2^W = 2 * 2^(W - 1)
  /\ VR!Smallest = -(2^(W - 1)) /\ VR!Largest = 2^(W - 1) - 1
<1>1. W - 1 \in Nat /\ W - 2 \in Nat /\ (W - 2) + 1 = W - 1 /\ (W - 1) + 1 = W
  BY WidthAssumption
<1>2. 2^(W - 2) \in Nat /\ 2^(W - 1) = 2 * 2^(W - 2) /\ 2^(W - 1) \in Nat /\ 2^W = 2 * 2^(W - 1)
  BY <1>1, PowerDoubles
<1>3. 2^(W - 2) # 0
  <2>1. IsFiniteSet(SUBSET (1 .. W - 2)) /\ Cardinality(SUBSET (1 .. W - 2)) = 2^(W - 2)
    BY <1>1, PowerIs
  <2>2. SUBSET (1 .. W - 2) # {}
    OBVIOUS
  <2> QED BY <2>1, <2>2, FS_EmptySet
<1> QED BY <1>2, <1>3 DEF VR!Smallest, VR!Largest

LEMMA ModIs ==
  ASSUME NEW n \in Int, NEW q \in Nat \ {0}
  PROVE  n % q \in 0 .. q - 1
OBVIOUS

LEMMA WrapRange ==
  ASSUME NEW n \in Int
  PROVE  Wrap(n) \in VR!Smallest .. VR!Largest
<1>1. PICK p \in Nat : p = 2^(W - 1) /\ p >= 2 /\ 2^W = 2 * p /\ VR!Smallest = -p /\ VR!Largest = p - 1
  BY WidthFacts
<1>2. Wrap(n) = ((n + p) % (2 * p)) - p
  BY <1>1 DEF Wrap
<1>3. (n + p) % (2 * p) \in 0 .. (2 * p) - 1
  <2>1. 2 * p \in Nat \ {0} /\ n + p \in Int
    BY <1>1
  <2> QED BY <2>1, ModIs
<1> QED BY <1>1, <1>2, <1>3

(* Sums of integers: the partial sums exist.                               *)
LEMMA SumIs ==
  ASSUME NEW m \in Nat, NEW s \in [1 .. m -> Int]
  PROVE  \E g \in [0 .. m -> Int] :
            SumOf(s) = g[m] /\ \A k \in 0 .. m : g[k] = IF k = 0 THEN 0 ELSE g[k - 1] + s[k]
<1> DEFINE Sums(n, g) == g = [k \in 0 .. n |-> IF k = 0 THEN 0 ELSE g[k - 1] + s[k]] /\ g \in [0 .. n -> Int]
           Missing == {n \in Nat : n <= m /\ ~ \E g : Sums(n, g)}
<1>1. Len(s) = m
  BY LenProperties, SeqDef
<1>2. Missing = {}
  <2>1. SUFFICES ASSUME Missing # {} PROVE FALSE
    OBVIOUS
  <2>2. PICK n \in Missing : \A k \in Missing : n <= k
    <3>1. Missing \in SUBSET Nat
      OBVIOUS
    <3> HIDE DEF Missing
    <3> QED BY <2>1, <3>1, LeastMember
  <2>3. n # 0
    <3> DEFINE z == [k \in 0 .. 0 |-> 0]
    <3>1. Sums(0, z)
      OBVIOUS
    <3> HIDE DEF Sums, z
    <3> QED BY <3>1
  <2>4. n \in Nat /\ n - 1 \in Nat /\ n <= m /\ n \in 1 .. m
    BY <2>3
  <2>5. PICK g : Sums(n - 1, g)
    <3>1. n - 1 \notin Missing
      <4> HIDE DEF Missing
      <4> QED BY <2>2, <2>4
    <3>2. n - 1 <= m
      BY <2>4
    <3> HIDE DEF Sums
    <3> QED BY <3>1, <3>2, <2>4
  <2> DEFINE h == [k \in 0 .. n |-> IF k = n THEN g[n - 1] + s[n] ELSE g[k]]
  <2>6. h \in [0 .. n -> Int]
    BY <2>4, <2>5
  <2>7. ASSUME NEW k \in 0 .. n PROVE h[k] = IF k = 0 THEN 0 ELSE h[k - 1] + s[k]
    <3>1. CASE k = n
      BY <3>1, <2>4
    <3>2. CASE k # n
      <4>1. k \in 0 .. n - 1 /\ h[k] = g[k] /\ (k # 0 => h[k - 1] = g[k - 1])
        BY <3>2, <2>4
      <4>2. g[k] = IF k = 0 THEN 0 ELSE g[k - 1] + s[k]
        BY <4>1, <2>5
      <4> QED BY <4>1, <4>2
    <3> QED BY <3>1, <3>2
  <2>8. Sums(n, h)
    <3>1. DOMAIN h = 0 .. n
      OBVIOUS
    <3> HIDE DEF h
    <3> QED BY <2>6, <2>7
  <2>9. \E e : Sums(n, e)
    <3> HIDE DEF Sums, h
    <3> QED BY <2>8
  <2> QED BY <2>2, <2>9
<1>3. PICK g : Sums(m, g)
  <2>1. m \notin Missing
    BY <1>2, Zenon
  <2> HIDE DEF Sums
  <2> QED BY <2>1
<1> DEFINE IsUpTo(h) == h = [k \in 0 .. Len(s) |-> IF k = 0 THEN 0 ELSE h[k - 1] + s[k]]
           upTo == CHOOSE h : IsUpTo(h)
<1>4. IsUpTo(upTo)
  <2>1. IsUpTo(g)
    BY <1>1, <1>3
  <2> HIDE DEF IsUpTo
  <2> QED BY <2>1
<1>5. SumOf(s) = upTo[m]
  BY <1>1 DEF SumOf
<1>6. \A k \in 0 .. m : upTo[k] = g[k]
  <2> DEFINE Differ == {k \in 0 .. m : upTo[k] # g[k]}
  <2> HIDE DEF upTo
  <2>1. SUFFICES ASSUME Differ # {} PROVE FALSE
    OBVIOUS
  <2>2. PICK k \in Differ : \A n \in Differ : k <= n
    <3>1. Differ \in SUBSET Nat
      OBVIOUS
    <3> HIDE DEF Differ
    <3> QED BY <2>1, <3>1, LeastMember
  <2>3. k \in 0 .. m /\ upTo[k] # g[k]
    BY <2>2
  <2>4. k = 0 \/ (k - 1 \in 0 .. m /\ upTo[k - 1] = g[k - 1])
    BY <2>2, <2>3
  <2>5. upTo[k] = (IF k = 0 THEN 0 ELSE upTo[k - 1] + s[k])
    BY <1>4, <1>1, <2>3
  <2>6. g[k] = (IF k = 0 THEN 0 ELSE g[k - 1] + s[k])
    BY <1>3, <2>3
  <2> QED BY <2>3, <2>4, <2>5, <2>6
<1>7. g \in [0 .. m -> Int] /\ m \in 0 .. m /\ \A k \in 0 .. m : g[k] = IF k = 0 THEN 0 ELSE g[k - 1] + s[k]
  BY <1>3
<1> HIDE DEF upTo
<1> QED BY <1>5, <1>6, <1>7

LEMMA SumIsInt ==
  ASSUME NEW m \in Nat, NEW s \in [1 .. m -> Int]
  PROVE  SumOf(s) \in Int
<1>1. m \in 0 .. m
  OBVIOUS
<1> QED BY <1>1, SumIs

\* What holds of 0 and goes from a number to the next holds up to n.
LEMMA UpTo ==
  ASSUME NEW n \in Nat, NEW S, 0 \in S, \A k \in 1..n : k - 1 \in S => k \in S
  PROVE  \A k \in 0..n : k \in S
<1> DEFINE Missing == {k \in 0..n : k \notin S}
<1>1. SUFFICES ASSUME Missing # {} PROVE FALSE
  OBVIOUS
<1>2. PICK k \in Missing : \A m \in Missing : k <= m
  <2>1. Missing \in SUBSET Nat
    OBVIOUS
  <2> HIDE DEF Missing
  <2> QED BY <1>1, <2>1, LeastMember
<1>3. k # 0 /\ k \in 0..n /\ k \notin S
  BY <1>2
<1>4. k \in 1..n /\ k - 1 \in 0..n /\ k - 1 < k
  BY <1>3
<1>5. k - 1 \notin Missing
  <2>1. k - 1 \in Int /\ k \in Int /\ ~ (k <= k - 1)
    BY <1>4
  <2> HIDE DEF Missing
  <2> QED BY <1>2, <2>1
<1> QED BY <1>3, <1>4, <1>5

LEMMA SumOfZeros ==
  ASSUME NEW m \in Nat, NEW s \in [1 .. m -> {0}]
  PROVE  SumOf(s) = 0
<1>1. s \in [1 .. m -> Int] /\ \A k \in 1 .. m : s[k] = 0
  OBVIOUS
<1>2. PICK g \in [0 .. m -> Int] : SumOf(s) = g[m] /\ \A k \in 0 .. m : g[k] = IF k = 0 THEN 0 ELSE g[k - 1] + s[k]
  BY <1>1, SumIs
<1> DEFINE S == {k \in 0 .. m : g[k] = 0}
<1>3. 0 \in S
  BY <1>2
<1>4. ASSUME NEW k \in 1 .. m, k - 1 \in S PROVE k \in S
  <2>1. g[k] = g[k - 1] + s[k] /\ g[k - 1] = 0
    BY <1>2, <1>4
  <2> QED BY <2>1, <1>1
<1>5. m \in 0 .. m
  OBVIOUS
<1> HIDE DEF S
<1>6. m \in S
  BY <1>3, <1>4, <1>5, UpTo
<1> QED BY <1>2, <1>6 DEF S

LEMMA PowerPositive ==
  ASSUME NEW n \in Nat
  PROVE  2^n \in Nat \ {0}
<1>1. IsFiniteSet(SUBSET (1 .. n)) /\ Cardinality(SUBSET (1 .. n)) = 2^n
  BY PowerIs
<1>2. SUBSET (1 .. n) # {}
  OBVIOUS
<1> QED BY <1>1, <1>2, FS_EmptySet, FS_CardinalityType

LEMMA BitIs ==
  ASSUME NEW n \in Int, NEW i \in Nat
  PROVE  BitOf(n, i) \in {0, 1}
<1>1. PICK p \in Nat \ {0} : p = 2^i
  BY PowerPositive
<1>2. PICK q \in Nat \ {0} : q = 2^W
  BY PowerPositive, WidthAssumption
<1>3. n % q \in Nat
  BY ModIs
<1>4. PICK r \in Nat : r = n % q
  BY <1>3
<1>5. r \div p \in Int
  OBVIOUS
<1>6. (r \div p) % 2 \in 0 .. 1
  BY <1>5, ModIs
<1> QED BY <1>1, <1>2, <1>4, <1>6 DEF BitOf

LEMMA BitSumIs ==
  ASSUME NEW s \in [1 .. W -> Int]
  PROVE  Wrap(SumOf(s)) \in VR!Smallest .. VR!Largest
<1>1. W \in Nat
  BY WidthAssumption
<1> QED BY <1>1, SumIsInt, WrapRange

LEMMA MachineRange ==
  ASSUME NEW op \in BinaryOps, NEW a \in Int, NEW b \in Int, op \in {"sdiv", "srem"} => b # 0
  PROVE  Machine(op, a, b) \in VR!Smallest .. VR!Largest
<1>1. CASE op \in {"add", "sub", "mul"}
  <2>1. a + b \in Int /\ a - b \in Int /\ a * b \in Int
    OBVIOUS
  <2> QED BY <2>1, <1>1, WrapRange DEF Machine
<1>2. CASE op \in {"sdiv", "srem"}
  <2>1. TowardZero(a, b) \in Int
    <3>1. Abs(a) \in Nat /\ Abs(b) \in Nat \ {0} /\ Sign(a, b) \in Int
      BY <1>2 DEF Abs, Sign
    <3>2. Abs(a) \div Abs(b) \in Int
      BY <3>1
    <3> QED BY <3>1, <3>2 DEF TowardZero
  <2>2. a - b * TowardZero(a, b) \in Int
    BY <2>1
  <2> QED BY <2>1, <2>2, <1>2, WrapRange DEF Machine
<1>6. ASSUME NEW n \in 1..W
      PROVE  BitOf(a, n - 1) \in {0, 1} /\ BitOf(b, n - 1) \in {0, 1} /\ 2^(n - 1) \in Nat
  <2>1. n - 1 \in Nat
    BY WidthAssumption
  <2> QED BY <2>1, BitIs, PowerPositive
<1>3. CASE op = "and"
  <2> DEFINE s == [n \in 1..W |-> BitOf(a, n - 1) * BitOf(b, n - 1) * 2^(n - 1)]
  <2>1. Machine(op, a, b) = Wrap(SumOf(s))
    BY <1>3 DEF Machine, ByBits
  <2>2. ASSUME NEW n \in 1..W PROVE BitOf(a, n - 1) * BitOf(b, n - 1) \in Int /\ 2^(n - 1) \in Int
    BY <1>6
  <2>3. s \in [1..W -> Int]
    BY <2>2
  <2> HIDE DEF s
  <2> QED BY <2>1, <2>3, BitSumIs
<1>4. CASE op = "or"
  <2> DEFINE s == [n \in 1..W |-> (BitOf(a, n - 1) + BitOf(b, n - 1) - BitOf(a, n - 1) * BitOf(b, n - 1)) * 2^(n - 1)]
  <2>1. Machine(op, a, b) = Wrap(SumOf(s))
    BY <1>4 DEF Machine, ByBits
  <2>2. ASSUME NEW n \in 1..W PROVE BitOf(a, n - 1) + BitOf(b, n - 1) - BitOf(a, n - 1) * BitOf(b, n - 1) \in Int /\ 2^(n - 1) \in Int
    BY <1>6
  <2>3. s \in [1..W -> Int]
    BY <2>2
  <2> HIDE DEF s
  <2> QED BY <2>1, <2>3, BitSumIs
<1>5. CASE op = "xor"
  <2> DEFINE s == [n \in 1..W |-> ((BitOf(a, n - 1) + BitOf(b, n - 1)) % 2) * 2^(n - 1)]
  <2>1. Machine(op, a, b) = Wrap(SumOf(s))
    BY <1>5 DEF Machine, ByBits
  <2>2. ASSUME NEW n \in 1..W PROVE (BitOf(a, n - 1) + BitOf(b, n - 1)) % 2 \in Int /\ 2^(n - 1) \in Int
    BY <1>6
  <2>3. s \in [1..W -> Int]
    BY <2>2
  <2> HIDE DEF s
  <2> QED BY <2>1, <2>3, BitSumIs
<1> QED BY <1>1, <1>2, <1>3, <1>4, <1>5 DEF BinaryOps

-----------------------------------------------------------------------------
(* The lattice.                                                            *)

LEMMA JoinFacts ==
  ASSUME NEW x, NEW y
  PROVE  /\ Below(x, Join(x, y)) /\ Below(x, x)
         /\ Join(x, y) = x => Below(y, x)
         /\ Overdefined # Unknown
BY DEF Below, Join, Overdefined, Unknown

(* What update_value leaves in the table has only climbed: none of what    *)
(* the sweeps do depends on how the instructions are evaluated.            *)
THEOREM ClimbsOnly == ScalarSpec => OnlyClimbs
<1> DEFINE Climbs == /\ executable_ \subseteq executable_'
                     /\ \A v \in DOMAIN value_state_ : Below(value_state_[v], value_state_'[v])
<1>1. ASSUME [ScalarNext]_<<vars, range_vars>> PROVE [Climbs]_vars
  <2>1. CASE UNCHANGED <<executable_, value_state_>>
    BY <2>1, JoinFacts
  <2>2. CASE VisitValue
    <3>1. executable_' = executable_
      BY <2>2 DEF VisitValue
    <3>2. value_state_' = [value_state_ EXCEPT ![At.id] = Join(@, Evaluate(At))]
      BY <2>2 DEF VisitValue, Updated
    <3>3. ASSUME NEW v \in DOMAIN value_state_ PROVE Below(value_state_[v], value_state_'[v])
      <4>1. CASE v = At.id
        <5>1. value_state_'[v] = Join(value_state_[v], Evaluate(At))
          BY <3>2, <4>1
        <5> QED BY <5>1, JoinFacts
      <4>2. CASE v # At.id
        <5>1. value_state_'[v] = value_state_[v]
          BY <3>2, <4>2
        <5> QED BY <5>1, JoinFacts
      <4> QED BY <4>1, <4>2
    <3> QED BY <3>1, <3>3
  <2>3. CASE VisitBranch
    BY <2>3, JoinFacts DEF VisitBranch
  <2>4. CASE SkipBlock \/ VisitVoid \/ SweepAgain \/ RewriteConstants
    BY <2>4, <2>1 DEF SkipBlock, VisitVoid, SweepAgain, RewriteConstants
  <2>5. CASE UNCHANGED vars
    BY <2>5 DEF vars
  <2>6. CASE UNCHANGED <<f, executable_, value_state_, block, index, changed, phase>>
    BY <2>6, <2>1
  <2> QED BY <1>1, <2>2, <2>3, <2>4, <2>5, <2>6 DEF ScalarNext, Next
<1> QED BY <1>1, PTL DEF ScalarSpec, OnlyClimbs

-----------------------------------------------------------------------------
(* The fixpoint of the sweeps.                                             *)

(* As long as this sweep has changed nothing, what it has come by is       *)
(* settled; a block it skipped is not executable still.                    *)
Behind(p, k) == p < block \/ (p = block /\ k < index)
SettledBehind ==
    phase = "sweep" /\ ~changed =>
        \A p \in 1..Len(f.order) : \A k \in DOMAIN f.body[f.order[p]] :
            Behind(p, k) /\ f.order[p] \in executable_ => Settled(f.body[f.order[p]][k])
SweepTypeOK ==
    /\ f \in Programs
    /\ phase \in {"sweep", "done"} /\ changed \in BOOLEAN
    /\ DOMAIN value_state_ = Ids(f)
    /\ block \in 1..(Len(f.order) + 1) /\ index \in Nat \ {0}
    /\ block <= Len(f.order) => index \in DOMAIN f.body[f.order[block]]
    /\ block > Len(f.order) => index = 1
SweepInv == SweepTypeOK /\ SettledBehind /\ EndsSettled

LEMMA ProgramsAre == \A g \in Programs : IsFunction(g)
BY ProgramsAssumption DEF IsProgram

LEMMA FunctionFacts ==
  ASSUME NEW g, IsFunction(g)
  PROVE  /\ g.order \in Seq(Blocks(g)) /\ Len(g.order) \in Nat \ {0} /\ DOMAIN g.order = 1..Len(g.order)
         /\ \A p \in 1..Len(g.order) : g.order[p] \in Blocks(g)
         /\ \A b \in Blocks(g) : \E p \in 1..Len(g.order) : g.order[p] = b
<1>1. g.order \in Seq(Blocks(g)) /\ g.order # <<>>
  BY DEF IsFunction
<1>2. Len(g.order) \in Nat \ {0} /\ DOMAIN g.order = 1..Len(g.order)
  BY <1>1
<1> QED BY <1>1, <1>2 DEF Blocks, ToSet

LEMMA BodyFacts ==
  ASSUME NEW g, IsFunction(g), NEW b \in Blocks(g)
  PROVE  /\ Len(g.body[b]) \in Nat \ {0} /\ DOMAIN g.body[b] = 1..Len(g.body[b])
         /\ \A k \in DOMAIN g.body[b] :
               /\ g.body[b][k] \in ToSet(g.body[b]) /\ g.body[b][k] \in InstrsOf(g)
               /\ IsInstr(g.body[b][k])
               /\ g.body[b][k].id # 0 => g.body[b][k].id \in Ids(g)
<1>1. g.body[b] \in Seq(ToSet(g.body[b])) /\ g.body[b] # <<>> /\ \A i \in ToSet(g.body[b]) : IsInstr(i)
  BY DEF IsFunction
<1>2. Len(g.body[b]) \in Nat \ {0} /\ DOMAIN g.body[b] = 1..Len(g.body[b])
  BY <1>1
<1>3. ASSUME NEW k \in DOMAIN g.body[b]
      PROVE  g.body[b][k] \in ToSet(g.body[b]) /\ g.body[b][k] \in InstrsOf(g)
  BY DEF ToSet, InstrsOf
<1> QED BY <1>1, <1>2, <1>3 DEF Ids

LEMMA JoinAbsorbs ==
  ASSUME NEW x, NEW y, Join(x, y) = x
  PROVE  Below(y, x)
BY JoinFacts

LEMMA SweepInit == Init => SweepInv
<1> SUFFICES ASSUME Init PROVE SweepInv
  OBVIOUS
<1>1. f \in Programs /\ IsFunction(f) /\ phase = "sweep" /\ block = 1 /\ index = 1 /\ changed = FALSE
  BY ProgramsAre DEF Init
<1>2. f.order[1] \in Blocks(f)
  BY <1>1, FunctionFacts
<1>3. 1 \in DOMAIN f.body[f.order[1]]
  BY <1>1, <1>2, BodyFacts
<1>4. SweepTypeOK
  <2>1. DOMAIN value_state_ = Ids(f)
    BY DEF Init
  <2>2. block \in 1..(Len(f.order) + 1)
    BY <1>1, FunctionFacts
  <2>3. phase \in {"sweep", "done"} /\ changed \in BOOLEAN
    BY <1>1, Zenon
  <2>5. index \in Nat \ {0} /\ (block > Len(f.order) => index = 1)
    BY <1>1
  <2>4. block <= Len(f.order) => index \in DOMAIN f.body[f.order[block]]
    BY <1>1, <1>3
  <2> QED BY <1>1, <2>1, <2>2, <2>3, <2>4, <2>5, Zenon DEF SweepTypeOK
<1>5. SettledBehind
  <2>1. ASSUME NEW p \in 1..Len(f.order), NEW k \in DOMAIN f.body[f.order[p]] PROVE ~Behind(p, k)
    <3>1. f.order[p] \in Blocks(f)
      BY <1>1, FunctionFacts
    <3>2. k \in Nat /\ k >= 1 /\ p >= 1
      BY <3>1, <1>1, BodyFacts
    <3> QED BY <3>2, <1>1 DEF Behind
  <2> QED BY <2>1 DEF SettledBehind
<1> QED BY <1>1, <1>4, <1>5 DEF SweepInv, EndsSettled

(* The position after At.                                                  *)
LEMMA AdvanceFacts ==
  ASSUME SweepTypeOK, InSweep, f' = f, Advance
  PROVE  /\ IsFunction(f) /\ f.order[block] \in Blocks(f)
         /\ At \in InstrsOf(f) /\ IsInstr(At) /\ (At.id # 0 => At.id \in Ids(f))
         /\ block' \in 1..(Len(f.order) + 1) /\ index' \in Nat \ {0}
         /\ block' <= Len(f.order) => index' \in DOMAIN f.body[f.order[block']]
         /\ block' > Len(f.order) => index' = 1
         /\ \A p \in 1..Len(f.order) : \A k \in DOMAIN f.body[f.order[p]] :
               Behind(p, k)' => Behind(p, k) \/ (p = block /\ k = index)
<1>1. IsFunction(f) /\ block \in 1..Len(f.order) /\ block \in Nat
  BY ProgramsAre, FunctionFacts DEF SweepTypeOK, InSweep
<1>2. f.order[block] \in Blocks(f)
  BY <1>1, FunctionFacts
<1>3. index \in DOMAIN f.body[f.order[block]]
  BY <1>1 DEF SweepTypeOK
<1>4. At \in InstrsOf(f) /\ IsInstr(At) /\ (At.id # 0 => At.id \in Ids(f))
  BY <1>1, <1>2, <1>3, BodyFacts DEF At
<1>5. PICK n \in Nat \ {0} : n = Len(f.body[f.order[block]]) /\ DOMAIN f.body[f.order[block]] = 1..n
  BY <1>1, <1>2, BodyFacts
<1>6. ASSUME NEW p \in 1..Len(f.order)
      PROVE  \E m \in Nat \ {0} : DOMAIN f.body[f.order[p]] = 1..m
  <2>1. f.order[p] \in Blocks(f)
    BY <1>1, FunctionFacts
  <2> QED BY <2>1, <1>1, BodyFacts
<1>7. PICK len \in Nat : len = Len(f.order)
  BY <1>1, FunctionFacts
<1>8. CASE index < n
  <2>1. index' = index + 1 /\ block' = block
    BY <1>5, <1>8 DEF Advance
  <2>2. ASSUME NEW p \in 1..Len(f.order), NEW k \in DOMAIN f.body[f.order[p]], Behind(p, k)'
        PROVE  Behind(p, k) \/ (p = block /\ k = index)
    BY <2>1, <2>2, <1>6, <1>3, <1>5, <1>7, <1>1 DEF Behind
  <2> QED BY <1>1, <1>2, <1>3, <1>4, <1>5, <1>8, <2>1, <2>2 DEF SweepTypeOK
<1>9. CASE ~(index < n)
  <2>1. index' = 1 /\ block' = block + 1
    BY <1>5, <1>9 DEF Advance
  <2>2. index = n
    BY <1>9, <1>3, <1>5
  <2>3. ASSUME NEW p \in 1..Len(f.order), NEW k \in DOMAIN f.body[f.order[p]], Behind(p, k)'
        PROVE  Behind(p, k) \/ (p = block /\ k = index)
    <3>1. PICK m \in Nat \ {0} : k \in 1..m /\ (p = block => m = n)
      BY <1>6, <1>5
    <3>2. p < block + 1
      BY <2>1, <2>3, <3>1, <1>7 DEF Behind
    <3> QED BY <3>1, <3>2, <2>2, <1>1, <1>7 DEF Behind
  <2>4. block' <= Len(f.order) => index' \in DOMAIN f.body[f.order[block']]
    <3>1. ASSUME block' <= Len(f.order) PROVE block' \in 1..Len(f.order)
      BY <3>1, <2>1, <1>1, <1>7
    <3> QED BY <3>1, <1>6, <2>1
  <2> QED BY <1>1, <1>2, <1>4, <1>7, <2>1, <2>3, <2>4
<1> QED BY <1>3, <1>5, <1>8, <1>9

(* Nothing settled is unsettled where neither the table nor the blocks     *)
(* found change; what changes them says so.                                *)
LEMMA SettledKept ==
  ASSUME UNCHANGED <<f, executable_, value_state_>>, NEW i
  PROVE  Settled(i)' <=> Settled(i)
<1>1. \A v : StateFor(v)' = StateFor(v)
  BY DEF StateFor
<1>2. EvaluatePhi(i)' = EvaluatePhi(i)
  BY <1>1 DEF EvaluatePhi
<1>3. Evaluate(i)' = Evaluate(i)
  BY <1>1, <1>2 DEF Evaluate
<1>4. Targets(i)' = Targets(i)
  BY <1>1 DEF Targets
<1> QED BY <1>3, <1>4 DEF Settled

LEMMA SweepSteps ==
  ASSUME SweepInv, [Next]_vars
  PROVE  SweepInv'
<1> USE DEF SweepInv
<1>1. CASE SkipBlock
  <2>1. InSweep /\ index = 1 /\ f.order[block] \notin executable_ /\ block' = block + 1
        /\ UNCHANGED <<f, executable_, value_state_, index, changed, phase, result>>
    BY <1>1 DEF SkipBlock
  <2>2. IsFunction(f) /\ block \in 1..Len(f.order) /\ block \in Nat /\ Len(f.order) \in Nat
    BY <2>1, ProgramsAre, FunctionFacts DEF SweepTypeOK, InSweep
  <2>3. block' <= Len(f.order) => index' \in DOMAIN f.body[f.order[block']]
    <3>1. ASSUME block + 1 <= Len(f.order) PROVE 1 \in DOMAIN f.body[f.order[block + 1]]
      <4>1. f.order[block + 1] \in Blocks(f)
        BY <3>1, <2>2, FunctionFacts
      <4> QED BY <4>1, <2>2, BodyFacts
    <3> QED BY <3>1, <2>1
  <2>4. SweepTypeOK'
    <3>1. block' \in 1..(Len(f.order) + 1) /\ (block' > Len(f.order) => index' = 1)
      BY <2>1, <2>2
    <3> QED BY <3>1, <2>1, <2>3, Zenon DEF SweepTypeOK
  <2>5. SettledBehind'
    <3>1. ASSUME phase = "sweep", ~changed, NEW p \in 1..Len(f.order), NEW k \in DOMAIN f.body[f.order[p]],
                 Behind(p, k)', f.order[p] \in executable_
          PROVE  Settled(f.body[f.order[p]][k])
      <4>1. f.order[p] \in Blocks(f)
        BY <2>2, FunctionFacts
      <4>2. k \in Nat /\ k >= 1
        BY <2>2, <4>1, BodyFacts
      <4>3. p <= block
        BY <3>1, <4>2, <2>1, <2>2 DEF Behind
      <4>4. p # block
        BY <2>1, <3>1
      <4>5. Behind(p, k)
        BY <4>3, <4>4, <2>2 DEF Behind
      <4> QED BY <4>5, <3>1 DEF SettledBehind
    <3>2. \A i : Settled(i)' <=> Settled(i)
      BY <2>1, SettledKept
    <3> QED BY <3>1, <3>2, <2>1 DEF SettledBehind
  <2>6. EndsSettled'
    BY <2>1 DEF EndsSettled, InSweep
  <2> QED BY <2>4, <2>5, <2>6
<1> USE DEF Updated
<1>2. ASSUME InSweep, Advance, UNCHANGED <<f, phase>>, changed' \in BOOLEAN, DOMAIN value_state_' = Ids(f),
             ~changed' => ~changed /\ UNCHANGED <<executable_, value_state_>> /\ Settled(At)
      PROVE  SweepInv'
  <2>1. /\ block' \in 1..(Len(f.order) + 1) /\ index' \in Nat \ {0}
        /\ block' <= Len(f.order) => index' \in DOMAIN f.body[f.order[block']]
        /\ block' > Len(f.order) => index' = 1
        /\ \A p \in 1..Len(f.order) : \A k \in DOMAIN f.body[f.order[p]] :
              Behind(p, k)' => Behind(p, k) \/ (p = block /\ k = index)
    <3>1. SweepTypeOK /\ InSweep /\ f' = f /\ Advance
      BY <1>2
    <3> QED BY <3>1, AdvanceFacts, Zenon
  <2>2. SweepTypeOK'
    BY <1>2, <2>1, Zenon DEF SweepTypeOK
  <2>3. SettledBehind'
    <3>1. ASSUME phase = "sweep", ~changed', NEW p \in 1..Len(f.order), NEW k \in DOMAIN f.body[f.order[p]],
                 Behind(p, k)', f.order[p] \in executable_
          PROVE  Settled(f.body[f.order[p]][k])
      <4>1. CASE Behind(p, k)
        BY <4>1, <3>1, <1>2 DEF SettledBehind
      <4>2. CASE p = block /\ k = index
        BY <4>2, <1>2, <3>1 DEF At
      <4> QED BY <4>1, <4>2, <2>1, <3>1
    <3>2. ASSUME ~changed' PROVE UNCHANGED <<executable_, value_state_>> /\ \A i : Settled(i)' <=> Settled(i)
      BY <3>2, <1>2, SettledKept
    <3> QED BY <3>1, <3>2, <1>2 DEF SettledBehind
  <2>4. EndsSettled'
    BY <1>2 DEF EndsSettled, InSweep
  <2> QED BY <2>2, <2>3, <2>4
<1>3. CASE VisitBranch
  <2>1. /\ InSweep /\ At.op = "br" /\ executable_' = executable_ \cup Targets(At)
        /\ changed' = (changed \/ executable_' # executable_) /\ Advance
        /\ UNCHANGED <<f, value_state_, phase, result>>
    BY <1>3 DEF VisitBranch
  <2>2. changed' \in BOOLEAN /\ (~changed' => ~changed /\ executable_' = executable_)
    BY <2>1, Zenon DEF SweepTypeOK
  <2>3. ASSUME ~changed' PROVE Settled(At)
    BY <2>1, <2>2, <2>3 DEF Settled
  <2> QED BY <1>2, <2>1, <2>2, <2>3 DEF SweepTypeOK
<1>4. CASE VisitValue
  <2>1. /\ InSweep /\ At.id # 0 /\ value_state_' = [value_state_ EXCEPT ![At.id] = Join(@, Evaluate(At))]
        /\ changed' = (changed \/ value_state_' # value_state_) /\ Advance
        /\ UNCHANGED <<f, executable_, phase, result>>
    BY <1>4 DEF VisitValue
  <2>2. changed' \in BOOLEAN /\ (~changed' => ~changed /\ value_state_' = value_state_)
    BY <2>1, Zenon DEF SweepTypeOK
  <2>3. At.op # "br" /\ At.id \in DOMAIN value_state_ /\ DOMAIN value_state_' = Ids(f)
    <3>1. IsInstr(At) /\ At.id \in Ids(f)
      BY <2>1, AdvanceFacts
    <3> QED BY <3>1, <2>1 DEF IsInstr, SweepTypeOK
  <2>4. ASSUME ~changed' PROVE Settled(At)
    <3>1. Join(value_state_[At.id], Evaluate(At)) = value_state_[At.id]
      BY <2>1, <2>2, <2>3, <2>4
    <3> QED BY <3>1, <2>3, JoinAbsorbs DEF Settled
  <2> QED BY <1>2, <2>1, <2>2, <2>3, <2>4
<1>5. CASE VisitVoid
  BY <1>2, <1>5 DEF VisitVoid, Settled, SweepTypeOK
<1>6. CASE SweepAgain
  <2>1. /\ phase = "sweep" /\ block > Len(f.order) /\ block' = 1 /\ changed' = FALSE
        /\ UNCHANGED <<f, executable_, value_state_, index, phase, result>>
    BY <1>6 DEF SweepAgain
  <2>2. IsFunction(f)
    BY ProgramsAre DEF SweepTypeOK
  <2>3. EndsSettled'
    BY <2>1 DEF EndsSettled
  <2>4. index = 1 /\ f.order[1] \in Blocks(f) /\ 1 \in 1..(Len(f.order) + 1)
    BY <2>1, <2>2, FunctionFacts DEF SweepTypeOK
  <2>5. index \in DOMAIN f.body[f.order[1]]
    BY <2>2, <2>4, BodyFacts
  <2>6. ~(1 > Len(f.order))
    BY <2>2, FunctionFacts
  <2>7. SweepTypeOK'
    BY <2>1, <2>4, <2>5, <2>6, Zenon DEF SweepTypeOK
  <2>8. SettledBehind'
    <3>1. ASSUME NEW p \in 1..Len(f.order), NEW k \in DOMAIN f.body[f.order[p]] PROVE ~Behind(p, k)'
      <4>1. f.order[p] \in Blocks(f)
        BY <2>2, FunctionFacts
      <4>2. k \in Nat /\ k >= 1 /\ p >= 1
        BY <4>1, <2>2, BodyFacts
      <4> QED BY <4>2, <2>1, <2>4 DEF Behind
    <3> QED BY <3>1, <2>1 DEF SettledBehind
  <2> QED BY <2>3, <2>7, <2>8
<1>7. CASE RewriteConstants
  <2>1. /\ phase = "sweep" /\ block > Len(f.order) /\ ~changed /\ phase' = "done"
        /\ UNCHANGED <<f, executable_, value_state_, block, index, changed>>
    BY <1>7 DEF RewriteConstants
  <2>2. IsFunction(f)
    BY ProgramsAre DEF SweepTypeOK
  <2>3. ASSUME NEW b \in executable_ \cap Blocks(f), NEW i \in ToSet(f.body[b]) PROVE Settled(i)
    <3>1. PICK p \in 1..Len(f.order) : f.order[p] = b
      BY <2>2, FunctionFacts
    <3>2. PICK k \in DOMAIN f.body[b] : f.body[b][k] = i
      BY DEF ToSet
    <3>3. Behind(p, k)
      BY <2>1, <2>2, FunctionFacts DEF Behind, SweepTypeOK
    <3> QED BY <3>1, <3>2, <3>3, <2>1 DEF SettledBehind
  <2>4. EndsSettled'
    <3>1. \A i : Settled(i)' <=> Settled(i)
      BY <2>1, SettledKept
    <3> QED BY <2>1, <2>3, <3>1 DEF EndsSettled
  <2> QED BY <2>1, <2>4 DEF SweepTypeOK, SettledBehind
<1>8. CASE UNCHANGED vars
  <2>1. \A i : Settled(i)' <=> Settled(i)
    BY <1>8, SettledKept DEF vars
  <2> QED BY <1>8, <2>1 DEF vars, SweepTypeOK, SettledBehind, EndsSettled, Behind
<1> QED BY <1>1, <1>3, <1>4, <1>5, <1>6, <1>7, <1>8 DEF Next

(* When the sweeps have ended, nothing is left to find.                    *)
THEOREM AlwaysEndsSettled == ScalarSpec => []EndsSettled
<1>1. ScalarInit => SweepInv
  BY SweepInit DEF ScalarInit
<1>2. SweepInv /\ [ScalarNext]_<<vars, range_vars>> => SweepInv'
  <2>1. ASSUME SweepInv, UNCHANGED <<f, executable_, value_state_, block, index, changed, phase>>
        PROVE  SweepInv'
    <3>1. \A i : Settled(i)' <=> Settled(i)
      BY <2>1, SettledKept
    <3> QED BY <2>1, <3>1 DEF SweepInv, SweepTypeOK, SettledBehind, EndsSettled, Behind
  <2> QED BY <2>1, SweepSteps DEF ScalarNext, vars
<1>3. SweepInv => EndsSettled
  BY DEF SweepInv
<1> QED BY <1>1, <1>2, <1>3, PTL DEF ScalarSpec

-----------------------------------------------------------------------------
(* Constants found are integers of the type, and the function they are put *)
(* into keeps its shape.                                                   *)

Numbers == VR!Smallest .. VR!Largest
Lattice == {Unknown, Overdefined} \cup {Constant(n) : n \in Numbers}
FunctionInv ==
    /\ value_state_ \in [Ids(f) -> Lattice]
    /\ IsFunction(result)

LEMMA LatticeFacts ==
  /\ Unknown \in Lattice /\ Overdefined \in Lattice /\ \A n \in Numbers : Constant(n) \in Lattice
  /\ \A x \in Lattice : IsConstant(x) <=> x.n \in Numbers /\ x = Constant(x.n)
  /\ Constant(0) \in Lattice /\ Constant(1) \in Lattice
  /\ \A x, y \in Lattice : Join(x, y) \in Lattice
<1>1. 0 \in Numbers /\ 1 \in Numbers
  BY WidthFacts DEF Numbers
<1>2. \A x \in Lattice : IsConstant(x) <=> x.n \in Numbers /\ x = Constant(x.n)
  BY DEF Lattice, IsConstant, Constant, Unknown, Overdefined
<1>3. \A x, y \in Lattice : Join(x, y) \in Lattice
  BY DEF Lattice, Join
<1> QED BY <1>1, <1>2, <1>3 DEF Lattice

LEMMA StateIs ==
  ASSUME value_state_ \in [Ids(f) -> Lattice], NEW v, IsOperand(v)
  PROVE  StateFor(v) \in Lattice
BY LatticeFacts DEF StateFor, IsOperand, Numbers

LEMMA BinaryIs ==
  ASSUME NEW i, i.op \in BinaryOps, NEW x \in Lattice, NEW y \in Lattice
  PROVE  EvaluateBinary(i, x, y) \in Lattice
<1>1. EvaluateByIdentity(i.op, i.bits, x, y) \in Lattice
  BY LatticeFacts DEF EvaluateByIdentity
<1>2. ASSUME IsConstant(x), IsConstant(y), FoldIntBinary(i.op, x.n, y.n) # {},
             NEW m, m \in FoldIntBinary(i.op, x.n, y.n)
      PROVE  Constant(Truncated(i.bits, m)) \in Lattice
  <2>1. x.n \in Int /\ y.n \in Int
    BY <1>2, LatticeFacts DEF Numbers
  <2>2. m \in Int
    <3>1. i.op \in {"sdiv", "srem"} /\ y.n = 0 => FALSE
      BY <1>2 DEF FoldIntBinary
    <3>2. Machine(i.op, x.n, y.n) \in VR!Smallest .. VR!Largest
      BY <3>1, <2>1, MachineRange
    <3>3. m = 0 \/ m = Machine(i.op, x.n, y.n)
      BY <1>2 DEF FoldIntBinary
    <3> QED BY <3>2, <3>3
  <2>3. Truncated(i.bits, m) \in {0, 1} \/ Truncated(i.bits, m) = Wrap(m)
    BY DEF Truncated
  <2>4. Wrap(m) \in Numbers
    BY <2>2, WrapRange DEF Numbers
  <2> QED BY <2>3, <2>4, LatticeFacts
<1> DEFINE folded == IF IsConstant(x) /\ IsConstant(y) THEN FoldIntBinary(i.op, x.n, y.n) ELSE {}
<1>3. CASE folded # {}
  <2>1. IsConstant(x) /\ IsConstant(y) /\ folded = FoldIntBinary(i.op, x.n, y.n)
    BY <1>3
  <2>2. (CHOOSE n \in folded : TRUE) \in folded
    <3> HIDE DEF folded
    <3> QED BY <1>3
  <2>3. EvaluateBinary(i, x, y) = Constant(Truncated(i.bits, CHOOSE n \in folded : TRUE))
    BY <1>3 DEF EvaluateBinary
  <2> HIDE DEF folded
  <2> QED BY <2>1, <2>2, <2>3, <1>2, <1>3
<1>4. CASE folded = {}
  BY <1>1, <1>4 DEF EvaluateBinary
<1> QED BY <1>3, <1>4

LEMMA JoinAllIs ==
  ASSUME NEW S \in SUBSET Lattice
  PROVE  JoinAll(S) \in Lattice
<1>1. Unknown \in Lattice /\ Overdefined \in Lattice
  BY LatticeFacts
<1>2. ASSUME NEW x \in S, NEW T, T = {x} PROVE The(T) = x
  BY <1>2 DEF The
<1> HIDE DEF Lattice
<1> QED BY <1>1, <1>2 DEF JoinAll

LEMMA EvaluateIs ==
  ASSUME value_state_ \in [Ids(f) -> Lattice], NEW i, IsInstr(i)
  PROVE  Evaluate(i) \in Lattice
<1>1. i.args \in Seq(ToSet(i.args)) /\ \A k \in DOMAIN i.args : i.args[k] \in ToSet(i.args)
  BY DEF IsInstr, ToSet
<1>2. \A k \in DOMAIN i.args : StateFor(i.args[k]) \in Lattice
  <2>1. ASSUME NEW k \in DOMAIN i.args PROVE IsOperand(i.args[k])
    BY <1>1 DEF IsInstr
  <2> QED BY <2>1, StateIs
<1>3. ASSUME Len(i.args) = 2 PROVE 1 \in DOMAIN i.args /\ 2 \in DOMAIN i.args
  BY <1>1, <1>3
<1>4. ASSUME Len(i.args) = 1 PROVE 1 \in DOMAIN i.args
  BY <1>1, <1>4
<1>5. ASSUME IsPhi(i) PROVE EvaluatePhi(i) \in Lattice
  <2> DEFINE S == {StateFor(i.args[n]) : n \in {k \in DOMAIN i.args : i.to[k] \in executable_}}
  <2>1. S \in SUBSET Lattice
    BY <1>2
  <2> HIDE DEF S
  <2>2. JoinAll(S) \in Lattice
    BY <2>1, JoinAllIs
  <2> QED BY <2>2 DEF EvaluatePhi, S
<1>6. ASSUME i.op \in BinaryOps PROVE EvaluateBinary(i, StateFor(i.args[1]), StateFor(i.args[2])) \in Lattice
  BY <1>2, <1>3, <1>6, BinaryIs DEF IsInstr
<1>7. ASSUME i.op \in CmpOps PROVE EvaluateCmp(i, StateFor(i.args[1]), StateFor(i.args[2])) \in Lattice
  BY LatticeFacts DEF EvaluateCmp
<1>8. ASSUME i.op = "zext" PROVE EvaluateCast(StateFor(i.args[1])) \in Lattice
  BY <1>2, <1>4, <1>8, LatticeFacts DEF EvaluateCast, IsInstr
<1> QED BY <1>5, <1>6, <1>7, <1>8, LatticeFacts DEF Evaluate

(* An instruction, and a function, with other operands.                    *)
LEMMA RewrittenIs ==
  ASSUME NEW i, IsInstr(i), NEW r, DOMAIN r = DOMAIN i.args,
         \A n \in DOMAIN r : IsOperand(r[n]),
         NEW j, j = [i EXCEPT !.args = r], r \in Seq(ToSet(r))
  PROVE  IsInstr(j) /\ j.id = i.id /\ j.op = i.op /\ j.bits = i.bits /\ j.to = i.to
<1>1. DOMAIN i = {"op", "id", "bits", "args", "to"}
  BY DEF IsInstr
<1>2. /\ DOMAIN j = {"op", "id", "bits", "args", "to"} /\ j.args = r
      /\ j.id = i.id /\ j.op = i.op /\ j.bits = i.bits /\ j.to = i.to
  BY <1>1
<1>3. Len(r) = Len(i.args)
  <2>1. i.args \in Seq(ToSet(i.args))
    BY DEF IsInstr
  <2> QED BY <2>1, LenProperties
<1>4. \A v \in ToSet(r) : IsOperand(v)
  BY DEF ToSet
<1> QED BY <1>2, <1>3, <1>4 DEF IsInstr, IsPhi

LEMMA SequenceOn ==
  ASSUME NEW n \in Nat, NEW s, DOMAIN s = 1..n, s = [k \in 1..n |-> s[k]]
  PROVE  s \in Seq(ToSet(s)) /\ Len(s) = n
<1>1. s \in [1..n -> ToSet(s)]
  BY DEF ToSet
<1> QED BY <1>1, SeqDef, LenProperties

HasShapeOf(h, g) ==
    /\ DOMAIN h = DOMAIN g /\ h.order = g.order /\ DOMAIN h.body = DOMAIN g.body
    /\ \A b \in Blocks(g) :
          /\ DOMAIN h.body[b] = DOMAIN g.body[b]
          /\ h.body[b] = [k \in DOMAIN g.body[b] |-> h.body[b][k]]
          /\ \A k \in DOMAIN g.body[b] : IsInstr(h.body[b][k]) /\ h.body[b][k].id = g.body[b][k].id
LEMMA SameShape ==
  ASSUME NEW g, IsFunction(g), NEW h, HasShapeOf(h, g)
  PROVE  IsFunction(h)
<1> USE DEF HasShapeOf
<1>1. Blocks(h) = Blocks(g)
  BY DEF Blocks
<1>2. DOMAIN h = {"order", "body"} /\ h.order \in Seq(Blocks(h)) /\ h.order # <<>> /\ DOMAIN h.body = Blocks(h)
  BY <1>1 DEF IsFunction
<1>3. ASSUME NEW b \in Blocks(h)
      PROVE  h.body[b] \in Seq(ToSet(h.body[b])) /\ h.body[b] # <<>> /\ \A i \in ToSet(h.body[b]) : IsInstr(i)
  <2>1. PICK n \in Nat \ {0} : DOMAIN g.body[b] = 1..n
    BY <1>1, BodyFacts
  <2>2. h.body[b] \in Seq(ToSet(h.body[b])) /\ Len(h.body[b]) = n
    BY <2>1, <1>1, SequenceOn
  <2>3. h.body[b] # <<>>
    BY <2>1, <2>2
  <2>4. ASSUME NEW i \in ToSet(h.body[b]) PROVE IsInstr(i)
    <3>1. PICK k \in DOMAIN h.body[b] : i = h.body[b][k]
      BY DEF ToSet
    <3> QED BY <3>1, <1>1
  <2> QED BY <2>2, <2>3, <2>4
<1>4. ASSUME NEW b \in Blocks(h), NEW c \in Blocks(h), NEW k \in DOMAIN h.body[b], NEW j \in DOMAIN h.body[c],
             h.body[b][k].id = h.body[c][j].id, h.body[b][k].id # 0
      PROVE  b = c /\ k = j
  <2>1. k \in DOMAIN g.body[b] /\ h.body[b][k].id = g.body[b][k].id
    BY <1>1
  <2>2. j \in DOMAIN g.body[c] /\ h.body[c][j].id = g.body[c][j].id
    BY <1>1
  <2>3. g.body[b][k].id = g.body[c][j].id /\ g.body[b][k].id # 0
    BY <1>4, <2>1, <2>2
  <2> HIDE DEF HasShapeOf
  <2> QED BY <2>1, <2>2, <2>3, <1>1 DEF IsFunction
<1> QED BY <1>2, <1>3, <1>4 DEF IsFunction

LEMMA FunctionInit == Init => FunctionInv
BY ProgramsAre, LatticeFacts DEF Init, FunctionInv

LEMMA FunctionKept ==
  ASSUME SweepInv, FunctionInv, [Next]_vars
  PROVE  FunctionInv'
<1>1. IsFunction(f) /\ value_state_ \in [Ids(f) -> Lattice] /\ IsFunction(result)
  BY ProgramsAre DEF SweepInv, SweepTypeOK, FunctionInv
<1>2. CASE VisitValue
  <2>1. /\ InSweep /\ value_state_' = [value_state_ EXCEPT ![At.id] = Join(@, Evaluate(At))] /\ Advance
        /\ UNCHANGED <<f, result>>
    BY <1>2 DEF VisitValue, Updated
  <2>2. IsInstr(At)
    BY <2>1, AdvanceFacts DEF SweepInv
  <2>3. Evaluate(At) \in Lattice
    BY <1>1, <2>2, EvaluateIs
  <2>4. value_state_' \in [Ids(f) -> Lattice]
    BY <1>1, <2>1, <2>3, LatticeFacts
  <2> QED BY <1>1, <2>1, <2>4 DEF FunctionInv
<1>3. CASE RewriteConstants
  <2> DEFINE R(v) == IF IsVal(v) /\ v[2] \in Constants THEN Const(value_state_[v[2]].n) ELSE v
             Args(i) == [n \in DOMAIN i.args |-> R(i.args[n])]
  <2>1. UNCHANGED <<f, value_state_>>
    BY <1>3 DEF RewriteConstants
  <2>2. result' = [f EXCEPT !.body = [b \in DOMAIN f.body |->
                     [k \in DOMAIN f.body[b] |-> [f.body[b][k] EXCEPT !.args = Args(f.body[b][k])]]]]
    BY <1>3 DEF RewriteConstants, ReplaceOperands
  <2>3. DOMAIN f = {"order", "body"} /\ DOMAIN f.body = Blocks(f)
    BY <1>1 DEF IsFunction
  <2>4. PICK h : h = result'
    OBVIOUS
  <2>5. DOMAIN h = DOMAIN f /\ h.order = f.order /\ DOMAIN h.body = DOMAIN f.body
        /\ h.body = [b \in DOMAIN f.body |->
                       [k \in DOMAIN f.body[b] |-> [f.body[b][k] EXCEPT !.args = Args(f.body[b][k])]]]
    <3> HIDE DEF Args
    <3> QED BY <2>2, <2>3, <2>4
  <2>6. ASSUME NEW b \in Blocks(f)
        PROVE  /\ h.body[b] = [k \in DOMAIN f.body[b] |-> [f.body[b][k] EXCEPT !.args = Args(f.body[b][k])]]
               /\ DOMAIN h.body[b] = DOMAIN f.body[b]
    <3> HIDE DEF Args
    <3> QED BY <2>3, <2>5
  <2>7. ASSUME NEW b \in Blocks(f), NEW k \in DOMAIN f.body[b]
        PROVE  IsInstr(h.body[b][k]) /\ h.body[b][k].id = f.body[b][k].id
    <3>1. PICK i : i = f.body[b][k] /\ IsInstr(i)
      BY <1>1, BodyFacts
    <3>2. h.body[b][k] = [i EXCEPT !.args = Args(i)]
      <4> HIDE DEF Args
      <4> QED BY <2>6, <3>1
    <3>3. i.args \in Seq(ToSet(i.args)) /\ \A v \in ToSet(i.args) : IsOperand(v)
      BY <3>1 DEF IsInstr
    <3>4. DOMAIN Args(i) = DOMAIN i.args /\ \A n \in DOMAIN i.args : Args(i)[n] = R(i.args[n])
      OBVIOUS
    <3>5. ASSUME NEW n \in DOMAIN i.args PROVE IsOperand(Args(i)[n])
      <4>1. i.args[n] \in ToSet(i.args)
        BY DEF ToSet
      <4>2. CASE IsVal(i.args[n]) /\ i.args[n][2] \in Constants
        <5>1. i.args[n][2] \in Ids(f) /\ IsConstant(value_state_[i.args[n][2]])
          BY <4>2, <1>1 DEF Constants
        <5>2. value_state_[i.args[n][2]].n \in Numbers
          BY <5>1, <1>1, LatticeFacts
        <5> QED BY <5>2, <4>2, <3>4 DEF Const, IsOperand, IsConst, IsVal, Numbers
      <4>3. CASE ~(IsVal(i.args[n]) /\ i.args[n][2] \in Constants)
        BY <4>1, <4>3, <3>3, <3>4
      <4> QED BY <4>2, <4>3
    <3>6. Args(i) \in Seq(ToSet(Args(i)))
      <4>1. PICK m \in Nat : DOMAIN i.args = 1..m
        BY <3>3
      <4>2. Args(i) = [n \in 1..m |-> Args(i)[n]]
        BY <4>1, <3>4
      <4> HIDE DEF Args
      <4> QED BY <4>1, <4>2, <3>4, SequenceOn
    <3> HIDE DEF Args
    <3> QED BY <3>1, <3>2, <3>4, <3>5, <3>6, RewrittenIs
  <2>8. IsFunction(h)
    <3>1. ASSUME NEW b \in Blocks(f) PROVE h.body[b] = [k \in DOMAIN f.body[b] |-> h.body[b][k]]
      <4> HIDE DEF Args
      <4> QED BY <2>6
    <3>2. \A b \in Blocks(f) : DOMAIN h.body[b] = DOMAIN f.body[b]
      <4> HIDE DEF Args
      <4> QED BY <2>6
    <3>3. DOMAIN h = DOMAIN f /\ h.order = f.order /\ DOMAIN h.body = DOMAIN f.body
      BY <2>5
    <3> HIDE DEF Args
    <3>4. \A b \in Blocks(f) : \A k \in DOMAIN f.body[b] : IsInstr(h.body[b][k]) /\ h.body[b][k].id = f.body[b][k].id
      BY <2>7
    <3>5. HasShapeOf(h, f)
      BY <3>1, <3>2, <3>3, <3>4, Zenon DEF HasShapeOf
    <3> QED BY <1>1, <3>5, SameShape, Zenon
  <2> QED BY <1>1, <2>1, <2>4, <2>8 DEF FunctionInv
<1>4. CASE SkipBlock \/ VisitBranch \/ VisitVoid \/ SweepAgain \/ UNCHANGED vars
  <2>1. UNCHANGED <<f, value_state_, result>>
    BY <1>4 DEF SkipBlock, VisitBranch, VisitVoid, SweepAgain, vars
  <2> QED BY <1>1, <2>1 DEF FunctionInv
<1> QED BY <1>2, <1>3, <1>4 DEF Next

-----------------------------------------------------------------------------
(* Intervals.                                                              *)

IsInterval(r) ==
    /\ r.lower \in Int /\ r.upper \in Int
    /\ VR!Smallest <= r.lower /\ r.lower <= r.upper /\ r.upper <= VR!Largest
Bounded(S) == S \in SUBSET Int /\ S # {} /\ \E lo, hi \in Int : \A n \in S : lo <= n /\ n <= hi

(* The operators OIRValueRange takes from OIR are those of this module.    *)
LEMMA SameOperators ==
  /\ \A S : VR!Min(S) = Min(S) /\ VR!Max(S) = Max(S)
  /\ \A v : (VR!IsConst(v) <=> IsConst(v)) /\ (VR!IsVal(v) <=> IsVal(v)) /\ VR!Val(v) = Val(v)
  /\ \A i : (VR!IsPhi(i) <=> IsPhi(i)) /\ (VR!IsConditional(i) <=> IsConditional(i))
  /\ \A g : VR!InstrsOf(g) = InstrsOf(g) /\ VR!Blocks(g) = Blocks(g)
  /\ \A s : VR!ToSet(s) = ToSet(s)
  /\ VR!BinaryOps = BinaryOps /\ VR!CmpOps = CmpOps
  /\ \A a, b : VR!TowardZero(a, b) = TowardZero(a, b)
<1>1. \A S : VR!Min(S) = Min(S) /\ VR!Max(S) = Max(S)
  BY DEF VR!Min, Min, VR!Max, Max
<1>2. \A v : (VR!IsConst(v) <=> IsConst(v)) /\ (VR!IsVal(v) <=> IsVal(v)) /\ VR!Val(v) = Val(v)
  BY DEF VR!IsConst, IsConst, VR!IsVal, IsVal, VR!Val, Val
<1>3. \A i : (VR!IsPhi(i) <=> IsPhi(i)) /\ (VR!IsConditional(i) <=> IsConditional(i))
  BY DEF VR!IsPhi, IsPhi, VR!IsConditional, IsConditional
<1>4. \A s : VR!ToSet(s) = ToSet(s)
  BY DEF VR!ToSet, ToSet
<1>5. \A g : VR!Blocks(g) = Blocks(g)
  BY <1>4 DEF VR!Blocks, Blocks
<1>6. \A g : VR!InstrsOf(g) = InstrsOf(g)
  BY <1>4, <1>5 DEF VR!InstrsOf, InstrsOf
<1>7. VR!BinaryOps = BinaryOps /\ VR!CmpOps = CmpOps
  BY DEF VR!BinaryOps, BinaryOps, VR!CmpOps, CmpOps
<1>8. \A a, b : VR!TowardZero(a, b) = TowardZero(a, b)
  BY DEF VR!TowardZero, TowardZero, VR!Sign, Sign, VR!Abs, Abs
<1> QED BY <1>1, <1>2, <1>3, <1>4, <1>5, <1>6, <1>7, <1>8, Zenon

LEMMA BoundedFacts ==
  ASSUME NEW S, Bounded(S)
  PROVE  /\ Min(S) \in S /\ Max(S) \in S /\ Min(S) \in Int /\ Max(S) \in Int
         /\ \A n \in S : Min(S) <= n /\ n <= Max(S)
<1>1. PICK lo, hi \in Int : \A n \in S : lo <= n /\ n <= hi
  BY DEF Bounded
<1>2. S \in SUBSET Int /\ S # {}
  BY DEF Bounded
<1>3. Min(S) \in S /\ \A n \in S : Min(S) <= n
  BY <1>1, <1>2, MinIs
<1>4. Max(S) \in S /\ \A n \in S : n <= Max(S)
  BY <1>1, <1>2, MaxIs
<1> QED BY <1>2, <1>3, <1>4

LEMMA FourBounded ==
  ASSUME NEW a \in Int, NEW b \in Int, NEW c \in Int, NEW d \in Int
  PROVE  Bounded({a, b, c, d})
<1> DEFINE low(x) == IF x < 0 THEN x ELSE 0
           high(x) == IF x > 0 THEN x ELSE 0
<1>1. low(a) + low(b) + low(c) + low(d) \in Int /\ high(a) + high(b) + high(c) + high(d) \in Int
  OBVIOUS
<1>2. \A n \in {a, b, c, d} : /\ low(a) + low(b) + low(c) + low(d) <= n
                              /\ n <= high(a) + high(b) + high(c) + high(d)
  OBVIOUS
<1> QED BY <1>1, <1>2 DEF Bounded

LEMMA FullIs ==
  /\ IsInterval(VR!Full) /\ IsInterval(VR!Bit) /\ VR!Narrow(VR!Bit, VR!Full)
  /\ \A r : IsInterval(r) => VR!Narrow(r, VR!Full) /\ VR!Narrow(r, r)
  /\ VR!Smallest \in Int /\ VR!Largest \in Int
  /\ \A n \in Numbers : IsInterval(VR!Point(n)) /\ VR!Point(n).lower = n /\ VR!Point(n).upper = n
BY WidthFacts DEF IsInterval, VR!Full, VR!Bit, VR!Point, VR!Narrow, Numbers

HasEnds(r) == r.lower \in Int /\ r.upper \in Int
LEMMA NarrowTransitive ==
  ASSUME NEW r, NEW s, NEW t, HasEnds(r), IsInterval(s), IsInterval(t), VR!Narrow(r, s), VR!Narrow(s, t)
  PROVE  VR!Narrow(r, t)
BY DEF IsInterval, HasEnds, VR!Narrow

(* Every member of T lies between two of S.                                *)
Between(T, S) == \A t \in T : (\E s \in S : s <= t) /\ (\E s \in S : t <= s)

LEMMA HullNarrows ==
  ASSUME NEW S, NEW T, Bounded(S), Bounded(T), Between(T, S)
  PROVE  /\ VR!Narrow(VR!Hull(T), VR!Hull(S))
         /\ VR!Narrow(VR!CheckedRange(T), VR!CheckedRange(S))
         /\ IsInterval(VR!CheckedRange(T))
<1>1. /\ Min(S) \in S /\ Max(S) \in S /\ Min(S) \in Int /\ Max(S) \in Int
      /\ \A n \in S : Min(S) <= n /\ n <= Max(S)
  BY BoundedFacts
<1>2. /\ Min(T) \in T /\ Max(T) \in T /\ Min(T) \in Int /\ Max(T) \in Int
      /\ \A n \in T : Min(T) <= n /\ n <= Max(T)
  BY BoundedFacts
<1>3. S \in SUBSET Int /\ T \in SUBSET Int
  BY DEF Bounded
<1>4. Min(S) <= Min(T) /\ Max(T) <= Max(S) /\ Min(T) <= Max(T)
  <2>1. PICK s \in S : s <= Min(T)
    BY <1>2 DEF Between
  <2>2. PICK u \in S : Max(T) <= u
    BY <1>2 DEF Between
  <2> QED BY <1>1, <1>2, <1>3, <2>1, <2>2
<1>5. VR!Smallest \in Int /\ VR!Largest \in Int /\ IsInterval(VR!Full)
  BY FullIs
<1>9. VR!Min(S) = Min(S) /\ VR!Max(S) = Max(S) /\ VR!Min(T) = Min(T) /\ VR!Max(T) = Max(T)
  BY SameOperators
<1>6. VR!Narrow(VR!Hull(T), VR!Hull(S))
  BY <1>4, <1>9 DEF VR!Narrow, VR!Hull
<1>7. IsInterval(VR!CheckedRange(T))
  BY <1>2, <1>4, <1>5, <1>9 DEF IsInterval, VR!CheckedRange, VR!Hull
<1>8. VR!Narrow(VR!CheckedRange(T), VR!CheckedRange(S))
  <2>1. CASE Min(S) < VR!Smallest \/ Max(S) > VR!Largest
    BY <2>1, <1>7, <1>9, FullIs DEF VR!CheckedRange
  <2>2. CASE ~(Min(S) < VR!Smallest \/ Max(S) > VR!Largest)
    <3>1. ~(Min(T) < VR!Smallest \/ Max(T) > VR!Largest)
      BY <2>2, <1>1, <1>2, <1>4, <1>5
    <3> QED BY <2>2, <3>1, <1>6, <1>9 DEF VR!CheckedRange
  <2> QED BY <2>1, <2>2
<1> QED BY <1>6, <1>7, <1>8

(* Sums, differences and products of what two intervals hold lie between   *)
(* those of their ends.                                                    *)
LEMMA ProductBetween ==
  ASSUME NEW a \in Int, NEW b \in Int, NEW l \in Int, NEW u \in Int, NEW m \in Int, NEW v \in Int,
         l <= a, a <= u, m <= b, b <= v
  PROVE  /\ l * m <= a * b \/ l * v <= a * b \/ u * m <= a * b \/ u * v <= a * b
         /\ a * b <= l * m \/ a * b <= l * v \/ a * b <= u * m \/ a * b <= u * v
<1>1. ASSUME NEW x \in Int, NEW y \in Int, NEW z \in Int, x <= y, z >= 0 PROVE x * z <= y * z
  BY <1>1
<1>2. ASSUME NEW x \in Int, NEW y \in Int, NEW z \in Int, x <= y, z <= 0 PROVE y * z <= x * z
  BY <1>2
<1>3. l * b <= a * b \/ u * b <= a * b
  <2>1. CASE b >= 0
    BY <1>1, <2>1
  <2>2. CASE b <= 0
    BY <1>2, <2>2
  <2> QED BY <2>1, <2>2
<1>4. a * b <= l * b \/ a * b <= u * b
  <2>1. CASE b >= 0
    BY <1>1, <2>1
  <2>2. CASE b <= 0
    BY <1>2, <2>2
  <2> QED BY <2>1, <2>2
<1>5. ASSUME NEW z \in Int PROVE (z * m <= z * b \/ z * v <= z * b) /\ (z * b <= z * m \/ z * b <= z * v)
  <2>1. CASE z >= 0
    BY <2>1
  <2>2. CASE z <= 0
    BY <2>2
  <2> QED BY <2>1, <2>2
<1>6. l * m \in Int /\ l * v \in Int /\ u * m \in Int /\ u * v \in Int /\ l * b \in Int /\ u * b \in Int /\ a * b \in Int
  OBVIOUS
<1>7. (l * m <= l * b \/ l * v <= l * b) /\ (l * b <= l * m \/ l * b <= l * v)
  BY <1>5
<1>8. (u * m <= u * b \/ u * v <= u * b) /\ (u * b <= u * m \/ u * b <= u * v)
  BY <1>5
<1> QED BY <1>3, <1>4, <1>6, <1>7, <1>8

LEMMA CornersAre ==
  ASSUME NEW x, NEW y
  PROVE  /\ VR!Corners("add", x, y) =
              {x.lower + y.lower, x.lower + y.upper, x.upper + y.lower, x.upper + y.upper}
         /\ VR!Corners("sub", x, y) =
              {x.lower - y.lower, x.lower - y.upper, x.upper - y.lower, x.upper - y.upper}
         /\ VR!Corners("mul", x, y) =
              {x.lower * y.lower, x.lower * y.upper, x.upper * y.lower, x.upper * y.upper}
BY DEF VR!Corners

LEMMA CornersNarrow ==
  ASSUME NEW op \in {"add", "sub", "mul"}, NEW x, NEW y, NEW r, NEW s,
         IsInterval(x), IsInterval(y), IsInterval(r), IsInterval(s), VR!Narrow(r, x), VR!Narrow(s, y)
  PROVE  /\ VR!Narrow(VR!CheckedRange(VR!Corners(op, r, s)), VR!CheckedRange(VR!Corners(op, x, y)))
         /\ IsInterval(VR!CheckedRange(VR!Corners(op, r, s)))
<1>1. PICK l, u, m, v, rl, ru, sl, su \in Int :
        /\ l = x.lower /\ u = x.upper /\ m = y.lower /\ v = y.upper
        /\ rl = r.lower /\ ru = r.upper /\ sl = s.lower /\ su = s.upper
  BY DEF IsInterval
<1>2. l <= rl /\ rl <= ru /\ ru <= u /\ m <= sl /\ sl <= su /\ su <= v
  BY <1>1 DEF IsInterval, VR!Narrow
<1>3. CASE op = "add"
  <2> DEFINE S == {l + m, l + v, u + m, u + v}
             T == {rl + sl, rl + su, ru + sl, ru + su}
  <2>1. Bounded(S) /\ Bounded(T)
    BY FourBounded
  <2>2. Between(T, S)
    BY <1>2 DEF Between
  <2>3. VR!Corners(op, r, s) = T /\ VR!Corners(op, x, y) = S
    BY <1>1, <1>3, CornersAre
  <2> HIDE DEF S, T
  <2> QED BY <2>1, <2>2, <2>3, HullNarrows
<1>4. CASE op = "sub"
  <2> DEFINE S == {l - m, l - v, u - m, u - v}
             T == {rl - sl, rl - su, ru - sl, ru - su}
  <2>1. Bounded(S) /\ Bounded(T)
    BY FourBounded
  <2>2. Between(T, S)
    BY <1>2 DEF Between
  <2>3. VR!Corners(op, r, s) = T /\ VR!Corners(op, x, y) = S
    BY <1>1, <1>4, CornersAre
  <2> HIDE DEF S, T
  <2> QED BY <2>1, <2>2, <2>3, HullNarrows
<1>5. CASE op = "mul"
  <2> DEFINE S == {l * m, l * v, u * m, u * v}
             T == {rl * sl, rl * su, ru * sl, ru * su}
  <2>1. Bounded(S) /\ Bounded(T)
    <3>1. /\ l * m \in Int /\ l * v \in Int /\ u * m \in Int /\ u * v \in Int
          /\ rl * sl \in Int /\ rl * su \in Int /\ ru * sl \in Int /\ ru * su \in Int
      OBVIOUS
    <3> QED BY <3>1, FourBounded
  <2>2. ASSUME NEW a \in {rl, ru}, NEW b \in {sl, su}
        PROVE  (\E n \in S : n <= a * b) /\ (\E n \in S : a * b <= n)
    <3>1. a \in Int /\ b \in Int /\ l <= a /\ a <= u /\ m <= b /\ b <= v
      BY <1>2
    <3>2. /\ l * m <= a * b \/ l * v <= a * b \/ u * m <= a * b \/ u * v <= a * b
          /\ a * b <= l * m \/ a * b <= l * v \/ a * b <= u * m \/ a * b <= u * v
      BY <3>1, ProductBetween
    <3> QED BY <3>2
  <2>3. Between(T, S)
    <3> HIDE DEF S
    <3> QED BY <2>2 DEF Between
  <2>4. VR!Corners(op, r, s) = T /\ VR!Corners(op, x, y) = S
    BY <1>1, <1>5, CornersAre
  <2> HIDE DEF S, T
  <2> QED BY <2>1, <2>3, <2>4, HullNarrows
<1> QED BY <1>3, <1>4, <1>5

(* Quotients.                                                              *)
LEMMA DivideFacts ==
  ASSUME NEW n \in Nat, NEW d \in Nat \ {0}
  PROVE  /\ n \div d \in Nat /\ n \div d <= n
         /\ d >= 2 /\ n >= 1 => n \div d < n
         /\ \A m \in Nat : n <= m => n \div d <= m \div d
<1>1. PICK q \in Int : q = n \div d
  OBVIOUS
<1>2. q * d <= n /\ n < q * d + d
  BY <1>1
<1>3. q >= 0
  <2>1. ASSUME q <= -1 PROVE FALSE
    <3>1. q * d <= -d
      BY <2>1
    <3> QED BY <3>1, <1>2
  <2> QED BY <2>1
<1>4. q <= q * d
  BY <1>3
<1>5. ASSUME d >= 2, n >= 1 PROVE q < n
  <2>1. q * 2 <= q * d
    BY <1>3, <1>5
  <2> QED BY <2>1, <1>2, <1>5, <1>3
<1>6. ASSUME NEW m \in Nat, n <= m PROVE q <= m \div d
  <2>1. PICK p \in Int : p = m \div d
    OBVIOUS
  <2>2. m < p * d + d
    BY <2>1
  <2>3. ASSUME p < q PROVE FALSE
    <3>1. p + 1 <= q
      BY <2>3
    <3>2. (p + 1) * d <= q * d
      BY <3>1
    <3>3. (p + 1) * d = p * d + d
      OBVIOUS
    <3>4. p * d \in Int /\ q * d \in Int
      OBVIOUS
    <3> QED BY <3>2, <3>3, <3>4, <2>2, <1>2, <1>6
  <2> QED BY <2>1, <2>3
<1> QED BY <1>1, <1>2, <1>3, <1>4, <1>5, <1>6

LEMMA TowardZeroIs ==
  ASSUME NEW a \in Int, NEW c \in Int, c # 0
  PROVE  \E d \in Nat \ {0}, m, q \in Nat :
           /\ d = (IF c > 0 THEN c ELSE -c) /\ m = (IF a >= 0 THEN a ELSE -a) /\ q = m \div d
           /\ TowardZero(a, c) = IF (a >= 0) = (c > 0) THEN q ELSE -q
<1>1. PICK d \in Nat \ {0} : d = IF c > 0 THEN c ELSE -c
  OBVIOUS
<1>2. PICK m \in Nat : m = IF a >= 0 THEN a ELSE -a
  OBVIOUS
<1>3. PICK q \in Nat : q = m \div d
  BY DivideFacts
<1>4. Abs(a) = m /\ Abs(c) = d
  BY <1>1, <1>2 DEF Abs
<1>5. TowardZero(a, c) = Sign(a, c) * q
  BY <1>3, <1>4 DEF TowardZero
<1>6. Sign(a, c) = IF (a >= 0) = (c > 0) THEN 1 ELSE -1
  BY DEF Sign
<1> QED BY <1>1, <1>2, <1>3, <1>5, <1>6

LEMMA TowardZeroOrder ==
  ASSUME NEW a \in Int, NEW b \in Int, NEW c \in Int, c # 0, a <= b
  PROVE  /\ TowardZero(a, c) \in Int /\ TowardZero(b, c) \in Int
         /\ c > 0 => TowardZero(a, c) <= TowardZero(b, c)
         /\ c < 0 => TowardZero(b, c) <= TowardZero(a, c)
<1> DEFINE Splits(x, d, m, q) ==
             /\ d = (IF c > 0 THEN c ELSE -c) /\ m = (IF x >= 0 THEN x ELSE -x) /\ q = m \div d
             /\ TowardZero(x, c) = IF (x >= 0) = (c > 0) THEN q ELSE -q
<1>a. \E d \in Nat \ {0}, m, q \in Nat : Splits(a, d, m, q)
  BY TowardZeroIs
<1>b. \E d \in Nat \ {0}, m, q \in Nat : Splits(b, d, m, q)
  BY TowardZeroIs
<1> HIDE DEF Splits
<1>1. PICK d \in Nat \ {0}, m, q \in Nat : Splits(a, d, m, q)
  BY <1>a
<1>2. PICK e \in Nat \ {0}, n, p \in Nat : Splits(b, e, n, p)
  BY <1>b
<1> USE DEF Splits
<1>3. e = d
  BY <1>1, <1>2
<1>4. (m <= n => q <= p) /\ (n <= m => p <= q)
  BY <1>1, <1>2, <1>3, DivideFacts
<1>5. CASE a >= 0
  <2>1. b >= 0 /\ q <= p
    BY <1>1, <1>2, <1>4, <1>5
  <2> QED BY <1>1, <1>2, <1>5, <2>1
<1>6. CASE b < 0
  <2>1. a < 0 /\ p <= q
    BY <1>1, <1>2, <1>4, <1>6
  <2> QED BY <1>1, <1>2, <1>6, <2>1
<1>7. CASE a < 0 /\ b >= 0
  BY <1>1, <1>2, <1>7
<1> QED BY <1>5, <1>6, <1>7

LEMMA TowardZeroRange ==
  ASSUME NEW a \in Numbers, NEW c \in Int, c # 0, ~(a = VR!Smallest /\ c = -1)
  PROVE  TowardZero(a, c) \in Numbers
<1>1. PICK P \in Nat : P >= 2 /\ VR!Smallest = -P /\ VR!Largest = P - 1
  BY WidthFacts
<1>2. a \in Int /\ -P <= a /\ a <= P - 1
  BY <1>1 DEF Numbers
<1>3. PICK d \in Nat \ {0}, m, q \in Nat :
           /\ d = (IF c > 0 THEN c ELSE -c) /\ m = (IF a >= 0 THEN a ELSE -a) /\ q = m \div d
           /\ TowardZero(a, c) = IF (a >= 0) = (c > 0) THEN q ELSE -q
  BY <1>2, TowardZeroIs
<1>4. q <= m /\ (d >= 2 /\ m >= 1 => q < m)
  BY <1>3, DivideFacts
<1>5. m <= P
  BY <1>2, <1>3
<1>6. (a >= 0) = (c > 0) => q <= P - 1
  <2>1. CASE a >= 0
    BY <2>1, <1>2, <1>3, <1>4
  <2>2. CASE a < 0 /\ c # -1
    <3>1. (a >= 0) = (c > 0) => d >= 2 /\ m >= 1
      BY <2>2, <1>2, <1>3
    <3> QED BY <3>1, <1>4, <1>5
  <2>3. CASE a < 0 /\ c = -1
    BY <2>3, <1>1, <1>2, <1>3, <1>4
  <2> QED BY <2>1, <2>2, <2>3, <1>2
<1> QED BY <1>1, <1>3, <1>4, <1>5, <1>6 DEF Numbers

LEMMA QuotientNarrows ==
  ASSUME NEW x, NEW r, NEW b, IsOperand(b), IsInterval(x), IsInterval(r), VR!Narrow(r, x)
  PROVE  VR!Narrow(VR!SDivRange(r, b), VR!SDivRange(x, b)) /\ IsInterval(VR!SDivRange(r, b))
<1>1. VR!IsConst(b) <=> IsConst(b)
  BY SameOperators
<1> DEFINE Stays(y) == ~IsConst(b) \/ b[2] = 0 \/ (y.lower = VR!Smallest /\ b[2] = -1)
           Ends(y) == {TowardZero(y.lower, b[2]), TowardZero(y.upper, b[2])}
<1>2. ASSUME NEW y
      PROVE  /\ Stays(y) => VR!SDivRange(y, b) = VR!Full
             /\ ~Stays(y) => VR!SDivRange(y, b) = VR!Hull(Ends(y))
  BY <1>1, SameOperators DEF VR!SDivRange
<1>3. ASSUME NEW y, IsInterval(y), ~Stays(y)
      PROVE  /\ \A n \in Ends(y) : n \in Numbers
             /\ Bounded(Ends(y)) /\ IsInterval(VR!Hull(Ends(y)))
  <2>1. b[2] \in Int /\ b[2] # 0
    BY <1>3 DEF IsOperand
  <2>2. y.lower \in Numbers /\ y.upper \in Numbers
    BY <1>3, FullIs DEF IsInterval, Numbers
  <2>3. TowardZero(y.lower, b[2]) \in Numbers
    BY <2>1, <2>2, <1>3, TowardZeroRange
  <2>4. TowardZero(y.upper, b[2]) \in Numbers
    <3>1. ~(y.upper = VR!Smallest /\ b[2] = -1)
      BY <1>3, FullIs DEF IsInterval
    <3> QED BY <3>1, <2>1, <2>2, TowardZeroRange
  <2>5. \A n \in Ends(y) : n \in Numbers
    BY <2>3, <2>4
  <2>6. Bounded(Ends(y))
    <3>1. \A n \in Ends(y) : n \in Int /\ VR!Smallest <= n /\ n <= VR!Largest
      BY <2>5, FullIs DEF Numbers
    <3>2. Ends(y) # {}
      OBVIOUS
    <3> HIDE DEF Ends
    <3> QED BY <3>1, <3>2, FullIs DEF Bounded
  <2>7. IsInterval(VR!Hull(Ends(y)))
    <3>1. VR!Hull(Ends(y)).lower = Min(Ends(y)) /\ VR!Hull(Ends(y)).upper = Max(Ends(y))
      BY SameOperators DEF VR!Hull
    <3> HIDE DEF Ends
    <3> QED BY <3>1, <2>5, <2>6, BoundedFacts, FullIs DEF IsInterval, Numbers
  <2> QED BY <2>5, <2>6, <2>7
<1>4. IsInterval(VR!SDivRange(r, b))
  BY <1>2, <1>3, FullIs
<1>5. CASE Stays(x)
  BY <1>2, <1>4, <1>5, FullIs
<1>6. CASE ~Stays(x)
  <2>1. b[2] \in Int /\ b[2] # 0
    BY <1>6 DEF IsOperand
  <2>2. PICK l, u, m, v \in Int : l = x.lower /\ u = x.upper /\ m = r.lower /\ v = r.upper
    BY DEF IsInterval
  <2>3. l <= m /\ m <= v /\ v <= u /\ l <= v /\ m <= u
    BY <2>2 DEF IsInterval, VR!Narrow
  <2>4. ~Stays(r)
    BY <1>6, <2>2, <2>3, FullIs DEF IsInterval
  <2>5. Between(Ends(r), Ends(x))
    <3>1. CASE b[2] > 0
      <4>1. /\ TowardZero(l, b[2]) <= TowardZero(m, b[2]) /\ TowardZero(m, b[2]) <= TowardZero(u, b[2])
            /\ TowardZero(l, b[2]) <= TowardZero(v, b[2]) /\ TowardZero(v, b[2]) <= TowardZero(u, b[2])
        BY <2>1, <2>3, <3>1, TowardZeroOrder
      <4> QED BY <4>1, <2>2 DEF Between
    <3>2. CASE b[2] < 0
      <4>1. /\ TowardZero(m, b[2]) <= TowardZero(l, b[2]) /\ TowardZero(u, b[2]) <= TowardZero(m, b[2])
            /\ TowardZero(v, b[2]) <= TowardZero(l, b[2]) /\ TowardZero(u, b[2]) <= TowardZero(v, b[2])
        BY <2>1, <2>3, <3>2, TowardZeroOrder
      <4> QED BY <4>1, <2>2 DEF Between
    <3> QED BY <3>1, <3>2, <2>1
  <2>6. Bounded(Ends(r)) /\ Bounded(Ends(x))
    BY <1>3, <1>6, <2>4
  <2>7. VR!Narrow(VR!Hull(Ends(r)), VR!Hull(Ends(x)))
    <3> HIDE DEF Ends
    <3> QED BY <2>5, <2>6, HullNarrows
  <2> HIDE DEF Ends, Stays
  <2> QED BY <1>2, <1>4, <1>6, <2>4, <2>7
<1> QED BY <1>5, <1>6

-----------------------------------------------------------------------------
(* What an instruction is given.                                           *)

(* What is known of values are intervals within those of their types, and  *)
(* no wider than their instructions would now be given.                    *)
Tight(known) ==
    \A x \in DOMAIN known :
        x # 0 /\ IsInterval(known[x]) /\ VR!Narrow(known[x], VR!IntegerBounds(Val(x)))
Consistent(known) ==
    \A b \in Blocks(result) : \A i \in ToSet(result.body[b]) :
        i.id \in DOMAIN known => VR!Narrow(VR!EvalInstruction(i, b, known, VR!Nothing), known[i.id])

LEMMA UniqueIds ==
  ASSUME NEW g, IsFunction(g), NEW i \in InstrsOf(g), NEW j \in InstrsOf(g), i.id = j.id, i.id # 0
  PROVE  i = j
<1>1. PICK b \in Blocks(g) : i \in ToSet(g.body[b])
  BY DEF InstrsOf
<1>2. PICK c \in Blocks(g) : j \in ToSet(g.body[c])
  BY DEF InstrsOf
<1>3. PICK k \in DOMAIN g.body[b] : i = g.body[b][k]
  BY <1>1 DEF ToSet
<1>4. PICK l \in DOMAIN g.body[c] : j = g.body[c][l]
  BY <1>2 DEF ToSet
<1>5. b = c /\ k = l
  BY <1>3, <1>4 DEF IsFunction
<1> QED BY <1>3, <1>4, <1>5

LEMMA InstrsAre ==
  ASSUME NEW g, IsFunction(g)
  PROVE  /\ \A i \in InstrsOf(g) : IsInstr(i)
         /\ \A b \in Blocks(g) : \A i \in ToSet(g.body[b]) : i \in InstrsOf(g)
BY DEF InstrsOf, IsFunction

LEMMA DefinitionsAre ==
  ASSUME IsFunction(result), NEW v
  PROVE  /\ \A i \in VR!Definitions(v) : i \in InstrsOf(result) /\ IsInstr(i) /\ IsVal(v) /\ i.id = v[2]
         /\ \A i \in InstrsOf(result) : IsVal(v) /\ i.id = v[2] => i \in VR!Definitions(v)
BY InstrsAre, SameOperators DEF VR!Definitions

LEMMA BoundsAre ==
  ASSUME IsFunction(result), NEW v
  PROVE  /\ VR!IntegerBounds(v) \in {VR!Bit, VR!Full} /\ IsInterval(VR!IntegerBounds(v))
         /\ IsVal(v) => VR!IntegerBounds(v) = VR!IntegerBounds(Val(v[2]))
         /\ \A i \in InstrsOf(result) : IsVal(v) /\ v[2] # 0 /\ i.id = v[2] =>
               VR!IntegerBounds(v) = IF i.bits = 1 THEN VR!Bit ELSE VR!Full
<1>1. VR!IntegerBounds(v) \in {VR!Bit, VR!Full} /\ IsInterval(VR!IntegerBounds(v))
  BY FullIs DEF VR!IntegerBounds
<1>2. ASSUME IsVal(v) PROVE VR!IntegerBounds(v) = VR!IntegerBounds(Val(v[2]))
  <2>1. VR!Definitions(v) = VR!Definitions(Val(v[2]))
    BY <1>2, SameOperators DEF VR!Definitions, IsVal, Val
  <2> QED BY <2>1 DEF VR!IntegerBounds
<1>3. ASSUME NEW i \in InstrsOf(result), IsVal(v), v[2] # 0, i.id = v[2]
      PROVE  VR!IntegerBounds(v) = IF i.bits = 1 THEN VR!Bit ELSE VR!Full
  <2>1. VR!Definitions(v) = {i}
    BY <1>3, DefinitionsAre, UniqueIds
  <2> QED BY <2>1 DEF VR!IntegerBounds
<1> QED BY <1>1, <1>2, <1>3

LEMMA RangeForDef ==
  ASSUME NEW v, NEW known
  PROVE  VR!RangeFor(v, known, VR!Nothing) =
           IF IsConst(v) THEN VR!Point(v[2])
           ELSE IF IsVal(v) /\ v[2] \in DOMAIN known THEN known[v[2]] ELSE VR!IntegerBounds(v)
<1>1. DOMAIN VR!Nothing = {}
  BY DEF VR!Nothing
<1>2. IsConst(v) => ~IsVal(v)
  BY DEF IsConst, IsVal
<1>3. (VR!IsConst(v) <=> IsConst(v)) /\ (VR!IsVal(v) <=> IsVal(v))
  BY SameOperators
<1> QED BY <1>1, <1>2, <1>3 DEF VR!RangeFor

LEMMA RangeForIs ==
  ASSUME IsFunction(result), NEW known, Tight(known), NEW v, IsOperand(v)
  PROVE  IsInterval(VR!RangeFor(v, known, VR!Nothing))
<1>1. CASE IsConst(v)
  <2>1. v[2] \in Numbers
    BY <1>1 DEF IsOperand, Numbers
  <2> QED BY <2>1, <1>1, FullIs, RangeForDef
<1>2. CASE ~IsConst(v) /\ IsVal(v) /\ v[2] \in DOMAIN known
  BY <1>2, RangeForDef DEF Tight
<1>3. CASE ~IsConst(v) /\ ~(IsVal(v) /\ v[2] \in DOMAIN known)
  BY <1>3, BoundsAre, RangeForDef
<1> QED BY <1>1, <1>2, <1>3

LEMMA RangeForNarrows ==
  ASSUME IsFunction(result), NEW known, Tight(known), NEW next, Tight(next), VR!Narrower(next, known),
         NEW v, IsOperand(v)
  PROVE  VR!Narrow(VR!RangeFor(v, next, VR!Nothing), VR!RangeFor(v, known, VR!Nothing))
<1>2. ASSUME NEW k
      PROVE  VR!RangeFor(v, k, VR!Nothing) =
               IF IsConst(v) THEN VR!Point(v[2])
               ELSE IF IsVal(v) /\ v[2] \in DOMAIN k THEN k[v[2]] ELSE VR!IntegerBounds(v)
  BY RangeForDef
<1>3. CASE IsConst(v)
  <2>1. v[2] \in Numbers
    BY <1>3 DEF IsOperand, Numbers
  <2> QED BY <1>2, <1>3, <2>1, FullIs
<1>4. CASE ~IsConst(v) /\ IsVal(v) /\ v[2] \in DOMAIN known
  <2>1. v[2] \in DOMAIN next /\ VR!Narrow(next[v[2]], known[v[2]])
    BY <1>4 DEF VR!Narrower
  <2> QED BY <1>2, <1>4, <2>1
<1>5. CASE ~IsConst(v) /\ IsVal(v) /\ v[2] \notin DOMAIN known /\ v[2] \in DOMAIN next
  <2>1. VR!Narrow(next[v[2]], VR!IntegerBounds(v))
    BY <1>5, BoundsAre DEF Tight
  <2> QED BY <1>2, <1>5, <2>1
<1>6. CASE ~IsConst(v) /\ ~(IsVal(v) /\ v[2] \in DOMAIN known) /\ ~(IsVal(v) /\ v[2] \in DOMAIN next)
  <2>1. VR!Narrow(VR!IntegerBounds(v), VR!IntegerBounds(v))
    BY BoundsAre, FullIs
  <2> QED BY <1>2, <1>6, <2>1
<1> QED BY <1>3, <1>4, <1>5, <1>6

LEMMA AndIs ==
  ASSUME NEW a, NEW b, IsOperand(a), IsOperand(b)
  PROVE  IsInterval(VR!AndRange(a, b)) /\ VR!Narrow(VR!AndRange(a, b), VR!AndRange(a, b))
<1> DEFINE mask == IF IsConst(b) THEN b ELSE a
<1>1. CASE IsConst(mask) /\ mask[2] >= 0
  <2>1. mask[2] \in Int /\ mask[2] <= VR!Largest
    BY <1>1, FullIs DEF IsOperand
  <2>2. VR!AndRange(a, b) = VR!Hull({0, mask[2]})
    BY <1>1, SameOperators DEF VR!AndRange
  <2>3. Min({0, mask[2]}) = 0 /\ Max({0, mask[2]}) = mask[2]
    <3>1. PICK m \in Int : m = mask[2]
      BY <2>1
    <3>2. Bounded({0, m, 0, m}) /\ {0, m, 0, m} = {0, m}
      BY FourBounded
    <3>3. Min({0, m}) \in {0, m} /\ Max({0, m}) \in {0, m} /\ \A n \in {0, m} : Min({0, m}) <= n /\ n <= Max({0, m})
      BY <3>2, BoundedFacts
    <3> HIDE DEF mask
    <3> QED BY <3>1, <3>3, <1>1
  <2>4. VR!Hull({0, mask[2]}).lower = 0 /\ VR!Hull({0, mask[2]}).upper = mask[2]
    BY <2>3, SameOperators DEF VR!Hull
  <2>5. VR!Smallest <= 0
    BY WidthFacts
  <2> HIDE DEF mask
  <2> QED BY <1>1, <2>1, <2>2, <2>4, <2>5, FullIs DEF IsInterval
<1>2. CASE ~(IsConst(mask) /\ mask[2] >= 0)
  <2>1. VR!AndRange(a, b) = VR!Full
    BY <1>2, SameOperators DEF VR!AndRange
  <2> QED BY <2>1, FullIs
<1> QED BY <1>1, <1>2

(* Operations on integers.                                                 *)
LEMMA BinaryNarrows ==
  ASSUME NEW i, IsInstr(i), i.op \in BinaryOps, i.op # "srem",
         NEW x, NEW y, NEW r, NEW s,
         IsInterval(x), IsInterval(y), IsInterval(r), IsInterval(s), VR!Narrow(r, x), VR!Narrow(s, y)
  PROVE  IsInterval(VR!EvalBinary(i, r, s)) /\ VR!Narrow(VR!EvalBinary(i, r, s), VR!EvalBinary(i, x, y))
<1>1. i.args[1] \in ToSet(i.args) /\ i.args[2] \in ToSet(i.args)
  BY DEF IsInstr, ToSet
<1>2. IsOperand(i.args[1]) /\ IsOperand(i.args[2])
  BY <1>1 DEF IsInstr
<1>3. CASE i.op \in {"add", "sub", "mul"}
  BY <1>3, CornersNarrow DEF VR!EvalBinary
<1>4. CASE i.op = "and"
  BY <1>2, <1>4, AndIs DEF VR!EvalBinary
<1>5. CASE i.op = "sdiv"
  BY <1>2, <1>5, QuotientNarrows DEF VR!EvalBinary
<1>6. CASE i.op \in {"or", "xor"}
  BY <1>6, FullIs DEF VR!EvalBinary
<1> QED BY <1>3, <1>4, <1>5, <1>6 DEF BinaryOps

(* Joins of intervals.                                                     *)
LEMMA EndsBounded ==
  ASSUME NEW R, R # {}, \A r \in R : IsInterval(r)
  PROVE  Bounded({r.lower : r \in R}) /\ Bounded({r.upper : r \in R})
<1>1. \A n \in {r.lower : r \in R} : n \in Int /\ VR!Smallest <= n /\ n <= VR!Largest
  BY FullIs DEF IsInterval
<1>2. \A n \in {r.upper : r \in R} : n \in Int /\ VR!Smallest <= n /\ n <= VR!Largest
  BY FullIs DEF IsInterval
<1> QED BY <1>1, <1>2, FullIs DEF Bounded

LEMMA JoinRangesIs ==
  ASSUME NEW R, R # {}, \A r \in R : IsInterval(r)
  PROVE  /\ IsInterval(VR!JoinRanges(R))
         /\ \E r \in R : VR!JoinRanges(R).lower = r.lower
         /\ \E r \in R : VR!JoinRanges(R).upper = r.upper
         /\ \A r \in R : VR!Narrow(r, VR!JoinRanges(R))
<1> DEFINE L == {r.lower : r \in R}
           U == {r.upper : r \in R}
<1>1. VR!JoinRanges(R).lower = Min(L) /\ VR!JoinRanges(R).upper = Max(U)
  BY SameOperators DEF VR!JoinRanges
<1>2. Min(L) \in L /\ \A n \in L : Min(L) <= n
  BY EndsBounded, BoundedFacts
<1>3. Max(U) \in U /\ \A n \in U : n <= Max(U)
  BY EndsBounded, BoundedFacts
<1>4. PICK a \in R : Min(L) = a.lower
  BY <1>2
<1>5. PICK b \in R : Max(U) = b.upper
  BY <1>3
<1>6. \A r \in R : r.lower \in L /\ r.upper \in U
  OBVIOUS
<1> HIDE DEF L, U
<1>7. IsInterval(VR!JoinRanges(R))
  <2>1. Min(L) <= b.lower
    BY <1>2, <1>6
  <2> QED BY <2>1, <1>1, <1>4, <1>5, FullIs DEF IsInterval
<1>8. \A r \in R : VR!Narrow(r, VR!JoinRanges(R))
  BY <1>1, <1>2, <1>3, <1>6 DEF VR!Narrow
<1> QED BY <1>1, <1>4, <1>5, <1>7, <1>8

LEMMA JoinNarrows ==
  ASSUME NEW R, R # {}, \A r \in R : IsInterval(r), NEW T, T # {}, \A t \in T : IsInterval(t),
         \A t \in T : \E r \in R : VR!Narrow(t, r)
  PROVE  VR!Narrow(VR!JoinRanges(T), VR!JoinRanges(R))
<1>1. PICK a \in T : VR!JoinRanges(T).lower = a.lower
  BY JoinRangesIs
<1>2. PICK b \in T : VR!JoinRanges(T).upper = b.upper
  BY JoinRangesIs
<1>3. PICK r \in R : VR!Narrow(a, r)
  OBVIOUS
<1>4. PICK s \in R : VR!Narrow(b, s)
  OBVIOUS
<1>5. VR!Narrow(r, VR!JoinRanges(R)) /\ VR!Narrow(s, VR!JoinRanges(R)) /\ IsInterval(VR!JoinRanges(R))
  BY JoinRangesIs
<1>6. IsInterval(a) /\ IsInterval(b) /\ IsInterval(r) /\ IsInterval(s)
  OBVIOUS
<1> QED BY <1>1, <1>2, <1>3, <1>4, <1>5, <1>6 DEF VR!Narrow, IsInterval

(* Of x and n - x one is no smaller than half of n, whatever is known of   *)
(* them, as long as the difference is known no closer than x lets it.      *)
LEMMA HalfBelow ==
  ASSUME IsFunction(result), NEW known, Tight(known), Consistent(known),
         NEW c \in InstrsOf(result), c.op = "lt", NEW h \in VR!HalfOf(c)
  PROVE  /\ h \in Nat /\ h <= VR!Largest
         /\ \/ h <= VR!RangeFor(c.args[1], known, VR!Nothing).upper
            \/ h <= VR!RangeFor(c.args[2], known, VR!Nothing).upper
<1> DEFINE x == VR!RangeFor(c.args[1], known, VR!Nothing)
           y == VR!RangeFor(c.args[2], known, VR!Nothing)
<1>1. PICK d \in VR!Definitions(c.args[2]) :
        /\ d.op = "sub" /\ IsConst(d.args[1]) /\ d.args[1][2] >= 0 /\ d.args[2] = c.args[1]
        /\ h = (d.args[1][2] + 1) \div 2
  BY SameOperators DEF VR!HalfOf
<1>2. d \in InstrsOf(result) /\ IsInstr(d) /\ IsVal(c.args[2]) /\ d.id = c.args[2][2] /\ d.bits # 1
  BY <1>1, DefinitionsAre DEF IsInstr
<1>3. IsInstr(c) /\ IsOperand(c.args[1]) /\ IsOperand(c.args[2])
  <2>1. IsInstr(c)
    BY InstrsAre
  <2>2. c.args[1] \in ToSet(c.args) /\ c.args[2] \in ToSet(c.args)
    BY <2>1 DEF IsInstr, CmpOps, ToSet
  <2> QED BY <2>1, <2>2 DEF IsInstr
<1>4. PICK n \in Int : n = d.args[1][2] /\ n >= 0 /\ n <= VR!Largest
  <2>1. d.args[1] \in ToSet(d.args)
    BY <1>1, <1>2 DEF IsInstr, BinaryOps, ToSet
  <2>2. d.args[1][2] \in VR!Smallest..VR!Largest
    BY <2>1, <1>1, <1>2 DEF IsInstr, IsOperand
  <2> QED BY <2>2, <1>1, FullIs
<1>5. h \in Nat /\ 2 * h <= n + 1 /\ h <= n
  BY <1>1, <1>4
<1>6. IsInterval(x) /\ IsInterval(y)
  BY <1>3, RangeForIs
<1>7. c.args[2][2] # 0 /\ ~IsConst(c.args[2])
  BY <1>2, <1>3 DEF IsOperand, IsVal, IsConst
<1>8. CASE d.id \in DOMAIN known
  <2>1. PICK b \in Blocks(result) : d \in ToSet(result.body[b])
    BY <1>2 DEF InstrsOf
  <2>2. VR!Narrow(VR!EvalInstruction(d, b, known, VR!Nothing), known[d.id])
    BY <2>1, <1>8 DEF Consistent
  <2>3. y = known[d.id]
    BY <1>2, <1>7, <1>8, RangeForDef
  <2>4. VR!RangeFor(d.args[1], known, VR!Nothing) = VR!Point(n)
    BY <1>1, <1>4, RangeForDef
  <2>5. VR!EvalInstruction(d, b, known, VR!Nothing) = VR!CheckedRange(VR!Corners("sub", VR!Point(n), x))
    <3>1. d.op \in BinaryOps /\ ~IsPhi(d)
      BY <1>1 DEF BinaryOps, IsPhi
    <3>2. VR!EvalInstruction(d, b, known, VR!Nothing)
            = VR!EvalBinary(d, VR!RangeFor(d.args[1], known, VR!Nothing), VR!RangeFor(d.args[2], known, VR!Nothing))
      BY <3>1, <1>2, SameOperators DEF VR!EvalInstruction
    <3> QED BY <3>2, <2>4, <1>1 DEF VR!EvalBinary
  <2> DEFINE S == VR!Corners("sub", VR!Point(n), x)
  <2>6. PICK l, u \in Int : l = x.lower /\ u = x.upper /\ l <= u
    BY <1>6 DEF IsInterval
  <2>7. S = {n - l, n - u, n - l, n - u}
    BY <2>6, CornersAre DEF VR!Point
  <2>8. Max(S) \in Int /\ Max(S) >= n - l
    <3>1. Bounded(S) /\ n - l \in S
      BY <2>7, FourBounded
    <3> HIDE DEF S
    <3> QED BY <3>1, BoundedFacts
  <2>9. VR!CheckedRange(S).upper \in {VR!Largest, Max(S)}
    BY SameOperators DEF VR!CheckedRange, VR!Full, VR!Hull
  <2>10. y.upper \in Int /\ (VR!Largest <= y.upper \/ n - l <= y.upper)
    <3>1. VR!CheckedRange(S).upper <= y.upper
      BY <2>2, <2>3, <2>5 DEF VR!Narrow
    <3>2. y.upper \in Int
      BY <1>6 DEF IsInterval
    <3> HIDE DEF S, y
    <3> QED BY <3>1, <3>2, <2>8, <2>9, <2>6, FullIs
  <2>11. h <= u \/ h <= y.upper
    <3> HIDE DEF S, y, x
    <3> QED BY <2>10, <2>6, <1>5, <1>4, FullIs
  <2> QED BY <2>11, <2>6, <1>4, <1>5, FullIs
<1>9. CASE d.id \notin DOMAIN known
  <2>1. y = VR!IntegerBounds(c.args[2])
    BY <1>2, <1>7, <1>9, RangeForDef
  <2>2. y = VR!Full
    BY <2>1, <1>2, <1>7, BoundsAre
  <2>3. y.upper = VR!Largest
    BY <2>2 DEF VR!Full
  <2> QED BY <2>3, <1>4, <1>5, FullIs
<1> QED BY <1>8, <1>9

(* A phi that takes the larger of two values.                              *)
LEMMA MaxPhiParts ==
  ASSUME IsFunction(result), NEW c \in InstrsOf(result), c.op = "lt",
         NEW x, IsInterval(x), NEW y, IsInterval(y), \A h \in VR!HalfOf(c) : h \in Nat /\ h <= VR!Largest
  PROVE  LET m == VR!MaxPhiRange(c, x, y) IN
         /\ m.lower \in {x.lower, y.lower} \cup VR!HalfOf(c)
         /\ \A n \in {x.lower, y.lower} \cup VR!HalfOf(c) : n \in Int /\ n <= m.lower
         /\ m.upper \in {x.upper, y.upper} /\ x.upper <= m.upper /\ y.upper <= m.upper
         /\ m.lower \in Int /\ m.upper \in Int
<1> DEFINE L == {x.lower, y.lower} \cup VR!HalfOf(c)
           U == {x.upper, y.upper}
           m == VR!MaxPhiRange(c, x, y)
<1>1. m.lower = Max(L) /\ m.upper = Max(U)
  BY SameOperators DEF VR!MaxPhiRange
<1>2. \A n \in L \cup U : n \in Int /\ n <= VR!Largest
  BY FullIs DEF IsInterval
<1>3. L # {} /\ U # {}
  OBVIOUS
<1>4. Max(L) \in L /\ \A n \in L : n <= Max(L)
  <2> HIDE DEF L, U
  <2> QED BY <1>2, <1>3, MaxIs, FullIs
<1>5. Max(U) \in U /\ \A n \in U : n <= Max(U)
  <2> HIDE DEF L, U
  <2> QED BY <1>2, <1>3, MaxIs, FullIs
<1>6. x.upper \in U /\ y.upper \in U
  OBVIOUS
<1> QED BY <1>1, <1>2, <1>4, <1>5, <1>6

LEMMA MaxPhiIs ==
  ASSUME IsFunction(result), NEW known, Tight(known), Consistent(known),
         NEW c \in InstrsOf(result), c.op = "lt"
  PROVE  IsInterval(VR!MaxPhiRange(c, VR!RangeFor(c.args[1], known, VR!Nothing),
                                      VR!RangeFor(c.args[2], known, VR!Nothing)))
<1>1. PICK x, y : /\ x = VR!RangeFor(c.args[1], known, VR!Nothing)
                  /\ y = VR!RangeFor(c.args[2], known, VR!Nothing)
  OBVIOUS
<1>2. IsOperand(c.args[1]) /\ IsOperand(c.args[2])
  <2>1. IsInstr(c)
    BY InstrsAre
  <2>2. c.args[1] \in ToSet(c.args) /\ c.args[2] \in ToSet(c.args)
    BY <2>1 DEF IsInstr, CmpOps, ToSet
  <2> QED BY <2>1, <2>2 DEF IsInstr
<1>3. IsInterval(x) /\ IsInterval(y)
  BY <1>1, <1>2, RangeForIs
<1>4. \A h \in VR!HalfOf(c) : h \in Nat /\ h <= VR!Largest /\ (h <= x.upper \/ h <= y.upper)
  BY <1>1, HalfBelow
<1>5. PICK m : m = VR!MaxPhiRange(c, x, y)
  OBVIOUS
<1>6. /\ m.lower \in {x.lower, y.lower} \cup VR!HalfOf(c)
      /\ \A n \in {x.lower, y.lower} \cup VR!HalfOf(c) : n \in Int /\ n <= m.lower
      /\ m.upper \in {x.upper, y.upper} /\ x.upper <= m.upper /\ y.upper <= m.upper
      /\ m.lower \in Int /\ m.upper \in Int
  BY <1>3, <1>4, <1>5, MaxPhiParts
<1>7. m.lower <= m.upper
  BY <1>3, <1>4, <1>6 DEF IsInterval
<1>8. VR!Smallest <= m.lower /\ m.upper <= VR!Largest
  <2>1. x.lower <= m.lower /\ VR!Smallest <= x.lower
    BY <1>3, <1>6 DEF IsInterval
  <2> QED BY <2>1, <1>3, <1>6, FullIs DEF IsInterval
<1>9. IsInterval(m)
  BY <1>6, <1>7, <1>8 DEF IsInterval
<1> QED BY <1>1, <1>5, <1>9

LEMMA MaxPhiNarrows ==
  ASSUME IsFunction(result), NEW known, Tight(known), Consistent(known),
         NEW next, Tight(next), VR!Narrower(next, known),
         NEW c \in InstrsOf(result), c.op = "lt"
  PROVE  LET old == VR!MaxPhiRange(c, VR!RangeFor(c.args[1], known, VR!Nothing),
                                      VR!RangeFor(c.args[2], known, VR!Nothing))
             new == VR!MaxPhiRange(c, VR!RangeFor(c.args[1], next, VR!Nothing),
                                      VR!RangeFor(c.args[2], next, VR!Nothing))
         IN  VR!Narrow(new, old) /\ HasEnds(new)
<1>1. PICK x, y, r, s : /\ x = VR!RangeFor(c.args[1], known, VR!Nothing)
                        /\ y = VR!RangeFor(c.args[2], known, VR!Nothing)
                        /\ r = VR!RangeFor(c.args[1], next, VR!Nothing)
                        /\ s = VR!RangeFor(c.args[2], next, VR!Nothing)
  OBVIOUS
<1>2. IsOperand(c.args[1]) /\ IsOperand(c.args[2])
  <2>1. IsInstr(c)
    BY InstrsAre
  <2>2. c.args[1] \in ToSet(c.args) /\ c.args[2] \in ToSet(c.args)
    BY <2>1 DEF IsInstr, CmpOps, ToSet
  <2> QED BY <2>1, <2>2 DEF IsInstr
<1>3. IsInterval(x) /\ IsInterval(y) /\ IsInterval(r) /\ IsInterval(s)
  BY <1>1, <1>2, RangeForIs
<1>4. VR!Narrow(r, x) /\ VR!Narrow(s, y)
  BY <1>1, <1>2, RangeForNarrows
<1>5. \A h \in VR!HalfOf(c) : h \in Nat /\ h <= VR!Largest
  BY <1>1, HalfBelow
<1>6. PICK m, n : m = VR!MaxPhiRange(c, x, y) /\ n = VR!MaxPhiRange(c, r, s)
  OBVIOUS
<1>7. /\ m.lower \in {x.lower, y.lower} \cup VR!HalfOf(c) /\ x.upper <= m.upper /\ y.upper <= m.upper
      /\ m.lower \in Int /\ m.upper \in Int
  BY <1>3, <1>5, <1>6, MaxPhiParts
<1>8. /\ \A k \in {r.lower, s.lower} \cup VR!HalfOf(c) : k \in Int /\ k <= n.lower
      /\ n.upper \in {r.upper, s.upper} /\ n.lower \in Int /\ n.upper \in Int
  BY <1>3, <1>5, <1>6, MaxPhiParts
<1>9. m.lower <= n.lower
  <2>1. CASE m.lower \in VR!HalfOf(c)
    BY <2>1, <1>8
  <2>2. CASE m.lower = x.lower
    <3>1. x.lower <= r.lower /\ r.lower <= n.lower
      BY <1>4, <1>8 DEF VR!Narrow
    <3> QED BY <2>2, <3>1, <1>3, <1>8 DEF IsInterval
  <2>3. CASE m.lower = y.lower
    <3>1. y.lower <= s.lower /\ s.lower <= n.lower
      BY <1>4, <1>8 DEF VR!Narrow
    <3> QED BY <2>3, <3>1, <1>3, <1>8 DEF IsInterval
  <2> QED BY <2>1, <2>2, <2>3, <1>7
<1>10. n.upper <= m.upper
  <2>1. CASE n.upper = r.upper
    <3>1. r.upper <= x.upper
      BY <1>4 DEF VR!Narrow
    <3> QED BY <2>1, <3>1, <1>3, <1>7 DEF IsInterval
  <2>2. CASE n.upper = s.upper
    <3>1. s.upper <= y.upper
      BY <1>4 DEF VR!Narrow
    <3> QED BY <2>2, <3>1, <1>3, <1>7 DEF IsInterval
  <2> QED BY <2>1, <2>2, <1>8
<1>11. VR!Narrow(n, m) /\ HasEnds(n)
  BY <1>8, <1>9, <1>10 DEF VR!Narrow, HasEnds
<1> QED BY <1>1, <1>6, <1>11

(* Phis.                                                                   *)
LEMMA MaxOfIs ==
  ASSUME IsFunction(result), NEW phi, NEW b, VR!MaxOf(phi, b) # {}
  PROVE  \E c \in InstrsOf(result) : c.op = "lt" /\ c = CHOOSE d \in VR!MaxOf(phi, b) : TRUE
<1>1. (CHOOSE d \in VR!MaxOf(phi, b) : TRUE) \in VR!MaxOf(phi, b)
  OBVIOUS
<1>2. \A d \in VR!MaxOf(phi, b) : d \in InstrsOf(result) /\ d.op = "lt"
  BY SameOperators DEF VR!MaxOf
<1> QED BY <1>1, <1>2

LEMMA PhiArgs ==
  ASSUME IsFunction(result), NEW phi, IsInstr(phi), phi.args # <<>>, NEW known, Tight(known)
  PROVE  LET R == {VR!RangeFor(v, known, VR!Nothing) : v \in ToSet(phi.args)} IN
         R # {} /\ \A r \in R : IsInterval(r)
<1>1. \A v \in ToSet(phi.args) : IsOperand(v)
  BY DEF IsInstr
<1>2. phi.args[1] \in ToSet(phi.args)
  <2>1. phi.args \in Seq(ToSet(phi.args))
    BY DEF IsInstr
  <2>2. 1 \in DOMAIN phi.args
    BY <2>1
  <2> QED BY <2>2 DEF ToSet
<1> QED BY <1>1, <1>2, RangeForIs

LEMMA PhiIs ==
  ASSUME IsFunction(result), NEW known, Tight(known), Consistent(known), NEW phi, IsInstr(phi), NEW b
  PROVE  IsInterval(VR!EvalPhi(phi, b, known, VR!Nothing))
<1>1. CASE phi.args = <<>>
  BY <1>1, FullIs DEF VR!EvalPhi
<1>2. CASE phi.args # <<>> /\ VR!MaxOf(phi, b) # {}
  <2>1. PICK c \in InstrsOf(result) : c.op = "lt" /\ c = CHOOSE d \in VR!MaxOf(phi, b) : TRUE
    BY <1>2, MaxOfIs
  <2>2. VR!EvalPhi(phi, b, known, VR!Nothing)
          = VR!MaxPhiRange(c, VR!RangeFor(c.args[1], known, VR!Nothing), VR!RangeFor(c.args[2], known, VR!Nothing))
    BY <1>2, <2>1 DEF VR!EvalPhi
  <2> QED BY <2>1, <2>2, MaxPhiIs
<1>3. CASE phi.args # <<>> /\ VR!MaxOf(phi, b) = {}
  <2> DEFINE R == {VR!RangeFor(v, known, VR!Nothing) : v \in ToSet(phi.args)}
  <2>1. VR!EvalPhi(phi, b, known, VR!Nothing) = VR!JoinRanges(R)
    BY <1>3, SameOperators DEF VR!EvalPhi
  <2>2. R # {} /\ \A r \in R : IsInterval(r)
    BY <1>3, PhiArgs
  <2> HIDE DEF R
  <2> QED BY <2>1, <2>2, JoinRangesIs
<1> QED BY <1>1, <1>2, <1>3

LEMMA PhiNarrows ==
  ASSUME IsFunction(result), NEW known, Tight(known), Consistent(known),
         NEW next, Tight(next), VR!Narrower(next, known), NEW phi, IsInstr(phi), NEW b
  PROVE  /\ VR!Narrow(VR!EvalPhi(phi, b, next, VR!Nothing), VR!EvalPhi(phi, b, known, VR!Nothing))
         /\ HasEnds(VR!EvalPhi(phi, b, next, VR!Nothing))
<1>1. CASE phi.args = <<>>
  BY <1>1, FullIs DEF VR!EvalPhi, IsInterval, HasEnds
<1>2. CASE phi.args # <<>> /\ VR!MaxOf(phi, b) # {}
  <2>1. PICK c \in InstrsOf(result) : c.op = "lt" /\ c = CHOOSE d \in VR!MaxOf(phi, b) : TRUE
    BY <1>2, MaxOfIs
  <2>2. ASSUME NEW k
        PROVE  VR!EvalPhi(phi, b, k, VR!Nothing)
                 = VR!MaxPhiRange(c, VR!RangeFor(c.args[1], k, VR!Nothing), VR!RangeFor(c.args[2], k, VR!Nothing))
    BY <1>2, <2>1 DEF VR!EvalPhi
  <2> QED BY <2>1, <2>2, MaxPhiNarrows
<1>3. CASE phi.args # <<>> /\ VR!MaxOf(phi, b) = {}
  <2> DEFINE R(k) == {VR!RangeFor(v, k, VR!Nothing) : v \in ToSet(phi.args)}
  <2>1. ASSUME NEW k PROVE VR!EvalPhi(phi, b, k, VR!Nothing) = VR!JoinRanges(R(k))
    BY <1>3, SameOperators DEF VR!EvalPhi
  <2>2. R(known) # {} /\ \A r \in R(known) : IsInterval(r)
    BY <1>3, PhiArgs
  <2>3. R(next) # {} /\ \A r \in R(next) : IsInterval(r)
    BY <1>3, PhiArgs
  <2>4. ASSUME NEW t \in R(next) PROVE \E r \in R(known) : VR!Narrow(t, r)
    <3>1. PICK v \in ToSet(phi.args) : t = VR!RangeFor(v, next, VR!Nothing)
      OBVIOUS
    <3>2. IsOperand(v)
      BY DEF IsInstr
    <3>3. VR!Narrow(t, VR!RangeFor(v, known, VR!Nothing))
      BY <3>1, <3>2, RangeForNarrows
    <3> QED BY <3>3
  <2> HIDE DEF R
  <2>5. VR!Narrow(VR!JoinRanges(R(next)), VR!JoinRanges(R(known)))
    BY <2>2, <2>3, <2>4, JoinNarrows
  <2>6. HasEnds(VR!JoinRanges(R(next)))
    BY <2>3, JoinRangesIs DEF IsInterval, HasEnds
  <2> QED BY <2>1, <2>5, <2>6
<1> QED BY <1>1, <1>2, <1>3

(* Every instruction.                                                      *)
LEMMA EvalParts ==
  ASSUME NEW i, IsInstr(i), NEW b, NEW known
  PROVE  VR!EvalInstruction(i, b, known, VR!Nothing) =
           IF i.bits = 1 THEN VR!Bit
           ELSE IF IsPhi(i) THEN VR!EvalPhi(i, b, known, VR!Nothing)
           ELSE IF i.op \in BinaryOps
                THEN VR!EvalBinary(i, VR!RangeFor(i.args[1], known, VR!Nothing),
                                      VR!RangeFor(i.args[2], known, VR!Nothing))
                ELSE VR!Full
<1>1. IsPhi(i) => i.op \notin BinaryOps
  BY DEF IsPhi, BinaryOps
<1>2. (VR!IsPhi(i) <=> IsPhi(i)) /\ VR!BinaryOps = BinaryOps
  BY SameOperators
<1>3. CASE i.bits = 1
  BY <1>3 DEF VR!EvalInstruction
<1>4. CASE i.bits # 1 /\ IsPhi(i)
  BY <1>1, <1>2, <1>4 DEF VR!EvalInstruction
<1>5. CASE i.bits # 1 /\ ~IsPhi(i) /\ i.op \in BinaryOps
  BY <1>2, <1>5 DEF VR!EvalInstruction
<1>6. CASE i.bits # 1 /\ ~IsPhi(i) /\ i.op \notin BinaryOps
  BY <1>2, <1>6 DEF VR!EvalInstruction
<1> QED BY <1>3, <1>4, <1>5, <1>6

LEMMA TwoOperands ==
  ASSUME NEW i, IsInstr(i), i.op \in BinaryOps
  PROVE  IsOperand(i.args[1]) /\ IsOperand(i.args[2])
<1>1. i.args[1] \in ToSet(i.args) /\ i.args[2] \in ToSet(i.args)
  BY DEF IsInstr, ToSet
<1> QED BY <1>1 DEF IsInstr

LEMMA EvalIs ==
  ASSUME IsFunction(result), ~VR!TakesRemainders, NEW known, Tight(known), Consistent(known),
         NEW i \in InstrsOf(result), NEW b
  PROVE  /\ IsInterval(VR!EvalInstruction(i, b, known, VR!Nothing))
         /\ i.id # 0 => VR!Narrow(VR!EvalInstruction(i, b, known, VR!Nothing), VR!IntegerBounds(Val(i.id)))
<1>1. IsInstr(i) /\ i.op # "srem"
  BY InstrsAre, SameOperators DEF VR!TakesRemainders
<1>2. IsInterval(VR!EvalInstruction(i, b, known, VR!Nothing))
  <2>1. ASSUME IsPhi(i) PROVE IsInterval(VR!EvalPhi(i, b, known, VR!Nothing))
    BY <1>1, <2>1, PhiIs
  <2>2. ASSUME i.op \in BinaryOps
        PROVE  IsInterval(VR!EvalBinary(i, VR!RangeFor(i.args[1], known, VR!Nothing),
                                           VR!RangeFor(i.args[2], known, VR!Nothing)))
    <3>1. PICK x, y : /\ x = VR!RangeFor(i.args[1], known, VR!Nothing)
                      /\ y = VR!RangeFor(i.args[2], known, VR!Nothing)
      OBVIOUS
    <3>2. IsInterval(x) /\ IsInterval(y) /\ VR!Narrow(x, x) /\ VR!Narrow(y, y)
      BY <1>1, <2>2, <3>1, TwoOperands, RangeForIs, FullIs
    <3> QED BY <1>1, <2>2, <3>1, <3>2, BinaryNarrows
  <2> QED BY <1>1, <2>1, <2>2, EvalParts, FullIs
<1>3. ASSUME i.id # 0
      PROVE  VR!Narrow(VR!EvalInstruction(i, b, known, VR!Nothing), VR!IntegerBounds(Val(i.id)))
  <2>1. VR!IntegerBounds(Val(i.id)) = IF i.bits = 1 THEN VR!Bit ELSE VR!Full
    <3>1. IsVal(Val(i.id)) /\ Val(i.id)[2] = i.id
      BY DEF IsVal, Val
    <3> QED BY <3>1, <1>3, BoundsAre
  <2>2. CASE i.bits = 1
    <3>1. VR!EvalInstruction(i, b, known, VR!Nothing) = VR!Bit
      BY <1>1, <2>2, EvalParts
    <3> QED BY <2>1, <2>2, <3>1, FullIs
  <2>3. CASE i.bits # 1
    BY <1>2, <2>1, <2>3, FullIs
  <2> QED BY <2>2, <2>3
<1> QED BY <1>2, <1>3

LEMMA EvalNarrows ==
  ASSUME IsFunction(result), ~VR!TakesRemainders, NEW known, Tight(known), Consistent(known),
         NEW next, Tight(next), VR!Narrower(next, known), NEW i \in InstrsOf(result), NEW b
  PROVE  /\ VR!Narrow(VR!EvalInstruction(i, b, next, VR!Nothing), VR!EvalInstruction(i, b, known, VR!Nothing))
         /\ HasEnds(VR!EvalInstruction(i, b, next, VR!Nothing))
<1>1. IsInstr(i) /\ i.op # "srem"
  BY InstrsAre, SameOperators DEF VR!TakesRemainders
<1>6. HasEnds(VR!Bit) /\ HasEnds(VR!Full)
  BY FullIs DEF IsInterval, HasEnds
<1>2. CASE i.bits = 1
  BY <1>1, <1>2, <1>6, EvalParts, FullIs
<1>3. CASE i.bits # 1 /\ IsPhi(i)
  BY <1>1, <1>3, EvalParts, PhiNarrows
<1>4. CASE i.bits # 1 /\ ~IsPhi(i) /\ i.op \in BinaryOps
  <2>1. PICK x, y, r, s : /\ x = VR!RangeFor(i.args[1], known, VR!Nothing)
                          /\ y = VR!RangeFor(i.args[2], known, VR!Nothing)
                          /\ r = VR!RangeFor(i.args[1], next, VR!Nothing)
                          /\ s = VR!RangeFor(i.args[2], next, VR!Nothing)
    OBVIOUS
  <2>2. IsOperand(i.args[1]) /\ IsOperand(i.args[2])
    BY <1>1, <1>4, TwoOperands
  <2>3. IsInterval(x) /\ IsInterval(y) /\ IsInterval(r) /\ IsInterval(s)
    BY <2>1, <2>2, RangeForIs
  <2>4. VR!Narrow(r, x) /\ VR!Narrow(s, y)
    BY <2>1, <2>2, RangeForNarrows
  <2>5. VR!Narrow(VR!EvalBinary(i, r, s), VR!EvalBinary(i, x, y)) /\ HasEnds(VR!EvalBinary(i, r, s))
    BY <1>1, <1>4, <2>3, <2>4, BinaryNarrows DEF IsInterval, HasEnds
  <2> QED BY <1>1, <1>4, <2>1, <2>5, EvalParts
<1>5. CASE i.bits # 1 /\ ~IsPhi(i) /\ i.op \notin BinaryOps
  BY <1>1, <1>5, <1>6, EvalParts, FullIs
<1> QED BY <1>2, <1>3, <1>4, <1>5

-----------------------------------------------------------------------------
(* The sweeps of the value ranges.                                         *)

(* What a sweep finds of an instruction is no wider than what was known,   *)
(* and what was known of the others still is what they would be given or   *)
(* more.                                                                   *)
LEMMA PutNarrows ==
  ASSUME IsFunction(result), ~VR!TakesRemainders, NEW known, Tight(known), Consistent(known),
         NEW b \in Blocks(result), NEW i \in ToSet(result.body[b]), i.id # 0,
         NEW next, next = VR!Put(known, i.id, VR!EvalInstruction(i, b, known, VR!Nothing))
  PROVE  VR!Narrower(next, known) /\ Tight(next) /\ Consistent(next)
<1>1. i \in InstrsOf(result)
  BY InstrsAre
<1>2. PICK r : r = VR!EvalInstruction(i, b, known, VR!Nothing)
  OBVIOUS
<1>3. /\ DOMAIN next = DOMAIN known \cup {i.id} /\ next[i.id] = r
      /\ \A x \in DOMAIN known : x # i.id => next[x] = known[x]
  BY <1>2 DEF VR!Put
<1>4. IsInterval(r) /\ VR!Narrow(r, VR!IntegerBounds(Val(i.id)))
  BY <1>1, <1>2, EvalIs
<1>5. Tight(next)
  <2> SUFFICES ASSUME NEW x \in DOMAIN next
               PROVE  x # 0 /\ IsInterval(next[x]) /\ VR!Narrow(next[x], VR!IntegerBounds(Val(x)))
    BY DEF Tight
  <2>1. CASE x = i.id
    BY <2>1, <1>3, <1>4
  <2>2. CASE x # i.id
    BY <2>2, <1>3 DEF Tight
  <2> QED BY <2>1, <2>2
<1>6. VR!Narrower(next, known)
  <2> SUFFICES ASSUME NEW x \in DOMAIN known PROVE x \in DOMAIN next /\ VR!Narrow(next[x], known[x])
    BY DEF VR!Narrower
  <2>1. CASE x = i.id
    BY <2>1, <1>2, <1>3 DEF Consistent
  <2>2. CASE x # i.id
    BY <2>2, <1>3, FullIs DEF Tight
  <2> QED BY <2>1, <2>2
<1>7. Consistent(next)
  <2> SUFFICES ASSUME NEW c \in Blocks(result), NEW j \in ToSet(result.body[c]), j.id \in DOMAIN next
               PROVE  VR!Narrow(VR!EvalInstruction(j, c, next, VR!Nothing), next[j.id])
    BY DEF Consistent
  <2>1. j \in InstrsOf(result)
    BY InstrsAre
  <2>2. PICK new, old : /\ new = VR!EvalInstruction(j, c, next, VR!Nothing)
                        /\ old = VR!EvalInstruction(j, c, known, VR!Nothing)
    OBVIOUS
  <2>3. VR!Narrow(new, old) /\ HasEnds(new)
    BY <2>1, <2>2, <1>5, <1>6, EvalNarrows
  <2>4. CASE j.id = i.id
    <3>1. PICK k \in DOMAIN result.body[c] : j = result.body[c][k]
      BY DEF ToSet
    <3>2. PICK l \in DOMAIN result.body[b] : i = result.body[b][l]
      BY DEF ToSet
    <3>3. c = b /\ k = l
      BY <3>1, <3>2, <2>4 DEF IsFunction
    <3>4. old = r /\ next[j.id] = r
      BY <1>2, <1>3, <2>2, <2>4, <3>1, <3>2, <3>3
    <3> QED BY <2>2, <2>3, <3>4
  <2>5. CASE j.id # i.id
    <3>1. j.id \in DOMAIN known /\ next[j.id] = known[j.id]
      BY <2>5, <1>3
    <3>2. VR!Narrow(old, known[j.id])
      BY <3>1, <2>2 DEF Consistent
    <3>3. IsInterval(old) /\ IsInterval(known[j.id])
      BY <2>1, <2>2, <3>1, EvalIs DEF Tight
    <3> QED BY <2>2, <2>3, <3>1, <3>2, <3>3, NarrowTransitive
  <2> QED BY <2>4, <2>5
<1> QED BY <1>5, <1>6, <1>7

(* Nothing of this changes while the function does not.                    *)
LEMMA SameEvaluation ==
  ASSUME result' = result
  PROVE  /\ VR!TakesRemainders' <=> VR!TakesRemainders
         /\ \A known : Tight(known)' <=> Tight(known)
         /\ \A known : Consistent(known)' <=> Consistent(known)
<1>1. ASSUME NEW v PROVE VR!Definitions(v)' = VR!Definitions(v)
  BY DEF VR!Definitions
<1>2. ASSUME NEW v PROVE VR!IntegerBounds(v)' = VR!IntegerBounds(v)
  BY <1>1 DEF VR!IntegerBounds
<1>3. ASSUME NEW v, NEW known PROVE VR!RangeFor(v, known, VR!Nothing)' = VR!RangeFor(v, known, VR!Nothing)
  BY <1>2 DEF VR!RangeFor
<1>4. ASSUME NEW p, NEW b PROVE VR!BranchInto(p, b)' = VR!BranchInto(p, b)
  BY DEF VR!BranchInto
<1>5. ASSUME NEW phi, NEW b PROVE VR!MaxOf(phi, b)' = VR!MaxOf(phi, b)
  BY <1>4 DEF VR!MaxOf
<1>6. ASSUME NEW c PROVE VR!HalfOf(c)' = VR!HalfOf(c)
  BY <1>1 DEF VR!HalfOf
<1>7. ASSUME NEW c, NEW x, NEW y PROVE VR!MaxPhiRange(c, x, y)' = VR!MaxPhiRange(c, x, y)
  BY <1>6 DEF VR!MaxPhiRange
<1>8. ASSUME NEW phi, NEW b, NEW known
      PROVE  VR!EvalPhi(phi, b, known, VR!Nothing)' = VR!EvalPhi(phi, b, known, VR!Nothing)
  <2>1. CASE phi.args = <<>>
    BY <2>1 DEF VR!EvalPhi
  <2>2. CASE phi.args # <<>> /\ VR!MaxOf(phi, b) # {}
    <3>1. PICK c : c = CHOOSE d \in VR!MaxOf(phi, b) : TRUE
      OBVIOUS
    <3>2. c = (CHOOSE d \in VR!MaxOf(phi, b) : TRUE)' /\ VR!MaxOf(phi, b)' # {}
      BY <2>2, <3>1, <1>5
    <3> QED BY <2>2, <3>1, <3>2, <1>3, <1>7 DEF VR!EvalPhi
  <2>3. CASE phi.args # <<>> /\ VR!MaxOf(phi, b) = {}
    <3>1. VR!MaxOf(phi, b)' = {}
      BY <2>3, <1>5
    <3>2. {VR!RangeFor(v, known, VR!Nothing) : v \in VR!ToSet(phi.args)}'
            = {VR!RangeFor(v, known, VR!Nothing) : v \in VR!ToSet(phi.args)}
      BY <1>3
    <3> QED BY <2>3, <3>1, <3>2 DEF VR!EvalPhi
  <2> QED BY <2>1, <2>2, <2>3
<1>9. ASSUME NEW i, NEW b, NEW known
      PROVE  VR!EvalInstruction(i, b, known, VR!Nothing)' = VR!EvalInstruction(i, b, known, VR!Nothing)
  BY <1>3, <1>8 DEF VR!EvalInstruction
<1>10. ASSUME NEW known PROVE Tight(known)' <=> Tight(known)
  BY <1>2 DEF Tight
<1>11. ASSUME NEW known PROVE Consistent(known)' <=> Consistent(known)
  BY <1>9 DEF Consistent
<1>12. VR!TakesRemainders' <=> VR!TakesRemainders
  BY DEF VR!TakesRemainders
<1> QED BY <1>10, <1>11, <1>12

(* While constants are being propagated the ranges have not begun; once    *)
(* they have, what is known is tight and consistent.                       *)
NotBegun == phase = "sweep" => stage = "sweep" /\ at_block = 1 /\ at_index = 1 /\ ranges = VR!Nothing
RangesOK == ~VR!TakesRemainders => \A known \in {ranges} : Tight(known) /\ Consistent(known)
PositionOK ==
    stage = "sweep" =>
        /\ at_block \in Nat \ {0} /\ at_index \in Nat \ {0}
        /\ at_block <= Len(result.order) => at_index \in DOMAIN result.body[result.order[at_block]]
        /\ at_block > Len(result.order) => at_index = 1
RangeInv == NotBegun /\ RangesOK /\ PositionOK

LEMMA NothingKnown ==
  /\ Tight(VR!Nothing) /\ Consistent(VR!Nothing) /\ VR!Narrower(VR!Nothing, VR!Nothing)
  /\ Tight(VR!Nothing)' /\ Consistent(VR!Nothing)'
<1>1. DOMAIN VR!Nothing = {}
  BY DEF VR!Nothing
<1> QED BY <1>1 DEF Tight, Consistent, VR!Narrower

LEMMA StartOf ==
  ASSUME NEW g, IsFunction(g)
  PROVE  ~(1 > Len(g.order)) /\ g.order[1] \in Blocks(g) /\ 1 \in DOMAIN g.body[g.order[1]]
<1>1. ~(1 > Len(g.order)) /\ g.order[1] \in Blocks(g)
  BY FunctionFacts
<1> QED BY <1>1, BodyFacts

LEMMA NarrowerReflexive ==
  ASSUME NEW known, Tight(known)
  PROVE  VR!Narrower(known, known)
BY FullIs DEF Tight, VR!Narrower

(* While the function is not replaced, a step keeps the intervals or       *)
(* narrows them.                                                           *)
LEMMA RangesFollow ==
  ASSUME RangesOK, result' = result,
         ~VR!TakesRemainders => \A known \in {ranges} : \A next \in {ranges'} :
            next = known \/ (VR!Narrower(next, known) /\ Tight(next) /\ Consistent(next))
  PROVE  RangesOK' /\ (VR!TakesRemainders \/ VR!Narrower(ranges', ranges))
<1>1. PICK known, next : known = ranges /\ next = ranges'
  OBVIOUS
<1>2. (VR!TakesRemainders' <=> VR!TakesRemainders)
      /\ (Tight(next)' <=> Tight(next)) /\ (Consistent(next)' <=> Consistent(next))
  BY SameEvaluation
<1>3. ASSUME ~VR!TakesRemainders
      PROVE  Tight(next) /\ Consistent(next) /\ VR!Narrower(next, known)
  <2>1. Tight(known) /\ Consistent(known)
    BY <1>1, <1>3 DEF RangesOK
  <2>2. VR!Narrower(known, known)
    BY <2>1, NarrowerReflexive
  <2> QED BY <1>1, <1>3, <2>1, <2>2
<1>4. RangesOK'
  BY <1>1, <1>2, <1>3 DEF RangesOK
<1>5. VR!TakesRemainders \/ VR!Narrower(ranges', ranges)
  BY <1>1, <1>3
<1> QED BY <1>4, <1>5

(* One instruction of a sweep.                                             *)
LEMMA SweepNarrows ==
  ASSUME IsFunction(result), RangeInv, VR!SweepInstruction, phase = "done", phase' = phase
  PROVE  RangeInv' /\ (VR!TakesRemainders \/ VR!Narrower(ranges', ranges))
<1>1. /\ stage = "sweep" /\ at_block <= Len(result.order) /\ VR!Advance
      /\ result' = result /\ stage' = stage
  BY DEF VR!SweepInstruction, VR!InBlocks
<1>2. at_block \in 1..Len(result.order) /\ at_index \in DOMAIN result.body[result.order[at_block]]
  <2>1. at_block \in Nat \ {0} /\ at_index \in DOMAIN result.body[result.order[at_block]]
    BY <1>1 DEF RangeInv, PositionOK
  <2> QED BY <1>1, <2>1, FunctionFacts
<1>3. PICK known, next, b, i : /\ known = ranges /\ next = ranges'
                               /\ b = result.order[at_block] /\ i = result.body[b][at_index]
  OBVIOUS
<1>4. b \in Blocks(result) /\ i \in ToSet(result.body[b])
  <2>1. b \in Blocks(result)
    BY <1>2, <1>3, FunctionFacts
  <2> QED BY <2>1, <1>2, <1>3, BodyFacts
<1>5. next = known \/ (i.id # 0 /\ next = VR!Put(known, i.id, VR!EvalInstruction(i, b, known, VR!Nothing)))
  BY <1>3 DEF VR!SweepInstruction, VR!At, VR!IsInteger
<1>6. ASSUME ~VR!TakesRemainders
      PROVE  next = known \/ (VR!Narrower(next, known) /\ Tight(next) /\ Consistent(next))
  <2>1. Tight(known) /\ Consistent(known)
    BY <1>3, <1>6 DEF RangeInv, RangesOK
  <2>2. CASE next = known
    BY <2>2
  <2>3. CASE i.id # 0 /\ next = VR!Put(known, i.id, VR!EvalInstruction(i, b, known, VR!Nothing))
    BY <1>4, <1>6, <2>1, <2>3, PutNarrows
  <2> QED BY <1>5, <2>2, <2>3
<1>7. RangesOK' /\ (VR!TakesRemainders \/ VR!Narrower(ranges', ranges))
  <2>1. ~VR!TakesRemainders => \A m \in {ranges} : \A n \in {ranges'} :
            n = m \/ (VR!Narrower(n, m) /\ Tight(n) /\ Consistent(n))
    BY <1>3, <1>6
  <2> QED BY <1>1, <2>1, RangesFollow DEF RangeInv
<1>8. PositionOK'
  <2>1. PICK n \in Nat \ {0} : n = Len(result.body[b]) /\ DOMAIN result.body[b] = 1..n
    BY <1>4, BodyFacts
  <2>2. PICK len \in Nat \ {0} : len = Len(result.order)
    BY FunctionFacts
  <2>3. CASE at_index < n
    <3>1. at_index' = at_index + 1 /\ at_block' = at_block
      BY <1>1, <1>3, <2>1, <2>3 DEF VR!Advance
    <3> QED BY <1>1, <1>2, <1>3, <2>1, <2>2, <2>3, <3>1 DEF PositionOK
  <2>4. CASE ~(at_index < n)
    <3>1. at_index' = 1 /\ at_block' = at_block + 1
      BY <1>1, <1>3, <2>1, <2>4 DEF VR!Advance
    <3>2. at_block + 1 <= Len(result.order) => 1 \in DOMAIN result.body[result.order[at_block + 1]]
      <4>1. ASSUME at_block + 1 <= Len(result.order)
            PROVE  result.order[at_block + 1] \in Blocks(result)
        BY <4>1, <1>2, <2>2, FunctionFacts
      <4> QED BY <4>1, BodyFacts
    <3> QED BY <1>1, <1>2, <2>2, <3>1, <3>2 DEF PositionOK
  <2> QED BY <2>3, <2>4
<1> QED BY <1>7, <1>8 DEF RangeInv, NotBegun

(* The other steps: of constant propagation, before the ranges begin, and  *)
(* of the ranges.                                                          *)
LEMMA BeforeRanges ==
  ASSUME IsFunction(result)', RangeInv, [Next]_vars, UNCHANGED range_vars
  PROVE  RangeInv' /\ (VR!TakesRemainders \/ VR!Narrower(ranges', ranges))
<1>1. ranges' = ranges /\ stage' = stage /\ at_block' = at_block /\ at_index' = at_index
  BY DEF range_vars
<1>2. CASE RewriteConstants
  <2>1. phase = "sweep" /\ phase' = "done"
    BY <1>2 DEF RewriteConstants
  <2>2. ranges = VR!Nothing /\ stage = "sweep" /\ at_block = 1 /\ at_index = 1
    BY <2>1 DEF RangeInv, NotBegun
  <2>3. PICK g : g = result' /\ IsFunction(g)
    OBVIOUS
  <2>4. PositionOK'
    BY <1>1, <2>2, <2>3, StartOf DEF PositionOK
  <2>5. RangesOK'
    BY <1>1, <2>2, NothingKnown DEF RangesOK
  <2>6. NotBegun'
    BY <2>1 DEF NotBegun
  <2>7. VR!Narrower(ranges', ranges)
    BY <1>1, <2>2, NothingKnown
  <2> QED BY <2>4, <2>5, <2>6, <2>7 DEF RangeInv
<1>3. CASE SkipBlock \/ VisitBranch \/ VisitValue \/ VisitVoid \/ SweepAgain \/ UNCHANGED vars
  <2>1. result' = result /\ phase' = phase
    BY <1>3 DEF SkipBlock, VisitBranch, VisitValue, VisitVoid, SweepAgain, vars
  <2>2. RangesOK' /\ (VR!TakesRemainders \/ VR!Narrower(ranges', ranges))
    BY <1>1, <2>1, RangesFollow DEF RangeInv
  <2> QED BY <1>1, <2>1, <2>2 DEF RangeInv, NotBegun, PositionOK
<1> QED BY <1>2, <1>3 DEF Next

LEMMA AfterSweeps ==
  ASSUME IsFunction(result), RangeInv, phase = "done", phase' = phase,
         VR!SweepAgain \/ VR!EndSweeps \/ VR!IterateEntries \/ VR!EndEntries
           \/ VR!RewriteInstruction \/ VR!ApplyReplacements
  PROVE  RangeInv' /\ (VR!TakesRemainders \/ VR!Narrower(ranges', ranges))
<1>1. result' = result /\ ranges' = ranges
  BY DEF VR!SweepAgain, VR!EndSweeps, VR!IterateEntries, VR!EndEntries,
         VR!RewriteInstruction, VR!ApplyReplacements
<1>2. RangesOK' /\ (VR!TakesRemainders \/ VR!Narrower(ranges', ranges))
  BY <1>1, RangesFollow DEF RangeInv
<1>3. PositionOK'
  <2>1. CASE VR!SweepAgain
    <3>1. stage = "sweep" /\ ~(at_block <= Len(result.order)) /\ at_block' = 1 /\ at_index' = at_index
      BY <2>1 DEF VR!SweepAgain, VR!InBlocks
    <3>2. at_index = 1
      BY <3>1, FunctionFacts DEF RangeInv, PositionOK
    <3> QED BY <1>1, <3>1, <3>2, StartOf DEF PositionOK
  <2>2. CASE ~VR!SweepAgain
    <3>1. stage' # "sweep"
      BY <2>2 DEF VR!EndSweeps, VR!IterateEntries, VR!EndEntries, VR!RewriteInstruction, VR!ApplyReplacements
    <3> QED BY <3>1 DEF PositionOK
  <2> QED BY <2>1, <2>2
<1> QED BY <1>2, <1>3 DEF RangeInv, NotBegun

(* Sweep after sweep, and whatever else the passes do, the intervals only  *)
(* shrink where no remainder is taken.                                     *)
THEOREM NarrowsOnly == ScalarSpec => OnlyNarrows
<1> DEFINE AllInv == SweepInv /\ FunctionInv /\ RangeInv
<1>1. ScalarInit => AllInv
  <2> SUFFICES ASSUME ScalarInit PROVE RangeInv
    BY SweepInit, FunctionInit DEF ScalarInit
  <2>1. /\ ranges = VR!Nothing /\ stage = "sweep" /\ at_block = 1 /\ at_index = 1 /\ IsFunction(result)
    BY ProgramsAre DEF ScalarInit, Init, VR!Begin
  <2>2. PositionOK
    BY <2>1, StartOf DEF PositionOK
  <2> QED BY <2>1, <2>2, NothingKnown DEF RangeInv, NotBegun, RangesOK
<1>2. ASSUME AllInv, [ScalarNext]_<<vars, range_vars>>
      PROVE  AllInv' /\ (VR!TakesRemainders \/ VR!Narrower(ranges', ranges))
  <2>1. IsFunction(result)
    BY <1>2 DEF FunctionInv
  <2>2. CASE [Next]_vars /\ UNCHANGED range_vars
    <3>1. SweepInv' /\ FunctionInv'
      BY <1>2, <2>2, SweepSteps, FunctionKept
    <3>2. IsFunction(result)'
      BY <3>1 DEF FunctionInv
    <3> QED BY <1>2, <2>2, <3>1, <3>2, BeforeRanges
  <2>3. CASE phase = "done" /\ VR!Next /\ UNCHANGED <<f, executable_, value_state_, block, index, changed, phase>>
    <3>1. SweepInv'
      <4>1. \A i : Settled(i)' <=> Settled(i)
        BY <2>3, SettledKept
      <4> QED BY <1>2, <2>3, <4>1 DEF SweepInv, SweepTypeOK, SettledBehind, EndsSettled, Behind
    <3>2. result' = result
      BY <2>3 DEF VR!Next, VR!SweepInstruction, VR!SweepAgain, VR!EndSweeps, VR!IterateEntries,
                  VR!EndEntries, VR!RewriteInstruction, VR!ApplyReplacements
    <3>3. FunctionInv'
      BY <1>2, <2>3, <3>2 DEF FunctionInv
    <3>4. RangeInv' /\ (VR!TakesRemainders \/ VR!Narrower(ranges', ranges))
      BY <1>2, <2>1, <2>3, SweepNarrows, AfterSweeps DEF VR!Next
    <3> QED BY <3>1, <3>3, <3>4
  <2> QED BY <1>2, <2>2, <2>3 DEF ScalarNext
<1> QED BY <1>1, <1>2, PTL DEF ScalarSpec, OnlyNarrows, VR!OnlyNarrows

-----------------------------------------------------------------------------
(* What is found constant holds of every run.                              *)

(* Where a constant is known for one operand only.                         *)
LEMMA WrapZero == Wrap(0) = 0
<1>1. PICK p \in Nat : p = 2^(W - 1) /\ p >= 2 /\ 2^W = 2 * p
  BY WidthFacts
<1>2. Wrap(0) = ((0 + p) % (2 * p)) - p
  BY <1>1 DEF Wrap
<1>3. p % (2 * p) = p
  BY <1>1
<1> QED BY <1>1, <1>2, <1>3

LEMMA BitOfZero ==
  ASSUME NEW i \in Nat
  PROVE  BitOf(0, i) = 0
<1>1. PICK p \in Nat \ {0} : p = 2^i
  BY PowerPositive
<1>2. PICK q \in Nat \ {0} : q = 2^W
  BY PowerPositive, WidthAssumption
<1>3. 0 % q = 0 /\ 0 \div p = 0 /\ 0 % 2 = 0
  OBVIOUS
<1> QED BY <1>1, <1>2, <1>3 DEF BitOf

LEMMA AndZero ==
  ASSUME NEW a \in Int
  PROVE  Machine("and", a, 0) = 0 /\ Machine("and", 0, a) = 0
<1> DEFINE s == [n \in 1..W |-> BitOf(a, n - 1) * BitOf(0, n - 1) * 2^(n - 1)]
           t == [n \in 1..W |-> BitOf(0, n - 1) * BitOf(a, n - 1) * 2^(n - 1)]
<1>1. Machine("and", a, 0) = Wrap(SumOf(s)) /\ Machine("and", 0, a) = Wrap(SumOf(t))
  BY DEF Machine, ByBits
<1>2. ASSUME NEW n \in 1..W
      PROVE  BitOf(a, n - 1) * BitOf(0, n - 1) * 2^(n - 1) = 0 /\ BitOf(0, n - 1) * BitOf(a, n - 1) * 2^(n - 1) = 0
  <2>1. n - 1 \in Nat
    BY WidthAssumption
  <2>2. BitOf(a, n - 1) \in {0, 1} /\ BitOf(0, n - 1) = 0 /\ 2^(n - 1) \in Nat
    BY <2>1, BitIs, BitOfZero, PowerPositive
  <2>3. PICK p \in Nat : p = 2^(n - 1)
    BY <2>2
  <2>4. \A x \in {0, 1} : x * 0 * p = 0 /\ 0 * x * p = 0
    OBVIOUS
  <2> QED BY <2>2, <2>3, <2>4
<1>3. s \in [1..W -> {0}] /\ t \in [1..W -> {0}]
  BY <1>2
<1>4. W \in Nat
  BY WidthAssumption
<1> HIDE DEF s, t
<1>5. SumOf(s) = 0 /\ SumOf(t) = 0
  BY <1>3, <1>4, SumOfZeros
<1> QED BY <1>1, <1>5, WrapZero

LEMMA TimesZero ==
  ASSUME NEW a \in Int
  PROVE  Machine("mul", a, 0) = 0 /\ Machine("mul", 0, a) = 0
<1>1. a * 0 = 0 /\ 0 * a = 0
  OBVIOUS
<1> QED BY <1>1, WrapZero DEF Machine

LEMMA RemainderOfOne ==
  ASSUME NEW a \in Int
  PROVE  Machine("srem", a, 1) = 0
<1>1. Abs(1) = 1 /\ Abs(a) \in Nat /\ Abs(a) \div 1 = Abs(a)
  BY DEF Abs
<1>2. Sign(a, 1) * Abs(a) = a
  BY DEF Sign, Abs
<1>3. TowardZero(a, 1) = a
  BY <1>1, <1>2 DEF TowardZero
<1>4. a - 1 * a = 0
  OBVIOUS
<1> QED BY <1>3, <1>4, WrapZero DEF Machine

(* The one quotient that is no number of the type has remainder 0.         *)
LEMMA RemainderOfLeast == Machine("srem", -(2^(W - 1)), -1) = 0
<1>1. PICK p \in Nat : p = 2^(W - 1) /\ p >= 2
  BY WidthFacts
<1>2. Abs(-p) = p /\ Abs(-1) = 1 /\ Sign(-p, -1) = 1 /\ p \div 1 = p /\ 1 * p = p
  <2>0. PICK m \in Int : m = -1
    OBVIOUS
  <2>1. -p < 0 /\ m < 0 /\ -(-p) = p /\ -m = 1
    <3>1. m + 1 = 0
      BY <2>0
    <3>2. -m = 1
      BY <3>1
    <3>3. -p < 0 /\ m < 0 /\ -(-p) = p
      BY <1>1, <3>1
    <3> QED BY <3>2, <3>3
  <2>2. Abs(-p) = p /\ Abs(m) = 1
    BY <2>1 DEF Abs
  <2>3. Sign(-p, m) = 1
    BY <2>1 DEF Sign
  <2>4. p \div 1 = p /\ 1 * p = p
    BY <1>1
  <2> QED BY <2>0, <2>2, <2>3, <2>4
<1>3. TowardZero(-p, -1) = p
  BY <1>2 DEF TowardZero
<1>4. (-p) - (-1) * p = 0
  OBVIOUS
<1>5. Machine("srem", -p, -1) = 0
  BY <1>3, <1>4, WrapZero DEF Machine
<1> QED BY <1>1, <1>5

(* A value of a run agrees with what was found of it.                      *)
Fits(n, x) ==
    /\ x = Unknown => n = Poison
    /\ IsConstant(x) => n \in {x.n, Poison}

LEMMA FitsFacts ==
  /\ \A x : Fits(Poison, x)
  /\ \A n : Fits(n, Overdefined) /\ Fits(n, Constant(n))
  /\ \A n : \A x, y \in Lattice : Fits(n, x) /\ Below(x, y) => Fits(n, y)
  /\ \A x \in Lattice : x = Unknown \/ x = Overdefined \/ (IsConstant(x) /\ x = Constant(x.n))
<1>1. \A x : Fits(Poison, x)
  BY DEF Fits
<1>2. \A n : Fits(n, Overdefined) /\ Fits(n, Constant(n))
  BY DEF Fits, IsConstant, Overdefined, Constant, Unknown
<1>3. \A x \in Lattice : x = Unknown \/ x = Overdefined \/ (IsConstant(x) /\ x = Constant(x.n))
  BY DEF Lattice, IsConstant, Constant, Unknown, Overdefined
<1>4. ASSUME NEW n, NEW x \in Lattice, NEW y \in Lattice, Fits(n, x), Below(x, y) PROVE Fits(n, y)
  <2>1. CASE x = Unknown
    BY <1>4, <2>1, <1>1 DEF Fits
  <2>2. CASE y = Unknown
    <3>1. x = Unknown
      BY <1>4, <2>2 DEF Below, Join
    <3> QED BY <2>1, <3>1
  <2>3. CASE x # Unknown /\ y # Unknown
    <3>1. y = x \/ y = Overdefined
      BY <1>4, <2>3 DEF Below, Join
    <3> QED BY <3>1, <1>2, <1>4
  <2> QED BY <2>1, <2>2, <2>3
<1> QED BY <1>1, <1>2, <1>3, <1>4

(* What an operation of the machine gives agrees with its evaluation, but  *)
(* for "or", which is not folded.                                          *)
LEMMA BinaryFits ==
  ASSUME NEW i, i.op \in BinaryOps, i.op # "or", NEW x \in Lattice, NEW y \in Lattice,
         NEW a \in Int, NEW b \in Int, Fits(a, x), Fits(b, y), a # Poison, b # Poison,
         i.op \in {"sdiv", "srem"} => b # 0
  PROVE  Fits(Truncated(i.bits, Machine(i.op, a, b)), EvaluateBinary(i, x, y))
<1> DEFINE r == Truncated(i.bits, Machine(i.op, a, b))
<1>1. (x = Overdefined \/ x = Constant(a)) /\ (y = Overdefined \/ y = Constant(b))
  BY FitsFacts DEF Fits
<1>2. \A n : IsConstant(Constant(n)) /\ Constant(n).n = n
  BY DEF Constant, IsConstant
<1>3. ~IsConstant(Overdefined) /\ \A n : Overdefined # Constant(n)
  BY DEF Overdefined, IsConstant, Constant
<1>4. CASE x = Constant(a) /\ y = Constant(b)
  <2>1. FoldIntBinary(i.op, a, b) = {Machine(i.op, a, b)}
    <3>1. i.op = "srem" /\ a = -(2^(W - 1)) /\ b = -1 => Machine(i.op, a, b) = 0
      BY RemainderOfLeast
    <3> QED BY <3>1 DEF FoldIntBinary
  <2>2. (CHOOSE n \in {Machine(i.op, a, b)} : TRUE) = Machine(i.op, a, b)
    OBVIOUS
  <2>3. IsConstant(x) /\ IsConstant(y) /\ x.n = a /\ y.n = b
    BY <1>2, <1>4
  <2>4. EvaluateBinary(i, x, y) = Constant(r)
    BY <2>1, <2>2, <2>3 DEF EvaluateBinary
  <2> QED BY <2>4, FitsFacts
<1>5. CASE x = Overdefined \/ y = Overdefined
  <2>1. EvaluateBinary(i, x, y) = EvaluateByIdentity(i.op, i.bits, x, y)
    BY <1>3, <1>5 DEF EvaluateBinary
  <2>2. \/ EvaluateByIdentity(i.op, i.bits, x, y) = Overdefined
        \/ EvaluateByIdentity(i.op, i.bits, x, y) = Constant(0) /\ Machine(i.op, a, b) = 0
    <3>1. \A n : (Known(x, n) => x = Constant(a) /\ a = n /\ y = Overdefined)
              /\ (Known(y, n) => y = Constant(b) /\ b = n /\ x = Overdefined)
      BY <1>1, <1>2, <1>3, <1>5 DEF Known
    <3>2. i.op = "mul" /\ (Known(x, 0) \/ Known(y, 0)) => Machine(i.op, a, b) = 0
      BY <3>1, TimesZero
    <3>3. i.op = "and" /\ (Known(x, 0) \/ Known(y, 0)) => Machine(i.op, a, b) = 0
      BY <3>1, AndZero
    <3>4. i.op = "srem" /\ Known(y, 1) => Machine(i.op, a, b) = 0
      BY <3>1, RemainderOfOne
    <3> HIDE DEF Known
    <3> QED BY <3>1, <3>2, <3>3, <3>4, <1>5 DEF EvaluateByIdentity
  <2>3. Machine(i.op, a, b) = 0 => r = 0
    BY WrapZero DEF Truncated
  <2> QED BY <2>1, <2>2, <2>3, FitsFacts
<1> QED BY <1>1, <1>4, <1>5

LEMMA CmpFits ==
  ASSUME NEW i, NEW x \in Lattice, NEW y \in Lattice,
         NEW a, NEW b, Fits(a, x), Fits(b, y), a # Poison, b # Poison
  PROVE  Fits(IF Compare(i.op, a, b) THEN 1 ELSE 0, EvaluateCmp(i, x, y))
<1>1. (x = Overdefined \/ x = Constant(a)) /\ (y = Overdefined \/ y = Constant(b))
  BY FitsFacts DEF Fits
<1>2. \A n : IsConstant(Constant(n)) /\ Constant(n).n = n
  BY DEF Constant, IsConstant
<1>3. ~IsConstant(Overdefined)
  BY DEF Overdefined, IsConstant
<1>4. CASE x = Constant(a) /\ y = Constant(b)
  BY <1>2, <1>4, FitsFacts DEF EvaluateCmp
<1>5. CASE x = Overdefined \/ y = Overdefined
  BY <1>3, <1>5, FitsFacts DEF EvaluateCmp
<1> QED BY <1>1, <1>4, <1>5

LEMMA JoinAllAbove ==
  ASSUME NEW S \in SUBSET Lattice, NEW x \in S
  PROVE  Below(x, JoinAll(S))
<1> DEFINE known == S \ {Unknown}
<1>1. CASE x = Unknown
  BY <1>1 DEF Below, Join
<1>2. CASE x # Unknown
  <2>1. x \in known
    BY <1>2
  <2>2. JoinAll(S) = Overdefined \/ (known = {x} /\ JoinAll(S) = x)
    <3>1. \A y : The({y}) = y
      BY DEF The
    <3> QED BY <2>1, <3>1, Zenon DEF JoinAll
  <2> QED BY <2>2, <1>2, JoinFacts DEF Below, Join, Overdefined, Unknown
<1> QED BY <1>1, <1>2

(* What holds of the values and the memory of a run of f given in.         *)
DataOK(in, s) ==
    /\ s = [at |-> s.at, from |-> s.from, shown |-> s.shown, end |-> s.end, env |-> s.env, mem |-> s.mem]
    /\ s.env \in [Ids(f) \cup DOMAIN in.args -> Int]
    /\ s.mem \in [DOMAIN s.mem -> Int]
    /\ s.shown \in Seq(Int)
    /\ \A v \in Ids(f) : Fits(s.env[v], value_state_[v])

(* A value of one bit is 0 or 1 where it is constant.                      *)
BitsFound ==
    /\ Entry(f) \in executable_
    /\ \A i \in InstrsOf(f) : i.id # 0 /\ i.bits = 1 /\ IsConstant(value_state_[i.id]) =>
          value_state_[i.id].n \in {0, 1}

(* Where the sweeps have ended: a function and what it is given.           *)
Ended(in) ==
    /\ IsProgram(f) /\ IsInput(f, in)
    /\ value_state_ \in [Ids(f) -> Lattice]
    /\ BitsFound
    /\ \A b \in executable_ \cap Blocks(f) : \A i \in ToSet(f.body[b]) : Settled(i)
    /\ \A i \in InstrsOf(f) : i.op # "or" /\ ~IsInternalCall(i)

LEMMA PoisonIs == Poison \in Int
<1>1. W + 4 \in Nat
  BY WidthAssumption
<1> QED BY <1>1, PowerPositive DEF Poison

LEMMA InstrFacts ==
  ASSUME NEW in, Ended(in), NEW i \in InstrsOf(f)
  PROVE  /\ IsInstr(i) /\ IsTyped(f, i) /\ IsFunction(f)
         /\ i.op # "or" /\ ~IsInternalCall(i)
         /\ i.id # 0 => i.id \in Ids(f)
         /\ i.args \in Seq(ToSet(i.args)) /\ DOMAIN i.args = 1..Len(i.args) /\ Len(i.args) \in Nat
         /\ \A n \in DOMAIN i.args :
               /\ i.args[n] \in ToSet(i.args) /\ IsOperand(i.args[n])
               /\ IsVal(i.args[n]) => i.args[n][2] \in Ids(f) \cup DOMAIN in.args
               /\ IsGlobal(i.args[n]) => i.args[n][2] \in Int
<1>1. IsFunction(f) /\ IsTyped(f, i) /\ i.op # "or" /\ ~IsInternalCall(i)
  BY DEF Ended, IsProgram
<1>2. IsInstr(i) /\ i.args \in Seq(ToSet(i.args))
  BY <1>1, InstrsAre DEF IsInstr
<1>3. i.id # 0 => i.id \in Ids(f)
  BY DEF Ids
<1>4. ASSUME NEW n \in DOMAIN i.args
      PROVE  /\ i.args[n] \in ToSet(i.args) /\ IsOperand(i.args[n])
             /\ IsVal(i.args[n]) => i.args[n][2] \in Ids(f) \cup DOMAIN in.args
             /\ IsGlobal(i.args[n]) => i.args[n][2] \in Int
  <2>1. i.args[n] \in ToSet(i.args)
    BY DEF ToSet
  <2>2. IsOperand(i.args[n])
    BY <1>2, <2>1 DEF IsInstr
  <2>3. IsVal(i.args[n]) => i.args[n][2] \in Ids(f) \cup DOMAIN in.args
    BY <2>1 DEF Ended, IsInput
  <2>4. IsGlobal(i.args[n]) => i.args[n][2] \in Int
    BY <1>1, <2>1 DEF IsTyped
  <2> QED BY <2>1, <2>2, <2>3, <2>4
<1> QED BY <1>1, <1>2, <1>3, <1>4

(* Operands agree with what was found of them.                             *)
LEMMA ReadFits ==
  ASSUME NEW in, Ended(in), NEW s, DataOK(in, s), NEW i \in InstrsOf(f), NEW n \in DOMAIN i.args
  PROVE  /\ Read(s, i.args[n]) \in Int
         /\ IsScalar(i.args[n]) => Fits(Read(s, i.args[n]), StateFor(i.args[n]))
         /\ StateFor(i.args[n]) \in Lattice
<1>1. PICK v : v = i.args[n]
  OBVIOUS
<1>2. /\ IsOperand(v) /\ (IsVal(v) => v[2] \in Ids(f) \cup DOMAIN in.args) /\ (IsGlobal(v) => v[2] \in Int)
  BY <1>1, InstrFacts
<1>3. value_state_ \in [Ids(f) -> Lattice] /\ s.env \in [Ids(f) \cup DOMAIN in.args -> Int]
  BY DEF Ended, DataOK
<1>4. StateFor(v) \in Lattice
  BY <1>2, <1>3, StateIs
<1>5. CASE IsConst(v)
  <2>1. Read(s, v) = v[2] /\ StateFor(v) = Constant(v[2])
    BY <1>5 DEF Read, StateFor, IsConst, IsVal, IsGlobal
  <2>2. v[2] \in Int
    BY <1>2, <1>5 DEF IsOperand, VR!Smallest, VR!Largest
  <2> QED BY <1>1, <1>4, <2>1, <2>2, FitsFacts
<1>6. CASE IsVal(v)
  <2>0. ~IsConst(v)
    BY <1>6 DEF IsConst, IsVal
  <2>1. Read(s, v) = s.env[v[2]]
    BY <1>6, <2>0 DEF Read, IsConst, IsVal, IsGlobal
  <2>2. Read(s, v) \in Int
    BY <1>2, <1>3, <1>6, <2>1
  <2>3. CASE v[2] \in Ids(f)
    <3>1. StateFor(v) = value_state_[v[2]]
      BY <1>3, <1>6, <2>0, <2>3 DEF StateFor
    <3>2. Fits(s.env[v[2]], value_state_[v[2]])
      BY <2>3 DEF DataOK
    <3> QED BY <1>1, <1>4, <2>1, <2>2, <3>1, <3>2
  <2>4. CASE v[2] \notin Ids(f)
    <3>1. StateFor(v) = Overdefined
      BY <1>3, <1>6, <2>0, <2>4 DEF StateFor
    <3> QED BY <1>1, <1>4, <2>2, <3>1, FitsFacts
  <2> QED BY <2>3, <2>4
<1>7. CASE ~IsConst(v) /\ ~IsVal(v)
  <2>1. Read(s, v) \in Int
    BY <1>2, <1>7, PoisonIs DEF Read
  <2>2. IsScalar(v) => Read(s, v) = Poison
    BY <1>7 DEF IsScalar, Undef, Read, IsConst, IsVal, IsGlobal
  <2> QED BY <1>1, <1>4, <2>1, <2>2, FitsFacts
<1> QED BY <1>5, <1>6, <1>7

(* What instructions do to a run.                                          *)
LEMMA SetsOK ==
  ASSUME NEW in, NEW s, DataOK(in, s), NEW i, NEW n \in Int,
         i.id \in Ids(f) => Fits(n, value_state_[i.id])
  PROVE  LET r == Sets(s, i, n) IN
         DataOK(in, r) /\ r.at = s.at /\ r.from = s.from /\ r.end = s.end /\ r.shown = s.shown /\ r.mem = s.mem
<1> DEFINE r == Sets(s, i, n)
           e == [s.env EXCEPT ![i.id] = n]
<1>1. s = [at |-> s.at, from |-> s.from, shown |-> s.shown, end |-> s.end, env |-> s.env, mem |-> s.mem]
  BY DEF DataOK
<1>2. r = [at |-> s.at, from |-> s.from, shown |-> s.shown, end |-> s.end, env |-> e, mem |-> s.mem]
  <2>1. r = [s EXCEPT !.env = e]
    BY <1>1 DEF Sets
  <2> HIDE DEF r, e
  <2> QED BY <1>1, <2>1
<1>3. e \in [Ids(f) \cup DOMAIN in.args -> Int]
  BY DEF DataOK
<1>4. ASSUME NEW v \in Ids(f) PROVE Fits(e[v], value_state_[v])
  <2>1. s.env \in [Ids(f) \cup DOMAIN in.args -> Int] /\ Fits(s.env[v], value_state_[v])
    BY DEF DataOK
  <2>2. CASE v = i.id
    BY <2>1, <2>2
  <2>3. CASE v # i.id
    BY <2>1, <2>3
  <2> QED BY <2>2, <2>3
<1> HIDE DEF r, e
<1>5. DataOK(in, r)
  BY <1>2, <1>3, <1>4 DEF DataOK
<1> QED BY <1>2, <1>5 DEF r

LEMMA UndefinedOK ==
  ASSUME NEW in, NEW s, DataOK(in, s)
  PROVE  DataOK(in, Undefined(s)) /\ Undefined(s).end = "undefined"
BY DEF DataOK, Undefined

LEMMA OverwritesOK ==
  ASSUME NEW in, NEW s, DataOK(in, s), NEW words, NEW n \in Int
  PROVE  LET r == Overwrites(s, words, n) IN
         DataOK(in, r) /\ (r.end = "undefined" \/ (r.end = s.end /\ r.at = s.at /\ r.from = s.from))
<1> DEFINE m == [c \in DOMAIN s.mem |-> IF c \in words THEN n ELSE s.mem[c]]
<1>1. CASE words \subseteq DOMAIN s.mem
  <2>1. s = [at |-> s.at, from |-> s.from, shown |-> s.shown, end |-> s.end, env |-> s.env, mem |-> s.mem]
    BY DEF DataOK
  <2>2. PICK r : r = Overwrites(s, words, n)
    OBVIOUS
  <2>3. r = [s EXCEPT !.mem = m]
    BY <1>1, <2>1, <2>2 DEF Overwrites
  <2>4. m \in [DOMAIN s.mem -> Int] /\ DOMAIN m = DOMAIN s.mem
    BY DEF DataOK
  <2> HIDE DEF m
  <2>5. r = [at |-> s.at, from |-> s.from, shown |-> s.shown, end |-> s.end, env |-> s.env, mem |-> m]
    BY <2>1, <2>3
  <2>6. DataOK(in, r) /\ r.end = s.end /\ r.at = s.at /\ r.from = s.from
    BY <2>4, <2>5 DEF DataOK
  <2> QED BY <2>2, <2>6
<1>2. CASE ~(words \subseteq DOMAIN s.mem)
  BY <1>2, UndefinedOK DEF Overwrites
<1> QED BY <1>1, <1>2

(* What an instruction leaves behind is right for it where it agrees with  *)
(* what it would be evaluated to, since that is settled.                   *)
Executable == executable_ \cap Blocks(f)
LEMMA SetsFound ==
  ASSUME NEW in, Ended(in), NEW s, DataOK(in, s), NEW b \in Executable, NEW i \in ToSet(f.body[b]),
         i.op # "br", NEW n \in Int, Fits(n, Evaluate(i))
  PROVE  LET r == Sets(s, i, n) IN
         DataOK(in, r) /\ r.at = s.at /\ r.from = s.from /\ r.end = s.end /\ r.shown = s.shown /\ r.mem = s.mem
<1>1. i \in InstrsOf(f)
  BY DEF InstrsOf, Executable
<1>2. ASSUME i.id \in Ids(f) PROVE Fits(n, value_state_[i.id])
  <2>1. i.id # 0
    BY <1>2 DEF Ids
  <2>2. Below(Evaluate(i), value_state_[i.id])
    BY <2>1 DEF Ended, Executable, Settled
  <2>3. Evaluate(i) \in Lattice /\ value_state_[i.id] \in Lattice
    BY <1>1, <1>2, InstrFacts, EvaluateIs DEF Ended
  <2> QED BY <2>2, <2>3, FitsFacts
<1> QED BY <1>2, SetsOK

Spoiled(s, i) == \E n \in DOMAIN i.args : Read(s, i.args[n]) = Poison
Goes(s, i, b, r) ==
    r.end = "running" =>
        /\ i.op # "ret"
        /\ i.op # "br" => r.at = b /\ r.from = s.from
        /\ i.op = "br" => r.from = b /\ r.at \in executable_ \cap ToSet(i.to)

LEMMA BinaryRuns ==
  ASSUME NEW in, Ended(in), NEW s, DataOK(in, s), s.end = "running", NEW b \in Executable,
         NEW i \in ToSet(f.body[b]), s.at = b, i.op \in BinaryOps
  PROVE  DataOK(in, Execute(in, s, i)) /\ Goes(s, i, b, Execute(in, s, i))
<1> DEFINE a1 == Read(s, i.args[1])
           a2 == Read(s, i.args[2])
           x == StateFor(i.args[1])
           y == StateFor(i.args[2])
           n == IF Spoiled(s, i) THEN Poison ELSE Truncated(i.bits, Machine(i.op, a1, a2))
<1>1. i \in InstrsOf(f)
  BY DEF InstrsOf, Executable
<1>2. Len(i.args) = 2 /\ 1 \in DOMAIN i.args /\ 2 \in DOMAIN i.args /\ DOMAIN i.args = 1..2
  <2>1. Len(i.args) = 2
    BY <1>1, InstrFacts DEF IsInstr
  <2> QED BY <1>1, <2>1, InstrFacts
<1>3. IsScalar(i.args[1]) /\ IsScalar(i.args[2])
  BY <1>1, <1>2, InstrFacts DEF IsTyped
<1>4. a1 \in Int /\ a2 \in Int /\ Fits(a1, x) /\ Fits(a2, y) /\ x \in Lattice /\ y \in Lattice
  BY <1>1, <1>2, <1>3, ReadFits
<1>5. Execute(in, s, i) = IF i.op \in {"sdiv", "srem"} /\ (a2 = 0 \/ Spoiled(s, i)) THEN Undefined(s) ELSE Sets(s, i, n)
  BY DEF Execute, Spoiled, BinaryOps, CmpOps
<1>6. Evaluate(i) = EvaluateBinary(i, x, y)
  BY DEF Evaluate, BinaryOps, CmpOps, IsPhi
<1>7. CASE i.op \in {"sdiv", "srem"} /\ (a2 = 0 \/ Spoiled(s, i))
  BY <1>5, <1>7, UndefinedOK DEF Goes
<1>8. CASE ~(i.op \in {"sdiv", "srem"} /\ (a2 = 0 \/ Spoiled(s, i)))
  <2>1. n \in Int /\ Fits(n, Evaluate(i))
    <3>1. CASE Spoiled(s, i)
      BY <3>1, PoisonIs, FitsFacts
    <3>2. CASE ~Spoiled(s, i)
      <4>1. a1 # Poison /\ a2 # Poison
        BY <3>2, <1>2 DEF Spoiled
      <4>2. i.op # "or" /\ (i.op \in {"sdiv", "srem"} => a2 # 0)
        BY <1>1, <1>8, InstrFacts
      <4>3. Fits(n, Evaluate(i))
        <5> HIDE DEF a1, a2, x, y
        <5> QED BY <1>4, <1>6, <3>2, <4>1, <4>2, BinaryFits
      <4>4. Machine(i.op, a1, a2) \in VR!Smallest .. VR!Largest
        <5> HIDE DEF a1, a2, x, y
        <5> QED BY <1>4, <4>2, MachineRange
      <4>5. VR!Smallest \in Int /\ VR!Largest \in Int
        BY WidthFacts
      <4>6. Machine(i.op, a1, a2) \in Int
        BY <4>4, <4>5
      <4>7. Wrap(Machine(i.op, a1, a2)) \in Int
        BY <4>5, <4>6, WrapRange
      <4>8. n \in Int
        <5> HIDE DEF a1, a2, x, y
        <5> QED BY <3>2, <4>7 DEF Truncated
      <4> QED BY <4>3, <4>8
    <3> QED BY <3>1, <3>2
  <2>2. Execute(in, s, i) = Sets(s, i, n)
    <3> HIDE DEF n
    <3> QED BY <1>5, <1>8
  <2>3. i.op # "br" /\ i.op # "ret"
    BY DEF BinaryOps
  <2> HIDE DEF n
  <2> QED BY <2>1, <2>2, <2>3, SetsFound DEF Goes
<1> QED BY <1>7, <1>8

LEMMA CmpRuns ==
  ASSUME NEW in, Ended(in), NEW s, DataOK(in, s), s.end = "running", NEW b \in Executable,
         NEW i \in ToSet(f.body[b]), s.at = b, i.op \in CmpOps
  PROVE  DataOK(in, Execute(in, s, i)) /\ Goes(s, i, b, Execute(in, s, i))
<1> DEFINE a1 == Read(s, i.args[1])
           a2 == Read(s, i.args[2])
           x == StateFor(i.args[1])
           y == StateFor(i.args[2])
           n == IF Spoiled(s, i) THEN Poison ELSE IF Compare(i.op, a1, a2) THEN 1 ELSE 0
<1>1. i \in InstrsOf(f)
  BY DEF InstrsOf, Executable
<1>2. Len(i.args) = 2 /\ 1 \in DOMAIN i.args /\ 2 \in DOMAIN i.args
  <2>1. Len(i.args) = 2
    BY <1>1, InstrFacts DEF IsInstr
  <2> QED BY <1>1, <2>1, InstrFacts
<1>3. IsScalar(i.args[1]) /\ IsScalar(i.args[2])
  BY <1>1, <1>2, InstrFacts DEF IsTyped
<1>4. Fits(a1, x) /\ Fits(a2, y) /\ x \in Lattice /\ y \in Lattice
  BY <1>1, <1>2, <1>3, ReadFits
<1>5. Execute(in, s, i) = Sets(s, i, n)
  BY DEF Execute, Spoiled, CmpOps, BinaryOps
<1>6. Evaluate(i) = EvaluateCmp(i, x, y)
  BY DEF Evaluate, CmpOps, BinaryOps, IsPhi
<1>7. n \in Int /\ Fits(n, Evaluate(i))
  <2>1. CASE Spoiled(s, i)
    BY <2>1, PoisonIs, FitsFacts
  <2>2. CASE ~Spoiled(s, i)
    <3>1. a1 # Poison /\ a2 # Poison
      BY <2>2, <1>2 DEF Spoiled
    <3> HIDE DEF a1, a2, x, y
    <3> QED BY <1>4, <1>6, <2>2, <3>1, CmpFits
  <2> QED BY <2>1, <2>2
<1>8. i.op # "br" /\ i.op # "ret"
  BY DEF CmpOps
<1> HIDE DEF n
<1> QED BY <1>5, <1>7, <1>8, SetsFound DEF Goes

(* A bit that is constant is 0 or 1.                                       *)
LEMMA BitState ==
  ASSUME value_state_ \in [Ids(f) -> Lattice], BitsFound, NEW v, IsBit(f, v), IsConstant(StateFor(v))
  PROVE  StateFor(v).n \in {0, 1}
<1>1. CASE IsConst(v)
  <2>1. StateFor(v) = Constant(v[2])
    BY <1>1 DEF StateFor, IsConst, IsVal
  <2> QED BY <1>1, <2>1 DEF IsBit, Constant
<1>2. CASE IsVal(v) /\ v[2] \in Ids(f)
  <2>1. StateFor(v) = value_state_[v[2]]
    BY <1>2 DEF StateFor, IsConst, IsVal
  <2>2. PICK j \in InstrsOf(f) : j.id = v[2] /\ j.id # 0
    BY <1>2 DEF Ids
  <2>3. j.bits = 1
    BY <1>2, <2>2 DEF IsBit
  <2> QED BY <2>1, <2>2, <2>3 DEF BitsFound
<1>3. CASE ~IsConst(v) /\ ~(IsVal(v) /\ v[2] \in Ids(f))
  <2>1. StateFor(v) \in {Overdefined, Unknown}
    BY <1>3 DEF StateFor
  <2> QED BY <2>1 DEF IsConstant, Overdefined, Unknown
<1> QED BY <1>1, <1>2, <1>3

(* One bit is widened as it is.                                            *)
LEMMA CastRuns ==
  ASSUME NEW in, Ended(in), NEW s, DataOK(in, s), s.end = "running", NEW b \in Executable,
         NEW i \in ToSet(f.body[b]), s.at = b, i.op = "zext"
  PROVE  DataOK(in, Execute(in, s, i)) /\ Goes(s, i, b, Execute(in, s, i))
<1> DEFINE v == i.args[1]
<1>1. i \in InstrsOf(f)
  BY DEF InstrsOf, Executable
<1>2. Len(i.args) = 1 /\ 1 \in DOMAIN i.args
  <2>1. Len(i.args) = 1
    BY <1>1, InstrFacts DEF IsInstr
  <2> QED BY <1>1, <2>1, InstrFacts
<1>3. IsScalar(v) /\ IsBit(f, v)
  BY <1>1, <1>2, InstrFacts DEF IsTyped
<1>4. Read(s, v) \in Int /\ Fits(Read(s, v), StateFor(v)) /\ StateFor(v) \in Lattice
  BY <1>1, <1>2, <1>3, ReadFits
<1>5. Execute(in, s, i) = Sets(s, i, Read(s, v))
  BY DEF Execute, CmpOps, BinaryOps
<1>6. Evaluate(i) = EvaluateCast(StateFor(v))
  BY DEF Evaluate, CmpOps, BinaryOps, IsPhi
<1>7. EvaluateCast(StateFor(v)) = StateFor(v)
  <2>1. CASE ~IsConstant(StateFor(v))
    BY <2>1 DEF EvaluateCast
  <2>2. CASE IsConstant(StateFor(v))
    <3>1. StateFor(v).n \in {0, 1}
      <4> HIDE DEF v
      <4> QED BY <1>3, <2>2, BitState DEF Ended
    <3>2. StateFor(v) = Constant(StateFor(v).n)
      BY <1>4, <2>2, LatticeFacts
    <3>3. EvaluateCast(StateFor(v)) = Constant(IF StateFor(v).n = 0 THEN 0 ELSE 1)
      BY <2>2 DEF EvaluateCast
    <3> HIDE DEF v
    <3> QED BY <3>1, <3>2, <3>3
  <2> QED BY <2>1, <2>2
<1>8. Fits(Read(s, v), Evaluate(i))
  BY <1>4, <1>6, <1>7
<1> HIDE DEF v
<1> QED BY <1>4, <1>5, <1>8, SetsFound DEF Goes

LEMMA OthersEvaluate ==
  ASSUME NEW i, i.op \in MemoryOps \cup {"call", "ret", "br"}
  PROVE  Evaluate(i) = Overdefined
BY DEF Evaluate, MemoryOps, BinaryOps, CmpOps, IsPhi

LEMMA MemoryRuns ==
  ASSUME NEW in, Ended(in), NEW s, DataOK(in, s), s.end = "running", NEW b \in Executable,
         NEW i \in ToSet(f.body[b]), s.at = b, i.op \in MemoryOps
  PROVE  DataOK(in, Execute(in, s, i)) /\ Goes(s, i, b, Execute(in, s, i))
<1>1. i \in InstrsOf(f)
  BY DEF InstrsOf, Executable
<1>2. Evaluate(i) = Overdefined /\ i.op # "br" /\ i.op # "ret"
  BY OthersEvaluate DEF MemoryOps
<1>3. ASSUME NEW n \in Int
      PROVE  LET r == Sets(s, i, n) IN
             DataOK(in, r) /\ r.at = s.at /\ r.from = s.from /\ r.end = s.end /\ r.mem = s.mem
  <2>1. Fits(n, Evaluate(i))
    BY <1>2, FitsFacts
  <2> QED BY <1>2, <2>1, SetsFound
<1>4. ASSUME NEW n \in Int PROVE DataOK(in, Sets(s, i, n)) /\ Goes(s, i, b, Sets(s, i, n))
  BY <1>2, <1>3 DEF Goes
<1>5. ASSUME NEW t, DataOK(in, t), t.end = s.end, t.at = s.at, t.from = s.from, NEW words, NEW n \in Int
      PROVE  DataOK(in, Overwrites(t, words, n)) /\ Goes(s, i, b, Overwrites(t, words, n))
  BY <1>2, <1>5, OverwritesOK DEF Goes
<1>6. DataOK(in, Undefined(s)) /\ Goes(s, i, b, Undefined(s))
  BY UndefinedOK DEF Goes
<1>7. ASSUME NEW n \in DOMAIN i.args PROVE Read(s, i.args[n]) \in Int
  BY <1>1, ReadFits
<1>8. CASE i.op = "alloca"
  <2>1. Execute(in, s, i) = Overwrites(Sets(s, i, i.id), WordsAt(i.id, WordsIn(i)), Poison)
    BY <1>8 DEF Execute, BinaryOps, CmpOps
  <2>2. i.id \in Int
    BY <1>1, <1>8, InstrFacts DEF IsTyped
  <2>3. PICK t : t = Sets(s, i, i.id)
    OBVIOUS
  <2>4. DataOK(in, t) /\ t.end = s.end /\ t.at = s.at /\ t.from = s.from
    BY <1>3, <2>2, <2>3
  <2> QED BY <1>5, <2>1, <2>3, <2>4, PoisonIs
<1>9. CASE i.op = "gep"
  <2>1. Execute(in, s, i) = Sets(s, i, IF Spoiled(s, i) THEN Poison ELSE Cell(Read(s, i.args[1]), Read(s, i.args[2])))
    BY <1>9 DEF Execute, BinaryOps, CmpOps, Spoiled
  <2>2. 1 \in DOMAIN i.args /\ 2 \in DOMAIN i.args
    <3>1. Len(i.args) = 2
      BY <1>1, <1>9, InstrFacts DEF IsTyped
    <3> QED BY <1>1, <3>1, InstrFacts
  <2>3. PICK p \in Nat : p = 2^(W + 5)
    <3>1. W + 5 \in Nat
      BY WidthAssumption
    <3> QED BY <3>1, PowerPositive
  <2>4. ASSUME NEW x \in Int, NEW y \in Int PROVE Cell(x, y) \in Int
    BY <2>3 DEF Cell
  <2>5. Cell(Read(s, i.args[1]), Read(s, i.args[2])) \in Int
    BY <1>7, <2>2, <2>4
  <2> QED BY <1>4, <2>1, <2>5, PoisonIs
<1>10. CASE i.op = "load"
  <2>1. Execute(in, s, i) = IF Read(s, i.args[1]) \notin DOMAIN s.mem THEN Undefined(s)
                            ELSE Sets(s, i, s.mem[Read(s, i.args[1])])
    BY <1>10 DEF Execute, BinaryOps, CmpOps
  <2>2. s.mem \in [DOMAIN s.mem -> Int]
    BY DEF DataOK
  <2>3. CASE Read(s, i.args[1]) \notin DOMAIN s.mem
    BY <1>6, <2>1, <2>3
  <2>4. CASE Read(s, i.args[1]) \in DOMAIN s.mem
    <3>1. s.mem[Read(s, i.args[1])] \in Int
      BY <2>2, <2>4
    <3> QED BY <1>4, <2>1, <2>4, <3>1
  <2> QED BY <2>3, <2>4
<1>11. CASE i.op = "store"
  <2>1. Execute(in, s, i) = Overwrites(s, WordsAt(Read(s, i.args[2]), IF i.args[1][1] = "zero" THEN i.args[1][2] ELSE 1),
                                       Read(s, i.args[1]))
    BY <1>11 DEF Execute, BinaryOps, CmpOps
  <2>2. 1 \in DOMAIN i.args
    <3>1. Len(i.args) = 2
      BY <1>1, <1>11, InstrFacts DEF IsTyped
    <3> QED BY <1>1, <3>1, InstrFacts
  <2>3. Read(s, i.args[1]) \in Int
    BY <1>7, <2>2
  <2> QED BY <1>5, <2>1, <2>3
<1>12. CASE i.op = "memzero"
  <2>1. Execute(in, s, i) = Overwrites(s, WordsAt(Read(s, i.args[1]), Read(s, i.args[2])), 0)
    BY <1>12 DEF Execute, BinaryOps, CmpOps
  <2> QED BY <1>5, <2>1
<1> QED BY <1>8, <1>9, <1>10, <1>11, <1>12 DEF MemoryOps

(* A call answers anything, and shows what it was given.                   *)
LEMMA ShownOK ==
  ASSUME NEW in, NEW s, DataOK(in, s), NEW t \in Seq(Int), NEW r, r = [s EXCEPT !.shown = t]
  PROVE  DataOK(in, r) /\ r.at = s.at /\ r.from = s.from /\ r.end = s.end /\ r.shown = t
<1>1. s = [at |-> s.at, from |-> s.from, shown |-> s.shown, end |-> s.end, env |-> s.env, mem |-> s.mem]
  BY DEF DataOK
<1>2. r = [at |-> s.at, from |-> s.from, shown |-> t, end |-> s.end, env |-> s.env, mem |-> s.mem]
  BY <1>1
<1>3. DataOK(in, r)
  BY <1>2 DEF DataOK
<1> QED BY <1>2, <1>3

LEMMA CallRuns ==
  ASSUME NEW in, Ended(in), NEW s, DataOK(in, s), s.end = "running", NEW b \in Executable,
         NEW i \in ToSet(f.body[b]), s.at = b, i.op = "call"
  PROVE  DataOK(in, Execute(in, s, i)) /\ Goes(s, i, b, Execute(in, s, i))
<1> DEFINE given == [n \in DOMAIN i.args |-> Read(s, i.args[n])]
           t == [s EXCEPT !.shown = @ \o given]
           answer == in.answers[1 + (Len(s.shown) % Len(in.answers))]
<1>1. i \in InstrsOf(f)
  BY DEF InstrsOf, Executable
<1>2. Execute(in, s, i) = IF Spoiled(s, i) THEN Undefined(s) ELSE Sets(t, i, answer)
  BY DEF Execute, BinaryOps, CmpOps, Spoiled
<1>3. given \in Seq(Int)
  <2>1. PICK m \in Nat : DOMAIN i.args = 1..m
    BY <1>1, InstrFacts
  <2>2. \A n \in 1..m : Read(s, i.args[n]) \in Int
    BY <1>1, <2>1, ReadFits
  <2>3. given \in [1..m -> Int]
    BY <2>1, <2>2
  <2> HIDE DEF given
  <2> QED BY <2>3, SeqDef
<1>4. s.shown \in Seq(Int)
  BY DEF DataOK
<1>5. answer \in Int
  <2>1. in.answers \in Seq(Int) /\ in.answers # <<>>
    BY DEF Ended, IsInput
  <2>2. PICK q \in Nat \ {0} : q = Len(in.answers) /\ DOMAIN in.answers = 1..q
    BY <2>1
  <2>3. PICK k \in Nat : k = Len(s.shown)
    BY <1>4
  <2>4. k % q \in 0..(q - 1)
    BY ModIs
  <2>5. 1 + (k % q) \in 1..q
    BY <2>4
  <2>6. PICK j \in 1..q : j = 1 + (k % q)
    BY <2>5
  <2>7. answer = in.answers[j]
    BY <2>2, <2>3, <2>6
  <2> QED BY <2>1, <2>2, <2>7
<1>6. s.shown \o given \in Seq(Int)
  <2> HIDE DEF given
  <2> QED BY <1>3, <1>4, ConcatProperties
<1>7. DataOK(in, t) /\ t.at = s.at /\ t.from = s.from /\ t.end = s.end
  <2>1. t = [s EXCEPT !.shown = s.shown \o given]
    <3>1. s = [at |-> s.at, from |-> s.from, shown |-> s.shown, end |-> s.end, env |-> s.env, mem |-> s.mem]
      BY DEF DataOK
    <3> HIDE DEF given
    <3> QED BY <3>1
  <2>2. PICK new, r : new = s.shown \o given /\ r = t
    OBVIOUS
  <2> HIDE DEF given, t
  <2>3. r = [s EXCEPT !.shown = new] /\ new \in Seq(Int)
    BY <1>6, <2>1, <2>2
  <2>4. DataOK(in, r) /\ r.at = s.at /\ r.from = s.from /\ r.end = s.end
    BY <2>3, ShownOK
  <2> QED BY <2>2, <2>4
<1>8. Fits(answer, Evaluate(i))
  <2>1. Evaluate(i) = Overdefined
    BY OthersEvaluate
  <2> HIDE DEF answer
  <2> QED BY <2>1, FitsFacts
<1> HIDE DEF t, answer
<1>9. DataOK(in, Sets(t, i, answer)) /\ Goes(s, i, b, Sets(t, i, answer))
  <2>1. PICK r : r = Sets(t, i, answer)
    OBVIOUS
  <2>2. DataOK(in, r) /\ r.at = t.at /\ r.from = t.from /\ r.end = t.end
    BY <1>5, <1>7, <1>8, <2>1, SetsFound
  <2> QED BY <1>7, <2>1, <2>2 DEF Goes
<1>10. DataOK(in, Undefined(s)) /\ Goes(s, i, b, Undefined(s))
  BY UndefinedOK DEF Goes
<1> QED BY <1>2, <1>9, <1>10

LEMMA RetRuns ==
  ASSUME NEW in, Ended(in), NEW s, DataOK(in, s), s.end = "running", NEW b \in Executable,
         NEW i \in ToSet(f.body[b]), s.at = b, i.op = "ret"
  PROVE  DataOK(in, Execute(in, s, i)) /\ Goes(s, i, b, Execute(in, s, i))
<1> DEFINE a == Read(s, i.args[1])
<1>1. i \in InstrsOf(f)
  BY DEF InstrsOf, Executable
<1>2. a \in Int
  <2>1. Len(i.args) = 1
    BY <1>1, InstrFacts DEF IsTyped
  <2>2. 1 \in DOMAIN i.args
    BY <1>1, <2>1, InstrFacts
  <2> QED BY <1>1, <2>2, ReadFits
<1>3. Execute(in, s, i) = IF Spoiled(s, i) THEN Undefined(s) ELSE [Shows(s, a) EXCEPT !.end = "returned"]
  BY DEF Execute, BinaryOps, CmpOps, Spoiled
<1> HIDE DEF a
<1>4. PICK t : t = Shows(s, a)
  OBVIOUS
<1>5. DataOK(in, t)
  <2>1. s = [at |-> s.at, from |-> s.from, shown |-> s.shown, end |-> s.end, env |-> s.env, mem |-> s.mem]
        /\ s.shown \in Seq(Int)
    BY DEF DataOK
  <2>2. t = [s EXCEPT !.shown = Append(s.shown, a)]
    BY <1>4, <2>1 DEF Shows
  <2>3. Append(s.shown, a) \in Seq(Int)
    BY <1>2, <2>1
  <2> QED BY <2>2, <2>3, ShownOK
<1>6. PICK r : r = [t EXCEPT !.end = "returned"]
  OBVIOUS
<1>7. DataOK(in, r) /\ r.end = "returned"
  BY <1>5, <1>6 DEF DataOK
<1>8. DataOK(in, Undefined(s)) /\ Goes(s, i, b, Undefined(s))
  BY UndefinedOK DEF Goes
<1>9. Goes(s, i, b, r)
  BY <1>7 DEF Goes
<1> QED BY <1>3, <1>4, <1>6, <1>7, <1>8, <1>9

(* A branch whose condition is known leads to a block found executable.    *)
LEMMA BranchRuns ==
  ASSUME NEW in, Ended(in), NEW s, DataOK(in, s), s.end = "running", NEW b \in Executable,
         NEW i \in ToSet(f.body[b]), s.at = b, i.op = "br"
  PROVE  DataOK(in, Execute(in, s, i)) /\ Goes(s, i, b, Execute(in, s, i))
<1> DEFINE to == IF IsConditional(i) /\ Read(s, i.args[1]) = 0 THEN i.to[2] ELSE i.to[1]
<1>1. i \in InstrsOf(f)
  BY DEF InstrsOf, Executable
<1>2. Execute(in, s, i) = IF Spoiled(s, i) THEN Undefined(s) ELSE [s EXCEPT !.from = s.at, !.at = to]
  BY DEF Execute, BinaryOps, CmpOps, Spoiled
<1>3. Targets(i) \subseteq executable_
  BY DEF Ended, Executable, Settled
<1>4. i.to \in Seq(ToSet(i.to)) /\ Len(i.to) \in {1, 2} /\ Len(i.args) = Len(i.to) - 1
  BY <1>1, InstrFacts DEF IsInstr, IsTyped
<1>5. i.to[1] \in ToSet(i.to) /\ (Len(i.to) = 2 => i.to[2] \in ToSet(i.to))
  BY <1>4 DEF ToSet
<1>6. CASE Spoiled(s, i)
  BY <1>2, <1>6, UndefinedOK DEF Goes
<1>7. CASE ~Spoiled(s, i)
  <2>1. to \in ToSet(i.to)
    BY <1>5 DEF IsConditional
  <2>2. to \in Targets(i)
    <3>1. CASE ~IsConditional(i)
      BY <1>5, <3>1 DEF Targets
    <3>2. CASE IsConditional(i)
      <4>1. 1 \in DOMAIN i.args
        BY <1>1, <1>4, <3>2, InstrFacts DEF IsConditional
      <4>2. IsScalar(i.args[1])
        BY <1>1, <4>1, InstrFacts DEF IsTyped
      <4>3. PICK a, c : a = Read(s, i.args[1]) /\ c = StateFor(i.args[1])
        OBVIOUS
      <4>4. Fits(a, c) /\ c \in Lattice
        BY <1>1, <4>1, <4>2, <4>3, ReadFits
      <4>5. a # Poison
        BY <1>7, <4>1, <4>3 DEF Spoiled
      <4>6. c = Overdefined \/ (IsConstant(c) /\ c.n = a)
        BY <4>4, <4>5, FitsFacts DEF Fits
      <4>7. CASE IsConstant(c) /\ c.n = a
        <5>1. Targets(i) = {IF a # 0 THEN i.to[1] ELSE i.to[2]}
          BY <3>2, <4>3, <4>7 DEF Targets, IsConstant, Overdefined
        <5> QED BY <5>1, <3>2, <4>3
      <4>8. CASE c = Overdefined
        <5>1. Targets(i) = ToSet(i.to)
          BY <3>2, <4>3, <4>8 DEF Targets, IsConstant, Overdefined
        <5> QED BY <5>1, <2>1
      <4> QED BY <4>6, <4>7, <4>8
    <3> QED BY <3>1, <3>2
  <2> HIDE DEF to
  <2>3. PICK r : r = [s EXCEPT !.from = s.at, !.at = to]
    OBVIOUS
  <2>4. DataOK(in, r) /\ r.from = b /\ r.at = to
    BY <2>3 DEF DataOK
  <2>5. Goes(s, i, b, r)
    BY <1>3, <2>1, <2>2, <2>4 DEF Goes
  <2> QED BY <1>2, <1>7, <2>3, <2>4, <2>5
<1> QED BY <1>6, <1>7

LEMMA ExecuteOK ==
  ASSUME NEW in, Ended(in), NEW s, DataOK(in, s), s.end = "running", NEW b \in Executable,
         NEW i \in ToSet(f.body[b]), s.at = b, ~IsPhi(i)
  PROVE  DataOK(in, ExecuteAny(in, s, i)) /\ Goes(s, i, b, ExecuteAny(in, s, i))
<1>1. i \in InstrsOf(f)
  BY DEF InstrsOf, Executable
<1>2. ExecuteAny(in, s, i) = Execute(in, s, i)
  BY <1>1, InstrFacts DEF ExecuteAny
<1>3. i.op \in BinaryOps \cup CmpOps \cup MemoryOps \cup {"zext", "call", "ret", "br"}
  BY <1>1, InstrFacts DEF IsTyped, IsPhi
<1> QED BY <1>2, <1>3, BinaryRuns, CmpRuns, CastRuns, MemoryRuns, CallRuns, RetRuns, BranchRuns

(* What the verifier demands of a block.                                   *)
LEMMA BlockFacts ==
  ASSUME NEW in, Ended(in), NEW b \in Blocks(f)
  PROVE  /\ Len(f.body[b]) \in Nat \ {0} /\ DOMAIN f.body[b] = 1..Len(f.body[b])
         /\ \A k \in DOMAIN f.body[b] :
               /\ f.body[b][k] \in ToSet(f.body[b])
               /\ f.body[b][k].op \in {"br", "ret"} <=> k = Len(f.body[b])
               /\ ToSet(f.body[b][k].to) \subseteq Blocks(f)
         /\ \A i \in ToSet(f.body[b]) : IsPhi(i) => ToSet(i.to) = Predecessors(f, b)
         /\ SuccessorSet(f, b) = ToSet(f.body[b][Len(f.body[b])].to)
<1>1. Len(f.body[b]) \in Nat \ {0} /\ DOMAIN f.body[b] = 1..Len(f.body[b])
      /\ \A k \in DOMAIN f.body[b] : f.body[b][k] \in ToSet(f.body[b])
  BY BodyFacts DEF Ended, IsProgram
<1>2. WellFormedBlock(f, b)
  BY DEF Ended, IsProgram, WellFormed
<1>3. ASSUME NEW k \in DOMAIN f.body[b]
      PROVE  /\ f.body[b][k].op \in {"br", "ret"} <=> k = Len(f.body[b])
             /\ ToSet(f.body[b][k].to) \subseteq Blocks(f)
             /\ IsPhi(f.body[b][k]) => ToSet(f.body[b][k].to) = Predecessors(f, b)
  BY <1>2 DEF WellFormedBlock, IsTerminator
<1>4. ASSUME NEW i \in ToSet(f.body[b]), IsPhi(i) PROVE ToSet(i.to) = Predecessors(f, b)
  BY <1>3, <1>4 DEF ToSet
<1>5. SuccessorSet(f, b) = ToSet(f.body[b][Len(f.body[b])].to)
  BY DEF SuccessorSet, Terminator, Last
<1> QED BY <1>1, <1>3, <1>4, <1>5

(* A run is about to enter a block found executable, from another.         *)
OnItsWay(s) ==
    /\ s.at \in Executable
    /\ s.at = Entry(f) \/ (s.from \in Executable /\ s.at \in SuccessorSet(f, s.from))
RunOK(in, s) == DataOK(in, s) /\ (s.end = "running" => OnItsWay(s))

(* The entry of a phi for the block the run comes from is among those that *)
(* are joined.                                                             *)
Taken(s, p) == Read(s, p.args[CHOOSE n \in DOMAIN p.to : p.to[n] = s.from])
LEMMA PhiFits ==
  ASSUME NEW in, Ended(in), NEW s, DataOK(in, s), OnItsWay(s), NEW p \in ToSet(f.body[s.at]), IsPhi(p)
  PROVE  p.id \in Ids(f) /\ Taken(s, p) \in Int /\ Fits(Taken(s, p), value_state_[p.id])
<1>1. s.at \in Executable /\ s.at \in Blocks(f) /\ p \in InstrsOf(f)
  BY DEF OnItsWay, Executable, InstrsOf
<1>2. p.id # 0 /\ p.to # <<>> /\ IsInstr(p) /\ \A v \in ToSet(p.args) : IsScalar(v)
  BY <1>1, InstrFacts DEF IsTyped, IsPhi
<1>3. p.to \in Seq(ToSet(p.to)) /\ Len(p.to) = Len(p.args)
  BY <1>2 DEF IsInstr
<1>4. ToSet(p.to) = Predecessors(f, s.at)
  BY <1>1, BlockFacts
<1>5. DOMAIN p.to = DOMAIN p.args /\ 1 \in DOMAIN p.to
  BY <1>1, <1>2, <1>3, InstrFacts
<1>6. s.from \in executable_ /\ s.from \in ToSet(p.to)
  <2>1. s.at # Entry(f)
    <3>1. ToSet(p.to) # {}
      BY <1>5 DEF ToSet
    <3>2. Predecessors(f, Entry(f)) = {}
      BY DEF Ended, IsProgram, WellFormed
    <3> QED BY <3>1, <3>2, <1>4
  <2> QED BY <2>1, <1>4 DEF OnItsWay, Executable, Predecessors
<1>7. PICK n \in DOMAIN p.to : n = (CHOOSE k \in DOMAIN p.to : p.to[k] = s.from) /\ p.to[n] = s.from
  <2>1. \E k \in DOMAIN p.to : p.to[k] = s.from
    BY <1>6 DEF ToSet
  <2> QED BY <2>1
<1>8. PICK a, x : a = Read(s, p.args[n]) /\ x = StateFor(p.args[n])
  OBVIOUS
<1>9. a \in Int /\ Fits(a, x) /\ x \in Lattice
  <2>1. n \in DOMAIN p.args /\ p.args[n] \in ToSet(p.args)
    BY <1>5 DEF ToSet
  <2> QED BY <1>1, <1>2, <1>8, <2>1, ReadFits
<1>10. Taken(s, p) = a
  BY <1>7, <1>8 DEF Taken
<1>11. Below(x, Evaluate(p))
  <2> DEFINE S == {StateFor(p.args[k]) : k \in {m \in DOMAIN p.args : p.to[m] \in executable_}}
  <2>1. S \in SUBSET Lattice
    BY <1>1, ReadFits
  <2>2. x \in S
    BY <1>5, <1>6, <1>7, <1>8
  <2>3. Evaluate(p) = JoinAll(S)
    BY DEF Evaluate, EvaluatePhi, IsPhi, BinaryOps, CmpOps
  <2> HIDE DEF S
  <2> QED BY <2>1, <2>2, <2>3, JoinAllAbove
<1>12. Below(Evaluate(p), value_state_[p.id])
  BY <1>1, <1>2 DEF Ended, Executable, Settled, IsPhi
<1>13. p.id \in Ids(f) /\ Evaluate(p) \in Lattice /\ value_state_[p.id] \in Lattice
  BY <1>1, <1>2, InstrFacts, EvaluateIs DEF Ended
<1> QED BY <1>9, <1>10, <1>11, <1>12, <1>13, FitsFacts

LEMMA EnterOK ==
  ASSUME NEW in, Ended(in), NEW s, DataOK(in, s), OnItsWay(s)
  PROVE  LET r == EnterBlock(f, s) IN DataOK(in, r) /\ r.at = s.at /\ r.end = s.end
<1> DEFINE named(v) == {p \in ToSet(f.body[s.at]) : IsPhi(p) /\ p.id = v}
           e == [v \in DOMAIN s.env |-> IF named(v) = {} THEN s.env[v] ELSE Taken(s, The(named(v)))]
           D == Ids(f) \cup DOMAIN in.args
<1>1. s = [at |-> s.at, from |-> s.from, shown |-> s.shown, end |-> s.end, env |-> s.env, mem |-> s.mem]
      /\ s.env \in [D -> Int] /\ \A v \in Ids(f) : Fits(s.env[v], value_state_[v])
  BY DEF DataOK
<1>2. PICK r : r = EnterBlock(f, s)
  OBVIOUS
<1>3. r = [s EXCEPT !.env = e]
  BY <1>1, <1>2 DEF EnterBlock, Taken
<1>4. ASSUME NEW v \in D
      PROVE  e[v] \in Int /\ (v \in Ids(f) => Fits(e[v], value_state_[v]))
  <2>1. v \in DOMAIN s.env
    BY <1>1
  <2>2. CASE named(v) = {}
    BY <1>1, <2>1, <2>2
  <2>3. CASE named(v) # {}
    <3>1. The(named(v)) \in named(v)
      <4> HIDE DEF named
      <4> QED BY <2>3 DEF The
    <3>2. PICK p : p = The(named(v)) /\ p \in ToSet(f.body[s.at]) /\ IsPhi(p) /\ p.id = v
      BY <3>1
    <3>3. Taken(s, p) \in Int /\ Fits(Taken(s, p), value_state_[v])
      BY <3>2, PhiFits
    <3>4. e[v] = Taken(s, p)
      <4> HIDE DEF named
      <4> QED BY <2>1, <2>3, <3>2
    <3> QED BY <3>3, <3>4
  <2> QED BY <2>2, <2>3
<1>5. DOMAIN e = D /\ e = [v \in D |-> e[v]]
  BY <1>1
<1> HIDE DEF e
<1>6. e \in [D -> Int]
  BY <1>4, <1>5
<1>7. r = [at |-> s.at, from |-> s.from, shown |-> s.shown, end |-> s.end, env |-> e, mem |-> s.mem]
  BY <1>1, <1>3
<1>8. DataOK(in, r) /\ r.at = s.at /\ r.end = s.end
  BY <1>4, <1>6, <1>7 DEF DataOK
<1> QED BY <1>2, <1>8

(* From block to block.                                                    *)
LEMMA BlockRuns ==
  ASSUME NEW in, Ended(in), NEW s, RunOK(in, s), s.end = "running"
  PROVE  RunOK(in, RunBlock(f, in, s))
<1> DEFINE body == f.body[s.at]
           n == Len(body)
           base == EnterBlock(f, s)
           Do(t, i) == IF IsPhi(i) THEN t ELSE ExecuteAny(in, t, i)
           Step(P, k) == The({Do(t, body[k]) : t \in {P}})
           Is(m, h) == h = [k \in 0..m |-> IF k = 0 THEN base ELSE Step(h[k - 1], k)]
           upTo == CHOOSE h : Is(Len(body), h)
<1>1. RunBlock(f, in, s) = upTo[n]
  BY DEF RunBlock, Through
<1>2. PICK b : b = s.at /\ b \in Executable /\ b \in Blocks(f)
  BY DEF RunOK, OnItsWay, Executable
<1>3. n \in Nat \ {0} /\ DOMAIN body = 1..n
      /\ \A k \in 1..n :
            /\ body[k] \in ToSet(body) /\ (body[k].op \in {"br", "ret"} <=> k = n)
            /\ ToSet(body[k].to) \subseteq Blocks(f)
      /\ SuccessorSet(f, b) = ToSet(body[n].to)
  BY <1>2, BlockFacts
<1>4. \A P, k : Step(P, k) = Do(P, body[k])
  BY DEF The
<1>5. DataOK(in, base) /\ base.at = b /\ base.end = "running"
  BY <1>2, EnterOK DEF RunOK
<1> HIDE DEF base, Step, Do
<1> DEFINE Have == {m \in 0..n : \E h : Is(m, h)}
<1>6. 0 \in Have
  <2> DEFINE z == [k \in 0..0 |-> base]
  <2>1. Is(0, z)
    OBVIOUS
  <2> HIDE DEF Is, z
  <2> QED BY <2>1, <1>3
<1>7. ASSUME NEW m \in 1..n, m - 1 \in Have PROVE m \in Have
  <2>1. PICK g : Is(m - 1, g)
    BY <1>7
  <2> DEFINE h == [k \in 0..m |-> IF k = m THEN Step(g[m - 1], m) ELSE g[k]]
  <2>2. ASSUME NEW k \in 0..m PROVE h[k] = IF k = 0 THEN base ELSE Step(h[k - 1], k)
    <3>0. m \in Nat /\ m # 0
      BY <1>3
    <3>1. CASE k = m
      BY <3>0, <3>1
    <3>2. CASE k # m
      <4>1. k \in 0..(m - 1) /\ h[k] = g[k] /\ (k # 0 => h[k - 1] = g[k - 1])
        BY <3>0, <3>2
      <4>2. g[k] = IF k = 0 THEN base ELSE Step(g[k - 1], k)
        BY <4>1, <2>1
      <4> HIDE DEF h
      <4> QED BY <4>1, <4>2
    <3> QED BY <3>1, <3>2
  <2>3. Is(m, h)
    BY <2>2
  <2> HIDE DEF Is, h
  <2> QED BY <2>3
<1>8. Is(n, upTo)
  <2>1. n \in Have
    <3> HIDE DEF Have
    <3>1. n \in Nat /\ n \in 0..n
      BY <1>3
    <3> QED BY <3>1, <1>6, <1>7, UpTo
  <2> HIDE DEF Is
  <2> QED BY <2>1
<1> HIDE DEF upTo, n
<1>9. \A k \in 0..n : upTo[k] = IF k = 0 THEN base ELSE Step(upTo[k - 1], k)
  BY <1>8
<1> DEFINE Good(k, t) == /\ DataOK(in, t)
                         /\ t.end = "running" /\ k < n => t.at = b
                         /\ t.end = "running" /\ k = n => OnItsWay(t)
           S == {k \in 0..n : Good(k, upTo[k])}
<1>10. 0 \in S
  BY <1>3, <1>5, <1>9
<1>11. ASSUME NEW k \in 1..n, k - 1 \in S PROVE k \in S
  <2>1. PICK t, i : t = upTo[k - 1] /\ i = body[k]
    OBVIOUS
  <2>2. k \in 0..n /\ upTo[k] = Do(t, i)
    BY <2>1, <1>3, <1>4, <1>9
  <2>3. DataOK(in, t) /\ (t.end = "running" => t.at = b)
    BY <2>1, <1>3, <1>11
  <2>4. i \in ToSet(f.body[b]) /\ (i.op \in {"br", "ret"} <=> k = n) /\ ToSet(i.to) \subseteq Blocks(f)
        /\ (k = n => SuccessorSet(f, b) = ToSet(i.to))
    BY <2>1, <1>2, <1>3
  <2>5. CASE IsPhi(i)
    <3>1. k # n
      BY <2>4, <2>5 DEF IsPhi
    <3> QED BY <2>2, <2>3, <2>5, <3>1 DEF Do
  <2>6. CASE ~IsPhi(i) /\ t.end # "running"
    <3>1. i \in InstrsOf(f)
      BY <2>4, <1>2 DEF InstrsOf
    <3>2. ExecuteAny(in, t, i) = t
      BY <2>6, <3>1, InstrFacts DEF ExecuteAny, Execute
    <3> QED BY <2>2, <2>3, <2>6, <3>2 DEF Do
  <2>7. CASE ~IsPhi(i) /\ t.end = "running"
    <3>1. PICK r : r = ExecuteAny(in, t, i)
      OBVIOUS
    <3>2. DataOK(in, r) /\ Goes(t, i, b, r)
      BY <1>2, <2>3, <2>4, <2>7, <3>1, ExecuteOK
    <3>3. r.end = "running" /\ k = n => OnItsWay(r)
      BY <1>2, <2>4, <3>2 DEF Goes, OnItsWay, Executable
    <3>4. r.end = "running" /\ k < n => r.at = b
      BY <1>3, <2>4, <3>2 DEF Goes
    <3> QED BY <2>2, <2>7, <3>1, <3>2, <3>3, <3>4 DEF Do
  <2> QED BY <2>5, <2>6, <2>7
<1>12. n \in S
  <2> HIDE DEF S
  <2>1. n \in Nat /\ n \in 0..n
    BY <1>3
  <2> QED BY <2>1, <1>10, <1>11, UpTo
<1>13. Good(n, upTo[n])
  BY <1>12
<1> QED BY <1>1, <1>13 DEF RunOK

LEMMA StartOK ==
  ASSUME NEW in, Ended(in)
  PROVE  RunOK(in, Start(f, in))
<1> DEFINE own == UNION {WordsAt(i.id, WordsIn(i)) : i \in {j \in InstrsOf(f) : j.op = "alloca"}}
           m == [c \in own \cup DOMAIN in.mem |-> IF c \in own THEN Poison ELSE in.mem[c]]
           e == [v \in Ids(f) \cup DOMAIN in.args |-> IF v \in DOMAIN in.args THEN in.args[v] ELSE Poison]
           s == Start(f, in)
<1>1. s = [at |-> Entry(f), from |-> Entry(f), shown |-> <<>>, end |-> "running", env |-> e, mem |-> m]
  BY DEF Start, The
<1>2. /\ \A v \in DOMAIN in.args : in.args[v] \in Int /\ v \notin Ids(f)
      /\ \A c \in DOMAIN in.mem : in.mem[c] \in Int
  BY DEF Ended, IsInput
<1>3. e \in [Ids(f) \cup DOMAIN in.args -> Int] /\ \A v \in Ids(f) : e[v] = Poison
  BY <1>2, PoisonIs
<1>4. m \in [DOMAIN m -> Int]
  <2> HIDE DEF own
  <2> QED BY <1>2, PoisonIs
<1>5. Entry(f) \in Executable
  <2>1. IsFunction(f) /\ Entry(f) \in executable_
    BY DEF Ended, IsProgram, BitsFound
  <2>2. 1 \in 1..Len(f.order) /\ \A p \in 1..Len(f.order) : f.order[p] \in Blocks(f)
    BY <2>1, FunctionFacts
  <2> QED BY <2>1, <2>2 DEF Executable, Entry
<1>6. PICK r, env, mem : r = s /\ env = e /\ mem = m
  OBVIOUS
<1> HIDE DEF s, e, m
<1>7. DataOK(in, r)
  <2>1. \A v \in Ids(f) : Fits(env[v], value_state_[v])
    BY <1>3, <1>6, FitsFacts
  <2>2. r = [at |-> Entry(f), from |-> Entry(f), shown |-> <<>>, end |-> "running", env |-> env, mem |-> mem]
    BY <1>1, <1>6
  <2>3. mem \in [DOMAIN mem -> Int] /\ env \in [Ids(f) \cup DOMAIN in.args -> Int]
    BY <1>3, <1>4, <1>6
  <2> QED BY <2>1, <2>2, <2>3 DEF DataOK
<1>8. r.at = Entry(f)
  BY <1>1, <1>6
<1> QED BY <1>5, <1>6, <1>7, <1>8 DEF RunOK, OnItsWay, s

(* Every state of a run, one block after the other.                        *)
LEMMA TraceOK ==
  ASSUME NEW in, Ended(in)
  PROVE  \A k \in DOMAIN Trace(f, in, Fuel) : RunOK(in, Trace(f, in, Fuel)[k])
<1> DEFINE seq == [k \in 1..Fuel |-> k]
           n == Len(seq)
           base == <<Start(f, in)>>
           Do(t) == Append(t, RunBlock(f, in, Last(t)))
           Step(P, k) == The({Do(t) : t \in {P}})
           Is(m, h) == h = [k \in 0..m |-> IF k = 0 THEN base ELSE Step(h[k - 1], k)]
           upTo == CHOOSE h : Is(n, h)
           All(t) == t \in Seq(ToSet(t)) /\ t # <<>> /\ \A k \in DOMAIN t : RunOK(in, t[k])
<1>1. Trace(f, in, Fuel) = upTo[n]
  BY DEF Trace, Through
<1>2. n \in Nat
  BY FuelAssumption
<1>3. \A P, k : Step(P, k) = Do(P)
  BY DEF The
<1>4. All(base)
  <2>1. PICK s : s = Start(f, in)
    OBVIOUS
  <2>2. RunOK(in, s)
    BY <2>1, StartOK
  <2>3. base = <<s>> /\ DOMAIN base = {1} /\ base[1] = s
    BY <2>1
  <2>4. ToSet(base) = {s} /\ base \in Seq({s})
    BY <2>3 DEF ToSet
  <2> QED BY <2>2, <2>3, <2>4
<1>5. ASSUME NEW t, All(t) PROVE All(Do(t))
  <2>1. PICK m \in Nat \ {0} : Len(t) = m /\ DOMAIN t = 1..m
    BY <1>5
  <2>2. PICK s, r : s = t[m] /\ r = RunBlock(f, in, s)
    OBVIOUS
  <2>3. RunOK(in, s)
    BY <1>5, <2>1, <2>2
  <2>4. RunOK(in, r)
    <3>1. CASE s.end = "running"
      BY <2>2, <2>3, <3>1, BlockRuns
    <3>2. CASE s.end # "running"
      BY <2>2, <2>3, <3>2 DEF RunBlock
    <3> QED BY <3>1, <3>2
  <2>5. Do(t) = Append(t, r)
    BY <2>1, <2>2 DEF Last
  <2>6. PICK u : u = Append(t, r)
    OBVIOUS
  <2>7. t \in Seq(ToSet(t) \cup {r})
    BY <1>5
  <2>8. u \in Seq(ToSet(t) \cup {r}) /\ Len(u) = m + 1 /\ DOMAIN u = 1..(m + 1) /\ u[m + 1] = r /\ \A k \in 1..m : u[k] = t[k]
    BY <2>1, <2>6, <2>7
  <2>9. \A k \in DOMAIN u : RunOK(in, u[k])
    BY <1>5, <2>1, <2>4, <2>8
  <2>10. u \in Seq(ToSet(u)) /\ u # <<>>
    <3>1. u = [k \in 1..(m + 1) |-> u[k]]
      BY <2>8
    <3>2. m + 1 \in Nat
      OBVIOUS
    <3> QED BY <2>8, <3>1, <3>2, SequenceOn
  <2> QED BY <2>5, <2>6, <2>9, <2>10
<1> HIDE DEF base, Step, Do, All, n
<1> DEFINE Have == {m \in 0..n : \E h : Is(m, h)}
<1>6. 0 \in Have
  <2> DEFINE z == [k \in 0..0 |-> base]
  <2>1. Is(0, z)
    OBVIOUS
  <2> HIDE DEF Is, z
  <2> QED BY <2>1, <1>2
<1>7. ASSUME NEW m \in 1..n, m - 1 \in Have PROVE m \in Have
  <2>1. PICK g : Is(m - 1, g)
    BY <1>7
  <2> DEFINE h == [k \in 0..m |-> IF k = m THEN Step(g[m - 1], m) ELSE g[k]]
  <2>2. ASSUME NEW k \in 0..m PROVE h[k] = IF k = 0 THEN base ELSE Step(h[k - 1], k)
    <3>0. m \in Nat /\ m # 0
      BY <1>2
    <3>1. CASE k = m
      BY <3>0, <3>1
    <3>2. CASE k # m
      <4>1. k \in 0..(m - 1) /\ h[k] = g[k] /\ (k # 0 => h[k - 1] = g[k - 1])
        BY <3>0, <3>2
      <4>2. g[k] = IF k = 0 THEN base ELSE Step(g[k - 1], k)
        BY <4>1, <2>1
      <4> HIDE DEF h
      <4> QED BY <4>1, <4>2
    <3> QED BY <3>1, <3>2
  <2>3. Is(m, h)
    BY <2>2
  <2> HIDE DEF Is, h
  <2> QED BY <2>3
<1>8. Is(n, upTo)
  <2>1. n \in Have
    <3> HIDE DEF Have
    <3>1. n \in 0..n
      BY <1>2
    <3> QED BY <3>1, <1>2, <1>6, <1>7, UpTo
  <2> HIDE DEF Is
  <2> QED BY <2>1
<1> HIDE DEF upTo
<1>9. \A k \in 0..n : upTo[k] = IF k = 0 THEN base ELSE Step(upTo[k - 1], k)
  BY <1>8
<1> DEFINE S == {k \in 0..n : All(upTo[k])}
<1>10. 0 \in S
  BY <1>2, <1>4, <1>9
<1>11. ASSUME NEW k \in 1..n, k - 1 \in S PROVE k \in S
  <2>1. upTo[k] = Do(upTo[k - 1]) /\ k \in 0..n
    BY <1>3, <1>9
  <2>2. All(upTo[k - 1])
    BY <1>11
  <2> QED BY <2>1, <2>2, <1>5
<1>12. n \in S
  <2> HIDE DEF S
  <2>1. n \in 0..n
    BY <1>2
  <2> QED BY <2>1, <1>2, <1>10, <1>11, UpTo
<1>13. All(upTo[n])
  BY <1>12
<1> QED BY <1>1, <1>13 DEF All

(* Single bits and the entry, step by step.                                *)
LEMMA BitOfOperation ==
  ASSUME NEW i, IsInstr(i), i.bits = 1, value_state_ \in [Ids(f) -> Lattice], BitsFound,
         IsTyped(f, i), IsConstant(Evaluate(i))
  PROVE  Evaluate(i).n \in {0, 1}
<1>1. i.args \in Seq(ToSet(i.args)) /\ \A k \in DOMAIN i.args : i.args[k] \in ToSet(i.args)
  BY DEF IsInstr, ToSet
<1>3. \A n : IsConstant(Constant(n)) /\ Constant(n).n = n
  BY DEF Constant, IsConstant
<1>4. ~IsConstant(Overdefined) /\ ~IsConstant(Unknown)
  BY DEF Overdefined, Unknown, IsConstant
<1>5. CASE i.op \in BinaryOps
  <2>1. PICK x, y : x = StateFor(i.args[1]) /\ y = StateFor(i.args[2])
    OBVIOUS
  <2>2. Evaluate(i) = EvaluateBinary(i, x, y)
    BY <1>5, <2>1 DEF Evaluate, BinaryOps, CmpOps, IsPhi
  <2> DEFINE folded == IF IsConstant(x) /\ IsConstant(y) THEN FoldIntBinary(i.op, x.n, y.n) ELSE {}
             found == EvaluateByIdentity(i.op, i.bits, x, y)
  <2>3. CASE folded # {}
    <3>1. PICK m : EvaluateBinary(i, x, y) = Constant(Truncated(i.bits, m))
      BY <2>3 DEF EvaluateBinary
    <3>2. Truncated(i.bits, m) \in {0, 1}
      BY DEF Truncated
    <3> QED BY <2>2, <3>1, <3>2, <1>3
  <2>4. CASE folded = {}
    <3>1. EvaluateBinary(i, x, y) = found
      BY <2>4 DEF EvaluateBinary
    <3>2. IsConstant(x) /\ IsConstant(y) => i.op = "or" \/ (i.op \in {"sdiv", "srem"} /\ y.n = 0)
      <4>1. ASSUME IsConstant(x), IsConstant(y) PROVE FoldIntBinary(i.op, x.n, y.n) = {}
        BY <2>4, <4>1
      <4> QED BY <4>1 DEF FoldIntBinary
    <3>3. \A n : (Known(x, n) => IsConstant(x) /\ x.n = n) /\ (Known(y, n) => IsConstant(y) /\ y.n = n)
      BY <1>3 DEF Known
    <3>4. found = Constant(0) \/ ~IsConstant(found)
      <4>1. CASE i.op \in {"add", "xor", "sub", "mul", "and"}
        <5>1. ~IsConstant(x) \/ ~IsConstant(y)
          BY <3>2, <4>1
        <5> HIDE DEF Known
        <5> QED BY <5>1, <4>1, <1>4, <3>3 DEF EvaluateByIdentity
      <4>2. CASE i.op \in {"sdiv", "srem"}
        <5>1. Known(y, 1) => ~IsConstant(x)
          BY <3>2, <3>3, <4>2
        <5> HIDE DEF Known
        <5> QED BY <5>1, <4>2, <1>4 DEF EvaluateByIdentity
      <4>3. CASE i.op = "or"
        BY <4>3, <1>4 DEF EvaluateByIdentity
      <4> QED BY <1>5, <4>1, <4>2, <4>3 DEF BinaryOps
    <3> HIDE DEF found
    <3> QED BY <2>2, <3>1, <3>4, <1>3
  <2> QED BY <2>3, <2>4
<1>6. CASE i.op \in CmpOps
  <2>1. PICK x, y : Evaluate(i) = EvaluateCmp(i, x, y)
    BY <1>6 DEF Evaluate, BinaryOps, CmpOps, IsPhi
  <2>2. PICK c : c = IF Compare(i.op, x.n, y.n) THEN 1 ELSE 0
    OBVIOUS
  <2>3. c \in {0, 1} /\ EvaluateCmp(i, x, y) \in {Constant(c), Overdefined, Unknown}
    BY <2>2 DEF EvaluateCmp
  <2> QED BY <2>1, <2>3, <1>3, <1>4
<1>7. CASE i.op = "zext"
  <2>1. PICK x : Evaluate(i) = EvaluateCast(x)
    BY <1>7 DEF Evaluate, BinaryOps, CmpOps, IsPhi
  <2>2. PICK c : c = IF x.n = 0 THEN 0 ELSE 1
    OBVIOUS
  <2>3. c \in {0, 1} /\ (IsConstant(x) => EvaluateCast(x) = Constant(c)) /\ (~IsConstant(x) => EvaluateCast(x) = x)
    BY <2>2 DEF EvaluateCast
  <2> QED BY <2>1, <2>3, <1>3
<1>8. CASE IsPhi(i)
  <2> DEFINE S == {StateFor(i.args[n]) : n \in {k \in DOMAIN i.args : i.to[k] \in executable_}}
  <2>1. Evaluate(i) = JoinAll(S)
    BY <1>8 DEF Evaluate, EvaluatePhi, BinaryOps, CmpOps, IsPhi
  <2>2. \A x \in S : IsConstant(x) => x.n \in {0, 1}
    <3> TAKE x \in S
    <3>1. PICK n \in DOMAIN i.args : x = StateFor(i.args[n])
      OBVIOUS
    <3>2. IsBit(f, i.args[n])
      BY <1>1, <1>8 DEF IsTyped
    <3> QED BY <3>1, <3>2, BitState
  <2> HIDE DEF S
  <2>3. JoinAll(S) \in S \cup {Overdefined, Unknown}
    <3>1. \A y : The({y}) = y
      BY DEF The
    <3> QED BY <3>1 DEF JoinAll
  <2> QED BY <2>1, <2>2, <2>3, <1>4
<1>9. CASE i.op \in MemoryOps \cup {"call", "ret", "br"}
  BY <1>9, <1>4, OthersEvaluate
<1> QED BY <1>5, <1>6, <1>7, <1>8, <1>9 DEF IsTyped, IsPhi

LEMMA BitsKept ==
  ASSUME SweepInv, FunctionInv, BitsFound, [Next]_vars
  PROVE  BitsFound'
<1>1. IsProgram(f) /\ IsFunction(f) /\ value_state_ \in [Ids(f) -> Lattice] /\ f \in Programs
  BY ProgramsAssumption DEF IsProgram, SweepInv, SweepTypeOK, FunctionInv
<1>2. CASE VisitValue
  <2>1. /\ InSweep /\ value_state_' = [value_state_ EXCEPT ![At.id] = Join(@, Evaluate(At))] /\ Advance
        /\ At.id # 0 /\ UNCHANGED <<f, executable_>>
    BY <1>2 DEF VisitValue, Updated
  <2>2. IsInstr(At) /\ At \in InstrsOf(f) /\ At.id \in Ids(f)
    BY <2>1, AdvanceFacts DEF SweepInv
  <2>3. PICK a : a = At
    OBVIOUS
  <2>4. IsTyped(f, a) /\ IsInstr(a) /\ a \in InstrsOf(f) /\ a.id \in Ids(f) /\ Evaluate(a) \in Lattice
    BY <1>1, <2>2, <2>3, EvaluateIs DEF IsProgram
  <2>5. ASSUME NEW i \in InstrsOf(f), i.id # 0, i.bits = 1, IsConstant(value_state_'[i.id])
        PROVE  value_state_'[i.id].n \in {0, 1}
    <3>1. i.id \in Ids(f)
      BY <2>5 DEF Ids
    <3>2. CASE i.id # a.id
      <4>1. value_state_'[i.id] = value_state_[i.id]
        BY <1>1, <2>1, <2>3, <3>1, <3>2
      <4> QED BY <2>5, <4>1 DEF BitsFound
    <3>3. CASE i.id = a.id
      <4>1. i = a
        BY <1>1, <2>4, <2>5, <3>3, UniqueIds
      <4>2. value_state_'[a.id] = Join(value_state_[a.id], Evaluate(a))
        BY <1>1, <2>1, <2>3, <2>4
      <4>3. Join(value_state_[a.id], Evaluate(a)) \in {value_state_[a.id], Evaluate(a), Overdefined}
        BY DEF Join
      <4>4. ~IsConstant(Overdefined)
        BY DEF Overdefined, IsConstant
      <4>5. CASE value_state_'[a.id] = value_state_[a.id]
        BY <2>5, <4>1, <4>5 DEF BitsFound
      <4>6. CASE value_state_'[a.id] = Evaluate(a)
        BY <1>1, <2>4, <2>5, <4>1, <4>6, BitOfOperation
      <4> QED BY <2>5, <4>1, <4>2, <4>3, <4>4, <4>5, <4>6
    <3> QED BY <3>2, <3>3
  <2> QED BY <2>1, <2>5 DEF BitsFound
<1>3. CASE SkipBlock \/ VisitBranch \/ VisitVoid \/ SweepAgain \/ RewriteConstants \/ UNCHANGED vars
  <2>1. UNCHANGED <<f, value_state_>> /\ executable_ \subseteq executable_'
    BY <1>3 DEF SkipBlock, VisitBranch, VisitVoid, SweepAgain, RewriteConstants, vars
  <2> QED BY <2>1 DEF BitsFound
<1> QED BY <1>2, <1>3 DEF Next

LEMMA BitsInit == Init => BitsFound
<1> SUFFICES ASSUME Init PROVE BitsFound
  OBVIOUS
<1>1. Entry(f) \in executable_ /\ value_state_ = [v \in Ids(f) |-> Unknown]
  BY DEF Init
<1>2. \A i \in InstrsOf(f) : i.id # 0 => ~IsConstant(value_state_[i.id])
  BY <1>1 DEF Ids, IsConstant, Unknown
<1> QED BY <1>1, <1>2 DEF BitsFound

(* What the sweeps end with holds of every run of the function: it enters  *)
(* no block that was not found executable, and whenever a value found      *)
(* constant has been computed it is that constant.  An "or" is evaluated   *)
(* as if it had no value where both its operands are constant, which no    *)
(* run agrees with; calls of functions of the module stay a bound of TLC's *)
(* runs.                                                                   *)
ConstantsInv == SweepInv /\ FunctionInv /\ BitsFound
THEOREM ConstantsAlwaysCoverRuns ==
  ASSUME \A g \in Programs : \A i \in InstrsOf(g) : i.op # "or" /\ ~IsInternalCall(i)
  PROVE  ScalarSpec => []ConstantsCoverRuns
<1>1. ScalarInit => ConstantsInv
  BY SweepInit, FunctionInit, BitsInit DEF ScalarInit, ConstantsInv
<1>2. ConstantsInv /\ [ScalarNext]_<<vars, range_vars>> => ConstantsInv'
  <2> SUFFICES ASSUME ConstantsInv, [ScalarNext]_<<vars, range_vars>> PROVE ConstantsInv'
    OBVIOUS
  <2>1. CASE [Next]_vars
    BY <2>1, SweepSteps, FunctionKept, BitsKept DEF ConstantsInv
  <2>2. CASE phase = "done" /\ VR!Next /\ UNCHANGED <<f, executable_, value_state_, block, index, changed, phase>>
    <3>1. SweepInv'
      <4>1. \A i : Settled(i)' <=> Settled(i)
        BY <2>2, SettledKept
      <4> QED BY <2>2, <4>1 DEF ConstantsInv, SweepInv, SweepTypeOK, SettledBehind, EndsSettled, Behind
    <3>2. result' = result
      BY <2>2 DEF VR!Next, VR!SweepInstruction, VR!SweepAgain, VR!EndSweeps, VR!IterateEntries,
                  VR!EndEntries, VR!RewriteInstruction, VR!ApplyReplacements
    <3>3. FunctionInv' /\ BitsFound'
      BY <2>2, <3>2 DEF ConstantsInv, FunctionInv, BitsFound
    <3> QED BY <3>1, <3>3 DEF ConstantsInv
  <2> QED BY <2>1, <2>2 DEF ScalarNext, vars
<1>3. ConstantsInv => ConstantsCoverRuns
  <2> SUFFICES ASSUME ConstantsInv, phase = "done", NEW in \in Inputs(f), NEW k \in DOMAIN Trace(f, in, Fuel)
               PROVE  Covers(Trace(f, in, Fuel)[k])
    BY DEF ConstantsCoverRuns, FixpointCoversRuns
  <2>1. f \in Programs
    BY DEF ConstantsInv, SweepInv, SweepTypeOK
  <2>2. Ended(in)
    <3>1. IsProgram(f) /\ IsInput(f, in)
      BY <2>1, ProgramsAssumption, InputsAssumption
    <3>2. \A i \in InstrsOf(f) : i.op # "or" /\ ~IsInternalCall(i)
      BY <2>1
    <3>3. \A b \in executable_ \cap Blocks(f) : \A i \in ToSet(f.body[b]) : Settled(i)
      BY DEF ConstantsInv, SweepInv, EndsSettled
    <3> QED BY <3>1, <3>2, <3>3 DEF Ended, ConstantsInv, FunctionInv
  <2>3. PICK s : s = Trace(f, in, Fuel)[k] /\ RunOK(in, s)
    BY <2>2, TraceOK
  <2>4. s.end = "running" => s.at \in executable_
    BY <2>3 DEF RunOK, OnItsWay, Executable
  <2>5. ASSUME NEW v \in Constants PROVE s.env[v] \in {value_state_[v].n, Poison}
    <3>1. v \in Ids(f) /\ IsConstant(value_state_[v])
      BY <2>2 DEF Constants, Ended
    <3>2. Fits(s.env[v], value_state_[v])
      BY <2>3, <3>1 DEF RunOK, DataOK
    <3> QED BY <3>1, <3>2 DEF Fits
  <2> QED BY <2>3, <2>4, <2>5 DEF Covers
<1> QED BY <1>1, <1>2, <1>3, PTL DEF ScalarSpec
=============================================================================
