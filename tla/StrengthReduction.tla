------------------------- MODULE StrengthReduction -------------------------
(***************************************************************************)
(* Multiplication, division and remainder by a constant without the        *)
(* instruction for it (try_lower_const_mul, try_lower_const_div and        *)
(* try_lower_const_rem of pass/oir/OIRToMIRVRegLowerer.cpp), and division  *)
(* by a loop invariant with a reciprocal made ahead of the loop            *)
(* (pass/mir/MIRLoopInvariantCodeMotionPass.cpp).                          *)
(*                                                                         *)
(* Each operator gives the instructions that put the result in d, with     *)
(* registers from t on for what is between, or <<>> where the code goes    *)
(* on to something else.                                                   *)
(***************************************************************************)
EXTENDS MIR

IsPowerOfTwo(n) == \E k \in 0..W : n = 2^k
LogOf(n) == CHOOSE k \in 0..W : n = 2^k

Word(op, d, a, k) == Op(op, <<d>>, <<a>>, k, <<>>)       \* register and immediate
Words(op, d, a, b) == Op(op, <<d>>, <<a, b>>, 0, <<>>)   \* two registers

(* a, and its negation if c is negative *)
Negated(c, d, t, make(_)) ==
    IF c < 0 THEN make(t) \o <<Words("subw", d, 0, t)>> ELSE make(d)

ConstMul(d, v, c, t) ==
    CASE c = 0 -> <<Move(d, 0)>>
      [] c = 1 -> <<Move(d, v)>>
      [] c = -1 -> <<Words("subw", d, 0, v)>>
      [] c \notin -1..1 /\ IsPowerOfTwo(Abs(c)) ->
            Negated(c, d, t, LAMBDA to : <<Word("slliw", to, v, LogOf(Abs(c)))>>)
      [] OTHER -> <<>>

(* Rounding toward zero: 2^k - 1 is added to a negative dividend.          *)
Biased(v, k, t) ==
    <<Word("sraiw", t, v, W - 1), Word("srliw", t + 1, t, W - k), Words("addw", t + 2, v, t + 1)>>

SignedDivPow2(d, v, k, c, t) ==
    Biased(v, k, t) \o Negated(c, d, t + 3, LAMBDA to : <<Word("sraiw", to, t + 2, k)>>)

(* The loop of signed_magic_info doubles 2^p until it exceeds              *)
(* anc * (ad - 2^p % ad); q1 and q2 are 32-bit numbers.                    *)
MagicInfo(c) ==
    LET ad == Abs(c)
        t == 2^(W - 1) + (IF c < 0 THEN 1 ELSE 0)
        anc == t - 1 - (t % ad)
        q1(p) == (2^p \div anc) % 2^W
        delta(p) == ad - (2^p % ad)
        p0 == Min({p \in W..(2 * W) : \/ q1(p) > delta(p)
                                      \/ q1(p) = delta(p) /\ 2^p % anc # 0})
        magic == ((2^p0 \div ad) % 2^W) + 1
    IN  [magic |-> Wrap(IF c < 0 THEN -magic ELSE magic), shift |-> p0 - W]

MagicDiv(d, v, c, t) ==
    IF c = 0 \/ c = -(2^(W - 1)) THEN <<>>
    ELSE LET info == MagicInfo(c)
             adjusted == CASE c > 0 /\ info.magic < 0 -> <<Words("addw", t + 3, t + 2, v)>>
                           [] c < 0 /\ info.magic > 0 -> <<Words("subw", t + 3, t + 2, v)>>
                           [] OTHER -> <<>>
             q == IF adjusted = <<>> THEN t + 2 ELSE t + 3
             shifted == IF info.shift = 0 THEN <<>> ELSE <<Word("sraiw", t + 4, q, info.shift)>>
             s == IF shifted = <<>> THEN q ELSE t + 4
         IN  <<LoadImm(t, info.magic), Words("mul", t + 1, v, t), Word("srai", t + 2, t + 1, W)>>
             \o adjusted \o shifted
             \o <<Word("srliw", t + 5, s, W - 1), Words("addw", d, s, t + 5)>>

ConstDiv(d, v, c, t) ==
    CASE c = 1 -> <<Move(d, v)>>
      [] c = -1 -> <<Words("subw", d, 0, v)>>
      [] Abs(c) # 1 /\ IsPowerOfTwo(Abs(c)) /\ LogOf(Abs(c)) < W - 1 ->
            SignedDivPow2(d, v, LogOf(Abs(c)), c, t)
      [] OTHER -> MagicDiv(d, v, c, t)

(* try_lower_nonnegative_const_div: v is known not to be negative.         *)
NonNegativeConstDiv(d, v, c, t) ==
    CASE c = 1 -> <<Move(d, v)>>
      [] c = -1 -> <<Words("subw", d, 0, v)>>
      [] Abs(c) # 1 /\ IsPowerOfTwo(Abs(c)) ->
            Negated(c, d, t, LAMBDA to : <<Word("srliw", to, v, LogOf(Abs(c)))>>)
      [] OTHER -> <<>>

Masked(d, v, n, t) ==
    IF FitsImm(n) THEN <<Word("andi", d, v, n)>> ELSE <<LoadImm(t, n), Words("and", d, v, t)>>

ConstRem(d, v, c, t) ==
    CASE Abs(c) = 1 -> <<Move(d, 0)>>
      [] Abs(c) # 1 /\ IsPowerOfTwo(Abs(c)) /\ LogOf(Abs(c)) < W - 1 ->
            Biased(v, LogOf(Abs(c)), t) \o Masked(t + 3, t + 2, Abs(c) - 1, t + 4)
            \o <<Words("subw", d, t + 3, t + 1)>>
      [] MagicDiv(t, v, c, t + 1) # <<>> /\ ~IsPowerOfTwo(Abs(c)) ->
            MagicDiv(t, v, c, t + 1)
            \o <<LoadImm(t + 7, c), Words("mulw", t + 8, t, t + 7), Words("subw", d, v, t + 8)>>
      [] OTHER -> <<>>

NonNegativeConstRem(d, v, c, t) ==
    CASE Abs(c) = 1 -> <<Move(d, 0)>>
      [] Abs(c) = 2^(W - 1) -> <<Move(d, v)>>
      [] Abs(c) \notin {1, 2^(W - 1)} /\ IsPowerOfTwo(Abs(c)) -> Masked(d, v, Abs(c) - 1, t)
      [] OTHER -> <<>>

-----------------------------------------------------------------------------
(* The divisor of all the divisions of a loop, made ready in front of it   *)
(* (insert_divisor_reciprocal_setup), and what takes the place of each     *)
(* division (make_div_reciprocal_sequence).  All but the i32 values among  *)
(* these registers hold 2 * W bits.                                        *)

ReciprocalSetup(v, t) ==
    <<Word("addiw", t, v, 0), Word("srai", t + 1, t, W - 1), Words("xor", t + 2, t, t + 1),
      Words("sub", t + 3, t + 2, t + 1), LoadImm(t + 4, 2^W), Words("divu", t + 5, t + 4, t + 3),
      Word("seqz", t + 6, t, 0), Words("sub", t + 7, 0, t + 6), LoadImm(t + 8, -1)>>

(* r is where the setup put its first register.  The estimate of the       *)
(* quotient is at most one too small.                                      *)
ReciprocalDiv(d, v, r, t) ==
    <<Word("addiw", t, v, 0), Word("srai", t + 1, t, W - 1), Words("xor", t + 2, t, t + 1),
      Words("sub", t + 3, t + 2, t + 1), Words("mul", t + 4, t + 3, r + 5),
      Word("srli", t + 5, t + 4, W), Words("mul", t + 6, t + 5, r + 3),
      Words("sub", t + 7, t + 3, t + 6), Words("sltu", t + 8, t + 7, r + 3),
      Word("xori", t + 9, t + 8, 1), Words("add", t + 10, t + 5, t + 9),
      Words("xor", t + 11, t, r), Word("srai", t + 12, t + 11, W - 1),
      Words("xor", t + 13, t + 10, t + 12), Words("sub", t + 14, t + 13, t + 12),
      Words("addw", t + 15, t + 14, 0), Words("xor", t + 16, t + 15, r + 8),
      Words("and", t + 17, t + 16, r + 7), Words("xor", d, t + 15, t + 17)>>
=============================================================================
