------------------------------ MODULE WriteOnce ------------------------------
(***************************************************************************)
(* What the process-wide hardware verdict of runtime/rvv_runtime.c         *)
(* promises its callers: one value is decided, at most once, and every     *)
(* caller that is told a value is told that one.  How it is found (a probe *)
(* per caller, a race on an atomic) is the business of RVVRuntime, which   *)
(* implements this module.                                                 *)
(***************************************************************************)
CONSTANTS Callers, Values, None

VARIABLES cell,     \* the decided value, or None
          told      \* told[c]: the value caller c was given, or None

vars == <<cell, told>>

TypeOK == /\ cell \in Values \cup {None}
          /\ told \in [Callers -> Values \cup {None}]

Init == /\ cell = None
        /\ told = [c \in Callers |-> None]

\* A caller decides the value and learns it in the same step.
Decide(c, v) == /\ cell = None
                /\ cell' = v
                /\ told' = [told EXCEPT ![c] = v]

Learn(c) == /\ cell # None
            /\ told' = [told EXCEPT ![c] = cell]
            /\ UNCHANGED cell

\* The caller's next call starts from nothing.
Forget(c) == /\ told' = [told EXCEPT ![c] = None]
             /\ UNCHANGED cell

Next == \E c \in Callers : \/ \E v \in Values : Decide(c, v)
                           \/ Learn(c)
                           \/ Forget(c)

Spec == Init /\ [][Next]_vars
=============================================================================
