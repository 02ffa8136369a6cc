-------------------------- MODULE RVVRuntimeProofs --------------------------
(***************************************************************************)
(* Proofs about the runtime dispatch, for any set of threads and any       *)
(* number of calls.                                                        *)
(***************************************************************************)
EXTENDS RVVRuntime, TLAPS

\* What the probe of t has in hand warrants the verdict it is about to publish.
Warranted(t) ==
  IF detected[t] = YES
  THEN hwcap = "V" /\ heard[t] \in {"ENOSYS", "V"}
  ELSE hwcap # "V" \/ heard[t] \in {"error", "unknown_key", "noV"}

\* What a thread at each location knows; a step of another thread never takes it
\* away, because the verdict is final and control belongs to its thread.  A thread
\* probes at most once: when it has heard an answer and passed the exchange there
\* is a verdict, so the evidence for that verdict is never overwritten.
ThreadInv(t) ==
  /\ pc[t] # "body" => body[t] = "none"
  /\ pc[t] \notin {"idle", "body"} => linked
  /\ pc[t] \in {"auxval", "hwprobe"} => heard[t] = "none"
  /\ pc[t] # "cas" /\ heard[t] # "none" => cache # UNKNOWN
  /\ pc[t] = "cas" => Warranted(t)
  /\ pc[t] = "control" => hardware[t] = YES
  /\ pc[t] = "select" /\ answer[t] # 0 => hardware[t] = YES /\ ControlOn(control[t])
  /\ body[t] = "vector" => linked /\ hardware[t] = YES /\ ControlOn(control[t])

IInv == /\ TypeOK
        /\ VerdictAgreement
        /\ VerdictJustified
        /\ \A t \in Threads : ThreadInv(t)

LEMMA InitIInv == Init => IInv
  BY BoundAssumption DEF Init, IInv, TypeOK, VerdictAgreement, VerdictJustified, ThreadInv,
       Verdicts, UNKNOWN, NO, YES, Locations, Controls, Hwcaps, HwprobeResults

\* Every step keeps the inductive invariant.
LEMMA StepIInv == IInv /\ [Next]_vars => IInv'
<1> SUFFICES ASSUME IInv, [Next]_vars PROVE IInv'
  OBVIOUS
<1> USE DEF IInv, TypeOK, VerdictAgreement, VerdictJustified, ThreadInv, Warranted, Verdicts, UNKNOWN, NO,
            YES, Locations, Hwcaps, HwprobeResults
<1>1. ASSUME NEW t \in Threads, NEW c \in Controls, SetControl(t, c) PROVE IInv'
  BY <1>1 DEF SetControl
<1>2. ASSUME NEW t \in Threads, EnterUnlinked(t) PROVE IInv'
  BY <1>2, BoundAssumption DEF EnterUnlinked, Goto
<1>3. ASSUME NEW t \in Threads, EnterLinked(t) PROVE IInv'
  BY <1>3, BoundAssumption DEF EnterLinked, Goto
<1>4. ASSUME NEW t \in Threads, LoadHit(t) PROVE IInv'
  BY <1>4 DEF LoadHit, ReturnHardware, Goto
<1>5. ASSUME NEW t \in Threads, LoadMiss(t) PROVE IInv'
  BY <1>5 DEF LoadMiss, Goto
<1>6. ASSUME NEW t \in Threads, Auxval(t) PROVE IInv'
  BY <1>6 DEF Auxval, Goto
<1>7. ASSUME NEW t \in Threads, NEW r \in HwprobeResults, Hwprobe(t, r) PROVE IInv'
  BY <1>7 DEF Hwprobe, ProbeVerdict, Goto
<1>8. ASSUME NEW t \in Threads, CasWin(t) PROVE IInv'
  BY <1>8 DEF CasWin, ReturnHardware, Goto
<1>9. ASSUME NEW t \in Threads, CasLose(t) PROVE IInv'
  BY <1>9 DEF CasLose, ReturnHardware, Goto
<1>10. ASSUME NEW t \in Threads, QueryControl(t) PROVE IInv'
  BY <1>10 DEF QueryControl, Goto
<1>11. ASSUME NEW t \in Threads, Select(t) PROVE IInv'
  BY <1>11 DEF Select, Goto
<1>12. ASSUME NEW t \in Threads, Return(t) PROVE IInv'
  BY <1>12 DEF Return, Goto
<1>13. CASE UNCHANGED vars
  BY <1>13 DEF vars
<1> QED
  BY <1>1, <1>2, <1>3, <1>4, <1>5, <1>6, <1>7, <1>8, <1>9, <1>10, <1>11, <1>12, <1>13
     DEF Next, CallStep

\* The inductive invariant holds throughout.
THEOREM Invariance == Spec => []IInv
  BY InitIInv, StepIInv, PTL DEF Spec

\* Types, for any set of threads and any bound on the calls.
THEOREM TypeCorrect == Spec => []TypeOK
  BY Invariance, PTL DEF IInv

\* No RVV body in a thread whose vector state is off, in a process without a YES
\* verdict, or without the detector: __yoolang_rvv_available and the stub.
THEOREM DispatchSafe == Spec => []VectorBodyUsable
<1>1. IInv => VectorBodyUsable
  BY DEF IInv, TypeOK, VerdictAgreement, ThreadInv, VectorBodyUsable, Verdicts, UNKNOWN, NO, YES
<1> QED
  BY Invariance, <1>1, PTL

\* However the sources fail or disagree, and whichever probers race, the published
\* verdict is the one hwcap and some prober's answer warrant.
THEOREM VerdictAlwaysJustified == Spec => []VerdictJustified
  BY Invariance, PTL DEF IInv

\* Once published the verdict is never overwritten.
THEOREM Final == Spec => VerdictFinal
<1>1. [Next]_vars => [cache # UNKNOWN => cache' = cache]_cache
  BY DEF Next, CallStep, vars, SetControl, EnterUnlinked, EnterLinked, LoadHit, LoadMiss,
         Auxval, Hwprobe, CasWin, CasLose, QueryControl, Select, Return
<1> QED
  BY <1>1, PTL DEF Spec, VerdictFinal

\* The race of probers implements one write-once verdict.
THEOREM Refinement == Spec => ImplementsWriteOnce
<1> USE DEF Verdict!vars, UNKNOWN, NO, YES, Verdicts
<1>1. Init => Verdict!Init
  BY DEF Init, Verdict!Init
<1>2. IInv /\ [Next]_vars => [Verdict!Next]_(Verdict!vars)
  <2> SUFFICES ASSUME IInv, [Next]_vars PROVE [Verdict!Next]_(Verdict!vars)
    OBVIOUS
  <2>1. ASSUME NEW t \in Threads, CasWin(t) PROVE Verdict!Decide(t, detected[t])
    BY <2>1 DEF IInv, TypeOK, CasWin, ReturnHardware, Verdict!Decide
  <2>2. ASSUME NEW t \in Threads, LoadHit(t) \/ CasLose(t) PROVE Verdict!Learn(t)
    BY <2>2 DEF LoadHit, CasLose, ReturnHardware, Verdict!Learn
  <2>3. ASSUME NEW t \in Threads, Return(t) PROVE Verdict!Forget(t)
    BY <2>3 DEF Return, Verdict!Forget
  <2>4. ASSUME NEW t \in Threads,
               \/ \E c \in Controls : SetControl(t, c)
               \/ EnterUnlinked(t) \/ EnterLinked(t) \/ LoadMiss(t) \/ Auxval(t)
               \/ \E r \in HwprobeResults : Hwprobe(t, r)
               \/ QueryControl(t) \/ Select(t)
        PROVE UNCHANGED Verdict!vars
    BY <2>4 DEF SetControl, EnterUnlinked, EnterLinked, LoadMiss, Auxval, Hwprobe,
                QueryControl, Select
  <2>5. CASE UNCHANGED vars
    BY <2>5 DEF vars
  <2>6. ASSUME NEW t \in Threads PROVE detected[t] \in Verdicts
    BY DEF IInv, TypeOK
  <2> QED
    BY <2>1, <2>2, <2>3, <2>4, <2>5, <2>6 DEF Next, CallStep, Verdict!Next
<1> QED
  BY <1>1, <1>2, Invariance, PTL DEF Spec, ImplementsWriteOnce, Verdict!Spec
=============================================================================
