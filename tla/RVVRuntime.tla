------------------------------ MODULE RVVRuntime -----------------------------
(***************************************************************************)
(* The runtime dispatch of a fat program: runtime/rvv_runtime.c and the    *)
(* entry stubs OIRFatMultiversionPass emits.  Each call of an exported     *)
(* function enters a stub, the stub asks __yoolang_rvv_available, and the  *)
(* answer picks the scalar or the RVV body.  The process-wide hardware     *)
(* verdict is cached in one atomic; vector control is a property of the    *)
(* calling thread and is queried on every call.  One action per access to  *)
(* something another thread or the kernel can change.                      *)
(***************************************************************************)
EXTENDS Integers

CONSTANTS Threads,      \* threads calling into the fat program
          MaxCalls      \* bound: dispatched calls per thread

ASSUME BoundAssumption == MaxCalls \in Nat

VARIABLES
  cache,      \* yoolang_rvv_hardware_cache
  hwcap,      \* what getauxval(AT_HWCAP) says in this process
  linked,     \* is the weak detector symbol present in the link?
  control,    \* control[t]: raw prctl(PR_RISCV_V_GET_CONTROL) of the thread
  pc,         \* pc[t]: where the call of thread t stands
  heard,      \* heard[t]: what the syscall answered to the probe of t (its result and pair)
  detected,   \* detected[t]: the local of hardware_available
  hardware,   \* hardware[t]: what hardware_available returned to this call
  answer,     \* answer[t]: what __yoolang_rvv_available returned
  body,       \* body[t]: the body the stub tail-called
  calls       \* calls[t]: calls made so far (bound only)

vars == <<cache, hwcap, linked, control, pc, heard, detected, hardware, answer, body, calls>>

UNKNOWN == -1
NO      == 0
YES     == 1
Verdicts == {NO, YES}

\* getauxval sets errno, or returns a word whose V bit is clear or set.
Hwcaps == {"error", "noV", "V"}
\* The syscall may be absent, fail (a per-thread seccomp filter can do that),
\* not know the key, or answer.
HwprobeResults == {"ENOSYS", "error", "unknown_key", "noV", "V"}
\* Two low bits: the thread's current state (1 OFF, 2 ON); the next two: what it
\* is after exec.  Negative: prctl failed.
Controls == {-1, 0, 1, 2, 6, 9}

ControlOn(c) == c >= 0 /\ c % 4 = 2

Locations == {"idle", "load", "auxval", "hwprobe", "cas", "control", "select", "body"}

TypeOK == /\ cache \in Verdicts \cup {UNKNOWN}
          /\ hwcap \in Hwcaps
          /\ linked \in BOOLEAN
          /\ control \in [Threads -> Controls]
          /\ pc \in [Threads -> Locations]
          /\ heard \in [Threads -> HwprobeResults \cup {"none"}]
          /\ detected \in [Threads -> Verdicts]
          /\ hardware \in [Threads -> Verdicts \cup {UNKNOWN}]
          /\ answer \in [Threads -> {0, 1}]
          /\ body \in [Threads -> {"none", "scalar", "vector"}]
          /\ calls \in [Threads -> 0 .. MaxCalls]

Init == /\ cache = UNKNOWN
        /\ hwcap \in Hwcaps
        /\ linked \in BOOLEAN
        /\ control \in [Threads -> Controls]
        /\ pc = [t \in Threads |-> "idle"]
        /\ heard = [t \in Threads |-> "none"]
        /\ detected = [t \in Threads |-> NO]
        /\ hardware = [t \in Threads |-> UNKNOWN]
        /\ answer = [t \in Threads |-> 0]
        /\ body = [t \in Threads |-> "none"]
        /\ calls = [t \in Threads |-> 0]

Goto(t, from, to) == pc[t] = from /\ pc' = [pc EXCEPT ![t] = to]

\* The thread may change its own vector control between two calls.
SetControl(t, c) ==
  /\ pc[t] = "idle"
  /\ control[t] # c
  /\ control' = [control EXCEPT ![t] = c]
  /\ UNCHANGED <<cache, hwcap, linked, pc, heard, detected, hardware, answer, body, calls>>

\* The stub: without the weak symbol, straight to the scalar body.
EnterUnlinked(t) ==
  /\ ~linked
  /\ calls[t] < MaxCalls
  /\ Goto(t, "idle", "body")
  /\ body' = [body EXCEPT ![t] = "scalar"]
  /\ calls' = [calls EXCEPT ![t] = @ + 1]
  /\ UNCHANGED <<cache, hwcap, linked, control, heard, detected, hardware, answer>>

EnterLinked(t) ==
  /\ linked
  /\ calls[t] < MaxCalls
  /\ Goto(t, "idle", "load")
  /\ calls' = [calls EXCEPT ![t] = @ + 1]
  /\ UNCHANGED <<cache, hwcap, linked, control, heard, detected, hardware, answer, body>>

\* hardware_available hands v back to __yoolang_rvv_available, which returns 0
\* at once or goes on to the control query.
ReturnHardware(t, from, v) ==
  /\ hardware' = [hardware EXCEPT ![t] = v]
  /\ answer' = [answer EXCEPT ![t] = 0]
  /\ Goto(t, from, IF v = NO THEN "select" ELSE "control")

LoadHit(t) ==
  /\ cache # UNKNOWN
  /\ ReturnHardware(t, "load", cache)
  /\ UNCHANGED <<cache, hwcap, linked, control, heard, detected, body, calls>>

LoadMiss(t) ==
  /\ cache = UNKNOWN
  /\ Goto(t, "load", "auxval")
  /\ UNCHANGED <<cache, hwcap, linked, control, heard, detected, hardware, answer, body, calls>>

\* probe_hardware up to the first return.
Auxval(t) ==
  /\ Goto(t, "auxval", IF hwcap = "error" THEN "cas" ELSE "hwprobe")
  /\ detected' = [detected EXCEPT ![t] = NO]
  /\ UNCHANGED <<cache, hwcap, linked, control, heard, hardware, answer, body, calls>>

\* Mutant: any failure of the syscall is taken for its absence.
ProbeVerdict_AnyFailure(r) ==
  IF hwcap = "V" /\ r # "noV" THEN YES ELSE NO

\* The verdict probe_hardware returns on the outcome r of the syscall.
ProbeVerdict(r) ==
  IF \/ r = "ENOSYS" /\ hwcap = "V"
     \/ r = "V" /\ hwcap = "V"
  THEN YES ELSE NO

Hwprobe(t, r) ==
  /\ Goto(t, "hwprobe", "cas")
  /\ heard' = [heard EXCEPT ![t] = r]
  /\ detected' = [detected EXCEPT ![t] = ProbeVerdict(r)]
  /\ UNCHANGED <<cache, hwcap, linked, control, hardware, answer, body, calls>>

\* Mutant: a probe that found no vector unit publishes nothing.
CasWin_PublishesYesOnly(t) ==
  /\ cache = UNKNOWN
  /\ cache' = IF detected[t] = YES THEN YES ELSE UNKNOWN
  /\ ReturnHardware(t, "cas", detected[t])
  /\ UNCHANGED <<hwcap, linked, control, heard, detected, body, calls>>

\* The strong compare-exchange: the winner publishes, a loser takes the
\* winner's value and drops its own.
CasWin(t) ==
  /\ cache = UNKNOWN
  /\ cache' = detected[t]
  /\ ReturnHardware(t, "cas", detected[t])
  /\ UNCHANGED <<hwcap, linked, control, heard, detected, body, calls>>

\* Mutant: the loser returns its own detection.
CasLose_ReturnsDetected(t) ==
  /\ cache # UNKNOWN
  /\ ReturnHardware(t, "cas", detected[t])
  /\ UNCHANGED <<cache, hwcap, linked, control, heard, detected, body, calls>>

CasLose(t) ==
  /\ cache # UNKNOWN
  /\ ReturnHardware(t, "cas", cache)
  /\ UNCHANGED <<cache, hwcap, linked, control, heard, detected, body, calls>>

\* Mutant: one thread's answer stands for all, the control word is not queried.
QueryControl_Skipped(t) ==
  /\ Goto(t, "control", "select")
  /\ answer' = [answer EXCEPT ![t] = 1]
  /\ UNCHANGED <<cache, hwcap, linked, control, heard, detected, hardware, body, calls>>

QueryControl(t) ==
  /\ Goto(t, "control", "select")
  /\ answer' = [answer EXCEPT ![t] = IF ControlOn(control[t]) THEN 1 ELSE 0]
  /\ UNCHANGED <<cache, hwcap, linked, control, heard, detected, hardware, body, calls>>

\* Back in the stub: restore the arguments and tail-call one body.
Select(t) ==
  /\ Goto(t, "select", "body")
  /\ body' = [body EXCEPT ![t] = IF answer[t] # 0 THEN "vector" ELSE "scalar"]
  /\ UNCHANGED <<cache, hwcap, linked, control, heard, detected, hardware, answer, calls>>

Return(t) ==
  /\ Goto(t, "body", "idle")
  /\ body' = [body EXCEPT ![t] = "none"]
  /\ hardware' = [hardware EXCEPT ![t] = UNKNOWN]
  /\ UNCHANGED <<cache, hwcap, linked, control, heard, detected, answer, calls>>

\* The steps of a call once it has been entered.
CallStep(t) ==
  \/ LoadHit(t) \/ LoadMiss(t) \/ Auxval(t)
  \/ \E r \in HwprobeResults : Hwprobe(t, r)
  \/ CasWin(t) \/ CasLose(t)
  \/ QueryControl(t) \/ Select(t) \/ Return(t)

Next == \E t \in Threads :
  \/ \E c \in Controls : SetControl(t, c)
  \/ EnterUnlinked(t) \/ EnterLinked(t)
  \/ CallStep(t)

Spec == Init /\ [][Next]_vars

\* The code has no wait: a thread that is scheduled makes progress.
FairSpec == Spec /\ \A t \in Threads : WF_vars(CallStep(t))

-----------------------------------------------------------------------------
(* Properties *)

\* Every caller that was handed a hardware verdict holds the published one, even
\* if its own probe saw something else: a loser of the race returns `expected`.
VerdictAgreement == \A t \in Threads : hardware[t] # UNKNOWN => hardware[t] = cache

\* The RVV body only runs in a thread whose vector state is on right now, in a
\* process whose verdict is YES, with the detector linked in ("a process-global
\* cache here would permit RVV in a disabled thread").
VectorBodyUsable ==
  \A t \in Threads : body[t] = "vector" => /\ linked
                                           /\ cache = YES
                                           /\ ControlOn(control[t])

\* The verdict the process acts on is the one the two sources warrant, however
\* they failed, contradicted each other or answered two threads differently: YES
\* only where hwcap names V and some prober heard the kernel confirm it or heard
\* that it has no such call; NO only where hwcap is silent or some prober's call
\* failed or denied it.
VerdictJustified ==
  /\ cache = YES => hwcap = "V" /\ \E t \in Threads : heard[t] \in {"ENOSYS", "V"}
  /\ cache = NO => \/ hwcap # "V"
                   \/ \E t \in Threads : heard[t] \in {"error", "unknown_key", "noV"}

\* The verdict, once published, survives every race of late probers.
VerdictFinal == [][cache # UNKNOWN => cache' = cache]_cache

\* Threads agree on one write-once verdict: the race implements WriteOnce.
Verdict == INSTANCE WriteOnce WITH Callers <- Threads, Values <- Verdicts,
             None <- UNKNOWN, cell <- cache, told <- hardware
ImplementsWriteOnce == Verdict!Spec

\* Every call that reaches the detector returns, and leaves a verdict behind: a
\* probe that fails publishes NO, or every later call would probe again.
EveryCallSettles == \A t \in Threads : pc[t] = "load" ~> pc[t] = "idle" /\ cache # UNKNOWN
=============================================================================
