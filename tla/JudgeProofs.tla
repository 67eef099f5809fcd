---------------------------- MODULE JudgeProofs ----------------------------
(***************************************************************************)
(* Proofs about one execution of a submission (module Judge), for all      *)
(* values of its constants: the type invariant, and that the verdict and   *)
(* the calls carried out are those the limits of the submission allow.     *)
(***************************************************************************)
EXTENDS Judge, TLAPS

(* What storing a long difference in a uint32_t keeps.                      *)
LEMMA UnsignedDifference ==
  ASSUME NEW a \in Nat, NEW b \in Nat, NEW m \in Nat, m > 0
  PROVE  /\ (a - b) % m \in 0..m - 1
         /\ a >= b /\ a - b < m => (a - b) % m = a - b
         /\ a >= b => (a - b) % m <= a - b
OBVIOUS

LEMMA AddType ==
  ASSUME RunTypeOK
  PROVE  Add \in Nat
BY JudgeAssumption DEF RunTypeOK, Configuration, Constructible, CodeType, Add

LEMMA UsedType ==
  ASSUME RunTypeOK, NEW add \in Nat
  PROVE  Used(add) \in [time : 0..UintMod - 1, memory : 0..UintMod - 1]
<1>1. usage.time \in Nat /\ usage.memory \in Nat
  BY JudgeAssumption DEF RunTypeOK
<1>2. UintMod \in Nat /\ UintMod > 0 BY JudgeAssumption
<1>3. (usage.memory - add) % UintMod \in 0..UintMod - 1
  BY <1>1, <1>2, UnsignedDifference
<1>4. usage.time % UintMod \in 0..UintMod - 1 BY <1>1, <1>2
<1> QED BY <1>3, <1>4 DEF Used

LEMMA VerdictType ==
  ASSUME NEW sig, NEW u
  PROVE  /\ LimitVerdict(u) \in JudgeResult
         /\ SignalVerdict(sig, u) \in JudgeResult \ {"kAC"}
BY DEF LimitVerdict, SignalVerdict, JudgeResult

LEMMA InitialTypes ==
  /\ NoResults \in ResultsType
  /\ 0 \in 0..MaxTime /\ 0 \in 0..MaxMemory
<1>1. MemoryLimit \in Nat /\ MaxTime \in Nat /\ MaxMemory \in Nat
      /\ UintMod \in Nat /\ UintMod > MemoryLimit
  BY JudgeAssumption
<1>2. 0 \in 0..MaxTime /\ 0 \in 0..MaxMemory /\ 0 \in 0..UintMod - 1
  BY <1>1
<1> QED BY <1>2 DEF NoResults, ResultsType, JudgeResult

(* What Run stores when it returns has the type of Results.                 *)
LEMMA ReturnType ==
  ASSUME RunTypeOK, NEW rc, NEW verdict \in JudgeResult,
         NEW sig \in Signals \cup {"-1", "0"}, NEW add \in Nat,
         Return(rc, verdict, sig, Used(add))
  PROVE  results' \in ResultsType /\ child' \in ChildState
         /\ child' \notin {"signal", "signaled", "entry", "exit"}
<1>1. /\ Used(add).time \in 0..UintMod - 1
      /\ Used(add).memory \in 0..UintMod - 1
  BY UsedType
<1> QED BY <1>1 DEF Return, ResultsType, ChildState

(* Every step of the worker, the child or the kernel keeps the types; the   *)
(* lemma does not say where the worker is, so that module Judger can use it.*)
LEMMA RunTypeStep ==
  ASSUME RunTypeOK, RunNext
  PROVE  RunTypeOK'
<1>1. ASSUME Tracer PROVE RunTypeOK'
  <2>1. CASE Vfork
    BY <2>1, InitialTypes DEF Vfork, RunTypeOK, ChildState
  <2>2. CASE VforkFails BY <2>2 DEF VforkFails, RunTypeOK
  <2>3. CASE TraceExited
    BY <2>3, ReturnType, VerdictType, AddType DEF TraceExited, RunTypeOK
  <2>4. CASE TraceSignal
    <3> DEFINE sig == IF child = "signal" THEN at ELSE "0"
    <3>1. sig \in Signals \cup {"-1", "0"} BY DEF RunTypeOK
    <3>2. Return("kError", SignalVerdict(sig, Used(Add)), sig, Used(Add))
      BY <2>4 DEF TraceSignal
    <3> HIDE DEF sig
    <3> QED BY <2>4, <3>1, <3>2, ReturnType, VerdictType, AddType
            DEF TraceSignal, RunTypeOK
  <2>5. CASE TraceTrap BY <2>5 DEF TraceTrap, RunTypeOK
  <2>6. CASE RegsFail BY <2>6 DEF RegsFail, RunTypeOK
  <2>7. CASE RejectCall
    BY <2>7, ReturnType DEF RejectCall, RunTypeOK, JudgeResult
  <2>8. CASE Resume BY <2>8 DEF Resume, RunTypeOK, ChildState
  <2>9. CASE WaitExit
    <3>1. CASE child = "signaled"
      BY <2>9, <3>1, ReturnType, VerdictType, AddType DEF WaitExit, RunTypeOK
    <3>2. CASE child # "signaled"
      BY <2>9, <3>2, ReturnType, VerdictType, AddType DEF WaitExit, RunTypeOK
    <3> QED BY <3>1, <3>2
  <2> QED
    BY <1>1, <2>1, <2>2, <2>3, <2>4, <2>5, <2>6, <2>7, <2>8, <2>9 DEF Tracer
<1>2. ASSUME Program PROVE RunTypeOK'
  <2>1. CASE Exec BY <2>1 DEF Exec, RunTypeOK, ChildState
  <2>2. CASE ExecFails BY <2>2 DEF ExecFails, RunTypeOK, ChildState
  <2>3. CASE Crash BY <2>3 DEF Crash, RunTypeOK
  <2>4. CASE Compute
    BY <2>4, JudgeAssumption DEF Compute, RunTypeOK, ChildState
  <2>5. CASE OutOfMemory BY <2>5 DEF OutOfMemory, RunTypeOK, ChildState
  <2>6. ASSUME NEW n \in Syscalls, Syscall(n) PROVE RunTypeOK'
    BY <2>6, JudgeAssumption DEF Syscall, RunTypeOK, ChildState
  <2>7. ASSUME NEW s \in Signals, Raise(s) PROVE RunTypeOK'
    BY <2>7 DEF Raise, RunTypeOK, ChildState
  <2> QED BY <1>2, <2>1, <2>2, <2>3, <2>4, <2>5, <2>6, <2>7 DEF Program
<1> QED BY <1>1, <1>2 DEF RunNext

LEMMA PcStep ==
  ASSUME pc \in RunPc, RunNext
  PROVE  pc' \in RunPc
BY DEF RunPc, RunNext, Tracer, Program, Vfork, VforkFails, TraceExited,
       TraceSignal, TraceTrap, RegsFail, RejectCall, Resume, WaitExit, Return,
       Exec, ExecFails, Crash, Compute, OutOfMemory, Syscall, Raise

LEMMA RunInitTyped == RunInit => TypeOK
<1>1. RunInit => usage \in [time : 0..MaxTime, memory : 0..MaxMemory]
  BY InitialTypes DEF RunInit
<1> QED BY <1>1, InitialTypes DEF RunInit, TypeOK, RunTypeOK, RunPc, ChildState

(* The type invariant of one run.                                           *)
THEOREM TypeCorrect == RunSpec => []TypeOK
<1>1. RunInit => TypeOK
  BY RunInitTyped
<1>2. TypeOK /\ [RunNext]_judgeVars => TypeOK'
  <2> SUFFICES ASSUME TypeOK, [RunNext]_judgeVars PROVE TypeOK'
    OBVIOUS
  <2>1. CASE RunNext BY <2>1, RunTypeStep, PcStep DEF TypeOK
  <2>2. CASE UNCHANGED judgeVars BY <2>2 DEF judgeVars, TypeOK, RunTypeOK
  <2> QED BY <2>1, <2>2
<1> QED BY <1>1, <1>2, PTL DEF RunSpec

-----------------------------------------------------------------------------
(* What the tracer knows of a traced child: until it has seen the SIGTRAP   *)
(* of execve the program has not run, so no entry of a call escapes it.     *)
CallsInv ==
  conf.trace =>
    /\ executed \subseteq CallLimit
    /\ ~in_syscall =>
         child \in {"none", "vforked", "trap", "exited", "signaled", "reaped"}

LEMMA CallsStep ==
  ASSUME RunTypeOK, CallsInv, RunNext
  PROVE  CallsInv'
<1>1. ASSUME Tracer PROVE CallsInv'
  <2>1. CASE Vfork BY <2>1 DEF Vfork, CallsInv
  <2>2. CASE VforkFails BY <2>2 DEF VforkFails, CallsInv
  <2>3. CASE TraceExited BY <2>3 DEF TraceExited, Return, CallsInv
  <2>4. CASE TraceSignal BY <2>4 DEF TraceSignal, Return, CallsInv
  <2>5. CASE TraceTrap BY <2>5 DEF TraceTrap, CallsInv
  <2>6. CASE RegsFail BY <2>6 DEF RegsFail, CallsInv
  <2>7. CASE RejectCall BY <2>7 DEF RejectCall, Return, CallsInv
  <2>8. CASE Resume
    <3>1. in_syscall' = TRUE /\ UNCHANGED conf BY <2>8 DEF Resume
    <3>2. conf.trace => executed' \subseteq CallLimit
      <4>1. CASE child = "entry"
        <5>1. conf.trace => in_syscall
          BY <4>1 DEF CallsInv, RunTypeOK
        <5>2. conf.trace => at \in CallLimit
          BY <5>1, <2>8 DEF Resume, Permitted
        <5> QED BY <5>2, <4>1, <2>8 DEF Resume, CallsInv
      <4>2. CASE child # "entry" BY <4>2, <2>8 DEF Resume, CallsInv
      <4> QED BY <4>1, <4>2
    <3> QED BY <3>1, <3>2 DEF CallsInv
  <2>9. CASE WaitExit
    <3>1. child' = "reaped" /\ UNCHANGED <<conf, in_syscall, executed>>
      BY <2>9 DEF WaitExit, Return
    <3> QED BY <3>1 DEF CallsInv
  <2> QED
    BY <1>1, <2>1, <2>2, <2>3, <2>4, <2>5, <2>6, <2>7, <2>8, <2>9 DEF Tracer
<1>2. ASSUME Program PROVE CallsInv'
  <2>1. CASE Exec BY <2>1 DEF Exec, CallsInv
  <2>2. CASE ExecFails BY <2>2 DEF ExecFails, CallsInv
  <2>3. CASE Crash BY <2>3 DEF Crash, CallsInv
  <2>4. CASE Compute BY <2>4 DEF Compute, CallsInv
  <2>5. CASE OutOfMemory BY <2>5 DEF OutOfMemory, CallsInv
  <2>6. ASSUME NEW n \in Syscalls, Syscall(n) PROVE CallsInv'
    BY <2>6 DEF Syscall, CallsInv
  <2>7. ASSUME NEW s \in Signals, Raise(s) PROVE CallsInv'
    BY <2>7 DEF Raise, CallsInv
  <2> QED BY <1>2, <2>1, <2>2, <2>3, <2>4, <2>5, <2>6, <2>7 DEF Program
<1> QED BY <1>1, <1>2 DEF RunNext

(* No traced run ever gets a call outside call_limit_ carried out.          *)
THEOREM CallsAllowed == RunSpec => []AllowedCallsOnly
<1>1. RunInit => TypeOK /\ CallsInv
  BY InitialTypes, RunInitTyped DEF RunInit, CallsInv
<1>2. TypeOK /\ CallsInv /\ [RunNext]_judgeVars => CallsInv'
  <2>1. TypeOK /\ CallsInv /\ RunNext => CallsInv'
    BY CallsStep DEF TypeOK
  <2>2. CallsInv /\ UNCHANGED judgeVars => CallsInv'
    BY DEF judgeVars, CallsInv
  <2> QED BY <2>1, <2>2
<1>3. CallsInv => AllowedCallsOnly BY DEF CallsInv, AllowedCallsOnly
<1> QED BY <1>1, <1>2, <1>3, TypeCorrect, PTL DEF RunSpec

-----------------------------------------------------------------------------
(* A child that is reported as exited did so through exit_group, or never   *)
(* reached its program; after Run returned nothing of the child is left     *)
(* that could still move the counters its verdict was taken from.  kOk with *)
(* kRE is what Run returns for an untraced child that a signal ended.       *)
VerdictInv ==
  /\ child = "exited" => ExitCall \in executed \/ (at = "noexec" /\ tainted)
  /\ Returned => child = "reaped"
  /\ conf.trace => /\ pc # "wait"
                   /\ pc = "kOk" => results.judge_result # "kRE"
  /\ AcceptedRunExited
  /\ AcceptedRunWithinLimits

(* The verdict kAC on an ordinary exit is only given within the limits, or  *)
(* where a uint32_t wraps.                                                  *)
LEMMA AcceptedLimits ==
  ASSUME RunTypeOK, LimitVerdict(Used(Add)) = "kAC"
  PROVE  /\ usage.time <= TimeLimit \/ usage.time >= UintMod
         /\ usage.memory <= MemoryLimit + Add \/ usage.memory >= UintMod + Add
<1> DEFINE m == usage.memory
           t == usage.time
<1>1. /\ m \in Nat /\ t \in Nat /\ UintMod \in Nat /\ UintMod > 0
      /\ MemoryLimit \in Nat /\ TimeLimit \in Nat /\ Add \in Nat
  BY JudgeAssumption, AddType DEF RunTypeOK
<1>2. ~(t % UintMod > TimeLimit) /\ ~((m - Add) % UintMod > MemoryLimit)
  BY DEF LimitVerdict, Used
<1> HIDE DEF m, t
<1>3. t < UintMod => t % UintMod = t BY <1>1
<1>4. m >= Add /\ m - Add < UintMod => (m - Add) % UintMod = m - Add
  BY <1>1, UnsignedDifference
<1>5. t <= TimeLimit \/ t >= UintMod BY <1>1, <1>2, <1>3
<1>6. m <= MemoryLimit + Add \/ m >= UintMod + Add BY <1>1, <1>2, <1>4
<1> QED BY <1>5, <1>6 DEF m, t

(* Run returns the verdict of LimitVerdict on an exited child.              *)
LEMMA ExitedReturn ==
  ASSUME RunTypeOK, VerdictInv, child = "exited",
         Return("kOk", LimitVerdict(Used(Add)), "-1", Used(Add)),
         UNCHANGED <<conf, at, usage, executed, tainted>>
  PROVE  VerdictInv'
<1>1. results'.judge_result = LimitVerdict(Used(Add)) /\ child' = "reaped"
      /\ pc' = "kOk" /\ Add' = Add
      /\ results'.judge_result # "kRE"
  BY DEF Return, Add, LimitVerdict
<1>2. AcceptedRunExited' BY <1>1 DEF VerdictInv, AcceptedRunExited, Returned
<1>3. AcceptedRunWithinLimits'
  BY <1>1, AcceptedLimits DEF AcceptedRunWithinLimits, Returned
<1> QED BY <1>1, <1>2, <1>3 DEF VerdictInv, Returned

(* A verdict other than kAC needs no more than that the child is gone.      *)
LEMMA OtherReturn ==
  ASSUME NEW rc, NEW verdict, NEW sig, NEW u, verdict # "kAC",
         Return(rc, verdict, sig, u), rc = "kError" \/ (rc = "kOk" /\ ~conf'.trace)
  PROVE  VerdictInv'
BY DEF Return, VerdictInv, Returned, AcceptedRunExited, AcceptedRunWithinLimits

LEMMA VerdictStep ==
  ASSUME RunTypeOK, VerdictInv, RunNext
  PROVE  VerdictInv'
<1> USE DEF Returned
<1>1. ASSUME Tracer PROVE VerdictInv'
  <2>1. CASE Vfork
    BY <2>1 DEF Vfork, VerdictInv, AcceptedRunExited, AcceptedRunWithinLimits
  <2>2. CASE VforkFails
    BY <2>2 DEF VforkFails, VerdictInv, AcceptedRunExited, AcceptedRunWithinLimits
  <2>3. CASE TraceExited BY <2>3, ExitedReturn DEF TraceExited
  <2>4. CASE TraceSignal
    <3>1. PICK sig : Return("kError", SignalVerdict(sig, Used(Add)), sig, Used(Add))
      BY <2>4 DEF TraceSignal
    <3> QED BY <3>1, VerdictType, OtherReturn
  <2>5. CASE TraceTrap
    BY <2>5 DEF TraceTrap, VerdictInv, AcceptedRunExited, AcceptedRunWithinLimits
  <2>6. CASE RegsFail
    BY <2>6 DEF RegsFail, VerdictInv, AcceptedRunExited, AcceptedRunWithinLimits
  <2>7. CASE RejectCall BY <2>7, OtherReturn DEF RejectCall
  <2>8. CASE Resume
    BY <2>8 DEF Resume, VerdictInv, AcceptedRunExited, AcceptedRunWithinLimits
  <2>9. CASE WaitExit
    <3>1. CASE child = "signaled"
      BY <2>9, <3>1, VerdictType, OtherReturn DEF WaitExit, VerdictInv
    <3>2. CASE child = "exited" BY <2>9, <3>2, ExitedReturn DEF WaitExit
    <3> QED BY <2>9, <3>1, <3>2 DEF WaitExit
  <2> QED
    BY <1>1, <2>1, <2>2, <2>3, <2>4, <2>5, <2>6, <2>7, <2>8, <2>9 DEF Tracer
<1>2. ASSUME Program, ~Crash PROVE VerdictInv'
  <2>1. child # "reaped" /\ UNCHANGED <<pc, conf>>
    BY <1>2 DEF Program, Exec, ExecFails, Compute, Syscall, Raise, OutOfMemory,
                Alive
  <2>2. ~Returned /\ ~Returned' BY <2>1 DEF VerdictInv
  <2>3. child' = "exited" =>
          ExitCall \in executed' \/ (at' = "noexec" /\ tainted')
    BY <1>2 DEF Program, Exec, ExecFails, Compute, Syscall, Raise, OutOfMemory,
                VerdictInv
  <2> QED BY <2>1, <2>2, <2>3
          DEF VerdictInv, AcceptedRunExited, AcceptedRunWithinLimits
<1>3. CASE Crash
  BY <1>3 DEF Crash, VerdictInv, AcceptedRunExited, AcceptedRunWithinLimits
<1> QED BY <1>1, <1>2, <1>3 DEF RunNext

LEMMA Verdicts == RunSpec => [](TypeOK /\ VerdictInv)
<1>1. RunInit => VerdictInv
  BY DEF RunInit, VerdictInv, Returned, AcceptedRunExited,
         AcceptedRunWithinLimits
<1>2. TypeOK /\ VerdictInv /\ [RunNext]_judgeVars => VerdictInv'
  <2>1. TypeOK /\ VerdictInv /\ RunNext => VerdictInv'
    BY VerdictStep DEF TypeOK
  <2>2. VerdictInv /\ UNCHANGED judgeVars => VerdictInv'
    BY DEF judgeVars, VerdictInv, Returned, AcceptedRunExited,
           AcceptedRunWithinLimits, Add
  <2> QED BY <2>1, <2>2
<1> QED BY <1>1, <1>2, TypeCorrect, PTL DEF RunSpec

(* kAC is only said of a run within both limits, memory_add included, or of *)
(* one that used 2^32 milliseconds or 2^32 kilobytes above memory_add.      *)
THEOREM AcceptanceSound == RunSpec => []AcceptedRunWithinLimits
<1>1. VerdictInv => AcceptedRunWithinLimits BY DEF VerdictInv
<1> QED BY <1>1, Verdicts, PTL

(* kAC is only said of a child that exited, from its program or, through    *)
(* printError, before it: one that a signal stopped or ended, or whose call *)
(* was refused, gets another verdict.                                       *)
THEOREM AcceptedRunsExited == RunSpec => []AcceptedRunExited
<1>1. VerdictInv => AcceptedRunExited BY DEF VerdictInv
<1> QED BY <1>1, Verdicts, PTL

-----------------------------------------------------------------------------
(* A difference over the limit is one of a child over it, or has wrapped.   *)
LEMMA OverLimit ==
  ASSUME RunTypeOK, Used(Add).memory > MemoryLimit
  PROVE  usage.memory > MemoryLimit + Add \/ usage.memory < Add
<1> DEFINE m == usage.memory
<1>1. /\ m \in Nat /\ UintMod \in Nat /\ UintMod > 0
      /\ MemoryLimit \in Nat /\ Add \in Nat
  BY JudgeAssumption, AddType DEF RunTypeOK
<1>2. (m - Add) % UintMod > MemoryLimit BY DEF Used
<1> HIDE DEF m
<1>5. (m - Add) % UintMod \in Int BY <1>1, UnsignedDifference
<1>3. m >= Add => m - Add > MemoryLimit
  BY <1>1, <1>2, <1>5, UnsignedDifference
<1>4. m > MemoryLimit + Add \/ m < Add BY <1>1, <1>3
<1> QED BY <1>4 DEF m

LEMMA MemoryStep ==
  ASSUME RunTypeOK, VerdictInv, MemoryVerdict, [RunNext]_judgeVars
  PROVE  MemoryVerdict'
<1>1. ASSUME NEW rc, NEW verdict, NEW sig, NEW u,
             Return(rc, verdict, sig, u), UNCHANGED <<conf, usage>>,
             verdict = "kMLE" => u = Used(Add) /\ u.memory > MemoryLimit
      PROVE  MemoryVerdict'
  <2>1. results'.judge_result = verdict /\ Add' = Add
    BY <1>1 DEF Return, Add
  <2> QED BY <1>1, <2>1, OverLimit DEF MemoryVerdict
<1>2. \A u, sig : /\ LimitVerdict(u) = "kMLE" => u.memory > MemoryLimit
                  /\ SignalVerdict(sig, u) = "kMLE" => u.memory > MemoryLimit
  BY DEF LimitVerdict, SignalVerdict
<1>3. CASE TraceExited BY <1>1, <1>2, <1>3 DEF TraceExited
<1>4. CASE TraceSignal BY <1>1, <1>2, <1>4 DEF TraceSignal
<1>5. CASE WaitExit
  <2>1. CASE child = "signaled" BY <1>1, <1>2, <1>5, <2>1 DEF WaitExit
  <2>2. CASE child # "signaled" BY <1>1, <1>2, <1>5, <2>2 DEF WaitExit
  <2> QED BY <2>1, <2>2
<1>6. CASE RejectCall
  <2>1. Return("kError", "kRE", "-1", Used(0)) /\ UNCHANGED <<conf, usage>>
    BY <1>6 DEF RejectCall
  <2> QED BY <1>1, <2>1
<1>7. CASE Vfork \/ VforkFails \/ TraceTrap \/ RegsFail \/ Resume \/ Crash
  BY <1>7 DEF Vfork, VforkFails, TraceTrap, RegsFail, Resume, Crash,
              MemoryVerdict, Returned
<1>8. CASE Program /\ ~Crash
  <2>1. child # "reaped" /\ pc' = pc
    BY <1>8 DEF Program, Exec, ExecFails, Compute, Syscall, Raise, OutOfMemory,
                Alive
  <2> QED BY <2>1 DEF VerdictInv, MemoryVerdict, Returned
<1>9. CASE UNCHANGED judgeVars
  BY <1>9 DEF judgeVars, MemoryVerdict, Returned, Add
<1> QED
  BY <1>3, <1>4, <1>5, <1>6, <1>7, <1>8, <1>9 DEF RunNext, Tracer

(* kMLE is only said of a child over the limit, or of one that used less    *)
(* than memory_add, for which the uint32_t wraps round.                     *)
THEOREM MemoryVerdicts == RunSpec => []MemoryVerdict
<1>1. RunInit => MemoryVerdict BY DEF RunInit, MemoryVerdict, Returned
<1>2. TypeOK /\ VerdictInv /\ MemoryVerdict /\ [RunNext]_judgeVars
        => MemoryVerdict'
  BY MemoryStep DEF TypeOK
<1> QED BY <1>1, <1>2, Verdicts, PTL DEF RunSpec

-----------------------------------------------------------------------------
(* Who can end the process, and how a traced child can have been killed.    *)
DownInv ==
  /\ pc = "run" => child = "none"
  /\ conf.trace /\ child = "signaled" => at = "SIGKILL"
  /\ pc = "regs" => conf.trace
  /\ pc = "trace" => conf.trace
  /\ DownOnlyByKill

LEMMA DownStep ==
  ASSUME DownInv, [RunNext]_judgeVars
  PROVE  DownInv'
<1> USE DEF DownInv, DownOnlyByKill
<1>1. CASE Vfork \/ VforkFails BY <1>1 DEF Vfork, VforkFails
<1>2. CASE TraceExited BY <1>2 DEF TraceExited, Return
<1>3. CASE TraceSignal BY <1>3 DEF TraceSignal, Return
<1>4. CASE TraceTrap \/ RegsFail BY <1>4 DEF TraceTrap, RegsFail
<1>5. CASE RejectCall BY <1>5 DEF RejectCall, Return
<1>6. CASE Resume BY <1>6 DEF Resume
<1>7. CASE WaitExit
  <2>1. pc' = "kOk" /\ child' = "reaped" /\ UNCHANGED <<conf, tainted>>
    BY <1>7 DEF WaitExit, Return
  <2> QED BY <2>1
<1>8. CASE Exec \/ ExecFails \/ Crash \/ Compute \/ OutOfMemory
  BY <1>8 DEF Exec, ExecFails, Crash, Compute, OutOfMemory, Alive
<1>9. ASSUME NEW n \in Syscalls, Syscall(n) PROVE DownInv'
  BY <1>9 DEF Syscall
<1>10. ASSUME NEW s \in Signals, Raise(s) PROVE DownInv'
  BY <1>10 DEF Raise
<1>11. CASE UNCHANGED judgeVars BY <1>11 DEF judgeVars
<1> QED
  BY <1>1, <1>2, <1>3, <1>4, <1>5, <1>6, <1>7, <1>8, <1>9, <1>10, <1>11
     DEF RunNext, Tracer, Program

(* A run ends the process only where vfork failed, after its child called   *)
(* exit() in the memory they shared, or where a SIGKILL hit a stopped child *)
(* before PTRACE_GETREGS.                                                   *)
THEOREM ProcessEnds == RunSpec => []DownOnlyByKill
<1>1. RunInit => DownInv BY DEF RunInit, DownInv, DownOnlyByKill
<1>2. DownInv /\ [RunNext]_judgeVars => DownInv' BY DownStep
<1>3. DownInv => DownOnlyByKill BY DEF DownInv
<1> QED BY <1>1, <1>2, <1>3, PTL DEF RunSpec
=============================================================================
