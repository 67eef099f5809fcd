------------------------------- MODULE Judge -------------------------------
(***************************************************************************)
(* Judge::Run of judger/judge.cc: one execution of a submission on one     *)
(* test case.  The worker thread (pc) vforks a child, and either traces it *)
(* with ptrace (TraceLoop) or just waits for it (WaitExit).  The child and *)
(* the kernel are the other actors: they step between any two steps of the *)
(* worker.                                                                 *)
(*                                                                         *)
(* pc: "run"  about to call Run            "trace" in wait4 of TraceLoop   *)
(*     "regs" in PTRACE_GETREGS            "wait"  in wait4 of WaitExit    *)
(*     "kOk", "kError"  Run returned       "exit"  the process exited      *)
(***************************************************************************)
EXTENDS Protocol

CONSTANTS
  Syscalls,     \* system calls a program can make
  CallLimit,    \* those call_limit_ holds
  ExitCall,     \* exit_group
  Signals,      \* signals a program can raise or be sent
  TimeLimit,    \* time_limit
  MemoryLimit,  \* memory_limit
  MemoryAdd,    \* code type -> memory_add
  UintMod,      \* 2^32: the limits and what Results says was used are uint32_t
  MaxTime,      \* bound on the CPU time of the child
  MaxMemory     \* bound on the pages of the child, in memory units

ASSUME JudgeAssumption ==
  /\ CallLimit \subseteq Syscalls
  /\ ExitCall \in Syscalls
  /\ Signals \cap Syscalls = {}
  /\ {"none", "noexec"} \cap Syscalls = {}
  /\ {TimeLimit, MemoryLimit, MaxTime, MaxMemory} \subseteq Nat
  /\ UintMod \in Nat
  /\ MemoryAdd \in [CodeType -> 0..UintMod - 1]
  /\ {TimeLimit, MemoryLimit} \subseteq 0..UintMod - 1

VARIABLES
  pc,          \* where the worker thread is
  conf,        \* the ExecuteCondtion of the submission and its code type
  child,       \* state of the child process, as the kernel keeps it
  at,          \* the system call or signal the child is stopped or ended at
  usage,       \* the child's rusage: time, and ru_minflt in memory units
  in_syscall,  \* in_syscall of TraceLoop
  results,     \* results_ of the Judge object
  executed,    \* system calls the kernel carried out for the child
  tainted      \* a vforked child ran exit() in the memory of this process

judgeVars ==
  <<pc, conf, child, at, usage, in_syscall, results, executed, tainted>>

ChildState == {"none", "vforked", "running", "trap", "entry", "exit",
               "signal", "exited", "signaled", "reaped"}
Alive      == {"vforked", "running", "trap", "entry", "exit", "signal"}

\* struct ExecuteCondtion (time_limit, memory_limit and memory_add are the
\* constants above) and RunConfigure.code_type.
Configuration ==
  [trace : BOOLEAN, runer : {-1, 0, 1}, code_type : Constructible]

\* Results::Results().
NoResults == [judge_result |-> "kUKE", time_used |-> 0,
              memory_used |-> 0, signum_result |-> "-1"]

-----------------------------------------------------------------------------
\* Definitions marked "mutated" are slips the properties have to notice; no
\* specification uses them.
UsedInAll(add) == usage                                          \* mutated
UsedSigned(add) ==                                               \* mutated
  [time |-> usage.time % UintMod, memory |-> usage.memory - add]

\* What wait4 says the child used.  Milliseconds and pages are longs, of which
\* memory_add is subtracted from the pages; each is stored in a uint32_t.
Used(add) ==
  [time |-> usage.time % UintMod, memory |-> (usage.memory - add) % UintMod]

Add == MemoryAdd[conf.code_type]

TimeVerdict(u) == IF u.time > TimeLimit THEN "kTLE" ELSE "kAC"   \* mutated

\* The verdict on a child that exited, whatever its exit status.
LimitVerdict(u) ==
  IF u.time > TimeLimit THEN "kTLE"
  ELSE IF u.memory > MemoryLimit THEN "kMLE" ELSE "kAC"

\* The verdict on a child that a signal stopped or ended.
SignalVerdict(sig, u) ==
  CASE sig = "SIGSEGV" -> IF u.memory > MemoryLimit THEN "kMLE" ELSE "kRE"
    [] sig \in {"SIGALRM", "SIGXCPU"} -> "kTLE"
    [] OTHER -> "kRE"

\* Run returns rc; by then the child has been waited for.
Return(rc, verdict, sig, u) ==
  /\ pc' = rc
  /\ child' = "reaped"
  /\ results' = [judge_result |-> verdict, time_used |-> u.time,
                 memory_used |-> u.memory, signum_result |-> sig]

AnyCall(n) == TRUE                                               \* mutated

\* TraceLoop lets a call through: every call passes while in_syscall is
\* false, which is only the SIGTRAP of execve.
Permitted(n) == in_syscall => n \in CallLimit
-----------------------------------------------------------------------------
(* The worker thread.                                                      *)

Vfork ==
  /\ pc = "run"
  /\ pc' = IF conf.trace THEN "trace" ELSE "wait"
  /\ child' = "vforked"
  /\ at' = "none"
  /\ usage' = [time |-> 0, memory |-> 0]
  /\ in_syscall' = FALSE
  /\ results' = NoResults
  /\ executed' = {}
  /\ UNCHANGED <<conf, tainted>>

\* vfork returns -1: printError exits the process.
VforkFails ==
  /\ pc = "run"
  /\ pc' = "exit"
  /\ UNCHANGED <<conf, child, at, usage, in_syscall, results, executed, tainted>>

\* wait4 reports the exit of the child.
TraceExited ==
  /\ pc = "trace" /\ child = "exited"
  /\ LET u == Used(Add) IN Return("kOk", LimitVerdict(u), "-1", u)
  /\ UNCHANGED <<conf, at, usage, in_syscall, executed, tainted>>

TraceSignalStop ==                                               \* mutated
  /\ pc = "trace" /\ child = "signal" /\ at # "SIGTRAP"
  /\ LET u == Used(Add) IN Return("kError", SignalVerdict(at, u), at, u)
  /\ UNCHANGED <<conf, at, usage, in_syscall, executed, tainted>>

\* wait4 reports a signal stop, or a death by signal, whose WSTOPSIG is 0.
\* PTRACE_KILL and waitpid leave no child behind.
TraceSignal ==
  /\ pc = "trace"
  /\ \/ child = "signal" /\ at # "SIGTRAP"
     \/ child = "signaled"
  /\ LET u   == Used(Add)
         sig == IF child = "signal" THEN at ELSE "0"
     IN  Return("kError", SignalVerdict(sig, u), sig, u)
  /\ UNCHANGED <<conf, at, usage, in_syscall, executed, tainted>>

TraceEntryOnly ==                                                \* mutated
  /\ pc = "trace"
  /\ child \in {"trap", "entry"}
  /\ pc' = "regs"
  /\ UNCHANGED <<conf, child, at, usage, in_syscall, results, executed, tainted>>

\* wait4 reports a SIGTRAP: the one of execve, of a system call's entry or
\* exit, or one that the program raised itself.
TraceTrap ==
  /\ pc = "trace"
  /\ \/ child \in {"trap", "entry", "exit"}
     \/ child = "signal" /\ at = "SIGTRAP"
  /\ pc' = "regs"
  /\ UNCHANGED <<conf, child, at, usage, in_syscall, results, executed, tainted>>

RegsFailAny ==                                                   \* mutated
  /\ pc = "regs"
  /\ pc' = "exit"
  /\ UNCHANGED <<conf, child, at, usage, in_syscall, results, executed, tainted>>

\* The child died between wait4 and PTRACE_GETREGS, whose failure exits.
RegsFail ==
  /\ pc = "regs" /\ child = "signaled"
  /\ pc' = "exit"
  /\ UNCHANGED <<conf, child, at, usage, in_syscall, results, executed, tainted>>

\* A call outside call_limit_: the child is killed and waited for.
RejectCall ==
  /\ pc = "regs" /\ child # "signaled"
  /\ ~Permitted(at)
  /\ Return("kError", "kRE", "-1", Used(0))
  /\ UNCHANGED <<conf, at, usage, in_syscall, executed, tainted>>

\* PTRACE_SYSCALL: the child runs on to its next stop.
Resume ==
  /\ pc = "regs" /\ child # "signaled"
  /\ Permitted(at)
  /\ pc' = "trace"
  /\ in_syscall' = TRUE
  /\ executed' = IF child = "entry" THEN executed \cup {at} ELSE executed
  /\ child' = CASE child = "entry" /\ at = ExitCall -> "exited"
                [] child = "entry" /\ at # ExitCall -> "exit"
                [] OTHER                            -> "running"
  /\ UNCHANGED <<conf, at, usage, results, tainted>>

WaitAnyExit ==                                                   \* mutated
  /\ pc = "wait" /\ child \in {"exited", "signaled"}
  /\ LET u == Used(Add) IN Return("kOk", LimitVerdict(u), "-1", u)
  /\ UNCHANGED <<conf, at, usage, in_syscall, executed, tainted>>

\* Without trace, Run returns kOk even for a child that a signal ended.
WaitExit ==
  /\ pc = "wait" /\ child \in {"exited", "signaled"}
  /\ LET u == Used(Add)
     IN  IF child = "signaled"
         THEN Return("kOk", SignalVerdict(at, u), at, u)
         ELSE Return("kOk", LimitVerdict(u), "-1", u)
  /\ UNCHANGED <<conf, at, usage, in_syscall, executed, tainted>>

-----------------------------------------------------------------------------
(* The child and the kernel.                                               *)

\* SetIOEnv, setRunner, PTRACE_TRACEME and a successful execvp.
Exec ==
  /\ child = "vforked" /\ conf.runer # 0
  /\ child' = IF conf.trace THEN "trap" ELSE "running"
  /\ UNCHANGED <<pc, conf, at, usage, in_syscall, results, executed, tainted>>

\* runer is root, dup2 or execvp fails: printError calls exit() in the
\* memory the child shares with this process, whose static objects it
\* destroys.  wait4 sees an ordinary exit.
ExecFails ==
  /\ child = "vforked"
  /\ child' = "exited"
  /\ at' = "noexec"
  /\ tainted' = TRUE
  /\ UNCHANGED <<pc, conf, usage, in_syscall, results, executed>>

\* Undefined behaviour after the destruction of the static objects: the
\* process may go on, and may also die at any later step.
Crash ==
  /\ tainted
  /\ pc \notin {"done", "exit"}
  /\ pc' = "exit"
  /\ UNCHANGED <<conf, child, at, usage, in_syscall, results, executed, tainted>>

\* The program runs in user mode.  No resource limit is set on it
\* (SetResourceLimit is commented out), so it may run for ever.
Compute ==
  /\ child = "running"
  /\ \/ usage.time < MaxTime /\ usage' = [usage EXCEPT !.time = @ + 1]
     \/ usage.memory < MaxMemory /\ usage' = [usage EXCEPT !.memory = @ + 1]
  /\ UNCHANGED <<pc, conf, child, at, in_syscall, results, executed, tainted>>

\* The program makes system call n; a traced child stops at its entry.
Syscall(n) ==
  /\ child = "running"
  /\ at' = n
  /\ IF conf.trace
     THEN child' = "entry" /\ UNCHANGED executed
     ELSE /\ child' = IF n = ExitCall THEN "exited" ELSE "running"
          /\ executed' = executed \cup {n}
  /\ UNCHANGED <<pc, conf, usage, in_syscall, results, tainted>>

\* The program gets signal s, whose default action ends it.
Raise(s) ==
  /\ child = "running"
  /\ at' = s
  /\ child' = IF conf.trace /\ s # "SIGKILL" THEN "signal" ELSE "signaled"
  /\ UNCHANGED <<pc, conf, usage, in_syscall, results, executed, tainted>>

\* The kernel kills the child, stopped or not, when memory runs out.
OutOfMemory ==
  /\ child \in Alive \ {"vforked"}
  /\ "SIGKILL" \in Signals
  /\ at' = "SIGKILL"
  /\ child' = "signaled"
  /\ UNCHANGED <<pc, conf, usage, in_syscall, results, executed, tainted>>

-----------------------------------------------------------------------------
RunInit ==
  /\ pc = "run"
  /\ conf \in Configuration
  /\ child = "none"
  /\ at = "none"
  /\ usage = [time |-> 0, memory |-> 0]
  /\ in_syscall = FALSE
  /\ results = NoResults
  /\ executed = {}
  /\ tainted = FALSE

Tracer ==
  \/ Vfork \/ VforkFails
  \/ TraceExited \/ TraceSignal \/ TraceTrap \/ RegsFail \/ RejectCall
  \/ Resume \/ WaitExit

Program ==
  \/ Exec \/ ExecFails \/ Crash \/ Compute \/ OutOfMemory
  \/ \E n \in Syscalls : Syscall(n)
  \/ \E s \in Signals : Raise(s)

RunNext == Tracer \/ Program

RunSpec == RunInit /\ [][RunNext]_judgeVars

\* The operating system schedules the worker thread and starts the child.
RunFairness == WF_judgeVars(Tracer) /\ WF_judgeVars(Exec \/ ExecFails)

RunFairSpec == RunSpec /\ RunFairness

\* Assumption on the submission, not on the code: it does not run for ever.
RunTerminatingSpec == RunFairSpec /\ SF_judgeVars(Syscall(ExitCall))

-----------------------------------------------------------------------------
RunPc == {"run", "trace", "regs", "wait", "kOk", "kError", "exit"}

ResultsType ==
  [judge_result : JudgeResult, time_used : 0..UintMod - 1,
   memory_used : 0..UintMod - 1, signum_result : Signals \cup {"-1", "0"}]

\* The variables of one run, wherever the worker is.
RunTypeOK ==
  /\ conf \in Configuration
  /\ child \in ChildState
  /\ at \in Syscalls \cup Signals \cup {"none", "noexec"}
  /\ child \in {"signal", "signaled"} => at \in Signals
  /\ child \in {"entry", "exit"} => at \in Syscalls
  /\ usage \in [time : 0..MaxTime, memory : 0..MaxMemory]
  /\ in_syscall \in BOOLEAN
  /\ results \in ResultsType
  /\ executed \in SUBSET Syscalls
  /\ tainted \in BOOLEAN

\* Type invariant of a run on its own.
TypeOK == pc \in RunPc /\ RunTypeOK

Returned == pc \in {"kOk", "kError"}

\* The kernel carries out no call outside call_limit_ for a traced child:
\* TraceLoop sees every call at its entry, also the first after execve.
AllowedCallsOnly == conf.trace => executed \subseteq CallLimit

\* Run says kAC only of a child that exited, never of one that a signal, the
\* tracer or the kernel killed: through the exit_group of its program, or
\* through printError before its program, which wait4 does not tell from it.
AcceptedRunExited ==
  Returned /\ results.judge_result = "kAC"
    => /\ pc = "kOk"
       /\ ExitCall \in executed \/ (at = "noexec" /\ tainted)

\* Run says kAC only of a child within both limits, memory_add included, or
\* of one over them by so much that a uint32_t wraps: 2^32 milliseconds, or
\* 2^32 kilobytes above memory_add.  A smaller excess is never hidden, not by
\* the subtraction of memory_add either.
AcceptedRunWithinLimits ==
  Returned /\ results.judge_result = "kAC"
    => /\ usage.time <= TimeLimit \/ usage.time >= UintMod
       /\ usage.memory <= MemoryLimit + Add \/ usage.memory >= UintMod + Add

\* Run says kMLE only of a child over the limit, or of one that used less
\* than memory_add, for which the unsigned difference wraps round.
MemoryVerdict ==
  Returned /\ results.judge_result = "kMLE"
    => usage.memory > MemoryLimit + Add \/ usage.memory < Add

\* A run takes the process down only if vfork fails, if its child had called
\* exit() in the memory of the process, or if a SIGKILL ends the traced child
\* between the wait4 that reported its stop and PTRACE_GETREGS.
DownOnlyByKill ==
  pc = "exit" =>
    \/ child = "none" \/ tainted
    \/ (conf.trace /\ child = "signaled" /\ at = "SIGKILL")

\* Run comes back for a program that ends, or takes the process down.
RunReturns == pc = "run" ~> pc \in {"kOk", "kError", "exit"}
=============================================================================
