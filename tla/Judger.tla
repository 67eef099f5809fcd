------------------------------- MODULE Judger -------------------------------
(***************************************************************************)
(* The judging of one submission: JudgeWorker::processTask from compile()  *)
(* on (judgeworker.cc), with Judger::execute (judger.cc) for every test    *)
(* case.  Each test is one Judge::Run, whose steps are those of module     *)
(* Judge; what is added is when a run starts and what becomes of its       *)
(* results and of the child's output.                                      *)
(*                                                                         *)
(* pc has besides the values of module Judge:                              *)
(*   "compile"  in Judger::compile     "next"  at the head of the loop     *)
(*   "finish"   before cleanEnv        "done"  processTask returned true   *)
(***************************************************************************)
EXTENDS Judge, Sequences

CONSTANT RunTimes   \* run_times of the submission

ASSUME JudgerAssumption == RunTimes \in Nat

VARIABLES
  num,    \* the loop's counter: test cases passed
  final,  \* results_ of the Judger, which the client gets
  runs    \* the tests run, in order: what Run said, how outputs compared,
          \* and whether the child reached its program

judgerVars == <<pc, conf, child, at, usage, in_syscall, results, executed,
                tainted, num, final, runs>>

taskVars == <<num, final, runs>>
runVars  == <<conf, child, at, usage, in_syscall, results, executed, tainted>>

-----------------------------------------------------------------------------
\* Judger::compile with its output in error_info.  Ruby has no compile.
Compile ==
  /\ pc = "compile"
  /\ \/ pc' = "next" /\ UNCHANGED final
     \/ /\ conf.code_type # "kTypeRuby"
        /\ pc' = "finish"
        /\ \E verdict \in {"kCE", "kSE"} :
             final' = [final EXCEPT !.judge_result = verdict]
  /\ UNCHANGED <<runVars, num, runs>>

\* getFileno opens the three files of test num, execute calls Run.
NextTest ==
  /\ pc = "next" /\ num # RunTimes
  /\ pc' = "run"
  /\ UNCHANGED <<runVars, taskVars>>

AllTested ==
  /\ pc = "next" /\ num = RunTimes
  /\ pc' = "finish"
  /\ UNCHANGED <<runVars, taskVars>>

\* A file of the test, or the work directory, cannot be opened: File and
\* removeDir call printError, and the process is gone.
FileError ==
  /\ \/ pc = "next" /\ num # RunTimes
     \/ pc = "finish"
  /\ pc' = "exit"
  /\ UNCHANGED <<runVars, taskVars>>

\* The ways the child's output can compare.  That of a child which did not
\* reach its program holds at most the log lines its exit() flushed.
PossibleOut(out) ==
  at = "noexec" => out \in {"differs", "toolong", "empty"}

\* What a test leaves in the history.
ThisRun(out) == [verdict |-> results.judge_result, out |-> out,
                 ran |-> at # "noexec"]

KeepVerdict(out) == results                                      \* mutated

\* case kOk of execute: a checker that says kError decides the verdict.
CheckedResults(out) ==
  IF out = "equal" THEN results
  ELSE [results EXCEPT !.judge_result = CheckResult(out)]

\* execute returns true only on equal outputs; otherwise the loop breaks.
AfterCheck(out) == IF out = "equal" THEN "next" ELSE "finish"

\* case kOk of execute, with Checker::run.
Checked(out) ==
  /\ pc = "kOk"
  /\ PossibleOut(out)
  /\ final' = CheckedResults(out)
  /\ runs' = Append(runs, ThisRun(out))
  /\ pc' = AfterCheck(out)
  /\ num' = IF out = "equal" THEN num + 1 ELSE num
  /\ UNCHANGED runVars

InterruptIgnored ==                                              \* mutated
  /\ pc = "kError"
  /\ runs' = Append(runs, ThisRun("unchecked"))
  /\ pc' = "finish"
  /\ UNCHANGED <<runVars, num, final>>

\* case kError of execute: no check, and the loop breaks.
Interrupt ==
  /\ pc = "kError"
  /\ final' = results
  /\ runs' = Append(runs, ThisRun("unchecked"))
  /\ pc' = "finish"
  /\ UNCHANGED <<runVars, num>>

\* The results are copied, cleanEnv removes the work directory.
Finish ==
  /\ pc = "finish"
  /\ pc' = "done"
  /\ UNCHANGED <<runVars, taskVars>>

\* A step of module Judge, during a run.
RunStep ==
  /\ pc \in {"run", "trace", "regs", "wait"}
  /\ RunNext
  /\ UNCHANGED taskVars

\* A destructed process may also die between two runs.
CrashLater ==
  /\ pc \in {"kOk", "kError", "next", "finish"}
  /\ Crash
  /\ UNCHANGED taskVars

-----------------------------------------------------------------------------
JudgerInit ==
  /\ pc = "compile"
  /\ conf \in Configuration
  /\ child = "none"
  /\ at = "none"
  /\ usage = [time |-> 0, memory |-> 0]
  /\ in_syscall = FALSE
  /\ results = NoResults
  /\ executed = {}
  /\ tainted = FALSE
  /\ num = 0
  /\ final = NoResults
  /\ runs = <<>>

Worker ==
  \/ Compile \/ NextTest \/ AllTested \/ FileError \/ Interrupt \/ Finish
  \/ \E out \in Outputs : Checked(out)

JudgerNext == Worker \/ RunStep \/ CrashLater

JudgerSpec == JudgerInit /\ [][JudgerNext]_judgerVars

\* The operating system schedules the worker thread and the child, and a
\* submission does not run for ever.
JudgerFairness ==
  /\ WF_judgerVars(Worker)
  /\ WF_judgerVars(Tracer /\ UNCHANGED taskVars)
  /\ WF_judgerVars((Exec \/ ExecFails) /\ UNCHANGED taskVars)
  /\ SF_judgerVars(Syscall(ExitCall) /\ UNCHANGED taskVars)

JudgerFairSpec == JudgerSpec /\ JudgerFairness

-----------------------------------------------------------------------------
TestRun == [verdict : JudgeResult, out : Outputs \cup {"unchecked"},
            ran : BOOLEAN]

\* Type invariant.
JudgerTypeOK ==
  /\ pc \in RunPc \cup {"compile", "next", "finish", "done"}
  /\ RunTypeOK
  /\ num \in 0..RunTimes
  /\ final \in ResultsType
  /\ runs \in Seq(TestRun)

\* A submission is accepted only if every one of its test cases was run, by
\* its own program, and matched, the last within the limits: no break of the
\* loop, no checker failure, no result of an earlier test and no child that
\* failed before its program, for which Run may well say kAC, leads to kAC.
\* Only without trace can a signal have ended the program in an earlier test.
AcceptedMeansMatched ==
  pc = "done" /\ final.judge_result = "kAC"
    => /\ RunTimes > 0 /\ Len(runs) = RunTimes
       /\ \A i \in 1..RunTimes : runs[i].out = "equal" /\ runs[i].ran
       /\ conf.trace => \A i \in 1..RunTimes : runs[i].verdict # "kRE"
       /\ runs[RunTimes].verdict = "kAC"

\* No test is started after one that did not match or was interrupted.
NoTestAfterFailure ==
  [][pc' = "run" /\ pc # "run" => \A i \in DOMAIN runs : runs[i].out = "equal"]_judgerVars

\* The verdict the client gets does not depend on an earlier submission's or
\* test's leftovers: what Grading computes from the history of the runs is
\* what the worker kept up to date in results_.
Phase == CASE pc = "done" -> "done" [] pc = "exit" -> "down" [] OTHER -> "grading"

G == INSTANCE Grading WITH
       phase   <- Phase,
       verdict <- IF pc = "done" THEN final.judge_result ELSE "kUKE"

\* Judging a submission implements Grading.
GradingSpec == G!GradingSpec

\* Every submission that terminates is judged, or the process is gone.
Judged == <>(pc \in {"done", "exit"})

\* kAC ("Accepted") is for programs that every test alone accepts: within the
\* limits the request gives, and ended by no signal.
AcceptedByEveryTest ==
  pc = "done" /\ final.judge_result = "kAC"
    => \A i \in DOMAIN runs : runs[i].verdict = "kAC"
=============================================================================
