---------------------------- MODULE JudgerProofs ----------------------------
(***************************************************************************)
(* Proofs about the judging of one submission (module Judger), for any     *)
(* number of test cases and any program: the type invariant, what kAC      *)
(* means, and that Judger implements Grading.  A run's part of a step is   *)
(* taken from the lemmas of JudgeProofs.                                   *)
(***************************************************************************)
EXTENDS Judger, JudgeProofs, SequenceTheorems

InRun == {"run", "trace", "regs", "wait", "kOk", "kError"}

(* results_ of the Judger against the history of the runs.  While tests go  *)
(* on all of them matched; once the loop is left either the source did not  *)
(* compile, or a test did not match, or none is left.                       *)
HistoryInv ==
  /\ pc = "compile" => runs = <<>> /\ num = 0 /\ final = NoResults
  /\ pc \in InRun \cup {"next"} =>
       /\ G!Open(runs) /\ Len(runs) = num
       /\ final.judge_result = G!SubmissionVerdict(runs)
  /\ pc \in InRun => num # RunTimes
  /\ pc \in {"finish", "done"} =>
       \/ runs = <<>> /\ final.judge_result \in {"kCE", "kSE"}
       \/ /\ final.judge_result = G!SubmissionVerdict(runs)
          /\ Len(runs) = RunTimes \/ ~G!Open(runs)

(* Only the last run can be one that did not match; a run that was          *)
(* interrupted has a verdict other than kAC, one that matched was one of    *)
(* the program, which no signal ended where it was traced.                  *)
Clean(r) == r.ran /\ (conf.trace => r.verdict # "kRE")

LastInv ==
  /\ \A i \in 1..Len(runs) - 1 : G!Matched(runs[i])
  /\ \A i \in DOMAIN runs :
       /\ G!Interrupted(runs[i]) => runs[i].verdict # "kAC"
       /\ G!Matched(runs[i]) => Clean(runs[i])

JudgerInv == JudgerTypeOK /\ VerdictInv /\ HistoryInv /\ LastInv

LEMMA AppendRun ==
  ASSUME NEW rs \in Seq(TestRun), NEW r \in TestRun
  PROVE  /\ Append(rs, r) \in Seq(TestRun)
         /\ Append(rs, r) # <<>>
         /\ Len(Append(rs, r)) = Len(rs) + 1
         /\ \A i \in 1..Len(rs) : Append(rs, r)[i] = rs[i]
         /\ Append(rs, r)[Len(rs) + 1] = r
         /\ DOMAIN Append(rs, r) = 1..Len(rs) + 1 /\ DOMAIN rs = 1..Len(rs)
         /\ Len(rs) \in Nat
OBVIOUS

(* The verdict on a history is that on the run appended last.               *)
LEMMA AppendVerdict ==
  ASSUME NEW rs \in Seq(TestRun), NEW r \in TestRun
  PROVE  /\ G!SubmissionVerdict(Append(rs, r)) = G!TestVerdict(r)
         /\ G!Open(Append(rs, r)) <=> G!Open(rs) /\ G!Matched(r)
<1> DEFINE rr == Append(rs, r)
<1>1. G!SubmissionVerdict(rr) = G!TestVerdict(r)
  BY AppendRun DEF G!SubmissionVerdict
<1>2. G!Open(rr) <=> \A i \in 1..Len(rs) + 1 : G!Matched(rr[i])
  BY AppendRun DEF G!Open
<1>3. G!Open(rs) <=> \A i \in 1..Len(rs) : G!Matched(rs[i])
  BY AppendRun DEF G!Open
<1>4. /\ \A i \in 1..Len(rs) : rr[i] = rs[i]
      /\ rr[Len(rs) + 1] = r /\ Len(rs) \in Nat
  BY AppendRun
<1> HIDE DEF rr
<1>5. G!Open(rr) <=> G!Open(rs) /\ G!Matched(r)
  BY <1>2, <1>3, <1>4
<1> QED BY <1>1, <1>5 DEF rr

LEMMA RunKeepsConf == RunNext => conf' = conf
BY DEF RunNext, Tracer, Program, Vfork, VforkFails, TraceExited, TraceSignal,
       TraceTrap, RegsFail, RejectCall, Resume, WaitExit, Exec, ExecFails, Crash,
       Compute, OutOfMemory, Syscall, Raise

(* A step of a run leaves the history alone.                                *)
LEMMA RunStepInv ==
  ASSUME JudgerInv, RunStep
  PROVE  JudgerInv' /\ pc \in InRun /\ pc' \in InRun \cup {"exit"}
         /\ UNCHANGED taskVars
<1>1. UNCHANGED taskVars /\ pc \in InRun \ {"kOk", "kError"} /\ RunNext
  BY DEF RunStep, InRun
<1>2. RunTypeOK' /\ VerdictInv'
  BY <1>1, RunTypeStep, VerdictStep DEF JudgerInv, JudgerTypeOK
<1>3. pc' \in InRun \cup {"exit"}
  BY <1>1, PcStep DEF InRun, RunPc
<1>4. JudgerTypeOK'
  BY <1>1, <1>2, <1>3 DEF JudgerInv, JudgerTypeOK, taskVars, InRun, RunPc
<1>5. HistoryInv' /\ LastInv'
  BY <1>1, <1>3, RunKeepsConf DEF JudgerInv, HistoryInv, LastInv, Clean,
       taskVars, InRun, G!Open, G!Matched, G!SubmissionVerdict, G!TestVerdict, G!Interrupted
<1> QED BY <1>1, <1>2, <1>3, <1>4, <1>5 DEF JudgerInv

(* A test that ended, with or without the checker, is the last of the       *)
(* history; results_ follow it.                                             *)
LEMMA WorkerInv ==
  ASSUME JudgerInv, Worker
  PROVE  JudgerInv'
<1> USE DEF JudgerInv, JudgerTypeOK, InRun
<1>1. UNCHANGED runVars /\ pc' \notin {"kOk", "kError", "wait"}
  BY DEF Worker, Compile, NextTest, AllTested, FileError, Interrupt, Finish,
         Checked, AfterCheck, runVars
<1>2. RunTypeOK' /\ VerdictInv'
  <2>1. RunTypeOK' BY <1>1 DEF runVars, RunTypeOK
  <2>2. VerdictInv'
    BY <1>1 DEF runVars, VerdictInv, Returned, AcceptedRunExited,
                AcceptedRunWithinLimits
  <2> QED BY <2>1, <2>2
<1>3. CASE Compile
  <2>1. /\ pc = "compile" /\ runs = <<>> /\ num = 0 /\ final = NoResults
        /\ UNCHANGED <<num, runs>>
    BY <1>3 DEF Compile, HistoryInv
  <2>2. /\ G!Open(runs) /\ Len(runs) = 0 /\ LastInv'
        /\ G!SubmissionVerdict(runs) = "kUKE"
    BY <2>1 DEF G!Open, G!SubmissionVerdict, LastInv
  <2>3. CASE pc' = "next" /\ UNCHANGED final
    <3>1. HistoryInv'
      BY <2>1, <2>2, <2>3 DEF HistoryInv, NoResults, G!Open, G!SubmissionVerdict
    <3> QED BY <1>2, <2>1, <2>2, <2>3, <3>1
  <2>4. CASE /\ pc' = "finish"
             /\ \E verdict \in {"kCE", "kSE"} :
                  final' = [final EXCEPT !.judge_result = verdict]
    <3>1. final' \in ResultsType /\ final'.judge_result \in {"kCE", "kSE"}
      BY <2>4 DEF ResultsType, JudgeResult
    <3>2. HistoryInv' BY <2>1, <2>4, <3>1 DEF HistoryInv
    <3> QED BY <1>2, <2>1, <2>2, <2>4, <3>1, <3>2
  <2> QED BY <1>3, <2>3, <2>4 DEF Compile
<1>4. CASE NextTest \/ AllTested \/ FileError \/ Finish
  <2>1. UNCHANGED taskVars /\ pc' \in {"run", "finish", "exit", "done"}
    BY <1>4 DEF NextTest, AllTested, FileError, Finish
  <2>2. LastInv'
    BY <1>1, <2>1 DEF taskVars, runVars, LastInv, Clean, G!Matched,
                      G!Interrupted
  <2>3. HistoryInv'
    BY <1>4, <2>1 DEF HistoryInv, taskVars, NextTest, AllTested, FileError,
       Finish, G!Open, G!Matched, G!SubmissionVerdict, G!TestVerdict,
       G!Interrupted
  <2> QED BY <1>2, <2>1, <2>2, <2>3 DEF taskVars, RunPc
<1>5. ASSUME NEW out \in Outputs, Checked(out) PROVE JudgerInv'
  <2> DEFINE r == ThisRun(out)
  <2>1. /\ r \in TestRun /\ runs \in Seq(TestRun) /\ runs' = Append(runs, r)
        /\ r.out = out /\ r.verdict = results.judge_result
    BY <1>5 DEF Checked, ThisRun, TestRun, RunTypeOK, ResultsType
  <2>2. /\ pc = "kOk" /\ G!Open(runs) /\ Len(runs) = num /\ num # RunTimes
        /\ num \in 0..RunTimes /\ RunTimes \in Nat
    BY <1>5, JudgerAssumption DEF Checked, HistoryInv
  <2>3. out # "unchecked" BY DEF Outputs
  <2>4. /\ final' \in ResultsType
        /\ final'.judge_result = G!TestVerdict(r)
    <3>1. results \in ResultsType BY DEF RunTypeOK
    <3>2. CheckResult(out) \in JudgeResult BY DEF CheckResult, JudgeResult
    <3>3. final' = CheckedResults(out) BY <1>5 DEF Checked
    <3>4. CASE out = "equal"
      BY <2>1, <3>1, <3>3, <3>4 DEF CheckedResults, G!TestVerdict, G!Matched
    <3>5. CASE out # "equal"
      <4>1. G!TestVerdict(r) = G!CheckResult(out)
        BY <2>1, <2>3, <3>5 DEF G!TestVerdict, G!Matched, G!Interrupted
      <4>2. G!CheckResult(out) = CheckResult(out)
        BY DEF G!CheckResult, CheckResult
      <4>3. final' = [results EXCEPT !.judge_result = CheckResult(out)]
        BY <3>3, <3>5 DEF CheckedResults
      <4> QED BY <3>1, <3>2, <4>1, <4>2, <4>3 DEF ResultsType
    <3> QED BY <3>4, <3>5
  <2> HIDE DEF r
  <2>5. /\ runs' \in Seq(TestRun) /\ Len(runs') = Len(runs) + 1
        /\ runs' # <<>>
        /\ G!SubmissionVerdict(runs') = G!TestVerdict(r)
        /\ G!Open(runs') <=> G!Matched(r)
    BY <2>1, <2>2, AppendRun, AppendVerdict
  <2>6. LastInv'
    <3>1. /\ \A i \in 1..Len(runs) : G!Matched(runs[i])
          /\ \A i \in 1..Len(runs) : runs'[i] = runs[i]
          /\ runs'[Len(runs) + 1] = r /\ Len(runs) \in Nat
          /\ DOMAIN runs' = 1..Len(runs) + 1 /\ DOMAIN runs = 1..Len(runs)
      BY <2>1, <2>2, AppendRun DEF G!Open
    <3>2. ~G!Interrupted(r) BY <2>1, <2>3 DEF G!Interrupted
    <3>3. G!Matched(r) => Clean(r)
      BY <1>5, <2>1, <2>2 DEF r, Checked, ThisRun, PossibleOut, VerdictInv,
                              Clean, G!Matched
    <3>4. conf' = conf BY <1>1 DEF runVars
    <3> QED BY <2>5, <3>1, <3>2, <3>3, <3>4
            DEF LastInv, Clean, G!Matched, G!Interrupted
  <2>7. CASE out = "equal"
    <3>1. pc' = "next" /\ num' = num + 1
      BY <1>5, <2>7 DEF Checked, AfterCheck
    <3>2. num' \in 0..RunTimes BY <2>2, <3>1
    <3>3. G!Matched(r) BY <2>1, <2>7 DEF G!Matched
    <3>4. HistoryInv' BY <2>2, <2>4, <2>5, <3>1, <3>3 DEF HistoryInv
    <3> QED BY <1>2, <2>4, <2>5, <2>6, <3>1, <3>2, <3>4
  <2>8. CASE out # "equal"
    <3>1. pc' = "finish" /\ num' = num
      BY <1>5, <2>8 DEF Checked, AfterCheck
    <3>2. ~G!Matched(r) BY <2>1, <2>8 DEF G!Matched
    <3>3. HistoryInv' BY <2>4, <2>5, <3>1, <3>2 DEF HistoryInv
    <3> QED BY <1>2, <2>4, <2>5, <2>6, <3>1, <3>3
  <2> QED BY <2>7, <2>8
<1>6. CASE Interrupt
  <2> DEFINE r == ThisRun("unchecked")
  <2>1. /\ r \in TestRun /\ runs \in Seq(TestRun) /\ runs' = Append(runs, r)
        /\ r.out = "unchecked" /\ r.verdict = results.judge_result
        /\ final' = results /\ num' = num /\ pc' = "finish"
        /\ final' \in ResultsType
    BY <1>6 DEF Interrupt, ThisRun, TestRun, RunTypeOK, ResultsType
  <2>2. pc = "kError" /\ G!Open(runs) BY <1>6 DEF Interrupt, HistoryInv
  <2>3. r.verdict # "kAC"
    BY <2>1, <2>2 DEF VerdictInv, AcceptedRunExited, Returned
  <2> HIDE DEF r
  <2>4. /\ runs' \in Seq(TestRun) /\ Len(runs') = Len(runs) + 1
        /\ G!SubmissionVerdict(runs') = G!TestVerdict(r)
        /\ G!Open(runs') <=> G!Matched(r)
    BY <2>1, <2>2, AppendRun, AppendVerdict
  <2>5. ~G!Matched(r) /\ G!TestVerdict(r) = r.verdict
    BY <2>1 DEF G!Matched, G!TestVerdict, G!Interrupted
  <2>6. LastInv'
    <3>1. /\ \A i \in 1..Len(runs) : G!Matched(runs[i])
          /\ \A i \in 1..Len(runs) : runs'[i] = runs[i]
          /\ runs'[Len(runs) + 1] = r /\ Len(runs) \in Nat
          /\ DOMAIN runs' = 1..Len(runs) + 1 /\ DOMAIN runs = 1..Len(runs)
      BY <2>1, <2>2, AppendRun DEF G!Open
    <3>2. ~G!Matched(r) BY <2>1 DEF G!Matched
    <3>3. conf' = conf BY <1>1 DEF runVars
    <3> QED BY <2>3, <2>4, <3>1, <3>2, <3>3
            DEF LastInv, Clean, G!Matched, G!Interrupted
  <2>7. HistoryInv' BY <2>1, <2>4, <2>5 DEF HistoryInv
  <2> QED BY <1>2, <2>1, <2>4, <2>6, <2>7
<1> QED BY <1>3, <1>4, <1>5, <1>6 DEF Worker

LEMMA InitInv == JudgerInit => JudgerInv
<1> SUFFICES ASSUME JudgerInit PROVE JudgerInv
  OBVIOUS
<1>1. RunTypeOK
  <2>1. usage \in [time : 0..MaxTime, memory : 0..MaxMemory]
    BY InitialTypes DEF JudgerInit
  <2> QED BY <2>1, InitialTypes DEF JudgerInit, RunTypeOK, ChildState
<1>2. JudgerTypeOK
  BY <1>1, InitialTypes, JudgerAssumption DEF JudgerInit, JudgerTypeOK
<1>3. VerdictInv
  BY DEF JudgerInit, VerdictInv, Returned, AcceptedRunExited,
         AcceptedRunWithinLimits
<1>4. HistoryInv /\ LastInv
  BY DEF JudgerInit, HistoryInv, LastInv, InRun
<1> QED BY <1>2, <1>3, <1>4 DEF JudgerInv

LEMMA CrashLaterInv ==
  ASSUME JudgerInv, CrashLater
  PROVE  JudgerInv' /\ pc' = "exit" /\ UNCHANGED <<runs, final>>
<1>1. pc' = "exit" /\ UNCHANGED runVars /\ UNCHANGED taskVars
  BY DEF CrashLater, Crash, runVars
<1>2. RunTypeOK' BY <1>1 DEF runVars, RunTypeOK, JudgerInv, JudgerTypeOK
<1>3. JudgerTypeOK'
  BY <1>1, <1>2 DEF taskVars, JudgerInv, JudgerTypeOK, RunPc
<1>4. VerdictInv'
  BY <1>1 DEF runVars, JudgerInv, VerdictInv, Returned, AcceptedRunExited,
              AcceptedRunWithinLimits
<1>5. HistoryInv' BY <1>1 DEF HistoryInv, InRun
<1>6. LastInv'
  BY <1>1 DEF taskVars, runVars, JudgerInv, LastInv, Clean, G!Matched,
              G!Interrupted
<1> QED BY <1>1, <1>3, <1>4, <1>5, <1>6 DEF JudgerInv, taskVars

LEMMA StutterInv ==
  ASSUME JudgerInv, UNCHANGED judgerVars
  PROVE  JudgerInv'
<1> USE DEF judgerVars
<1>1. JudgerTypeOK' BY DEF JudgerInv, JudgerTypeOK, RunTypeOK
<1>2. VerdictInv'
  BY DEF JudgerInv, VerdictInv, Returned, AcceptedRunExited,
         AcceptedRunWithinLimits, Add
<1>3. HistoryInv' /\ LastInv'
  BY DEF JudgerInv, HistoryInv, LastInv, Clean, G!Open, G!Matched, G!Interrupted,
         G!SubmissionVerdict, G!TestVerdict
<1> QED BY <1>1, <1>2, <1>3 DEF JudgerInv

THEOREM JudgerInvariant == JudgerSpec => []JudgerInv
<1>1. JudgerInv /\ [JudgerNext]_judgerVars => JudgerInv'
  BY WorkerInv, RunStepInv, CrashLaterInv, StutterInv DEF JudgerNext
<1> QED BY InitInv, <1>1, PTL DEF JudgerSpec

(* The types of everything the worker keeps while it judges a submission.   *)
THEOREM JudgerTypeCorrect == JudgerSpec => []JudgerTypeOK
<1>1. JudgerInv => JudgerTypeOK BY DEF JudgerInv
<1> QED BY <1>1, JudgerInvariant, PTL

(* A submission is accepted only after its own program ran in all of its    *)
(* tests and all of them matched, unkilled where it was traced.             *)
THEOREM AcceptedMatched == JudgerSpec => []AcceptedMeansMatched
<1>1. JudgerInv => AcceptedMeansMatched
  <2> SUFFICES ASSUME JudgerInv, pc = "done", final.judge_result = "kAC"
               PROVE  /\ RunTimes > 0 /\ Len(runs) = RunTimes
                      /\ \A i \in 1..RunTimes : runs[i].out = "equal" /\ runs[i].ran
                      /\ conf.trace =>
                           \A i \in 1..RunTimes : runs[i].verdict # "kRE"
                      /\ runs[RunTimes].verdict = "kAC"
    BY DEF AcceptedMeansMatched
  <2> DEFINE last == runs[Len(runs)]
  <2>1. /\ G!SubmissionVerdict(runs) = "kAC"
        /\ Len(runs) = RunTimes \/ ~G!Open(runs)
        /\ LastInv /\ runs \in Seq(TestRun)
    BY DEF JudgerInv, HistoryInv, JudgerTypeOK
  <2>2. runs # <<>> /\ G!TestVerdict(last) = "kAC"
    BY <2>1 DEF G!SubmissionVerdict
  <2>3. /\ Len(runs) \in Nat /\ Len(runs) > 0 /\ DOMAIN runs = 1..Len(runs)
        /\ last \in TestRun
    BY <2>1, <2>2
  <2> HIDE DEF last
  <2>4. G!Interrupted(last) => last.verdict # "kAC"
    BY <2>1, <2>3 DEF LastInv, last
  <2>5. G!Matched(last) /\ last.verdict = "kAC"
    <3>1. G!CheckResult(last.out) = "kAC" => last.out = "equal"
      BY DEF G!CheckResult
    <3> QED BY <2>2, <2>4, <3>1 DEF G!TestVerdict, G!Matched, G!Interrupted
  <2>6. \A i \in 1..Len(runs) : G!Matched(runs[i])
    BY <2>1, <2>3, <2>5 DEF LastInv, last
  <2>7. Len(runs) = RunTimes BY <2>1, <2>3, <2>6 DEF G!Open
  <2>8. \A i \in 1..Len(runs) : Clean(runs[i])
    BY <2>1, <2>3, <2>6 DEF LastInv
  <2> QED BY <2>3, <2>5, <2>6, <2>7, <2>8 DEF G!Matched, Clean, last
<1> QED BY <1>1, JudgerInvariant, PTL

(* No test is started after a failed one.                                   *)
THEOREM StopsAtFailure == JudgerSpec => NoTestAfterFailure
<1>1. JudgerInv /\ [JudgerNext]_judgerVars =>
        [pc' = "run" /\ pc # "run" =>
           \A i \in DOMAIN runs : runs[i].out = "equal"]_judgerVars
  <2> SUFFICES ASSUME JudgerInv, JudgerNext, pc' = "run", pc # "run"
               PROVE  \A i \in DOMAIN runs : runs[i].out = "equal"
    BY DEF judgerVars
  <2>1. pc = "next"
    BY DEF JudgerNext, Worker, Compile, NextTest, AllTested, FileError,
           Interrupt, Finish, Checked, AfterCheck, RunStep, CrashLater, RunNext,
           Tracer, Program, Vfork, VforkFails, TraceExited, TraceSignal,
           TraceTrap, RegsFail, RejectCall, Resume, WaitExit, Return, Exec,
           ExecFails, Crash, Compute, OutOfMemory, Syscall, Raise
  <2> QED BY <2>1 DEF JudgerInv, HistoryInv, G!Open, G!Matched
<1> QED BY <1>1, JudgerInvariant, PTL DEF JudgerSpec, NoTestAfterFailure

-----------------------------------------------------------------------------
(* The refinement: a step of Judger is a step of Grading or a stutter.      *)
LEMMA ToExit ==
  ASSUME pc \notin {"done", "exit"}, pc' = "exit", UNCHANGED runs
  PROVE  G!GoDown
BY DEF G!GoDown, Phase

LEMMA StaysGrading ==
  ASSUME pc \notin {"done", "exit"}, pc' \notin {"done", "exit"}
  PROVE  Phase = "grading" /\ Phase' = "grading"
BY DEF Phase

LEMMA RefinementStep ==
  ASSUME JudgerInv, JudgerNext
  PROVE  G!GradingNext \/ UNCHANGED G!gradingVars
<1> USE DEF G!gradingVars
<1>1. CASE RunStep
  <2>1. pc \in InRun /\ pc' \in InRun \cup {"exit"} /\ UNCHANGED runs
    BY <1>1, RunStepInv DEF taskVars
  <2>2. CASE pc' = "exit"
    BY <2>1, <2>2, ToExit DEF G!GradingNext, InRun
  <2>3. CASE pc' # "exit"
    BY <2>1, <2>3, StaysGrading DEF InRun
  <2> QED BY <2>2, <2>3
<1>2. CASE CrashLater
  BY <1>2, CrashLaterInv, ToExit DEF CrashLater, G!GradingNext
<1>3. CASE Compile \/ NextTest \/ AllTested
  <2>1. pc \in {"compile", "next"} /\ pc' \notin {"done", "exit"}
        /\ UNCHANGED runs
    BY <1>3 DEF Compile, NextTest, AllTested, taskVars
  <2> QED BY <2>1, StaysGrading
<1>4. CASE FileError
  <2>1. pc \in {"next", "finish"} /\ pc' = "exit" /\ UNCHANGED runs
    BY <1>4 DEF FileError, taskVars
  <2> QED BY <2>1, ToExit DEF G!GradingNext
<1>5. ASSUME NEW r \in TestRun, pc \in {"kOk", "kError"},
             pc' \notin {"done", "exit"}, runs' = Append(runs, r)
      PROVE  G!GradingNext
  <2>1. /\ G!Open(runs) /\ Len(runs) = num /\ num # RunTimes
        /\ num \in 0..RunTimes /\ RunTimes \in Nat
    BY <1>5, JudgerAssumption
       DEF JudgerInv, HistoryInv, InRun, JudgerTypeOK
  <2>2. Len(runs) < RunTimes BY <2>1
  <2>3. Phase = "grading" /\ Phase' = "grading" BY <1>5, StaysGrading
  <2>4. r \in G!TestRun BY DEF TestRun, G!TestRun, JudgeResult, Outputs,
                                G!JudgeResult, G!Outputs
  <2>5. G!Test(r) BY <1>5, <2>1, <2>2, <2>3 DEF G!Test
  <2> QED BY <2>4, <2>5 DEF G!GradingNext
<1>6. ASSUME NEW out \in Outputs, Checked(out)
      PROVE  G!GradingNext
  <2> DEFINE r == ThisRun(out)
  <2>1. r \in TestRun
    BY DEF JudgerInv, JudgerTypeOK, RunTypeOK, ResultsType, TestRun,
           ThisRun
  <2>2. /\ pc = "kOk" /\ pc' \notin {"done", "exit"}
        /\ runs' = Append(runs, r)
    BY <1>6 DEF Checked, AfterCheck
  <2> QED BY <1>5, <2>1, <2>2
<1>7. CASE Interrupt
  <2> DEFINE r == ThisRun("unchecked")
  <2>1. r \in TestRun
    BY DEF JudgerInv, JudgerTypeOK, RunTypeOK, ResultsType, TestRun,
           ThisRun
  <2>2. /\ pc = "kError" /\ pc' \notin {"done", "exit"}
        /\ runs' = Append(runs, r)
    BY <1>7 DEF Interrupt
  <2> QED BY <1>5, <2>1, <2>2
<1>8. CASE Finish
  <2>1. /\ pc = "finish" /\ pc' = "done" /\ UNCHANGED <<runs, final>>
    BY <1>8 DEF Finish, taskVars
  <2>2. Phase = "grading" /\ Phase' = "done"
    BY <2>1 DEF Phase
  <2>3. CASE runs = <<>> /\ final.judge_result \in {"kCE", "kSE"}
    <3>1. G!Reject BY <2>1, <2>2, <2>3 DEF G!Reject
    <3> QED BY <3>1 DEF G!GradingNext
  <2>4. CASE /\ final.judge_result = G!SubmissionVerdict(runs)
             /\ Len(runs) = RunTimes \/ ~G!Open(runs)
    <3>1. G!Decide BY <2>1, <2>2, <2>4 DEF G!Decide
    <3> QED BY <3>1 DEF G!GradingNext
  <2> QED BY <2>1, <2>3, <2>4 DEF JudgerInv, HistoryInv
<1> QED BY <1>1, <1>2, <1>3, <1>4, <1>6, <1>7, <1>8 DEF JudgerNext, Worker

(* Judging a submission implements Grading.                                 *)
THEOREM Refinement == JudgerSpec => GradingSpec
<1>1. JudgerInit => G!GradingInit
  BY DEF JudgerInit, G!GradingInit, Phase
<1>2. JudgerInv /\ [JudgerNext]_judgerVars => [G!GradingNext]_(G!gradingVars)
  <2>1. JudgerInv /\ JudgerNext => [G!GradingNext]_(G!gradingVars)
    BY RefinementStep
  <2>2. UNCHANGED judgerVars => UNCHANGED G!gradingVars
    BY DEF judgerVars, G!gradingVars, Phase
  <2> QED BY <2>1, <2>2
<1> QED BY <1>1, <1>2, JudgerInvariant, PTL
        DEF JudgerSpec, GradingSpec, G!GradingSpec
=============================================================================
