------------------------------ MODULE Grading ------------------------------
(***************************************************************************)
(* What the grading of one submission promises: either it is rejected      *)
(* before any test, or its tests are run in order up to the first that     *)
(* does not match, and the verdict is a function of those runs, or the     *)
(* process goes down and there is no verdict.                              *)
(***************************************************************************)
EXTENDS Protocol, Sequences

CONSTANT RunTimes   \* run_times: how many test cases the submission asks for

VARIABLES
  phase,    \* "grading", "done" or "down"
  verdict,  \* the verdict, once phase is "done"
  runs      \* the tests run so far: what Judge::Run said, how outputs
            \* compared, and whether the child reached its program

gradingVars == <<phase, verdict, runs>>

\* "unchecked": Judge::Run returned kError and the checker was not run.
TestRun == [verdict : JudgeResult, out : Outputs \cup {"unchecked"},
            ran : BOOLEAN]

Matched(r) == r.out = "equal"

Interrupted(r) == r.out = "unchecked"

\* Every test so far matched.
Open(rs) == \A i \in DOMAIN rs : Matched(rs[i])

\* The verdict on a test: the checker's when it found a difference, otherwise
\* that of Judge::Run.
TestVerdict(r) ==
  IF Matched(r) \/ Interrupted(r) THEN r.verdict ELSE CheckResult(r.out)

\* The verdict on a submission is that on its last test; kUKE without tests.
SubmissionVerdict(rs) ==
  IF rs = <<>> THEN "kUKE" ELSE TestVerdict(rs[Len(rs)])

GradingInit == phase = "grading" /\ verdict = "kUKE" /\ runs = <<>>

\* The source does not compile, or the compiler cannot be started.
Reject ==
  /\ phase = "grading" /\ runs = <<>>
  /\ phase' = "done"
  /\ verdict' \in {"kCE", "kSE"}
  /\ UNCHANGED runs

Test(r) ==
  /\ phase = "grading" /\ Open(runs) /\ Len(runs) < RunTimes
  /\ runs' = Append(runs, r)
  /\ UNCHANGED <<phase, verdict>>

Decide ==
  /\ phase = "grading"
  /\ ~Open(runs) \/ Len(runs) = RunTimes
  /\ phase' = "done"
  /\ verdict' = SubmissionVerdict(runs)
  /\ UNCHANGED runs

GoDown ==
  /\ phase = "grading"
  /\ phase' = "down"
  /\ UNCHANGED <<verdict, runs>>

GradingNext == Reject \/ (\E r \in TestRun : Test(r)) \/ Decide \/ GoDown

GradingSpec == GradingInit /\ [][GradingNext]_gradingVars
=============================================================================
