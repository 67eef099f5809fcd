--------------------------- MODULE MCJudgeWorker ---------------------------
(* Instances of JudgeWorker for TLC.                                         *)
EXTENDS JudgeWorker, TLC

\* Two tasks use the same run_id, as two runs of test/request.py do.
MixedRunId == [t \in Tasks |-> IF t = "t3" THEN "r3" ELSE "r0"]
=============================================================================
