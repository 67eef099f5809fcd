------------------------------ MODULE MCJudger ------------------------------
(* Values of the constants of Judger for TLC.                               *)
EXTENDS Judger

MCMemoryAdd == [t \in CodeType |-> IF t = "kTypeC" THEN 0 ELSE 1]
=============================================================================
