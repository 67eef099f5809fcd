------------------------------ MODULE MCJudge ------------------------------
(* Values of the constants of Judge for TLC: two allowed system calls and   *)
(* one that is not, limits of which both sides are reached, numbers that    *)
(* wrap round, and code types with and without memory_add.                  *)
EXTENDS Judge

MCMemoryAdd == [t \in CodeType |-> IF t \in {"kTypePython", "kTypeRuby"} THEN 1
                                   ELSE IF t = "kTypeJava" THEN 2 ELSE 0]
=============================================================================
