------------------------------ MODULE MCSystem ------------------------------
(* Instances of System for TLC.                                              *)
EXTENDS System

CONSTANTS c1, c2

\* The first client submits twice, the second three times.
Several ==
  [c \in Clients |-> IF c = c1 THEN <<"s1", "s2">> ELSE <<"s3", "s4", "s5">>]

\* One submission of each client.
One == [c \in Clients |-> IF c = c1 THEN <<"s1">> ELSE <<"s2">>]

\* Each client has a run_id of its own ...
OwnRunId == [t \in Tasks |-> IF t \in {"s3", "s4", "s5"} THEN "r2" ELSE "r1"]

\* ... or all use 0, like test/server.py.
SameRunId == [t \in Tasks |-> "r0"]
=============================================================================
