------------------------------ MODULE Service ------------------------------
(***************************************************************************)
(* What the judge promises its clients, whatever is between them and the   *)
(* workers: a client that asked gets at most one answer, to the request it *)
(* waits for and to no other, and asks again only after it.                *)
(***************************************************************************)
EXTENDS Integers, Sequences

CONSTANTS Clients, Kinds, MaxRequests

VARIABLES
  cstate,    \* client -> "idle", "waiting" or "gone"
  asked,     \* client -> requests it sent so far
  current,   \* client -> its last request
  answers    \* client that waits -> the answers that reached it, unread

serviceVars == <<cstate, asked, current, answers>>

ServiceInit ==
  /\ cstate = [c \in Clients |-> "idle"]
  /\ asked = [c \in Clients |-> 0]
  /\ current = [c \in Clients |-> [client |-> "none", n |-> 0, kind |-> "none"]]
  /\ answers = [c \in Clients |-> <<>>]

Ask(c) ==
  /\ cstate[c] = "idle" /\ asked[c] < MaxRequests
  /\ cstate' = [cstate EXCEPT ![c] = "waiting"]
  /\ asked' = [asked EXCEPT ![c] = @ + 1]
  /\ \E kind \in Kinds :
       current' = [current EXCEPT ![c] = [client |-> c, n |-> asked[c] + 1,
                                          kind |-> kind]]
  /\ UNCHANGED answers

Answer(c) ==
  /\ cstate[c] = "waiting" /\ answers[c] = <<>>
  /\ answers' = [answers EXCEPT ![c] = <<current[c]>>]
  /\ UNCHANGED <<cstate, asked, current>>

Read(c) ==
  /\ cstate[c] = "waiting" /\ answers[c] # <<>>
  /\ cstate' = [cstate EXCEPT ![c] = "idle"]
  /\ answers' = [answers EXCEPT ![c] = <<>>]
  /\ UNCHANGED <<asked, current>>

GiveUp(c) ==
  /\ cstate[c] # "gone"
  /\ cstate' = [cstate EXCEPT ![c] = "gone"]
  /\ UNCHANGED <<asked, current, answers>>

ServiceNext == \E c \in Clients : Ask(c) \/ Answer(c) \/ Read(c) \/ GiveUp(c)

ServiceSpec == ServiceInit /\ [][ServiceNext]_serviceVars
=============================================================================
