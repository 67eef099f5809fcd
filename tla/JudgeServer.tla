---------------------------- MODULE JudgeServer ----------------------------
(***************************************************************************)
(* The broker: JudgeServer::run (judgeserver.cc) moves requests from the   *)
(* ROUTER socket the clients talk to, to the DEALER socket the worker      *)
(* threads are connected to, and replies back.  One thread runs it; each   *)
(* worker runs JudgeWorker::run (judgeworker.cc); clients are REQ sockets, *)
(* like those of test/request.py.  How a worker judges is module Judger;   *)
(* here only how processTask ends matters.                                 *)
(*                                                                         *)
(* The sockets are external: a pipe is a sequence, ROUTER and DEALER read  *)
(* from any pipe that holds a message, a DEALER writes to any pipe below   *)
(* its high-water mark and blocks when there is none, and the ROUTER part  *)
(* of a REP or of the front socket drops what it cannot write.             *)
(***************************************************************************)
EXTENDS Protocol, Sequences, FiniteSets

CONSTANTS
  Clients, Workers,
  Kinds,        \* what clients send, a subset of Kind
  Faults,       \* what may go wrong around the program, a subset of Fault
  HWM,          \* capacity of a pipe between the broker and a worker
  MaxRequests   \* bound on the requests of one client

\* "ends": a program that ends; "loops": one that does not (no resource limit
\* is set on it); "unbuilt": a code type constructJudger returns NULL for, which
\* is also what a request that is no JSON comes to; "mistyped": JSON with a
\* value of another type, on which jsoncpp throws.
Kind == {"ends", "loops", "unbuilt", "mistyped"}

\* "env": mkdir of the work directory fails; "file": printError on a file.
Fault == {"env", "file"}

ASSUME ServerAssumption ==
  /\ IsFiniteSet(Clients) /\ IsFiniteSet(Workers)
  /\ Kinds \subseteq Kind /\ Faults \subseteq Fault
  /\ HWM \in Nat \ {0} /\ MaxRequests \in Nat

VARIABLES
  cstate,    \* client -> "idle", "waiting" in recv, or "gone"
  asked,     \* client -> requests it sent so far
  current,   \* client -> its last request
  front,     \* client -> requests that reached the ROUTER socket
  inbox,     \* client -> replies sent back to it
  spc,       \* the broker: "poll", "front", "send" or "back"
  revents,   \* what the last zmq_poll reported
  msgs,      \* the request the broker holds between recv and send, if any
  queue,     \* worker -> requests in its pipe
  back,      \* worker -> replies in its pipe
  wstate,    \* worker -> "recv", "busy" or "dead" (run() returned)
  task,      \* worker -> the request it works on
  dropped,   \* requests whose reply a full pipe made a REP socket drop
  down       \* printError has ended the process

vars == <<cstate, asked, current, front, inbox, spc, revents, msgs, queue,
          back, wstate, task, dropped, down>>
clientVars == <<cstate, asked, current, inbox>>
serverVars == <<spc, revents, msgs>>
workerVars == <<queue, back, wstate, task, dropped>>

Request == [client : Clients, n : 1..MaxRequests, kind : Kinds]
NoRequest == [client |-> "none", n |-> 0, kind |-> "none"]
-----------------------------------------------------------------------------
(* Clients.                                                                *)

Send(c, kind) ==
  /\ cstate[c] = "idle" /\ asked[c] < MaxRequests
  /\ LET r == [client |-> c, n |-> asked[c] + 1, kind |-> kind]
     IN  /\ current' = [current EXCEPT ![c] = r]
         /\ front' = [front EXCEPT ![c] = Append(@, r)]
  /\ asked' = [asked EXCEPT ![c] = @ + 1]
  /\ cstate' = [cstate EXCEPT ![c] = "waiting"]
  /\ UNCHANGED <<inbox, serverVars, workerVars, down>>

Recv(c) ==
  /\ cstate[c] = "waiting" /\ inbox[c] # <<>>
  /\ inbox' = [inbox EXCEPT ![c] = Tail(@)]
  /\ cstate' = [cstate EXCEPT ![c] = "idle"]
  /\ UNCHANGED <<asked, current, front, serverVars, workerVars, down>>

\* The client is killed; what it sent stays with the broker.
Leave(c) ==
  /\ cstate[c] # "gone"
  /\ cstate' = [cstate EXCEPT ![c] = "gone"]
  /\ UNCHANGED <<asked, current, front, inbox, serverVars, workerVars, down>>

-----------------------------------------------------------------------------
(* The broker.  Definitions marked "mutated" are slips the properties have *)
(* to notice; no specification uses them.                                  *)

FrontReady == \E c \in Clients : front[c] # <<>>
BackReady  == \E w \in Workers : back[w] # <<>>

PollFront ==                                                     \* mutated
  /\ ~down /\ spc = "poll"
  /\ FrontReady
  /\ revents' = [front |-> TRUE, back |-> FALSE]
  /\ spc' = "front"
  /\ UNCHANGED <<clientVars, front, msgs, workerVars, down>>

\* zmq_poll without timeout.
Poll ==
  /\ ~down /\ spc = "poll"
  /\ FrontReady \/ BackReady
  /\ revents' = [front |-> FrontReady, back |-> BackReady]
  /\ spc' = "front"
  /\ UNCHANGED <<clientVars, front, msgs, workerVars, down>>

RecvFront(c) ==
  /\ ~down /\ spc = "front" /\ revents.front
  /\ front[c] # <<>>
  /\ msgs' = <<Head(front[c])>>
  /\ front' = [front EXCEPT ![c] = Tail(@)]
  /\ spc' = "send"
  /\ UNCHANGED <<clientVars, revents, workerVars, down>>

SkipFront ==
  /\ ~down /\ spc = "front" /\ ~revents.front
  /\ spc' = "back"
  /\ UNCHANGED <<clientVars, front, revents, msgs, workerVars, down>>

SendBackKeeps(w) ==                                              \* mutated
  /\ ~down /\ spc = "send"
  /\ Len(queue[w]) < HWM
  /\ queue' = [queue EXCEPT ![w] = Append(@, msgs[1])]
  /\ spc' = "back"
  /\ UNCHANGED <<clientVars, front, revents, msgs, back, wstate, task, dropped,
                 down>>

\* Blocks while no pipe has room.  The pipe of a dead worker is still there:
\* nothing closes its socket.
SendBack(w) ==
  /\ ~down /\ spc = "send"
  /\ Len(queue[w]) < HWM
  /\ queue' = [queue EXCEPT ![w] = Append(@, msgs[1])]
  /\ msgs' = <<>>
  /\ spc' = "back"
  /\ UNCHANGED <<clientVars, front, revents, back, wstate, task, dropped, down>>

\* The identity frame says which client the ROUTER socket replies to; without
\* that peer it drops the reply.
RecvBack(w) ==
  /\ ~down /\ spc = "back" /\ revents.back
  /\ back[w] # <<>>
  /\ LET r == Head(back[w])
     IN  inbox' = IF cstate[r.client] = "gone" THEN inbox
                  ELSE [inbox EXCEPT ![r.client] = Append(@, r)]
  /\ back' = [back EXCEPT ![w] = Tail(@)]
  /\ spc' = "poll"
  /\ UNCHANGED <<cstate, asked, current, front, revents, msgs, queue, wstate,
                 task, dropped, down>>

SkipBack ==
  /\ ~down /\ spc = "back" /\ ~revents.back
  /\ spc' = "poll"
  /\ UNCHANGED <<clientVars, front, revents, msgs, workerVars, down>>

-----------------------------------------------------------------------------
(* Worker threads.                                                         *)

TakeKeeps(w) ==                                                  \* mutated
  /\ ~down /\ wstate[w] = "recv" /\ queue[w] # <<>>
  /\ task' = [task EXCEPT ![w] = Head(queue[w])]
  /\ wstate' = [wstate EXCEPT ![w] = "busy"]
  /\ UNCHANGED <<clientVars, front, serverVars, queue, back, dropped, down>>

Take(w) ==
  /\ ~down /\ wstate[w] = "recv" /\ queue[w] # <<>>
  /\ task' = [task EXCEPT ![w] = Head(queue[w])]
  /\ queue' = [queue EXCEPT ![w] = Tail(@)]
  /\ wstate' = [wstate EXCEPT ![w] = "busy"]
  /\ UNCHANGED <<clientVars, front, serverVars, back, dropped, down>>

\* The REP socket sends the reply to the task of w, or drops it.
Reply(w) ==
  IF Len(back[w]) < HWM
  THEN back' = [back EXCEPT ![w] = Append(@, task[w])] /\ UNCHANGED dropped
  ELSE dropped' = dropped \cup {task[w]} /\ UNCHANGED back

\* processTask returned true, with whatever verdict.
Judged(w) ==
  /\ ~down /\ wstate[w] = "busy" /\ task[w].kind = "ends"
  /\ Reply(w)
  /\ wstate' = [wstate EXCEPT ![w] = "recv"]
  /\ UNCHANGED <<clientVars, front, serverVars, queue, task, down>>

SilentExit(w) ==                                                 \* mutated
  /\ ~down /\ wstate[w] = "busy" /\ task[w].kind = "unbuilt"
  /\ wstate' = [wstate EXCEPT ![w] = "dead"]
  /\ UNCHANGED <<clientVars, front, serverVars, queue, back, task, dropped, down>>

\* processTask returned false: sendError, and run() returns.
Failed(w) ==
  /\ ~down /\ wstate[w] = "busy"
  /\ \/ task[w].kind = "unbuilt"
     \/ task[w].kind # "mistyped" /\ "env" \in Faults
  /\ Reply(w)
  /\ wstate' = [wstate EXCEPT ![w] = "dead"]
  /\ UNCHANGED <<clientVars, front, serverVars, queue, task, down>>

\* parseData throws in the worker's thread, where nothing catches.
ParseThrows(w) ==
  /\ ~down /\ wstate[w] = "busy" /\ task[w].kind = "mistyped"
  /\ down' = TRUE
  /\ UNCHANGED <<clientVars, front, serverVars, workerVars>>

\* printError in the worker, or in a child that shares its memory.
ProcessExit(w) ==
  /\ ~down /\ wstate[w] = "busy"
  /\ task[w].kind # "mistyped" /\ "file" \in Faults
  /\ down' = TRUE
  /\ UNCHANGED <<clientVars, front, serverVars, workerVars>>

-----------------------------------------------------------------------------
Init ==
  /\ cstate = [c \in Clients |-> "idle"]
  /\ asked = [c \in Clients |-> 0]
  /\ current = [c \in Clients |-> NoRequest]
  /\ front = [c \in Clients |-> <<>>]
  /\ inbox = [c \in Clients |-> <<>>]
  /\ spc = "poll"
  /\ revents = [front |-> FALSE, back |-> FALSE]
  /\ msgs = <<>>
  /\ queue = [w \in Workers |-> <<>>]
  /\ back = [w \in Workers |-> <<>>]
  /\ wstate = [w \in Workers |-> "recv"]
  /\ task = [w \in Workers |-> NoRequest]
  /\ dropped = {}
  /\ down = FALSE

Client(c) == (\E kind \in Kinds : Send(c, kind)) \/ Recv(c) \/ Leave(c)

Broker ==
  \/ Poll \/ SkipFront \/ SkipBack
  \/ \E c \in Clients : RecvFront(c)
  \/ \E w \in Workers : SendBack(w) \/ RecvBack(w)

Worker(w) == Take(w) \/ Judged(w) \/ Failed(w) \/ ParseThrows(w) \/ ProcessExit(w)

Next ==
  \/ \E c \in Clients : Client(c)
  \/ Broker
  \/ \E w \in Workers : Worker(w)

Spec == Init /\ [][Next]_vars

\* The threads are scheduled, clients read their replies, and the sockets
\* queue fairly: they pass over no pipe for ever.
Fairness ==
  /\ WF_vars(Broker)
  /\ \A c \in Clients : SF_vars(RecvFront(c)) /\ WF_vars(Recv(c))
  /\ \A w \in Workers : SF_vars(RecvBack(w)) /\ WF_vars(Take(w) \/ Judged(w) \/ ParseThrows(w))
                        /\ WF_vars(Failed(w) /\ task[w].kind = "unbuilt")

FairSpec == Spec /\ Fairness

-----------------------------------------------------------------------------
AnyRequest == Request \cup {NoRequest}

\* Type invariant.
TypeOK ==
  /\ cstate \in [Clients -> {"idle", "waiting", "gone"}]
  /\ asked \in [Clients -> 0..MaxRequests]
  /\ current \in [Clients -> AnyRequest]
  /\ front \in [Clients -> Seq(Request)]
  /\ inbox \in [Clients -> Seq(Request)]
  /\ spc \in {"poll", "front", "send", "back"}
  /\ revents \in [front : BOOLEAN, back : BOOLEAN]
  /\ msgs \in Seq(Request) /\ (msgs # <<>> <=> spc = "send") /\ Len(msgs) <= 1
  /\ queue \in [Workers -> Seq(Request)]
  /\ back \in [Workers -> Seq(Request)]
  /\ wstate \in [Workers -> {"recv", "busy", "dead"}]
  /\ task \in [Workers -> AnyRequest]
  /\ \A w \in Workers : wstate[w] = "busy" => task[w] \in Request
  /\ dropped \subseteq Request
  /\ down \in BOOLEAN

Positions(s, r) == {i \in DOMAIN s : s[i] = r}

InSeqs(tag, S, f, r) ==
  UNION {{<<tag, x, i>> : i \in Positions(f[x], r)} : x \in S}

\* Where request r is, or the reply to it.
Held(r) ==
  InSeqs("front", Clients, front, r)
    \cup {<<"msgs", i>> : i \in Positions(msgs, r)}
    \cup InSeqs("queue", Workers, queue, r)
    \cup {<<"task", w>> : w \in {v \in Workers : wstate[v] = "busy" /\ task[v] = r}}
    \cup InSeqs("back", Workers, back, r)
    \cup InSeqs("inbox", Clients, inbox, r)
    \cup {<<"dropped", x>> : x \in dropped \cap {r}}

\* The request a client waits for, or its reply, is in exactly one place: the
\* broker and the workers neither lose nor double it on the way; and nothing
\* is left of it once the client has its reply.
InOnePlace ==
  \A c \in Clients :
    /\ cstate[c] = "waiting" => Cardinality(Held(current[c])) = 1
    /\ cstate[c] = "idle" => Held(current[c]) = {}

\* A client is sent the reply to the request it waits for, and no other: the
\* envelope finds its way through broker, worker and back.
OwnReplyOnly ==
  \A c \in Clients : inbox[c] # <<>> =>
    inbox[c] = <<current[c]>> /\ cstate[c] # "idle"

\* A worker that will not take another request: its thread returned, or the
\* program it runs never ends.
Stuck(w) ==
  \/ wstate[w] = "dead"
  \/ wstate[w] = "busy" /\ task[w].kind = "loops"

\* The request of c cannot be answered: it is with a stuck worker, or the
\* broker may be blocked because all are.
Stranded(c) ==
  \/ \E w \in Workers : /\ Stuck(w)
                        /\ \/ wstate[w] = "busy" /\ task[w] = current[c]
                           \/ Positions(queue[w], current[c]) # {}
  \/ \A w \in Workers : Stuck(w)

\* As long as one worker is sound, whoever waits gets an answer, except those
\* whose request was put behind a stuck worker or whose reply was dropped:
\* the broker's loop starves no client and no worker.
AnsweredUnlessStranded ==
  \A c \in Clients :
    cstate[c] = "waiting" ~>
      cstate[c] # "waiting" \/ Stranded(c) \/ current[c] \in dropped \/ down

S == INSTANCE Service WITH answers <- inbox

\* Broker, workers and sockets together implement Service: no client gets an
\* answer it did not ask for, a second one, or that to a request of its own
\* it no longer waits for.
ServiceSpec == S!ServiceSpec

\* What the clients of test/ rely on: each request is answered.
EveryRequestAnswered ==
  \A c \in Clients : cstate[c] = "waiting" ~> cstate[c] # "waiting"
=============================================================================
