------------------------------- MODULE System -------------------------------
(***************************************************************************)
(* The judge as a whole: the broker, sockets and clients of JudgeServer    *)
(* with the workers of JudgeWorker, each step of which is one system call  *)
(* on the shared work directories.  JudgeWorker::run joins the two: a      *)
(* worker takes the request its REP socket has for it, works on it, and    *)
(* sends what processTask left in results.                                 *)
(*                                                                         *)
(* A client makes its submissions one after the other, all with one        *)
(* run_id.  What compiler and tests say of a program depends on nothing    *)
(* but the program: see Right and Broken.                                  *)
(***************************************************************************)
EXTENDS Integers, Sequences, FiniteSets

CONSTANTS
  Clients, Workers, HWM,                  \* as in JudgeServer
  Tasks, RunId, Unbuilt, Language,        \* as in JudgeWorker
  Leftover, RunTimes, MaxFds, Faults,
  Submissions,  \* client -> its tasks, in the order it submits them
  Right,        \* tasks whose program passes every test
  Broken        \* tasks whose source does not compile; the others fail a test

ASSUME SystemAssumption ==
  /\ IsFiniteSet(Clients) /\ IsFiniteSet(Workers) /\ IsFiniteSet(Tasks)
  /\ HWM \in Nat \ {0}
  /\ "none" \notin Tasks /\ "old" \notin Tasks
  /\ Unbuilt \subseteq Tasks
  /\ Language \in {"compiled", "checked", "script"}
  /\ RunTimes \in Nat /\ MaxFds \in Nat
  /\ Faults \subseteq {"mkdir", "fork", "test", "litter"}
  /\ Submissions \in [Clients -> Seq(Tasks)]
  /\ \A c, d \in Clients :
       \A i \in DOMAIN Submissions[c], j \in DOMAIN Submissions[d] :
         Submissions[c][i] = Submissions[d][j] => c = d /\ i = j
  /\ Right \subseteq Tasks /\ Broken \subseteq Tasks \ Right

VARIABLES
  cstate, asked, current, front, inbox,   \* the variables of JudgeServer,
  spc, revents, msgs, queue, back,        \* but for wstate
  task, dropped,
  wpc, num, cleaning, read, detached,     \* those of JudgeWorker, but for task
  fresh, fds, dir, todo, ran,
  down,                                   \* both have this one
  results                                 \* task -> results of its processTask

clientVars == <<cstate, asked, current, front, inbox>>
brokerVars == <<spc, revents, msgs>>
pipeVars   == <<queue, back, dropped>>
workerVars == <<wpc, num, cleaning, read, detached, fresh, fds, dir, todo, ran>>
vars == <<clientVars, brokerVars, pipeVars, workerVars, task, down, results>>

\* The task a request is about.
TaskOf(r) == IF r.n = 0 THEN "none" ELSE Submissions[r.client][r.n]

KindOf(t) == IF t \in Unbuilt THEN "unbuilt" ELSE "ends"

S == INSTANCE JudgeServer WITH
       Kinds <- {"ends", "unbuilt"}, Faults <- {"env", "file"},
       MaxRequests <- Cardinality(Tasks),
       wstate <- [w \in Workers |-> CASE wpc[w] = "idle" -> "recv"
                                      [] wpc[w] = "dead" -> "dead"
                                      [] OTHER -> "busy"]

W == INSTANCE JudgeWorker WITH task <- [w \in Workers |-> TaskOf(task[w])]

Current(w) == TaskOf(task[w])
-----------------------------------------------------------------------------
Init ==
  /\ wpc = [w \in Workers |-> "idle"]
  /\ task = [w \in Workers |-> S!NoRequest]
  /\ results = [t \in Tasks |-> [run_id |-> "0", verdict |-> "none"]]
  /\ S!Init /\ W!Init

\* A client that makes its next submission, reads its reply or is killed.
Client(c) ==
  /\ UNCHANGED <<workerVars, results>>
  /\ \/ /\ asked[c] < Len(Submissions[c])
        /\ S!Send(c, KindOf(Submissions[c][asked[c] + 1]))
     \/ S!Recv(c)
     \/ S!Leave(c)

Broker == UNCHANGED <<workerVars, results>> /\ S!Broker

Recv(c) == UNCHANGED <<workerVars, results>> /\ S!Recv(c)
RecvFront(c) == UNCHANGED <<workerVars, results>> /\ S!RecvFront(c)
RecvBack(w) == UNCHANGED <<workerVars, results>> /\ S!RecvBack(w)

\* recv returns the next request, and processTask begins.
Take(w) ==
  /\ wpc[w] = "idle" /\ queue[w] # <<>>
  /\ wpc' = [wpc EXCEPT ![w] = "mkdir"]
  /\ S!Take(w)
  /\ W!Take(w, TaskOf(Head(queue[w])))
  /\ UNCHANGED results

\* The compiler and the tests judge the program they are given.
Honest(w) ==
  /\ wpc[w] = "link" =>
       LET d == dir[W!Id(w)]  e == dir'[W!Id(w)]
       IN  IF read[w] \in Broken \cup {"none"} THEN e.main = d.main
           ELSE e.error = d.error
  /\ wpc[w] = "execute" /\ wpc'[w] # "execute" =>
       (wpc'[w] = "open" <=> W!Program(w) \in Right)

Working(w) ==
  /\ UNCHANGED <<clientVars, brokerVars, task, queue>>
  /\ W!Worker(w)
  /\ Honest(w)

GetResults(w, verdict) ==
  results' = [results EXCEPT ![Current(w)] =
                [run_id |-> RunId[Current(w)], verdict |-> verdict]]

\* A step of processTask to which neither results nor the socket matter.
Step(w) ==
  /\ Working(w)
  /\ wpc'[w] \notin {"idle", "dead"}
  /\ wpc'[w] # "opendir" \/ wpc[w] = "mkdir"
  /\ UNCHANGED <<back, dropped, results>>

\* Judging is over: results are those of the judger, and cleanEnv is next.
Judged(w) ==
  /\ Working(w)
  /\ wpc'[w] = "opendir" /\ wpc[w] # "mkdir"
  /\ GetResults(w, CASE wpc[w] = "open" -> "passed"
                     [] wpc[w] = "compile" -> "error"
                     [] OTHER -> "failed")
  /\ UNCHANGED <<back, dropped>>

ReplyNothing(w) ==                                               \* mutated
  /\ Working(w)
  /\ wpc'[w] = "idle"
  /\ UNCHANGED <<back, dropped, results>>

\* processTask returned true, so cleanEnv is over: the reply goes out.
Reply(w) ==
  /\ Working(w)
  /\ wpc'[w] = "idle"
  /\ S!Reply(w)
  /\ UNCHANGED results

\* processTask returned false with results as they were constructed, and so
\* with run_id 0: sendError, and the thread ends.
SendError(w) ==
  /\ Working(w)
  /\ wpc'[w] = "dead"
  /\ S!Reply(w)
  /\ results' = [results EXCEPT ![Current(w)].verdict = "error"]

Worker(w) == Take(w) \/ Step(w) \/ Judged(w) \/ Reply(w) \/ SendError(w)

Next ==
  \/ \E c \in Clients : Client(c)
  \/ Broker
  \/ \E w \in Workers : Worker(w)

Spec == Init /\ [][Next]_vars

\* The threads are scheduled, compilers and programs end, clients read their
\* replies, and the sockets queue fairly.
Fairness ==
  /\ WF_vars(Broker)
  /\ \A c \in Clients : SF_vars(RecvFront(c)) /\ WF_vars(Recv(c))
  /\ \A w \in Workers : SF_vars(RecvBack(w)) /\ WF_vars(Worker(w))

FairSpec == Spec /\ Fairness

-----------------------------------------------------------------------------
Results == [run_id : {RunId[t] : t \in Tasks} \cup {"0"},
            verdict : {"none", "passed", "failed", "error"}]

\* Type invariant.
TypeOK == S!TypeOK /\ W!TypeOK /\ results \in [Tasks -> Results]

\* The verdict a client is sent is that of the program it submitted, whatever
\* the other workers do in their directories and whatever earlier submissions
\* with its run_id left behind; and it names its run_id, unless it is the
\* system error of a worker that ends.
OwnVerdict ==
  \A c \in Clients : \A i \in DOMAIN inbox[c] :
    LET t == TaskOf(inbox[c][i])
    IN  /\ results[t].verdict # "none"
        /\ results[t].verdict = "passed" => t \in Right
        /\ results[t].verdict = "failed" => t \notin Right
        /\ results[t].verdict # "error" => results[t].run_id = RunId[t]

\* A client whose submission was judged may use its run_id again at once: the
\* reply leaves only after the work directory is gone.
CleanBeforeReply ==
  \A c \in Clients : \A i \in DOMAIN inbox[c] :
    LET t == TaskOf(inbox[c][i])
    IN  results[t].verdict # "error" => ~dir[RunId[t]].exists

Failed == {t \in Tasks : results[t].verdict = "failed"}

\* No file operation of a worker ends the process under all the others, until
\* so many submissions have failed that the files of their last tests, which
\* nobody closed, leave too few descriptors for a test of each worker.
StaysUp ==
  down => \/ "test" \in Faults
          \/ 3 * (Cardinality(Failed) + Cardinality(Workers)) > MaxFds

\* A worker that will take no other request: its thread ended, or buildEnv
\* removes a directory for ever that removeDir cannot empty.
Stuck(w) ==
  \/ wpc[w] = "dead"
  \/ wpc[w] = "mkdir" /\ dir[W!Id(w)].litter

Stranded(c) ==
  \/ \E w \in Workers : /\ Stuck(w)
                        /\ \/ wpc[w] # "dead" /\ task[w] = current[c]
                           \/ S!Positions(queue[w], current[c]) # {}
  \/ \A w \in Workers : Stuck(w)

\* Whoever waits gets an answer, unless the request is with or behind a stuck
\* worker, all workers are stuck, the reply was dropped, or the process ended:
\* nothing else the workers do to directories keeps a client waiting.
Answered ==
  \A c \in Clients :
    cstate[c] = "waiting" ~>
      \/ cstate[c] # "waiting" \/ Stranded(c) \/ current[c] \in dropped
      \/ down

\* Workers that do their work system call by system call are workers as the
\* broker's module has them: each request is taken once and replied to once,
\* when processTask is over, and not at all once the process has ended.
ServerSpec == S!Spec
=============================================================================
