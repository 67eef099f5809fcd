------------------------------ MODULE Startup ------------------------------
(***************************************************************************)
(* main.cc from zmq_init on: the main thread starts the thread of the      *)
(* JudgeServer and, two seconds later, those of the workers, which share   *)
(* one WorkerConf with it; then it joins them.  The back address is an     *)
(* inproc one, as judge.conf has it, to which zmq 3.2 connects only once   *)
(* it is bound, or an ipc one, the default of Configure, to which it       *)
(* connects at any time.  How long a thread takes is not known: the sleep  *)
(* may be over before the JudgeServer is through with init().              *)
(***************************************************************************)
EXTENDS Integers, FiniteSets

CONSTANT WorkerNums   \* worker_nums

ASSUME StartupAssumption == WorkerNums \in Nat

Workers == 0..WorkerNums - 1

Transports == {"inproc", "ipc"}

VARIABLES
  transport, \* of sock_back_addr
  mpc,       \* main: "server", "sleep", "store", "spawn", "join", "returned"
  num,       \* its loop counter
  confNum,   \* worker_conf.num
  spc,       \* the server thread: "none", "front", "back", "running",
             \* "destroy", "term" (in zmq_term) or "ended"
  context,   \* "alive", "terminating" or "freed"
  open,      \* the server's open sockets
  sockets,   \* the workers that have an open socket
  bound,     \* whether the back address is bound
  wpc,       \* a worker's thread: "none", "start", "socket", "connect",
             \* "running", in buildEnv "mkdir", "opendir", "unlink" or "rmdir",
             \* or "ended"
  number,    \* worker -> worker_number_
  dir,       \* the work directory of run_id 1: "none", "empty", with "files",
             \* or with "litter" that removeDir leaves
  down       \* the process has ended before main returned

vars == <<transport, mpc, num, confNum, spc, context, open, sockets, bound, wpc,
          number, dir, down>>
mainVars == <<transport, mpc, num, confNum>>
workerVars == <<wpc, number, sockets, dir>>
-----------------------------------------------------------------------------
(* The main thread.  Definitions marked "mutated" are slips the properties *)
(* have to notice; no specification uses them.                             *)

SpawnServer ==
  /\ ~down /\ mpc = "server"
  /\ mpc' = "sleep"
  /\ spc' = "front"
  /\ UNCHANGED <<transport, num, confNum, context, open, bound, workerVars,
                 down>>

LoopPast(n) == IF n > WorkerNums THEN "join" ELSE "store"        \* mutated
LoopShort(n) == IF n + 1 >= WorkerNums THEN "join" ELSE "store"  \* mutated

\* The head of the loop, with n workers started.
Loop(n) == IF n = WorkerNums THEN "join" ELSE "store"

Sleep ==
  /\ ~down /\ mpc = "sleep"
  /\ mpc' = Loop(num)
  /\ UNCHANGED <<transport, num, confNum, spc, context, open, bound, workerVars,
                 down>>

StoreNothing ==                                                  \* mutated
  /\ ~down /\ mpc = "store"
  /\ mpc' = "spawn"
  /\ UNCHANGED <<transport, num, confNum, spc, context, open, bound, workerVars,
                 down>>

StoreNum ==
  /\ ~down /\ mpc = "store"
  /\ mpc' = "spawn"
  /\ confNum' = num
  /\ UNCHANGED <<transport, num, spc, context, open, bound, workerVars,
                 down>>

\* The thread gets a reference to worker_conf, not a copy.
SpawnWorker ==
  /\ ~down /\ mpc = "spawn"
  /\ wpc' = [wpc EXCEPT ![num] = "start"]
  /\ num' = num + 1
  /\ mpc' = Loop(num + 1)
  /\ UNCHANGED <<transport, confNum, spc, context, open, sockets, bound, number,
                 dir, down>>

Join ==
  /\ ~down /\ mpc = "join"
  /\ spc = "ended" /\ \A w \in Workers : wpc[w] = "ended"
  /\ mpc' = "returned"
  /\ UNCHANGED <<transport, num, confNum, spc, context, open, bound, workerVars,
                 down>>

-----------------------------------------------------------------------------
(* The thread of the JudgeServer: init(), and destroy() by ~JudgeServer.   *)

BindBackFirst ==                                                 \* mutated
  /\ ~down /\ spc = "front"
  /\ spc' \in {"back", "destroy"}
  /\ open' = open \cup {"front", "back"}
  /\ bound' = TRUE
  /\ UNCHANGED <<mainVars, context, workerVars, down>>

\* zmq_bind succeeds, or init() and run() return.
BindFront ==
  /\ ~down /\ spc = "front"
  /\ spc' \in {"back", "destroy"}
  /\ open' = open \cup {"front"}
  /\ UNCHANGED <<mainVars, context, bound, workerVars, down>>

BindBack ==
  /\ ~down /\ spc = "back"
  /\ open' = open \cup {"back"}
  /\ \/ spc' = "running" /\ bound' = TRUE
     \/ spc' = "destroy" /\ UNCHANGED bound
  /\ UNCHANGED <<mainVars, context, workerVars, down>>

DestroyFront ==                                                  \* mutated
  /\ ~down /\ spc = "destroy"
  /\ spc' = "term"
  /\ open' = open \ {"front"}
  /\ context' = "terminating"
  /\ UNCHANGED <<mainVars, bound, workerVars, down>>

\* destroy() closes both sockets and calls zmq_term.
Destroy ==
  /\ ~down /\ spc = "destroy"
  /\ spc' = "term"
  /\ open' = open \ {"front", "back"}
  /\ context' = "terminating"
  /\ UNCHANGED <<mainVars, bound, workerVars, down>>

\* zmq_term returns when no socket is open.
Term ==
  /\ ~down /\ spc = "term" /\ open = {} /\ sockets = {}
  /\ spc' = "ended"
  /\ context' = "freed"
  /\ UNCHANGED <<mainVars, open, bound, workerVars, down>>

-----------------------------------------------------------------------------
(* The thread of a worker: startWorker and JudgeWorker::init().            *)

\* setWorkerNum(worker_conf.num), whatever main has stored there by now.
SetWorkerNum(w) ==
  /\ ~down /\ wpc[w] = "start"
  /\ wpc' = [wpc EXCEPT ![w] = "socket"]
  /\ number' = [number EXCEPT ![w] = confNum]
  /\ UNCHANGED <<mainVars, spc, context, open, sockets, bound, dir, down>>

Socket(w) ==
  /\ ~down /\ wpc[w] = "socket" /\ context = "alive"
  /\ wpc' = [wpc EXCEPT ![w] = "connect"]
  /\ sockets' = sockets \cup {w}
  /\ UNCHANGED <<mainVars, spc, context, open, bound, number, dir, down>>

\* zmq_socket on a context that is terminating, or gone, returns NULL ...
SocketFails(w) ==
  /\ ~down /\ wpc[w] = "socket" /\ context # "alive"
  /\ wpc' = [wpc EXCEPT ![w] = "ended"]
  /\ UNCHANGED <<mainVars, spc, context, open, sockets, bound, number, dir,
                 down>>

\* ... or crashes, where the memory of the context has been used again.
SocketCrashes(w) ==
  /\ ~down /\ wpc[w] = "socket" /\ context = "freed"
  /\ down' = TRUE
  /\ UNCHANGED <<mainVars, spc, context, open, bound, workerVars>>

CanConnect == context = "alive" /\ (bound \/ transport = "ipc")

\* A worker that cannot connect returns and leaves its socket open.
Connect(w) ==
  /\ ~down /\ wpc[w] = "connect"
  /\ wpc' = [wpc EXCEPT ![w] = IF CanConnect THEN "running" ELSE "ended"]
  /\ UNCHANGED <<mainVars, spc, context, open, sockets, bound, number, dir,
                 down>>

\* recvMsg fails once the context is terminating.  run() processes the empty
\* message all the same: parseData takes the defaults, 1 for the run_id.
RecvFails(w) ==
  /\ ~down /\ wpc[w] = "running" /\ context # "alive"
  /\ wpc' = [wpc EXCEPT ![w] = "mkdir"]
  /\ UNCHANGED <<mainVars, spc, context, open, sockets, bound, number, dir,
                 down>>

BuildEnv(w, at) ==
  /\ ~down /\ wpc[w] = at
  /\ UNCHANGED <<mainVars, spc, context, open, sockets, bound, number>>

\* buildEnv is done, or fails; the code type, again the default, ends the
\* thread, with its socket open.  The directory stays.
Mkdir(w) ==
  /\ BuildEnv(w, "mkdir")
  /\ \/ dir = "none" /\ dir' = "empty"
     \/ UNCHANGED dir                   \* mkdir fails for another reason
  /\ wpc' = [wpc EXCEPT ![w] = "ended"]
  /\ UNCHANGED down

MkdirExists(w) ==
  /\ BuildEnv(w, "mkdir") /\ dir # "none"
  /\ wpc' = [wpc EXCEPT ![w] = "opendir"]
  /\ UNCHANGED <<dir, down>>

\* removeDir; where opendir fails printError ends the process.
OpenDir(w) ==
  /\ BuildEnv(w, "opendir")
  /\ IF dir = "none" THEN down' = TRUE /\ UNCHANGED wpc
     ELSE wpc' = [wpc EXCEPT ![w] = "unlink"] /\ UNCHANGED down
  /\ UNCHANGED dir

UnlinkNothing(w) ==                                              \* mutated
  /\ BuildEnv(w, "unlink")
  /\ wpc' = [wpc EXCEPT ![w] = "rmdir"]
  /\ UNCHANGED <<dir, down>>

\* No thread makes files here, so that a directory made since opendir is empty.
Unlink(w) ==
  /\ BuildEnv(w, "unlink")
  /\ dir' = IF dir = "files" THEN "empty" ELSE dir
  /\ wpc' = [wpc EXCEPT ![w] = "rmdir"]
  /\ UNCHANGED down

Rmdir(w) ==
  /\ BuildEnv(w, "rmdir")
  /\ dir' = IF dir = "empty" THEN "none" ELSE dir
  /\ wpc' = [wpc EXCEPT ![w] = "mkdir"]
  /\ UNCHANGED down

-----------------------------------------------------------------------------
Init ==
  /\ transport \in Transports
  /\ mpc = "server"
  /\ num = 0 /\ confNum = 0
  /\ spc = "none"
  /\ context = "alive"
  /\ open = {} /\ sockets = {}
  /\ bound = FALSE
  /\ wpc = [w \in Workers |-> "none"]
  /\ number = [w \in Workers |-> 0]
  /\ dir \in {"none", "files", "litter"}
  /\ down = FALSE

Main == SpawnServer \/ Sleep \/ StoreNum \/ SpawnWorker \/ Join

Server == BindFront \/ BindBack \/ Destroy \/ Term

Worker(w) ==
  \/ SetWorkerNum(w) \/ Socket(w) \/ SocketFails(w) \/ SocketCrashes(w)
  \/ Connect(w) \/ RecvFails(w)
  \/ Mkdir(w) \/ MkdirExists(w) \/ OpenDir(w) \/ Unlink(w) \/ Rmdir(w)

Next == Main \/ Server \/ \E w \in Workers : Worker(w)

Spec == Init /\ [][Next]_vars

\* Every thread is scheduled.
FairSpec ==
  /\ Spec
  /\ WF_vars(Main) /\ WF_vars(Server) /\ \A w \in Workers : WF_vars(Worker(w))

-----------------------------------------------------------------------------
\* Type invariant.
TypeOK ==
  /\ transport \in Transports
  /\ mpc \in {"server", "sleep", "store", "spawn", "join", "returned"}
  /\ num \in 0..WorkerNums /\ confNum \in 0..WorkerNums
  /\ spc \in {"none", "front", "back", "running", "destroy", "term", "ended"}
  /\ context \in {"alive", "terminating", "freed"}
  /\ open \subseteq {"front", "back"} /\ sockets \subseteq Workers
  /\ bound \in BOOLEAN
  /\ wpc \in [Workers -> {"none", "start", "socket", "connect", "running",
                         "mkdir", "opendir", "unlink", "rmdir", "ended"}]
  /\ number \in [Workers -> 0..WorkerNums]
  /\ dir \in {"none", "empty", "files", "litter"}
  /\ down \in BOOLEAN

\* worker_conf.num is read while main may store the number of a later worker:
\* a worker's number can be too high, but is never that of an earlier worker,
\* nor one past the last.
NumberNotStale ==
  \A w \in Workers :
    wpc[w] \notin {"none", "start"} => number[w] \in w..WorkerNums - 1

\* Over inproc a worker runs only beside a broker that is up: neither a failed
\* init() nor a terminated context leaves workers behind that wait for
\* requests.
RunsWithServer ==
  \A w \in Workers :
    wpc[w] = "running" /\ transport = "inproc" =>
      spc = "running" /\ context = "alive" /\ w \in sockets

\* When the server cannot bind, the program ends, unless a worker had opened
\* its socket by then, which nobody closes: zmq_term then waits for ever.
FailureEnds ==
  spc = "destroy" ~> mpc = "returned" \/ down \/ sockets # {}

\* When the server cannot bind, every worker's thread comes to its end, also
\* of one that is connected over ipc and waits for requests: however the
\* workers interleave on the one directory of run_id 1, buildEnv comes out of
\* its loop, or ends the process, unless the directory cannot be emptied.
WorkersEnd ==
  spc = "destroy" ~>
    \/ down
    \/ \A w \in Workers :
         \/ wpc[w] = "ended"
         \/ dir = "litter" /\ wpc[w] \in {"mkdir", "opendir", "unlink", "rmdir"}

\* When the server is up before the sleep is over, so is every worker in the
\* end; over ipc also when the server is late, unless it fails.
AllServe ==
  mpc = "sleep" /\ (spc = "running" \/ transport = "ipc") ~>
    context # "alive" \/ \A w \in Workers : wpc[w] = "running"
=============================================================================
