--------------------------- MODULE StartupProofs ---------------------------
(***************************************************************************)
(* Proofs about the start of the program (module Startup), for any number  *)
(* of workers and both transports.                                         *)
(***************************************************************************)
EXTENDS Startup, TLAPS

(* What main's loop keeps between its counter, the number it shares with    *)
(* the workers, and the threads it has started: the shared number is that   *)
(* of the last worker started or of the one that is started next.           *)
LoopInv ==
  /\ mpc \in {"server", "sleep"} => num = 0
  /\ mpc \in {"store", "spawn"} => num < WorkerNums
  /\ mpc = "spawn" => confNum = num
  /\ num > 0 => confNum \in num - 1..WorkerNums - 1
  /\ \A w \in Workers : wpc[w] # "none" => w < num

(* The broker's thread terminates the context only on its way out, binds    *)
(* the back address only when it comes up, and then never leaves its loop.  *)
ServerInv ==
  /\ mpc = "server" => spc = "none"
  /\ context = "alive" <=> spc \notin {"term", "ended"}
  /\ bound <=> spc = "running"
  /\ \A w \in Workers : wpc[w] \in {"connect", "running"} => w \in sockets

IInv == TypeOK /\ LoopInv /\ ServerInv /\ NumberNotStale /\ RunsWithServer

-----------------------------------------------------------------------------
LEMMA InitTyped == Init => TypeOK
<1>1. 0 \in 0..WorkerNums BY StartupAssumption
<1> QED BY <1>1 DEF Init, TypeOK

LEMMA TypeStep ==
  ASSUME TypeOK, LoopInv, Next
  PROVE  TypeOK'
<1>1. WorkerNums \in Nat BY StartupAssumption
<1>2. CASE Main
  <2> USE DEF TypeOK, workerVars
  <2>1. CASE SpawnServer BY <2>1 DEF SpawnServer
  <2>2. CASE Sleep BY <2>2 DEF Sleep, Loop
  <2>3. CASE StoreNum BY <2>3 DEF StoreNum
  <2>4. CASE SpawnWorker
    BY <1>1, <2>4 DEF SpawnWorker, LoopInv, Loop, Workers
  <2>5. CASE Join BY <2>5 DEF Join
  <2> QED BY <1>2, <2>1, <2>2, <2>3, <2>4, <2>5 DEF Main
<1>3. CASE Server
  BY <1>3 DEF Server, BindFront, BindBack, Destroy, Term, TypeOK, mainVars,
              workerVars
<1>4. ASSUME NEW w \in Workers, Worker(w) PROVE TypeOK'
  <2> USE DEF TypeOK, mainVars, workerVars
  <2>1. CASE SetWorkerNum(w) BY <2>1 DEF SetWorkerNum
  <2>2. CASE Socket(w) BY <2>2 DEF Socket
  <2>3. CASE SocketFails(w) BY <2>3 DEF SocketFails
  <2>4. CASE SocketCrashes(w) BY <2>4 DEF SocketCrashes
  <2>5. CASE Connect(w) BY <2>5 DEF Connect
  <2>6. CASE RecvFails(w) BY <2>6 DEF RecvFails
  <2>7. CASE Mkdir(w) BY <2>7 DEF Mkdir, BuildEnv
  <2>8. CASE MkdirExists(w) BY <2>8 DEF MkdirExists, BuildEnv
  <2>9. CASE OpenDir(w) BY <2>9 DEF OpenDir, BuildEnv
  <2>10. CASE Unlink(w) BY <2>10 DEF Unlink, BuildEnv
  <2>11. CASE Rmdir(w) BY <2>11 DEF Rmdir, BuildEnv
  <2> QED BY <1>4, <2>1, <2>2, <2>3, <2>4, <2>5, <2>6, <2>7, <2>8, <2>9,
             <2>10, <2>11 DEF Worker
<1> QED BY <1>2, <1>3, <1>4 DEF Next

LEMMA LoopStep ==
  ASSUME TypeOK, LoopInv, Next
  PROVE  LoopInv'
<1>1. /\ WorkerNums \in Nat /\ num \in Int /\ confNum \in Int
      /\ wpc \in [Workers -> {"none", "start", "socket", "connect", "running",
                              "mkdir", "opendir", "unlink", "rmdir", "ended"}]
      /\ \A w \in Workers : w \in Int
  BY StartupAssumption DEF TypeOK, Workers
<1>2. CASE Main
  <2> USE <1>1 DEF LoopInv
  <2>1. CASE SpawnServer BY <2>1 DEF SpawnServer, workerVars
  <2>2. CASE Sleep BY <2>2 DEF Sleep, workerVars, Loop, TypeOK
  <2>3. CASE StoreNum BY <2>3 DEF StoreNum, workerVars
  <2>4. CASE SpawnWorker BY <2>4 DEF SpawnWorker, Loop, TypeOK
  <2>5. CASE Join BY <2>5 DEF Join, workerVars
  <2> QED BY <1>2, <2>1, <2>2, <2>3, <2>4, <2>5 DEF Main
<1>3. CASE Server
  BY <1>3 DEF Server, BindFront, BindBack, Destroy, Term, LoopInv, mainVars,
              workerVars
<1>4. ASSUME NEW w \in Workers, Worker(w) PROVE LoopInv'
  BY <1>1, <1>4 DEF Worker, SetWorkerNum, Socket, SocketFails, SocketCrashes,
                    Connect, RecvFails, BuildEnv, Mkdir, MkdirExists, OpenDir,
                    Unlink, Rmdir, LoopInv, mainVars, workerVars
<1> QED BY <1>2, <1>3, <1>4 DEF Next

LEMMA ServerStep ==
  ASSUME TypeOK, ServerInv, Next
  PROVE  ServerInv'
<1>1. wpc \in [Workers -> {"none", "start", "socket", "connect", "running",
                           "mkdir", "opendir", "unlink", "rmdir", "ended"}]
  BY DEF TypeOK
<1>2. CASE Main
  <2>1. CASE SpawnServer BY <2>1 DEF SpawnServer, ServerInv, workerVars
  <2>2. CASE SpawnWorker BY <1>1, <2>2 DEF SpawnWorker, Loop, ServerInv
  <2>3. CASE Sleep \/ StoreNum \/ Join
    BY <2>3 DEF Sleep, StoreNum, Join, Loop, ServerInv, workerVars
  <2> QED BY <1>2, <2>1, <2>2, <2>3 DEF Main
<1>3. CASE Server
  BY <1>3 DEF Server, BindFront, BindBack, Destroy, Term, ServerInv, mainVars,
              workerVars
<1>4. ASSUME NEW w \in Workers, Worker(w) PROVE ServerInv'
  BY <1>1, <1>4 DEF Worker, SetWorkerNum, Socket, SocketFails, SocketCrashes,
                    Connect, RecvFails, BuildEnv, Mkdir, MkdirExists, OpenDir,
                    Unlink, Rmdir, ServerInv, mainVars, workerVars
<1> QED BY <1>2, <1>3, <1>4 DEF Next

(* Only SetWorkerNum writes a number, that main has stored no earlier than  *)
(* for this worker; SpawnWorker starts a worker that has none yet.          *)
LEMMA NumberStep ==
  ASSUME TypeOK, LoopInv, NumberNotStale, Next
  PROVE  NumberNotStale'
<1>1. /\ WorkerNums \in Nat /\ num \in Int /\ confNum \in Int
      /\ wpc \in [Workers -> {"none", "start", "socket", "connect", "running",
                              "mkdir", "opendir", "unlink", "rmdir", "ended"}]
      /\ number \in [Workers -> 0..WorkerNums]
      /\ \A w \in Workers : w \in 0..WorkerNums - 1
  BY StartupAssumption DEF TypeOK, Workers
<1>2. CASE Main
  BY <1>1, <1>2 DEF Main, SpawnServer, Sleep, StoreNum, SpawnWorker, Join,
                    NumberNotStale, workerVars
<1>3. CASE Server
  BY <1>3 DEF Server, BindFront, BindBack, Destroy, Term, NumberNotStale,
              workerVars
<1>4. ASSUME NEW w \in Workers, Worker(w) PROVE NumberNotStale'
  <2>1. CASE SetWorkerNum(w)
    <3>1. confNum \in w..WorkerNums - 1
      BY <1>1, <2>1 DEF SetWorkerNum, LoopInv
    <3> QED BY <1>1, <2>1, <3>1 DEF SetWorkerNum, NumberNotStale
  <2>2. CASE ~SetWorkerNum(w)
    BY <1>1, <1>4, <2>2 DEF Worker, Socket, SocketFails, SocketCrashes,
       Connect, RecvFails, BuildEnv, Mkdir, MkdirExists, OpenDir, Unlink, Rmdir,
       NumberNotStale, mainVars, workerVars
  <2> QED BY <2>1, <2>2
<1> QED BY <1>2, <1>3, <1>4 DEF Next

LEMMA RunsStep ==
  ASSUME TypeOK, ServerInv, RunsWithServer, Next
  PROVE  RunsWithServer'
<1>1. wpc \in [Workers -> {"none", "start", "socket", "connect", "running",
                           "mkdir", "opendir", "unlink", "rmdir", "ended"}]
  BY DEF TypeOK
<1>2. CASE Main
  BY <1>1, <1>2 DEF Main, SpawnServer, Sleep, StoreNum, SpawnWorker, Join,
                    RunsWithServer, ServerInv, workerVars
<1>3. CASE Server
  BY <1>3 DEF Server, BindFront, BindBack, Destroy, Term, RunsWithServer,
              mainVars, workerVars
<1>4. ASSUME NEW w \in Workers, Worker(w) PROVE RunsWithServer'
  BY <1>1, <1>4 DEF Worker, SetWorkerNum, Socket, SocketFails, SocketCrashes,
     Connect, CanConnect, RecvFails, BuildEnv, Mkdir, MkdirExists, OpenDir,
     Unlink, Rmdir, RunsWithServer, ServerInv, mainVars,
     workerVars
<1> QED BY <1>2, <1>3, <1>4 DEF Next

LEMMA Inductive == Spec => []IInv
<1>1. Init => IInv
  BY InitTyped, StartupAssumption
     DEF Init, IInv, LoopInv, ServerInv, NumberNotStale, RunsWithServer
<1>2. IInv /\ [Next]_vars => IInv'
  <2> SUFFICES ASSUME IInv, [Next]_vars PROVE IInv'
    OBVIOUS
  <2>1. CASE Next
    BY <2>1, TypeStep, LoopStep, ServerStep, NumberStep, RunsStep DEF IInv
  <2>2. CASE UNCHANGED vars
    BY <2>2 DEF vars, IInv, TypeOK, LoopInv, ServerInv, NumberNotStale,
                RunsWithServer, CanConnect
  <2> QED BY <2>1, <2>2
<1> QED BY <1>1, <1>2, PTL DEF Spec

-----------------------------------------------------------------------------
(* The type invariant of the start, for any worker_nums.                    *)
THEOREM TypeCorrect == Spec => []TypeOK
BY Inductive, PTL DEF IInv

(* startWorker copies worker_conf.num while main goes on counting: the      *)
(* number is the worker's own or that of a later worker, always below       *)
(* worker_nums.                                                             *)
THEOREM NumbersNotStale == Spec => []NumberNotStale
BY Inductive, PTL DEF IInv

(* Over inproc a worker that got past connect runs beside a broker in its   *)
(* loop, and the context it uses is alive.                                  *)
THEOREM WorkersRunWithServer == Spec => []RunsWithServer
BY Inductive, PTL DEF IInv
=============================================================================
