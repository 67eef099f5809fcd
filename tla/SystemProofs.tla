---------------------------- MODULE SystemProofs ----------------------------
(***************************************************************************)
(* Proofs about the judge as a whole (module System), for any clients,     *)
(* workers, submissions and run_ids.  System is both a JudgeServer, whose  *)
(* workers work step by step, and a JudgeWorker, whose tasks come from the *)
(* broker; what is proved of either (JudgeServerProofs, JudgeWorkerProofs) *)
(* then holds of System, and together they give what neither has alone.    *)
(***************************************************************************)
EXTENDS System, SequenceTheorems, FiniteSetTheorems, TLAPS

\* The substitutions are those of S and W.
SP == INSTANCE JudgeServerProofs WITH
        Kinds <- {"ends", "unbuilt"}, Faults <- {"env", "file"},
        MaxRequests <- Cardinality(Tasks),
        wstate <- [w \in Workers |-> CASE wpc[w] = "idle" -> "recv"
                                       [] wpc[w] = "dead" -> "dead"
                                       [] OTHER -> "busy"]

WP == INSTANCE JudgeWorkerProofs WITH
        task <- [w \in Workers |-> TaskOf(task[w])]

LEMMA Assumptions == WP!WorkerAssumption /\ SP!ServerAssumption
<1>1. WP!WorkerAssumption
  BY SystemAssumption DEF WP!WorkerAssumption
<1>2. Cardinality(Tasks) \in Nat
  BY SystemAssumption, FS_CardinalityType
<1>3. SP!ServerAssumption
  BY <1>2, SystemAssumption
     DEF SP!ServerAssumption, SP!Kind, SP!Fault, SP!IsFiniteSet, IsFiniteSet
<1> QED
  BY <1>1, <1>3

-----------------------------------------------------------------------------
(* An action has the same meaning through either instance of its module.    *)
LEMMA SameWorker ==
  ASSUME NEW w, NEW t
  PROVE  /\ W!Worker(w) => WP!Worker(w)
         /\ W!Take(w, t) => WP!Take(w, t)
         /\ W!Id(w) = WP!Id(w) /\ W!Program(w) = WP!Program(w)
<1>0. W!OpenFds = WP!OpenFds
  BY Zenon DEF W!OpenFds, WP!OpenFds, W!OpenTests, WP!OpenTests,
     W!Cardinality, WP!Cardinality
<1>1. W!Worker(w) => WP!Worker(w)
  BY <1>0, Zenon DEF W!Goto, WP!Goto, W!Id, WP!Id, W!Dir, WP!Dir, W!SetDir, WP!SetDir,
     W!Write, WP!Write, W!NoDir, WP!NoDir, W!EmptyDir, WP!EmptyDir, W!Mkdir,
     WP!Mkdir, W!MkdirExists, WP!MkdirExists, W!MkdirFails, WP!MkdirFails,
     W!OpenDir, WP!OpenDir, W!Unlink, WP!Unlink, W!Rmdir, WP!Rmdir,
     W!StoreSourceFile, WP!StoreSourceFile, W!StartCompiler, WP!StartCompiler,
     W!SystemFails, WP!SystemFails, W!Link, WP!Link, W!HasData, WP!HasData,
     W!ReadError, WP!ReadError, W!AllTested, WP!AllTested, W!GetFileno, WP!GetFileno,
     W!GetFilenoFails, WP!GetFilenoFails, W!Program, WP!Program, W!Ran, WP!Ran,
     W!Litter, WP!Litter, W!ExecutePasses, WP!ExecutePasses, W!ExecuteStops,
     WP!ExecuteStops, W!WorkersAt, WP!WorkersAt, W!Reply, WP!Reply,
     W!SendError, WP!SendError, W!Worker, WP!Worker, W!Take, WP!Take
<1>2. W!Take(w, t) => WP!Take(w, t)
  BY Zenon DEF W!Take, WP!Take, W!Goto, WP!Goto
<1>3. W!Id(w) = WP!Id(w) /\ W!Program(w) = WP!Program(w)
  BY Zenon DEF W!Id, WP!Id, W!Dir, WP!Dir, W!Program, WP!Program
<1> QED
  BY <1>1, <1>2, <1>3

LEMMA SameInit ==
  /\ W!Init => WP!Init
  /\ S!Init => SP!Init
<1>1. W!Init => WP!Init
  BY Zenon DEF W!Init, WP!Init, W!NoTask, WP!NoTask, W!RunIds, WP!RunIds,
     W!NoDir, WP!NoDir, W!OldDir, WP!OldDir
<1>2. S!Init => SP!Init
  BY Zenon DEF S!Init, SP!Init, S!NoRequest, SP!NoRequest
<1> QED
  BY <1>1, <1>2

LEMMA SameServer ==
  ASSUME NEW c, NEW w, NEW kind
  PROVE  /\ S!Send(c, kind) => SP!Send(c, kind)
         /\ S!Recv(c) => SP!Recv(c)
         /\ S!Leave(c) => SP!Leave(c)
         /\ S!Broker => SP!Broker
         /\ S!Take(w) => SP!Take(w)
         /\ S!Reply(w) => SP!Reply(w)
BY Zenon DEF S!Send, SP!Send, S!Recv, SP!Recv, S!Leave, SP!Leave, S!Poll,
     SP!Poll, S!RecvFront, SP!RecvFront, S!SkipFront, SP!SkipFront, S!SendBack,
     SP!SendBack, S!RecvBack, SP!RecvBack, S!SkipBack, SP!SkipBack,
     S!FrontReady, SP!FrontReady, S!BackReady, SP!BackReady, S!Broker,
     SP!Broker, S!Take, SP!Take, S!Reply, SP!Reply, S!clientVars, SP!clientVars,
     S!serverVars, SP!serverVars, S!workerVars, SP!workerVars

-----------------------------------------------------------------------------
(* System implements JudgeWorker.                                           *)
LEMMA TodoStep ==
  ASSUME todo \subseteq Tasks, [Next]_vars
  PROVE  todo' \subseteq Tasks
<1>1. CASE UNCHANGED todo BY <1>1
<1>2. ASSUME NEW w \in Workers, Take(w) PROVE todo' \subseteq Tasks
  BY <1>2 DEF Take, W!Take
<1>3. ASSUME NEW w \in Workers, Working(w) PROVE UNCHANGED todo
  BY <1>3 DEF Working, W!Worker, W!Mkdir, W!MkdirExists, W!MkdirFails,
     W!OpenDir, W!Unlink, W!Rmdir, W!StoreSourceFile, W!StartCompiler,
     W!SystemFails, W!Link, W!HasData, W!ReadError, W!AllTested, W!GetFileno,
     W!GetFilenoFails, W!Litter, W!ExecutePasses, W!ExecuteStops, W!Reply,
     W!SendError
<1> QED
  BY <1>1, <1>2, <1>3 DEF Next, Client, Broker, Worker, Step, Judged, Reply,
     SendError, workerVars, vars

(* What a step of client or broker leaves alone.                            *)
LEMMA OutsideWorkers ==
  ASSUME NEW c, (Client(c) \/ Broker)
  PROVE  UNCHANGED <<workerVars, task, down, results>>
<1>1. CASE Client(c)
  BY <1>1 DEF Client, S!Send, S!Recv, S!Leave, S!workerVars
<1>2. CASE Broker
  BY <1>2 DEF Broker, S!Broker, S!Poll, S!SkipFront, S!SkipBack, S!RecvFront,
     S!SendBack, S!RecvBack, S!workerVars
<1> QED
  BY <1>1, <1>2

LEMMA WorkerStep ==
  ASSUME todo \subseteq Tasks, [Next]_vars
  PROVE  [WP!Next]_(WP!vars)
<1>1. ASSUME NEW c \in Clients, Client(c) \/ Broker PROVE UNCHANGED WP!vars
  BY <1>1, OutsideWorkers DEF WP!vars, workerVars
<1>2. ASSUME NEW w \in Workers, Take(w) PROVE WP!Next
  <2> DEFINE t == TaskOf(Head(queue[w]))
  <2>1. W!Take(w, t) /\ t \in todo
    BY <1>2 DEF Take, W!Take
  <2> HIDE DEF t
  <2>2. WP!Take(w, t)
    BY <2>1, SameWorker
  <2> QED
    BY <2>1, <2>2 DEF WP!Next
<1>3. ASSUME NEW w \in Workers, Working(w) PROVE WP!Next
  BY <1>3, SameWorker DEF Working, WP!Next
<1>4. CASE UNCHANGED vars
  BY <1>4 DEF vars, workerVars, WP!vars
<1>5. CASE Broker
  BY <1>5, OutsideWorkers DEF WP!vars, workerVars
<1> QED
  BY <1>1, <1>2, <1>3, <1>4, <1>5
     DEF Next, Worker, Step, Judged, Reply, SendError

LEMMA ImplementsWorkers == Spec => WP!Spec
<1>1. Init => todo \subseteq Tasks
  BY DEF Init, W!Init
<1>2. Init => WP!Init
  BY SameInit DEF Init
<1>3. (todo \subseteq Tasks) /\ [Next]_vars => (todo \subseteq Tasks)'
  BY TodoStep
<1>4. (todo \subseteq Tasks) /\ [Next]_vars => [WP!Next]_(WP!vars)
  BY WorkerStep
<1> QED
  BY <1>1, <1>2, <1>3, <1>4, PTL DEF Spec, WP!Spec

LEMMA WorkersInductive == Spec => []WP!WorkersInv
<1>1. WP!Spec => []WP!WorkersInv
  BY Assumptions, WP!WorkersInductive
<1> QED BY <1>1, ImplementsWorkers, PTL

-----------------------------------------------------------------------------
(* System implements JudgeServer.                                           *)

(* What a worker is to the broker.                                          *)
StateOf(pc) == CASE pc = "idle" -> "recv" [] pc = "dead" -> "dead"
                 [] OTHER -> "busy"
States == [w \in Workers |-> CASE wpc[w] = "idle" -> "recv"
                               [] wpc[w] = "dead" -> "dead"
                               [] OTHER -> "busy"]

LEMMA StatesStep ==
  ASSUME WP!TypeOK, NEW w \in Workers, W!Worker(w)
  PROVE  States' = [States EXCEPT ![w] = StateOf(wpc'[w])]
<1>1. PICK to : wpc' = [wpc EXCEPT ![w] = to]
  BY SameWorker, Assumptions, WP!PcStep
<1> QED BY <1>1 DEF States, StateOf, WP!TypeOK

(* A client's request says what its submission is.                          *)
Fits ==
  \A c \in Clients : current[c] \in SP!Request =>
    /\ current[c].n \in DOMAIN Submissions[c]
    /\ current[c].kind = KindOf(Submissions[c][current[c].n])

(* A request on its way, or with its worker, is about a submission of the   *)
(* client it names, which has made no other since.                          *)
LEMMA Placed ==
  ASSUME SP!IInv, Fits, NEW p, NEW x, NEW i, NEW r, SP!At(p, x, i, r)
  PROVE  /\ r \in SP!Request /\ r.client \in Clients
         /\ r = current[r.client] /\ cstate[r.client] # "idle"
         /\ r.n \in DOMAIN Submissions[r.client]
         /\ TaskOf(r) = Submissions[r.client][r.n] /\ TaskOf(r) \in Tasks
         /\ r.kind = KindOf(TaskOf(r))
<1>1. r \in SP!Request /\ r = current[r.client] /\ cstate[r.client] # "idle"
  BY DEF SP!IInv, SP!OnlyCurrent
<1>2. r.client \in Clients /\ r.n \in 1..Cardinality(Tasks)
  BY <1>1 DEF SP!Request
<1>3. r.n # 0
  <2>1. Cardinality(Tasks) \in Nat BY SystemAssumption, FS_CardinalityType
  <2> QED BY <1>2, <2>1
<1>4. /\ r.n \in DOMAIN Submissions[r.client]
      /\ r.kind = KindOf(Submissions[r.client][r.n])
  BY <1>1, <1>2 DEF Fits
<1>5. Submissions[r.client] \in Seq(Tasks)
  BY <1>2, SystemAssumption
<1>6. Submissions[r.client][r.n] \in Tasks
  BY <1>4, <1>5
<1> QED BY <1>1, <1>2, <1>3, <1>4, <1>6 DEF TaskOf

(* In particular the one a worker works on.                                 *)
LEMMA BusyTask ==
  ASSUME SP!IInv, Fits, NEW w \in Workers, wpc[w] \notin {"idle", "dead"}
  PROVE  LET r == task[w]
         IN  /\ SP!At("task", w, 1, r)
             /\ r \in SP!Request /\ r.client \in Clients
             /\ Current(w) \in Tasks
             /\ r.kind = KindOf(Current(w))
<1>1. SP!At("task", w, 1, task[w])
  BY DEF SP!At
<1> QED BY <1>1, Placed DEF Current

(* A step of a worker that goes on is none of the broker's, or ends the     *)
(* process; one that ends sends the reply of a task that was judged, or of  *)
(* one that could not be.                                                   *)
LEMMA GoesOn ==
  ASSUME SP!IInv, Fits, WP!WorkersInv, NEW w \in Workers, Working(w),
         wpc'[w] \notin {"idle", "dead"}, UNCHANGED <<back, dropped>>
  PROVE  S!ProcessExit(w) \/ UNCHANGED S!vars
<1>1. /\ WP!Worker(w) /\ WP!TypeOK /\ WP!CountInv
      /\ UNCHANGED <<clientVars, brokerVars, task, queue>>
  BY SameWorker DEF Working, WP!WorkersInv
<1>2. ~down /\ wpc[w] \notin {"idle", "dead"} /\ down' \in BOOLEAN
  BY <1>1, Assumptions, WP!Runs, WP!OthersStep
<1>3. States' = States
  <2>1. States' = [States EXCEPT ![w] = "busy"] /\ States[w] = "busy"
    BY <1>1, <1>2, StatesStep DEF StateOf, States, Working
  <2> QED BY <2>1 DEF States
<1>4. UNCHANGED <<S!clientVars, front, S!serverVars, S!workerVars>>
  BY <1>1, <1>3 DEF clientVars, brokerVars, S!clientVars, S!serverVars,
     S!workerVars, States
<1>5. CASE down'
  <2>1. task[w].kind # "mistyped"
    BY <1>2, BusyTask DEF KindOf
  <2>2. States[w] = "busy" BY <1>2 DEF States
  <2> QED BY <1>2, <1>4, <1>5, <2>1, <2>2 DEF S!ProcessExit, States
<1>6. CASE ~down'
  <2>1. down \in BOOLEAN BY <1>1 DEF WP!TypeOK
  <2>2. down' = down BY <2>1, <1>2, <1>6
  <2> QED BY <2>2, <1>4 DEF S!vars, S!clientVars, S!serverVars, S!workerVars
<1> QED BY <1>5, <1>6

LEMMA RepliesJudged ==
  ASSUME SP!IInv, Fits, WP!WorkersInv, NEW w \in Workers, Reply(w)
  PROVE  S!Judged(w)
<1>1. /\ WP!Worker(w) /\ WP!TypeOK /\ W!Worker(w) /\ wpc'[w] = "idle"
      /\ S!Reply(w) /\ UNCHANGED <<clientVars, brokerVars, task, queue>>
  BY SameWorker DEF Reply, Working, WP!WorkersInv
<1>2. ~down /\ wpc[w] \notin {"idle", "dead"}
  BY <1>1, Assumptions, WP!Runs
<1>3. WP!Reply(w) /\ wpc[w] = "reply"
  BY <1>1, Assumptions, WP!Ends
<1>4. down' = down BY <1>3 DEF WP!Reply
<1>5. Current(w) \notin Unbuilt
  BY <1>2, <1>3 DEF WP!WorkersInv, WP!BuiltInv, Current
<1>6. task[w].kind = "ends" BY <1>2, <1>5, BusyTask DEF KindOf
<1>7. States' = [States EXCEPT ![w] = "recv"] /\ States[w] = "busy"
  BY <1>1, <1>2, StatesStep DEF StateOf, States
<1> QED BY <1>1, <1>2, <1>4, <1>6, <1>7
        DEF S!Judged, States, clientVars, brokerVars, S!clientVars, S!serverVars

LEMMA RepliesFailed ==
  ASSUME SP!IInv, Fits, WP!WorkersInv, NEW w \in Workers, SendError(w)
  PROVE  S!Failed(w)
<1>1. /\ WP!Worker(w) /\ WP!TypeOK /\ W!Worker(w) /\ wpc'[w] = "dead"
      /\ S!Reply(w) /\ UNCHANGED <<clientVars, brokerVars, task, queue>>
  BY SameWorker DEF SendError, Working, WP!WorkersInv
<1>2. ~down /\ wpc[w] \notin {"idle", "dead"}
  BY <1>1, Assumptions, WP!Runs
<1>3. WP!SendError(w) BY <1>1, Assumptions, WP!Ends
<1>4. down' = down BY <1>3 DEF WP!SendError
<1>5. task[w].kind # "mistyped" BY <1>2, BusyTask DEF KindOf
<1>6. States' = [States EXCEPT ![w] = "dead"] /\ States[w] = "busy"
  BY <1>1, <1>2, StatesStep DEF StateOf, States
<1> QED BY <1>1, <1>2, <1>4, <1>5, <1>6
        DEF S!Failed, States, clientVars, brokerVars, S!clientVars, S!serverVars

LEMMA ServerStep ==
  ASSUME SP!IInv, Fits, WP!WorkersInv, [Next]_vars
  PROVE  [S!Next]_(S!vars)
<1>1. ASSUME NEW c \in Clients, Client(c) PROVE S!Next
  BY <1>1 DEF Client, KindOf, S!Client, S!Next
<1>2. CASE Broker BY <1>2 DEF Broker, S!Next
<1>3. ASSUME NEW w \in Workers, Worker(w) PROVE [S!Next]_(S!vars)
  <2>1. CASE Take(w) BY <2>1 DEF Take, S!Worker, S!Next
  <2>2. CASE Step(w)
    <3>1. S!ProcessExit(w) \/ UNCHANGED S!vars BY <2>2, GoesOn DEF Step
    <3> QED BY <3>1 DEF S!Worker, S!Next
  <2>3. CASE Judged(w)
    <3>1. S!ProcessExit(w) \/ UNCHANGED S!vars BY <2>3, GoesOn DEF Judged
    <3> QED BY <3>1 DEF S!Worker, S!Next
  <2>4. CASE Reply(w) BY <2>4, RepliesJudged DEF S!Worker, S!Next
  <2>5. CASE SendError(w) BY <2>5, RepliesFailed DEF S!Worker, S!Next
  <2> QED BY <1>3, <2>1, <2>2, <2>3, <2>4, <2>5 DEF Worker
<1>4. CASE UNCHANGED vars
  BY <1>4 DEF vars, clientVars, brokerVars, pipeVars, workerVars, S!vars
<1> QED BY <1>1, <1>2, <1>3, <1>4 DEF Next

LEMMA SameNext == [S!Next]_(S!vars) => [SP!Next]_(SP!vars)
<1>1. ASSUME NEW w PROVE S!Worker(w) => SP!Worker(w)
  BY Zenon DEF S!Worker, SP!Worker, S!Take, SP!Take, S!Judged, SP!Judged,
     S!Failed, SP!Failed, S!ParseThrows, SP!ParseThrows, S!ProcessExit,
     SP!ProcessExit, S!Reply, SP!Reply, S!clientVars, SP!clientVars,
     S!serverVars, SP!serverVars, S!workerVars, SP!workerVars
<1>2. ASSUME NEW c PROVE S!Client(c) => SP!Client(c)
  BY SameServer DEF S!Client, SP!Client
<1>3. S!Broker => SP!Broker BY SameServer
<1>4. S!Next => SP!Next BY <1>1, <1>2, <1>3 DEF S!Next, SP!Next
<1>5. UNCHANGED S!vars => UNCHANGED SP!vars BY Zenon DEF S!vars, SP!vars
<1> QED BY <1>4, <1>5

LEMMA FitsStep ==
  ASSUME SP!TypeOK, Fits, [Next]_vars
  PROVE  Fits'
<1>1. CASE UNCHANGED current BY <1>1 DEF Fits, SP!Request
<1>2. ASSUME NEW c \in Clients, asked[c] < Len(Submissions[c]),
             S!Send(c, KindOf(Submissions[c][asked[c] + 1]))
      PROVE  Fits'
  <2> DEFINE n == asked[c] + 1
  <2>1. n \in Nat \ {0} /\ n <= Len(Submissions[c])
    <3>1. asked[c] \in Nat BY DEF SP!TypeOK
    <3>2. Len(Submissions[c]) \in Nat BY SystemAssumption
    <3> QED BY <1>2, <3>1, <3>2
  <2>2. n \in DOMAIN Submissions[c]
    BY <2>1, SystemAssumption
  <2>3. /\ current'[c].n = n /\ current'[c].kind = KindOf(Submissions[c][n])
        /\ \A d \in Clients : d # c => current'[d] = current[d]
    BY <1>2 DEF S!Send, SP!TypeOK
  <2> HIDE DEF n
  <2> QED BY <2>2, <2>3 DEF Fits, SP!Request
<1>3. \/ UNCHANGED current
      \/ \E c \in Clients :
           /\ asked[c] < Len(Submissions[c])
           /\ S!Send(c, KindOf(Submissions[c][asked[c] + 1]))
  BY DEF Next, Client, S!Recv, S!Leave, Broker, S!Broker, S!Poll, S!SkipFront,
     S!SkipBack, S!RecvFront, S!SendBack, S!RecvBack, S!clientVars, Worker,
     Take, S!Take, Step, Judged, Reply, SendError, Working, clientVars, vars
<1> QED BY <1>1, <1>2, <1>3

(* What is on its way, and what clients ask for.                            *)
SystemInv == SP!IInv /\ Fits /\ WP!WorkersInv

LEMMA Inductive == Spec => []SystemInv
<1>1. Init => SP!IInv /\ Fits
  <2>1. Init => SP!IInv BY SameInit, Assumptions, SP!InitIInv DEF Init
  <2>2. Init => Fits
    BY Assumptions DEF Init, S!Init, S!NoRequest, Fits, SP!Request
  <2> QED BY <2>1, <2>2
<1>2. SP!IInv /\ Fits /\ WP!WorkersInv /\ [Next]_vars => (SP!IInv /\ Fits)'
  <2> SUFFICES ASSUME SP!IInv, Fits, WP!WorkersInv, [Next]_vars
               PROVE  (SP!IInv /\ Fits)'
    OBVIOUS
  <2>1. [SP!Next]_(SP!vars) BY ServerStep, SameNext
  <2>2. SP!IInv' BY <2>1, Assumptions, SP!IInvStep
  <2> QED BY <2>2, FitsStep DEF SP!IInv
<1> QED BY <1>1, <1>2, WorkersInductive, PTL DEF Spec, SystemInv

(* The workers with their system calls and shared directories are workers   *)
(* as module JudgeServer has them.                                          *)
THEOREM ImplementsServer == Spec => ServerSpec
<1>1. Init => S!Init BY DEF Init
<1>2. SystemInv /\ [Next]_vars => [S!Next]_(S!vars)
  BY ServerStep DEF SystemInv
<1> QED BY <1>1, <1>2, Inductive, PTL DEF Spec, ServerSpec, S!Spec

(* Hence the whole judge keeps what Service promises: at most one answer to *)
(* the request a client waits for, and no other.                            *)
THEOREM ImplementsService == Spec => SP!ServiceSpec
<1>1. Init => SP!S!ServiceInit
  BY SameInit DEF Init, SP!Init, SP!NoRequest, SP!S!ServiceInit
<1>2. SystemInv /\ [Next]_vars => [SP!S!ServiceNext]_(SP!S!serviceVars)
  <2> SUFFICES ASSUME SystemInv, [Next]_vars
               PROVE  SP!S!ServiceNext \/ UNCHANGED SP!S!serviceVars
    OBVIOUS
  <2>1. SP!Next \/ UNCHANGED SP!vars
    BY ServerStep, SameNext DEF SystemInv
  <2>2. CASE SP!Next
    BY <2>2, Assumptions, SP!StepImplements DEF SystemInv
  <2>3. CASE UNCHANGED SP!vars BY <2>3 DEF SP!vars, SP!S!serviceVars
  <2> QED BY <2>1, <2>2, <2>3
<1> QED
  BY <1>1, <1>2, Inductive, PTL DEF Spec, SP!ServiceSpec, SP!S!ServiceSpec

-----------------------------------------------------------------------------
LEMMA SameTypes ==
  /\ SP!TypeOK => S!TypeOK
  /\ WP!TypeOK => W!TypeOK
<1>1. SP!TypeOK => S!TypeOK
  BY Zenon DEF S!TypeOK, SP!TypeOK, S!Request, SP!Request, S!AnyRequest,
     SP!AnyRequest, S!NoRequest, SP!NoRequest
<1>2. W!OpenFds = WP!OpenFds
  BY Zenon DEF W!OpenFds, WP!OpenFds, W!OpenTests, WP!OpenTests,
     W!Cardinality, WP!Cardinality
<1>3. WP!TypeOK => W!TypeOK
  BY <1>2, Zenon DEF W!TypeOK, WP!TypeOK, W!Pcs, WP!Pcs, W!NoTask, WP!NoTask,
     W!Owners, WP!Owners, W!DirType, WP!DirType, W!RunIds, WP!RunIds
<1> QED BY <1>1, <1>3

ResultsOK == results \in [Tasks -> Results]

LEMMA ResultsStep ==
  ASSUME SystemInv, ResultsOK, [Next]_vars
  PROVE  ResultsOK'
<1>1. CASE UNCHANGED results BY <1>1 DEF ResultsOK, Results
<1>2. ASSUME NEW w \in Workers, Working(w)
      PROVE  Current(w) \in Tasks
  <2>1. wpc[w] \notin {"idle", "dead"}
    BY <1>2, SameWorker, Assumptions, WP!Runs DEF Working
  <2> QED BY <2>1, BusyTask DEF SystemInv
<1>3. ASSUME NEW w \in Workers, Judged(w) PROVE ResultsOK'
  <2> DEFINE t == Current(w)
  <2>1. t \in Tasks BY <1>2, <1>3 DEF Judged
  <2>2. PICK v \in {"passed", "error", "failed"} :
          results' = [results EXCEPT ![t] =
                        [run_id |-> RunId[t], verdict |-> v]]
    BY <1>3 DEF Judged, GetResults
  <2>3. [run_id |-> RunId[t], verdict |-> v] \in Results
    BY <2>1 DEF Results
  <2> HIDE DEF t
  <2> QED BY <2>1, <2>2, <2>3 DEF ResultsOK, Results
<1>4. ASSUME NEW w \in Workers, SendError(w) PROVE ResultsOK'
  <2> DEFINE t == Current(w)
  <2>1. t \in Tasks BY <1>2, <1>4 DEF SendError
  <2>2. results' = [results EXCEPT ![t] = [results[t] EXCEPT !.verdict = "error"]]
    BY <1>4 DEF SendError
  <2>3. results[t] \in Results BY <2>1 DEF ResultsOK
  <2>4. [results[t] EXCEPT !.verdict = "error"] \in Results
    BY <2>3 DEF Results
  <2> HIDE DEF t
  <2> QED BY <2>1, <2>2, <2>4 DEF ResultsOK, Results
<1>5. \/ UNCHANGED results
      \/ \E w \in Workers : Judged(w) \/ SendError(w)
  BY DEF Next, Client, Broker, Worker, Take, Step, Reply, vars
<1> QED BY <1>1, <1>3, <1>4, <1>5

(* The type invariant of the judge as a whole.                              *)
THEOREM TypeCorrect == Spec => []TypeOK
<1>1. Init => ResultsOK
  BY DEF Init, ResultsOK, Results
<1>2. SystemInv /\ ResultsOK /\ [Next]_vars => ResultsOK'
  BY ResultsStep
<1>3. SystemInv /\ ResultsOK => TypeOK
  BY SameTypes DEF SystemInv, SP!IInv, WP!WorkersInv, ResultsOK, TypeOK
<1> QED BY <1>1, <1>2, <1>3, Inductive, PTL DEF Spec

-----------------------------------------------------------------------------
(* Clients that choose different run_ids do not meet in the work            *)
(* directories, although each uses its own again and again.                 *)
OwnIds ==
  \A c, d \in Clients :
    \A i \in DOMAIN Submissions[c], j \in DOMAIN Submissions[d] :
      RunId[Submissions[c][i]] = RunId[Submissions[d][j]] => c = d

(* What the worker w has, and what is elsewhere, are of two clients.        *)
LEMMA Elsewhere ==
  ASSUME OwnIds, SystemInv, NEW w \in Workers, wpc[w] \notin {"idle", "dead"},
         NEW p, NEW x, NEW i, NEW r, SP!At(p, x, i, r),
         ~(p = "task" /\ x = w)
  PROVE  /\ TaskOf(r) \in Tasks /\ TaskOf(r) # Current(w)
         /\ RunId[TaskOf(r)] # WP!Id(w)
<1> DEFINE q == task[w]
<1>1. SP!At("task", w, 1, q) BY BusyTask DEF SystemInv
<1>2. q # r
  BY <1>1 DEF SystemInv, SP!IInv, SP!Unique
<1>3. /\ q.client \in Clients /\ q = current[q.client]
      /\ q.n \in DOMAIN Submissions[q.client]
      /\ Current(w) = Submissions[q.client][q.n]
  BY <1>1, Placed DEF SystemInv, Current
<1>4. /\ r.client \in Clients /\ r = current[r.client]
      /\ r.n \in DOMAIN Submissions[r.client]
      /\ TaskOf(r) = Submissions[r.client][r.n] /\ TaskOf(r) \in Tasks
  BY Placed DEF SystemInv
<1>5. q.client # r.client BY <1>2, <1>3, <1>4
<1>6. WP!Id(w) = RunId[Current(w)] BY DEF WP!Id, Current
<1> HIDE DEF q
<1>7. TaskOf(r) # Current(w)
  BY <1>3, <1>4, <1>5, SystemAssumption
<1>8. RunId[TaskOf(r)] # RunId[Current(w)]
  BY <1>3, <1>4, <1>5 DEF OwnIds
<1> QED BY <1>4, <1>6, <1>7, <1>8

(* So two workers at work have two directories.                             *)
LEMMA Apart ==
  ASSUME OwnIds, SystemInv, NEW w \in Workers, NEW v \in Workers \ {w},
         wpc[w] \notin {"idle", "dead"}, wpc[v] \notin {"idle", "dead"}
  PROVE  WP!Id(v) # WP!Id(w)
<1>1. SP!At("task", v, 1, task[v]) BY BusyTask DEF SystemInv
<1>2. WP!Id(v) = RunId[TaskOf(task[v])] BY DEF WP!Id
<1> QED BY <1>1, <1>2, Elsewhere

(* Each worker has the directory it works in to itself.                     *)
OwnDirs ==
  \A w \in Workers : wpc[w] \notin {"idle", "dead"} => WP!Own(w)

LEMMA OwnDirsStep ==
  ASSUME OwnIds, SystemInv, OwnDirs, [Next]_vars
  PROVE  OwnDirs'
<1> USE DEF OwnDirs
<1>1. WP!TypeOK /\ WP!CountInv /\ todo \subseteq Tasks
  BY DEF SystemInv, WP!WorkersInv, WP!TypeOK
<1>2. ASSUME NEW w \in Workers, WP!Worker(w) PROVE OwnDirs'
  <2>1. wpc[w] \notin {"idle", "dead"} BY <1>2, Assumptions, WP!Runs
  <2>2. WP!Own(w)' BY <1>1, <1>2, <2>1, Assumptions, WP!OwnWorkerStep
  <2>3. ASSUME NEW v \in Workers \ {w}, wpc'[v] \notin {"idle", "dead"}
        PROVE  WP!Own(v)'
    <3>1. wpc[v] = wpc'[v] BY <1>1, <1>2, Assumptions, WP!Frame
    <3>2. WP!Own(v) /\ WP!Id(v) # WP!Id(w) BY <2>1, <2>3, <3>1, Apart
    <3> QED BY <1>1, <1>2, <2>3, <3>1, <3>2, Assumptions, WP!OwnFrame
  <2> QED BY <2>2, <2>3
<1>3. ASSUME NEW w \in Workers, NEW t \in Tasks, WP!Take(w, t) PROVE OwnDirs'
  <2>1. \A v \in Workers \ {w} : wpc'[v] = wpc[v]
    BY <1>1, <1>3 DEF WP!Take, WP!Goto, WP!TypeOK
  <2>2. /\ WP!Own(w)'
        /\ \A v \in Workers \ {w} : WP!Own(v) => WP!Own(v)'
    BY <1>1, <1>3, Assumptions, WP!OwnTake
  <2> QED BY <2>1, <2>2
<1>4. CASE UNCHANGED WP!vars
  <2>1. ASSUME NEW v \in Workers, WP!Own(v) PROVE WP!Own(v)'
    BY <1>4, <2>1 DEF WP!vars, WP!Own, WP!Dir, WP!Id
  <2> QED BY <1>4, <2>1 DEF WP!vars
<1> QED BY <1>1, <1>2, <1>3, <1>4, WorkerStep DEF WP!Next

(* Compiler and tests, in terms of the directory of the worker.             *)
LEMMA Honestly ==
  ASSUME NEW w \in Workers, Working(w)
  PROVE  LET d == WP!Dir(w)  e == dir'[WP!Id(w)]
         IN  /\ WP!Worker(w) /\ UNCHANGED task
             /\ wpc[w] = "link" =>
                  IF read[w] \in Broken \cup {"none"} THEN e.main = d.main
                  ELSE e.error = d.error
             /\ wpc[w] = "execute" /\ wpc'[w] # "execute" =>
                  (wpc'[w] = "open" <=> WP!Program(w) \in Right)
<1>1. WP!Dir(w) = dir[WP!Id(w)] BY DEF WP!Dir
<1> QED BY <1>1, SameWorker DEF Working, Honest

(* Files a worker has open and does not use are those of a submission that  *)
(* failed.                                                                  *)
FailedInv ==
  \A v \in Workers : \A e \in fds[v] :
    e[1] \in Failed \/ (wpc[v] = "execute" /\ e[1] = Current(v))

LEMMA FailedStep ==
  ASSUME SystemInv, ResultsOK, FailedInv, [Next]_vars
  PROVE  FailedInv'
<1>1. WP!TypeOK /\ WP!CountInv /\ WP!LeakInv
  BY DEF SystemInv, WP!WorkersInv
<1>2. ASSUME NEW w \in Workers, Working(w),
             \A t \in Tasks \ {Current(w)} : results'[t] = results[t],
             \A e \in fds'[w] : e[1] \in Failed' \/
               (wpc'[w] = "execute" /\ e[1] = Current(w))
      PROVE  FailedInv'
  <2>1. WP!Worker(w) /\ wpc[w] # "idle" /\ UNCHANGED task
    BY <1>2, Honestly, Assumptions, WP!Runs
  <2>2. \A v \in Workers : Current(v)' = Current(v) BY <2>1 DEF Current
  <2>3. ASSUME NEW v \in Workers \ {w}, NEW e \in fds'[v]
        PROVE  e[1] \in Failed' \/ (wpc'[v] = "execute" /\ e[1] = Current(v))
    <3>1. wpc'[v] = wpc[v] /\ e \in fds[v]
      BY <1>1, <2>1, <2>3, Assumptions, WP!Frame
    <3>2. e[1] # Current(w)
      BY <1>1, <2>1, <3>1 DEF WP!LeakInv, Current
    <3> QED BY <1>2, <3>1, <3>2 DEF FailedInv, Failed
  <2> QED BY <1>2, <2>2, <2>3 DEF FailedInv
<1>3. ASSUME NEW w \in Workers, Working(w), UNCHANGED results,
             wpc[w] = "execute" => wpc'[w] # "opendir"
      PROVE  FailedInv'
  <2>1. WP!Worker(w) /\ UNCHANGED task /\ Failed' = Failed
    BY <1>3, Honestly DEF Failed
  <2>2. \A from, to : WP!Goto(w, from, to) => wpc[w] = from /\ wpc'[w] = to
    BY <1>1 DEF WP!Goto, WP!TypeOK
  <2>3. CASE WP!GetFileno(w)
    <3>1. wpc[w] = "open" /\ wpc'[w] = "execute"
      BY <2>2, <2>3 DEF WP!GetFileno
    <3>2. fds'[w] = fds[w] \cup {<<Current(w), num[w]>>}
      BY <1>1, <2>3 DEF WP!GetFileno, WP!TypeOK, Current
    <3>3. \A e \in fds[w] : e[1] \in Failed BY <3>1 DEF FailedInv
    <3>4. \A e \in fds'[w] : e[1] \in Failed' \/ e[1] = Current(w)
      BY <2>1, <3>2, <3>3
    <3> QED BY <1>2, <1>3, <3>1, <3>4
  <2>4. CASE WP!ExecutePasses(w) \/ WP!SendError(w)
    <3>1. fds'[w] = {}
      BY <1>1, <2>4 DEF WP!ExecutePasses, WP!SendError, WP!TypeOK
    <3> QED BY <1>2, <1>3, <3>1
  <2>5. CASE ~WP!GetFileno(w) /\ ~WP!ExecutePasses(w) /\ ~WP!SendError(w)
    <3>1. UNCHANGED fds
      BY <2>1, <2>5 DEF WP!Worker, WP!Mkdir, WP!MkdirExists, WP!MkdirFails,
         WP!OpenDir, WP!Unlink, WP!Rmdir, WP!StoreSourceFile,
         WP!StartCompiler, WP!SystemFails, WP!Link, WP!HasData, WP!ReadError,
         WP!AllTested, WP!GetFilenoFails, WP!Litter, WP!ExecuteStops,
         WP!Reply
    <3>2. wpc[w] = "execute" => wpc'[w] = "execute"
      <4>1. ASSUME wpc[w] = "execute"
            PROVE  WP!Litter(w) \/ WP!ExecuteStops(w)
        BY <2>1, <2>5, <4>1, Assumptions, WP!WorkerAt
      <4>2. WP!ExecuteStops(w) => wpc'[w] = "opendir"
        BY <2>2 DEF WP!ExecuteStops
      <4>3. WP!Litter(w) => wpc'[w] = "execute" BY <2>2 DEF WP!Litter
      <4> QED BY <1>3, <4>1, <4>2, <4>3
    <3> QED BY <1>2, <1>3, <2>1, <3>1, <3>2 DEF FailedInv
  <2> QED BY <2>3, <2>4, <2>5
<1>4. ASSUME NEW w \in Workers, Judged(w) PROVE FailedInv'
  <2> DEFINE t == Current(w)
             verdict == CASE wpc[w] = "open" -> "passed"
                          [] wpc[w] = "compile" -> "error"
                          [] OTHER -> "failed"
  <2>1. /\ Working(w) /\ WP!Worker(w) /\ wpc[w] \notin {"idle", "dead"}
        /\ wpc'[w] = "opendir" /\ wpc[w] # "mkdir"
    BY <1>4, Honestly, Assumptions, WP!Runs DEF Judged
  <2>2. t \in Tasks BY <2>1, BusyTask DEF SystemInv
  <2>3. results' = [results EXCEPT ![t] = [run_id |-> RunId[t], verdict |-> verdict]]
    BY <1>4 DEF Judged, GetResults
  <2>4. /\ results'[t].verdict = verdict
        /\ \A u \in Tasks \ {t} : results'[u] = results[u]
    BY <2>2, <2>3 DEF ResultsOK
  <2>5. wpc[w] \in {"compile", "readError", "open", "execute"}
    BY <1>1, <2>1, Assumptions, WP!Opens
  <2>6. UNCHANGED fds
    <3>1. \A from, to : WP!Goto(w, from, to) => to = "opendir"
      BY <1>1, <2>1 DEF WP!Goto, WP!TypeOK
    <3>2. ~WP!GetFileno(w) /\ ~WP!ExecutePasses(w) /\ ~WP!SendError(w)
      BY <3>1 DEF WP!GetFileno, WP!ExecutePasses, WP!SendError
    <3> QED
      BY <2>1, <3>2 DEF WP!Worker, WP!Mkdir, WP!MkdirExists, WP!MkdirFails,
         WP!OpenDir, WP!Unlink, WP!Rmdir, WP!StoreSourceFile,
         WP!StartCompiler, WP!SystemFails, WP!Link, WP!HasData, WP!ReadError,
         WP!AllTested, WP!GetFilenoFails, WP!Litter, WP!ExecuteStops,
         WP!Reply
  <2>7. ASSUME NEW e \in fds[w] PROVE e[1] \in Failed'
    <3>1. CASE e[1] = t
      <4>1. ~WP!BeforeTest(w) BY <1>1, <2>1, <3>1 DEF WP!LeakInv, Current
      <4>2. wpc[w] = "execute" BY <2>5, <4>1 DEF WP!BeforeTest
      <4>3. verdict = "failed" BY <4>2
      <4> QED BY <2>2, <2>4, <3>1, <4>3 DEF Failed
    <3>2. CASE e[1] # t
      <4>1. e[1] \in Failed BY <3>2 DEF FailedInv
      <4> QED BY <2>4, <3>2, <4>1 DEF Failed
    <3> QED BY <3>1, <3>2
  <2> QED BY <1>2, <2>1, <2>4, <2>6, <2>7
<1>5. ASSUME NEW w \in Workers, SendError(w) PROVE FailedInv'
  <2>1. Working(w) /\ WP!Worker(w) /\ wpc'[w] = "dead"
    BY <1>5, Honestly DEF SendError
  <2>2. WP!SendError(w) BY <1>1, <2>1, Assumptions, WP!Ends
  <2>3. fds'[w] = {} BY <1>1, <2>2 DEF WP!SendError, WP!TypeOK
  <2>4. \A t \in Tasks \ {Current(w)} : results'[t] = results[t]
    BY <1>5 DEF SendError, ResultsOK
  <2> QED BY <1>2, <2>1, <2>3, <2>4
<1>6. ASSUME NEW w \in Workers, Step(w) \/ Reply(w) PROVE FailedInv'
  <2>1. Working(w) /\ UNCHANGED results BY <1>6 DEF Step, Reply
  <2>2. wpc[w] = "execute" => wpc'[w] # "opendir" BY <1>6 DEF Step, Reply
  <2> QED BY <1>3, <2>1, <2>2
<1>7. ASSUME NEW w \in Workers, Take(w) PROVE FailedInv'
  <2>1. PICK t : WP!Take(w, t) BY <1>7, SameWorker DEF Take
  <2>2. /\ UNCHANGED <<fds, results>> /\ wpc[w] = "idle"
        /\ wpc' = [wpc EXCEPT ![w] = "mkdir"]
    BY <1>7, <2>1 DEF Take, WP!Take, WP!Goto
  <2>3. \A v \in Workers \ {w} : task'[v] = task[v]
    BY <1>7 DEF Take, S!Take, SystemInv, SP!IInv, SP!TypeOK
  <2>4. \A v \in Workers \ {w} : wpc'[v] = wpc[v] /\ Current(v)' = Current(v)
    BY <1>1, <2>2, <2>3 DEF WP!TypeOK, Current
  <2>5. Failed' = Failed BY <2>2 DEF Failed
  <2> QED BY <2>2, <2>4, <2>5 DEF FailedInv
<1>8. CASE UNCHANGED <<workerVars, task, results>>
  BY <1>8 DEF workerVars, FailedInv, Failed, Current
<1> QED BY <1>4, <1>5, <1>6, <1>7, <1>8, OutsideWorkers
        DEF Next, Worker, vars

(* So the submissions that have left files open are some of those that      *)
(* failed.                                                                  *)
LEMMA LeakedFailed ==
  ASSUME SystemInv, FailedInv, WP!Exhausted
  PROVE  3 * (Cardinality(Failed) + Cardinality(Workers)) > MaxFds
<1>1. WP!Leaked \subseteq Failed
  <2> SUFFICES ASSUME NEW t \in WP!Leaked PROVE t \in Failed
    OBVIOUS
  <2>1. PICK v \in Workers : \E e \in fds[v] : e[1] = t
    BY DEF WP!Leaked, WP!OpenTests
  <2>2. ~(wpc[v] = "execute" /\ t = Current(v))
    BY DEF WP!Leaked, Current
  <2> QED BY <2>1, <2>2 DEF FailedInv
<1>2. IsFiniteSet(Failed) BY SystemAssumption, FS_Subset DEF Failed
<1>3. IsFiniteSet(WP!Leaked) /\ Cardinality(WP!Leaked) <= Cardinality(Failed)
  BY <1>1, <1>2, FS_Subset
<1>4. /\ Cardinality(WP!Leaked) \in Nat /\ Cardinality(Failed) \in Nat
      /\ Cardinality(Workers) \in Nat /\ MaxFds \in Nat
  BY <1>2, <1>3, SystemAssumption, FS_CardinalityType
<1>5. 3 * (Cardinality(WP!Leaked) + Cardinality(Workers)) > MaxFds
  BY Zenon DEF WP!Exhausted, WP!Cardinality, Cardinality
<1> QED BY <1>3, <1>4, <1>5

LEMMA StaysUpStep ==
  ASSUME SystemInv, OwnDirs, FailedInv, StaysUp, [Next]_vars
  PROVE  StaysUp'
<1>1. WP!TypeOK /\ WP!CountInv /\ WP!LeakInv
  BY DEF SystemInv, WP!WorkersInv
<1>2. WP!IsFiniteSet(Workers)
  BY SystemAssumption DEF WP!IsFiniteSet, IsFiniteSet
<1>3. ASSUME NEW w \in Workers, Working(w), down'
      PROVE  \/ "test" \in Faults
             \/ /\ 3 * (Cardinality(Failed) + Cardinality(Workers)) > MaxFds
                /\ wpc'[w] = "exit"
  <2>1. WP!Worker(w) /\ wpc[w] \notin {"idle", "dead"}
    BY <1>3, Honestly, Assumptions, WP!Runs
  <2>2. WP!Own(w) BY <2>1 DEF OwnDirs
  <2>3. "test" \in Faults \/ (WP!Exhausted /\ WP!GetFilenoFails(w))
    BY <1>1, <1>2, <1>3, <2>1, <2>2, Assumptions, WP!NoExit
  <2>4. WP!GetFilenoFails(w) => wpc'[w] = "exit"
    BY <1>1 DEF WP!GetFilenoFails, WP!Goto, WP!TypeOK
  <2> QED BY <2>3, <2>4, LeakedFailed
<1>4. ASSUME NEW w \in Workers, Worker(w) PROVE StaysUp'
  <2>1. CASE Take(w)
    <3>1. ~down' BY <2>1 DEF Take, W!Take, W!Goto
    <3> QED BY <3>1 DEF StaysUp
  <2>2. CASE Step(w)
    <3>1. Working(w) /\ Failed' = Failed BY <2>2 DEF Step, Failed
    <3> QED BY <1>3, <3>1 DEF StaysUp
  <2>3. CASE Judged(w) \/ Reply(w) \/ SendError(w)
    <3>1. Working(w) /\ wpc'[w] # "exit"
      BY <2>3 DEF Judged, Reply, SendError
    <3> QED BY <1>3, <3>1 DEF StaysUp
  <2> QED BY <1>4, <2>1, <2>2, <2>3 DEF Worker
<1>5. CASE UNCHANGED <<down, results>>
  BY <1>5 DEF StaysUp, Failed
<1> QED BY <1>4, <1>5, OutsideWorkers DEF Next, vars

LEMMA InitOwn == Init => OwnDirs /\ StaysUp /\ FailedInv
BY DEF Init, W!Init, OwnDirs, StaysUp, FailedInv

(* Where clients do not share run_ids, no worker ends the process under the *)
(* others for a directory another one removed, or one an earlier submission *)
(* with the run_id left behind.  What is left, besides a missing test file, *)
(* are the descriptors of submissions that failed, and StaysUp says how     *)
(* many it takes.                                                           *)
THEOREM ServerStaysUp ==
  ASSUME OwnIds
  PROVE  Spec => []StaysUp
<1> DEFINE I == OwnDirs /\ ResultsOK /\ FailedInv /\ StaysUp
<1>1. Init => I
  BY InitOwn DEF Init, ResultsOK, Results
<1>2. SystemInv /\ I /\ [Next]_vars => I'
  BY OwnDirsStep, ResultsStep, FailedStep, StaysUpStep
<1>3. I => StaysUp OBVIOUS
<1> HIDE DEF I
<1> QED BY <1>1, <1>2, <1>3, Inductive, PTL DEF Spec

-----------------------------------------------------------------------------
(* What the files in its directory, and the tests it has passed, say of the *)
(* submission a worker judges.                                              *)
Judging(w) ==
  LET t == Current(w)  d == WP!Dir(w)
  IN  /\ wpc[w] \in {"store", "compile", "link"} => d.main = "none"
      /\ wpc[w] = "link" => w \notin detached /\ d.error = "empty"
      /\ wpc[w] = "hasData" =>
           IF t \in Broken THEN d.error = "text"
           ELSE d.main = t /\ d.error = "empty"
      /\ wpc[w] = "readError" => t \in Broken
      /\ wpc[w] \in {"open", "execute"} => WP!Program(w) = t

Tested(w) ==
  WP!BeforeTest(w) \/ wpc[w] = "execute" => num[w] = 0 \/ Current(w) \in Right

AllJudging ==
  \A w \in Workers : wpc[w] \notin {"idle", "dead"} => Judging(w) /\ Tested(w)

LEMMA JudgingWorkerStep ==
  ASSUME SystemInv, OwnDirs, NEW w \in Workers, Working(w), Judging(w)
  PROVE  Judging(w)'
<1> DEFINE e == dir'[WP!Id(w)]
           d == WP!Dir(w)
           t == Current(w)
<1> USE DEF WP!AfterStore
<1>1. /\ WP!TypeOK /\ WP!CountInv /\ WP!Worker(w)
      /\ wpc[w] \notin {"idle", "dead"} /\ wpc[w] \in WP!Pcs
  BY Honestly, Assumptions, WP!Runs DEF SystemInv, WP!WorkersInv, WP!TypeOK
<1>2. WP!Own(w) /\ t \in Tasks /\ t # "none"
  BY <1>1, BusyTask, SystemAssumption DEF OwnDirs, SystemInv
<1>3. /\ Current(w)' = t /\ WP!Dir(w)' = e /\ d = dir[WP!Id(w)]
      /\ WP!Id(w) = RunId[t] /\ WP!Id(w) \in WP!RunIds
      /\ [v \in Workers |-> TaskOf(task[v])][w] = t
  BY <1>1, Honestly, Assumptions, WP!Busy DEF Current, WP!Dir, WP!Id
<1>4. \A from, to : WP!Goto(w, from, to) => wpc'[w] = to
  BY <1>1 DEF WP!Goto, WP!TypeOK
<1> HIDE DEF e, d, t
<1>5. ASSUME wpc'[w] \notin {"store", "compile", "link", "hasData",
                             "readError", "open", "execute"}
      PROVE  Judging(w)'
  BY <1>5 DEF Judging
<1>6. WP!Program(w)' = IF Language = "compiled" THEN e.main ELSE e.source
  BY <1>3 DEF WP!Program
<1>7. WP!Program(w) = IF Language = "compiled" THEN d.main ELSE d.source
  BY DEF WP!Program, d
<1>8. WP!Own(w) /\ d.exists /\ wpc[w] # "idle" =>
        /\ WP!StoreSourceFile(w) => e.source = t /\ e.main = d.main
        /\ WP!StartCompiler(w) => e.main = d.main /\ e.error = "empty"
        /\ WP!Link(w) =>
             \/ e.main = read[w] /\ e.error = d.error
             \/ /\ e.main = d.main
                /\ e.error = IF w \in detached THEN d.error ELSE "text"
        /\ WP!GetFileno(w) \/ WP!Litter(w) =>
             e.source = d.source /\ e.main = d.main
  BY <1>1, <1>3, Assumptions, WP!Effects DEF d, e
<1>9. CASE wpc[w] = "mkdir"
  <2>1. CASE WP!Mkdir(w)
    <3>1. wpc'[w] \in {"error", "store"} BY <1>4, <2>1 DEF WP!Mkdir
    <3>2. e = WP!EmptyDir
      BY <1>1, <1>3, <2>1 DEF WP!Mkdir, WP!SetDir, WP!TypeOK, e
    <3>3. e.main = "none"
      BY <3>2 DEF WP!EmptyDir, WP!NoDir
    <3> QED BY <1>3, <3>1, <3>3 DEF Judging
  <2>2. CASE WP!MkdirExists(w) \/ WP!MkdirFails(w)
    <3>1. wpc'[w] \in {"opendir", "error"}
      BY <1>4, <2>2 DEF WP!MkdirExists, WP!MkdirFails
    <3> QED BY <1>5, <3>1
  <2> QED BY <1>1, <1>9, <2>1, <2>2, Assumptions, WP!WorkerAt
<1>10. CASE wpc[w] \in {"opendir", "unlink"}
  <2>1. WP!OpenDir(w) \/ WP!Unlink(w)
    BY <1>1, <1>10, Assumptions, WP!WorkerAt
  <2>2. wpc'[w] \in {"unlink", "exit", "rmdir"}
    BY <1>4, <2>1 DEF WP!OpenDir, WP!Unlink
  <2> QED BY <1>5, <2>2
<1>11. CASE wpc[w] = "rmdir"
  <2>1. WP!Rmdir(w) BY <1>1, <1>11, Assumptions, WP!WorkerAt
  <2>2. wpc'[w] \in {"reply", "mkdir"} BY <1>4, <2>1 DEF WP!Rmdir
  <2> QED BY <1>5, <2>2
<1>12. CASE wpc[w] = "store"
  <2>1. WP!StoreSourceFile(w) BY <1>1, <1>12, Assumptions, WP!WorkerAt
  <2>2. wpc'[w] = IF Language = "script" THEN "open" ELSE "compile"
    BY <1>4, <2>1 DEF WP!StoreSourceFile
  <2>3. d.exists /\ d.main = "none"
    BY <1>2, <1>12 DEF WP!Own, Judging, d
  <2>4. e.main = "none" /\ e.source = t
    BY <1>1, <1>2, <1>8, <2>1, <2>3
  <2> QED BY <1>3, <1>6, <2>2, <2>4 DEF Judging
<1>13. CASE wpc[w] = "compile"
  <2>1. d.exists /\ d.main = "none"
    BY <1>2, <1>13 DEF WP!Own, Judging, d
  <2>2. CASE WP!StartCompiler(w)
    <3>1. wpc'[w] = "link" /\ w \notin detached'
      BY <1>4, <2>1, <2>2 DEF WP!StartCompiler, d
    <3>2. e.main = "none" /\ e.error = "empty"
      BY <1>1, <1>2, <1>8, <2>1, <2>2
    <3> QED BY <1>3, <3>1, <3>2 DEF Judging
  <2>3. CASE WP!SystemFails(w)
    <3>1. wpc'[w] = "opendir" BY <1>4, <2>3 DEF WP!SystemFails
    <3> QED BY <1>5, <3>1
  <2> QED BY <1>1, <1>13, <2>2, <2>3, Assumptions, WP!WorkerAt
<1>14. CASE wpc[w] = "link"
  <2>1. WP!Link(w) BY <1>1, <1>14, Assumptions, WP!WorkerAt
  <2>2. wpc'[w] = "hasData" BY <1>4, <2>1 DEF WP!Link
  <2>3. /\ d.exists /\ d.main = "none" /\ read[w] = t
        /\ w \notin detached /\ d.error = "empty"
    BY <1>2, <1>3, <1>14 DEF WP!Own, Judging, d
  <2>4. \/ e.main = t /\ e.error = "empty"
        \/ e.main = "none" /\ e.error = "text"
    BY <1>1, <1>2, <1>8, <2>1, <2>3
  <2>5. IF t \in Broken THEN e.main = "none" ELSE e.error = "empty"
    <3>1. IF read[w] \in Broken \cup {"none"} THEN e.main = d.main
          ELSE e.error = d.error
      BY <1>14, Honestly DEF e, d
    <3> QED BY <1>2, <2>3, <3>1
  <2>6. IF t \in Broken THEN e.error = "text"
        ELSE e.main = t /\ e.error = "empty"
    BY <1>2, <2>4, <2>5
  <2> QED BY <1>3, <2>2, <2>6 DEF Judging
<1>15. CASE wpc[w] = "hasData"
  <2>1. WP!HasData(w) BY <1>1, <1>15, Assumptions, WP!WorkerAt
  <2>2. /\ wpc'[w] = IF d.error = "text" THEN "readError" ELSE "open"
        /\ e = d
    BY <1>3, <1>4, <2>1 DEF WP!HasData, d, e
  <2>3. IF t \in Broken THEN d.error = "text"
        ELSE d.main = t /\ d.error = "empty"
    BY <1>15 DEF Judging, t, d
  <2>4. d.source = t BY <1>2, <1>3, <1>15 DEF WP!Own, d
  <2> QED BY <1>3, <1>6, <2>2, <2>3, <2>4 DEF Judging
<1>16. CASE wpc[w] = "readError"
  <2>1. WP!ReadError(w) BY <1>1, <1>16, Assumptions, WP!WorkerAt
  <2>2. wpc'[w] \in {"exit", "opendir"} BY <1>4, <2>1 DEF WP!ReadError
  <2> QED BY <1>5, <2>2
<1>17. CASE wpc[w] \in {"open", "execute"}
  <2>1. WP!Program(w) = t /\ d.exists
    BY <1>2, <1>17 DEF Judging, WP!Own, t, d
  <2>2. CASE WP!GetFileno(w) \/ WP!Litter(w)
    <3>1. wpc'[w] = "execute" BY <1>4, <2>2 DEF WP!GetFileno, WP!Litter
    <3>2. e.source = d.source /\ e.main = d.main
      BY <1>1, <1>2, <1>8, <2>1, <2>2
    <3> QED BY <1>3, <1>6, <1>7, <2>1, <3>1, <3>2 DEF Judging
  <2>3. CASE WP!ExecutePasses(w)
    <3>1. wpc'[w] = "open" /\ e = d
      BY <1>3, <1>4, <2>3 DEF WP!ExecutePasses, e, d
    <3> QED BY <1>3, <1>6, <1>7, <2>1, <3>1 DEF Judging
  <2>4. CASE WP!AllTested(w) \/ WP!GetFilenoFails(w) \/ WP!ExecuteStops(w)
    <3>1. wpc'[w] \in {"opendir", "exit"}
      BY <1>4, <2>4 DEF WP!AllTested, WP!GetFilenoFails, WP!ExecuteStops
    <3> QED BY <1>5, <3>1
  <2> QED BY <1>1, <1>17, <2>2, <2>3, <2>4, Assumptions, WP!WorkerAt
<1>18. CASE wpc[w] \in {"reply", "error"}
  <2>1. WP!Reply(w) \/ WP!SendError(w)
    BY <1>1, <1>18, Assumptions, WP!WorkerAt
  <2>2. wpc'[w] \in {"idle", "dead"}
    BY <1>4, <2>1 DEF WP!Reply, WP!SendError
  <2> QED BY <1>5, <2>2
<1>19. wpc[w] # "exit" BY <1>1, Assumptions, WP!Runs
<1> QED
  BY <1>1, <1>9, <1>10, <1>11, <1>12, <1>13, <1>14, <1>15, <1>16, <1>17,
     <1>18, <1>19 DEF WP!Pcs

LEMMA TestedStep ==
  ASSUME SystemInv, NEW w \in Workers, Working(w), Judging(w), Tested(w)
  PROVE  Tested(w)'
<1>1. /\ WP!TypeOK /\ WP!CountInv /\ WP!Worker(w)
      /\ Current(w)' = Current(w) /\ wpc[w] \in WP!Pcs
  BY Honestly, Assumptions DEF SystemInv, WP!WorkersInv, WP!TypeOK, Current
<1>2. \A from, to : WP!Goto(w, from, to) => wpc[w] = from /\ wpc'[w] = to
  BY <1>1 DEF WP!Goto, WP!TypeOK
<1>3. CASE WP!ExecutePasses(w)
  <2>1. wpc[w] = "execute" /\ wpc'[w] = "open"
    BY <1>2, <1>3 DEF WP!ExecutePasses
  <2>2. WP!Program(w) \in Right BY <2>1, Honestly
  <2>3. WP!Program(w) = Current(w) BY <2>1 DEF Judging
  <2> QED BY <1>1, <2>2, <2>3 DEF Tested
<1>4. CASE ~WP!ExecutePasses(w)
  <2>1. UNCHANGED num BY <1>1, <1>4, Assumptions, WP!Counts
  <2>2. WP!BeforeTest(w)' => WP!BeforeTest(w)
    BY <1>1, <1>4, Assumptions, WP!BeforeStep
  <2>3. wpc'[w] = "execute" => wpc[w] \in {"open", "execute"}
    <3>1. ASSUME wpc'[w] = "execute"
          PROVE  WP!GetFileno(w) \/ WP!Litter(w)
      <4>1. \A from, to : WP!Goto(w, from, to) => to = "execute"
        BY <1>2, <3>1
      <4>2. ~WP!Mkdir(w) /\ ~WP!MkdirExists(w) /\ ~WP!MkdirFails(w)
        BY <4>1 DEF WP!Mkdir, WP!MkdirExists, WP!MkdirFails
      <4>3. ~WP!OpenDir(w) /\ ~WP!Unlink(w) /\ ~WP!Rmdir(w)
        BY <4>1 DEF WP!OpenDir, WP!Unlink, WP!Rmdir
      <4>4. ~WP!StoreSourceFile(w) /\ ~WP!StartCompiler(w) /\ ~WP!SystemFails(w)
        BY <4>1 DEF WP!StoreSourceFile, WP!StartCompiler, WP!SystemFails
      <4>5. ~WP!Link(w) /\ ~WP!HasData(w) /\ ~WP!ReadError(w)
        BY <4>1 DEF WP!Link, WP!HasData, WP!ReadError
      <4>6. ~WP!AllTested(w) /\ ~WP!GetFilenoFails(w) /\ ~WP!ExecuteStops(w)
        BY <4>1 DEF WP!AllTested, WP!GetFilenoFails, WP!ExecuteStops
      <4>7. ~WP!Reply(w) /\ ~WP!SendError(w)
        BY <4>1 DEF WP!Reply, WP!SendError
      <4> QED BY <1>1, <1>4, <4>2, <4>3, <4>4, <4>5, <4>6, <4>7 DEF WP!Worker
    <3> QED BY <1>2, <3>1 DEF WP!GetFileno, WP!Litter
  <2>4. wpc[w] = "open" => WP!BeforeTest(w) BY DEF WP!BeforeTest
  <2> QED BY <1>1, <2>1, <2>2, <2>3, <2>4 DEF Tested
<1> QED BY <1>3, <1>4

LEMMA AllJudgingStep ==
  ASSUME OwnIds, SystemInv, OwnDirs, AllJudging, [Next]_vars
  PROVE  AllJudging'
<1> USE DEF AllJudging
<1>1. WP!TypeOK /\ WP!CountInv
  BY DEF SystemInv, WP!WorkersInv
<1>2. ASSUME NEW v \in Workers, Judging(v), Tested(v),
             wpc'[v] = wpc[v], num'[v] = num[v], task'[v] = task[v],
             cleaning'[v] = cleaning[v], read'[v] = read[v],
             dir'[WP!Id(v)] = dir[WP!Id(v)], v \in detached' <=> v \in detached
      PROVE  Judging(v)' /\ Tested(v)'
  <2>1. Current(v)' = Current(v) /\ WP!Dir(v)' = WP!Dir(v)
    BY <1>2 DEF Current, WP!Dir, WP!Id
  <2>2. WP!Program(v)' = WP!Program(v) BY <2>1 DEF WP!Program
  <2> QED BY <1>2, <2>1, <2>2 DEF Judging, Tested, WP!BeforeTest
<1>3. ASSUME NEW w \in Workers, Working(w) PROVE AllJudging'
  <2>1. WP!Worker(w) /\ wpc[w] \notin {"idle", "dead"} /\ UNCHANGED task
    BY <1>3, Honestly, Assumptions, WP!Runs
  <2>2. Judging(w)' /\ Tested(w)'
    BY <1>3, <2>1, JudgingWorkerStep, TestedStep
  <2>3. ASSUME NEW v \in Workers \ {w}, wpc'[v] \notin {"idle", "dead"}
        PROVE  Judging(v)' /\ Tested(v)'
    <3>1. /\ wpc'[v] = wpc[v] /\ num'[v] = num[v] /\ read'[v] = read[v]
          /\ cleaning'[v] = cleaning[v]
          /\ wpc[v] # "idle" /\ WP!Id(v) # WP!Id(w) =>
               dir'[WP!Id(v)] = dir[WP!Id(v)]
      BY <1>1, <2>1, Assumptions, WP!Frame
    <3>2. WP!Id(v) # WP!Id(w) BY <2>1, <2>3, <3>1, Apart
    <3>3. v \in detached' <=> v \in detached
      BY <2>1, <3>2, Assumptions, WP!Attached
    <3> QED BY <1>2, <2>1, <2>3, <3>1, <3>2, <3>3
  <2> QED BY <2>2, <2>3
<1>4. ASSUME NEW w \in Workers, Take(w) PROVE AllJudging'
  <2>1. PICK t : WP!Take(w, t) BY <1>4, SameWorker DEF Take
  <2>2. /\ wpc' = [wpc EXCEPT ![w] = "mkdir"] /\ num' = [num EXCEPT ![w] = 0]
        /\ cleaning' = [cleaning EXCEPT ![w] = FALSE]
        /\ UNCHANGED <<detached, read, dir>>
    BY <2>1 DEF WP!Take, WP!Goto
  <2>3. \A v \in Workers \ {w} : task'[v] = task[v]
    BY <1>4 DEF Take, S!Take, SystemInv, SP!IInv, SP!TypeOK
  <2>4. Judging(w)' /\ Tested(w)'
    BY <1>1, <2>2 DEF Judging, Tested, WP!TypeOK
  <2>5. ASSUME NEW v \in Workers \ {w}, wpc'[v] \notin {"idle", "dead"}
        PROVE  Judging(v)' /\ Tested(v)'
    <3>1. /\ wpc'[v] = wpc[v] /\ num'[v] = num[v] /\ cleaning'[v] = cleaning[v]
          /\ read'[v] = read[v]
          /\ dir'[WP!Id(v)] = dir[WP!Id(v)] /\ detached' = detached
      BY <1>1, <2>2 DEF WP!TypeOK
    <3> QED BY <1>2, <2>3, <2>5, <3>1
  <2> QED BY <2>4, <2>5
<1>5. CASE UNCHANGED <<workerVars, task>>
  BY <1>2, <1>5 DEF workerVars
<1>6. ASSUME NEW c \in Clients, Client(c) PROVE UNCHANGED <<workerVars, task>>
  BY <1>6, OutsideWorkers
<1>7. CASE Broker BY <1>5, <1>7, OutsideWorkers
<1> QED BY <1>3, <1>4, <1>5, <1>6, <1>7
        DEF Next, Worker, Step, Judged, Reply, SendError, vars

-----------------------------------------------------------------------------
(* What results say of the submissions.                                     *)
Said(t) ==
  LET r == results[t]
  IN  /\ r.verdict = "passed" => t \in Right
      /\ r.verdict = "failed" => t \notin Right
      /\ r.verdict \notin {"none", "error"} => r.run_id = RunId[t]

(* Results are those of the judger before cleanEnv, and so before a reply.  *)
Cleaning(w) ==
  \/ cleaning[w] /\ wpc[w] \in {"mkdir", "opendir", "unlink", "rmdir"}
  \/ wpc[w] = "reply"

VerdictInv ==
  /\ \A t \in Tasks : Said(t)
  /\ \A w \in Workers :
       Cleaning(w) => results[Current(w)].verdict # "none"
  /\ \A p \in {"back", "inbox"} : \A x, i, r :
       SP!At(p, x, i, r) => results[TaskOf(r)].verdict # "none"

LEMMA JudgedWell ==
  ASSUME RunTimes > 0, SystemInv, ResultsOK, AllJudging,
         NEW w \in Workers, Judged(w), NEW t, t = Current(w)
  PROVE  /\ t \in Tasks /\ Said(t)' /\ results'[t].verdict # "none"
         /\ \A u \in Tasks \ {t} : results'[u] = results[u]
<1>1. /\ Working(w) /\ WP!Worker(w) /\ WP!TypeOK
      /\ wpc'[w] = "opendir" /\ wpc[w] # "mkdir"
  BY Honestly DEF Judged, SystemInv, WP!WorkersInv
<1>2. wpc[w] \notin {"idle", "dead"} BY <1>1, Assumptions, WP!Runs
<1>3. /\ wpc[w] \in {"compile", "readError", "open", "execute"}
      /\ wpc[w] = "open" => num[w] = RunTimes
  BY <1>1, Assumptions, WP!Opens
<1>4. t \in Tasks /\ Judging(w) /\ Tested(w)
  BY <1>2, BusyTask DEF SystemInv, AllJudging
<1> DEFINE v == CASE wpc[w] = "open" -> "passed"
                  [] wpc[w] = "compile" -> "error"
                  [] OTHER -> "failed"
<1>5. results' = [results EXCEPT ![t] = [run_id |-> RunId[t], verdict |-> v]]
  BY DEF Judged, GetResults
<1>6. /\ results'[t].run_id = RunId[t] /\ results'[t].verdict = v
      /\ \A u \in Tasks \ {t} : results'[u] = results[u]
  BY <1>4, <1>5 DEF ResultsOK
<1>7. CASE wpc[w] = "open"
  <2>1. t \in Right
    <3>1. num[w] # 0 BY <1>3, <1>7
    <3> QED BY <1>4, <1>7, <3>1 DEF Tested, WP!BeforeTest
  <2>2. v = "passed" BY <1>7
  <2> QED BY <1>4, <1>6, <2>1, <2>2 DEF Said
<1>8. CASE wpc[w] = "compile"
  <2>1. v = "error" BY <1>8
  <2> QED BY <1>4, <1>6, <2>1 DEF Said
<1>9. CASE wpc[w] \in {"readError", "execute"}
  <2>1. v = "failed" BY <1>9
  <2>2. CASE wpc[w] = "readError"
    <3>1. t \in Broken BY <1>4, <2>2 DEF Judging
    <3>2. t \notin Right BY <3>1, SystemAssumption
    <3> QED BY <1>4, <1>6, <2>1, <3>2 DEF Said
  <2>3. CASE wpc[w] = "execute"
    <3>1. WP!Program(w) = t BY <1>4, <2>3 DEF Judging
    <3>2. WP!Program(w) \notin Right BY <1>1, <2>3, Honestly
    <3> QED BY <1>4, <1>6, <2>1, <3>1, <3>2 DEF Said
  <2> QED BY <1>9, <2>2, <2>3
<1> QED BY <1>3, <1>7, <1>8, <1>9

LEMMA ErrorSent ==
  ASSUME SystemInv, ResultsOK, NEW w \in Workers, SendError(w),
         NEW t, t = Current(w)
  PROVE  /\ t \in Tasks /\ results'[t].verdict = "error"
         /\ \A u \in Tasks \ {t} : results'[u] = results[u]
<1>1. wpc[w] \notin {"idle", "dead"}
  BY Honestly, Assumptions, WP!Runs DEF SendError
<1>2. t \in Tasks BY <1>1, BusyTask DEF SystemInv
<1>3. results' = [results EXCEPT ![t] = [results[t] EXCEPT !.verdict = "error"]]
  BY DEF SendError
<1>4. results[t] \in Results BY <1>2 DEF ResultsOK
<1>5. [results[t] EXCEPT !.verdict = "error"].verdict = "error"
  BY <1>4 DEF Results
<1>6. /\ results'[t].verdict = "error"
      /\ \A u \in Tasks \ {t} : results'[u] = results[u]
  BY <1>2, <1>3, <1>5 DEF ResultsOK
<1> QED BY <1>2, <1>6

(* A verdict stays one, whoever's it is.                                    *)
LEMMA SaidStep ==
  ASSUME RunTimes > 0, SystemInv, ResultsOK, AllJudging, VerdictInv, [Next]_vars
  PROVE  \A t \in Tasks : /\ Said(t)'
                          /\ results[t].verdict # "none" =>
                               results'[t].verdict # "none"
<1> SUFFICES ASSUME NEW t \in Tasks
             PROVE  /\ Said(t)'
                    /\ results[t].verdict # "none" => results'[t].verdict # "none"
  OBVIOUS
<1>1. Said(t) BY DEF VerdictInv
<1>2. CASE results'[t] = results[t] BY <1>1, <1>2 DEF Said
<1>3. ASSUME NEW w \in Workers, Judged(w), results'[t] # results[t]
      PROVE  Said(t)' /\ results'[t].verdict # "none"
  <2>1. t = Current(w) BY <1>3, JudgedWell
  <2> QED BY <1>3, <2>1, JudgedWell
<1>4. ASSUME NEW w \in Workers, SendError(w), results'[t] # results[t]
      PROVE  Said(t)' /\ results'[t].verdict # "none"
  <2>1. t = Current(w) BY <1>4, ErrorSent
  <2>2. results'[t].verdict = "error" BY <1>4, <2>1, ErrorSent
  <2> QED BY <2>2 DEF Said
<1>5. \/ UNCHANGED results
      \/ \E w \in Workers : Judged(w) \/ SendError(w)
  BY DEF Next, Client, Broker, Worker, Take, Step, Reply, vars
<1> QED BY <1>2, <1>3, <1>4, <1>5

(* removeDir for cleanEnv begins after Judged.                              *)
LEMMA CleaningStep ==
  ASSUME SystemInv, NEW w \in Workers, Working(w), Cleaning(w)'
  PROVE  Cleaning(w) \/ (wpc[w] # "mkdir" /\ wpc'[w] = "opendir")
<1>1. WP!Worker(w) /\ WP!TypeOK
  BY Honestly DEF SystemInv, WP!WorkersInv
<1>2. \A from, to : WP!Goto(w, from, to) => wpc[w] = from /\ wpc'[w] = to
  BY <1>1 DEF WP!Goto, WP!TypeOK
<1>3. CASE wpc[w] \in {"mkdir", "opendir", "unlink", "rmdir"}
  <2>1. \/ WP!Mkdir(w) \/ WP!MkdirExists(w) \/ WP!MkdirFails(w)
        \/ WP!OpenDir(w) \/ WP!Unlink(w) \/ WP!Rmdir(w)
    BY <1>1, <1>3, Assumptions, WP!WorkerAt
  <2>2. UNCHANGED cleaning
    BY <2>1 DEF WP!Mkdir, WP!MkdirExists, WP!MkdirFails, WP!OpenDir,
       WP!Unlink, WP!Rmdir
  <2>3. wpc'[w] = "reply" => cleaning[w] BY <1>1, Assumptions, WP!Ends
  <2> QED BY <1>3, <2>2, <2>3 DEF Cleaning
<1>4. CASE wpc[w] \notin {"mkdir", "opendir", "unlink", "rmdir"}
  <2>1. wpc'[w] \notin {"rmdir", "reply"}
    BY <1>1, <1>4, Assumptions, WP!PcStep
  <2>2. ~WP!Rmdir(w) /\ ~WP!OpenDir(w)
    BY <1>2, <1>4 DEF WP!Rmdir, WP!OpenDir
  <2>3. wpc'[w] \notin {"mkdir", "unlink"}
    <3> SUFFICES ASSUME wpc'[w] \in {"mkdir", "unlink"} PROVE FALSE
      OBVIOUS
    <3>1. \A from, to : WP!Goto(w, from, to) => to \in {"mkdir", "unlink"}
      BY <1>2
    <3>2. ~WP!Mkdir(w) /\ ~WP!MkdirExists(w) /\ ~WP!MkdirFails(w)
      BY <3>1 DEF WP!Mkdir, WP!MkdirExists, WP!MkdirFails
    <3>3. ~WP!Unlink(w) /\ ~WP!StoreSourceFile(w) /\ ~WP!StartCompiler(w)
      BY <3>1 DEF WP!Unlink, WP!StoreSourceFile, WP!StartCompiler
    <3>4. ~WP!SystemFails(w) /\ ~WP!Link(w) /\ ~WP!HasData(w)
      BY <3>1 DEF WP!SystemFails, WP!Link, WP!HasData
    <3>5. ~WP!ReadError(w) /\ ~WP!AllTested(w) /\ ~WP!GetFileno(w)
      BY <3>1 DEF WP!ReadError, WP!AllTested, WP!GetFileno
    <3>6. ~WP!GetFilenoFails(w) /\ ~WP!Litter(w)
      BY <3>1 DEF WP!GetFilenoFails, WP!Litter
    <3>7. ~WP!ExecutePasses(w) /\ ~WP!ExecuteStops(w)
      BY <3>1 DEF WP!ExecutePasses, WP!ExecuteStops
    <3>8. ~WP!Reply(w) /\ ~WP!SendError(w)
      BY <3>1 DEF WP!Reply, WP!SendError
    <3> QED BY <1>1, <2>2, <3>2, <3>3, <3>4, <3>5, <3>6, <3>7, <3>8
            DEF WP!Worker
  <2> QED BY <1>4, <2>1, <2>3 DEF Cleaning
<1> QED BY <1>3, <1>4

(* A worker is elsewhere only by a step of its own.                         *)
LEMMA Moved ==
  ASSUME SystemInv, [Next]_vars, NEW w \in Workers, wpc'[w] # wpc[w]
  PROVE  Worker(w)
<1>1. WP!TypeOK /\ WP!CountInv BY DEF SystemInv, WP!WorkersInv
<1>2. ASSUME NEW v \in Workers, Worker(v) PROVE v = w
  <2>1. CASE Take(v)
    <3>1. wpc' = [wpc EXCEPT ![v] = "mkdir"] BY <2>1 DEF Take
    <3> QED BY <1>1, <3>1 DEF WP!TypeOK
  <2>2. CASE Working(v)
    BY <1>1, <2>2, Honestly, Assumptions, WP!Frame
  <2> QED BY <1>2, <2>1, <2>2 DEF Worker, Step, Judged, Reply, SendError
<1>3. wpc' # wpc OBVIOUS
<1>4. \E v \in Workers : Worker(v)
  BY <1>3, OutsideWorkers DEF Next, workerVars, vars
<1> QED BY <1>2, <1>4

(* The worker that sent a reply just now.                                   *)
LEMMA NewReply ==
  ASSUME SystemInv, [Next]_vars,
         NEW p \in {"back", "inbox"}, NEW x, NEW i, NEW r, SP!At(p, x, i, r)'
  PROVE  \/ \E q \in {"back", "inbox"} : \E y, j : SP!At(q, y, j, r)
         \/ \E w \in Workers : /\ Reply(w) \/ SendError(w)
                               /\ task[w] = r
<1>1. SP!TypeOK /\ WP!TypeOK /\ WP!CountInv /\ [SP!Next]_(SP!vars)
  BY ServerStep, SameNext DEF SystemInv, SP!IInv, WP!WorkersInv
<1>2. SUFFICES ASSUME NEW w \in Workers, SP!Judged(w) \/ SP!Failed(w),
                      task[w] = r
               PROVE  Reply(w) \/ SendError(w)
  BY <1>1, Assumptions, SP!RepliesMove
<1>3. wpc[w] \notin {"idle", "dead"} /\ wpc'[w] \in {"idle", "dead"}
  <2>1. /\ States[w] = "busy"
        /\ \/ States' = [States EXCEPT ![w] = "recv"]
           \/ States' = [States EXCEPT ![w] = "dead"]
    BY <1>2 DEF SP!Judged, SP!Failed, States
  <2>2. States'[w] # "busy" BY <2>1 DEF States
  <2> QED BY <2>1, <2>2 DEF States
<1>4. Worker(w) /\ wpc'[w] # "mkdir" BY <1>3, Moved
<1>5. ~Take(w)
  BY <1>1, <1>4 DEF Take, WP!TypeOK
<1> QED BY <1>3, <1>4, <1>5 DEF Worker, Step, Judged

LEMMA VerdictStep ==
  ASSUME RunTimes > 0, SystemInv, ResultsOK, AllJudging, VerdictInv, [Next]_vars
  PROVE  VerdictInv'
<1>1. WP!TypeOK /\ WP!CountInv
  BY DEF SystemInv, WP!WorkersInv
<1>2. \A t \in Tasks : Said(t)' BY SaidStep
<1>3. \A t \in Tasks : results[t].verdict # "none" => results'[t].verdict # "none"
  BY SaidStep
<1>4. ASSUME NEW w \in Workers, Cleaning(w)'
      PROVE  results'[Current(w)'].verdict # "none"
  <2>1. ASSUME Cleaning(w), Current(w)' = Current(w)
        PROVE  results'[Current(w)'].verdict # "none"
    <3>1. Current(w) \in Tasks
      BY <2>1, BusyTask DEF SystemInv, Cleaning
    <3> QED BY <1>3, <2>1, <3>1 DEF VerdictInv
  <2>2. CASE Working(w)
    <3>1. Current(w)' = Current(w) BY <2>2, Honestly DEF Current
    <3>2. CASE Cleaning(w) BY <2>1, <3>1, <3>2
    <3>3. CASE wpc[w] # "mkdir" /\ wpc'[w] = "opendir"
      <4>1. Judged(w)
        <5>1. WP!Worker(w) BY <2>2, Honestly
        <5>2. wpc[w] # "opendir" BY <1>1, <3>3, <5>1, Assumptions, WP!Opens
        <5>3. Worker(w) BY <3>3, <5>2, Moved
        <5>4. ~Take(w) BY <1>1, <3>3 DEF Take, WP!TypeOK
        <5> QED BY <3>3, <5>3, <5>4 DEF Worker, Step, Reply, SendError
      <4>2. PICK t : t = Current(w) OBVIOUS
      <4>3. results'[t].verdict # "none" BY <4>1, <4>2, JudgedWell
      <4> QED BY <3>1, <4>2, <4>3
    <3> QED BY <1>4, <2>2, <3>2, <3>3, CleaningStep DEF SystemInv
  <2>3. CASE ~Working(w)
    <3>1. ASSUME NEW v \in Workers \ {w}, Working(v)
          PROVE  Cleaning(w) /\ Current(w)' = Current(w)
      <4>1. wpc'[w] = wpc[w] /\ cleaning'[w] = cleaning[w] /\ UNCHANGED task
        BY <1>1, <3>1, Honestly, Assumptions, WP!Frame
      <4> QED BY <1>4, <4>1 DEF Cleaning, Current
    <3>2. ASSUME NEW v \in Workers, Take(v)
          PROVE  Cleaning(w) /\ Current(w)' = Current(w)
      <4>1. PICK t : WP!Take(v, t) BY <3>2, SameWorker DEF Take
      <4>2. /\ cleaning' = [cleaning EXCEPT ![v] = FALSE]
            /\ wpc' = [wpc EXCEPT ![v] = "mkdir"]
        BY <4>1 DEF WP!Take, WP!Goto
      <4>3. v # w BY <1>1, <1>4, <4>2 DEF Cleaning, WP!TypeOK
      <4>4. task'[w] = task[w]
        BY <3>2, <4>3 DEF Take, S!Take, SystemInv, SP!IInv, SP!TypeOK
      <4> QED BY <1>1, <1>4, <4>2, <4>3, <4>4 DEF Cleaning, Current, WP!TypeOK
    <3>3. CASE UNCHANGED <<workerVars, task>>
      BY <1>4, <2>1, <3>3 DEF workerVars, Cleaning, Current
    <3> QED BY <2>1, <2>3, <3>1, <3>2, <3>3, OutsideWorkers DEF Next, Worker,
            Step, Judged, Reply, SendError, vars
  <2> QED BY <2>2, <2>3
<1>5. ASSUME NEW p \in {"back", "inbox"}, NEW x, NEW i, NEW r, SP!At(p, x, i, r)'
      PROVE  results'[TaskOf(r)].verdict # "none"
  <2>1. CASE \E q \in {"back", "inbox"} : \E y, j : SP!At(q, y, j, r)
    <3>1. TaskOf(r) \in Tasks BY <2>1, Placed DEF SystemInv
    <3> QED BY <1>3, <2>1, <3>1 DEF VerdictInv
  <2>2. ASSUME NEW w \in Workers, Reply(w), task[w] = r
        PROVE  results'[TaskOf(r)].verdict # "none"
    <3>1. WP!Worker(w) /\ wpc'[w] = "idle" /\ UNCHANGED results
      BY <2>2, Honestly DEF Reply
    <3>2. Cleaning(w) BY <1>1, <3>1, Assumptions, WP!Ends DEF Cleaning
    <3> QED BY <2>2, <3>1, <3>2 DEF VerdictInv, Current
  <2>3. ASSUME NEW w \in Workers, SendError(w), task[w] = r
        PROVE  results'[TaskOf(r)].verdict # "none"
    BY <2>3, ErrorSent DEF Current
  <2> QED BY <1>5, <2>1, <2>2, <2>3, NewReply
<1> QED BY <1>2, <1>4, <1>5 DEF VerdictInv

LEMMA VerdictsSent ==
  ASSUME SystemInv, VerdictInv
  PROVE  OwnVerdict
<1> SUFFICES ASSUME NEW c \in Clients, NEW i \in DOMAIN inbox[c]
             PROVE  LET t == TaskOf(inbox[c][i])
                    IN  results[t].verdict # "none" /\ Said(t)
  BY DEF OwnVerdict, Said
<1> DEFINE r == inbox[c][i]
<1>1. inbox[c] \in Seq(SP!Request)
  BY DEF SystemInv, SP!IInv, SP!TypeOK
<1>2. SP!At("inbox", c, i, r)
  BY <1>1 DEF SP!At, SP!Holds
<1>3. TaskOf(r) \in Tasks BY <1>2, Placed DEF SystemInv
<1> QED BY <1>2, <1>3 DEF VerdictInv

LEMMA InitVerdicts == Init => ResultsOK /\ AllJudging /\ VerdictInv
<1> SUFFICES ASSUME Init PROVE ResultsOK /\ AllJudging /\ VerdictInv
  OBVIOUS
<1>1. ResultsOK /\ AllJudging BY DEF Init, ResultsOK, Results, AllJudging
<1>2. \A p, x, i, r : ~SP!At(p, x, i, r)
  BY SameInit, Assumptions, SP!InitEmpty DEF Init
<1>3. \A t \in Tasks : Said(t)
  BY DEF Init, Said
<1>4. \A w \in Workers : ~Cleaning(w) BY DEF Init, Cleaning
<1> QED BY <1>1, <1>2, <1>3, <1>4 DEF VerdictInv

(* Each client is sent the verdict on the program it submitted.             *)
THEOREM VerdictsOwn ==
  ASSUME OwnIds, RunTimes > 0
  PROVE  Spec => []OwnVerdict
<1> DEFINE I == OwnDirs /\ ResultsOK /\ AllJudging /\ VerdictInv
<1>1. Init => I BY InitOwn, InitVerdicts
<1>2. SystemInv /\ I /\ [Next]_vars => I'
  BY OwnDirsStep, ResultsStep, AllJudgingStep, VerdictStep
<1>3. SystemInv /\ I => OwnVerdict BY VerdictsSent
<1> HIDE DEF I
<1> QED BY <1>1, <1>2, <1>3, Inductive, PTL DEF Spec

-----------------------------------------------------------------------------
(* Where programs make no directories, cleanEnv has nothing it cannot       *)
(* remove: buildEnv made the directory anew.                                *)
Clean(w) ==
  LET d == WP!Dir(w)
  IN  /\ wpc[w] = "mkdir" => ~cleaning[w]
      /\ wpc[w] \in WP!AfterStore \cup {"store"} => ~d.litter
      /\ cleaning[w] /\ wpc[w] \in {"opendir", "unlink"} => ~d.litter
      /\ cleaning[w] /\ wpc[w] = "rmdir" => d = WP!EmptyDir
      /\ wpc[w] = "reply" => ~d.exists

AllClean == \A w \in Workers : wpc[w] \notin {"idle", "dead"} => Clean(w)

AnswersClean ==
  \A p \in {"back", "inbox"} : \A x, i, r : SP!At(p, x, i, r) =>
    \/ results[TaskOf(r)].verdict = "error"
    \/ ~dir[RunId[TaskOf(r)]].exists

LEMMA CleanWorkerStep ==
  ASSUME "litter" \notin Faults, SystemInv, OwnDirs,
         NEW w \in Workers, Working(w), Clean(w)
  PROVE  Clean(w)'
<1> DEFINE e == dir'[WP!Id(w)]
           d == WP!Dir(w)
<1>1. /\ WP!TypeOK /\ WP!CountInv /\ WP!Worker(w)
      /\ wpc[w] \notin {"idle", "dead", "exit"} /\ wpc[w] \in WP!Pcs
  BY Honestly, Assumptions, WP!Runs DEF SystemInv, WP!WorkersInv, WP!TypeOK
<1>2. WP!Own(w) BY <1>1 DEF OwnDirs
<1>3. /\ WP!Dir(w)' = e /\ d = dir[WP!Id(w)]
      /\ WP!Id(w) \in WP!RunIds /\ d \in WP!DirType
  BY <1>1, Honestly, Assumptions, WP!Busy DEF WP!Dir, WP!Id
<1>4. \A from, to : WP!Goto(w, from, to) => wpc[w] = from /\ wpc'[w] = to
  BY <1>1 DEF WP!Goto, WP!TypeOK
<1> HIDE DEF e, d
<1>5. CASE wpc[w] = "mkdir"
  <2>1. ~cleaning[w] BY <1>5 DEF Clean
  <2>2. CASE WP!Mkdir(w)
    <3>1. wpc'[w] \in {"error", "store"} BY <1>4, <2>2 DEF WP!Mkdir
    <3>2. e = WP!EmptyDir
      BY <1>1, <1>3, <2>2 DEF WP!Mkdir, WP!SetDir, WP!TypeOK, e
    <3>3. e.litter = FALSE BY <3>2 DEF WP!EmptyDir, WP!NoDir
    <3> QED BY <1>3, <3>1, <3>3 DEF Clean
  <2>3. CASE WP!MkdirExists(w) \/ WP!MkdirFails(w)
    <3>1. wpc'[w] \in {"opendir", "error"} /\ ~cleaning'[w]
      BY <1>4, <2>1, <2>3 DEF WP!MkdirExists, WP!MkdirFails
    <3> QED BY <3>1 DEF Clean, WP!AfterStore
  <2> QED BY <1>1, <1>5, <2>2, <2>3, Assumptions, WP!WorkerAt
<1>6. CASE wpc[w] = "opendir"
  <2>1. WP!OpenDir(w) BY <1>1, <1>6, Assumptions, WP!WorkerAt
  <2>2. wpc'[w] \in {"unlink", "exit"} /\ cleaning'[w] = cleaning[w] /\ e = d
    BY <1>3, <1>4, <2>1 DEF WP!OpenDir, e
  <2> QED BY <1>3, <1>6, <2>2 DEF Clean, WP!AfterStore, d
<1>7. CASE wpc[w] = "unlink"
  <2>1. WP!Unlink(w) BY <1>1, <1>7, Assumptions, WP!WorkerAt
  <2>2. wpc'[w] = "rmdir" /\ cleaning'[w] = cleaning[w]
    BY <1>4, <2>1 DEF WP!Unlink
  <2>3. d.exists /\ w \notin detached BY <1>2, <1>7 DEF WP!Own, d
  <2>4. e = [WP!EmptyDir EXCEPT !.litter = d.litter]
    BY <1>1, <1>3, <2>1, <2>3 DEF WP!Unlink, WP!Write, WP!SetDir, WP!TypeOK,
       d, e
  <2>5. ASSUME cleaning[w] PROVE e = WP!EmptyDir
    <3>1. ~d.litter BY <1>7, <2>5 DEF Clean, d
    <3>2. d.litter = FALSE BY <1>3, <3>1 DEF WP!DirType
    <3> QED BY <1>3, <2>4, <3>2, Assumptions, WP!DirTypes
  <2> QED BY <1>3, <2>2, <2>5 DEF Clean, WP!AfterStore
<1>8. CASE wpc[w] = "rmdir"
  <2>1. WP!Rmdir(w) BY <1>1, <1>8, Assumptions, WP!WorkerAt
  <2>2. wpc'[w] = IF cleaning[w] THEN "reply" ELSE "mkdir"
    BY <1>4, <2>1 DEF WP!Rmdir
  <2>3. cleaning'[w] = cleaning[w] BY <2>1 DEF WP!Rmdir
  <2>4. ASSUME cleaning[w] PROVE ~e.exists
    <3>1. d = WP!EmptyDir BY <1>8, <2>4 DEF Clean, d
    <3>2. e = WP!NoDir
      BY <1>1, <1>3, <2>1, <3>1 DEF WP!Rmdir, WP!SetDir, WP!TypeOK, d, e
    <3> QED BY <3>2, Assumptions, WP!DirFields
  <2> QED BY <1>3, <2>2, <2>3, <2>4 DEF Clean, WP!AfterStore
<1>9. CASE wpc[w] \in WP!AfterStore \cup {"store"}
  <2>1. d.exists /\ ~d.litter
    BY <1>2, <1>9 DEF WP!Own, Clean, d
  <2>2. ~WP!Mkdir(w) /\ ~WP!MkdirExists(w) /\ ~WP!MkdirFails(w)
    BY <1>4, <1>9 DEF WP!Mkdir, WP!MkdirExists, WP!MkdirFails, WP!AfterStore
  <2>3. ~WP!OpenDir(w) /\ ~WP!Unlink(w) /\ ~WP!Rmdir(w)
    BY <1>4, <1>9 DEF WP!OpenDir, WP!Unlink, WP!Rmdir, WP!AfterStore
  <2>4. ~WP!Litter(w) BY DEF WP!Litter
  <2>5. CASE WP!StoreSourceFile(w) \/ WP!StartCompiler(w) \/ WP!Link(w)
             \/ WP!GetFileno(w)
    <3>1. e.litter = d.litter
      BY <1>1, <2>1, <2>5, Assumptions, WP!Effects DEF d, e
    <3>2. wpc'[w] \in WP!AfterStore
      BY <1>4, <2>5 DEF WP!StoreSourceFile, WP!StartCompiler, WP!Link,
         WP!GetFileno, WP!AfterStore
    <3> QED BY <1>3, <2>1, <3>1, <3>2 DEF Clean, WP!AfterStore
  <2>6. CASE WP!SystemFails(w) \/ WP!HasData(w) \/ WP!ReadError(w)
             \/ WP!AllTested(w)
    <3>1. e = d BY <1>3, <2>6 DEF WP!SystemFails, WP!HasData, WP!ReadError,
                WP!AllTested, e
    <3>2. wpc'[w] \in WP!AfterStore \cup {"opendir", "exit"}
      BY <1>4, <2>6 DEF WP!SystemFails, WP!HasData, WP!ReadError,
         WP!AllTested, WP!AfterStore
    <3> QED BY <1>3, <2>1, <3>1, <3>2 DEF Clean, WP!AfterStore
  <2>7. CASE WP!GetFilenoFails(w) \/ WP!ExecutePasses(w) \/ WP!ExecuteStops(w)
    <3>1. e = d BY <1>3, <2>7 DEF WP!GetFilenoFails, WP!ExecutePasses,
                WP!ExecuteStops, e
    <3>2. wpc'[w] \in WP!AfterStore \cup {"opendir", "exit"}
      BY <1>4, <2>7 DEF WP!GetFilenoFails, WP!ExecutePasses,
         WP!ExecuteStops, WP!AfterStore
    <3> QED BY <1>3, <2>1, <3>1, <3>2 DEF Clean, WP!AfterStore
  <2>8. ~WP!Reply(w) /\ ~WP!SendError(w)
    BY <1>4, <1>9 DEF WP!Reply, WP!SendError, WP!AfterStore
  <2> QED BY <1>1, <2>2, <2>3, <2>4, <2>5, <2>6, <2>7, <2>8 DEF WP!Worker
<1>10. CASE wpc[w] \in {"reply", "error"}
  <2>1. WP!Reply(w) \/ WP!SendError(w)
    BY <1>1, <1>10, Assumptions, WP!WorkerAt
  <2>2. wpc'[w] \in {"idle", "dead"}
    BY <1>4, <2>1 DEF WP!Reply, WP!SendError
  <2> QED BY <2>2 DEF Clean, WP!AfterStore
<1> QED
  BY <1>1, <1>5, <1>6, <1>7, <1>8, <1>9, <1>10 DEF WP!Pcs, WP!AfterStore

LEMMA AllCleanStep ==
  ASSUME "litter" \notin Faults,
         OwnIds, SystemInv, OwnDirs, AllClean, [Next]_vars
  PROVE  AllClean'
<1> USE DEF AllClean
<1>1. WP!TypeOK /\ WP!CountInv
  BY DEF SystemInv, WP!WorkersInv
<1>2. ASSUME NEW v \in Workers, Clean(v),
             wpc'[v] = wpc[v], task'[v] = task[v], cleaning'[v] = cleaning[v],
             dir'[WP!Id(v)] = dir[WP!Id(v)]
      PROVE  Clean(v)'
  <2>1. WP!Dir(v)' = WP!Dir(v) BY <1>2 DEF WP!Dir, WP!Id
  <2> QED BY <1>2, <2>1 DEF Clean, WP!EmptyDir, WP!NoDir
<1>3. ASSUME NEW w \in Workers, Working(w) PROVE AllClean'
  <2>1. WP!Worker(w) /\ wpc[w] \notin {"idle", "dead"} /\ UNCHANGED task
    BY <1>3, Honestly, Assumptions, WP!Runs
  <2>2. Clean(w)' BY <1>3, <2>1, CleanWorkerStep
  <2>3. ASSUME NEW v \in Workers \ {w}, wpc'[v] \notin {"idle", "dead"}
        PROVE  Clean(v)'
    <3>1. /\ wpc'[v] = wpc[v] /\ cleaning'[v] = cleaning[v]
          /\ wpc[v] # "idle" /\ WP!Id(v) # WP!Id(w) =>
               dir'[WP!Id(v)] = dir[WP!Id(v)]
      BY <1>1, <2>1, Assumptions, WP!Frame
    <3>2. WP!Id(v) # WP!Id(w) BY <2>1, <2>3, <3>1, Apart
    <3> QED BY <1>2, <2>1, <2>3, <3>1, <3>2
  <2> QED BY <2>2, <2>3
<1>4. ASSUME NEW w \in Workers, Take(w) PROVE AllClean'
  <2>1. PICK t : WP!Take(w, t) BY <1>4, SameWorker DEF Take
  <2>2. /\ wpc' = [wpc EXCEPT ![w] = "mkdir"]
        /\ cleaning' = [cleaning EXCEPT ![w] = FALSE] /\ UNCHANGED dir
    BY <2>1 DEF WP!Take, WP!Goto
  <2>3. \A v \in Workers \ {w} : task'[v] = task[v]
    BY <1>4 DEF Take, S!Take, SystemInv, SP!IInv, SP!TypeOK
  <2>4. Clean(w)'
    BY <1>1, <2>2 DEF Clean, WP!TypeOK, WP!AfterStore
  <2>5. ASSUME NEW v \in Workers \ {w}, wpc'[v] \notin {"idle", "dead"}
        PROVE  Clean(v)'
    <3>1. /\ wpc'[v] = wpc[v] /\ cleaning'[v] = cleaning[v]
          /\ dir'[WP!Id(v)] = dir[WP!Id(v)]
      BY <1>1, <2>2 DEF WP!TypeOK
    <3> QED BY <1>2, <2>3, <2>5, <3>1
  <2> QED BY <2>4, <2>5
<1>5. CASE UNCHANGED <<workerVars, task>>
  BY <1>2, <1>5 DEF workerVars
<1>6. ASSUME NEW c \in Clients, Client(c) PROVE UNCHANGED <<workerVars, task>>
  BY <1>6, OutsideWorkers
<1>7. CASE Broker BY <1>5, <1>7, OutsideWorkers
<1> QED BY <1>3, <1>4, <1>5, <1>6, <1>7
        DEF Next, Worker, Step, Judged, Reply, SendError, vars

(* What is done for one client leaves what another was sent as it was.      *)
LEMMA Undisturbed ==
  ASSUME OwnIds, SystemInv, ResultsOK, [Next]_vars,
         NEW p \in {"back", "inbox"}, NEW x, NEW i, NEW r, SP!At(p, x, i, r)
  PROVE  /\ results'[TaskOf(r)] = results[TaskOf(r)]
         /\ dir'[RunId[TaskOf(r)]] = dir[RunId[TaskOf(r)]]
<1> DEFINE t == TaskOf(r)
<1>1. t \in Tasks /\ RunId[t] \in WP!RunIds
  BY Placed DEF SystemInv, WP!RunIds
<1>2. ASSUME NEW w \in Workers, Working(w)
      PROVE  /\ t # Current(w)
             /\ dir'[RunId[t]] = dir[RunId[t]]
  <2>1. WP!Worker(w) /\ wpc[w] \notin {"idle", "dead"} /\ WP!TypeOK
    BY <1>2, Honestly, Assumptions, WP!Runs DEF SystemInv, WP!WorkersInv
  <2>2. t # Current(w) /\ RunId[t] # WP!Id(w)
    BY <2>1, Elsewhere
  <2>3. \E d : dir' = [dir EXCEPT ![WP!Id(w)] = d]
    BY <2>1, Assumptions, WP!DirStep
  <2> QED BY <1>1, <2>1, <2>2, <2>3 DEF WP!TypeOK
<1> HIDE DEF t
<1>3. ASSUME NEW w \in Workers, Working(w)
      PROVE  results'[t] = results[t] /\ dir'[RunId[t]] = dir[RunId[t]]
  <2>1. CASE UNCHANGED results BY <1>2, <1>3, <2>1
  <2>2. CASE ~UNCHANGED results
    <3>1. PICK u, y : results' = [results EXCEPT ![u] = y] /\ u # t
      <4>1. ASSUME NEW v \in Workers, Judged(v) \/ SendError(v)
            PROVE  \E y : results' = [results EXCEPT ![Current(v)] = y]
        BY <4>1 DEF Judged, SendError, GetResults
      <4>2. ASSUME NEW v \in Workers, Judged(v) \/ SendError(v)
            PROVE  Current(v) # t
        BY <1>2, <4>2 DEF Judged, SendError
      <4>3. \E v \in Workers : Judged(v) \/ SendError(v)
        BY <2>2 DEF Next, Client, Broker, Worker, Take, Step, Reply, vars
      <4> QED BY <4>1, <4>2, <4>3
    <3>2. results'[t] = results[t] BY <1>1, <3>1 DEF ResultsOK
    <3> QED BY <1>2, <1>3, <3>2
  <2> QED BY <2>1, <2>2
<1>4. ASSUME NEW w \in Workers, Take(w) PROVE UNCHANGED <<dir, results>>
  BY <1>4 DEF Take, W!Take
<1>5. CASE UNCHANGED <<dir, results>> BY <1>5
<1> QED BY <1>3, <1>4, <1>5, OutsideWorkers
        DEF Next, Worker, Step, Judged, Reply, SendError, workerVars, vars, t

LEMMA AnswersCleanStep ==
  ASSUME OwnIds, SystemInv, ResultsOK, AllClean, AnswersClean, [Next]_vars
  PROVE  AnswersClean'
<1> SUFFICES ASSUME NEW p \in {"back", "inbox"}, NEW x, NEW i, NEW r,
                    SP!At(p, x, i, r)'
             PROVE  \/ results'[TaskOf(r)].verdict = "error"
                    \/ ~dir'[RunId[TaskOf(r)]].exists
  BY DEF AnswersClean
<1>1. WP!TypeOK /\ WP!CountInv
  BY DEF SystemInv, WP!WorkersInv
<1>2. ASSUME NEW q \in {"back", "inbox"}, NEW y, NEW j, SP!At(q, y, j, r)
      PROVE  \/ results'[TaskOf(r)].verdict = "error"
             \/ ~dir'[RunId[TaskOf(r)]].exists
  BY <1>2, Undisturbed DEF AnswersClean
<1>3. ASSUME NEW w \in Workers, Reply(w), task[w] = r
      PROVE  ~dir'[RunId[TaskOf(r)]].exists
  <2>1. WP!Worker(w) /\ wpc'[w] = "idle" BY <1>3, Honestly DEF Reply
  <2>2. WP!Reply(w) /\ wpc[w] = "reply" BY <1>1, <2>1, Assumptions, WP!Ends
  <2>3. ~WP!Dir(w).exists BY <2>2 DEF AllClean, Clean
  <2>4. UNCHANGED dir BY <2>2 DEF WP!Reply
  <2>5. WP!Id(w) = RunId[TaskOf(r)] BY <1>3 DEF WP!Id
  <2> QED BY <2>3, <2>4, <2>5 DEF WP!Dir
<1>4. ASSUME NEW w \in Workers, SendError(w), task[w] = r
      PROVE  results'[TaskOf(r)].verdict = "error"
  BY <1>4, ErrorSent DEF Current
<1> QED BY <1>2, <1>3, <1>4, NewReply

LEMMA CleanSent ==
  ASSUME SystemInv, AnswersClean
  PROVE  CleanBeforeReply
<1> SUFFICES ASSUME NEW c \in Clients, NEW i \in DOMAIN inbox[c]
             PROVE  LET t == TaskOf(inbox[c][i])
                    IN  results[t].verdict # "error" => ~dir[RunId[t]].exists
  BY DEF CleanBeforeReply
<1>1. inbox[c] \in Seq(SP!Request)
  BY DEF SystemInv, SP!IInv, SP!TypeOK
<1>2. SP!At("inbox", c, i, inbox[c][i])
  BY <1>1 DEF SP!At, SP!Holds
<1> QED BY <1>2 DEF AnswersClean

(* The reply leaves after the directory is gone, and nobody makes it again  *)
(* before the client has the reply: the run_id is free.                     *)
THEOREM RepliesAfterCleaning ==
  ASSUME OwnIds, "litter" \notin Faults
  PROVE  Spec => []CleanBeforeReply
<1> DEFINE I == OwnDirs /\ ResultsOK /\ AllClean /\ AnswersClean
<1>1. Init => I
  <2> SUFFICES ASSUME Init PROVE I
    OBVIOUS
  <2>1. OwnDirs /\ ResultsOK BY InitOwn, InitVerdicts
  <2>2. AllClean BY DEF Init, AllClean
  <2>3. \A p, x, i, r : ~SP!At(p, x, i, r)
    BY SameInit, Assumptions, SP!InitEmpty DEF Init
  <2> QED BY <2>1, <2>2, <2>3 DEF AnswersClean
<1>2. SystemInv /\ I /\ [Next]_vars => I'
  BY OwnDirsStep, ResultsStep, AllCleanStep, AnswersCleanStep
<1>3. SystemInv /\ I => CleanBeforeReply BY CleanSent
<1> HIDE DEF I
<1> QED BY <1>1, <1>2, <1>3, Inductive, PTL DEF Spec
=============================================================================
