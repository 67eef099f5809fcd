------------------------- MODULE JudgeWorkerProofs -------------------------
(***************************************************************************)
(* Proofs about the worker threads and their directories (module           *)
(* JudgeWorker), for any workers, tasks, run_ids, faults and limits.       *)
(***************************************************************************)
EXTENDS JudgeWorker, FiniteSetTheorems, TLAPS

(* The test a program runs for is one of the task, and only finitely many   *)
(* files are open: what TypeOK needs to be inductive.                       *)
CountInv ==
  /\ \A w \in Workers : wpc[w] = "execute" => num[w] # RunTimes
  /\ IsFiniteSet(OpenTests)

-----------------------------------------------------------------------------
(* The task of a busy worker, and its directory.                            *)
LEMMA Busy ==
  ASSUME TypeOK, NEW w \in Workers, wpc[w] # "idle"
  PROVE  /\ task[w] \in Tasks /\ Id(w) \in RunIds /\ Dir(w) \in DirType
         /\ task[w] \in Owners
BY DEF TypeOK, Id, Dir, RunIds, Owners

LEMMA DirTypes ==
  /\ NoDir \in DirType /\ EmptyDir \in DirType
  /\ \A l \in BOOLEAN : OldDir(l) \in DirType
  /\ \A d \in DirType : d.litter = FALSE =>
       [EmptyDir EXCEPT !.litter = d.litter] = EmptyDir
<1>1. NoDir \in DirType BY DEF NoDir, DirType, Owners
<1>2. EmptyDir \in DirType BY DEF NoDir, EmptyDir, DirType, Owners
<1>3. ASSUME NEW l \in BOOLEAN PROVE OldDir(l) \in DirType
  <2>1. 0..RunTimes \in SUBSET (0..RunTimes) OBVIOUS
  <2> QED BY <2>1 DEF OldDir, DirType, Owners
<1>4. \A d \in DirType, l \in BOOLEAN :
        d.litter = l => [d EXCEPT !.litter = l] = d
  BY DEF DirType
<1>5. EmptyDir.litter = FALSE BY DEF NoDir, EmptyDir
<1>6. [EmptyDir EXCEPT !.litter = FALSE] = EmptyDir
  BY <1>2, <1>4, <1>5
<1> QED BY <1>1, <1>2, <1>3, <1>6

(* A worker writes to its own directory only, and no step but Mkdir makes   *)
(* one: d is the directory it leaves.                                       *)
LEMMA DirStep ==
  ASSUME TypeOK, NEW w \in Workers, Worker(w)
  PROVE  /\ wpc[w] # "idle"
         /\ \E d \in DirType : dir' = [dir EXCEPT ![Id(w)] = d]
<1>1. wpc[w] # "idle"
  BY DEF Worker, Mkdir, MkdirExists, MkdirFails, OpenDir, Unlink, Rmdir,
         StoreSourceFile, StartCompiler, SystemFails, Link, HasData, ReadError,
         AllTested, GetFileno, GetFilenoFails, Litter, ExecutePasses,
         ExecuteStops, Reply, SendError, Goto
<1>2. /\ task[w] \in Owners /\ Dir(w) \in DirType /\ Id(w) \in RunIds
      /\ dir = [dir EXCEPT ![Id(w)] = Dir(w)] /\ NoDir \in DirType
      /\ num[w] \in 0..RunTimes /\ read[w] \in Owners
  BY <1>1, Busy, DirTypes DEF Dir, TypeOK
<1>3. CASE UNCHANGED dir BY <1>1, <1>2, <1>3
<1>4. ASSUME NEW d \in DirType, SetDir(w, d) \/ Write(w, d)
      PROVE  \E e \in DirType : dir' = [dir EXCEPT ![Id(w)] = e]
  BY <1>2, <1>4 DEF SetDir, Write
<1>5. CASE Mkdir(w) BY <1>1, <1>4, <1>5, DirTypes DEF Mkdir
<1>6. CASE Unlink(w)
  <2>1. [EmptyDir EXCEPT !.litter = Dir(w).litter] \in DirType
    BY <1>2, DirTypes DEF DirType
  <2>2. \/ UNCHANGED dir
        \/ Write(w, [EmptyDir EXCEPT !.litter = Dir(w).litter])
    BY <1>6 DEF Unlink
  <2> QED BY <1>1, <1>3, <1>4, <2>1, <2>2
<1>7. CASE Rmdir(w)
  <2>1. UNCHANGED dir \/ SetDir(w, NoDir) BY <1>7 DEF Rmdir
  <2> QED BY <1>1, <1>2, <1>3, <1>4, <2>1
<1>8. CASE StoreSourceFile(w)
  <2>1. [Dir(w) EXCEPT !.source = task[w]] \in DirType BY <1>2 DEF DirType
  <2> QED BY <1>1, <1>4, <1>8, <2>1 DEF StoreSourceFile
<1>9. CASE StartCompiler(w)
  <2>1. [Dir(w) EXCEPT !.error = "empty"] \in DirType BY <1>2 DEF DirType
  <2> QED BY <1>1, <1>4, <1>9, <2>1 DEF StartCompiler
<1>10. CASE Link(w)
  <2>1. /\ [Dir(w) EXCEPT !.main = read[w]] \in DirType
        /\ [Dir(w) EXCEPT !.error = "text"] \in DirType
    BY <1>2 DEF DirType
  <2> QED BY <1>1, <1>2, <1>4, <1>10, <2>1 DEF Link
<1>11. CASE GetFileno(w)
  <2>1. [Dir(w) EXCEPT !.outs = Dir(w).outs \cup {num[w]}] \in DirType
    BY <1>2 DEF DirType
  <2> QED BY <1>1, <1>4, <1>11, <2>1 DEF GetFileno
<1>12. CASE Litter(w)
  <2>1. [Dir(w) EXCEPT !.litter = TRUE] \in DirType BY <1>2 DEF DirType
  <2> QED BY <1>1, <1>4, <1>12, <2>1 DEF Litter
<1> QED
  BY <1>3, <1>5, <1>6, <1>7, <1>8, <1>9, <1>10, <1>11, <1>12
     DEF Worker, MkdirExists, MkdirFails, OpenDir, SystemFails, HasData,
         ReadError, AllTested, GetFilenoFails, ExecutePasses, ExecuteStops,
         Reply, SendError

-----------------------------------------------------------------------------
LEMMA InitTyped == Init => TypeOK /\ CountInv
<1> SUFFICES ASSUME Init PROVE TypeOK /\ CountInv
  OBVIOUS
<1>1. 0 \in 0..RunTimes /\ 0 <= MaxFds BY WorkerAssumption
<1>2. dir \in [RunIds -> DirType] BY DirTypes DEF Init
<1>3. OpenTests = {} BY DEF Init, OpenTests
<1>4. OpenFds <= MaxFds /\ IsFiniteSet(OpenTests)
  BY <1>1, <1>3, FS_EmptySet DEF OpenFds
<1>5. /\ fds \in [Workers -> SUBSET (Tasks \X (0..RunTimes - 1))]
      /\ detached \subseteq Workers /\ todo \subseteq Tasks
      /\ ran \subseteq [task : Tasks, program : Owners, fresh : BOOLEAN]
  BY DEF Init
<1>6. /\ wpc \in [Workers -> Pcs] /\ task \in [Workers -> Tasks \cup {NoTask}]
      /\ num \in [Workers -> 0..RunTimes] /\ read \in [Workers -> Owners]
      /\ \A w \in Workers : wpc[w] = "idle"
  BY <1>1 DEF Init, Pcs, Owners
<1>7. cleaning \in [Workers -> BOOLEAN] /\ fresh \in [Workers -> BOOLEAN]
  BY DEF Init
<1>8. down \in BOOLEAN BY DEF Init
<1> QED BY <1>2, <1>4, <1>5, <1>6, <1>7, <1>8 DEF TypeOK, CountInv

(* What the descriptors depend on: OpenTests only grows by one test, below  *)
(* the limit, and shrinks when closeAll closes what a worker has open.      *)
LEMMA OpenStep ==
  ASSUME TypeOK, CountInv, NEW w \in Workers, Worker(w)
  PROVE  /\ fds' \in [Workers -> SUBSET (Tasks \X (0..RunTimes - 1))]
         /\ OpenFds' <= MaxFds /\ IsFiniteSet(OpenTests')
<1>1. /\ IsFiniteSet(OpenTests) /\ Cardinality(OpenTests) \in Nat
      /\ RunTimes \in Nat /\ MaxFds \in Nat
  BY FS_CardinalityType, WorkerAssumption DEF CountInv
<1>2. CASE GetFileno(w)
  <2> DEFINE test == <<task[w], num[w]>>
  <2>1. task[w] \in Tasks BY <1>2, Busy DEF GetFileno, Goto
  <2>2. num[w] \in 0..RunTimes - 1
    BY <1>1, <1>2 DEF GetFileno, TypeOK
  <2>3. fds' = [fds EXCEPT ![w] = fds[w] \cup {test}]
    BY <1>2 DEF GetFileno
  <2>4. fds' \in [Workers -> SUBSET (Tasks \X (0..RunTimes - 1))]
    BY <2>1, <2>2, <2>3 DEF TypeOK
  <2> HIDE DEF test
  <2>5. OpenTests' = OpenTests \cup {test}
    BY <2>3 DEF OpenTests, TypeOK
  <2>6. /\ IsFiniteSet(OpenTests')
        /\ \/ Cardinality(OpenTests') = Cardinality(OpenTests)
           \/ Cardinality(OpenTests') = Cardinality(OpenTests) + 1
    BY <1>1, <2>5, FS_AddElement
  <2>7. 3 * Cardinality(OpenTests) + 3 <= MaxFds
    BY <1>2 DEF GetFileno, OpenFds
  <2>8. OpenFds' <= MaxFds BY <1>1, <2>6, <2>7 DEF OpenFds
  <2> QED BY <2>4, <2>6, <2>8
<1>3. CASE ExecutePasses(w) \/ SendError(w)
  <2>1. fds' = [fds EXCEPT ![w] = {}] BY <1>3 DEF ExecutePasses, SendError
  <2>2. fds' \in [Workers -> SUBSET (Tasks \X (0..RunTimes - 1))]
    BY <2>1 DEF TypeOK
  <2>3. OpenTests' \subseteq OpenTests BY <2>1 DEF OpenTests, TypeOK
  <2>4. /\ IsFiniteSet(OpenTests')
        /\ Cardinality(OpenTests') <= Cardinality(OpenTests)
    BY <1>1, <2>3, FS_Subset
  <2>5. Cardinality(OpenTests') \in Nat BY <2>4, FS_CardinalityType
  <2>6. 3 * Cardinality(OpenTests) <= MaxFds BY DEF TypeOK, OpenFds
  <2>7. OpenFds' <= MaxFds BY <1>1, <2>4, <2>5, <2>6 DEF OpenFds
  <2> QED BY <2>2, <2>4, <2>7
<1>4. CASE UNCHANGED fds
  BY <1>4 DEF TypeOK, CountInv, OpenFds, OpenTests
<1> QED
  BY <1>2, <1>3, <1>4
     DEF Worker, Mkdir, MkdirExists, MkdirFails, OpenDir, Unlink, Rmdir,
         StoreSourceFile, StartCompiler, SystemFails, Link, HasData, ReadError,
         AllTested, GetFilenoFails, Litter, ExecuteStops, Reply

(* Where a worker may go from where it is; it leaves the others alone.      *)
LEMMA PcStep ==
  ASSUME TypeOK, NEW w \in Workers, Worker(w)
  PROVE  /\ \/ \E to \in Pcs \ {"idle"} : wpc' = [wpc EXCEPT ![w] = to]
            \/ wpc[w] = "reply" /\ wpc' = [wpc EXCEPT ![w] = "idle"]
         /\ wpc'[w] = "rmdir" => wpc[w] = "unlink"
         /\ wpc'[w] = "reply" => wpc[w] = "rmdir"
         /\ wpc'[w] = "unlink" => OpenDir(w)
<1>1. \E from, to \in Pcs :
        /\ Goto(w, from, to)
        /\ to = "idle" => from = "reply"
        /\ to = "rmdir" => from = "unlink"
        /\ to = "reply" => from = "rmdir"
        /\ to = "unlink" => OpenDir(w)
  <2> USE DEF Pcs
  <2>1. CASE Mkdir(w) BY <2>1 DEF Mkdir
  <2>2. CASE MkdirExists(w) \/ MkdirFails(w)
    BY <2>2 DEF MkdirExists, MkdirFails
  <2>3. CASE OpenDir(w) BY <2>3 DEF OpenDir
  <2>4. CASE Unlink(w)
    <3>1. Goto(w, "unlink", "rmdir") BY <2>4 DEF Unlink
    <3> QED BY <3>1
  <2>5. CASE Rmdir(w)
    <3>1. Goto(w, "rmdir", IF cleaning[w] THEN "reply" ELSE "mkdir")
      BY <2>5 DEF Rmdir
    <3> QED BY <3>1
  <2>6. CASE StoreSourceFile(w)
    <3>1. Goto(w, "store", IF Language = "script" THEN "open" ELSE "compile")
      BY <2>6 DEF StoreSourceFile
    <3> QED BY <3>1
  <2>7. CASE StartCompiler(w)
    <3>1. Goto(w, "compile", IF Dir(w).exists THEN "link" ELSE "hasData")
      BY <2>7 DEF StartCompiler
    <3> QED BY <3>1
  <2>8. CASE SystemFails(w) BY <2>8 DEF SystemFails
  <2>9. CASE Link(w)
    <3>1. Goto(w, "link", "hasData") BY <2>9 DEF Link
    <3> QED BY <3>1
  <2>10. CASE HasData(w) BY <2>10 DEF HasData
  <2>11. CASE ReadError(w) BY <2>11 DEF ReadError
  <2>12. CASE AllTested(w) BY <2>12 DEF AllTested
  <2>13. CASE GetFileno(w)
    <3>1. Goto(w, "open", "execute") BY <2>13 DEF GetFileno
    <3> QED BY <3>1
  <2>14. CASE GetFilenoFails(w) BY <2>14 DEF GetFilenoFails
  <2>15. CASE Litter(w)
    <3>1. Goto(w, "execute", "execute") BY <2>15 DEF Litter
    <3> QED BY <3>1
  <2>16. CASE ExecutePasses(w) \/ ExecuteStops(w)
    BY <2>16 DEF ExecutePasses, ExecuteStops
  <2>17. CASE Reply(w) \/ SendError(w)
    BY <2>17 DEF Reply, SendError
  <2> QED
    BY <2>1, <2>2, <2>3, <2>4, <2>5, <2>6, <2>7, <2>8, <2>9, <2>10, <2>11,
       <2>12, <2>13, <2>14, <2>15, <2>16, <2>17 DEF Worker
<1> QED BY <1>1 DEF Goto, TypeOK

(* The other variables, one after the other.                                *)
LEMMA OthersStep ==
  ASSUME TypeOK, CountInv, NEW w \in Workers, Worker(w)
  PROVE  /\ UNCHANGED <<task, todo>>
         /\ num' \in [Workers -> 0..RunTimes]
         /\ cleaning' \in [Workers -> BOOLEAN]
         /\ read' \in [Workers -> Owners]
         /\ detached' \subseteq Workers
         /\ fresh' \in [Workers -> BOOLEAN]
         /\ ran' \subseteq [task : Tasks, program : Owners, fresh : BOOLEAN]
         /\ down' \in BOOLEAN
         /\ \A v \in Workers : wpc'[v] = "execute" => num'[v] # RunTimes
<1>1. /\ wpc[w] # "idle" /\ task[w] \in Tasks /\ Dir(w) \in DirType
      /\ num[w] \in 0..RunTimes /\ RunTimes \in Nat
  BY DirStep, Busy, WorkerAssumption DEF TypeOK
<1> USE DEF Worker, Mkdir, MkdirExists, MkdirFails, OpenDir, Unlink, Rmdir,
       StoreSourceFile, StartCompiler, SystemFails, Link, HasData, ReadError,
       AllTested, GetFileno, GetFilenoFails, Litter, ExecutePasses,
       ExecuteStops, Reply, SendError
<1>2. UNCHANGED <<task, todo>> OBVIOUS
<1>3. num' \in [Workers -> 0..RunTimes]
  <2>1. CASE ExecutePasses(w)
    <3>1. wpc[w] = "execute" /\ num' = [num EXCEPT ![w] = num[w] + 1]
      BY <2>1 DEF Goto
    <3>2. num[w] + 1 \in 0..RunTimes BY <1>1, <3>1 DEF CountInv
    <3> QED BY <3>1, <3>2 DEF TypeOK
  <2>2. CASE UNCHANGED num BY <2>2 DEF TypeOK
  <2> QED BY <2>1, <2>2
<1>4. cleaning' \in [Workers -> BOOLEAN]
  <2>1. UNCHANGED cleaning \/ cleaning' = [cleaning EXCEPT ![w] = TRUE]
    OBVIOUS
  <2> QED BY <2>1 DEF TypeOK
<1>5. read' \in [Workers -> Owners]
  <2>1. UNCHANGED read \/ read' = [read EXCEPT ![w] = Dir(w).source]
    OBVIOUS
  <2>2. Dir(w).source \in Owners BY <1>1 DEF DirType
  <2> QED BY <2>1, <2>2 DEF TypeOK
<1>6. detached' \subseteq Workers
  <2>1. \/ UNCHANGED detached
        \/ detached' = detached \ {w}
        \/ detached' = detached \cup WorkersAt("link", w)
        \/ detached' = detached \cup WorkersAt("unlink", w)
    OBVIOUS
  <2>2. \A step : WorkersAt(step, w) \subseteq Workers BY DEF WorkersAt
  <2> HIDE DEF Worker
  <2> QED BY <2>1, <2>2 DEF TypeOK
<1>7. fresh' \in [Workers -> BOOLEAN]
  <2>1. \/ UNCHANGED fresh
        \/ fresh' = [fresh EXCEPT ![w] = num[w] \notin Dir(w).outs]
    OBVIOUS
  <2>2. (num[w] \notin Dir(w).outs) \in BOOLEAN OBVIOUS
  <2> QED BY <2>1, <2>2 DEF TypeOK
<1>8. ran' \subseteq [task : Tasks, program : Owners, fresh : BOOLEAN]
  <2>1. UNCHANGED ran \/ Ran(w) OBVIOUS
  <2>2. Program(w) \in Owners BY <1>1 DEF Program, DirType
  <2>3. [task |-> task[w], program |-> Program(w), fresh |-> fresh[w]]
          \in [task : Tasks, program : Owners, fresh : BOOLEAN]
    BY <1>1, <2>2 DEF TypeOK
  <2>4. ran \subseteq [task : Tasks, program : Owners, fresh : BOOLEAN]
    BY DEF TypeOK
  <2> HIDE DEF Worker
  <2>5. ran' = ran \/ ran' = ran \cup
          {[task |-> task[w], program |-> Program(w), fresh |-> fresh[w]]}
    BY <2>1 DEF Ran
  <2> QED BY <2>3, <2>4, <2>5
<1>9. down' \in BOOLEAN
  <2>1. down' = down \/ down' = TRUE \/ down' = ~Dir(w).exists
        \/ down' = (Dir(w).error = "none")
    OBVIOUS
  <2>2. Dir(w).exists \in BOOLEAN BY <1>1 DEF DirType
  <2>3. down \in BOOLEAN BY DEF TypeOK
  <2> HIDE DEF Worker
  <2> QED BY <2>1, <2>2, <2>3
<1>10. ASSUME NEW v \in Workers, wpc'[v] = "execute"
       PROVE  num'[v] # RunTimes
  <2>1. CASE v = w
    <3>1. CASE GetFileno(w)
      <4>1. num[w] # RunTimes /\ UNCHANGED num BY <3>1
      <4> QED BY <2>1, <4>1
    <3>2. CASE Litter(w)
      <4>1. wpc[w] = "execute" /\ UNCHANGED num BY <3>2 DEF Goto
      <4> QED BY <2>1, <4>1 DEF CountInv
    <3>3. CASE ~GetFileno(w) /\ ~Litter(w)
      <4>1. \E from, to \in Pcs \ {"execute"} : wpc' = [wpc EXCEPT ![w] = to]
        BY <3>3 DEF Goto, Pcs
      <4> QED BY <1>10, <2>1, <4>1 DEF TypeOK
    <3> QED BY <3>1, <3>2, <3>3
  <2>2. CASE v # w
    <3>1. wpc[v] = "execute" BY <1>10, <2>2, PcStep DEF TypeOK
    <3>2. UNCHANGED num \/ num' = [num EXCEPT ![w] = num[w] + 1]
      OBVIOUS
    <3>3. num'[v] = num[v] BY <2>2, <3>2 DEF TypeOK
    <3> QED BY <3>1, <3>3 DEF CountInv
  <2> QED BY <2>1, <2>2
<1> QED BY <1>2, <1>3, <1>4, <1>5, <1>6, <1>7, <1>8, <1>9, <1>10

LEMMA TakeType ==
  ASSUME TypeOK, CountInv, NEW w \in Workers, NEW t \in Tasks, Take(w, t)
  PROVE  TypeOK' /\ CountInv'
<1> USE DEF Take, Goto
<1>1. 0 \in 0..RunTimes BY WorkerAssumption
<1>2. /\ wpc' \in [Workers -> Pcs]
      /\ task' \in [Workers -> Tasks \cup {NoTask}]
      /\ num' \in [Workers -> 0..RunTimes]
      /\ cleaning' \in [Workers -> BOOLEAN]
      /\ todo' \subseteq Tasks
  BY <1>1 DEF TypeOK, Pcs
<1>3. t # NoTask BY WorkerAssumption DEF NoTask
<1>4. \A v \in Workers : /\ task'[v] = NoTask => wpc'[v] = "idle"
                         /\ wpc'[v] = "execute" => num'[v] # RunTimes
  BY <1>3 DEF TypeOK, CountInv
<1>5. UNCHANGED <<detached, read, fresh, fds, dir, ran, down>>
  OBVIOUS
<1> QED BY <1>2, <1>4, <1>5 DEF TypeOK, CountInv, OpenFds, OpenTests

LEMMA TypeStep ==
  ASSUME TypeOK, CountInv, [Next]_vars
  PROVE  TypeOK' /\ CountInv'
<1>1. ASSUME NEW w \in Workers, Worker(w) PROVE TypeOK' /\ CountInv'
  <2>1. wpc[w] # "idle" /\ dir' \in [RunIds -> DirType]
    BY <1>1, DirStep DEF TypeOK
  <2>2. /\ wpc' \in [Workers -> Pcs]
        /\ \A v \in Workers : v # w => wpc'[v] = wpc[v]
    BY <1>1, PcStep DEF TypeOK, Pcs
  <2>3. task[w] # NoTask BY <2>1 DEF TypeOK
  <2>4. /\ fds' \in [Workers -> SUBSET (Tasks \X (0..RunTimes - 1))]
        /\ OpenFds' <= MaxFds /\ IsFiniteSet(OpenTests')
    BY <1>1, OpenStep
  <2>5. /\ num' \in [Workers -> 0..RunTimes]
        /\ cleaning' \in [Workers -> BOOLEAN]
        /\ read' \in [Workers -> Owners]
        /\ detached' \subseteq Workers
        /\ fresh' \in [Workers -> BOOLEAN]
        /\ ran' \subseteq [task : Tasks, program : Owners, fresh : BOOLEAN]
        /\ down' \in BOOLEAN
        /\ \A v \in Workers : wpc'[v] = "execute" => num'[v] # RunTimes
    BY <1>1, OthersStep
  <2>6. UNCHANGED <<task, todo>> BY <1>1, OthersStep
  <2>7. \A v \in Workers : task'[v] = NoTask => wpc'[v] = "idle"
    BY <2>2, <2>3, <2>6 DEF TypeOK
  <2>8. task' \in [Workers -> Tasks \cup {NoTask}] /\ todo' \subseteq Tasks
    BY <2>6 DEF TypeOK
  <2>9. TypeOK'
    BY <2>1, <2>2, <2>4, <2>5, <2>7, <2>8 DEF TypeOK
  <2> QED BY <2>4, <2>5, <2>9 DEF CountInv
<1>2. ASSUME NEW w \in Workers, NEW t \in Tasks, Take(w, t)
      PROVE  TypeOK' /\ CountInv'
  BY <1>2, TakeType
<1>3. CASE UNCHANGED vars
  BY <1>3 DEF vars, TypeOK, CountInv, OpenFds, OpenTests
<1> QED BY <1>1, <1>2, <1>3 DEF Next

LEMMA Typed == Spec => [](TypeOK /\ CountInv)
BY InitTyped, TypeStep, PTL DEF Spec

(* The type invariant of the workers and their directories; it includes     *)
(* that no more descriptors are open than the process may have.             *)
THEOREM TypeCorrect == Spec => []TypeOK
BY Typed, PTL

-----------------------------------------------------------------------------
(* No task is with two workers, or taken again.                             *)
TakenOnce ==
  /\ \A w \in Workers : wpc[w] # "idle" => task[w] \notin todo
  /\ \A v, w \in Workers :
       wpc[v] # "idle" /\ wpc[w] # "idle" /\ task[v] = task[w] => v = w

LEMMA TakenOnceStep ==
  ASSUME TypeOK, CountInv, TakenOnce, [Next]_vars
  PROVE  TakenOnce'
<1>1. ASSUME NEW w \in Workers, Worker(w) PROVE TakenOnce'
  <2>1. \A v \in Workers : wpc'[v] # "idle" => wpc[v] # "idle"
    BY <1>1, DirStep, PcStep DEF TypeOK
  <2>2. UNCHANGED <<task, todo>> BY <1>1, OthersStep
  <2> QED BY <2>1, <2>2 DEF TakenOnce
<1>2. ASSUME NEW w \in Workers, NEW t \in Tasks, Take(w, t) PROVE TakenOnce'
  BY <1>2 DEF Take, Goto, TypeOK, TakenOnce
<1>3. CASE UNCHANGED vars BY <1>3 DEF vars, TakenOnce
<1> QED BY <1>1, <1>2, <1>3 DEF Next

-----------------------------------------------------------------------------
(* The directory is removed.                                                *)

(* A worker that has a task of run_id id, and one that will not leave the   *)
(* directory before it has removed what is in it now.                       *)
At(w, id) == wpc[w] \notin {"idle", "reply"} /\ Id(w) = id
Clears(w, id) ==
  At(w, id) /\ wpc[w] # "rmdir" /\ ~(wpc[w] = "unlink" /\ w \in detached)

Untouched(id) == \A t \in Tasks : RunId[t] = id => t \in todo

(* A directory is there only while a worker has it, or none ever had it;    *)
(* and removeDir has left files in it only if another worker is yet to      *)
(* remove them.                                                             *)
DirInv ==
  \A id \in RunIds : dir[id].exists /\ ~dir[id].litter =>
    /\ Untouched(id) \/ \E w \in Workers : At(w, id)
    /\ \/ dir[id] = EmptyDir \/ Untouched(id)
       \/ \E w \in Workers : Clears(w, id)

(* Where a worker that takes a step is.                                     *)
LEMMA Runs ==
  ASSUME NEW w \in Workers, Worker(w)
  PROVE  ~down /\ wpc[w] \notin {"idle", "dead", "exit"}
BY DEF Worker, Mkdir, MkdirExists, MkdirFails, OpenDir, Unlink, Rmdir,
   StoreSourceFile, StartCompiler, SystemFails, Link, HasData, ReadError,
   AllTested, GetFileno, GetFilenoFails, Litter, ExecutePasses, ExecuteStops,
   Reply, SendError, Goto

(* Which actions a worker can take where it is.                             *)
LEMMA WorkerAt ==
  ASSUME NEW w \in Workers, Worker(w)
  PROVE  /\ wpc[w] = "mkdir" => Mkdir(w) \/ MkdirExists(w) \/ MkdirFails(w)
         /\ wpc[w] = "opendir" => OpenDir(w)
         /\ wpc[w] = "unlink" => Unlink(w)
         /\ wpc[w] = "rmdir" => Rmdir(w)
         /\ wpc[w] = "store" => StoreSourceFile(w)
         /\ wpc[w] = "compile" => StartCompiler(w) \/ SystemFails(w)
         /\ wpc[w] = "link" => Link(w)
         /\ wpc[w] = "hasData" => HasData(w)
         /\ wpc[w] = "readError" => ReadError(w)
         /\ wpc[w] = "open" => AllTested(w) \/ GetFileno(w) \/ GetFilenoFails(w)
         /\ wpc[w] = "execute" => Litter(w) \/ ExecutePasses(w) \/ ExecuteStops(w)
         /\ wpc[w] = "reply" => Reply(w)
         /\ wpc[w] = "error" => SendError(w)
<1>1. Mkdir(w) \/ MkdirExists(w) \/ MkdirFails(w) => wpc[w] = "mkdir"
  BY DEF Mkdir, MkdirExists, MkdirFails, Goto
<1>2. OpenDir(w) => wpc[w] = "opendir"
  BY DEF OpenDir, Goto
<1>3. Unlink(w) => wpc[w] = "unlink"
  BY DEF Unlink, Goto
<1>4. Rmdir(w) => wpc[w] = "rmdir"
  BY DEF Rmdir, Goto
<1>5. StoreSourceFile(w) => wpc[w] = "store"
  BY DEF StoreSourceFile, Goto
<1>6. StartCompiler(w) \/ SystemFails(w) => wpc[w] = "compile"
  BY DEF StartCompiler, SystemFails, Goto
<1>7. Link(w) => wpc[w] = "link"
  BY DEF Link, Goto
<1>8. HasData(w) => wpc[w] = "hasData"
  BY DEF HasData, Goto
<1>9. ReadError(w) => wpc[w] = "readError"
  BY DEF ReadError, Goto
<1>10. AllTested(w) \/ GetFileno(w) \/ GetFilenoFails(w) => wpc[w] = "open"
  BY DEF AllTested, GetFileno, GetFilenoFails, Goto
<1>11. Litter(w) \/ ExecutePasses(w) \/ ExecuteStops(w) => wpc[w] = "execute"
  BY DEF Litter, ExecutePasses, ExecuteStops, Goto
<1>12. Reply(w) => wpc[w] = "reply"
  BY DEF Reply, Goto
<1>13. SendError(w) => wpc[w] = "error"
  BY DEF SendError, Goto
<1> QED
  BY <1>1, <1>2, <1>3, <1>4, <1>5, <1>6, <1>7, <1>8, <1>9, <1>10, <1>11,
     <1>12, <1>13 DEF Worker

LEMMA DirFields ==
  /\ NoDir.exists = FALSE /\ NoDir.litter = FALSE
  /\ \A l : [EmptyDir EXCEPT !.litter = l].litter = l
<1>1. NoDir.exists = FALSE /\ NoDir.litter = FALSE BY DEF NoDir
<1>2. \A d \in DirType : \A l : [d EXCEPT !.litter = l].litter = l BY DEF DirType
<1> QED BY <1>1, <1>2, DirTypes

(* The readdir loop leaves an empty directory, one it cannot empty, or one  *)
(* that is not the one it read.                                             *)
LEMMA UnlinkLeaves ==
  ASSUME TypeOK, NEW w \in Workers, Id(w) \in RunIds, Unlink(w),
         dir'[Id(w)].exists, ~dir'[Id(w)].litter
  PROVE  \/ dir'[Id(w)] = EmptyDir
         \/ w \in detached /\ UNCHANGED <<dir, detached>>
<1> DEFINE d == [EmptyDir EXCEPT !.litter = Dir(w).litter]
<1>1. CASE w \in detached /\ UNCHANGED <<dir, detached>> BY <1>1
<1>2. CASE Write(w, d)
  <2>1. dir'[Id(w)] = IF Dir(w).exists THEN d ELSE NoDir
    BY <1>2 DEF Write, SetDir, TypeOK
  <2>2. dir'[Id(w)] = d /\ d.litter = Dir(w).litter
    BY <2>1, DirFields
  <2>3. Dir(w) \in DirType /\ Dir(w).litter \in BOOLEAN
    BY DEF TypeOK, Dir, DirType
  <2>4. Dir(w).litter = FALSE BY <2>2, <2>3
  <2> QED BY <2>2, <2>3, <2>4, DirTypes
<1> QED BY <1>1, <1>2 DEF Unlink

(* Only workers with the same directory read one, or write to a file, that  *)
(* is no longer there.                                                      *)
LEMMA Attached ==
  ASSUME NEW w \in Workers, Worker(w), NEW v \in Workers \ {w}, Id(v) # Id(w)
  PROVE  v \in detached' <=> v \in detached
<1>1. \A step : v \notin WorkersAt(step, w) BY DEF WorkersAt
<1>2. \/ UNCHANGED detached
      \/ detached' = detached \ {w}
      \/ \E step : detached' = detached \cup WorkersAt(step, w)
  BY DEF Worker, Mkdir, MkdirExists, MkdirFails, OpenDir, Unlink, Rmdir,
     StoreSourceFile, StartCompiler, SystemFails, Link, HasData, ReadError,
     AllTested, GetFileno, GetFilenoFails, Litter, ExecutePasses, ExecuteStops,
     Reply, SendError
<1> QED BY <1>1, <1>2

LEMMA DirInvStep ==
  ASSUME TypeOK, CountInv, TakenOnce, DirInv, [Next]_vars
  PROVE  DirInv'
<1>1. ASSUME NEW w \in Workers, Worker(w) PROVE DirInv'
  <2>1. wpc[w] # "idle" /\ Id(w) \in RunIds /\ UNCHANGED <<task, todo>>
    BY <1>1, DirStep, Busy, OthersStep
  <2>2. PICK d \in DirType : dir' = [dir EXCEPT ![Id(w)] = d]
    BY <1>1, DirStep
  <2>3. /\ dir'[Id(w)] = d
        /\ \A id \in RunIds : id # Id(w) => dir'[id] = dir[id]
    BY <2>1, <2>2 DEF TypeOK
  <2>4. \A id : Untouched(id)' = Untouched(id)
    BY <2>1 DEF Untouched
  <2>5. /\ \A v \in Workers : v # w => wpc'[v] = wpc[v]
        /\ wpc'[w] = "idle" => wpc[w] = "reply"
        /\ wpc'[w] = "rmdir" => wpc[w] = "unlink"
        /\ wpc'[w] = "reply" => wpc[w] = "rmdir"
        /\ wpc'[w] = "unlink" => w \notin detached'
    <3>1. OpenDir(w) => w \notin detached' BY DEF OpenDir
    <3> QED BY <1>1, <3>1, PcStep DEF TypeOK
  <2>6. \A v \in Workers : Id(v)' = Id(v) BY <2>1 DEF Id
  <2>7. ~Untouched(Id(w))
    BY <2>1, Busy DEF TakenOnce, Untouched, Id
  \* Another directory has the workers it had.
  <2>8. ASSUME NEW id \in RunIds, id # Id(w), dir'[id].exists,
               ~dir'[id].litter
        PROVE  /\ Untouched(id)' \/ \E v \in Workers : At(v, id)'
               /\ \/ dir'[id] = EmptyDir \/ Untouched(id)'
                  \/ \E v \in Workers : Clears(v, id)'
    <3>1. /\ Untouched(id) \/ \E v \in Workers : At(v, id)
          /\ \/ dir[id] = EmptyDir \/ Untouched(id)
             \/ \E v \in Workers : Clears(v, id)
      BY <2>3, <2>8 DEF DirInv
    <3>2. ASSUME NEW v \in Workers, At(v, id)
          PROVE  At(v, id)' /\ (Clears(v, id) => Clears(v, id)')
      <4>1. v # w /\ wpc'[v] = wpc[v] /\ Id(v)' = id
        BY <2>5, <2>6, <2>8, <3>2 DEF At
      <4>2. v \in detached' <=> v \in detached
        BY <1>1, <2>8, <3>2, <4>1, Attached DEF At
      <4> QED BY <3>2, <4>1, <4>2 DEF At, Clears
    <3>3. \A v \in Workers : Clears(v, id) => At(v, id) BY DEF Clears
    <3> QED BY <2>3, <2>4, <2>8, <3>1, <3>2, <3>3
  <2>9. ASSUME dir'[Id(w)].exists, ~dir'[Id(w)].litter
        PROVE  /\ \E v \in Workers : At(v, Id(w))'
               /\ \/ dir'[Id(w)] = EmptyDir
                  \/ \E v \in Workers : Clears(v, Id(w))'
    \* When w leaves the directory as it is, the others do not change either.
    <3>1. ASSUME UNCHANGED <<dir, detached>>,
                 NEW v \in Workers \ {w}, At(v, Id(w))
          PROVE  At(v, Id(w))' /\ (Clears(v, Id(w)) => Clears(v, Id(w))')
      BY <2>5, <2>6, <3>1 DEF At, Clears
    <3>2. ASSUME UNCHANGED dir
          PROVE  /\ \E v \in Workers : At(v, Id(w))
                 /\ \/ dir[Id(w)] = EmptyDir
                    \/ \E v \in Workers : Clears(v, Id(w)) /\ At(v, Id(w))
      <4>1. dir[Id(w)].exists /\ ~dir[Id(w)].litter BY <2>9, <3>2
      <4> QED BY <2>1, <2>7, <4>1 DEF DirInv, Clears
    <3>3. CASE wpc[w] \notin {"unlink", "rmdir", "reply"}
      BY <2>1, <2>5, <2>6, <3>3 DEF At, Clears
    <3>4. CASE wpc[w] = "unlink"
      <4>1. Unlink(w) BY <1>1, <3>4, WorkerAt
      <4>2. wpc'[w] = "rmdir" BY <4>1, <3>4 DEF Unlink, Goto, TypeOK
      <4>3. At(w, Id(w))' BY <2>6, <4>2 DEF At
      <4>4. CASE w \in detached /\ UNCHANGED <<dir, detached>>
        <5>1. ~Clears(w, Id(w)) BY <3>4, <4>4 DEF Clears
        <5> QED BY <3>1, <3>2, <4>3, <4>4, <5>1
      <4> QED BY <2>1, <2>9, <4>1, <4>3, <4>4, UnlinkLeaves
    <3>5. CASE wpc[w] = "rmdir"
      <4>1. Rmdir(w) BY <1>1, <3>5, WorkerAt
      <4>2. Dir(w) # EmptyDir
        <5>1. Dir(w) = EmptyDir => dir'[Id(w)] = NoDir
          BY <2>1, <4>1 DEF Rmdir, SetDir, TypeOK
        <5> QED BY <2>9, <5>1, DirFields
      <4>3. UNCHANGED <<dir, detached>> BY <4>1, <4>2 DEF Rmdir
      <4>4. ~Clears(w, Id(w)) BY <3>5 DEF Clears
      <4> QED BY <3>1, <3>2, <4>2, <4>3, <4>4 DEF Dir
    <3>6. CASE wpc[w] = "reply"
      <4>1. UNCHANGED <<dir, detached>> BY <1>1, <3>6, WorkerAt DEF Reply
      <4>2. ~At(w, Id(w)) BY <3>6 DEF At
      <4> QED BY <3>1, <3>2, <4>1, <4>2
    <3> QED BY <3>3, <3>4, <3>5, <3>6
  <2> SUFFICES ASSUME NEW id \in RunIds, dir'[id].exists, ~dir'[id].litter
               PROVE  /\ Untouched(id)' \/ \E v \in Workers : At(v, id)'
                      /\ \/ dir'[id] = EmptyDir \/ Untouched(id)'
                         \/ \E v \in Workers : Clears(v, id)'
    BY DEF DirInv
  <2>10. CASE id # Id(w) BY <2>8, <2>10
  <2>11. CASE id = Id(w)
    <3>1. \A v \in Workers : /\ At(v, Id(w))' => At(v, id)'
                             /\ Clears(v, Id(w))' => Clears(v, id)'
      BY <2>6, <2>11 DEF At, Clears
    <3> QED BY <2>9, <2>11, <3>1
  <2> QED BY <2>10, <2>11
<1>2. ASSUME NEW w \in Workers, NEW t \in Tasks, Take(w, t) PROVE DirInv'
  <2>1. /\ UNCHANGED <<dir, detached>> /\ wpc[w] = "idle"
        /\ wpc' = [wpc EXCEPT ![w] = "mkdir"]
        /\ task' = [task EXCEPT ![w] = t] /\ todo' = todo \ {t}
    BY <1>2 DEF Take, Goto
  <2>2. \A v \in Workers, id \in RunIds :
          /\ At(v, id) => At(v, id)'
          /\ Clears(v, id) => Clears(v, id)'
    BY <2>1 DEF At, Clears, Id, TypeOK
  <2>3. \A id \in RunIds :
          Untouched(id) => Untouched(id)' \/ (At(w, id)' /\ Clears(w, id)')
    BY <2>1 DEF At, Clears, Id, Untouched, TypeOK
  <2> QED BY <2>1, <2>2, <2>3 DEF DirInv
<1>3. CASE UNCHANGED vars
  BY <1>3 DEF vars, DirInv, At, Clears, Id, Untouched
<1> QED BY <1>1, <1>2, <1>3 DEF Next

LEMMA InitDirs == Init => TakenOnce /\ DirInv
<1>1. Init => TakenOnce BY DEF Init, TakenOnce
<1>2. ASSUME Init PROVE \A id \in RunIds : Untouched(id)
  BY <1>2 DEF Init, Untouched
<1> QED BY <1>1, <1>2 DEF DirInv

LEMMA Dirs == Spec => [](TypeOK /\ CountInv /\ TakenOnce /\ DirInv)
BY InitTyped, InitDirs, TypeStep, TakenOnceStep, DirInvStep, PTL DEF Spec

(* cleanEnv and its repetition in the next buildEnv leave no directory      *)
(* behind: also when two workers have the same run_id and undo each other's *)
(* work, whoever is last removes it.                                        *)
THEOREM DirectoriesRemoved == Spec => []DirectoryRemoved
<1>1. TypeOK /\ DirInv => DirectoryRemoved
  BY DEF TypeOK, DirType, DirInv, At, Untouched, RunIds, DirectoryRemoved
<1> QED BY <1>1, Dirs, PTL

-----------------------------------------------------------------------------
(* What a step does to a directory that is there.                           *)
LEMMA Effects ==
  ASSUME TypeOK, NEW w \in Workers, wpc[w] # "idle", Dir(w).exists
  PROVE  LET d == Dir(w)  e == dir'[Id(w)]
             Keeps == e.exists /\ e.outs = d.outs /\ e.litter = d.litter
         IN  /\ StoreSourceFile(w) =>
                  /\ Keeps /\ e.source = task[w]
                  /\ e.main = d.main /\ e.error = d.error
             /\ StartCompiler(w) =>
                  /\ Keeps /\ e.source = d.source
                  /\ e.main = d.main /\ e.error = "empty"
             /\ Link(w) =>
                  /\ Keeps /\ e.source = d.source
                  /\ \/ /\ read[w] # "none"
                        /\ e.main = read[w] /\ e.error = d.error
                     \/ /\ e.main = d.main
                        /\ e.error = IF w \in detached THEN d.error ELSE "text"
             /\ GetFileno(w) =>
                  /\ e.exists /\ e.source = d.source /\ e.main = d.main
                  /\ e.outs = d.outs \cup {num[w]}
                  /\ e.error = d.error /\ e.litter = d.litter
             /\ Litter(w) =>
                  /\ e.exists /\ e.source = d.source /\ e.main = d.main
                  /\ e.outs = d.outs /\ e.error = d.error
<1> DEFINE d == Dir(w)
           e == dir'[Id(w)]
<1>1. d \in DirType /\ d.exists /\ Id(w) \in RunIds BY Busy
<1>2. ASSUME NEW x, SetDir(w, x) \/ Write(w, x)
      PROVE  e = x
  BY <1>1, <1>2 DEF SetDir, Write, TypeOK
<1>3. \A x : LET f == [d EXCEPT !.source = x]
             IN  /\ f.source = x /\ f.exists = d.exists /\ f.main = d.main
                 /\ f.outs = d.outs /\ f.error = d.error /\ f.litter = d.litter
  BY <1>1 DEF DirType
<1>4. \A x : LET f == [d EXCEPT !.error = x]
             IN  /\ f.source = d.source /\ f.exists = d.exists
                 /\ f.main = d.main /\ f.outs = d.outs
                 /\ f.error = x /\ f.litter = d.litter
  BY <1>1 DEF DirType
<1>5. \A x : LET f == [d EXCEPT !.main = x]
             IN  /\ f.source = d.source /\ f.exists = d.exists
                 /\ f.main = x /\ f.outs = d.outs
                 /\ f.error = d.error /\ f.litter = d.litter
  BY <1>1 DEF DirType
<1>6. \A x : LET f == [d EXCEPT !.outs = x]
             IN  /\ f.source = d.source /\ f.exists = d.exists
                 /\ f.main = d.main /\ f.outs = x
                 /\ f.error = d.error /\ f.litter = d.litter
  BY <1>1 DEF DirType
<1>7. \A x : LET f == [d EXCEPT !.litter = x]
             IN  /\ f.source = d.source /\ f.exists = d.exists
                 /\ f.main = d.main /\ f.outs = d.outs /\ f.error = d.error
  BY <1>1 DEF DirType
<1>8. StoreSourceFile(w) => e = [d EXCEPT !.source = task[w]]
  BY <1>2 DEF StoreSourceFile
<1>9. StartCompiler(w) => e = [d EXCEPT !.error = "empty"]
  BY <1>2 DEF StartCompiler
<1>10. Link(w) => \/ read[w] # "none" /\ e = [d EXCEPT !.main = read[w]]
                  \/ w \in detached /\ e = d
                  \/ w \notin detached /\ e = [d EXCEPT !.error = "text"]
  BY <1>2 DEF Link
<1>11. GetFileno(w) => e = [d EXCEPT !.outs = d.outs \cup {num[w]}]
  BY <1>2 DEF GetFileno
<1>12. Litter(w) => e = [d EXCEPT !.litter = TRUE]
  BY <1>2 DEF Litter
<1> HIDE DEF d, e
<1> DEFINE Keeps == e.exists /\ e.outs = d.outs /\ e.litter = d.litter
<1>13. StoreSourceFile(w) => /\ Keeps /\ e.source = task[w]
                             /\ e.main = d.main /\ e.error = d.error
  <2>1. CASE e = [d EXCEPT !.source = task[w]] BY <1>1, <1>3, <2>1
  <2> QED BY <1>8, <2>1
<1>14. StartCompiler(w) => /\ Keeps /\ e.source = d.source
                           /\ e.main = d.main /\ e.error = "empty"
  BY <1>1, <1>4, <1>9
<1>15. Link(w) => /\ Keeps /\ e.source = d.source
                  /\ \/ /\ read[w] # "none"
                        /\ e.main = read[w] /\ e.error = d.error
                     \/ /\ e.main = d.main
                        /\ e.error = IF w \in detached THEN d.error ELSE "text"
  <2>1. CASE w \in detached /\ e = d BY <1>1, <2>1
  <2>2. CASE read[w] # "none" /\ e = [d EXCEPT !.main = read[w]]
    BY <1>1, <1>5, <2>2
  <2>3. CASE w \notin detached /\ e = [d EXCEPT !.error = "text"]
    BY <1>1, <1>4, <2>3
  <2> QED BY <1>10, <2>1, <2>2, <2>3
<1>16. GetFileno(w) => /\ e.exists /\ e.outs = d.outs \cup {num[w]}
                       /\ e.source = d.source /\ e.main = d.main
                       /\ e.error = d.error /\ e.litter = d.litter
  BY <1>1, <1>6, <1>11
<1>17. Litter(w) => /\ e.exists /\ e.outs = d.outs
                    /\ e.source = d.source /\ e.main = d.main
                    /\ e.error = d.error
  BY <1>1, <1>7, <1>12
<1> QED BY <1>13, <1>14, <1>15, <1>16, <1>17 DEF d, e

(* A step of one worker leaves another alone, and its directory too if it   *)
(* is another directory.                                                    *)
LEMMA Frame ==
  ASSUME TypeOK, CountInv,
         NEW w \in Workers, Worker(w), NEW v \in Workers \ {w}
  PROVE  /\ wpc'[v] = wpc[v] /\ task'[v] = task[v] /\ num'[v] = num[v]
         /\ read'[v] = read[v] /\ fresh'[v] = fresh[v] /\ fds'[v] = fds[v]
         /\ cleaning'[v] = cleaning[v]
         /\ wpc[v] # "idle" /\ Id(v) # Id(w) => dir'[Id(v)] = dir[Id(v)]
<1>1. wpc'[v] = wpc[v] BY PcStep DEF TypeOK
<1>2. UNCHANGED task BY OthersStep
<1>3. \E x : /\ UNCHANGED num \/ num' = [num EXCEPT ![w] = x]
             /\ UNCHANGED read \/ read' = [read EXCEPT ![w] = Dir(w).source]
             /\ \/ UNCHANGED fresh
                \/ fresh' = [fresh EXCEPT ![w] = num[w] \notin Dir(w).outs]
             /\ UNCHANGED cleaning \/ cleaning' = [cleaning EXCEPT ![w] = TRUE]
  <2>1. /\ UNCHANGED num \/ num' = [num EXCEPT ![w] = num[w] + 1]
        /\ UNCHANGED read \/ read' = [read EXCEPT ![w] = Dir(w).source]
        /\ \/ UNCHANGED fresh
           \/ fresh' = [fresh EXCEPT ![w] = num[w] \notin Dir(w).outs]
        /\ UNCHANGED cleaning \/ cleaning' = [cleaning EXCEPT ![w] = TRUE]
    BY DEF Worker, Mkdir, MkdirExists, MkdirFails, OpenDir, Unlink, Rmdir,
       StoreSourceFile, StartCompiler, SystemFails, Link, HasData, ReadError,
       AllTested, GetFileno, GetFilenoFails, Litter, ExecutePasses,
       ExecuteStops, Reply, SendError
  <2> QED BY <2>1
<1>4. num'[v] = num[v] /\ read'[v] = read[v] BY <1>3 DEF TypeOK
<1>5. fresh'[v] = fresh[v] BY <1>3 DEF TypeOK
<1>6. cleaning'[v] = cleaning[v] BY <1>3 DEF TypeOK
<1>7. fds'[v] = fds[v]
  <2>1. \/ UNCHANGED fds \/ fds' = [fds EXCEPT ![w] = {}]
        \/ fds' = [fds EXCEPT ![w] = fds[w] \cup {<<task[w], num[w]>>}]
    BY DEF Worker, Mkdir, MkdirExists, MkdirFails, OpenDir, Unlink, Rmdir,
       StoreSourceFile, StartCompiler, SystemFails, Link, HasData, ReadError,
       AllTested, GetFileno, GetFilenoFails, Litter, ExecutePasses,
       ExecuteStops, Reply, SendError
  <2> QED BY <2>1 DEF TypeOK
<1>8. ASSUME wpc[v] # "idle", Id(v) # Id(w)
      PROVE  dir'[Id(v)] = dir[Id(v)]
  <2>1. Id(v) \in RunIds BY <1>8, Busy
  <2> QED BY <1>8, <2>1, DirStep DEF TypeOK
<1> QED BY <1>1, <1>2, <1>4, <1>5, <1>6, <1>7, <1>8

(* Two workers with one directory have tasks with one run_id.               *)
LEMMA Apart ==
  ASSUME TypeOK, TakenOnce, NEW w \in Workers, NEW v \in Workers \ {w},
         wpc[w] # "idle", wpc[v] # "idle", ~Shared(task[v])
  PROVE  Id(v) # Id(w)
<1>1. task[v] \in Tasks /\ task[w] \in Tasks /\ task[v] # task[w]
  BY Busy DEF TakenOnce
<1> QED BY <1>1 DEF Shared, Id

(* What is in the directory of a task whose run_id no other uses, as its    *)
(* worker goes on: buildEnv has emptied it, so that all it holds since is   *)
(* the source and the executable of this task, and the outputs of the tests *)
(* that were run.                                                           *)
AfterStore == {"compile", "link", "hasData", "readError", "open", "execute"}

Own(w) ==
  /\ wpc[w] \in AfterStore \cup {"store", "opendir", "unlink"} => Dir(w).exists
  /\ wpc[w] = "unlink" => w \notin detached
  /\ wpc[w] \in AfterStore => Dir(w).source = task[w]
  /\ wpc[w] \in AfterStore \cup {"store"} => Dir(w).main \in {"none", task[w]}
  /\ wpc[w] \in {"store", "compile", "link", "hasData", "readError"} =>
       Dir(w).outs = {}
  /\ wpc[w] = "link" => read[w] = task[w]
  /\ wpc[w] = "readError" => Dir(w).error = "text"
  /\ wpc[w] = "open" => Dir(w).outs \subseteq 0..num[w] - 1
  /\ wpc[w] = "execute" => Dir(w).outs \subseteq 0..num[w] /\ fresh[w]

OwnInv ==
  \A w \in Workers : wpc[w] # "idle" /\ ~Shared(task[w]) => Own(w)

LEMMA OwnWorkerStep ==
  ASSUME TypeOK, CountInv, NEW w \in Workers, Worker(w), Own(w)
  PROVE  Own(w)'
<1> DEFINE e == dir'[Id(w)]
<1>1. /\ wpc[w] # "idle" /\ task'[w] = task[w] /\ Dir(w)' = e
      /\ Dir(w) = dir[Id(w)] /\ Id(w) \in RunIds
      /\ num[w] \in Nat /\ wpc[w] \in Pcs
  BY DirStep, OthersStep, Busy, WorkerAssumption DEF Dir, Id, TypeOK
<1> HIDE DEF e
<1>2. \A from, to : Goto(w, from, to) => wpc'[w] = to
  BY DEF Goto, TypeOK
<1>3. ASSUME wpc'[w] \notin AfterStore \cup {"store", "opendir", "unlink"}
      PROVE  Own(w)'
  BY <1>3 DEF Own, AfterStore
<1>4. CASE wpc[w] = "mkdir"
  <2>1. CASE Mkdir(w)
    <3>1. wpc'[w] \in {"error", "store"} BY <1>2, <2>1 DEF Mkdir
    <3>2. e = EmptyDir BY <1>1, <2>1 DEF Mkdir, SetDir, TypeOK, e
    <3>3. e.exists /\ e.main = "none" /\ e.outs = {}
      BY <3>2 DEF EmptyDir, NoDir
    <3> QED BY <1>1, <3>1, <3>3 DEF Own, AfterStore
  <2>2. CASE MkdirExists(w)
    <3>1. wpc'[w] = "opendir" /\ Dir(w).exists /\ UNCHANGED dir
      BY <1>2, <2>2 DEF MkdirExists
    <3> QED BY <1>1, <3>1 DEF Own, AfterStore, e
  <2>3. CASE MkdirFails(w)
    <3>1. wpc'[w] = "error" BY <1>2, <2>3 DEF MkdirFails
    <3> QED BY <1>3, <3>1 DEF AfterStore
  <2> QED BY <1>4, <2>1, <2>2, <2>3, WorkerAt
<1>5. CASE wpc[w] = "opendir"
  <2>1. OpenDir(w) BY <1>5, WorkerAt
  <2>2. wpc'[w] \in {"unlink", "exit"} /\ w \notin detached' /\ UNCHANGED dir
    BY <1>2, <2>1 DEF OpenDir
  <2> QED BY <1>1, <1>5, <2>2 DEF Own, AfterStore, e
<1>6. CASE wpc[w] = "unlink"
  <2>1. Unlink(w) BY <1>6, WorkerAt
  <2>2. wpc'[w] = "rmdir" BY <1>2, <2>1 DEF Unlink
  <2> QED BY <1>3, <2>2 DEF AfterStore
<1>7. CASE wpc[w] = "rmdir"
  <2>1. Rmdir(w) BY <1>7, WorkerAt
  <2>2. wpc'[w] \in {"reply", "mkdir"} BY <1>2, <2>1 DEF Rmdir
  <2> QED BY <1>3, <2>2 DEF AfterStore
<1>8. CASE wpc[w] = "store"
  <2>1. StoreSourceFile(w) BY <1>8, WorkerAt
  <2>2. wpc'[w] \in {"open", "compile"} BY <1>2, <2>1 DEF StoreSourceFile
  <2>3. Dir(w).exists /\ Dir(w).main \in {"none", task[w]} /\ Dir(w).outs = {}
    BY <1>8 DEF Own, AfterStore
  <2>4. /\ e.exists /\ e.outs = {} /\ e.source = task[w]
        /\ e.main \in {"none", task[w]}
    BY <1>1, <2>1, <2>3, Effects DEF e
  <2> QED BY <1>1, <2>2, <2>4 DEF Own, AfterStore
<1>9. CASE wpc[w] = "compile"
  <2>1. /\ Dir(w).exists /\ Dir(w).main \in {"none", task[w]}
        /\ Dir(w).outs = {} /\ Dir(w).source = task[w]
    BY <1>9 DEF Own, AfterStore
  <2>2. CASE StartCompiler(w)
    <3>1. wpc'[w] = "link" /\ read'[w] = task[w]
      BY <1>2, <2>1, <2>2 DEF StartCompiler, TypeOK
    <3>2. /\ e.exists /\ e.outs = {} /\ e.source = task[w]
          /\ e.main \in {"none", task[w]}
      BY <1>1, <2>1, <2>2, Effects DEF e
    <3> QED BY <1>1, <3>1, <3>2 DEF Own, AfterStore
  <2>3. CASE SystemFails(w)
    <3>1. wpc'[w] = "opendir" /\ UNCHANGED dir
      BY <1>2, <2>3 DEF SystemFails
    <3> QED BY <1>1, <2>1, <3>1 DEF Own, AfterStore, e
  <2> QED BY <1>9, <2>2, <2>3, WorkerAt
<1>10. CASE wpc[w] = "link"
  <2>1. Link(w) BY <1>10, WorkerAt
  <2>2. wpc'[w] = "hasData" BY <1>2, <2>1 DEF Link
  <2>3. /\ Dir(w).exists /\ Dir(w).main \in {"none", task[w]}
        /\ Dir(w).outs = {} /\ Dir(w).source = task[w] /\ read[w] = task[w]
    BY <1>10 DEF Own, AfterStore
  <2>4. /\ e.exists /\ e.outs = {} /\ e.source = task[w]
        /\ e.main \in {"none", task[w]}
    BY <1>1, <2>1, <2>3, Effects DEF e
  <2> QED BY <1>1, <2>2, <2>4 DEF Own, AfterStore
<1>11. CASE wpc[w] = "hasData"
  <2>1. HasData(w) BY <1>11, WorkerAt
  <2>2. /\ wpc'[w] = IF Dir(w).error = "text" THEN "readError" ELSE "open"
        /\ UNCHANGED dir
    BY <1>2, <2>1 DEF HasData
  <2> QED BY <1>1, <1>11, <2>2 DEF Own, AfterStore, e
<1>12. CASE wpc[w] = "readError"
  <2>1. ReadError(w) BY <1>12, WorkerAt
  <2>2. wpc'[w] \in {"exit", "opendir"} /\ UNCHANGED dir
    BY <1>2, <2>1 DEF ReadError
  <2> QED BY <1>1, <1>12, <2>2 DEF Own, AfterStore, e
<1>13. CASE wpc[w] = "open"
  <2>1. /\ Dir(w).exists /\ Dir(w).main \in {"none", task[w]}
        /\ Dir(w).outs \subseteq 0..num[w] - 1 /\ Dir(w).source = task[w]
    BY <1>13 DEF Own, AfterStore
  <2>2. CASE AllTested(w)
    <3>1. wpc'[w] = "opendir" /\ UNCHANGED dir BY <1>2, <2>2 DEF AllTested
    <3> QED BY <1>1, <2>1, <3>1 DEF Own, AfterStore, e
  <2>3. CASE GetFileno(w)
    <3>1. num[w] \notin Dir(w).outs BY <1>1, <2>1
    <3>2. wpc'[w] = "execute" /\ fresh'[w] /\ num'[w] = num[w]
      BY <1>2, <2>3, <3>1 DEF GetFileno, TypeOK
    <3>3. /\ e.exists /\ e.source = task[w] /\ e.main \in {"none", task[w]}
          /\ e.outs = Dir(w).outs \cup {num[w]}
      BY <1>1, <2>1, <2>3, Effects DEF e
    <3>4. e.outs \subseteq 0..num[w] BY <1>1, <2>1, <3>3
    <3> QED BY <1>1, <3>2, <3>3, <3>4 DEF Own, AfterStore
  <2>4. CASE GetFilenoFails(w)
    <3>1. wpc'[w] = "exit" BY <1>2, <2>4 DEF GetFilenoFails
    <3> QED BY <1>3, <3>1 DEF AfterStore
  <2> QED BY <1>13, <2>2, <2>3, <2>4, WorkerAt
<1>14. CASE wpc[w] = "execute"
  <2>1. /\ Dir(w).exists /\ Dir(w).main \in {"none", task[w]} /\ fresh[w]
        /\ Dir(w).outs \subseteq 0..num[w] /\ Dir(w).source = task[w]
    BY <1>14 DEF Own, AfterStore
  <2>2. CASE Litter(w)
    <3>1. wpc'[w] = "execute" /\ UNCHANGED <<num, fresh>>
      BY <1>2, <2>2 DEF Litter
    <3>2. /\ e.exists /\ e.source = task[w] /\ e.main \in {"none", task[w]}
          /\ e.outs = Dir(w).outs
      BY <1>1, <2>1, <2>2, Effects DEF e
    <3> QED BY <1>1, <2>1, <3>1, <3>2 DEF Own, AfterStore
  <2>3. CASE ExecutePasses(w)
    <3>1. wpc'[w] = "open" /\ UNCHANGED dir /\ num'[w] = num[w] + 1
      BY <1>2, <2>3 DEF ExecutePasses, TypeOK
    <3>2. num'[w] - 1 = num[w] BY <1>1, <3>1
    <3> QED BY <1>1, <2>1, <3>1, <3>2 DEF Own, AfterStore, e
  <2>4. CASE ExecuteStops(w)
    <3>1. wpc'[w] = "opendir" /\ UNCHANGED dir BY <1>2, <2>4 DEF ExecuteStops
    <3> QED BY <1>1, <2>1, <3>1 DEF Own, AfterStore, e
  <2> QED BY <1>14, <2>2, <2>3, <2>4, WorkerAt
<1>15. CASE wpc[w] \in {"reply", "error"}
  <2>1. wpc'[w] \in {"idle", "dead"}
    BY <1>2, <1>15, WorkerAt DEF Reply, SendError
  <2> QED BY <1>3, <2>1 DEF AfterStore
<1>16. CASE wpc[w] \in {"dead", "exit"}
  BY <1>16, Runs
<1> QED
  BY <1>1, <1>4, <1>5, <1>6, <1>7, <1>8, <1>9, <1>10, <1>11, <1>12, <1>13,
     <1>14, <1>15, <1>16 DEF Pcs

LEMMA OwnFrame ==
  ASSUME TypeOK, CountInv, NEW w \in Workers, Worker(w),
         NEW v \in Workers \ {w}, wpc[v] # "idle", Id(v) # Id(w), Own(v)
  PROVE  Own(v)'
<1>1. /\ wpc'[v] = wpc[v] /\ num'[v] = num[v] /\ read'[v] = read[v]
      /\ fresh'[v] = fresh[v] /\ dir'[Id(v)] = dir[Id(v)]
      /\ task'[v] = task[v]
  BY Frame
<1>2. Dir(v)' = Dir(v) BY <1>1 DEF Dir, Id
<1>3. v \in detached' <=> v \in detached BY Attached
<1> QED BY <1>1, <1>2, <1>3 DEF Own

LEMMA OwnTake ==
  ASSUME TypeOK, NEW w \in Workers, NEW t \in Tasks, Take(w, t)
  PROVE  /\ Own(w)'
         /\ \A v \in Workers \ {w} : Own(v) => Own(v)'
<1>1. /\ wpc' = [wpc EXCEPT ![w] = "mkdir"] /\ task' = [task EXCEPT ![w] = t]
      /\ num' = [num EXCEPT ![w] = 0] /\ UNCHANGED <<read, detached, fresh, dir>>
  BY DEF Take, Goto
<1>2. Own(w)' BY <1>1 DEF Own, AfterStore, TypeOK
<1>3. ASSUME NEW v \in Workers \ {w}, Own(v) PROVE Own(v)'
  <2>1. /\ wpc'[v] = wpc[v] /\ num'[v] = num[v] /\ task'[v] = task[v]
        /\ UNCHANGED <<read, detached, fresh, dir>>
    BY <1>1 DEF TypeOK
  <2>2. Dir(v)' = Dir(v) BY <2>1 DEF Dir, Id
  <2> QED BY <1>3, <2>1, <2>2 DEF Own
<1> QED BY <1>2, <1>3

LEMMA OwnStep ==
  ASSUME TypeOK, CountInv, TakenOnce, OwnInv, [Next]_vars
  PROVE  OwnInv'
<1>1. ASSUME NEW w \in Workers, Worker(w) PROVE OwnInv'
  <2> SUFFICES ASSUME NEW v \in Workers, wpc'[v] # "idle", ~Shared(task'[v])
               PROVE  Own(v)'
    BY DEF OwnInv, Shared
  <2>1. task'[v] = task[v] BY <1>1, OthersStep
  <2>2. CASE v = w
    <3>1. wpc[w] # "idle" BY <1>1, DirStep
    <3> QED BY <1>1, <2>1, <2>2, <3>1, OwnWorkerStep DEF OwnInv
  <2>3. CASE v # w
    <3>1. wpc[v] # "idle" /\ wpc[w] # "idle" /\ Own(v)
      BY <1>1, <2>1, <2>3, Frame, DirStep DEF OwnInv
    <3>2. Id(v) # Id(w) BY <2>1, <2>3, <3>1, Apart
    <3> QED BY <1>1, <2>3, <3>1, <3>2, OwnFrame
  <2> QED BY <2>2, <2>3
<1>2. ASSUME NEW w \in Workers, NEW t \in Tasks, Take(w, t) PROVE OwnInv'
  <2> SUFFICES ASSUME NEW v \in Workers, wpc'[v] # "idle", ~Shared(task'[v])
               PROVE  Own(v)'
    BY DEF OwnInv, Shared
  <2>1. v # w => wpc'[v] = wpc[v] /\ task'[v] = task[v]
    BY <1>2 DEF Take, Goto, TypeOK
  <2> QED BY <1>2, <2>1, OwnTake DEF OwnInv
<1>3. CASE UNCHANGED vars
  BY <1>3 DEF vars, OwnInv, Own, Dir, Id
<1> QED BY <1>1, <1>2, <1>3 DEF Next

(* A program is executed from the directory of its worker.                  *)
LEMMA RanStep ==
  ASSUME TypeOK, CountInv, OwnInv, OwnProgramUnlessShared, [Next]_vars
  PROVE  OwnProgramUnlessShared'
<1>1. CASE UNCHANGED ran
  BY <1>1 DEF OwnProgramUnlessShared
<1>2. ASSUME NEW w \in Workers, ExecutePasses(w) \/ ExecuteStops(w)
      PROVE  OwnProgramUnlessShared'
  <2>1. wpc[w] = "execute" /\ Ran(w)
    BY <1>2 DEF ExecutePasses, ExecuteStops, Goto
  <2> DEFINE r == [task |-> task[w], program |-> Program(w), fresh |-> fresh[w]]
  <2>2. UNCHANGED ran \/ (Program(w) # "none" /\ ran' = ran \cup {r})
    BY <2>1 DEF Ran
  <2>3. ASSUME ~Shared(task[w]), Program(w) # "none"
        PROVE  Program(w) = task[w] /\ fresh[w]
    BY <2>1, <2>3 DEF OwnInv, Own, AfterStore, Program
  <2>4. r.task = task[w] /\ r.program = Program(w) /\ r.fresh = fresh[w]
    OBVIOUS
  <2> HIDE DEF r
  <2> QED BY <2>2, <2>3, <2>4 DEF OwnProgramUnlessShared
<1>3. UNCHANGED ran \/ \E w \in Workers : ExecutePasses(w) \/ ExecuteStops(w)
  <2>1. ASSUME NEW w \in Workers, Worker(w)
        PROVE  UNCHANGED ran \/ ExecutePasses(w) \/ ExecuteStops(w)
    BY <2>1 DEF Worker, Mkdir, MkdirExists, MkdirFails, OpenDir, Unlink, Rmdir,
       StoreSourceFile, StartCompiler, SystemFails, Link, HasData, ReadError,
       AllTested, GetFileno, GetFilenoFails, Litter, Reply, SendError
  <2> QED BY <2>1 DEF Next, Take, vars
<1> QED BY <1>1, <1>2, <1>3

LEMMA InitOwn == Init => OwnInv /\ OwnProgramUnlessShared
BY DEF Init, OwnInv, OwnProgramUnlessShared

LEMMA Owned ==
  Spec => [](TypeOK /\ CountInv /\ TakenOnce /\ OwnInv /\ OwnProgramUnlessShared)
BY InitTyped, InitDirs, InitOwn, TypeStep, TakenOnceStep, OwnStep, RanStep, PTL
   DEF Spec

(* A task whose run_id no other uses is judged by the program its client    *)
(* sent, with output files of its own, whatever an earlier process has left *)
(* in the directory and however the steps of the workers interleave.        *)
THEOREM OwnPrograms == Spec => []OwnProgramUnlessShared
BY Owned, PTL

-----------------------------------------------------------------------------
(* What is left open: the files of one test at most for each task, by the   *)
(* worker that had it, and none before the first test of a task, nor after  *)
(* closeAll.                                                                *)
BeforeTest(w) ==
  \/ wpc[w] \in {"mkdir", "store", "compile", "link", "hasData", "readError",
                 "open"}
  \/ wpc[w] \in {"opendir", "unlink", "rmdir"} /\ ~cleaning[w]

LeakInv ==
  /\ \A v \in Workers : \A e \in fds[v] :
       /\ e[1] \notin todo
       /\ \A u \in Workers : \A f \in fds[u] : e[1] = f[1] => e = f
       /\ \A w \in Workers : wpc[w] # "idle" /\ e[1] = task[w] =>
            v = w /\ ~BeforeTest(w)

LEMMA BeforeStep ==
  ASSUME TypeOK, CountInv, NEW w \in Workers, Worker(w), BeforeTest(w)'
  PROVE  BeforeTest(w) \/ ExecutePasses(w)
<1> USE DEF BeforeTest
<1>1. \A from, to : Goto(w, from, to) => wpc[w] = from /\ wpc'[w] = to
  BY DEF Goto, TypeOK
<1>2. CASE wpc[w] \in {"mkdir", "store", "compile", "link", "hasData",
                       "readError", "open"}
  BY <1>2
<1>3. CASE wpc[w] \in {"opendir", "unlink", "rmdir"}
  <2>1. OpenDir(w) \/ Unlink(w) \/ Rmdir(w) BY <1>3, WorkerAt
  <2>2. UNCHANGED cleaning BY <2>1 DEF OpenDir, Unlink, Rmdir
  <2>3. CASE ~cleaning[w] BY <1>3, <2>3
  <2>4. CASE cleaning[w]
    <3>1. wpc'[w] \notin {"opendir", "unlink", "rmdir"} BY <2>2, <2>4
    <3>2. OpenDir(w) => wpc'[w] \in {"unlink", "exit"} BY <1>1 DEF OpenDir
    <3>3. Unlink(w) => wpc'[w] = "rmdir" BY <1>1 DEF Unlink
    <3>4. Rmdir(w) => wpc'[w] = "reply" BY <1>1, <2>4 DEF Rmdir
    <3> QED BY <2>1, <2>2, <2>4, <3>1, <3>2, <3>3, <3>4
  <2> QED BY <2>3, <2>4
<1>4. CASE wpc[w] = "execute"
  <2>1. Litter(w) => wpc'[w] = "execute" BY <1>1 DEF Litter
  <2>2. ExecuteStops(w) => wpc'[w] = "opendir" /\ cleaning'[w]
    BY <1>1 DEF ExecuteStops, TypeOK
  <2> QED BY <1>4, <2>1, <2>2, WorkerAt
<1>5. CASE wpc[w] \in {"reply", "error"}
  <2>1. wpc'[w] \in {"idle", "dead"}
    BY <1>1, <1>5, WorkerAt DEF Reply, SendError
  <2> QED BY <2>1
<1>6. CASE wpc[w] \in {"idle", "dead", "exit"} BY <1>6, Runs
<1> QED BY <1>2, <1>3, <1>4, <1>5, <1>6 DEF TypeOK, Pcs

LEMMA LeakStep ==
  ASSUME TypeOK, CountInv, TakenOnce, LeakInv, [Next]_vars
  PROVE  LeakInv'
<1>1. ASSUME NEW w \in Workers, Worker(w) PROVE LeakInv'
  <2>1. wpc[w] # "idle" /\ UNCHANGED <<task, todo>>
    BY <1>1, DirStep, OthersStep
  <2>2. \A v \in Workers \ {w} :
          /\ wpc'[v] = wpc[v] /\ cleaning'[v] = cleaning[v]
          /\ fds'[v] = fds[v]
    BY <1>1, Frame
  <2>3. \A v \in Workers \ {w} : BeforeTest(v)' = BeforeTest(v)
    BY <2>2 DEF BeforeTest
  <2>4. task[w] \in Tasks /\ task[w] \notin todo
    BY <2>1, Busy DEF TakenOnce
  <2>5. CASE GetFileno(w)
    <3> DEFINE test == <<task[w], num[w]>>
    <3>1. wpc[w] = "open" /\ wpc'[w] = "execute"
      BY <2>5 DEF GetFileno, Goto, TypeOK
    <3>2. fds'[w] = fds[w] \cup {test} /\ test[1] = task[w]
      BY <2>5 DEF GetFileno, TypeOK
    <3> HIDE DEF test
    <3>3. \A v \in Workers : \A e \in fds[v] : e[1] # task[w]
      BY <2>1, <3>1 DEF LeakInv, BeforeTest
    <3>4. ~BeforeTest(w)' BY <3>1 DEF BeforeTest
    <3>5. \A v \in Workers : wpc[v] # "idle" /\ task[v] = task[w] => v = w
      BY <2>1 DEF TakenOnce
    <3>6. \A v \in Workers : \A e \in fds'[v] :
            e \in fds[v] \/ (v = w /\ e = test)
      BY <2>2, <3>2
    <3> QED BY <2>1, <2>2, <2>3, <2>4, <3>2, <3>3, <3>4, <3>5, <3>6
            DEF LeakInv
  <2>6. CASE ExecutePasses(w) \/ SendError(w)
    <3>1. fds'[w] = {} BY <2>6 DEF ExecutePasses, SendError, TypeOK
    <3>2. \A v \in Workers : \A e \in fds'[v] : v # w /\ e \in fds[v]
      BY <2>2, <3>1
    <3>3. \A v \in Workers : \A e \in fds'[v] : e[1] # task[w]
      BY <2>1, <3>2 DEF LeakInv
    <3> QED BY <2>1, <2>2, <2>3, <3>2, <3>3 DEF LeakInv
  <2>7. CASE ~GetFileno(w) /\ ~ExecutePasses(w) /\ ~SendError(w)
    <3>1. UNCHANGED fds
      BY <1>1, <2>7 DEF Worker, Mkdir, MkdirExists, MkdirFails, OpenDir,
         Unlink, Rmdir, StoreSourceFile, StartCompiler, SystemFails, Link,
         HasData, ReadError, AllTested, GetFilenoFails, Litter, ExecuteStops,
         Reply
    <3>2. BeforeTest(w)' => BeforeTest(w) BY <1>1, <2>7, BeforeStep
    <3> QED BY <2>1, <2>2, <2>3, <3>1, <3>2 DEF LeakInv
  <2> QED BY <2>5, <2>6, <2>7
<1>2. ASSUME NEW w \in Workers, NEW t \in Tasks, Take(w, t) PROVE LeakInv'
  <2>1. /\ wpc' = [wpc EXCEPT ![w] = "mkdir"] /\ task' = [task EXCEPT ![w] = t]
        /\ cleaning' = [cleaning EXCEPT ![w] = FALSE] /\ UNCHANGED fds
        /\ t \in todo /\ todo' = todo \ {t}
    BY <1>2 DEF Take, Goto
  <2>2. task'[w] = t
    BY <2>1 DEF TypeOK
  <2>3. \A v \in Workers \ {w} : /\ wpc'[v] = wpc[v] /\ task'[v] = task[v]
                                 /\ BeforeTest(v)' = BeforeTest(v)
    BY <2>1 DEF TypeOK, BeforeTest
  <2> QED BY <2>1, <2>2, <2>3 DEF LeakInv
<1>3. CASE UNCHANGED vars BY <1>3 DEF vars, LeakInv, BeforeTest
<1> QED BY <1>1, <1>2, <1>3 DEF Next

(* The process has ended when a worker ended it.                            *)
Halted == \A w \in Workers : wpc[w] = "exit" => down

LEMMA InitLeak == Init => LeakInv /\ NoFileError /\ Halted
BY DEF Init, LeakInv, NoFileError, Halted

(* Each task has the files of one test open at most, and the task that is   *)
(* about to open its next has none: when there is no room for that, only    *)
(* tasks that are over, and those the other workers execute, have taken it. *)
LEMMA Room ==
  ASSUME TypeOK, CountInv, LeakInv, IsFiniteSet(Workers),
         NEW w \in Workers, wpc[w] = "open", OpenFds + 3 > MaxFds
  PROVE  Exhausted
<1> DEFINE Executing == {v \in Workers : wpc[v] = "execute"}
           Running == {task[v] : v \in Executing}
           Owning == {e[1] : e \in OpenTests}
           F == [e \in OpenTests |-> e[1]]
           G == [v \in Executing |-> task[v]]
<1>1. /\ IsFiniteSet(Workers \ {w})
      /\ Cardinality(Workers \ {w}) = Cardinality(Workers) - 1
  BY FS_RemoveElement
<1>2. /\ IsFiniteSet(Executing)
      /\ Cardinality(Executing) <= Cardinality(Workers \ {w})
  <2>1. Executing \in SUBSET (Workers \ {w}) OBVIOUS
  <2> HIDE DEF Executing
  <2> QED BY <1>1, <2>1, FS_Subset
<1>3. IsFiniteSet(Running) /\ Cardinality(Running) <= Cardinality(Executing)
  <2>1. G \in [Executing -> Running] OBVIOUS
  <2>2. \A t \in Running : \E v \in Executing : G[v] = t OBVIOUS
  <2>3. G \in Surjection(Executing, Running)
    BY <2>1, <2>2, Zenon DEF Surjection
  <2> HIDE DEF G, Executing, Running
  <2> QED BY <1>2, <2>3, FS_Surjection
<1>4. IsFiniteSet(Owning) /\ Cardinality(Owning) = Cardinality(OpenTests)
  <2>1. F \in [OpenTests -> Owning] OBVIOUS
  <2>2. \A t \in Owning : \E e \in OpenTests : F[e] = t OBVIOUS
  <2>3. \A e, f \in OpenTests : F[e] = F[f] => e = f
    BY DEF OpenTests, LeakInv
  <2> HIDE DEF F, Owning
  <2>4. F \in Surjection(OpenTests, Owning)
    BY <2>1, <2>2, Zenon DEF Surjection
  <2>5. F \in Injection(OpenTests, Owning)
    BY <2>1, <2>3 DEF Injection, IsInjective
  <2> QED BY <2>4, <2>5, FS_Surjection DEF CountInv
<1>5. Leaked = Owning \ Running BY DEF Leaked
<1> HIDE DEF Executing, Running, Owning, F, G
<1>6. /\ IsFiniteSet(Owning \cap Running)
      /\ Cardinality(Owning \cap Running) <= Cardinality(Running)
  BY <1>3, FS_Subset
<1>7. /\ IsFiniteSet(Leaked)
      /\ Cardinality(Leaked) =
           Cardinality(Owning) - Cardinality(Owning \cap Running)
  BY <1>4, <1>5, FS_Difference
<1>8. /\ Cardinality(OpenTests) \in Nat /\ Cardinality(Workers) \in Nat
      /\ Cardinality(Running) \in Nat /\ Cardinality(Executing) \in Nat
      /\ Cardinality(Owning \cap Running) \in Nat /\ MaxFds \in Nat
  BY <1>2, <1>3, <1>6, FS_CardinalityType, WorkerAssumption DEF CountInv
<1>9. 3 * Cardinality(OpenTests) + 3 > MaxFds BY DEF OpenFds
<1>10. Cardinality(Leaked) + Cardinality(Workers) >= Cardinality(OpenTests) + 1
  BY <1>1, <1>2, <1>3, <1>4, <1>6, <1>7, <1>8
<1>11. Cardinality(Leaked) \in Nat BY <1>7, FS_CardinalityType
<1> QED BY <1>8, <1>9, <1>10, <1>11 DEF Exhausted

(* The three steps that end the process.                                    *)
LEMMA Exits ==
  ASSUME TypeOK, NEW w \in Workers, Worker(w), wpc'[w] = "exit" \/ down'
  PROVE  /\ down'
         /\ \/ OpenDir(w) /\ wpc[w] = "opendir" /\ ~Dir(w).exists
            \/ ReadError(w) /\ wpc[w] = "readError" /\ Dir(w).error = "none"
            \/ GetFilenoFails(w) /\ wpc[w] = "open"
<1>1. \A from, to : Goto(w, from, to) =>
        ~down /\ wpc[w] = from /\ wpc'[w] = to
  BY DEF Goto, TypeOK
<1>2. CASE OpenDir(w)
  <2>1. /\ wpc[w] = "opendir" /\ (Dir(w).exists => wpc'[w] = "unlink")
        /\ down' = ~Dir(w).exists
    BY <1>1, <1>2 DEF OpenDir
  <2> QED BY <1>2, <2>1
<1>3. CASE ReadError(w)
  <2>1. /\ wpc[w] = "readError" /\ down' = (Dir(w).error = "none")
        /\ Dir(w).error # "none" => wpc'[w] = "opendir"
    BY <1>1, <1>3 DEF ReadError
  <2> QED BY <1>3, <2>1
<1>4. CASE GetFilenoFails(w)
  <2>1. wpc[w] = "open" /\ down' BY <1>1, <1>4 DEF GetFilenoFails
  <2> QED BY <1>4, <2>1
<1>5. CASE ~OpenDir(w) /\ ~ReadError(w) /\ ~GetFilenoFails(w)
  <2>1. down' = down /\ \E from, to : Goto(w, from, to) /\ to # "exit"
    <3>1. CASE Mkdir(w) BY <3>1 DEF Mkdir
    <3>2. CASE MkdirExists(w) \/ MkdirFails(w)
      BY <3>2 DEF MkdirExists, MkdirFails
    <3>3. CASE Unlink(w)
      <4>1. down' = down /\ Goto(w, "unlink", "rmdir") BY <3>3 DEF Unlink
      <4> QED BY <4>1
    <3>4. CASE Rmdir(w) BY <3>4 DEF Rmdir
    <3>5. CASE StoreSourceFile(w) \/ StartCompiler(w) \/ SystemFails(w)
      BY <3>5 DEF StoreSourceFile, StartCompiler, SystemFails
    <3>6. CASE Link(w) \/ HasData(w)
      BY <3>6 DEF Link, HasData
    <3>7. CASE AllTested(w) \/ GetFileno(w)
      BY <3>7 DEF AllTested, GetFileno
    <3>8. CASE Litter(w) \/ ExecutePasses(w) \/ ExecuteStops(w)
      BY <3>8 DEF Litter, ExecutePasses, ExecuteStops
    <3>9. CASE Reply(w) \/ SendError(w)
      BY <3>9 DEF Reply, SendError
    <3> QED BY <1>5, <3>1, <3>2, <3>3, <3>4, <3>5, <3>6, <3>7, <3>8, <3>9
            DEF Worker
  <2>2. ~down /\ wpc'[w] # "exit" BY <1>1, <2>1
  <2> QED BY <2>1, <2>2
<1> QED BY <1>2, <1>3, <1>4, <1>5

(* A worker that has its directory to itself ends the process only for want *)
(* of a test file or of a descriptor.                                       *)
LEMMA NoExit ==
  ASSUME TypeOK, CountInv, LeakInv, IsFiniteSet(Workers),
         NEW w \in Workers, Worker(w), Own(w), wpc'[w] = "exit" \/ down'
  PROVE  "test" \in Faults \/ (Exhausted /\ GetFilenoFails(w))
<1>1. GetFilenoFails(w) /\ wpc[w] = "open"
  BY Exits DEF Own, AfterStore
<1>2. Dir(w).exists BY <1>1 DEF Own, AfterStore
<1>3. "test" \in Faults \/ OpenFds + 3 > MaxFds
  BY <1>1, <1>2 DEF GetFilenoFails
<1> QED BY <1>1, <1>3, Room

LEMMA ExitStep ==
  ASSUME TypeOK, CountInv, OwnInv, LeakInv, NoFileError, Halted,
         IsFiniteSet(Workers), [Next]_vars
  PROVE  NoFileError' /\ Halted'
<1>1. ASSUME NEW w \in Workers, Worker(w) PROVE NoFileError' /\ Halted'
  <2>1. /\ wpc[w] # "idle" /\ UNCHANGED task
        /\ \A v \in Workers : wpc[v] # "exit"
    BY <1>1, DirStep, OthersStep, Runs DEF Halted
  <2>2. \A v \in Workers : wpc'[v] = "exit" => v = w
    BY <1>1, <2>1, Frame
  <2>3. Halted' BY <1>1, <2>2, Exits DEF Halted
  <2>4. ASSUME wpc'[w] = "exit"
        PROVE  Shared(task[w]) \/ "test" \in Faults \/ Exhausted'
    <3>1. CASE Shared(task[w]) \/ "test" \in Faults BY <3>1
    <3>2. CASE ~Shared(task[w]) /\ "test" \notin Faults
      <4>1. Exhausted /\ GetFilenoFails(w)
        BY <1>1, <2>1, <2>4, <3>2, NoExit DEF OwnInv
      <4>2. UNCHANGED fds /\ wpc' = [wpc EXCEPT ![w] = "exit"] /\ wpc[w] = "open"
        BY <4>1 DEF GetFilenoFails, Goto
      <4>3. \A v \in Workers : wpc'[v] = "execute" <=> wpc[v] = "execute"
        BY <4>2 DEF TypeOK
      <4>4. {v \in Workers : wpc'[v] = "execute"}
              = {v \in Workers : wpc[v] = "execute"}
        BY <4>3
      <4>5. UNCHANGED <<OpenTests, Leaked>>
        BY <2>1, <4>2, <4>4 DEF OpenTests, Leaked
      <4> QED BY <4>1, <4>5 DEF Exhausted
    <3> QED BY <3>1, <3>2
  <2> QED BY <2>1, <2>2, <2>3, <2>4 DEF NoFileError, Shared
<1>2. ASSUME NEW w \in Workers, NEW t \in Tasks, Take(w, t)
      PROVE  NoFileError' /\ Halted'
  <2>1. ~down /\ wpc' = [wpc EXCEPT ![w] = "mkdir"] BY <1>2 DEF Take, Goto
  <2>2. \A v \in Workers : wpc'[v] # "exit" BY <2>1 DEF Halted, TypeOK
  <2> QED BY <2>2 DEF NoFileError, Halted
<1>3. CASE UNCHANGED vars
  BY <1>3 DEF vars, NoFileError, Halted, Shared, Exhausted, Leaked, OpenTests
<1> QED BY <1>1, <1>2, <1>3 DEF Next

-----------------------------------------------------------------------------
(* A worker that is past constructJudger works on a task it can judge.      *)
BuiltInv ==
  \A w \in Workers :
    /\ wpc[w] # "idle"
    /\ cleaning[w] \/ wpc[w] \in AfterStore \cup {"store", "reply"}
    => task[w] \notin Unbuilt

LEMMA BuiltStep ==
  ASSUME TypeOK, CountInv, BuiltInv, [Next]_vars
  PROVE  BuiltInv'
<1>1. ASSUME NEW w \in Workers, Worker(w) PROVE BuiltInv'
  <2>1. wpc[w] # "idle" /\ UNCHANGED task BY <1>1, DirStep, OthersStep
  <2>2. \A v \in Workers \ {w} : wpc'[v] = wpc[v] /\ cleaning'[v] = cleaning[v]
    BY <1>1, Frame
  <2>3. \A from, to : Goto(w, from, to) => wpc[w] = from /\ wpc'[w] = to
    BY DEF Goto, TypeOK
  <2>4. ASSUME cleaning'[w] \/ wpc'[w] \in AfterStore \cup {"store", "reply"},
               task[w] \in Unbuilt
        PROVE  FALSE
    <3>1. ~cleaning[w] /\ wpc[w] \notin AfterStore \cup {"store", "reply"}
      BY <2>1, <2>4 DEF BuiltInv
    <3>2. \/ Mkdir(w) \/ MkdirExists(w) \/ MkdirFails(w)
          \/ OpenDir(w) \/ Unlink(w) \/ Rmdir(w) \/ SendError(w)
      BY <1>1, <2>3, <3>1 DEF Worker, StoreSourceFile, StartCompiler,
         SystemFails, Link, HasData, ReadError, AllTested, GetFileno,
         GetFilenoFails, Litter, ExecutePasses, ExecuteStops, Reply, AfterStore
    <3>3. UNCHANGED cleaning
      BY <3>2 DEF Mkdir, MkdirExists, MkdirFails, OpenDir, Unlink, Rmdir,
         SendError
    <3>4. wpc'[w] \notin AfterStore \cup {"store", "reply"}
      BY <3>1, <2>3, <2>4, <3>2 DEF Mkdir, MkdirExists, MkdirFails, OpenDir, Unlink,
         Rmdir, SendError, AfterStore
    <3> QED BY <2>4, <3>1, <3>3, <3>4
  <2> QED BY <2>1, <2>2, <2>4 DEF BuiltInv
<1>2. ASSUME NEW w \in Workers, NEW t \in Tasks, Take(w, t) PROVE BuiltInv'
  BY <1>2 DEF Take, Goto, BuiltInv, AfterStore, TypeOK
<1>3. CASE UNCHANGED vars BY <1>3 DEF vars, BuiltInv
<1> QED BY <1>1, <1>2, <1>3 DEF Next

(* How a worker ends.                                                       *)
LEMMA Ends ==
  ASSUME TypeOK, NEW w \in Workers, Worker(w)
  PROVE  /\ wpc'[w] = "idle" => Reply(w) /\ wpc[w] = "reply"
         /\ wpc'[w] = "dead" => SendError(w)
         /\ wpc'[w] = "reply" => Rmdir(w) /\ cleaning[w]
<1>1. \A from, to : Goto(w, from, to) => wpc'[w] = to
  BY DEF Goto, TypeOK
<1>2. ASSUME wpc'[w] = "idle" PROVE Reply(w) /\ wpc[w] = "reply"
  <2>1. wpc[w] = "reply" BY <1>2, PcStep DEF TypeOK
  <2> QED BY <2>1, WorkerAt
<1>3. ASSUME wpc'[w] = "reply" PROVE Rmdir(w) /\ cleaning[w]
  <2>1. wpc[w] = "rmdir" BY <1>3, PcStep
  <2>2. Rmdir(w) BY <2>1, WorkerAt
  <2> QED BY <1>1, <1>3, <2>2 DEF Rmdir
<1>4. ASSUME wpc'[w] = "dead" PROVE SendError(w)
  <2>1. \A from, to : Goto(w, from, to) => to = "dead" BY <1>1, <1>4
  <2>2. ~Mkdir(w) /\ ~MkdirExists(w) /\ ~MkdirFails(w)
    BY <2>1 DEF Mkdir, MkdirExists, MkdirFails
  <2>3. ~OpenDir(w) /\ ~Unlink(w) /\ ~Rmdir(w)
    BY <2>1 DEF OpenDir, Unlink, Rmdir
  <2>4. ~StoreSourceFile(w) /\ ~StartCompiler(w) /\ ~SystemFails(w)
    BY <2>1 DEF StoreSourceFile, StartCompiler, SystemFails
  <2>5. ~Link(w) /\ ~HasData(w) /\ ~ReadError(w) /\ ~AllTested(w)
    BY <2>1 DEF Link, HasData, ReadError, AllTested
  <2>6. ~GetFileno(w) /\ ~GetFilenoFails(w) /\ ~Litter(w)
    BY <2>1 DEF GetFileno, GetFilenoFails, Litter
  <2>7. ~ExecutePasses(w) /\ ~ExecuteStops(w) /\ ~Reply(w)
    BY <2>1 DEF ExecutePasses, ExecuteStops, Reply
  <2> QED BY <1>1, <1>4, <2>2, <2>3, <2>4, <2>5, <2>6, <2>7 DEF Worker
<1> QED BY <1>2, <1>3, <1>4

(* removeDir begins.                                                        *)
LEMMA Opens ==
  ASSUME TypeOK, NEW w \in Workers, Worker(w), wpc'[w] = "opendir"
  PROVE  /\ wpc[w] \in {"mkdir", "compile", "readError", "open", "execute"}
         /\ wpc[w] = "open" => num[w] = RunTimes
<1>1. \A from, to : Goto(w, from, to) => wpc[w] = from /\ to = "opendir"
  BY DEF Goto, TypeOK
<1>2. ~Mkdir(w) /\ ~MkdirFails(w) /\ ~OpenDir(w) /\ ~Unlink(w) /\ ~Rmdir(w)
  BY <1>1 DEF Mkdir, MkdirFails, OpenDir, Unlink, Rmdir
<1>3. ~StoreSourceFile(w) /\ ~StartCompiler(w) /\ ~Link(w) /\ ~HasData(w)
  BY <1>1 DEF StoreSourceFile, StartCompiler, Link, HasData
<1>4. ~GetFileno(w) /\ ~GetFilenoFails(w) /\ ~Litter(w) /\ ~ExecutePasses(w)
  BY <1>1 DEF GetFileno, GetFilenoFails, Litter, ExecutePasses
<1> QED
  BY <1>1, <1>2, <1>3, <1>4 DEF Worker, MkdirExists, SystemFails, ReadError,
     AllTested, ExecuteStops, Reply, SendError

LEMMA Counts ==
  ASSUME NEW w \in Workers, Worker(w)
  PROVE  UNCHANGED num \/ ExecutePasses(w)
BY DEF Worker, Mkdir, MkdirExists, MkdirFails, OpenDir, Unlink, Rmdir,
   StoreSourceFile, StartCompiler, SystemFails, Link, HasData, ReadError,
   AllTested, GetFileno, GetFilenoFails, Litter, ExecuteStops, Reply,
   SendError

(* What System builds on.                                                   *)
WorkersInv == TypeOK /\ CountInv /\ TakenOnce /\ LeakInv /\ BuiltInv

LEMMA WorkersInductive == Spec => []WorkersInv
<1>1. Init => WorkersInv
  BY InitTyped, InitDirs, InitLeak DEF WorkersInv, Init, BuiltInv, AfterStore
<1>2. WorkersInv /\ [Next]_vars => WorkersInv'
  BY TypeStep, TakenOnceStep, LeakStep, BuiltStep DEF WorkersInv
<1> QED BY <1>1, <1>2, PTL DEF Spec

-----------------------------------------------------------------------------
(* A worker whose run_id is its own finds directory, error_info and outputs *)
(* there.  Without a missing test file, it ends the process only when the   *)
(* submissions that failed before have left too few descriptors: each       *)
(* leaves the files of one test open at most, since closeAll is skipped     *)
(* after a test that fails, until a later test of that worker passes.       *)
THEOREM NoFileErrors ==
  ASSUME IsFiniteSet(Workers)
  PROVE  Spec => []NoFileError
<1> DEFINE I == /\ TypeOK /\ CountInv /\ TakenOnce /\ OwnInv
                /\ LeakInv /\ NoFileError /\ Halted
<1>1. Init => I BY InitTyped, InitDirs, InitOwn, InitLeak
<1>2. I /\ [Next]_vars => I'
  BY TypeStep, TakenOnceStep, OwnStep, LeakStep, ExitStep
<1>3. I => NoFileError OBVIOUS
<1> HIDE DEF I
<1> QED BY <1>1, <1>2, <1>3, PTL DEF Spec
=============================================================================
