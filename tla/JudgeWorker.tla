---------------------------- MODULE JudgeWorker ----------------------------
(***************************************************************************)
(* The worker threads and the file system they share: what                 *)
(* JudgeWorker::processTask (judgeworker.cc) does to the work directory    *)
(* temp_dir_/<run_id>, and to its open files.  Each system call on the     *)
(* directory is a step, so the steps of two workers with the same run_id   *)
(* interleave.  How a test is run and judged is left to module Judger; a   *)
(* test here either passes or stops the loop.                              *)
(*                                                                         *)
(* wpc: "idle"    in recv             "mkdir"   in the loop of buildEnv    *)
(*      "opendir", "unlink", "rmdir"  in removeDir, for buildEnv ("build") *)
(*                or cleanEnv ("clean"): see cleaning                      *)
(*      "store"   in storeSourceFile  "compile", "link", "hasData",        *)
(*      "readError" in compile        "open"     in getFileno  "execute"   *)
(*      "reply"   processTask is over, "error"   so it is, with a failure  *)
(*      "dead"    run() returned      "exit"     ended the process         *)
(* Definitions marked "mutated" are slips the properties have to notice;   *)
(* no specification uses them.                                             *)
(***************************************************************************)
EXTENDS Integers, FiniteSets

CONSTANTS
  Workers, Tasks,
  RunId,        \* task -> run_id, as the client chose it
  Unbuilt,      \* tasks with a code type constructJudger returns NULL for
  Language,     \* "compiled" (C, C++, Java), "checked" (Python: compiled only
                \* to find errors) or "script" (Ruby)
  Leftover,     \* run_ids whose directory an earlier process may have left
  RunTimes,     \* run_times
  MaxFds,       \* RLIMIT_NOFILE, less what is open anyway
  Faults        \* which of "mkdir", "fork" (system() returns -1), "test" (a
                \* missing test file) and "litter" (a program makes a
                \* directory) may happen

ASSUME WorkerAssumption ==
  /\ "none" \notin Tasks /\ "old" \notin Tasks
  /\ Unbuilt \subseteq Tasks
  /\ Language \in {"compiled", "checked", "script"}
  /\ RunTimes \in Nat /\ MaxFds \in Nat
  /\ Faults \subseteq {"mkdir", "fork", "test", "litter"}

RunIds == {RunId[t] : t \in Tasks}

VARIABLES
  wpc,       \* where each worker is
  task,      \* the task it works on
  num,       \* its test case
  cleaning,  \* whether removeDir was called by cleanEnv
  read,      \* the source the running compiler has read
  detached,  \* workers whose compiler writes to an error_info now unlinked, or
             \* whose removeDir reads a directory now removed
  fresh,     \* whether the output file of the test was created by getFileno
  fds,       \* worker -> the tests whose files its file_manager_ holds open
  dir,       \* run_id -> work directory
  todo,      \* tasks no worker has taken yet
  ran,       \* history: the executions of all tasks
  down       \* printError has ended the process

vars == <<wpc, task, num, cleaning, read, detached, fresh, fds, dir, todo, ran,
          down>>

\* A work directory: whose source and executable it holds ("old": those of an
\* earlier process), error_info ("none" if there is no such file), which test
\* outputs exist, and whether it has a subdirectory that is not empty.
NoDir == [exists |-> FALSE, source |-> "none", main |-> "none",
          error |-> "none", outs |-> {}, litter |-> FALSE]
EmptyDir == [NoDir EXCEPT !.exists = TRUE]
OldDir(litter) == [exists |-> TRUE, source |-> "old", main |-> "old",
                   error |-> "text", outs |-> 0..RunTimes, litter |-> litter]

Owners == Tasks \cup {"none", "old"}

IdOfProgram(w) == CHOOSE id \in RunIds : TRUE                    \* mutated

\* What its directory is named by.
Id(w) == RunId[task[w]]
Dir(w) == dir[Id(w)]

\* Worker w is at one step and goes on to another.
Goto(w, from, to) ==
  /\ ~down /\ wpc[w] = from
  /\ wpc' = [wpc EXCEPT ![w] = to]

SetDir(w, d) == dir' = [dir EXCEPT ![Id(w)] = d]

\* A file in the work directory is written, if the directory is there.
Write(w, d) == SetDir(w, IF Dir(w).exists THEN d ELSE NoDir)
-----------------------------------------------------------------------------
Take(w, t) ==
  /\ Goto(w, "idle", "mkdir")
  /\ t \in todo
  /\ todo' = todo \ {t}
  /\ task' = [task EXCEPT ![w] = t]
  /\ num' = [num EXCEPT ![w] = 0]
  /\ cleaning' = [cleaning EXCEPT ![w] = FALSE]
  /\ UNCHANGED <<detached, read, fresh, fds, dir, ran, down>>

\* mkdir succeeds: on to constructJudger, whose failure ends the thread.
Mkdir(w) ==
  /\ Goto(w, "mkdir", IF task[w] \in Unbuilt THEN "error" ELSE "store")
  /\ ~Dir(w).exists
  /\ SetDir(w, EmptyDir)
  /\ UNCHANGED <<task, num, cleaning, read, detached, fresh, fds, todo, ran,
                 down>>

ReuseDir(w) ==                                                   \* mutated
  /\ Goto(w, "mkdir", "store")
  /\ Dir(w).exists
  /\ UNCHANGED <<task, num, cleaning, read, detached, fresh, fds, dir, todo,
                 ran, down>>

\* EEXIST: removeDir, and mkdir again.
MkdirExists(w) ==
  /\ Goto(w, "mkdir", "opendir")
  /\ Dir(w).exists
  /\ UNCHANGED <<task, num, cleaning, read, detached, fresh, fds, dir, todo,
                 ran, down>>

\* Any other error: buildEnv and processTask return false.
MkdirFails(w) ==
  /\ Goto(w, "mkdir", "error")
  /\ "mkdir" \in Faults
  /\ UNCHANGED <<task, num, cleaning, read, detached, fresh, fds, dir, todo,
                 ran, down>>

\* removeDir: opendir, which calls printError when the directory is gone.
OpenDir(w) ==
  /\ Goto(w, "opendir", IF Dir(w).exists THEN "unlink" ELSE "exit")
  /\ down' = ~Dir(w).exists
  /\ detached' = detached \ {w}
  /\ UNCHANGED <<task, num, cleaning, read, fresh, fds, dir, todo, ran>>

UnlinkPrograms(w) ==                                             \* mutated
  /\ Goto(w, "unlink", "rmdir")
  /\ Write(w, [Dir(w) EXCEPT !.source = "none", !.main = "none"])
  /\ UNCHANGED <<task, num, cleaning, read, detached, fresh, fds, todo, ran,
                 down>>

WorkersAt(step, w) == {v \in Workers : wpc[v] = step /\ Id(v) = Id(w)}

\* removeDir: the readdir loop removes regular files and empty directories.
\* When the directory was removed meanwhile, there are no names to read any
\* more; names that were read before are removed, by path, from the directory
\* that is now in its place.
Unlink(w) ==
  /\ Goto(w, "unlink", "rmdir")
  /\ \/ /\ w \in detached
        /\ UNCHANGED <<dir, detached>>
     \/ /\ Write(w, [EmptyDir EXCEPT !.litter = Dir(w).litter])
        /\ detached' = detached \cup WorkersAt("link", w)
  /\ UNCHANGED <<task, num, cleaning, read, fresh, fds, todo, ran, down>>

RmdirOnce(w) ==                                                  \* mutated
  /\ Goto(w, "rmdir", IF cleaning[w] THEN "reply" ELSE "store")
  /\ SetDir(w, IF Dir(w) = EmptyDir THEN NoDir ELSE Dir(w))
  /\ UNCHANGED <<task, num, cleaning, read, detached, fresh, fds, todo, ran,
                 down>>

\* removeDir: remove(dir_path), whose failure nobody looks at.
Rmdir(w) ==
  /\ Goto(w, "rmdir", IF cleaning[w] THEN "reply" ELSE "mkdir")
  /\ IF Dir(w) = EmptyDir
     THEN /\ SetDir(w, NoDir)
          /\ detached' = detached \cup WorkersAt("unlink", w)
     ELSE UNCHANGED <<dir, detached>>
  /\ UNCHANGED <<task, num, cleaning, read, fresh, fds, todo, ran, down>>

\* An ofstream that cannot be opened writes nothing, and nobody looks.
StoreSourceFile(w) ==
  /\ Goto(w, "store", IF Language = "script" THEN "open" ELSE "compile")
  /\ Write(w, [Dir(w) EXCEPT !.source = task[w]])
  /\ UNCHANGED <<task, num, cleaning, read, detached, fresh, fds, todo, ran,
                 down>>

\* system(): the shell empties error_info and the compiler reads the source.
\* Without a directory for error_info the shell does not start the compiler.
StartCompiler(w) ==
  /\ Goto(w, "compile", IF Dir(w).exists THEN "link" ELSE "hasData")
  /\ read' = [read EXCEPT ![w] = Dir(w).source]
  /\ detached' = detached \ {w}
  /\ Write(w, [Dir(w) EXCEPT !.error = "empty"])
  /\ UNCHANGED <<task, num, cleaning, fresh, fds, todo, ran, down>>

\* system() fails: a system error, and on to cleanEnv.
SystemFails(w) ==
  /\ Goto(w, "compile", "opendir")
  /\ "fork" \in Faults
  /\ cleaning' = [cleaning EXCEPT ![w] = TRUE]
  /\ UNCHANGED <<task, num, read, detached, fresh, fds, dir, todo, ran, down>>

\* The compiler ends, with an executable or with text in error_info; without
\* a source only the latter.
Link(w) ==
  /\ Goto(w, "link", "hasData")
  /\ \/ /\ read[w] # "none"
        /\ Write(w, [Dir(w) EXCEPT !.main = read[w]])
     \/ SetDir(w, IF w \in detached THEN Dir(w)
                   ELSE [Dir(w) EXCEPT !.error = "text"])
  /\ UNCHANGED <<task, num, cleaning, read, detached, fresh, fds, todo, ran,
                 down>>

\* Text in error_info is a compile error; a file that is not there is none.
HasData(w) ==
  /\ Goto(w, "hasData", IF Dir(w).error = "text" THEN "readError" ELSE "open")
  /\ UNCHANGED <<task, num, cleaning, read, detached, fresh, fds, dir, todo,
                 ran, down>>

ReadErrorKeepsDir(w) ==                                          \* mutated
  /\ Goto(w, "readError", "reply")
  /\ UNCHANGED <<task, num, cleaning, read, detached, fresh, fds, dir, todo,
                 ran, down>>

\* readFromFile opens error_info again.  Without it the length is -1, and
\* resize throws, which ends the process.
ReadError(w) ==
  /\ Goto(w, "readError", IF Dir(w).error = "none" THEN "exit" ELSE "opendir")
  /\ cleaning' = [cleaning EXCEPT ![w] = TRUE]
  /\ down' = (Dir(w).error = "none")
  /\ UNCHANGED <<task, num, read, detached, fresh, fds, dir, todo, ran>>

\* The loop over the test cases is through.
AllTested(w) ==
  /\ Goto(w, "open", "opendir")
  /\ num[w] = RunTimes
  /\ cleaning' = [cleaning EXCEPT ![w] = TRUE]
  /\ UNCHANGED <<task, num, read, detached, fresh, fds, dir, todo, ran, down>>

\* Three files are open for each of these tests; no two workers have the same
\* task, so none is counted for two.
OpenTests == UNION {fds[w] : w \in Workers}
OpenFds == 3 * Cardinality(OpenTests)

GetFilenoPast(w) ==                                              \* mutated
  /\ Goto(w, "open", "execute")
  /\ OpenFds + 3 <= MaxFds
  /\ Dir(w).exists
  /\ fds' = [fds EXCEPT ![w] = @ \cup {<<task[w], num[w]>>}]
  /\ UNCHANGED <<task, num, cleaning, read, detached, fresh, dir, todo, ran,
                 down>>

\* getFileno: input, expected output and <num>.out, which is created when it
\* is not there but not emptied when it is.
GetFileno(w) ==
  /\ Goto(w, "open", "execute")
  /\ num[w] # RunTimes /\ OpenFds + 3 <= MaxFds
  /\ Dir(w).exists
  /\ fresh' = [fresh EXCEPT ![w] = num[w] \notin Dir(w).outs]
  /\ SetDir(w, [Dir(w) EXCEPT !.outs = @ \cup {num[w]}])
  /\ fds' = [fds EXCEPT ![w] = @ \cup {<<task[w], num[w]>>}]
  /\ UNCHANGED <<task, num, cleaning, read, detached, todo, ran, down>>

\* One of the three cannot be opened: no such test, no directory, or no more
\* file descriptors.  printError ends the process.
GetFilenoFails(w) ==
  /\ Goto(w, "open", "exit")
  /\ num[w] # RunTimes
  /\ "test" \in Faults \/ ~Dir(w).exists \/ OpenFds + 3 > MaxFds
  /\ down' = TRUE
  /\ UNCHANGED <<task, num, cleaning, read, detached, fresh, fds, dir, todo,
                 ran>>

\* The executable, or the script for the interpreter: "none" if the work
\* directory does not hold it.
Program(w) == IF Language = "compiled" THEN Dir(w).main ELSE Dir(w).source

Ran(w) == ran' =
  IF Program(w) = "none" THEN ran
  ELSE ran \cup {[task |-> task[w], program |-> Program(w), fresh |-> fresh[w]]}

\* The program makes a directory with a file in it.
Litter(w) ==
  /\ Goto(w, "execute", "execute")
  /\ "litter" \in Faults
  /\ Program(w) # "none" /\ ~Dir(w).litter
  /\ SetDir(w, [Dir(w) EXCEPT !.litter = TRUE])
  /\ UNCHANGED <<task, num, cleaning, read, detached, fresh, fds, todo, ran,
                 down>>

ExecuteLeaves(w) ==                                              \* mutated
  /\ Goto(w, "execute", "open")
  /\ Program(w) # "none"
  /\ num' = [num EXCEPT ![w] = @ + 1]
  /\ Ran(w)
  /\ UNCHANGED <<task, cleaning, read, detached, fresh, fds, dir, todo, down>>

\* execute returns true; closeAll closes every file file_manager_ holds, also
\* those of earlier tasks.
ExecutePasses(w) ==
  /\ Goto(w, "execute", "open")
  /\ Program(w) # "none"
  /\ num' = [num EXCEPT ![w] = @ + 1]
  /\ fds' = [fds EXCEPT ![w] = {}]
  /\ Ran(w)
  /\ UNCHANGED <<task, cleaning, read, detached, fresh, dir, todo, down>>

\* execute returns false: the break passes closeAll by.
ExecuteStops(w) ==
  /\ Goto(w, "execute", "opendir")
  /\ cleaning' = [cleaning EXCEPT ![w] = TRUE]
  /\ Ran(w)
  /\ UNCHANGED <<task, num, read, detached, fresh, fds, dir, todo, down>>

\* processTask returned true, and the worker sends its results ...
Reply(w) ==
  /\ Goto(w, "reply", "idle")
  /\ UNCHANGED <<task, num, cleaning, read, detached, fresh, fds, dir, todo,
                 ran, down>>

\* ... or false: sendError, run() returns, and ~FileManger closes all files.
SendError(w) ==
  /\ Goto(w, "error", "dead")
  /\ fds' = [fds EXCEPT ![w] = {}]
  /\ UNCHANGED <<task, num, cleaning, read, detached, fresh, dir, todo, ran,
                 down>>
-----------------------------------------------------------------------------
NoTask == "none"

Init ==
  /\ wpc = [w \in Workers |-> "idle"]
  /\ task = [w \in Workers |-> NoTask]
  /\ num = [w \in Workers |-> 0]
  /\ cleaning = [w \in Workers |-> FALSE]
  /\ read = [w \in Workers |-> "none"]
  /\ detached = {}
  /\ fresh = [w \in Workers |-> FALSE]
  /\ fds = [w \in Workers |-> {}]
  /\ dir \in [RunIds -> {NoDir, OldDir(FALSE), OldDir(TRUE)}]
  /\ \A id \in RunIds \ Leftover : dir[id] = NoDir
  /\ todo = Tasks
  /\ ran = {}
  /\ down = FALSE

Worker(w) ==
  \/ Mkdir(w) \/ MkdirExists(w) \/ MkdirFails(w)
  \/ OpenDir(w) \/ Unlink(w) \/ Rmdir(w)
  \/ StoreSourceFile(w) \/ StartCompiler(w) \/ SystemFails(w)
  \/ Link(w) \/ HasData(w)
  \/ ReadError(w) \/ AllTested(w) \/ GetFileno(w) \/ GetFilenoFails(w)
  \/ Litter(w) \/ ExecutePasses(w) \/ ExecuteStops(w)
  \/ Reply(w) \/ SendError(w)

Next == \E w \in Workers : Worker(w) \/ \E t \in Tasks : Take(w, t)

Spec == Init /\ [][Next]_vars

\* The threads are scheduled; compilers and programs end.
FairSpec == Spec /\ \A w \in Workers : WF_vars(Worker(w))

-----------------------------------------------------------------------------
Pcs == {"idle", "mkdir", "opendir", "unlink", "rmdir", "store", "compile",
        "link", "hasData", "readError", "open", "execute", "reply", "error",
        "dead", "exit"}

DirType == [exists : BOOLEAN, source : Owners, main : Owners,
            error : {"none", "empty", "text"}, outs : SUBSET (0..RunTimes),
            litter : BOOLEAN]

\* Type invariant.
TypeOK ==
  /\ wpc \in [Workers -> Pcs]
  /\ task \in [Workers -> Tasks \cup {NoTask}]
  /\ \A w \in Workers : task[w] = NoTask => wpc[w] = "idle"
  /\ num \in [Workers -> 0..RunTimes]
  /\ cleaning \in [Workers -> BOOLEAN]
  /\ read \in [Workers -> Owners]
  /\ detached \subseteq Workers
  /\ fresh \in [Workers -> BOOLEAN]
  /\ fds \in [Workers -> SUBSET (Tasks \X (0..RunTimes - 1))]
  /\ OpenFds <= MaxFds
  /\ dir \in [RunIds -> DirType]
  /\ todo \subseteq Tasks
  /\ ran \subseteq [task : Tasks, program : Owners, fresh : BOOLEAN]
  /\ down \in BOOLEAN

Shared(t) == \E u \in Tasks \ {t} : RunId[u] = RunId[t]

\* What is executed for a task is the program its client sent, and it writes
\* into a file of its own: not what an earlier process left in the directory,
\* nor what another worker put there.
OwnProgramOnly == \A r \in ran : r.program = r.task /\ r.fresh

\* The same for each task whose run_id no other uses, whatever the others do.
OwnProgramUnlessShared ==
  \A r \in ran : Shared(r.task) \/ (r.program = r.task /\ r.fresh)

\* The submissions that are over and have left the files of a test open.
Leaked ==
  {e[1] : e \in OpenTests} \ {task[w] : w \in {v \in Workers : wpc[v] = "execute"}}

\* They leave too few descriptors for a test of each worker.
Exhausted == 3 * (Cardinality(Leaked) + Cardinality(Workers)) > MaxFds

\* No task with a run_id of its own ends the process: directory, error_info
\* and outputs are there when its worker opens them, and there are descriptors
\* for them, unless too many submissions before have left their files open.
NoFileError ==
  \A w \in Workers :
    wpc[w] = "exit" => Shared(task[w]) \/ "test" \in Faults \/ Exhausted

\* When its worker is through with a task, and before it replies, the
\* directory is gone, unless another worker has it now or something in it
\* cannot be removed.
DirectoryRemoved ==
  \A t \in Tasks \ todo :
    (\A w \in Workers : wpc[w] \in {"idle", "reply"} \/ Id(w) # RunId[t])
      => ~dir[RunId[t]].exists \/ dir[RunId[t]].litter

\* A task that was taken ends, with a reply or with its thread, unless the
\* directory holds something removeDir cannot remove: then mkdir and
\* removeDir go on for ever.
TaskEnds ==
  \A w \in Workers :
    wpc[w] = "mkdir" ~> wpc[w] \in {"idle", "dead"} \/ down \/ Dir(w).litter
=============================================================================
