# Judge Server: TLA+ models, model checking and proofs

The program under `src/judge_server` is an on-line judge: clients send
submissions over ZeroMQ, a broker hands them to worker threads, a worker
compiles the source, runs it under ptrace on each test case, compares the
output with the expected one and replies with a verdict. This directory holds
TLA+ models of its parts, the TLC configurations that check them, and proofs
checked by TLAPS.

## The system

| Component | State | Operations | Talks to |
|---|---|---|---|
| `main.cc` | one `WorkerConf` shared by reference, the ZeroMQ context, threads | start the server thread, sleep 2 s, start workers, join | server and worker threads |
| `JudgeServer` (`judgeserver.cc`) | ROUTER socket, DEALER socket, `revents` of the last poll | poll, move one request to a worker, move one reply back | clients, workers |
| `JudgeWorker` (`judgeworker.cc`) | REP socket, work directory, open files, current task | recv, build directory, compile, open test files, execute, clean, reply | broker, file system, `Judger` |
| `Judger` (`judger.cc`, one class per language) | `results_`, `memory_add` | store source, compile, execute one test | `Judge`, `Checker` |
| `Judge` (`judge.cc`) | the child process, `in_syscall`, `results_` | vfork/exec, TraceLoop, WaitExit | kernel, child |
| `Checker` (`checker.cc`, `memmap.hpp`) | two mapped files, two pointers, `result_` | length check, string comparison, comparison up to white space | file system |
| `Log` (`log.hpp`) | global mutex, static time buffer, flags per object | `<<`, `<< endl()` | all threads |
| `RebootServer` | two sockets | watchdog loop | the broker, as a client |
| `Configure`, `utils::File`, build files, test clients | | | |

What is hard in it:

* *Concurrency.* The broker and the workers are threads of one process that
  share a mutex, a file system and (by `vfork`) memory with the children. The
  child and the kernel act between any two system calls of the tracer.
* *Failure.* `printError` exits the whole process, from a worker thread and
  even from a vforked child. A failed task ends its worker's thread, but leaves
  its socket connected.
* *Ordering.* Verdicts of several tests overwrite one another; entry and exit
  stops of a system call look alike; `revents` may be older than the sockets.
* *Termination.* No resource limit is set on a submission, `wait4` has no
  timeout, and `mkdir`/`removeDir` alternate in a loop without a bound.
* *Numbers.* `memory_used` is a `uint32_t` from which `memory_add` is
  subtracted.

What makes each part correct: `Judge` says what the child did, lets no call
outside `call_limit_` through, and comes back; `Judger` gives a verdict that is a
function of the test runs; `Checker` compares whole outputs; `JudgeWorker` runs
the submission's own program and leaves no directory or file behind; `JudgeServer`
loses, doubles and misdirects nothing and starves nobody; `Log` writes whole
lines; `main` brings broker and workers up together.

## Modules

| Module | Models | State and actions against the code |
|---|---|---|
| `Protocol` | enums of `protocol.h`, `constructJudger`, results of `Checker::run` | |
| `Judge` | `Judge::Run` | `pc` is where the worker thread stands; `TraceExited`, `TraceSignal`, `TraceTrap` are the three outcomes of `wait4`, `RegsFail`, `RejectCall`, `Resume` what follows a SIGTRAP; `Exec`, `Syscall`, `Raise`, `OutOfMemory`, `Compute` are child and kernel |
| `Grading` | what judging a submission promises (abstract) | |
| `Judger` | `processTask` from `compile()` on and `Judger::execute`; composes `Judge` | `RunStep` is any step of `Judge`; `Checked` and `Interrupt` are the cases `kOk` and `kError` of `execute` |
| `Service` | what the judge promises its clients (abstract): at most one answer to the request a client waits for, and no other | |
| `JudgeServer` | `JudgeServer::run`, the message loop of `JudgeWorker::run`, REQ clients; implements `Service` | `spc` is the broker's position in its loop; pipes are sequences; `Judged`, `Failed`, `ParseThrows` and `ProcessExit` are the ways `processTask` ends |
| `JudgeWorker` | `buildEnv`, `removeDir`, `storeSourceFile`, `compile`, `getFileno`, `closeAll` with several workers | each system call on a directory is a step; `dir` is the file system under `temp_dir_`, `detached` a compiler whose `error_info` was unlinked |
| `System` | the two together, joined as `JudgeWorker::run` joins them; implements `JudgeServer` | `Take` is `recvMsg` and the start of `processTask`, `Judged` the end of judging, `Reply` and `SendError`, steps after `removeDir`, the two ways a reply leaves; `results` is what it says |
| `Checker` | `Checker::run` pointer by pointer | `StrStep` is a round of `isEqualStr`, `PeStep` one of `isPE` |
| `Log` | `utils::Log` | one action per part of `<<` |
| `Startup` | `main()`, both `init()` and `destroy()`, and what a worker does when the context is terminating under its `recvMsg` | `confNum` is the shared `worker_conf.num`, `transport` the kind of `sock_back_addr`, `dir` the work directory of run_id 1 |
| `MC*` | values of constants | |
| `JudgeProofs`, `JudgerProofs`, `CheckerProofs`, `JudgeServerProofs`, `JudgeWorkerProofs`, `SystemProofs`, `LogProofs`, `StartupProofs` | theorems and proofs about the module each is named after | |

Operators marked `mutated` stand before the definition they are a slip of. No
specification uses them; they record which slip each property notices.

### Abstractions

* System calls, signals and outputs are members of small sets; limits and page
  counts are small numbers, and 2^32 is `UintMod`. Time and memory may pass it, so
  that what is stored in a `uint32_t` wraps, and so does the difference from
  `memory_add`.
* `wait4` does not fail in `Judge`: its arguments are right, the child is this thread's own
  and nobody else waits for it, and the program installs no signal handler, so that
  neither ECHILD nor EINTR can come (SIGCHLD keeps its default).
* Only calls of the traced thread are followed. `PTRACE_O_TRACEFORK` and its
  relatives are not set, so what a child of the child or another thread does is
  outside the filter and outside the model.
* A vforked child that fails calls `exit()` in the memory of the judge. This is
  undefined behaviour: `tainted` records it, and from then on the process may go
  on or die at any step (`Crash`).
* `JudgeServer` reduces a task to how `processTask` ends; in `System` it takes the
  system calls of `JudgeWorker` instead. A pipe holds `HWM`
  messages. To which worker with room a DEALER gives a request is left open, which
  includes the round robin of ZeroMQ.
* `JudgeWorker` reduces a test to "passes" or "stops", its compilers and programs
  end, and the `readdir` loop of `removeDir` is one step. If the directory is removed
  between `opendir` and that loop (`detached`), the loop finds nothing, or removes by
  name, in a directory that another worker has made again, what it had read before. A process that a
  restart replaces is present as the directories it left (`Leftover`); any
  directory may hold a non-empty subdirectory (`litter`), left there by an earlier
  process or by a program that is not traced.
* An open test is one element of `fds`, `<<task, number>>`, and stands for the three
  descriptors `getFileno` opens; `closeAll` empties the set of its worker.
* In `System` compiler and tests judge the program they are given (`Honest`):
  a source compiles or not, a program is right or not, for ever. So a wrong
  verdict can only come from the judge. A client gives all its submissions one
  run_id, and a client that comes back after it was killed is one more client
  with the same run_id.
* `Checker` is given its bytes (`Bytes`) and which of them are white space (`Blanks`):
  `isEqualStr` tells all of them apart, `isPE` passes over the blanks alike. The run
  has two ordinary bytes, two blanks and NUL, and files of up to four bytes with
  `kMaxLength` 3. Behind a file there are zeroes up to the
  end of its page; outputs of at most 1000 bytes never fill a page.
* `Log`: the order in which a compiler evaluates `log_.endl()` and the `<<` left of
  it is unspecified in C++11; it is chosen once per behaviour (`endlFirst`).
* `Startup`: the sleep of two seconds is no bound on anything. The back address
  is an `inproc` one, as in `judge.conf`, to which zmq 3.2 refuses to connect
  before it is bound, or an `ipc` one, the default of `configure.hpp`. A `recvMsg`
  that fails leaves an empty message, which `run` processes like any other: its
  run_id is 1, so that all workers meet in `buildEnv` on one directory, before the
  code type ends their threads. `removeDir` on it has the steps of `JudgeWorker`. The fork of
  `daemon()` comes after `zmq_init`, which is harmless only because zmq starts its
  threads with the first socket.

## Runs

| Run | Instance | Shows |
|---|---|---|
| `judge_run` | two allowed calls and one that is not, four signals, both sides of each limit and of a `uint32_t`, `memory_add` 0, 1, 2 | `AllowedCallsOnly`, `AcceptedRunExited`, `AcceptedRunWithinLimits`, `MemoryVerdict`, `DownOnlyByKill`, and `RunReturns` for a program that ends |
| `judger_run` | two tests, all outputs | `AcceptedMeansMatched`, refinement of `Grading`, and `Judged` for programs that end |
| `judger_limits` | two tests, with and without trace, a child that a signal ends or that passes a limit | **violated** `AcceptedByEveryTest` |
| `broker_run` | 2 clients, 2 workers, 2 requests each, pipes of 1; endless programs, malformed requests and process exit included | `InOnePlace`, refinement of `Service`, `AnsweredUnlessStranded` |
| `broker_full` | 3 clients, 1 worker: the broker blocks in sending | `InOnePlace`, `AnsweredUnlessStranded` |
| `broker_answer` | 2 clients, 1 worker (as `judge.conf` ships) | **violated** `EveryRequestAnswered` |
| `worker_run` | 2 workers, 3 tasks, two of them with one run_id, both directories possibly left over, programs that litter, failing `mkdir` and `system`, descriptors for two tests | `OwnProgramUnlessShared`, `NoFileError`, `DirectoryRemoved`, `TaskEnds` |
| `system_run` | 2 clients with a run_id each, one with two submissions (wrong, right), one with three (wrong, of a code type nobody judges, does not compile); 2 workers, one directory possibly left over, pipes of 1, descriptors for two tests | `OwnVerdict`, `CleanBeforeReply`, `StaysUp`, `Answered`, refinement of `JudgeServer` |
| `system_same_id` | 2 clients, both with run_id 0, as `test/server.py` | **violated** `OwnVerdict` |
| `checker` | all pairs of files up to 4 bytes | `VerdictCorrect`, `CheckerReturns` |
| `log` | 2 threads, 3 statements of up to 2 items | `WholeLines`, `HeldWithinStatement`, `LineWritten` |
| `startup` | 3 workers, inproc and ipc | `NumberNotStale`, `RunsWithServer`, `FailureEnds`, `WorkersEnd`, `AllServe` |

Why the bounds are enough. Two tests are the least where the verdict of one can
replace that of another, and where "first", "middle of the loop" and "last" differ.
A pipe of one message reaches the full and the empty pipe at once; ZeroMQ's default
of 1000 on either side only takes longer. Two workers are the least that share a
directory; the third task of `worker_run` has a run_id of its own and is what the
other two must not disturb. `worker_run` and `system_run` have descriptors for two
tests, three each (`MaxFds = 6`): the leak of failed submissions does exhaust them,
and `NoFileError` and `StaysUp` say that the process ends no earlier. One worker and
three clients are the least for the broker to hold a request that no pipe has room
for; two workers, for one to be sound while the other is stuck. The submissions of a
client in `system_run` follow each other under one run_id, so that each finds what
the one before it left. Time and memory run one past every limit, and memory also
below `memory_add`. Four bytes let a file have blanks in front, between and behind
two words, and one byte too many.

Runs end in states without successors (a client asked all it may, a run returned,
the process exited), hence `CHECK_DEADLOCK FALSE`. What must not stop is stated as
a liveness property.

### Fairness

* Threads are scheduled by the operating system: weak fairness of the steps of
  the tracer, the broker and each worker, and of the child's `execvp`.
* `RunTerminatingSpec` and `JudgerFairSpec` add strong fairness of `exit_group`: an
  assumption on the submission, not on the code, which sets no limit on the child
  (below). The same assumption is behind "ends" in `JudgeServer`; its kind "loops"
  is a program that breaks it.
* ROUTER and DEALER read from their pipes in turn (fair queueing), so a pipe that
  is ready again and again is read: strong fairness of `RecvFront` and `RecvBack`.
* `System` has weak fairness of a worker as a whole: that its programs end is in
  `JudgeWorker` (`ExecutePasses`, `ExecuteStops`); that a task comes to an end is then
  not assumed but checked (`Answered`), up to directories that cannot be removed.
* A mutex that is free again and again is obtained by who waits for it: strong
  fairness of `Lock`.

## Disagreements between the code and what it says

Each of the first three is a run whose property TLC finds violated:

1. `AcceptedByEveryTest` (`judger_limits`): a test over the limits with the right
   output is forgotten when the next test passes, and so is, without trace, one whose
   program a signal ended (`judger.cc:31-46`, `judge.cc:47-51`).
2. `EveryRequestAnswered` (`broker_answer`): a code type without a `Judger` ends the
   worker's thread, whose socket goes on taking requests (`judgeworker.cc:78-82`).
3. `OwnVerdict` with one run_id (`system_same_id`): one client is sent the verdict of
   the other's program (`judgeworker.cc:211-220`). With a run_id per client it holds
   (`system_run`). With shared ones the process can also end: a worker whose
   directory was taken away finds none to open (`judgeworker.cc:295`), no `error_info`
   to read (`judger.h:47-54`) or no place for its output. Hence `NoFileError` speaks of
   tasks that share none.

The others are part of the models, and properties are stated around them:

4. No limit is set on the child (`judge.cc:27`): a program that loops keeps its
   worker for ever. Liveness is for programs that end, or leaves out requests
   stranded behind one that does not (`AnsweredUnlessStranded`).
5. A request with a value of the wrong JSON type ends the process
   (`judgeworker.cc:265-274`), and every other client waits for ever: action
   `ParseThrows`, and `down` in `AnsweredUnlessStranded`.
6. Three descriptors leak with each failed submission (`judgeworker.cc:155-162`)
   until the worker's next test passes; enough of them end the process. `NoFileError` and
   `StaysUp` say how many it takes: those of the failed submissions and of one test
   of each worker must exceed `MaxFds`.
7. Outputs of one length are compared as C strings (`checker.h:38`): what follows a
   NUL does not matter. `VerdictCorrect` says so (`Text`).
8. An empty output cannot be mapped (`checker.cc:17`) and gets kUKE, also where an
   empty output is right: the comparison "empty" of `CheckResult`.
9. `sendError` replies with run_id 0 (`judgeworker.cc:98`), so `OwnVerdict` lets a system
   error name another run_id.
10. A directory with a non-empty subdirectory is never removed; the next submission
    with that run_id keeps its worker for ever (`judgeworker.cc:214-219`): `litter` in
    `TaskEnds` and `Answered`.
11. When the server cannot bind, the workers end but leave their sockets open, and
    `zmq_term` waits for them for ever (`judgeserver.cc:68`): `FailureEnds`.
12. A child that used fewer pages than `memory_add` is said to be over the memory limit
    (`judge.cc:190`): `MemoryVerdict` names exactly this case beside the true one.

## Theorems

Every safety property of the runs, every action property and every refinement is
proved; only liveness is left to TLC alone. Two are proved and not run, since a
refinement that is run implies them: `NoTestAfterFailure` and `OwnReplyOnly`. What the theorems assume are the named
`ASSUME`s of the modules (constants are finite sets and numbers of the kind the code
has; the limits fit in a `uint32_t`) and, where this is said below, a
hypothesis of the theorem itself.

`JudgeProofs` (for all sets of calls and signals, limits, `memory_add`):

* `TypeCorrect`. The one step that is not immediate is the difference modulo
  `UintMod` (`UnsignedDifference`).
* `CallsAllowed`. Not inductive as it stands: a forbidden call gets carried out if a
  child stops at an entry while `in_syscall` is false. `CallsInv` adds that the only
  stop with `in_syscall` false is the SIGTRAP of `execve`, at which no call is
  pending.
* `AcceptanceSound` and `AcceptedRunsExited`. `VerdictInv` adds where an "exited"
  child comes from (`exit_group`, or no program at all) and that nothing is left of
  the child when `Run` has returned, so that no counter moves under the verdict.
  `AcceptanceSound` assumes no bound on time or pages: an unsigned difference within
  the limit is a true one, or the use is so large that it wraps.
  `AcceptedRunsExited` lets a child that exited before its program was started
  pass, for `wait4` does not tell it apart; in `Judger`, `AcceptedMeansMatched` covers it.
* `ProcessEnds`: `DownInv` says where a dead child comes from while its registers are
  read.
* `MemoryVerdicts`, the converse (`OverLimit`).

`JudgerProofs` (for every number of tests): `JudgerInvariant` strengthens the type
invariant with `VerdictInv`, with a history invariant (all tests before the last
matched, and the counter equals the number of those that did) and with one that
ties `results_` to the last test. `JudgerTypeCorrect`, `AcceptedMatched`,
`StopsAtFailure` and `Refinement` (the refinement mapping of `Judger`, one step per
action) follow.

`CheckerProofs` (for outputs of every length over any bytes, any of them blanks):
`TypeCorrect`, and
`VerdictsCorrect`, that the pointer loops compute the comparison of whole files.
The loops are the induction: the invariant says what each has found out so far.
`StrInv`: the bytes in front of both pointers are the same and none is NUL.
`PeInv`: the bytes in front of the pointers other than white space can be paired in
order, and every pairing of the whole files pairs them with each other
(`Paired`). So the next two bytes must be partners (`NextPaired`): if they differ,
or only one file has one, there is no pairing at all (`PairedAtEnd`). `SameWords`
is stated with pairings, and not with the two texts stripped of white space, for
this reason. `Least` gives the CHOOSEs of `Skip` and `Text` their values.

`JudgeServerProofs` (for any clients, workers, pipe sizes):

* `At(place, x, i, r)` says that request `r` is at position `i` of a place, be it a
  pipe, the broker's hands or a worker. Each action is shown to move the front
  request of one place to another and to shift the rest (`Moves`), to remove one
  (`Removes`) or to add a new one, and the invariants are shown to survive every such
  move whatever the places are.
* `IInv`: no request is in two places (`Unique`), what is on its way is the last
  request of a client that waits or left (`OnlyCurrent`), the pipes of a client hold
  its own (`OwnPipes`), and who waits is represented somewhere (`Somewhere`).
* From it `RequestsInOnePlace`, `RepliesOwn` and `ImplementsService`. `InOnePlace`
  alone is not inductive: it does not say that a pipe holds nothing but its own
  client's last request, and what it says of a request that is read depends on it.

`JudgeWorkerProofs` (for any workers, tasks, run_ids, leftovers):

* `DirectoriesRemoved`. `DirInv` says who a directory that exists belongs to: it is as
  an earlier process left it, or a worker is at it; and unless it is empty or
  untouched, one of these has yet to clear it (`Clears`).
* `OwnPrograms`. `Own(w)` says what the directory of a run_id nobody shares holds at
  each position of its worker, from `mkdir` on. Two lemmas carry it: what a worker's
  step does to its directory (`Effects`), and that it touches no other (`Frame`).
* `NoFileErrors`, for any finite set of workers, whatever `MaxFds` is. `LeakInv` says whose
  files are open: those of the one test a worker is at, and of one test of each
  submission that failed. So a test that finds no descriptor left finds them
  `Exhausted`, which stays true from then on, as no step follows the end of the
  process (`Halted`).
* `TypeCorrect`, the bound on open descriptors included.

`SystemProofs` (for any clients, workers, submissions, run_ids) uses the two modules
above through instances (`SP`, `WP`): a step of `System` is a step of `JudgeWorker`
(`WorkerStep`) and of `JudgeServer` (`ServerStep`), so that the invariants of both hold.

* `ImplementsServer` needs that the request a worker holds is one of a client's
  submissions (`Fits`), and hence its task one that ends as the broker's module says;
  with `JudgeServerProofs` the judge implements `Service` (`ImplementsService`).
* `VerdictsOwn`, if different clients use different run_ids (`OwnIds`) and there is at
  least one test. `Judging(w)` ties files and position of a worker to what is true of
  the program it judges (`Own` of `JudgeWorkerProofs` does not know which programs
  compile), `Tested` ties the tests it has passed, and `VerdictInv` follows the
  verdict from `results` to the pipe and the client. A client may use its
  run_id again, so that `Own` of tasks with an unshared run_id is not enough: that a
  client has one request on its way (`Placed`) makes `Own` hold of every worker
  (`OwnDirs`). Without `OwnIds` the theorem is false (`system_same_id`).
* `RepliesAfterCleaning`, if moreover no program leaves a subdirectory (`litter`), on
  which `cleanEnv` fails: `Clean(w)` says that what `buildEnv` made can be removed,
  `AnswersClean` that nobody makes it again before the client has its reply.
* `ServerStaysUp`, with `OwnIds`: `FailedInv` ties the files that nobody closed to
  submissions whose verdict is "failed", so that `Exhausted` of a worker's view means
  what `StaysUp` says of the verdicts.

`LogProofs` (for any number of threads): `LogTypeCorrect`, `MutexHeld` and
`WholeLinesOnly`. The invariant adds that flag and mutex agree, that a statement has
an item left while it is not at its `endl()`, and that the static time buffer holds
the time of the thread about to write it. For whole lines `PendingInv` adds what a
thread has in its stream buffer at each position: nothing exactly while the prefixes
are still asked for, else the beginning of a line of its own.

`StartupProofs` (for any number of workers, both transports): `TypeCorrect`,
`NumbersNotStale` and `WorkersRunWithServer`. `LoopInv` says that the shared number is
that of the last worker started or of the next one; `ServerInv` that the broker binds
when it comes up and terminates the context only on its way out.

Only model-checked: the liveness properties `RunReturns`, `Judged`,
`AnsweredUnlessStranded`, `TaskEnds`, `Answered`, `CheckerReturns`, `LineWritten`,
`FailureEnds`, `WorkersEnd` and `AllServe`, because the prover supports neither fairness
nor `ENABLED`. The violated properties are false and have no theorem.

## Not modelled

* `RebootServer`. Neither of its sockets is ever bound or connected
  (`reboot_server.cc:69-86` ignores both addresses) and `checkServer` stands in the
  `else` of the inner `if` (115), so all the program can do is poll. Were it called,
  `parseData` would apply `asInt` to the string `wrapData` sends as `judge_result`
  (`judgeworker.cc:282`). A module of it would have no action that is ever taken.
* Reading the configuration (`configure.hpp:24-65`), apart from what `Startup` depends
  on, the daemon fork and the redirection of stdin and stdout: once, before any
  thread exists.
* JSON encoding, apart from what malformed requests do; the frames of one
  `ZmqMutiMsg`, which ZeroMQ delivers together or not at all; ZeroMQ calls that fail
  after `zmq_poll` announced a message.
* `utils::File`, which nothing uses; sample submissions; build files.

`PROJECT.json` lists each with its reason, and the hazards that no property covers.

## Plan

Written are all modules above, and proved is what is safety in them. What is left:

1. Proofs that two parts fit which are so far only alike: that `Judger` may replace
   the choice between `ExecutePasses` and `ExecuteStops` of `JudgeWorker`, and `Checker`
   that of an output in `Judger`.
2. Action properties of `System`, such as that a verdict, once sent, stays.
