# A verification of the Erlang C node around V8

This directory holds a TLA+ model of the program in this repository: a C node
that an Erlang node sends JavaScript to, to be compiled, run and removed. The
models are checked by TLC on small instances. Every invariant, action property and
implementation that a passing run checks is also proved by TLAPS, for every size, but
for one invariant that says of a step that it is possible (section 4, Only model-checked).

## 1. The system

| Part | Code | State | Operations |
|---|---|---|---|
| Thread pool | `include/threadpool.h` | `jobs` (heap by priority), `jobsLeft`, `jobsDone`, `busyThreads`, `stop`, two mutexes with a condition variable each | `addJob`, the threads' `process` and `next_job`, `joinAll`, `waitAll`, the destructor |
| Script registry | `src/v8runner.cpp` | `_convs` (conv to isolate), `_functions` (pair to function), `nextIsolate`, `_compileMutex` (readers and a writer), the Locker of each isolate | `compile`, `remove`, `run`, `cleanData` |
| Watchdog | `src/v8runner.cpp` | `_timing` (a slot per thread), `_maxExecutionTime`, `_timeCheckerWatch`, `_timeCheckerMutex` | `_timeCheckerFunc`, the slot's publication and clearing in `_run`, `setMaxExecutionTime`, the destructor |
| checkCode | `src/v8runner.cpp` | an isolate of its own per call | `_checkCode` |
| Require cache | `src/v8runner.cpp` | `_requireCache`, `_requireCacheMutex` | `loadLibs`, `updateRequireCache`, `getRequireCachedFile`, the script's `require` |
| Dispatcher | `src/cnode.cpp` | `_priorityMap`, `_maxDiffTime` | `process` (the receiving thread), `processV8` (a job) |
| Main loop | `cnode_main.cpp` | the connection | receive, hand over, free, end |

How they interact: the main loop receives a message and calls `process` on its
own thread. `process` answers administrative commands itself and turns the others
into jobs, with a priority from `_priorityMap`, for the pool. A pool thread calls
`processV8` with its number, which calls one of `checkCode`, `compile`, `remove`
and `run` and sends the reply. `run` publishes what it calls in the slot of its
thread, where the watchdog, a thread of the V8 runner, finds it, and asks V8 to
terminate it when it takes too long. A script may call `require`, which reads the
require cache under a lock of its own.

What is hard here:
- **Concurrency without a lock.** The pool's counters and `stop` are atomics
  changed outside its mutexes; `isWorking` is cleared outside
  `_timeCheckerMutex`; `addJob` tests the limit before it locks.
- **Condition variables.** A notification sent outside the mutex can fall between
  a predicate and a sleep. `next_job` and `addJob` are safe from it, `waitAll`
  and `joinAll` are not.
- **Locks of different kinds nested.** `run` holds the shared side of
  `_compileMutex` while it waits for a Locker, `compile` and `remove` its unique
  side.
- **Time.** The watchdog judges by a clock reading older than its scan, and acts
  on an isolate after it has judged a slot.
- **Shutdown.** The dispatcher, the pool and the runner are destroyed in that
  order, with jobs still queued and the watchdog still running.

## 2. The modules

| Module | What it is |
|---|---|
| `JobLedger` | the abstract pool: a job is refused, or accepted, started and completed; the most urgent of the waiting jobs starts first; a counter that is never too low decides on refusals; the pool closes |
| `ThreadPool` | `threadpool.h`, every step another thread can see |
| `ThreadPoolProofs` | its theorems and their proofs; so are `ScriptRegistryProofs`, `RunnerProofs`, `WatchdogProofs`, `WatchedRunnerProofs` and `CNodeProofs` for the modules they are named for |
| `ScriptStore` | the abstract registry: a map from pairs to scripts, and answers that are true at one moment |
| `ScriptRegistry` | `_compile`, `_remove`, `_run`, `cleanData` with their locks |
| `RequireCache` | `loadLibs`, `_Require`, `updateRequireCache` and the files on the disk |
| `Runner` | the V8 runner as its callers have it: `ScriptRegistry` and `RequireCache` composed, with the dispatcher's calls |
| `Watchdog` | `_timeCheckerFunc` and what it shares with the threads that run scripts |
| `WatchedRunner` | `ScriptRegistry` and `Watchdog` as one program, to the end of `~V8Runner` |
| `CommandService` | the abstract node: a command is received, refused or carried out at one moment, answered once |
| `CNode` | `process`, `processV8` and the end of `main`, over what `JobLedger` says of the pool and `ScriptStore` of the runner |
| `MC...` | the instances for TLC |

### ThreadPool and the code
`pc[w]` is where thread `w` of the pool is: `loop` (threadpool.h:21), inside the
mutex of the job queue (`LockJobs`, `TestAvailable`, `Sleep`, `Top`, `PopJob`), in
the job, and in the three steps after it (`DecJobsLeft`, `IncJobsDone`,
`NotifyWaiter`), which the code does one after the other without a lock. `addJob`
is `PassCheck` (or `Refuse`) followed by `PushJob`, because the limit is tested
before the mutex is taken; several callers are modelled, as the test program has
them. `joinAll` is `JoinAll`, `WaitAll` and its sleep, `SetStop`, `NotifyAll` and
`Join`; the destructor calls it a second time (`JoinAgain`). After `stop`, a
thread that finds no job gets an empty one, whose effect on the counters
`next_job` corrects beforehand (`TakeNoop`). A condition variable is a set of
sleepers: `notify_one` wakes any one of them if there is one, and both may wake
spuriously.

Of all this `JobLedger` keeps what a caller can rely on: what became of each job (`fate`), the
counter `left`, the priorities and whether the pool is open, closing or closed. Its counter
may be ahead of the jobs, never behind: `Settle` takes 1 off only while it is too high, and
`Idle` adds 1 for the empty job of a thread that ends. A job is refused only when the
counter is at the limit, and `Accept` is bound by the limit and one job more for each caller but one. `Close`
needs that nothing runs, that the counter is exact and, after `joinAll(true)`, that nothing is queued.

### ScriptRegistry and the code
`pc[t]` says how far the call of thread `t` has come. `BeginCompile` is `_compile`
up to the script's own code, which runs while both locks are held; `EndCompile`
stores the function or, on a failure, stores nothing. The code takes
`_compileMutex` first and waits for the Locker with it in hand, while
`BeginCompile` and `Remove` take both at once: `WritersFindIsolatesFree` says that
there is nothing to wait for, which makes the two the same. `run` keeps its steps
apart: the shared lock, the lookup, the Locker, the test of the handle, the call.
A script's function is the script itself; a handle that was Reset is `Empty`,
which differs from a missing entry as NOT_FUNCTION_ERR does from
NOT_FOUND_PAIR_ERR. `_checkCode` is a call under no lock (`EndCheck`): its isolate is
nobody else's. One runner per process is assumed (`nextIsolate` is static).

### RequireCache, Runner and the code
The cache maps names to contents, and a content is a file with the version it was read in,
or `NoFile` for a name that is not there. `loadLibs` names a file by the last two parts of
its path (`LoadName`), while `updateRequireCache` reads and stores under the name it is given,
so the two can disagree about which file a name means; both are in `LoadLibs` and
`ReadUpdate`. `EditFile` is whoever writes the disk. `_Require` takes the shared side of
`_requireCacheMutex` and keeps it while the file is compiled and run; a file that requires
another takes it again on the same thread. So `inside[t]` is a stack, the lock is shared by
whoever has a stack, and `Require`, `Enter` (or `NotFound`) and `Leave` are separate steps.
`updateRequireCache` is `ReadUpdate`, which has no lock, then `LockCache` and `Store`.

`Runner` puts this inside the runs of `ScriptRegistry`: only a thread with a script
running (`InScript`) may call `require`, and its script gets on only when the files it
requires are through. What `std::shared_mutex` does with a waiting writer, and with a thread that
locks it twice, is not said by the standard. The model has what the build has (libstdc++ on
`pthread_rwlock`, where a reader passes a writer that waits): `Shareable`. The mutant
`WritersFirst` is the other policy, and `RunsEnd` fails under it: the nested require
waits for the update, the update for the outer file, and the dispatcher with it. So the
code relies on that choice of the library.

`WaitsFor(a, b)` says whom a thread or the dispatcher waits for: the holders of the side of
`_compileMutex` it cannot have, who is in the isolate whose Locker it wants, who is inside a file while an
update wants the cache's lock, or the dispatcher while it stores. It is read off the state and not part
of `Next`. `NobodyWaitsInACircle` says that every set of actors has a member that waits for nobody in the set,
`WhoWaitsForNobodyGoesOn` that who is in the middle of something and waits for nobody has a
step to take. Together they say that no set of locks, in any order of taking them, is a deadlock; the first
alone would hold of a `WaitsFor` that forgets a lock.

### Watchdog and the code
A slot is written under the shared side of `_timeCheckerMutex`, which is held for
the single write, so the mutex needs no variable: it is taken while the watchdog
is in a scan (`Scanning`). `ReadTime` and `Publish` are two steps, as in the code,
and so are `Judge` (a slot is found overdue), `TestInUse` (its isolate is asked `IsInUse`) and
`Terminate` (`TerminateExecution` is called): nothing is held between them that keeps the thread
where it is. So a request can reach another call than the one judged, or nobody, and then it stays
pending (`requested`) until the next thread gets the Locker of that isolate (`Lock`, and `Remove`, which runs nothing).
What a line computes is a helper of its own (`Now`, `Cleared`, `Overdue`,
`InUse`, `WatchAtEnd`). A script is a Boolean: does it return of itself? `TimeExecution` is
the code's subtraction, modulo `SizeMod` in place of 2^64.

A run leaves its isolate through one of several steps: it is unwound, returns, or (`NotCalled`)
finds no function or input it can use and never publishes a slot.

### WatchedRunner and the code
`Watchdog` says for itself who may be in which isolate when: a compile begins only while nobody
is in a run, an isolate is entered only while it is free. In the code it is not the watchdog that sees to
that but `_compileMutex` and the Lockers, which are `ScriptRegistry`'s. `WatchedRunner` has the steps
of the registry, adds to each what it does for the slot of its thread, and puts the watchdog's thread
beside them. Each action is one piece of `_run`, `_compile`, `_remove` or `_checkCode` in both views at once:
`WatchedCall` is the registry's `Call` and the watchdog's `Publish`, `WatchedReturn` is
`EndCall` with `Return` or `Unwind`, `WatchedLeave` gives both locks back, `SlotStep` are the clock
reading and the clearing of `isWorking`, of which the registry knows nothing. `Inside` reads off the
registry where a thread is, in place of `Watchdog`'s variable `iso`. No guard of `Watchdog` on
another thread is repeated for the steps that take a lock (`WatchedEnter`, `WatchedBeginCompile`, `AskCheck`): that
they hold is what `WatchSpec` checks and `RegistryImplementsWatchdog` proves.

The destructor is here complete: `StopWatch` when `main` has joined the pool, then `Dispose`,
which joins the watchdog, runs `cleanData` and disposes of the isolates.

### CNode and the code
`process` is `Receive` (the main loop's), the first deadline (`SocketTimeout` or
`InTime`), and one action per command; what it does not know becomes a job
(`AddJob`, or `Exhausted` when the pool refuses). `processV8` is `Judge`, the second
deadline, one or two actions per command and `SendResp`; `FinishJob` is the pool's,
which takes the job off `jobsLeft` only after the reply. The two halves share
`maxDiffTime`, `replies`, the pool's counter and, through the runner,
`_compileMutex`: `get_statistics` waits for it in the dispatcher. Administrative commands that only touch the runner or its caches share `Plain`; it
leaves out that `update_require_cache_file` waits for `_requireCacheMutex`, which is in
`Runner` (`DispatcherReturns`), and may answer with an error. `CNode` does not
repeat the parts that have modules, it keeps to what they promise: `LedgerSpec` says that the node
does with its jobs what `JobLedger` allows, which `ThreadPool` implements, and
`StoreSpec` that compile, remove and run act on the pair as `ScriptStore` allows, which
`ScriptRegistry` and `Runner` implement. In the first there is one caller, a
refusal is the reply THREAD_POOL_EXHAUSTED, and a job runs until its reply is sent. In the
second a compile drops the old function when it begins and has the new one when it ends. One pair is enough, since pairs meet
only in the locks. A compile is named by its request, a run's result is what it found. The
history variable `effects` lists the compiles and removes in the order in which they took effect;
no guard looks at it.

`stage` follows the end of `main`: the connection fails and the loop ends (`Disconnect`), and
since `v8`, `pool` and `cnode` are destroyed in the opposite order, the `CNode` goes first, then the
pool joins its threads, running what is queued (`JoinPool`), then the runner goes
(`DestroyRunner`). Between the first two, jobs use a `CNode` that is gone. That is undefined, and
modelled by what it can come to: `_maxDiffTime` is any value (`Verdicts`), or the read of
`_v8` ends the process (`Crash`). `ExitIsClean` and `EveryRequestAnswered` say what holds all the same.

What is assumed of V8, which is not in this repository: a Locker lets one thread
in; `IsInUse` holds while one is; `TerminateExecution` makes the script that runs
in the isolate return with `HasTerminated`, which spends the request; one that nobody has acted on
stays when the isolate is left, and is dropped when the next thread gets the Locker, as V8 then sets up
its stack guard anew.

## 3. What the runs check

Runs that pass:

| Run | Instance | Shows |
|---|---|---|
| `pool_safety` | 3 threads, 2 callers, 3 jobs of 2 priorities, limit 1 | `EachJobInOnePlace`: no job is lost or run twice. `CountersAgree`: the counters differ from the truth by exactly the threads between two updates. `QueueBound`: the limit is passed by at most one job per extra caller. `WakeupsSuffice`: no job waits for a thread that sleeps. `JoinCountsAll`: what `joinAll` leaves behind. `LedgerSpec`: the pool, its mutex, sleepers and counters included, implements `JobLedger` |
| `pool_progress` | 2 threads | `AcceptedJobsRun`: every accepted job runs, unless abandoned by `joinAll(false)` |
| `registry_safety` | 3 threads, 4 pairs, 2 scripts, 2 isolates | `CallsAtHome`: a function is called in the isolate it was compiled in, by who holds its Locker. `EveryFunctionHasAConv`: `_convs[conv]` in `_run` never inserts under a shared lock. `WritersFindIsolatesFree`: the two kinds of lock never wait in a cycle. `ConvsAreSpread`: the round robin is even. `StoreSpec`: the registry implements `ScriptStore` |
| `runner` | 2 threads, 1 pair, 1 file in 2 versions, requires 2 deep, updates and `isolates_count` | `RequiredFilesStayPut`: no file is replaced while it runs. `CacheOnlyGetsNewer`: an update that fails or is late does not make the cache worse. `RunsEnd`, `WritesEnd`, `DispatcherReturns`: with locks taken inside locks, every call gets on, and so does the dispatcher. `NobodyWaitsInACircle`, `WhoWaitsForNobodyGoesOn`: why, as no wait closes a circle |
| `watchdog_safety` | 2 threads, 2 isolates, 2 limits, clock up to 3 | `SlotTellsTruth`, `ScanIsConsistent`. `ScanMissesNobody`: an overdue call that the scan has looked at has been asked to end and stays so, though threads move between the watchdog's steps. `OldScriptsAreJudgedFairly`: a script older than the scan's clock reading is only killed when it really is overdue |
| `watched_runner` | 2 threads, 1 pair, 1 isolate, limit 0, clock up to 1 | `WatchSpec`: with the registry's locks and nothing else, the threads do only what `Watchdog` lets them do. `SlotIsThePair`: a working slot names the isolate its pair was compiled in, and the pair's function cannot be replaced until the slot is cleared. `EverybodyReturns`: a function that never ends is killed, and does not keep the other runs out, though it has a Locker and the shared side of `_compileMutex` (`RunsReturn`); nor a compile or remove, once no new runs are called (`WritersReturn`); and the destructor gets the watchdog's thread back (`DestructorReturns`). `DisposalIsClean`: when the isolates go, the watchdog has ended and no thread, slot or function refers to one, though a request may be pending |
| `node_safety` | 3 messages of 5 kinds, 2 threads, queue of 2, 2 limits | `AnsweredOnce`: until it is answered, once, a message is in exactly one place. `LimitKept`: with one caller of `addJob` the limit is strict, the running jobs included. `AcknowledgedCompileHolds`: a compile that was answered OK is in force until a compile or remove takes effect after it, and nothing else undoes it. `ExitIsClean`: when the runner is destroyed every message received is answered and no thread is in a job. `ServiceSpec`: the node implements `CommandService`. `LedgerSpec`, `StoreSpec`: it uses the pool as `JobLedger` and the runner as `ScriptStore` |
| `node_progress` | 2 messages of every kind, queue of 1, 2 limits | `EveryRequestAnswered`, the end of the connection included. `PrioritiesStay`: looking a priority up changes none |

Runs that find what the code does otherwise than it says:

| Run | Finds |
|---|---|
| `pool_waitall` | the last `notify_one` can be lost, and `joinAll(true)` never returns |
| `pool_join` | `notify_all` can be lost, and a thread is never joined |
| `watchdog_fresh` | a script that starts after the clock reading is killed at once: its age is negative, as a `size_t` huge |
| `watchdog_victim` | the script killed may be another than the one judged |

### Bounds
- Three pool threads are the fewest with which two can sleep while a third takes
  the job meant for one of them; two callers are the fewest that can pass the
  limit together; three jobs with a limit of one fill the queue up to its limit and past it; two of
  them tie and the third is more urgent, so every comparison of the heap occurs.
- Three threads, two convs and two nodes let a compile, a remove and a run of one
  pair meet, with a second pair of the same conv and one of another conv in
  another isolate; cleanData and new compiles wrap `getIsolate`'s counter at every
  position.
- In `runner` two threads are a script inside a required file and another one that wants in,
  with the dispatcher as the writer between them: the fewest with which a nested shared lock
  can deadlock. `MaxRequires` 2 is one nesting; `MaxVersion` 2 an old and a new file, and the file may
  also come and go. One name suffices, as the lock is one for all. The locks of
  several pairs and isolates are `registry_safety`'s.
- The clock goes to 3 with limits 1 and 2, so a script can be on time, overdue and
  younger than the scan. `SizeMod` only has to exceed the clock.
- In `watched_runner` two threads share one isolate, so that a termination meant for one can meet
  the other's run or compile. With the limit 0 one tick makes a script overdue, and a scan whose clock reading is
  0 meets scripts that started at 0 and at 1: on time, overdue and younger than the scan all occur. `EndlessInTime`
  leaves out calls that start too late to become overdue before the clock of the model ends. The
  state space is a product of two modules with runs of their own, which have the larger instances.
- Three messages are a compile, a command that could undo it and a third that is refused or
  meets both; with a queue of two, the third is refused. In `node_safety` the limit is 0, or 1 once
  `set_max_diff_time` has come, and the clock ends at 1, so every deadline is met or missed by one tick
  and the limit changes while a job waits; the other administrative commands are in `node_progress`,
  with two messages.
- Thread, isolate, message, pair and script symmetry is used in the runs without liveness.

### Fairness
The pool's threads, the watchdog's thread, the dispatcher and the threads with code to
run are scheduled, and a lock that becomes free again and again is had in the end. In
`Runner`, `WatchedRunner` and `CNode` that is one strong fairness condition per thread, on everything that thread
does next by itself, since a thread has one thing to do at a time; in `ThreadPool`
it is weak fairness, and strong where a step takes a lock. For the unique side of
a reader-writer lock this promises something only if the lock becomes free, which
`WritesEnd`, `DispatcherReturns` and `WritersReturn` (`NoNewRuns`) state as their premise. Nobody is obliged to add a job, to call
the runner, to require a file, to send a message or to end the connection, and no wake-up is
relied on that was not sent. In `Runner` scripts end. In `WatchedRunner` they need not,
only V8's unwinding of one that was terminated must come. The premise `EndlessInTime` says where an endless script may be: in
a function that `run` calls, the one place the watchdog looks at. Of one at the top level of what is compiled or
checked, or in a `toJSON`, nothing can be promised: it has no slot and is never terminated, and a
compile keeps the unique side of `_compileMutex` for good. `Watchdog` has no fairness; its
liveness is checked with the registry beside it.

## 4. What is proved

The assumptions are the named ones of the modules (that sets of threads and messages are finite,
that a mark such as `NoThread` is no member of the set it is a mark for, that bounds are natural numbers).
Nothing is assumed of their sizes. No proof says anything of liveness, which is left to TLC.

### ThreadPoolProofs
For every set of threads, callers and jobs, every priority function and every limit:

| Theorem | States |
|---|---|
| `TypeCorrect` | `TypeOK`, which has `jobsLeft` and `busyThreads` in Nat |
| `JobsAreNeitherLostNorRepeated` | `EachJobInOnePlace` |
| `CountersCorrect` | `CountersAgree` |
| `NoJobWaitsForASleeper` | `WakeupsSuffice` |
| `LimitHolds` | `QueueBound` |
| `JoinCorrect` | `JoinCountsAll` |
| `PoolImplementsLedger` | `LedgerSpec` |

The argument goes in layers, each
an inductive invariant relative to the ones before it. First the control part: the
types of the variables that are not counters, and who owns the mutex at which `pc`.
On it, that each job is in one place, since a job enters the queue once, from a
caller that holds it, and leaves it under the mutex. On that, the counters: they are
compared with cardinalities of sets of threads at given `pc`s, and each step moves one
thread between those sets, so each theorem about a set with one member more or less is
used once per step. That the counters stay natural numbers follows from these equations
and not the other way round, which is why `TypeOK` is proved after them. `WakeupsSuffice` needs
that a thread goes to sleep only while it holds the mutex and the queue is empty.
`LimitHolds` follows each caller from its check to its push. `PoolImplementsLedger`
uses all layers: a step of the pool is a step of the ledger under the mapping in
`ThreadPool`, or changes nothing in it. The counter is the hard part. A push is within the ledger's bound because
the jobs and the callers past the check stay within it (`AdmitInv`); a thread that has yet to take its 1 off
is one for which the counter exceeds the jobs (`HeldByHolders`, `DecIsSettle`), and the same is said of
a caller before a refusal; and when the last thread is joined no thread is between two updates, so the counter
is what was abandoned.

### ScriptRegistryProofs
For every set of threads, convs, nodes and scripts, and every number of isolates:

| Theorem | States |
|---|---|
| `TypeCorrect` | `TypeOK` |
| `FunctionsAreCalledAtHome` | `CallsAtHome` |
| `RunsNeverInsert` | `EveryFunctionHasAConv` |
| `WritersNeverWaitForALocker` | `WritersFindIsolatesFree` |
| `IsolatesAreExclusive` | `OneThreadPerIsolate`, that no two threads are in one isolate, which no run repeats |
| `RoundRobinIsEven` | `ConvsAreSpread` |
| `RegistryImplementsStore` | `StoreSpec` |

The invariant has two parts. `LockInv` says at which `pc` a thread has which lock, in both
directions: a thread compiles exactly when it is the writer, is past the shared lock exactly when
it is a sharer, is in an isolate exactly when it has its Locker, and there is never a writer with
sharers. `MapInv` says what a thread that has a lock can rely on: the isolate it looked up is
still that of its conv, the entry it found is still there, and every function in `_functions`
belongs to the isolate `_convs` has for its conv. The second needs the first, as only a thread
that is alone under `_compileMutex` changes the maps. The properties are consequences, but for
`ConvsAreSpread`, which has an invariant of its own (`Spread`): since a round began at some isolate, those from there up
to the counter, which may wrap in between, have one conv more than the others. A cleanData leaves the
counter where it is, so it begins a round there.

### RunnerProofs
For every set of threads and files, every depth of nested requires and every bound on the
versions:

| Theorem | States |
|---|---|
| `RunningFilesAreNotReplaced` | `RequiredFilesStayPut` |
| `CacheGetsNewer` | `CacheOnlyGetsNewer` |
| `NoDeadlock` | `NobodyWaitsInACircle` |
| `RunnerUsesRegistry` | the runner is the registry of `ScriptRegistry` beside the cache, so every theorem of `ScriptRegistryProofs` is one of the runner |
| `RunnerImplementsStore` | the runner implements `ScriptStore`, whatever scripts require and whenever the cache is updated |

The first is inductive once it is known that the dispatcher stores only while nobody is inside a
required file. The second needs more than the code says on any one line (`DiskLeads`): what the dispatcher
carries from its read to its store is not older than what the cache has of that file, because
nothing else writes the cache and a file on the disk only gets newer.

`NoDeadlock` gives everyone a rank (`Rank`): a dispatcher that stores has 0, a thread past its locks or in no call 1, a run, or a
dispatcher that waits for a lock, 2, a compile or remove that waits 3. Whoever one waits for
has a lower rank (`WaitsGoDown`), so in any set one of the lowest rank (`LeastRank`) waits for nobody in it. That the ranks are right needs the
registry's invariant (who holds a side of `_compileMutex` or a Locker is at which `pc`), which
`RunnerUsesRegistry` carries over, and that only a thread with a script running is inside a file or wants one
(`RequiresInScript`). A nested require has the rank of its thread, 1, and waits only
for a dispatcher that already has the lock; with `WritersFirst` it would wait for one of rank 2.

### WatchdogProofs
For every set of threads and isolates, every set of limits and a clock that does not wrap:

| Theorem | States |
|---|---|
| `TypeCorrect` | `TypeOK` |
| `SlotsAreTrue` | `SlotTellsTruth` |
| `ScansMissNobody` | `ScanMissesNobody` |
| `ScansAreConsistent` | `ScanIsConsistent` |
| `OldScriptsAreSafe` | `OldScriptsAreJudgedFairly` |

The heart of it is `Victims`, about the time between the judgement of a slot and the termination, the
question whether the isolate is in use included: whoever
is in the judged isolate then is either the call that was judged, still overdue, or one that began
after the clock was read. It holds because the slot cannot be published again while the scan has
the mutex, so another script in the isolate must be a compile that came later. The same
invariant shows why `watchdog_victim` finds what it finds and nothing worse. `ScanMissesNobody` needs
it too, for the other direction: as long as the judged call is on, it holds the Locker of the isolate its slot names, so
the question finds the isolate in use and the request reaches the call. The request lasts, since only
a thread that gets that Locker, or the call itself as it ends, takes it away (`StillAsked`).

### WatchedRunnerProofs
For every set of threads, convs, nodes and scripts, every number of isolates, every set of limits and a clock that does not wrap:

| Theorem | States |
|---|---|
| `WatchedUsesRegistry` | the runner with its watchdog is the registry of `ScriptRegistry`, so every theorem of `ScriptRegistryProofs` is one of it |
| `RegistryImplementsWatchdog` | `WatchSpec`: every step is one that `Watchdog` allows |
| `WatchdogHoldsInTheRunner` | `SlotTellsTruth`, `ScanMissesNobody`, `ScanIsConsistent` and `OldScriptsAreJudgedFairly`, of the runner with the registry's real steps |
| `SlotsFollowTheRegistry` | `SlotIsThePair` |
| `DisposalCorrect` | `DisposalIsClean` |

`SeamInv` relates the two views of a thread: at which `pc` of the registry it may be at each place
the watchdog knows (`Places`), that a call keeps the function it found (`CalledStays`), and that
nobody is in a call once the runner is being destroyed (`NobodyAtTheEnd`). With it and the registry's
`LockInv`, each guard `Watchdog` has on other threads follows: an isolate is free for who gets its Locker
since those inside it hold that Locker, and a compile meets nobody in its isolate since who is in a run
shares the lock it has alone. The second theorem makes the watchdog's theorems available,
instantiated with `Inside`. `SlotsFollowTheRegistry` then combines both sides:
the slot tells the truth about the thread (the watchdog's), and the thread is in the isolate of its pair's function
(the registry's). `DisposalCorrect` needs that what `Dispose` found is not disturbed after it (`DisposedStays`).

### CNodeProofs
For every set of messages and threads, every choice of commands, limits and priorities, and every size of the queue:

| Theorem | States |
|---|---|
| `TypeCorrect` | `TypeOK`, which has `jobsLeft` in Nat |
| `EveryMessageIsInOnePlace` | `AnsweredOnce` |
| `LimitIsKept` | `LimitKept` |
| `TheEndIsClean` | `ExitIsClean` |
| `PrioritiesOnlyChangeWhenSet` | `PrioritiesStay` |
| `CompilesStay` | `AcknowledgedCompileHolds` |
| `NodeImplementsService` | `ServiceSpec` |
| `NodeUsesLedger` | `LedgerSpec` |
| `NodeUsesStore` | `StoreSpec` |

`NodeInv` says where every message is (`Held`, `Placed`), that a thread has a reply ready exactly
from the moment its command takes effect until it is sent (`Handled`), and what the end of `main`
has waited for (`Ended`). `AnsweredOnce` and `ExitIsClean` follow from it. `LimitKept` is an
invariant of its own on top, by the cardinalities of the queue and of the busy threads, and
gives the type of `jobsLeft`. `AcknowledgedCompileHolds` is made inductive by letting it begin when the
compile takes effect and not when its reply is sent: from then on its request is in the history
`effects`, and is what the pair holds as long as nothing has been appended after it (`InForce`, `CompilesHold`). For the implementation,
the outcome of a message under the mapping is its thread's reply and then the reply that was sent, and
`NodeInv` makes the thread the only one, so each step changes at most one outcome.

`NodeUsesLedger` reads a job's fate off where its message is and, once it is answered, off the
reply. That needs that a reply tells a refused job from one that ran: what a thread decides is
never SOCKET_TIMEOUT or THREAD_POOL_EXHAUSTED, which are `process`'s (`JobsInv`), so a job that
timed out in the queue counts as done and a message that came too late as no job. `NodeUsesStore`
needs that a thread is at its compile exactly when it is the one that compiles the pair (`CompileInv`), that who is
in a run was asked for one (`RunInv`), and that the command of a job does not change under it. With
`PoolImplementsLedger`, `RegistryImplementsStore` and `RunnerImplementsStore`, both sides of these two seams in the
program are proved against the same abstract specification; section 5 says what that leaves open.

### Only model-checked
Liveness: `AcceptedJobsRun`, `RunsEnd`, `WritesEnd`, `DispatcherReturns`, `EverybodyReturns` and `EveryRequestAnswered`, which TLAPS cannot prove here.
`WhoWaitsForNobodyGoesOn`, an invariant with ENABLED in it, which is out of the
prover's reach as well. And the four violations, which are counterexamples of an instance each.

## 5. What is not modelled, and the plan

Not modelled for good: the getters, the text of errors and replies, the installer,
`my_listen` (nobody calls it), the vendored libraries (ICU, gtest, moment.js and
`include/json.hpp`, which only the tests include), clocks that are set back, V8 and erl_interface beyond the assumptions above, memory orders (every atomic
and every flag is read and written in one order all threads agree on), and the
allocation of memory.

The modules were planned in the order of what matters most: the pool, which every
request goes through; the registry, whose locks keep V8 usable; the watchdog; the node that
joins them; the require cache with its composition in `Runner`; the end of `main`; then the proofs,
in the same order, and last the seams: that the node uses no more of the pool and of the
runner than these are proved to give, and that the watchdog watches the runner there is.

`CNode` over `ThreadPool` and `Runner` in one state space is too large for TLC. Instead the program is
cut at three seams. At two of them, `JobLedger` and `ScriptStore`, the lower part is proved to implement the
abstract specification (`PoolImplementsLedger`, `RunnerImplementsStore`) and the node is proved to do
with jobs and pairs only what that specification allows (`NodeUsesLedger`, `NodeUsesStore`). The third, between the
registry and the watchdog, is `WatchedRunner`, where the two are one program. What these theorems do not
say is the converse at the first two: that `CNode` allows everything the real pool or runner, put in its place, could do.
That would take a composition of `CNode` with `ThreadPool`, in which `AddJob` is the pool's two steps; it
is left open.

Seven hazards have no property, for the reasons their entries in PROJECT.json give.
