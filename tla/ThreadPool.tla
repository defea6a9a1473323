----------------------------- MODULE ThreadPool -----------------------------
(***************************************************************************)
(* The thread pool of include/threadpool.h: the threads that run process,  *)
(* the callers of addJob, and the owner that calls joinAll (directly or    *)
(* from the destructor).  A step is one access to state that another       *)
(* thread can observe; what happens under jobsMutex is split only where    *)
(* the order of its reads and writes matters.  The two condition variables *)
(* follow the C++ rules: wait tests its predicate, then gives up the mutex *)
(* and sleeps in one step, may wake for no reason, and a notification that *)
(* finds nobody asleep is lost.                                            *)
(***************************************************************************)
EXTENDS Integers, FiniteSets

CONSTANTS Workers,       \* the pool's threads
          Producers,     \* the threads that call addJob
          Jobs,          \* the calls of addJob, each with a job of its own
          Priority,      \* the priority each of those calls passes
          MaxQueueSize,  \* the constructor's _maxQueueSize
          NoJob,         \* no job at all
          Noop,          \* the empty function next_job returns after stop
          Nobody         \* jobsMutex is free

ASSUME WorkersAssumption == IsFiniteSet(Workers) /\ Nobody \notin Workers
ASSUME ProducersAssumption == IsFiniteSet(Producers) /\ Producers # {}
ASSUME JobsAssumption == IsFiniteSet(Jobs) /\ NoJob \notin Jobs
                         /\ Noop \notin Jobs /\ Noop # NoJob
ASSUME PriorityAssumption == Priority \in [Jobs -> Int]
ASSUME MaxQueueSizeAssumption == MaxQueueSize \in Nat

VARIABLES
  jobs,          \* the contents of the priority queue
  front,         \* the element at the top of its heap
  jobsMutex,     \* the thread of the pool that holds it
  jobsLeft, jobsDone, busyThreads, jobsPerThread,
  stop,
  wpc,           \* where each thread of the pool is
  res,           \* the job it holds: next_job's res, then process's job
  ppc, parg,     \* where each caller of addJob is, and its argument
  opc,           \* where the owner is in joinAll
  waitForAll,    \* joinAll's argument
  accepted,      \* history: the calls of addJob that returned true
  refused,       \* history: the calls that returned false
  executed       \* history: the jobs whose body has returned

queueVars == <<jobs, front>>
countVars == <<jobsLeft, jobsDone, busyThreads, jobsPerThread>>
workerVars == <<wpc, res>>
producerVars == <<ppc, parg, accepted, refused>>
ownerVars == <<opc, waitForAll, stop>>
vars == <<queueVars, countVars, workerVars, producerVars, ownerVars, jobsMutex, executed>>

WorkerPcs == {"loop", "lock", "check", "block", "asleep", "awake", "pop",
              "taken", "running", "ran", "left", "notify", "exited"}
OwnerPcs == {"open", "waitAll", "waitCheck", "waitBlock", "waitAsleep",
             "setStop", "notifyAll", "join", "finished"}

Init == /\ jobs = {} /\ front = NoJob
        /\ jobsMutex = Nobody
        /\ jobsLeft = 0 /\ jobsDone = 0 /\ busyThreads = 0
        /\ jobsPerThread = [w \in Workers |-> 0]
        /\ stop = FALSE
        /\ wpc = [w \in Workers |-> "loop"]
        /\ res = [w \in Workers |-> NoJob]
        /\ ppc = [p \in Producers |-> "idle"]
        /\ parg = [p \in Producers |-> NoJob]
        /\ opc = "open" /\ waitForAll = FALSE
        /\ accepted = {} /\ refused = {} /\ executed = {}

-----------------------------------------------------------------------------
\* The heap.

\* Mutant: the comparison the other way round.
LowestFirst(j, k) == Priority[k] < Priority[j]

\* QueueItemCompare: only the priorities are compared.
QueueItemCompare(j, k) == Priority[j] < Priority[k]

\* The elements a heap of S may have at its top; NoJob when S is empty.
Tops(S) == IF S = {} THEN {NoJob}
           ELSE {j \in S : \A k \in S : ~ QueueItemCompare(j, k)}

\* push_heap lifts j above the old top only if the old top compares less.
Push(j) == /\ jobs' = jobs \cup {j}
           /\ front' = IF jobs = {} \/ QueueItemCompare(front, j) THEN j ELSE front

\* pop_heap takes the top off; which of several equal elements follows it
\* depends on the layout of the heap.
Pop == /\ jobs' = jobs \ {front}
       /\ front' \in Tops(jobs')

-----------------------------------------------------------------------------
\* The threads of the pool: process and next_job.

Goto(w, from, to) == wpc[w] = from /\ wpc' = [wpc EXCEPT ![w] = to]

\* while(!this->stop)
Loop(w) == /\ Goto(w, "loop", IF stop THEN "exited" ELSE "lock")
           /\ UNCHANGED <<queueVars, countVars, res, producerVars, ownerVars, jobsMutex, executed>>

\* Mutant: next_job without its unique_lock.
EnterUnlocked(w) ==
  /\ Goto(w, "lock", "check")
  /\ jobsMutex' = w
  /\ UNCHANGED <<queueVars, countVars, res, producerVars, ownerVars, executed>>

\* The unique_lock of next_job, and the return from jobAvailableVar.wait.
LockJobs(w) == /\ Goto(w, "lock", "check")
               /\ jobsMutex = Nobody
               /\ jobsMutex' = w
               /\ UNCHANGED <<queueVars, countVars, res, producerVars, ownerVars, executed>>

\* The predicate of jobAvailableVar.wait.
TestAvailable(w) ==
  /\ Goto(w, "check", IF jobs # {} \/ stop THEN "awake" ELSE "block")
  /\ UNCHANGED <<queueVars, countVars, res, producerVars, ownerVars, jobsMutex, executed>>

\* jobAvailableVar.wait gives the mutex up and sleeps.
Sleep(w) == /\ Goto(w, "block", "asleep")
            /\ jobsMutex' = Nobody
            /\ UNCHANGED <<queueVars, countVars, res, producerVars, ownerVars, executed>>

\* jobAvailableVar.wait may return from its sleep without a notification.
SpuriousWake(w) ==
  /\ Goto(w, "asleep", "lock")
  /\ UNCHANGED <<queueVars, countVars, res, producerVars, ownerVars, jobsMutex, executed>>

\* res = this->jobs.top().second, if stop is still unset when it is read again.
Top(w) == /\ Goto(w, "awake", "pop")
          /\ ~ stop
          /\ res' = [res EXCEPT ![w] = front]
          /\ UNCHANGED <<queueVars, countVars, producerVars, ownerVars, jobsMutex, executed>>

\* this->jobs.pop(), and next_job returns.
PopJob(w) == /\ Goto(w, "pop", "taken")
             /\ Pop
             /\ jobsMutex' = Nobody
             /\ UNCHANGED <<countVars, res, producerVars, ownerVars, executed>>

\* Mutant: the empty job without jobsLeft += 1.
NoopWithoutJobsLeft(w) ==
  /\ Goto(w, "awake", "taken")
  /\ stop
  /\ res' = [res EXCEPT ![w] = Noop]
  /\ jobsDone' = jobsDone - 1
  /\ jobsMutex' = Nobody
  /\ UNCHANGED <<queueVars, jobsLeft, busyThreads, jobsPerThread, producerVars, ownerVars, executed>>

\* Mutant: the empty job without jobsDone -= 1.
NoopWithoutJobsDone(w) ==
  /\ Goto(w, "awake", "taken")
  /\ stop
  /\ res' = [res EXCEPT ![w] = Noop]
  /\ jobsLeft' = jobsLeft + 1
  /\ jobsMutex' = Nobody
  /\ UNCHANGED <<queueVars, jobsDone, busyThreads, jobsPerThread, producerVars, ownerVars, executed>>

\* After stop, next_job returns a job that does nothing and corrects the
\* counters for what process will do to them.
TakeNoop(w) ==
  /\ Goto(w, "awake", "taken")
  /\ stop
  /\ res' = [res EXCEPT ![w] = Noop]
  /\ jobsLeft' = jobsLeft + 1
  /\ jobsDone' = jobsDone - 1
  /\ jobsMutex' = Nobody
  /\ UNCHANGED <<queueVars, busyThreads, jobsPerThread, producerVars, ownerVars, executed>>

\* this->busyThreads += 1, and the job's body starts.
StartJob(w) == /\ Goto(w, "taken", "running")
               /\ busyThreads' = busyThreads + 1
               /\ UNCHANGED <<queueVars, jobsLeft, jobsDone, jobsPerThread, res, producerVars,
                              ownerVars, jobsMutex, executed>>

\* The body has returned; busyThreads and jobsPerThread, which only the
\* statistics read, are brought up to date in one step.
FinishJob(w) ==
  /\ Goto(w, "running", "ran")
  /\ busyThreads' = busyThreads - 1
  /\ jobsPerThread' = [jobsPerThread EXCEPT ![w] = @ + 1]
  /\ executed' = executed \cup ({res[w]} \ {Noop})
  /\ res' = [res EXCEPT ![w] = NoJob]
  /\ UNCHANGED <<queueVars, jobsLeft, jobsDone, producerVars, ownerVars, jobsMutex>>

\* this->jobsLeft -= 1
DecJobsLeft(w) ==
  /\ Goto(w, "ran", "left")
  /\ jobsLeft' = jobsLeft - 1
  /\ UNCHANGED <<queueVars, jobsDone, busyThreads, jobsPerThread, res, producerVars,
                 ownerVars, jobsMutex, executed>>

\* this->jobsDone += 1
IncJobsDone(w) ==
  /\ Goto(w, "left", "notify")
  /\ jobsDone' = jobsDone + 1
  /\ UNCHANGED <<queueVars, jobsLeft, busyThreads, jobsPerThread, res, producerVars,
                 ownerVars, jobsMutex, executed>>

\* waitVar.notify_one(): only the owner ever waits on waitVar.
NotifyWaiter(w) ==
  /\ Goto(w, "notify", "loop")
  /\ opc' = IF opc = "waitAsleep" THEN "waitCheck" ELSE opc
  /\ UNCHANGED <<queueVars, countVars, res, producerVars, waitForAll, stop, jobsMutex, executed>>

-----------------------------------------------------------------------------
\* The callers of addJob.

Passed == {p \in Producers : ppc[p] = "passed"}

\* Each member of Jobs stands for one call of addJob.
Fresh(j) == j \notin accepted \cup refused /\ \A p \in Passed : parg[p] # j

\* Mutant: > for >=.
PassCheckWhenFull(p, j) ==
  /\ opc = "open" /\ ppc[p] = "idle" /\ Fresh(j)
  /\ jobsLeft <= MaxQueueSize
  /\ ppc' = [ppc EXCEPT ![p] = "passed"]
  /\ parg' = [parg EXCEPT ![p] = j]
  /\ UNCHANGED <<queueVars, countVars, workerVars, accepted, refused, ownerVars, jobsMutex, executed>>

\* addJob(Priority[j], j) is called and finds room: jobsLeft is read before
\* jobsMutex is taken.
PassCheck(p, j) ==
  /\ opc = "open" /\ ppc[p] = "idle" /\ Fresh(j)
  /\ ~ (jobsLeft >= MaxQueueSize)
  /\ ppc' = [ppc EXCEPT ![p] = "passed"]
  /\ parg' = [parg EXCEPT ![p] = j]
  /\ UNCHANGED <<queueVars, countVars, workerVars, accepted, refused, ownerVars, jobsMutex, executed>>

\* addJob finds jobsLeft at the limit and returns false.
Refuse(p, j) ==
  /\ opc = "open" /\ ppc[p] = "idle" /\ Fresh(j)
  /\ jobsLeft >= MaxQueueSize
  /\ refused' = refused \cup {j}
  /\ UNCHANGED <<queueVars, countVars, workerVars, ppc, parg, accepted, ownerVars, jobsMutex, executed>>

\* The threads asleep on jobAvailableVar.
Asleep == {w \in Workers : wpc[w] = "asleep"}

\* Mutant: the notification left out.
NotifyNobody == UNCHANGED wpc

\* jobAvailableVar.notify_one(): some sleeper, if there is any, wakes.
NotifyOne == IF Asleep = {} THEN UNCHANGED wpc
             ELSE \E w \in Asleep : wpc' = [wpc EXCEPT ![w] = "lock"]

\* The rest of addJob, all of it under jobsMutex.
PushJob(p) ==
  /\ ppc[p] = "passed"
  /\ jobsMutex = Nobody
  /\ Push(parg[p])
  /\ jobsLeft' = jobsLeft + 1
  /\ NotifyOne
  /\ accepted' = accepted \cup {parg[p]}
  /\ ppc' = [ppc EXCEPT ![p] = "idle"]
  /\ parg' = [parg EXCEPT ![p] = NoJob]
  /\ UNCHANGED <<jobsDone, busyThreads, jobsPerThread, res, refused, ownerVars, jobsMutex, executed>>

-----------------------------------------------------------------------------
\* The owner: joinAll and waitAll.

OwnerGoto(from, to) == opc = from /\ opc' = to

\* Mutant: stop is set before the jobs are waited for.
JoinAllStopsFirst(b) ==
  /\ OwnerGoto("open", "setStop")
  /\ Passed = {}
  /\ waitForAll' = b
  /\ UNCHANGED <<queueVars, countVars, workerVars, producerVars, stop, jobsMutex, executed>>

\* joinAll is called once nobody adds jobs any more, which is when the tests
\* call it and when main leaves its loop and the destructor runs.
JoinAll(b) == /\ OwnerGoto("open", IF b THEN "waitAll" ELSE "setStop")
              /\ Passed = {}
              /\ waitForAll' = b
              /\ UNCHANGED <<queueVars, countVars, workerVars, producerVars, stop, jobsMutex, executed>>

\* Mutant: waitAll returns at once when one job is left.
WaitAllButOne ==
  /\ OwnerGoto("waitAll", IF jobsLeft > 1 THEN "waitCheck" ELSE "setStop")
  /\ UNCHANGED <<queueVars, countVars, workerVars, producerVars, waitForAll, stop, jobsMutex, executed>>

\* if(this->jobsLeft > 0)
WaitAll ==
  /\ OwnerGoto("waitAll", IF jobsLeft > 0 THEN "waitCheck" ELSE "setStop")
  /\ UNCHANGED <<queueVars, countVars, workerVars, producerVars, waitForAll, stop, jobsMutex, executed>>

\* The predicate of waitVar.wait; waitMutex is held, and only the owner takes it.
TestAllDone ==
  /\ OwnerGoto("waitCheck", IF jobsLeft = 0 THEN "setStop" ELSE "waitBlock")
  /\ UNCHANGED <<queueVars, countVars, workerVars, producerVars, waitForAll, stop, jobsMutex, executed>>

\* waitVar.wait sleeps, and may wake for no reason.
WaitAllSleep ==
  /\ OwnerGoto("waitBlock", "waitAsleep")
  /\ UNCHANGED <<queueVars, countVars, workerVars, producerVars, waitForAll, stop, jobsMutex, executed>>

WaitAllSpuriousWake ==
  /\ OwnerGoto("waitAsleep", "waitCheck")
  /\ UNCHANGED <<queueVars, countVars, workerVars, producerVars, waitForAll, stop, jobsMutex, executed>>

\* this->stop = true, without jobsMutex.
SetStop ==
  /\ OwnerGoto("setStop", "notifyAll")
  /\ stop' = TRUE
  /\ UNCHANGED <<queueVars, countVars, workerVars, producerVars, waitForAll, jobsMutex, executed>>

\* this->jobAvailableVar.notify_all()
NotifyAll ==
  /\ OwnerGoto("notifyAll", "join")
  /\ wpc' = [w \in Workers |-> IF w \in Asleep THEN "lock" ELSE wpc[w]]
  /\ UNCHANGED <<queueVars, countVars, res, producerVars, waitForAll, stop, jobsMutex, executed>>

\* Every thread.join() has returned, and finished is set.
Join ==
  /\ OwnerGoto("join", "finished")
  /\ \A w \in Workers : wpc[w] = "exited"
  /\ UNCHANGED <<queueVars, countVars, workerVars, producerVars, waitForAll, stop, jobsMutex, executed>>

\* The destructor calls joinAll again after an explicit joinAll: finished is
\* set and nothing happens.
JoinAgain == opc = "finished" /\ UNCHANGED vars
-----------------------------------------------------------------------------
Process(w) == \/ Loop(w) \/ TestAvailable(w) \/ Sleep(w)
              \/ Top(w) \/ PopJob(w) \/ TakeNoop(w)
              \/ StartJob(w) \/ FinishJob(w)
              \/ DecJobsLeft(w) \/ IncJobsDone(w) \/ NotifyWaiter(w)

JoinAllStep == \/ WaitAll \/ TestAllDone \/ WaitAllSleep
               \/ SetStop \/ NotifyAll \/ Join

Next == \/ \E w \in Workers : Process(w) \/ LockJobs(w) \/ SpuriousWake(w)
        \/ \E p \in Producers : \/ PushJob(p)
                                \/ \E j \in Jobs : PassCheck(p, j) \/ Refuse(p, j)
        \/ \E b \in BOOLEAN : JoinAll(b)
        \/ JoinAllStep
        \/ WaitAllSpuriousWake
        \/ JoinAgain

\* Every thread that can run is scheduled, every job returns, and no thread is
\* passed over for ever when jobsMutex keeps being released.  Nothing obliges a
\* caller to add a job or to call joinAll, nor a wait to wake without a reason.
Fairness == /\ \A w \in Workers : WF_vars(Process(w)) /\ SF_vars(LockJobs(w))
            /\ \A p \in Producers : SF_vars(PushJob(p))
            /\ WF_vars(JoinAllStep)

Spec == Init /\ [][Next]_vars
FairSpec == Spec /\ Fairness
-----------------------------------------------------------------------------
\* Where the jobs are.

\* The threads between next_job's return and the return of the job's body.
Holders == {w \in Workers : wpc[w] \in {"taken", "running"}}

\* The jobs those threads hold; the empty function is not one of them.
Held == {res[w] : w \in Holders} \ {Noop}

\* The threads that have yet to take 1 off jobsLeft, or to add 1 to jobsDone.
Counted == {w \in Workers : wpc[w] \in {"taken", "running", "ran"}}
Uncounted == {w \in Workers : \/ wpc[w] \in {"ran", "left"}
                              \/ w \in Holders /\ res[w] = Noop}

\* The threads that will look at the queue before they sleep.
Coming == {w \in Workers : wpc[w] \in {"lock", "check", "awake", "pop"}}

-----------------------------------------------------------------------------
\* Properties.

\* The types of the variables, but for the signs of the two counters that are
\* taken down.
Typing ==
  /\ jobs \subseteq Jobs
  /\ front \in Jobs \cup {NoJob}
  /\ jobsMutex \in Workers \cup {Nobody}
  /\ jobsLeft \in Int /\ jobsDone \in Int /\ busyThreads \in Int
  /\ jobsPerThread \in [Workers -> Nat]
  /\ stop \in BOOLEAN
  /\ wpc \in [Workers -> WorkerPcs]
  /\ res \in [Workers -> Jobs \cup {NoJob, Noop}]
  /\ ppc \in [Producers -> {"idle", "passed"}]
  /\ parg \in [Producers -> Jobs \cup {NoJob}]
  /\ opc \in OwnerPcs
  /\ waitForAll \in BOOLEAN
  /\ accepted \subseteq Jobs /\ refused \subseteq Jobs /\ executed \subseteq Jobs

\* Every variable has its type, and jobsLeft and busyThreads never go below 0,
\* whatever next_job and process do to them before and after stop.
TypeOK == Typing /\ jobsLeft >= 0 /\ busyThreads >= 0

\* No job is lost and none runs twice: a job addJob accepted is in the queue,
\* or held by exactly one thread, or has run, and only one of the three.  It
\* rests on jobsMutex: top and pop must see the same heap.
EachJobInOnePlace ==
  /\ accepted = jobs \cup Held \cup executed
  /\ jobs \cap Held = {} /\ jobs \cap executed = {} /\ Held \cap executed = {}
  /\ \A v, w \in Holders : v # w /\ res[v] # Noop => res[v] # res[w]

\* The three counters, which threads change at different moments and partly
\* outside any mutex, are off from the truth by exactly the threads that are
\* between two of those moments; the correction next_job applies to jobsLeft
\* and jobsDone after stop is the one process undoes.
CountersAgree ==
  /\ jobsLeft = Cardinality(jobs) + Cardinality(Counted)
  /\ jobsDone = Cardinality(executed) - Cardinality(Uncounted)
  /\ busyThreads = Cardinality({w \in Workers : wpc[w] = "running"})

\* addJob reads jobsLeft before it takes jobsMutex, so each caller but one may
\* take the pool one job over the limit, and no more than that.
QueueBound ==
  Cardinality(jobs) + Cardinality(Held) + Cardinality(Passed)
    <= MaxQueueSize + Cardinality(Producers) - 1

\* addJob's notify_one is enough: while a thread sleeps, every job in the queue
\* has a thread of its own on the way to it.
WakeupsSuffice ==
  ~ stop /\ Asleep # {} => Cardinality(jobs) <= Cardinality(Coming)

\* What tests/test.cpp reads after joinAll: getAmountOfDoneJobs is the number of
\* jobs that ran, nothing is left running, and after joinAll(true) every
\* accepted job has run.
JoinCountsAll ==
  opc = "finished" => /\ jobsDone = Cardinality(executed)
                      /\ busyThreads = 0
                      /\ waitForAll => executed = accepted /\ jobsLeft = 0

\* A job addJob accepted runs in the end, unless joinAll(false) abandons it,
\* whatever the order in which threads sleep, wake and are notified.
Abandoning == opc # "open" /\ ~ waitForAll
AcceptedJobsRun == \A j \in Jobs : j \in accepted ~> j \in executed \/ Abandoning

\* The pool implements the ledger of JobLedger: jobs start once, highest
\* priority first, are refused or accepted by what the counter says, which is
\* never too little, and joinAll closes the pool only when it may.
Fate == [j \in Jobs |-> IF j \in jobs THEN "queued"
                        ELSE IF j \in Held THEN "running"
                        ELSE IF j \in executed THEN "done"
                        ELSE IF j \in refused THEN "refused"
                        ELSE "new"]
Phase == CASE opc = "open"     -> "open"
           [] opc = "finished" -> "closed"
           [] OTHER            -> IF waitForAll THEN "draining" ELSE "abandoning"

Ledger == INSTANCE JobLedger WITH Callers <- Cardinality(Producers), priority <- Priority,
            fate <- Fate, left <- jobsLeft, phase <- Phase
LedgerSpec == Ledger!LedgerSpec

-----------------------------------------------------------------------------
\* What the tests of the repository expect and the code does not do.

\* tests/test.cpp counts the done jobs after joinAll(), which therefore has to
\* return: first waitAll does, ...
WaitAllReturns == opc = "waitAll" ~> opc = "setStop"

\* ... and then, once stop is set, every thread is joined.
ThreadsAreJoined == stop ~> opc = "finished"
=============================================================================
