-------------------------- MODULE ThreadPoolProofs --------------------------
(***************************************************************************)
(* What is proved of ThreadPool, for any number of threads, callers, jobs  *)
(* and any limit.  The invariants come in layers, each of them inductive   *)
(* under the ones before it: where the threads are and what they hold      *)
(* (ControlInv), where the jobs are (EachJobInOnePlace), what the counters *)
(* say (CountersAgree), and then the wake-ups, the limit, joinAll and the  *)
(* ledger the pool implements.                                             *)
(***************************************************************************)
EXTENDS ThreadPool, FiniteSetTheorems, TLAPS

-----------------------------------------------------------------------------
\* The heap: what push leaves at the top is a job no other job comes before.

\* push leaves one of the most urgent jobs on top.
LEMMA PushedTop ==
  ASSUME NEW S \in SUBSET Jobs, NEW t \in Tops(S), NEW j \in Jobs
  PROVE  (IF S = {} \/ QueueItemCompare(t, j) THEN j ELSE t) \in Tops(S \cup {j})
  <1>1. \A k \in S \cup {j} : Priority[k] \in Int
    BY PriorityAssumption
  <1>2. CASE S = {}
    BY <1>1, <1>2 DEF Tops, QueueItemCompare
  <1>3. CASE S # {}
    <2>1. t \in S /\ \A k \in S : ~ (Priority[t] < Priority[k])
      BY <1>3 DEF Tops, QueueItemCompare
    <2>2. CASE Priority[t] < Priority[j]
      BY <1>1, <1>3, <2>1, <2>2 DEF Tops, QueueItemCompare
    <2>3. CASE ~ (Priority[t] < Priority[j])
      BY <1>1, <1>3, <2>1, <2>3 DEF Tops, QueueItemCompare
    <2>. QED
      BY <2>2, <2>3
  <1>. QED
    BY <1>2, <1>3

-----------------------------------------------------------------------------
\* Layer 1: control.

\* jobsMutex protects the four places between its lock and its release.
MutexHeld ==
  \A w \in Workers : wpc[w] \in {"check", "block", "awake", "pop"} <=> jobsMutex = w

\* What a thread knows at each place: the queue it saw cannot change before it
\* lets go of jobsMutex, and only after stop does it hold the empty job.
WorkerKnows ==
  \A w \in Workers :
    /\ wpc[w] = "block" => jobs = {}
    /\ wpc[w] = "awake" => jobs # {} \/ stop
    /\ wpc[w] = "pop" => jobs # {} /\ res[w] = front
    /\ w \in Holders => res[w] \in Jobs \cup {Noop} /\ (res[w] = Noop => stop)
    /\ wpc[w] = "exited" => stop

\* joinAll is called when no addJob is under way, and sets stop.
OwnerKnows ==
  /\ opc # "open" => Passed = {}
  /\ stop <=> opc \in {"notifyAll", "join", "finished"}
  /\ opc = "finished" => \A w \in Workers : wpc[w] = "exited"

ControlInv == /\ Typing
              /\ front \in Tops(jobs)
              /\ MutexHeld
              /\ WorkerKnows
              /\ OwnerKnows
              /\ \A p \in Passed : parg[p] \in Jobs

\* notify_one wakes one sleeper at most and moves nobody else.
LEMMA NotifyOneWakes ==
  ASSUME wpc \in [Workers -> WorkerPcs], NotifyOne
  PROVE  /\ wpc' \in [Workers -> WorkerPcs]
         /\ \A v \in Workers : wpc'[v] = wpc[v] \/ (wpc[v] = "asleep" /\ wpc'[v] = "lock")
  <1>1. CASE UNCHANGED wpc
    BY <1>1
  <1>2. ASSUME NEW w \in Workers, wpc[w] = "asleep", wpc' = [wpc EXCEPT ![w] = "lock"]
        PROVE  /\ wpc' \in [Workers -> WorkerPcs]
               /\ \A v \in Workers : wpc'[v] = wpc[v] \/ (wpc[v] = "asleep" /\ wpc'[v] = "lock")
    BY <1>2 DEF WorkerPcs
  <1>. QED
    BY <1>1, <1>2 DEF NotifyOne, Asleep

\* The mutex is free and every thread is at its start.
LEMMA ControlInit == Init => ControlInv
  <1> SUFFICES ASSUME Init PROVE ControlInv
    OBVIOUS
  <1> USE DEF Init
  <1>1. Typing
    <2>1. wpc \in [Workers -> WorkerPcs] /\ res \in [Workers -> Jobs \cup {NoJob, Noop}]
      BY DEF WorkerPcs
    <2>2. opc \in OwnerPcs /\ jobsPerThread \in [Workers -> Nat]
      BY DEF OwnerPcs
    <2>3. stop \in BOOLEAN /\ waitForAll \in BOOLEAN
      OBVIOUS
    <2>4. ppc \in [Producers -> {"idle", "passed"}] /\ parg \in [Producers -> Jobs \cup {NoJob}]
      OBVIOUS
    <2>. QED
      BY <2>1, <2>2, <2>3, <2>4 DEF Typing
  <1>2. front \in Tops(jobs)
    BY DEF Tops
  <1>3. MutexHeld
    BY WorkersAssumption DEF MutexHeld
  <1>4. WorkerKnows
    BY DEF WorkerKnows, Holders
  <1>5. OwnerKnows
    BY DEF OwnerKnows, Passed
  <1>6. \A p \in Passed : parg[p] \in Jobs
    BY DEF Passed
  <1>. QED
    BY <1>1, <1>2, <1>3, <1>4, <1>5, <1>6 DEF ControlInv

\* Every step keeps the types of the control part and the owner of the mutex.
LEMMA ControlStep == ControlInv /\ [Next]_vars => ControlInv'
  <1> SUFFICES ASSUME ControlInv, [Next]_vars PROVE ControlInv'
    OBVIOUS
  <1> USE WorkersAssumption, JobsAssumption
  <1> USE DEF ControlInv, Typing, MutexHeld, WorkerKnows, OwnerKnows, Passed, Holders,
              WorkerPcs, OwnerPcs, queueVars, countVars, workerVars, producerVars, ownerVars
  <1>1. ASSUME NEW w \in Workers, Loop(w) PROVE ControlInv'
    BY <1>1 DEF Loop, Goto
  <1>2. ASSUME NEW w \in Workers, LockJobs(w) PROVE ControlInv'
    BY <1>2 DEF LockJobs, Goto
  <1>3. ASSUME NEW w \in Workers, TestAvailable(w) PROVE ControlInv'
    BY <1>3 DEF TestAvailable, Goto
  <1>4. ASSUME NEW w \in Workers, Sleep(w) PROVE ControlInv'
    BY <1>4 DEF Sleep, Goto
  <1>5. ASSUME NEW w \in Workers, SpuriousWake(w) PROVE ControlInv'
    BY <1>5 DEF SpuriousWake, Goto
  <1>6. ASSUME NEW w \in Workers, Top(w) PROVE ControlInv'
    BY <1>6 DEF Top, Goto, Tops
  <1>7. ASSUME NEW w \in Workers, PopJob(w) PROVE ControlInv'
    BY <1>7 DEF PopJob, Pop, Goto, Tops
  <1>8. ASSUME NEW w \in Workers, TakeNoop(w) PROVE ControlInv'
    BY <1>8 DEF TakeNoop, Goto
  <1>9. ASSUME NEW w \in Workers, StartJob(w) PROVE ControlInv'
    BY <1>9 DEF StartJob, Goto
  <1>10. ASSUME NEW w \in Workers, FinishJob(w) PROVE ControlInv'
    BY <1>10 DEF FinishJob, Goto
  <1>11. ASSUME NEW w \in Workers, DecJobsLeft(w) PROVE ControlInv'
    BY <1>11 DEF DecJobsLeft, Goto
  <1>12. ASSUME NEW w \in Workers, IncJobsDone(w) PROVE ControlInv'
    BY <1>12 DEF IncJobsDone, Goto
  <1>13. ASSUME NEW w \in Workers, NotifyWaiter(w) PROVE ControlInv'
    BY <1>13 DEF NotifyWaiter, Goto
  <1>14. ASSUME NEW p \in Producers, PushJob(p) PROVE ControlInv'
    <2>0. NotifyOne /\ wpc \in [Workers -> WorkerPcs]
      BY <1>14 DEF PushJob
    <2>1. \A v \in Workers : wpc'[v] = wpc[v] \/ (wpc[v] = "asleep" /\ wpc'[v] = "lock")
      BY <2>0, NotifyOneWakes
    <2>2. wpc' \in [Workers -> WorkerPcs]
      BY <2>0, NotifyOneWakes
    <2>3. parg[p] \in Jobs
      BY <1>14 DEF PushJob
    <2>4. Typing'
      BY <1>14, <2>2, <2>3 DEF PushJob, Push
    <2>5. front' \in Tops(jobs')
      <3>1. /\ jobs' = jobs \cup {parg[p]}
            /\ front' = IF jobs = {} \/ QueueItemCompare(front, parg[p]) THEN parg[p] ELSE front
        BY <1>14 DEF PushJob, Push
      <3>2. jobs \in SUBSET Jobs /\ front \in Tops(jobs)
        OBVIOUS
      <3>3. front' \in Tops(jobs \cup {parg[p]})
        BY <2>3, <3>1, <3>2, PushedTop
      <3>. QED
        BY <3>1, <3>3
    <2>6. MutexHeld'
      BY <1>14, <2>1 DEF PushJob
    <2>7. WorkerKnows'
      BY <1>14, <2>1 DEF PushJob
    <2>8. OwnerKnows'
      BY <1>14, <2>1 DEF PushJob
    <2>9. \A q \in Passed' : parg'[q] \in Jobs
      BY <1>14 DEF PushJob
    <2>. QED
      BY <2>4, <2>5, <2>6, <2>7, <2>8, <2>9
  <1>15. ASSUME NEW p \in Producers, NEW j \in Jobs, PassCheck(p, j) PROVE ControlInv'
    BY <1>15 DEF PassCheck
  <1>16. ASSUME NEW p \in Producers, NEW j \in Jobs, Refuse(p, j) PROVE ControlInv'
    BY <1>16 DEF Refuse
  <1>17. ASSUME NEW b \in BOOLEAN, JoinAll(b) PROVE ControlInv'
    BY <1>17 DEF JoinAll, OwnerGoto
  <1>18. CASE WaitAll \/ TestAllDone \/ WaitAllSleep \/ WaitAllSpuriousWake
    BY <1>18 DEF WaitAll, TestAllDone, WaitAllSleep, WaitAllSpuriousWake, OwnerGoto
  <1>19. CASE SetStop \/ Join
    BY <1>19 DEF SetStop, Join, OwnerGoto
  <1>20. CASE NotifyAll
    BY <1>20 DEF NotifyAll, Asleep, OwnerGoto
  <1>21. CASE JoinAgain \/ UNCHANGED vars
    BY <1>21 DEF JoinAgain, vars
  <1>. QED
    BY <1>1, <1>2, <1>3, <1>4, <1>5, <1>6, <1>7, <1>8, <1>9, <1>10, <1>11, <1>12, <1>13,
       <1>14, <1>15, <1>16, <1>17, <1>18, <1>19, <1>20, <1>21
       DEF Next, Process, JoinAllStep

\* Where every thread is, what it knows there and the types of the variables.
THEOREM ControlCorrect == Spec => []ControlInv
  BY ControlInit, ControlStep, PTL DEF Spec

-----------------------------------------------------------------------------
\* Layer 2: where the jobs are.

\* The callers past the check hold different jobs, none of them added yet.
ArgumentsFresh ==
  /\ \A p \in Passed : parg[p] \notin accepted \cup refused
  /\ \A p, q \in Passed : p # q => parg[p] # parg[q]

PlacesInv == EachJobInOnePlace /\ ArgumentsFresh

\* At first no job is anywhere.
LEMMA PlacesInit == Init => PlacesInv
  BY DEF Init, PlacesInv, EachJobInOnePlace, ArgumentsFresh, Held, Holders, Passed

\* Every step keeps each job in one place.
LEMMA PlacesStep == ControlInv /\ PlacesInv /\ [Next]_vars => PlacesInv'
  <1> SUFFICES ASSUME ControlInv, PlacesInv, [Next]_vars PROVE PlacesInv'
    OBVIOUS
  <1> USE JobsAssumption
  <1> USE DEF queueVars, countVars, workerVars, producerVars, ownerVars
  <1>1. ASSUME NEW w \in Workers, PopJob(w) PROVE PlacesInv'
    <2>1. /\ res[w] = front /\ front \in jobs /\ front \in Jobs
          /\ w \notin Holders
      BY <1>1 DEF ControlInv, WorkerKnows, Typing, Tops, PopJob, Goto, Holders
    <2>2. Holders' = Holders \cup {w} /\ res' = res
      BY <1>1 DEF PopJob, Goto, Holders, ControlInv, Typing
    <2>3. Held' = Held \cup {front}
      BY <2>1, <2>2 DEF Held
    <2>4. jobs' = jobs \ {front} /\ UNCHANGED <<executed, accepted, refused, ppc, parg>>
      BY <1>1 DEF PopJob, Pop
    <2>5. \A v \in Holders : res[v] # front
      BY <2>1 DEF PlacesInv, EachJobInOnePlace, Held
    <2>6. EachJobInOnePlace'
      BY <2>1, <2>2, <2>3, <2>4, <2>5 DEF PlacesInv, EachJobInOnePlace
    <2>7. ArgumentsFresh'
      BY <2>4 DEF PlacesInv, ArgumentsFresh, Passed
    <2>. QED
      BY <2>6, <2>7 DEF PlacesInv
  <1>2. ASSUME NEW w \in Workers, TakeNoop(w) PROVE PlacesInv'
    <2>1. /\ Holders' = Holders \cup {w} /\ w \notin Holders
          /\ res' = [res EXCEPT ![w] = Noop]
          /\ res \in [Workers -> Jobs \cup {NoJob, Noop}]
      BY <1>2 DEF TakeNoop, Goto, Holders, ControlInv, Typing
    <2>2. Held' = Held
      BY <2>1 DEF Held, Holders
    <2>3. UNCHANGED <<jobs, executed, accepted, refused, ppc, parg>>
      BY <1>2 DEF TakeNoop
    <2>4. \A v \in Holders : res'[v] = res[v]
      BY <2>1 DEF Holders
    <2>5. res'[w] = Noop
      BY <2>1
    <2>6. EachJobInOnePlace'
      BY <2>1, <2>2, <2>3, <2>4, <2>5 DEF PlacesInv, EachJobInOnePlace
    <2>7. ArgumentsFresh'
      BY <2>3 DEF PlacesInv, ArgumentsFresh, Passed
    <2>. QED
      BY <2>6, <2>7 DEF PlacesInv
  <1>3. ASSUME NEW w \in Workers, FinishJob(w) PROVE PlacesInv'
    <2>1. /\ Holders' = Holders \ {w} /\ w \in Holders
          /\ \A v \in Holders' : res'[v] = res[v]
      BY <1>3 DEF FinishJob, Goto, Holders, ControlInv, Typing
    <2>2. Held' = Held \ {res[w]}
      BY <2>1 DEF Held, PlacesInv, EachJobInOnePlace
    <2>3. /\ executed' = executed \cup ({res[w]} \ {Noop})
          /\ UNCHANGED <<jobs, accepted, refused, ppc, parg>>
      BY <1>3 DEF FinishJob
    <2>4. res[w] # Noop => res[w] \in Held
      BY <2>1 DEF Held
    <2>5. Noop \notin Held
      BY DEF Held
    <2>6. EachJobInOnePlace'
      BY <2>1, <2>2, <2>3, <2>4, <2>5 DEF PlacesInv, EachJobInOnePlace
    <2>7. ArgumentsFresh'
      BY <2>3 DEF PlacesInv, ArgumentsFresh, Passed
    <2>. QED
      BY <2>6, <2>7 DEF PlacesInv
  <1>4. ASSUME NEW p \in Producers, PushJob(p) PROVE PlacesInv'
    <2>1. /\ p \in Passed /\ Passed' = Passed \ {p}
          /\ \A q \in Passed' : parg'[q] = parg[q]
          /\ parg[p] \notin accepted \cup refused
      BY <1>4 DEF PushJob, Passed, PlacesInv, ArgumentsFresh, ControlInv, Typing
    <2>2. Holders' = Holders
      BY <1>4, NotifyOneWakes DEF PushJob, Holders, ControlInv, Typing
    <2>3. /\ jobs' = jobs \cup {parg[p]} /\ accepted' = accepted \cup {parg[p]}
          /\ UNCHANGED <<res, executed, refused>>
      BY <1>4 DEF PushJob, Push
    <2>4. Held' = Held
      BY <2>2, <2>3 DEF Held
    <2>5. EachJobInOnePlace'
      BY <2>1, <2>2, <2>3, <2>4 DEF PlacesInv, EachJobInOnePlace
    <2>6. ArgumentsFresh'
      BY <2>1, <2>3 DEF PlacesInv, ArgumentsFresh
    <2>. QED
      BY <2>5, <2>6 DEF PlacesInv
  <1>5. ASSUME NEW p \in Producers, NEW j \in Jobs, PassCheck(p, j) PROVE PlacesInv'
    <2>1. /\ Passed' = Passed \cup {p} /\ parg' = [parg EXCEPT ![p] = j]
          /\ p \notin Passed /\ Fresh(j)
          /\ UNCHANGED <<jobs, wpc, res, executed, accepted, refused>>
      BY <1>5 DEF PassCheck, Passed, ControlInv, Typing
    <2>2. EachJobInOnePlace'
      BY <2>1 DEF PlacesInv, EachJobInOnePlace, Held, Holders
    <2>3. \A q \in Passed : parg'[q] = parg[q] /\ parg[q] # j
      BY <2>1 DEF Fresh, Passed, ControlInv, Typing
    <2>4. parg'[p] = j
      BY <2>1 DEF ControlInv, Typing
    <2>5. ArgumentsFresh'
      BY <2>1, <2>3, <2>4 DEF PlacesInv, ArgumentsFresh, Fresh
    <2>. QED
      BY <2>2, <2>5 DEF PlacesInv
  <1>6. ASSUME NEW p \in Producers, NEW j \in Jobs, Refuse(p, j) PROVE PlacesInv'
    BY <1>6 DEF Refuse, Fresh, PlacesInv, EachJobInOnePlace, ArgumentsFresh, Held, Holders, Passed
  <1>7. ASSUME UNCHANGED <<jobs, executed, accepted, refused, ppc, parg>>,
               Holders' = Holders, \A v \in Holders : res'[v] = res[v]
        PROVE  PlacesInv'
    <2>1. Held' = Held
      BY <1>7 DEF Held
    <2>. QED
      BY <1>7, <2>1 DEF PlacesInv, EachJobInOnePlace, ArgumentsFresh, Passed
  <1>8. ASSUME NEW w \in Workers,
               \/ Loop(w) \/ LockJobs(w) \/ TestAvailable(w) \/ Sleep(w) \/ SpuriousWake(w)
               \/ StartJob(w) \/ DecJobsLeft(w) \/ IncJobsDone(w) \/ NotifyWaiter(w)
        PROVE  PlacesInv'
    <2>1. Holders' = Holders /\ res' = res
      BY <1>8 DEF ControlInv, Typing, Holders, Goto, Loop, LockJobs, TestAvailable, Sleep,
                  SpuriousWake, StartJob, DecJobsLeft, IncJobsDone, NotifyWaiter
    <2>2. UNCHANGED <<jobs, executed, accepted, refused, ppc, parg>>
      BY <1>8 DEF Loop, LockJobs, TestAvailable, Sleep,
                  SpuriousWake, StartJob, DecJobsLeft, IncJobsDone, NotifyWaiter
    <2>. QED
      BY <1>7, <2>1, <2>2
  <1>9. ASSUME NEW w \in Workers, Top(w) PROVE PlacesInv'
    <2>1. Holders' = Holders /\ \A v \in Holders : res'[v] = res[v]
      BY <1>9 DEF ControlInv, Typing, Holders, Goto, Top
    <2>. QED
      BY <1>7, <1>9, <2>1 DEF Top
  <1>10. ASSUME NEW b \in BOOLEAN, JoinAll(b) PROVE PlacesInv'
    BY <1>7, <1>10 DEF JoinAll, Holders
  <1>11. CASE \/ WaitAll \/ TestAllDone \/ WaitAllSleep \/ WaitAllSpuriousWake
              \/ SetStop \/ Join \/ JoinAgain \/ UNCHANGED vars
    BY <1>7, <1>11 DEF WaitAll, TestAllDone, WaitAllSleep, WaitAllSpuriousWake, SetStop, Join,
                       JoinAgain, vars, Holders
  <1>12. CASE NotifyAll
    <2>1. Holders' = Holders
      BY <1>12 DEF NotifyAll, Asleep, Holders, ControlInv, Typing
    <2>. QED
      BY <1>7, <1>12, <2>1 DEF NotifyAll
  <1>. QED
    BY <1>1, <1>2, <1>3, <1>4, <1>5, <1>6, <1>8, <1>9, <1>10, <1>11, <1>12
       DEF Next, Process, JoinAllStep

\* No job is lost, none runs twice.
THEOREM JobsAreNeitherLostNorRepeated == Spec => []EachJobInOnePlace
  <1>1. Spec => []PlacesInv
    BY ControlCorrect, PlacesInit, PlacesStep, PTL DEF Spec
  <1>. QED
    BY <1>1, PTL DEF PlacesInv

-----------------------------------------------------------------------------
\* Layer 3: the counters.

Running == {w \in Workers : wpc[w] = "running"}

\* Any set of threads of the pool can be counted.
LEMMA FiniteThreads ==
  \A S : S \subseteq Workers => IsFiniteSet(S) /\ Cardinality(S) \in Nat
  BY WorkersAssumption, FS_Subset, FS_CardinalityType

\* Any set of jobs can be counted.
LEMMA FiniteJobs ==
  \A S : S \subseteq Jobs => IsFiniteSet(S) /\ Cardinality(S) \in Nat
  BY JobsAssumption, FS_Subset, FS_CardinalityType

\* At first the counters are right.
LEMMA CountersInit == Init => CountersAgree
  <1> SUFFICES ASSUME Init PROVE CountersAgree
    OBVIOUS
  <1>1. Counted = {} /\ Uncounted = {} /\ {w \in Workers : wpc[w] = "running"} = {}
    BY DEF Init, Counted, Uncounted, Holders
  <1>. QED
    BY <1>1, FS_EmptySet DEF Init, CountersAgree

\* How the counters and the sets they count move in a step.
LEMMA CountersMove ==
  ASSUME CountersAgree,
         UNCHANGED <<jobsLeft, jobsDone, busyThreads>>,
         UNCHANGED <<jobs, executed>>,
         Counted' = Counted, Uncounted' = Uncounted, Running' = Running
  PROVE  CountersAgree'
  BY DEF CountersAgree, Running

\* Every step that moves a thread between two updates is met by the counters.
LEMMA CountersStep ==
  ControlInv /\ PlacesInv /\ CountersAgree /\ [Next]_vars => CountersAgree'
  <1> SUFFICES ASSUME ControlInv, PlacesInv, CountersAgree, [Next]_vars PROVE CountersAgree'
    OBVIOUS
  <1> USE DEF queueVars, countVars, workerVars, producerVars, ownerVars
  <1>t. /\ wpc \in [Workers -> WorkerPcs] /\ res \in [Workers -> Jobs \cup {NoJob, Noop}]
        /\ jobsLeft \in Int /\ jobsDone \in Int /\ busyThreads \in Int
    BY DEF ControlInv, Typing
  <1>f. /\ IsFiniteSet(Counted) /\ IsFiniteSet(Uncounted) /\ IsFiniteSet(Running)
        /\ IsFiniteSet(jobs) /\ IsFiniteSet(executed)
    BY FiniteThreads, FiniteJobs DEF Counted, Uncounted, Running, ControlInv, Typing
  <1>n. /\ Cardinality(Counted) \in Nat /\ Cardinality(Uncounted) \in Nat
        /\ Cardinality(Running) \in Nat
        /\ Cardinality(jobs) \in Nat /\ Cardinality(executed) \in Nat
    BY <1>f, FS_CardinalityType
  <1>c. /\ jobsLeft = Cardinality(jobs) + Cardinality(Counted)
        /\ jobsDone = Cardinality(executed) - Cardinality(Uncounted)
        /\ busyThreads = Cardinality(Running)
    BY DEF CountersAgree, Running
  <1>g. ASSUME /\ jobsLeft' = Cardinality(jobs') + Cardinality(Counted')
               /\ jobsDone' = Cardinality(executed') - Cardinality(Uncounted')
               /\ busyThreads' = Cardinality(Running')
        PROVE  CountersAgree'
    BY <1>g DEF CountersAgree, Running
  <1>1. ASSUME NEW w \in Workers, PopJob(w) PROVE CountersAgree'
    <2>1. /\ res[w] = front /\ front \in jobs /\ front # Noop
          /\ jobs' = jobs \ {front}
          /\ UNCHANGED <<jobsLeft, jobsDone, busyThreads, executed>>
      BY <1>1, JobsAssumption DEF ControlInv, WorkerKnows, Typing, Tops, PopJob, Pop, Goto
    <2>2. Counted' = Counted \cup {w} /\ w \notin Counted
      BY <1>1, <1>t DEF PopJob, Goto, Counted
    <2>3. Uncounted' = Uncounted /\ Running' = Running
      BY <1>1, <1>t, <2>1 DEF PopJob, Goto, Uncounted, Holders, Running
    <2>4. Cardinality(Counted') = Cardinality(Counted) + 1
      BY <1>f, <2>2, FS_AddElement
    <2>5. Cardinality(jobs') = Cardinality(jobs) - 1
      BY <1>f, <2>1, FS_RemoveElement
    <2>. QED
      BY <1>c, <1>n, <1>g, <2>1, <2>3, <2>4, <2>5
  <1>2. ASSUME NEW w \in Workers, TakeNoop(w) PROVE CountersAgree'
    <2>1. /\ jobsLeft' = jobsLeft + 1 /\ jobsDone' = jobsDone - 1
          /\ UNCHANGED <<jobs, busyThreads, executed>>
      BY <1>2 DEF TakeNoop
    <2>2. Counted' = Counted \cup {w} /\ w \notin Counted
      BY <1>2, <1>t DEF TakeNoop, Goto, Counted
    <2>3. Uncounted' = Uncounted \cup {w} /\ w \notin Uncounted /\ Running' = Running
      BY <1>2, <1>t DEF TakeNoop, Goto, Uncounted, Holders, Running
    <2>4. Cardinality(Counted') = Cardinality(Counted) + 1
      BY <1>f, <2>2, FS_AddElement
    <2>5. Cardinality(Uncounted') = Cardinality(Uncounted) + 1
      BY <1>f, <2>3, FS_AddElement
    <2>. QED
      BY <1>c, <1>n, <1>g, <2>1, <2>3, <2>4, <2>5
  <1>3. ASSUME NEW w \in Workers, StartJob(w) PROVE CountersAgree'
    <2>1. /\ busyThreads' = busyThreads + 1
          /\ UNCHANGED <<jobsLeft, jobsDone, jobs, executed>>
      BY <1>3 DEF StartJob
    <2>2. Counted' = Counted /\ Uncounted' = Uncounted
      BY <1>3, <1>t DEF StartJob, Goto, Counted, Uncounted, Holders
    <2>3. Running' = Running \cup {w} /\ w \notin Running
      BY <1>3, <1>t DEF StartJob, Goto, Running
    <2>4. Cardinality(Running') = Cardinality(Running) + 1
      BY <1>f, <2>3, FS_AddElement
    <2>. QED
      BY <1>c, <1>n, <1>g, <2>1, <2>2, <2>4
  <1>4. ASSUME NEW w \in Workers, FinishJob(w) PROVE CountersAgree'
    <2>1. /\ busyThreads' = busyThreads - 1
          /\ executed' = executed \cup ({res[w]} \ {Noop})
          /\ UNCHANGED <<jobsLeft, jobsDone, jobs>>
          /\ w \in Holders
      BY <1>4 DEF FinishJob, Goto, Holders
    <2>2. Counted' = Counted
      BY <1>4, <1>t DEF FinishJob, Goto, Counted
    <2>3. Running' = Running \ {w} /\ w \in Running
      BY <1>4, <1>t DEF FinishJob, Goto, Running
    <2>4. Cardinality(Running') = Cardinality(Running) - 1
      BY <1>f, <2>3, FS_RemoveElement
    <2>5. Cardinality(executed') - Cardinality(Uncounted')
            = Cardinality(executed) - Cardinality(Uncounted)
      <3>1. CASE res[w] = Noop
        <4>1. Uncounted' = Uncounted
          BY <1>4, <1>t, <3>1 DEF FinishJob, Goto, Uncounted, Holders
        <4>2. executed' = executed
          BY <2>1, <3>1
        <4>. QED
          BY <4>1, <4>2
      <3>2. CASE res[w] # Noop
        <4>1. Uncounted' = Uncounted \cup {w} /\ w \notin Uncounted
          BY <1>4, <1>t, <3>2 DEF FinishJob, Goto, Uncounted, Holders
        <4>2. executed' = executed \cup {res[w]} /\ res[w] \notin executed
          BY <2>1, <3>2 DEF PlacesInv, EachJobInOnePlace, Held
        <4>3. Cardinality(Uncounted') = Cardinality(Uncounted) + 1
          BY <1>f, <4>1, FS_AddElement
        <4>4. Cardinality(executed') = Cardinality(executed) + 1
          BY <1>f, <4>2, FS_AddElement
        <4>. QED
          BY <1>n, <4>3, <4>4
      <3>. QED
        BY <3>1, <3>2
    <2>. QED
      BY <1>c, <1>n, <1>g, <2>1, <2>2, <2>4, <2>5
  <1>5. ASSUME NEW w \in Workers, DecJobsLeft(w) PROVE CountersAgree'
    <2>1. /\ jobsLeft' = jobsLeft - 1
          /\ UNCHANGED <<jobsDone, busyThreads, jobs, executed>>
      BY <1>5 DEF DecJobsLeft
    <2>2. Counted' = Counted \ {w} /\ w \in Counted
      BY <1>5, <1>t DEF DecJobsLeft, Goto, Counted
    <2>3. Uncounted' = Uncounted /\ Running' = Running
      BY <1>5, <1>t DEF DecJobsLeft, Goto, Uncounted, Holders, Running
    <2>4. Cardinality(Counted') = Cardinality(Counted) - 1
      BY <1>f, <2>2, FS_RemoveElement
    <2>. QED
      BY <1>c, <1>n, <1>g, <2>1, <2>3, <2>4
  <1>6. ASSUME NEW w \in Workers, IncJobsDone(w) PROVE CountersAgree'
    <2>1. /\ jobsDone' = jobsDone + 1
          /\ UNCHANGED <<jobsLeft, busyThreads, jobs, executed>>
      BY <1>6 DEF IncJobsDone
    <2>2. Uncounted' = Uncounted \ {w} /\ w \in Uncounted
      BY <1>6, <1>t DEF IncJobsDone, Goto, Uncounted, Holders
    <2>3. Counted' = Counted /\ Running' = Running
      BY <1>6, <1>t DEF IncJobsDone, Goto, Counted, Running
    <2>4. Cardinality(Uncounted') = Cardinality(Uncounted) - 1
      BY <1>f, <2>2, FS_RemoveElement
    <2>. QED
      BY <1>c, <1>n, <1>g, <2>1, <2>3, <2>4
  <1>7. ASSUME NEW p \in Producers, PushJob(p) PROVE CountersAgree'
    <2>1. p \in Passed /\ parg[p] \notin jobs
      BY <1>7 DEF PushJob, Passed, PlacesInv, EachJobInOnePlace, ArgumentsFresh
    <2>2. /\ jobs' = jobs \cup {parg[p]} /\ jobsLeft' = jobsLeft + 1
          /\ UNCHANGED <<jobsDone, busyThreads, res, executed>>
      BY <1>7 DEF PushJob, Push
    <2>3. \A v \in Workers : wpc'[v] = wpc[v] \/ (wpc[v] = "asleep" /\ wpc'[v] = "lock")
      BY <1>7, <1>t, NotifyOneWakes DEF PushJob
    <2>4. Counted' = Counted /\ Uncounted' = Uncounted /\ Running' = Running
      BY <2>2, <2>3 DEF Counted, Uncounted, Holders, Running
    <2>5. Cardinality(jobs') = Cardinality(jobs) + 1
      BY <1>f, <2>1, <2>2, FS_AddElement
    <2>. QED
      BY <1>c, <1>n, <1>g, <2>2, <2>4, <2>5
  <1>8. ASSUME NEW w \in Workers,
               \/ Loop(w) \/ LockJobs(w) \/ TestAvailable(w) \/ Sleep(w)
               \/ SpuriousWake(w) \/ NotifyWaiter(w) \/ Top(w)
        PROVE  CountersAgree'
    <2>1. UNCHANGED <<jobsLeft, jobsDone, busyThreads, jobs, executed>>
      BY <1>8 DEF Loop, LockJobs, TestAvailable, Sleep, SpuriousWake, NotifyWaiter, Top
    <2>2. /\ \A v \in Workers \ {w} : wpc'[v] = wpc[v] /\ res'[v] = res[v]
          /\ wpc[w] \in {"loop", "lock", "check", "block", "asleep", "notify", "awake"}
          /\ wpc'[w] \in {"loop", "lock", "check", "block", "asleep", "awake", "pop", "exited"}
      BY <1>8, <1>t DEF Goto, Loop, LockJobs, TestAvailable, Sleep, SpuriousWake,
                        NotifyWaiter, Top
    <2>3. Counted' = Counted /\ Running' = Running
      BY <2>2 DEF Counted, Running
    <2>4. Uncounted' = Uncounted
      BY <2>2 DEF Uncounted, Holders
    <2>. QED
      BY <2>1, <2>3, <2>4, CountersMove
  <1>9. ASSUME UNCHANGED <<jobsLeft, jobsDone, busyThreads, jobs, executed, wpc, res>>
        PROVE  CountersAgree'
    BY <1>9, CountersMove DEF Counted, Uncounted, Holders, Running
  <1>10. ASSUME NEW p \in Producers, NEW j \in Jobs, PassCheck(p, j) \/ Refuse(p, j)
         PROVE  CountersAgree'
    BY <1>9, <1>10 DEF PassCheck, Refuse
  <1>11. ASSUME NEW b \in BOOLEAN, JoinAll(b) PROVE CountersAgree'
    BY <1>9, <1>11 DEF JoinAll
  <1>12. CASE \/ WaitAll \/ TestAllDone \/ WaitAllSleep \/ WaitAllSpuriousWake
              \/ SetStop \/ Join \/ JoinAgain \/ UNCHANGED vars
    BY <1>9, <1>12 DEF WaitAll, TestAllDone, WaitAllSleep, WaitAllSpuriousWake, SetStop, Join,
                       JoinAgain, vars
  <1>13. CASE NotifyAll
    <2>1. /\ UNCHANGED <<jobsLeft, jobsDone, busyThreads, jobs, executed, res>>
          /\ \A v \in Workers : wpc'[v] = wpc[v] \/ (wpc[v] = "asleep" /\ wpc'[v] = "lock")
      BY <1>13 DEF NotifyAll, Asleep
    <2>2. Counted' = Counted /\ Uncounted' = Uncounted /\ Running' = Running
      BY <2>1 DEF Counted, Uncounted, Holders, Running
    <2>. QED
      BY <2>1, <2>2, CountersMove
  <1>. QED
    BY <1>1, <1>2, <1>3, <1>4, <1>5, <1>6, <1>7, <1>8, <1>10, <1>11, <1>12, <1>13
       DEF Next, Process, JoinAllStep

\* The three layers, together, at every moment.
LEMMA PoolInvariant == Spec => [](ControlInv /\ PlacesInv /\ CountersAgree)
  BY ControlInit, ControlStep, PlacesInit, PlacesStep, CountersInit, CountersStep, PTL DEF Spec

\* The counters are off by exactly the threads in between.
THEOREM CountersCorrect == Spec => []CountersAgree
  BY PoolInvariant, PTL

\* The types of the variables, and no counter that is taken down goes below 0.
THEOREM TypeCorrect == Spec => []TypeOK
  <1>1. ControlInv /\ CountersAgree => TypeOK
    <2> SUFFICES ASSUME ControlInv, CountersAgree PROVE TypeOK
      OBVIOUS
    <2>1. /\ Cardinality(jobs) \in Nat /\ Cardinality(Counted) \in Nat
          /\ Cardinality({w \in Workers : wpc[w] = "running"}) \in Nat
      BY FiniteThreads, FiniteJobs DEF Counted, ControlInv, Typing
    <2>. QED
      BY <2>1 DEF CountersAgree, ControlInv, TypeOK
  <1>. QED
    BY <1>1, PoolInvariant, PTL

-----------------------------------------------------------------------------
\* Layer 4: the wake-ups.

\* Every step keeps enough threads awake for the jobs that wait.
LEMMA WakeupsStep ==
  ControlInv /\ PlacesInv /\ WakeupsSuffice /\ [Next]_vars => WakeupsSuffice'
  <1> SUFFICES ASSUME ControlInv, PlacesInv, WakeupsSuffice, [Next]_vars,
                      ~ stop', Asleep' # {}
               PROVE  Cardinality(jobs') <= Cardinality(Coming')
    BY DEF WakeupsSuffice
  <1> USE DEF queueVars, countVars, workerVars, producerVars, ownerVars
  <1>t. wpc \in [Workers -> WorkerPcs]
    BY DEF ControlInv, Typing
  <1>f. /\ IsFiniteSet(jobs) /\ Cardinality(jobs) \in Nat
        /\ IsFiniteSet(Coming) /\ Cardinality(Coming) \in Nat
        /\ IsFiniteSet(Coming') /\ Cardinality(Coming') \in Nat
    BY FiniteJobs, FiniteThreads DEF Coming, ControlInv, Typing
  <1>e. ASSUME jobs' = {} PROVE Cardinality(jobs') <= Cardinality(Coming')
    BY <1>e, <1>f, FS_EmptySet
  \* The steps that leave the queue alone and send no thread away from it.
  <1>g. ASSUME ~ stop, Asleep # {}, jobs' = jobs, Coming \subseteq Coming'
        PROVE  Cardinality(jobs') <= Cardinality(Coming')
    BY <1>f, <1>g, FS_Subset DEF WakeupsSuffice
  <1>1. ASSUME NEW w \in Workers, PopJob(w) PROVE Cardinality(jobs') <= Cardinality(Coming')
    <2>1. front \in jobs /\ jobs' = jobs \ {front} /\ stop' = stop
      BY <1>1 DEF ControlInv, WorkerKnows, Tops, PopJob, Pop, Goto
    <2>2. w \in Coming /\ Coming' = Coming \ {w} /\ Asleep' = Asleep
      BY <1>1, <1>t DEF PopJob, Goto, Coming, Asleep
    <2>3. /\ Cardinality(jobs') = Cardinality(jobs) - 1
          /\ Cardinality(Coming') = Cardinality(Coming) - 1
      BY <1>f, <2>1, <2>2, FS_RemoveElement
    <2>. QED
      BY <1>f, <2>1, <2>2, <2>3 DEF WakeupsSuffice
  <1>2. ASSUME NEW p \in Producers, PushJob(p) PROVE Cardinality(jobs') <= Cardinality(Coming')
    <2>1. /\ jobs' = jobs \cup {parg[p]} /\ parg[p] \notin jobs /\ stop' = stop /\ NotifyOne
      BY <1>2 DEF PushJob, Push, Passed, PlacesInv, ArgumentsFresh, EachJobInOnePlace
    <2>2. Asleep # {}
      BY <1>t, <2>1 DEF NotifyOne, Asleep
    <2>3. PICK w \in Asleep : wpc' = [wpc EXCEPT ![w] = "lock"]
      BY <2>1, <2>2 DEF NotifyOne
    <2>4. Coming' = Coming \cup {w} /\ w \notin Coming
      BY <1>t, <2>3 DEF Coming, Asleep
    <2>5. /\ Cardinality(jobs') = Cardinality(jobs) + 1
          /\ Cardinality(Coming') = Cardinality(Coming) + 1
      BY <1>f, <2>1, <2>4, FS_AddElement
    <2>. QED
      BY <1>f, <2>1, <2>2, <2>5 DEF WakeupsSuffice
  <1>3. ASSUME NEW w \in Workers, TestAvailable(w)
        PROVE  Cardinality(jobs') <= Cardinality(Coming')
    <2>1. CASE jobs = {}
      BY <1>3, <1>e, <2>1 DEF TestAvailable
    <2>2. CASE jobs # {}
      <3>1. jobs' = jobs /\ stop' = stop /\ Asleep' = Asleep /\ Coming \subseteq Coming'
        BY <1>3, <1>t, <2>2 DEF TestAvailable, Goto, Coming, Asleep
      <3>. QED
        BY <1>g, <3>1
    <2>. QED
      BY <2>1, <2>2
  <1>4. ASSUME NEW w \in Workers, Sleep(w) PROVE Cardinality(jobs') <= Cardinality(Coming')
    BY <1>4, <1>e DEF Sleep, Goto, ControlInv, WorkerKnows
  <1>5. ASSUME NEW w \in Workers, SpuriousWake(w)
        PROVE  Cardinality(jobs') <= Cardinality(Coming')
    <2>1. jobs' = jobs /\ stop' = stop /\ Asleep # {} /\ Coming \subseteq Coming'
      BY <1>5, <1>t DEF SpuriousWake, Goto, Coming, Asleep
    <2>. QED
      BY <1>g, <2>1
  <1>6. ASSUME NEW w \in Workers,
               \/ Loop(w) \/ LockJobs(w) \/ Top(w) \/ StartJob(w) \/ FinishJob(w)
               \/ DecJobsLeft(w) \/ IncJobsDone(w) \/ NotifyWaiter(w)
        PROVE  Cardinality(jobs') <= Cardinality(Coming')
    <2>1. jobs' = jobs /\ stop' = stop
      BY <1>6 DEF Loop, LockJobs, Top, StartJob, FinishJob, DecJobsLeft, IncJobsDone,
                  NotifyWaiter
    <2>2. Asleep' = Asleep /\ Coming \subseteq Coming'
      BY <1>6, <1>t DEF Goto, Loop, LockJobs, Top, StartJob, FinishJob, DecJobsLeft,
                        IncJobsDone, NotifyWaiter, Coming, Asleep
    <2>. QED
      BY <1>g, <2>1, <2>2
  <1>7. ASSUME NEW w \in Workers, TakeNoop(w) PROVE FALSE
    BY <1>7 DEF TakeNoop
  <1>8. ASSUME UNCHANGED <<jobs, stop, wpc>>
        PROVE  Cardinality(jobs') <= Cardinality(Coming')
    BY <1>8, <1>g DEF Asleep, Coming
  <1>9. ASSUME NEW p \in Producers, NEW j \in Jobs, PassCheck(p, j) \/ Refuse(p, j)
        PROVE  Cardinality(jobs') <= Cardinality(Coming')
    BY <1>8, <1>9 DEF PassCheck, Refuse
  <1>10. ASSUME NEW b \in BOOLEAN, JoinAll(b) PROVE Cardinality(jobs') <= Cardinality(Coming')
    BY <1>8, <1>10 DEF JoinAll
  <1>11. CASE \/ WaitAll \/ TestAllDone \/ WaitAllSleep \/ WaitAllSpuriousWake
              \/ Join \/ JoinAgain \/ UNCHANGED vars
    BY <1>8, <1>11 DEF WaitAll, TestAllDone, WaitAllSleep, WaitAllSpuriousWake, Join,
                       JoinAgain, vars
  <1>12. CASE SetStop \/ NotifyAll
    BY <1>12 DEF SetStop, NotifyAll, OwnerGoto, ControlInv, OwnerKnows
  <1>. QED
    BY <1>1, <1>2, <1>3, <1>4, <1>5, <1>6, <1>7, <1>9, <1>10, <1>11, <1>12
       DEF Next, Process, JoinAllStep

\* While a thread sleeps, every queued job has a thread on its way.
THEOREM NoJobWaitsForASleeper == Spec => []WakeupsSuffice
  <1>1. Init => WakeupsSuffice
    BY DEF Init, WakeupsSuffice, Asleep
  <1>. QED
    BY <1>1, PoolInvariant, WakeupsStep, PTL DEF Spec

-----------------------------------------------------------------------------
\* Layer 5: the limit.  The jobs not yet done are those accepted and not
\* executed, which no step of a thread inside the pool adds to.

Pending == accepted \ executed

BoundInv == Cardinality(Pending) + Cardinality(Passed)
              <= MaxQueueSize + Cardinality(Producers) - 1

\* The jobs in the threads' hands are no more than the threads that have one.
LEMMA HeldByHolders ==
  ASSUME ControlInv
  PROVE  /\ IsFiniteSet(Held) /\ Cardinality(Held) \in Nat
         /\ Cardinality(Held) <= Cardinality(Holders)
  <1>1. Held \subseteq Jobs
    <2>1. \A w \in Holders : res[w] \in Jobs \cup {Noop}
      BY DEF Holders, ControlInv, WorkerKnows
    <2>. QED
      BY <2>1 DEF Held
  <1>2. IsFiniteSet(Held) /\ Cardinality(Held) \in Nat
    BY <1>1, FiniteJobs
  <1>3. IsFiniteSet(Holders) /\ Cardinality(Holders) \in Nat
    BY FiniteThreads DEF Holders
  <1> DEFINE T == {res[w] : w \in Holders}
             f == [w \in Holders |-> res[w]]
  <1>4. f \in Surjection(Holders, T)
    BY DEF Surjection
  <1>5. IsFiniteSet(T) /\ Cardinality(T) <= Cardinality(Holders)
    <2> HIDE DEF f, T
    <2>. QED
      BY <1>3, <1>4, FS_Surjection
  <1>6. Cardinality(Held) <= Cardinality(T) /\ Cardinality(T) \in Nat
    <2>1. Held \in SUBSET T
      BY DEF Held
    <2> HIDE DEF T
    <2>. QED
      BY <1>5, <2>1, FS_Subset, FS_CardinalityType
  <1>. QED
    BY <1>2, <1>3, <1>5, <1>6

\* So they are no more than the threads that count.
LEMMA HeldIsFinite ==
  ASSUME ControlInv
  PROVE  /\ IsFiniteSet(Held) /\ Cardinality(Held) \in Nat
         /\ Cardinality(Held) <= Cardinality(Counted)
  <1>1. Counted \subseteq Workers /\ Holders \subseteq Counted
    BY DEF Holders, Counted
  <1>2. IsFiniteSet(Counted) /\ Cardinality(Counted) \in Nat
    BY <1>1, FiniteThreads
  <1>3. Cardinality(Holders) <= Cardinality(Counted) /\ Cardinality(Holders) \in Nat
    BY <1>1, <1>2, FS_Subset, FS_CardinalityType
  <1>. QED
    BY <1>2, <1>3, HeldByHolders

\* The jobs that are queued or held are no more than jobsLeft.
LEMMA PendingJobs ==
  ASSUME ControlInv, PlacesInv, CountersAgree
  PROVE  /\ Cardinality(Pending) = Cardinality(jobs) + Cardinality(Held)
         /\ Cardinality(Pending) <= jobsLeft
         /\ Cardinality(Pending) \in Nat
  <1>1. Pending = jobs \cup Held /\ jobs \cap Held = {}
    BY DEF Pending, PlacesInv, EachJobInOnePlace
  <1>2. IsFiniteSet(jobs) /\ Cardinality(jobs) \in Nat
    BY FiniteJobs DEF ControlInv, Typing
  <1>3. IsFiniteSet(Held) /\ Cardinality(Held) \in Nat
        /\ Cardinality(Held) <= Cardinality(Counted)
    BY HeldIsFinite
  <1>4. Cardinality(Pending) = Cardinality(jobs) + Cardinality(Held)
    <2>1. Cardinality(jobs \cup Held)
            = Cardinality(jobs) + Cardinality(Held) - Cardinality(jobs \cap Held)
      BY <1>2, <1>3, FS_Union
    <2>2. Cardinality(jobs \cap Held) = 0
      BY <1>1, FS_EmptySet
    <2>. QED
      BY <1>1, <1>2, <1>3, <2>1, <2>2
  <1>5. Cardinality(Counted) \in Nat
    BY FiniteThreads DEF Counted
  <1>. QED
    BY <1>2, <1>3, <1>4, <1>5 DEF CountersAgree

\* Any set of callers can be counted, and is no more than all of them.
LEMMA FiniteCallers ==
  \A S : S \subseteq Producers =>
           /\ IsFiniteSet(S) /\ Cardinality(S) \in Nat
           /\ Cardinality(S) <= Cardinality(Producers)
  BY ProducersAssumption, FS_Subset, FS_CardinalityType

\* At first nobody is past the check.
LEMMA BoundInit == Init => BoundInv
  <1> SUFFICES ASSUME Init PROVE BoundInv
    OBVIOUS
  <1>1. Pending = {} /\ Passed = {}
    BY DEF Init, Pending, Passed
  <1>2. Cardinality(Producers) \in Nat /\ Cardinality(Producers) # 0
    BY ProducersAssumption, FS_EmptySet, FS_CardinalityType
  <1>. QED
    BY <1>1, <1>2, FS_EmptySet, MaxQueueSizeAssumption DEF BoundInv

\* Every step keeps the jobs and the callers past the check within the bound.
LEMMA BoundStep ==
  ControlInv /\ PlacesInv /\ CountersAgree /\ BoundInv /\ [Next]_vars => BoundInv'
  <1> SUFFICES ASSUME ControlInv, PlacesInv, CountersAgree, BoundInv, [Next]_vars
               PROVE  BoundInv'
    OBVIOUS
  <1> USE DEF queueVars, countVars, workerVars, producerVars, ownerVars
  <1>f. /\ IsFiniteSet(Pending) /\ Cardinality(Pending) \in Nat
        /\ IsFiniteSet(Passed) /\ Cardinality(Passed) \in Nat
        /\ Cardinality(Producers) \in Nat
    BY FiniteJobs, FiniteCallers DEF Pending, Passed, ControlInv, Typing
  <1>g. ASSUME Pending' \subseteq Pending, Passed' = Passed PROVE BoundInv'
    <2>1. Cardinality(Pending') <= Cardinality(Pending) /\ Cardinality(Pending') \in Nat
      BY <1>f, <1>g, FS_Subset, FS_CardinalityType
    <2>. QED
      BY <1>f, <1>g, <2>1, MaxQueueSizeAssumption DEF BoundInv
  <1>1. ASSUME NEW p \in Producers, NEW j \in Jobs, PassCheck(p, j) PROVE BoundInv'
    <2>1. Pending' = Pending /\ Passed' \subseteq Producers /\ ~ (jobsLeft >= MaxQueueSize)
      BY <1>1 DEF PassCheck, Pending, Passed
    <2>2. Cardinality(Passed') <= Cardinality(Producers) /\ Cardinality(Passed') \in Nat
      BY <2>1, FiniteCallers
    <2>3. Cardinality(Pending) <= jobsLeft /\ jobsLeft \in Int
      BY PendingJobs DEF ControlInv, Typing
    <2>. QED
      BY <1>f, <2>1, <2>2, <2>3, MaxQueueSizeAssumption DEF BoundInv
  <1>2. ASSUME NEW p \in Producers, PushJob(p) PROVE BoundInv'
    <2>1. p \in Passed /\ Passed' = Passed \ {p}
      BY <1>2 DEF PushJob, Passed, ControlInv, Typing
    <2>2. Pending' = Pending \cup {parg[p]} /\ parg[p] \notin Pending
      BY <1>2, <2>1 DEF PushJob, Pending, PlacesInv, ArgumentsFresh, EachJobInOnePlace
    <2>3. /\ Cardinality(Passed') = Cardinality(Passed) - 1
          /\ Cardinality(Pending') = Cardinality(Pending) + 1
      BY <1>f, <2>1, <2>2, FS_AddElement, FS_RemoveElement
    <2>. QED
      BY <1>f, <2>3, MaxQueueSizeAssumption DEF BoundInv
  <1>3. ASSUME NEW w \in Workers, FinishJob(w) PROVE BoundInv'
    BY <1>3, <1>g DEF FinishJob, Pending, Passed
  <1>4. ASSUME NEW w \in Workers, LockJobs(w) \/ SpuriousWake(w) \/ (Process(w) /\ ~ FinishJob(w))
        PROVE  BoundInv'
    <2>1. UNCHANGED <<accepted, executed, ppc>>
      BY <1>4 DEF LockJobs, SpuriousWake, Process, Loop, TestAvailable, Sleep, Top, PopJob,
                  TakeNoop, StartJob, DecJobsLeft, IncJobsDone, NotifyWaiter
    <2>. QED
      BY <1>g, <2>1 DEF Pending, Passed
  <1>5. ASSUME NEW p \in Producers, NEW j \in Jobs, Refuse(p, j) PROVE BoundInv'
    BY <1>5, <1>g DEF Refuse, Pending, Passed
  <1>6. ASSUME NEW b \in BOOLEAN, JoinAll(b) PROVE BoundInv'
    BY <1>6, <1>g DEF JoinAll, Pending, Passed
  <1>7. CASE JoinAllStep \/ WaitAllSpuriousWake \/ JoinAgain \/ UNCHANGED vars
    <2>1. UNCHANGED <<accepted, executed, ppc>>
      BY <1>7 DEF JoinAllStep, WaitAll, TestAllDone, WaitAllSleep, SetStop, NotifyAll, Join,
                  WaitAllSpuriousWake, JoinAgain, vars
    <2>. QED
      BY <1>g, <2>1 DEF Pending, Passed
  <1>. QED
    BY <1>1, <1>2, <1>3, <1>4, <1>5, <1>6, <1>7 DEF Next

\* One job over the limit for each caller but one, and no more.
THEOREM LimitHolds == Spec => []QueueBound
  <1>1. ControlInv /\ PlacesInv /\ CountersAgree /\ BoundInv => QueueBound
    <2> SUFFICES ASSUME ControlInv, PlacesInv, CountersAgree, BoundInv PROVE QueueBound
      OBVIOUS
    <2>. QED
      BY PendingJobs DEF BoundInv, QueueBound
  <1>. QED
    BY <1>1, PoolInvariant, BoundInit, BoundStep, PTL DEF Spec

-----------------------------------------------------------------------------
\* Layer 6: joinAll.  Once waitAll has returned the pool is empty for good:
\* nobody adds jobs any more and no thread has one left to take.

Stopping == opc \in {"setStop", "notifyAll", "join", "finished"}

DrainInv == waitForAll /\ Stopping => jobs = {} /\ Held = {}

\* When jobsLeft is zero nothing is queued or held.
LEMMA EmptyWhenNoneLeft ==
  ASSUME ControlInv, CountersAgree, jobsLeft <= 0
  PROVE  jobs = {} /\ Held = {}
  <1>1. /\ IsFiniteSet(jobs) /\ Cardinality(jobs) \in Nat
        /\ IsFiniteSet(Counted) /\ Cardinality(Counted) \in Nat
    BY FiniteJobs, FiniteThreads DEF Counted, ControlInv, Typing
  <1>2. Cardinality(jobs) = 0 /\ Cardinality(Counted) = 0
    BY <1>1 DEF CountersAgree
  <1>3. jobs = {} /\ Counted = {}
    BY <1>1, <1>2, FS_EmptySet
  <1>. QED
    BY <1>3 DEF Counted, Held, Holders

\* Every step keeps what joinAll has waited for.
LEMMA DrainStep ==
  ControlInv /\ PlacesInv /\ CountersAgree /\ DrainInv /\ [Next]_vars => DrainInv'
  <1> SUFFICES ASSUME ControlInv, PlacesInv, CountersAgree, DrainInv, [Next]_vars
               PROVE  DrainInv'
    OBVIOUS
  <1> USE DEF queueVars, countVars, workerVars, producerVars, ownerVars
  <1>t. wpc \in [Workers -> WorkerPcs] /\ res \in [Workers -> Jobs \cup {NoJob, Noop}]
        /\ jobsLeft \in Int
    BY DEF ControlInv, Typing
  <1>g. ASSUME waitForAll' = waitForAll, Stopping' = Stopping, jobs' = jobs, Held' \subseteq Held
        PROVE  DrainInv'
    BY <1>g DEF DrainInv
  <1>1. ASSUME NEW w \in Workers, PopJob(w) PROVE DrainInv'
    BY <1>1 DEF PopJob, Goto, ControlInv, WorkerKnows, DrainInv, Stopping
  <1>2. ASSUME NEW p \in Producers, PushJob(p) PROVE DrainInv'
    BY <1>2 DEF PushJob, Passed, ControlInv, OwnerKnows, DrainInv, Stopping
  <1>3. ASSUME NEW w \in Workers, TakeNoop(w) PROVE DrainInv'
    <2>1. Held' = Held
      BY <1>3, <1>t DEF TakeNoop, Goto, Held, Holders
    <2>. QED
      BY <1>3, <1>g, <2>1 DEF TakeNoop, Stopping
  <1>4. ASSUME NEW w \in Workers, FinishJob(w) PROVE DrainInv'
    <2>1. /\ Holders' = Holders \ {w}
          /\ \A v \in Holders' : res'[v] = res[v]
      BY <1>4, <1>t DEF FinishJob, Goto, Holders
    <2>2. Held' \subseteq Held
      BY <2>1 DEF Held
    <2>. QED
      BY <1>4, <1>g, <2>2 DEF FinishJob, Stopping
  <1>5. ASSUME NEW w \in Workers,
               \/ Loop(w) \/ LockJobs(w) \/ TestAvailable(w) \/ Sleep(w) \/ SpuriousWake(w)
               \/ Top(w) \/ StartJob(w) \/ DecJobsLeft(w) \/ IncJobsDone(w) \/ NotifyWaiter(w)
        PROVE  DrainInv'
    <2>1. /\ Holders' = Holders
          /\ \A v \in Holders : res'[v] = res[v]
      BY <1>5, <1>t DEF Goto, Loop, LockJobs, TestAvailable, Sleep, SpuriousWake, Top, StartJob,
                        DecJobsLeft, IncJobsDone, NotifyWaiter, Holders
    <2>2. Held' = Held
      BY <2>1 DEF Held
    <2>3. waitForAll' = waitForAll /\ jobs' = jobs /\ Stopping' = Stopping
      BY <1>5 DEF Loop, LockJobs, TestAvailable, Sleep, SpuriousWake, Top, StartJob,
                  DecJobsLeft, IncJobsDone, NotifyWaiter, Stopping
    <2>. QED
      BY <1>g, <2>2, <2>3
  <1>6. ASSUME NEW p \in Producers, NEW j \in Jobs, PassCheck(p, j) \/ Refuse(p, j)
        PROVE  DrainInv'
    BY <1>6, <1>g DEF PassCheck, Refuse, Held, Holders, Stopping
  <1>7. ASSUME NEW b \in BOOLEAN, JoinAll(b) PROVE DrainInv'
    BY <1>7 DEF JoinAll, OwnerGoto, DrainInv, Stopping
  <1>8. CASE WaitAll \/ TestAllDone
    <2>1. CASE jobsLeft <= 0
      BY <1>8, <2>1, EmptyWhenNoneLeft DEF WaitAll, TestAllDone, DrainInv, Held, Holders
    <2>2. CASE ~ (jobsLeft <= 0)
      <3>1. jobsLeft > 0 /\ jobsLeft # 0
        BY <1>t, <2>2
      <3>2. opc' \in {"waitCheck", "waitBlock"}
        BY <1>8, <3>1 DEF WaitAll, TestAllDone, OwnerGoto
      <3>. QED
        BY <3>2 DEF DrainInv, Stopping
    <2>. QED
      BY <2>1, <2>2
  <1>9. CASE \/ WaitAllSleep \/ WaitAllSpuriousWake \/ SetStop \/ Join \/ JoinAgain
             \/ UNCHANGED vars
    <2>1. UNCHANGED <<waitForAll, jobs, wpc, res>> /\ Stopping' = Stopping
      BY <1>9 DEF WaitAllSleep, WaitAllSpuriousWake, SetStop, Join, JoinAgain, vars,
                  OwnerGoto, Stopping
    <2>. QED
      BY <1>g, <2>1 DEF Held, Holders
  <1>10. CASE NotifyAll
    <2>1. Holders' = Holders /\ UNCHANGED <<waitForAll, jobs, res>> /\ Stopping' = Stopping
      BY <1>10, <1>t DEF NotifyAll, Asleep, OwnerGoto, Holders, Stopping
    <2>. QED
      BY <1>g, <2>1 DEF Held
  <1>. QED
    BY <1>1, <1>2, <1>3, <1>4, <1>5, <1>6, <1>7, <1>8, <1>9, <1>10
       DEF Next, Process, JoinAllStep

\* All layers, with what joinAll has waited for.
LEMMA FullInvariant ==
  Spec => [](ControlInv /\ PlacesInv /\ CountersAgree /\ DrainInv)
  <1>1. Init => DrainInv
    BY DEF Init, DrainInv
  <1>. QED
    BY <1>1, PoolInvariant, DrainStep, PTL DEF Spec

\* What a caller reads after joinAll is what happened.
THEOREM JoinCorrect == Spec => []JoinCountsAll
  <1>1. ControlInv /\ PlacesInv /\ CountersAgree /\ DrainInv => JoinCountsAll
    <2> SUFFICES ASSUME ControlInv, PlacesInv, CountersAgree, DrainInv, opc = "finished"
                 PROVE  /\ jobsDone = Cardinality(executed)
                        /\ busyThreads = 0
                        /\ waitForAll => executed = accepted /\ jobsLeft = 0
      BY DEF JoinCountsAll
    <2>1. \A w \in Workers : wpc[w] = "exited"
      BY DEF ControlInv, OwnerKnows
    <2>2. Counted = {} /\ Uncounted = {} /\ {w \in Workers : wpc[w] = "running"} = {}
      BY <2>1 DEF Counted, Uncounted, Holders
    <2>3. Cardinality(executed) \in Nat
      BY FiniteJobs DEF ControlInv, Typing
    <2>a. /\ Cardinality(Uncounted) = 0
          /\ Cardinality({w \in Workers : wpc[w] = "running"}) = 0
      BY <2>2, FS_EmptySet
    <2>4. jobsDone = Cardinality(executed) /\ busyThreads = 0
      BY <2>3, <2>a DEF CountersAgree
    <2>5. ASSUME waitForAll PROVE executed = accepted /\ jobsLeft = 0
      <3>1. jobs = {} /\ Held = {}
        BY <2>5 DEF DrainInv, Stopping
      <3>2. executed = accepted
        BY <3>1 DEF PlacesInv, EachJobInOnePlace
      <3>3. jobsLeft = 0
        BY <2>2, <3>1, FS_EmptySet DEF CountersAgree
      <3>. QED
        BY <3>2, <3>3
    <2>. QED
      BY <2>4, <2>5
  <1>. QED
    BY <1>1, FullInvariant, PTL

-----------------------------------------------------------------------------
\* Layer 7: the pool implements the ledger.

\* While the pool is open the callers past the check still fit the limit, by what
\* jobsLeft says and not only by what is pending; no job is both refused and accepted.
AdmitInv ==
  /\ opc = "open" => jobsLeft + Cardinality(Passed) <= MaxQueueSize + Cardinality(Producers) - 1
  /\ accepted \cap refused = {}

\* At first no caller is past the check.
LEMMA AdmitInit == Init => AdmitInv
  <1> SUFFICES ASSUME Init PROVE AdmitInv
    OBVIOUS
  <1>1. Passed = {}
    BY DEF Init, Passed
  <1>2. Cardinality(Producers) \in Nat /\ Cardinality(Producers) # 0
    BY ProducersAssumption, FS_EmptySet, FS_CardinalityType
  <1>. QED
    BY <1>1, <1>2, FS_EmptySet, MaxQueueSizeAssumption DEF Init, AdmitInv

\* Every step keeps the callers within the limit.
LEMMA AdmitStep == ControlInv /\ PlacesInv /\ AdmitInv /\ [Next]_vars => AdmitInv'
  <1> SUFFICES ASSUME ControlInv, PlacesInv, AdmitInv, [Next]_vars PROVE AdmitInv'
    OBVIOUS
  <1> USE DEF queueVars, countVars, workerVars, producerVars, ownerVars
  <1>f. /\ IsFiniteSet(Passed) /\ Cardinality(Passed) \in Nat
        /\ Cardinality(Producers) \in Nat /\ jobsLeft \in Int
    BY FiniteCallers DEF Passed, ControlInv, Typing
  <1>1. ASSUME NEW p \in Producers, NEW j \in Jobs, PassCheck(p, j) PROVE AdmitInv'
    <2>1. Passed' \subseteq Producers /\ ~ (jobsLeft >= MaxQueueSize)
          /\ UNCHANGED <<jobsLeft, accepted, refused>>
      BY <1>1 DEF PassCheck, Passed
    <2>2. Cardinality(Passed') <= Cardinality(Producers) /\ Cardinality(Passed') \in Nat
      BY <2>1, FiniteCallers
    <2>. QED
      BY <1>f, <2>1, <2>2, MaxQueueSizeAssumption DEF AdmitInv
  <1>2. ASSUME NEW p \in Producers, PushJob(p) PROVE AdmitInv'
    <2>1. p \in Passed /\ Passed' = Passed \ {p} /\ parg[p] \notin refused
          /\ jobsLeft' = jobsLeft + 1 /\ accepted' = accepted \cup {parg[p]} /\ refused' = refused
          /\ opc' = opc
      BY <1>2 DEF PushJob, Passed, ControlInv, Typing, PlacesInv, ArgumentsFresh
    <2>2. Cardinality(Passed') = Cardinality(Passed) - 1
      BY <1>f, <2>1, FS_RemoveElement
    <2>3. Cardinality(Passed') \in Int
      BY <1>f, <2>2
    <2>4. opc = "open" =>
            jobsLeft' + Cardinality(Passed') <= MaxQueueSize + Cardinality(Producers) - 1
      BY <1>f, <2>1, <2>2, <2>3, MaxQueueSizeAssumption DEF AdmitInv
    <2>. QED
      BY <2>1, <2>4 DEF AdmitInv
  <1>3. ASSUME NEW p \in Producers, NEW j \in Jobs, Refuse(p, j) PROVE AdmitInv'
    BY <1>3 DEF Refuse, Fresh, Passed, AdmitInv
  <1>4. ASSUME NEW w \in Workers, TakeNoop(w) PROVE AdmitInv'
    BY <1>4 DEF TakeNoop, AdmitInv, ControlInv, OwnerKnows
  <1>5. ASSUME NEW w \in Workers, DecJobsLeft(w) PROVE AdmitInv'
    <2>1. jobsLeft' = jobsLeft - 1 /\ UNCHANGED <<ppc, accepted, refused, opc>>
      BY <1>5 DEF DecJobsLeft
    <2>2. Passed' = Passed
      BY <2>1 DEF Passed
    <2>. QED
      BY <1>f, <2>1, <2>2, MaxQueueSizeAssumption DEF AdmitInv
  <1>6. ASSUME NEW w \in Workers,
               \/ LockJobs(w) \/ SpuriousWake(w)
               \/ (Process(w) /\ ~ TakeNoop(w) /\ ~ DecJobsLeft(w))
        PROVE  AdmitInv'
    <2>1. /\ UNCHANGED <<jobsLeft, accepted, refused, ppc>> /\ (opc' = "open" => opc = "open")
      BY <1>6 DEF LockJobs, SpuriousWake, Process, Loop, TestAvailable, Sleep, Top, PopJob,
                  FinishJob, StartJob, IncJobsDone, NotifyWaiter
    <2>. QED
      BY <2>1 DEF AdmitInv, Passed
  <1>7. CASE \/ \E b \in BOOLEAN : JoinAll(b)
             \/ JoinAllStep \/ WaitAllSpuriousWake \/ JoinAgain \/ UNCHANGED vars
    <2>1. /\ UNCHANGED <<jobsLeft, accepted, refused, ppc>> /\ (opc' = "open" => opc = "open")
      BY <1>7 DEF JoinAll, JoinAllStep, WaitAll, TestAllDone, WaitAllSleep, SetStop, NotifyAll,
                  Join, WaitAllSpuriousWake, JoinAgain, OwnerGoto, vars
    <2>. QED
      BY <2>1 DEF AdmitInv, Passed
  <1>. QED
    BY <1>1, <1>2, <1>3, <1>4, <1>5, <1>6, <1>7 DEF Next

ledgerVars == <<Fate, jobsLeft, Priority, Phase>>

\* The steps that leave every job where it is and the owner in the same phase.
LEMMA JobsStay ==
  ASSUME UNCHANGED <<jobs, executed, refused, waitForAll>>, Held' = Held,
         (opc' = "open") = (opc = "open"), (opc' = "finished") = (opc = "finished")
  PROVE  Fate' = Fate /\ Phase' = Phase
  BY DEF Fate, Phase

\* The pool starts where the ledger does.
LEMMA LedgerInitially == Init => Ledger!LedgerInit
  <1> SUFFICES ASSUME Init PROVE Ledger!LedgerInit
    OBVIOUS
  <1>1. Held = {}
    BY DEF Init, Held, Holders
  <1>. QED
    BY <1>1, PriorityAssumption DEF Init, Fate, Phase, Ledger!LedgerInit

\* The ledger counts as the pool does.
LEMMA SameCount == \A S : Ledger!Cardinality(S) = Cardinality(S)
  BY DEF Ledger!Cardinality, Cardinality

\* What the ledger calls pending is what is accepted and has not run.
LEMMA SamePending ==
  ASSUME ControlInv, PlacesInv
  PROVE  Ledger!Pending = Pending /\ Ledger!Cardinality(Ledger!Pending) = Cardinality(Pending)
  <1>1. Pending = jobs \cup Held /\ jobs \subseteq Jobs /\ Held \subseteq Jobs
    BY DEF Pending, PlacesInv, EachJobInOnePlace, ControlInv, Typing, WorkerKnows, Held, Holders
  <1>2. Ledger!Pending = Pending
    BY <1>1 DEF Ledger!Pending, Fate
  <1>. QED
    BY <1>2, SameCount

\* A job enters the queue where the ledger accepts it, within its bound.
LEMMA PushIsAccept ==
  ASSUME ControlInv, PlacesInv, AdmitInv, NEW p \in Producers, PushJob(p)
  PROVE  parg[p] \in Jobs /\ Ledger!Accept(parg[p])
  <1> USE DEF queueVars, countVars, workerVars, producerVars, ownerVars
  <1>p. accepted = jobs \cup Held \cup executed
    BY DEF PlacesInv, EachJobInOnePlace
  <1>1. /\ parg[p] \in Jobs /\ parg[p] \notin accepted \cup refused /\ opc = "open" /\ p \in Passed
    BY DEF PushJob, Passed, PlacesInv, ArgumentsFresh, ControlInv, OwnerKnows
  <1>2. Holders' = Holders
    BY NotifyOneWakes DEF PushJob, Holders, ControlInv, Typing
  <1>3. /\ jobs' = jobs \cup {parg[p]} /\ Held' = Held /\ jobsLeft' = jobsLeft + 1
        /\ UNCHANGED <<executed, refused, opc, waitForAll>>
    BY <1>2 DEF PushJob, Push, Held
  <1>4. Fate[parg[p]] = "new" /\ Fate' = [Fate EXCEPT ![parg[p]] = "queued"]
    BY <1>p, <1>1, <1>3 DEF Fate
  <1>5. Phase = "open" /\ Phase' = Phase
    BY <1>1, <1>3 DEF Phase
  <1>6. jobsLeft < MaxQueueSize + Cardinality(Producers) - 1
    <2>1. IsFiniteSet(Passed) /\ Cardinality(Passed) \in Nat /\ Cardinality(Producers) \in Nat
          /\ jobsLeft \in Int
      BY FiniteCallers DEF Passed, ControlInv, Typing
    <2>2. Cardinality(Passed) # 0
      BY <1>1, <2>1, FS_EmptySet
    <2>. QED
      BY <1>1, <2>1, <2>2, MaxQueueSizeAssumption DEF AdmitInv
  <1>7. Priority[parg[p]] \in Int /\ Priority = [Priority EXCEPT ![parg[p]] = Priority[parg[p]]]
    BY <1>1, PriorityAssumption
  <1>. QED
    BY <1>1, <1>3, <1>4, <1>5, <1>6, <1>7 DEF Ledger!Accept, Ledger!Becomes

\* addJob returns false where the ledger refuses.
LEMMA RefuseIsRefuse ==
  ASSUME ControlInv, PlacesInv, NEW p \in Producers, NEW j \in Jobs, Refuse(p, j)
  PROVE  Ledger!Refuse(j)
  <1> USE DEF queueVars, countVars, workerVars, producerVars, ownerVars
  <1>1. /\ opc = "open" /\ j \notin accepted \cup refused /\ jobsLeft >= MaxQueueSize
        /\ refused' = refused \cup {j}
        /\ UNCHANGED <<jobs, executed, wpc, res, opc, waitForAll, jobsLeft>>
    BY DEF Refuse, Fresh
  <1>2. Held' = Held
    BY <1>1 DEF Held, Holders
  <1>3. j \notin jobs /\ j \notin Held /\ j \notin executed
    BY <1>1 DEF PlacesInv, EachJobInOnePlace
  <1>4. Fate[j] = "new" /\ Fate' = [Fate EXCEPT ![j] = "refused"]
    BY <1>1, <1>2, <1>3 DEF Fate
  <1>5. Phase = "open" /\ Phase' = Phase
    BY <1>1 DEF Phase
  <1>. QED
    BY <1>1, <1>4, <1>5 DEF Ledger!Refuse, Ledger!Becomes

\* pop takes out of the queue what the ledger starts.
LEMMA PopIsStart ==
  ASSUME ControlInv, PlacesInv, NEW w \in Workers, PopJob(w)
  PROVE  front \in Jobs /\ Ledger!Start(front)
  <1> USE DEF queueVars, countVars, workerVars, producerVars, ownerVars
  <1>p. jobs \cap Held = {} /\ jobs \cap executed = {} /\ Held \cap executed = {}
    BY DEF PlacesInv, EachJobInOnePlace
  <1>1. /\ front \in jobs /\ front \in Jobs /\ res[w] = front /\ front # Noop
        /\ \A k \in jobs : ~ (Priority[front] < Priority[k])
        /\ opc # "finished"
    BY JobsAssumption
       DEF PopJob, Goto, ControlInv, WorkerKnows, OwnerKnows, Tops, QueueItemCompare, Typing
  <1>2. Holders' = Holders \cup {w} /\ res' = res
    BY DEF PopJob, Goto, Holders, ControlInv, Typing
  <1>3. /\ jobs' = jobs \ {front} /\ Held' = Held \cup {front}
        /\ UNCHANGED <<executed, refused, opc, waitForAll, jobsLeft>>
    BY <1>1, <1>2 DEF PopJob, Pop, Held
  <1>4. Fate[front] = "queued" /\ Fate' = [Fate EXCEPT ![front] = "running"]
    BY <1>p, <1>1, <1>3 DEF Fate
  <1>5. Phase # "closed" /\ Phase' = Phase
    BY <1>1, <1>3 DEF Phase
  <1>6. \A k \in Jobs : Fate[k] = "queued" => k \in jobs
    BY DEF Fate
  <1>. QED
    BY <1>1, <1>3, <1>4, <1>5, <1>6 DEF Ledger!Start, Ledger!Becomes

\* A body that returns is what the ledger completes; the empty job is none.
LEMMA FinishIsComplete ==
  ASSUME ControlInv, PlacesInv, NEW w \in Workers, FinishJob(w)
  PROVE  \/ UNCHANGED ledgerVars
         \/ \E j \in Jobs : Ledger!Complete(j)
  <1> USE DEF queueVars, countVars, workerVars, producerVars, ownerVars
  <1>t. wpc \in [Workers -> WorkerPcs] /\ res \in [Workers -> Jobs \cup {NoJob, Noop}]
    BY DEF ControlInv, Typing
  <1>p. jobs \cap Held = {} /\ jobs \cap executed = {} /\ Held \cap executed = {}
    BY DEF PlacesInv, EachJobInOnePlace
  <1>1. /\ Holders' = Holders \ {w} /\ w \in Holders
        /\ \A v \in Holders' : res'[v] = res[v]
        /\ executed' = executed \cup ({res[w]} \ {Noop})
        /\ UNCHANGED <<jobs, refused, opc, waitForAll, jobsLeft>>
    BY <1>t DEF FinishJob, Goto, Holders
  <1>2. Held' = Held \ {res[w]}
    BY <1>1 DEF Held, PlacesInv, EachJobInOnePlace
  <1>3. CASE res[w] = Noop
    <2>1. Held' = Held /\ executed' = executed
      BY <1>1, <1>2, <1>3 DEF Held
    <2>. QED
      BY <1>1, <2>1, JobsStay DEF ledgerVars
  <1>4. CASE res[w] # Noop
    <2>1. res[w] \in Held /\ res[w] \in Jobs
      BY <1>1, <1>4 DEF Held, Holders, ControlInv, WorkerKnows
    <2>2. Fate[res[w]] = "running" /\ Fate' = [Fate EXCEPT ![res[w]] = "done"]
      BY <1>p, <1>1, <1>2, <1>4, <2>1 DEF Fate
    <2>3. Phase' = Phase
      BY <1>1 DEF Phase
    <2>4. Ledger!Complete(res[w])
      BY <1>1, <2>2, <2>3 DEF Ledger!Complete, Ledger!Becomes
    <2>. QED
      BY <2>1, <2>4
  <1>. QED
    BY <1>3, <1>4

\* A thread that has yet to take 1 off jobsLeft is one for which it is too much.
LEMMA DecIsSettle ==
  ASSUME ControlInv, PlacesInv, CountersAgree, NEW w \in Workers, DecJobsLeft(w)
  PROVE  Ledger!Settle
  <1> USE DEF queueVars, countVars, workerVars, producerVars, ownerVars
  <1>t. wpc \in [Workers -> WorkerPcs] /\ jobsLeft \in Int
    BY DEF ControlInv, Typing
  <1>1. /\ wpc[w] = "ran" /\ wpc' = [wpc EXCEPT ![w] = "left"] /\ jobsLeft' = jobsLeft - 1
        /\ UNCHANGED <<jobs, executed, refused, res, opc, waitForAll>>
    BY DEF DecJobsLeft, Goto
  <1>2. Held' = Held
    <2>1. Holders' = Holders
      BY <1>t, <1>1 DEF Holders
    <2>. QED
      BY <1>1, <2>1 DEF Held
  <1>3. Cardinality(Pending) < jobsLeft
    <2>1. /\ Cardinality(Pending) = Cardinality(jobs) + Cardinality(Held)
          /\ Cardinality(Held) <= Cardinality(Holders)
      BY PendingJobs, HeldByHolders
    <2>2. Holders \subseteq Counted \ {w} /\ w \in Counted /\ Counted \subseteq Workers
      BY <1>1 DEF Holders, Counted
    <2>3. /\ IsFiniteSet(Counted) /\ Cardinality(Counted) \in Nat
          /\ IsFiniteSet(Counted \ {w}) /\ IsFiniteSet(Holders)
      BY <2>2, FiniteThreads, FS_Subset
    <2>4. Cardinality(Counted \ {w}) = Cardinality(Counted) - 1
      BY <2>2, <2>3, FS_RemoveElement
    <2>5. Cardinality(Holders) <= Cardinality(Counted) - 1
      BY <2>2, <2>3, <2>4, FS_Subset
    <2>6. Cardinality(jobs) \in Nat /\ Cardinality(Held) \in Nat /\ Cardinality(Holders) \in Nat
      BY <2>3, FiniteJobs, HeldByHolders, FS_CardinalityType DEF ControlInv, Typing
    <2>. QED
      BY <2>1, <2>3, <2>5, <2>6 DEF CountersAgree
  <1>4. Fate' = Fate /\ Phase' = Phase
    BY <1>1, <1>2, JobsStay
  <1>5. Ledger!Cardinality(Ledger!Pending) < jobsLeft
    BY <1>3, SamePending
  <1>. QED
    BY <1>1, <1>4, <1>5 DEF Ledger!Settle

\* The empty job that next_job counts in after stop.
LEMMA NoopIsIdle ==
  ASSUME ControlInv, NEW w \in Workers, TakeNoop(w)
  PROVE  Ledger!Idle
  <1> USE DEF queueVars, countVars, workerVars, producerVars, ownerVars
  <1>1. /\ stop /\ wpc' = [wpc EXCEPT ![w] = "taken"] /\ res' = [res EXCEPT ![w] = Noop]
        /\ wpc[w] = "awake" /\ jobsLeft' = jobsLeft + 1
        /\ UNCHANGED <<jobs, executed, refused, opc, waitForAll>>
    BY DEF TakeNoop, Goto
  <1>2. Held' = Held
    BY <1>1 DEF Held, Holders, ControlInv, Typing
  <1>3. opc # "open" /\ opc # "finished"
    BY <1>1 DEF ControlInv, OwnerKnows
  <1>4. Phase \in {"draining", "abandoning"}
    BY <1>3 DEF Phase
  <1>. QED
    BY <1>1, <1>2, <1>4, JobsStay DEF Ledger!Idle

\* joinAll is called where the ledger begins to close.
LEMMA JoinAllIsBeginClose ==
  ASSUME NEW b \in BOOLEAN, JoinAll(b)
  PROVE  Ledger!BeginClose(IF b THEN "draining" ELSE "abandoning")
  <1> USE DEF queueVars, countVars, workerVars, producerVars, ownerVars
  <1>1. /\ opc = "open" /\ opc' \notin {"open", "finished"} /\ waitForAll' = b
        /\ UNCHANGED <<jobs, executed, refused, wpc, res, jobsLeft>>
    BY DEF JoinAll, OwnerGoto
  <1>2. Fate' = Fate
    BY <1>1 DEF Fate, Held, Holders
  <1>3. Phase = "open" /\ Phase' = IF b THEN "draining" ELSE "abandoning"
    BY <1>1 DEF Phase
  <1>. QED
    BY <1>1, <1>2, <1>3 DEF Ledger!BeginClose

\* When every thread is joined, nothing is counted but what was abandoned.
LEMMA JoinIsClose ==
  ASSUME ControlInv, PlacesInv, CountersAgree, DrainInv, Join
  PROVE  Ledger!Close
  <1> USE DEF queueVars, countVars, workerVars, producerVars, ownerVars
  <1>1. /\ opc = "join" /\ opc' = "finished" /\ \A w \in Workers : wpc[w] = "exited"
        /\ UNCHANGED <<jobs, executed, refused, wpc, res, waitForAll, jobsLeft>>
    BY DEF Join, OwnerGoto
  <1>2. Fate' = Fate
    BY <1>1 DEF Fate, Held, Holders
  <1>3. Held = {} /\ Counted = {}
    BY <1>1 DEF Held, Holders, Counted
  <1>4. \A j \in Jobs : Fate[j] # "running"
    BY <1>3 DEF Fate
  <1>5. waitForAll => \A j \in Jobs : Fate[j] # "queued"
    BY <1>1 DEF DrainInv, Stopping, Fate
  <1>6. Phase = (IF waitForAll THEN "draining" ELSE "abandoning") /\ Phase' = "closed"
    BY <1>1 DEF Phase
  <1>7. jobsLeft = Ledger!Cardinality(Ledger!Pending)
    <2>1. Cardinality(Pending) = Cardinality(jobs) + 0 /\ jobsLeft = Cardinality(jobs) + 0
      BY <1>3, PendingJobs, FS_EmptySet DEF CountersAgree
    <2>. QED
      BY <2>1, SamePending
  <1>. QED
    BY <1>1, <1>2, <1>4, <1>5, <1>6, <1>7 DEF Ledger!Close

\* Every step of the pool is a step of the ledger or changes nothing in it.
LEMMA LedgerStep ==
  ControlInv /\ PlacesInv /\ CountersAgree /\ DrainInv /\ AdmitInv /\ [Next]_vars
    => [Ledger!LedgerNext]_ledgerVars
  <1> SUFFICES ASSUME ControlInv, PlacesInv, CountersAgree, DrainInv, AdmitInv, [Next]_vars
               PROVE  [Ledger!LedgerNext]_ledgerVars
    OBVIOUS
  <1> USE DEF queueVars, countVars, workerVars, producerVars, ownerVars
  <1>t. wpc \in [Workers -> WorkerPcs] /\ res \in [Workers -> Jobs \cup {NoJob, Noop}]
    BY DEF ControlInv, Typing
  <1>1. ASSUME NEW p \in Producers, PushJob(p) PROVE Ledger!LedgerNext
    BY <1>1, PushIsAccept DEF Ledger!LedgerNext
  <1>2. ASSUME NEW p \in Producers, NEW j \in Jobs, Refuse(p, j) PROVE Ledger!LedgerNext
    BY <1>2, RefuseIsRefuse DEF Ledger!LedgerNext
  <1>3. ASSUME NEW p \in Producers, NEW j \in Jobs, PassCheck(p, j) PROVE UNCHANGED ledgerVars
    <2>1. UNCHANGED <<jobs, executed, refused, wpc, res, opc, waitForAll, jobsLeft>>
      BY <1>3 DEF PassCheck
    <2>2. Held' = Held
      BY <2>1 DEF Held, Holders
    <2>. QED
      BY <2>1, <2>2, JobsStay DEF ledgerVars
  <1>4. ASSUME NEW w \in Workers, PopJob(w) PROVE Ledger!LedgerNext
    BY <1>4, PopIsStart DEF Ledger!LedgerNext
  <1>5. ASSUME NEW w \in Workers, FinishJob(w) PROVE [Ledger!LedgerNext]_ledgerVars
    BY <1>5, FinishIsComplete DEF Ledger!LedgerNext
  <1>6. ASSUME NEW w \in Workers, DecJobsLeft(w) PROVE Ledger!LedgerNext
    BY <1>6, DecIsSettle DEF Ledger!LedgerNext
  <1>7. ASSUME NEW w \in Workers, TakeNoop(w) PROVE Ledger!LedgerNext
    BY <1>7, NoopIsIdle DEF Ledger!LedgerNext
  <1>8. ASSUME NEW w \in Workers,
               \/ Loop(w) \/ LockJobs(w) \/ TestAvailable(w) \/ Sleep(w) \/ SpuriousWake(w)
               \/ Top(w) \/ StartJob(w) \/ IncJobsDone(w) \/ NotifyWaiter(w)
        PROVE  UNCHANGED ledgerVars
    <2>1. /\ w \in Holders <=> wpc'[w] \in {"taken", "running"}
          /\ \A v \in Workers : v # w => wpc'[v] = wpc[v]
      BY <1>8, <1>t DEF Goto, Loop, LockJobs, TestAvailable, Sleep, SpuriousWake, Top,
                        StartJob, IncJobsDone, NotifyWaiter, Holders
    <2>2. Holders' = Holders
      BY <2>1 DEF Holders
    <2>3. \A v \in Holders : res'[v] = res[v]
      BY <1>8, <1>t DEF Goto, Loop, LockJobs, TestAvailable, Sleep, SpuriousWake, Top,
                  StartJob, IncJobsDone, NotifyWaiter, Holders
    <2>4. Held' = Held
      BY <2>2, <2>3 DEF Held
    <2>5. /\ UNCHANGED <<jobs, executed, refused, waitForAll, jobsLeft>>
          /\ (opc' = "open") = (opc = "open") /\ (opc' = "finished") = (opc = "finished")
      BY <1>8 DEF Loop, LockJobs, TestAvailable, Sleep, SpuriousWake, Top, StartJob,
                  IncJobsDone, NotifyWaiter
    <2>. QED
      BY <2>4, <2>5, JobsStay DEF ledgerVars
  <1>9. ASSUME NEW b \in BOOLEAN, JoinAll(b) PROVE Ledger!LedgerNext
    BY <1>9, JoinAllIsBeginClose DEF Ledger!LedgerNext
  <1>10. CASE Join
    BY <1>10, JoinIsClose DEF Ledger!LedgerNext
  <1>11. CASE \/ WaitAll \/ TestAllDone \/ WaitAllSleep \/ WaitAllSpuriousWake
              \/ SetStop \/ JoinAgain \/ UNCHANGED vars
    <2>1. /\ UNCHANGED <<jobs, executed, refused, waitForAll, wpc, res, jobsLeft>>
          /\ (opc' = "open") = (opc = "open") /\ (opc' = "finished") = (opc = "finished")
      BY <1>11 DEF WaitAll, TestAllDone, WaitAllSleep, WaitAllSpuriousWake, SetStop, JoinAgain,
                   vars, OwnerGoto
    <2>2. Held' = Held
      BY <2>1 DEF Held, Holders
    <2>. QED
      BY <2>1, <2>2, JobsStay DEF ledgerVars
  <1>12. CASE NotifyAll
    <2>1. /\ UNCHANGED <<jobs, executed, refused, waitForAll, res, jobsLeft>> /\ Holders' = Holders
          /\ (opc' = "open") = (opc = "open") /\ (opc' = "finished") = (opc = "finished")
      BY <1>12, <1>t DEF NotifyAll, OwnerGoto, Asleep, Holders
    <2>2. Held' = Held
      BY <2>1 DEF Held
    <2>. QED
      BY <2>1, <2>2, JobsStay DEF ledgerVars
  <1>. QED
    BY <1>1, <1>2, <1>3, <1>4, <1>5, <1>6, <1>7, <1>8, <1>9, <1>10, <1>11, <1>12
       DEF Next, Process, JoinAllStep

\* Every behaviour of the pool is one of the ledger.
THEOREM PoolImplementsLedger == Spec => LedgerSpec
  <1>1. Spec => []AdmitInv
    BY FullInvariant, AdmitInit, AdmitStep, PTL DEF Spec
  <1>. QED
    BY <1>1, FullInvariant, LedgerInitially, LedgerStep, PTL
       DEF Spec, LedgerSpec, Ledger!LedgerSpec, Ledger!ledgerVars, ledgerVars
=============================================================================
