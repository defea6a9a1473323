------------------------------- MODULE CNode -------------------------------
(***************************************************************************)
(* src/cnode.cpp: process, which the main loop calls with one message      *)
(* after the other, and processV8, which the threads of the pool run as a  *)
(* job.  The pool is what JobLedger says of it, with the counter jobsLeft  *)
(* that addJob looks at; the V8 runner is what ScriptStore says of it,     *)
(* with the two sides of _compileMutex, which get_statistics takes too.    *)
(* The commands are about one pair (conv, node), and a compile's source is *)
(* known by its request.  A message is well-formed.  main ends with the     *)
(* connection: it destroys the CNode, then the pool, then the runner.      *)
(***************************************************************************)
EXTENDS Integers, FiniteSets, Sequences

CONSTANTS Requests, Threads,
          Commands,      \* the commands the clients of this instance send
          MaxQueueSize,
          Limits,        \* the values set_max_diff_time is given
          FirstLimit,    \* the one _maxDiffTime starts with
          Levels,        \* the priorities set_priority is given
          MaxClock,      \* bound: the last time the clock shows
          Absent, Empty, \* what _functions holds, as in ScriptStore
          NoThread, NoRequest, NoCommand, NoResult

\* The commands that processV8 knows, and those whose handler in process
\* reads and sets nothing of the node's own.
JobCommands == {"check_code", "compile", "remove", "run"}
PlainCommands == {"get_max_diff_time", "set_max_time_exec_threshold",
                  "get_max_time_exec_threshold", "get_require_cache_file",
                  "update_require_cache_file", "get_priorities"}
AdminCommands == PlainCommands \cup {"get_statistics", "set_max_diff_time", "set_priority",
                                     "remove_priority"}
AllCommands == AdminCommands \cup JobCommands \cup {"unknown"}

\* What a request may be answered with; a run is answered with what the pair holds.
Refusals == {"SOCKET_TIMEOUT", "THREAD_POOL_TIMEOUT", "THREAD_POOL_EXHAUSTED"}
Results == Refusals \cup {"OK", "ERR", "COMPILE_ERR", Absent, Empty} \cup Requests

ASSUME RequestsAssumption == IsFiniteSet(Requests) /\ NoRequest \notin Requests
ASSUME ThreadsAssumption == IsFiniteSet(Threads) /\ NoThread \notin Threads
ASSUME CommandsAssumption == Commands \subseteq AllCommands /\ NoCommand \notin AllCommands
ASSUME SizeAssumption == MaxQueueSize \in Nat /\ MaxClock \in Nat
ASSUME LimitsAssumption == Limits \subseteq Nat /\ FirstLimit \in Limits /\ Levels \subseteq Int
ASSUME MarksAssumption == /\ Absent # Empty /\ {Absent, Empty} \cap Requests = {}
                          /\ Refusals \cap (Requests \cup {Absent, Empty}) = {}
                          /\ NoResult \notin Results

VARIABLES
  clock,
  maxDiffTime, priorityMap,   \* _maxDiffTime and _priorityMap
  pc, current,                \* where process is, and with which message
  command, timestamp,         \* of each message received
  queue, jobsLeft,            \* the pool's queue and its counter
  priority, added,            \* of each job: its priority and timeWhenTaskHasBeenAdded
  tpc, job, resp,             \* where each thread is, its job, and the reply it will send
  content,                    \* what _functions holds for the pair
  compiling,                  \* the thread with the unique side of _compileMutex
  effects,                    \* history: the compiles and removes done, in their order
  replies,                    \* what each request was sent
  stage                       \* how far main has come

nodeVars == <<maxDiffTime, priorityMap>>
messageVars == <<command, timestamp>>
processVars == <<pc, current>>
poolVars == <<queue, jobsLeft, priority, added>>
threadVars == <<tpc, job, resp>>
storeVars == <<content, compiling, effects>>
aroundVars == <<clock, stage>>
mainVars == <<aroundVars, nodeVars, messageVars, processVars>>  \* what no job changes
behindVars == <<poolVars, threadVars, storeVars>>          \* what process leaves to the jobs
vars == <<clock, nodeVars, messageVars, processVars, poolVars, threadVars, storeVars, replies, stage>>

Init == /\ clock = 0
        /\ maxDiffTime = FirstLimit
        /\ priorityMap = [c \in JobCommands |-> IF c \in {"compile", "remove"} THEN 1 ELSE 0]
        /\ pc = "receive" /\ current = NoRequest
        /\ command = [r \in Requests |-> NoCommand]
        /\ timestamp = [r \in Requests |-> 0]
        /\ queue = {} /\ jobsLeft = 0
        /\ priority = [r \in Requests |-> 0]
        /\ added = [r \in Requests |-> 0]
        /\ tpc = [t \in Threads |-> "idle"]
        /\ job = [t \in Threads |-> NoRequest]
        /\ resp = [t \in Threads |-> NoResult]
        /\ content = Absent /\ compiling = NoThread /\ effects = <<>>
        /\ replies = [r \in Requests |-> <<>>]
        /\ stage = "serving"

Tick == /\ clock < MaxClock
        /\ clock' = clock + 1
        /\ UNCHANGED <<behindVars, nodeVars, messageVars, processVars, replies, stage>>

-----------------------------------------------------------------------------
\* The main loop and process.

\* erl_receive_msg; the client's clock may be ahead of ours or behind.
Receive(r, c, s) ==
  /\ pc = "receive" /\ stage = "serving"
  /\ command[r] = NoCommand
  /\ pc' = "check" /\ current' = r
  /\ command' = [command EXCEPT ![r] = c]
  /\ timestamp' = [timestamp EXCEPT ![r] = s]
  /\ UNCHANGED <<behindVars, aroundVars, nodeVars, replies>>

\* Mutant: a branch sends its reply and goes on to the erl_send at the end.
RepliedTwice(r, x) == [replies EXCEPT ![r] = @ \o <<x, x>>]

\* One erl_send of x to the sender of r.
Replied(r, x) == [replies EXCEPT ![r] = Append(@, x)]

\* erl_send from process, which then returns.
Send(x) == /\ replies' = Replied(current, x)
           /\ pc' = "receive" /\ current' = NoRequest

\* abs(timeNow - timestamp) > _maxDiffTime
TooFar(r) == \/ clock - timestamp[r] > maxDiffTime
             \/ timestamp[r] - clock > maxDiffTime

SocketTimeout == /\ pc = "check"
                 /\ TooFar(current)
                 /\ Send("SOCKET_TIMEOUT")
                 /\ UNCHANGED <<behindVars, aroundVars, nodeVars, messageVars>>

InTime == /\ pc = "check" /\ pc' = "command"
          /\ ~ TooFar(current)
          /\ UNCHANGED <<behindVars, aroundVars, nodeVars, messageVars, current, replies>>

On(c) == pc = "command" /\ command[current] = c

\* What these commands do is up to the runner and its caches, and so is the wait of
\* update_require_cache_file for _requireCacheMutex (Runner has it).  A file or name that is
\* not there is answered with an error, here with OK as well.
Plain == /\ \E c \in PlainCommands : On(c)
         /\ Send("OK")
         /\ UNCHANGED <<behindVars, aroundVars, nodeVars, messageVars>>

\* isolates_count takes the shared side of _compileMutex.
GetStatistics == /\ On("get_statistics")
                 /\ compiling = NoThread
                 /\ Send("OK")
                 /\ UNCHANGED <<behindVars, aroundVars, nodeVars, messageVars>>

SetMaxDiffTime(d) == /\ On("set_max_diff_time")
                     /\ maxDiffTime' = d
                     /\ Send("OK")
                     /\ UNCHANGED <<behindVars, aroundVars, priorityMap, messageVars>>

\* A priority may be set for any word.
Words == JobCommands \cup {"unknown"}

SetPriority(w, p) ==
  /\ On("set_priority")
  /\ priorityMap' = [c \in DOMAIN priorityMap \cup {w} |-> IF c = w THEN p ELSE priorityMap[c]]
  /\ Send("OK")
  /\ UNCHANGED <<behindVars, aroundVars, maxDiffTime, messageVars>>

RemovePriority(w) ==
  /\ On("remove_priority")
  /\ priorityMap' = [c \in DOMAIN priorityMap \ {w} |-> priorityMap[c]]
  /\ Send("OK")
  /\ UNCHANGED <<behindVars, aroundVars, maxDiffTime, messageVars>>

\* Whatever is no command of process becomes a job.
IsJob == pc = "command" /\ command[current] \notin AdminCommands

\* _priorityMap[func], which makes an entry with 0 where there is none.
PriorityOf(c) == IF c \in DOMAIN priorityMap THEN priorityMap[c] ELSE 0

\* Mutant: the entry is set to 0, be it there or not.
LookedAnew(c) == [w \in DOMAIN priorityMap \cup {c} |-> IF w = c THEN 0 ELSE PriorityOf(w)]

Looked(c) == [w \in DOMAIN priorityMap \cup {c} |-> PriorityOf(w)]

\* Mutant: one job too many.
FullTooLate == jobsLeft > MaxQueueSize

Full == jobsLeft >= MaxQueueSize

\* Mutant: the job is not counted.
NotCounted == jobsLeft

Counted == jobsLeft + 1

AddJob == /\ IsJob
          /\ priorityMap' = Looked(command[current])
          /\ ~ Full
          /\ queue' = queue \cup {current}
          /\ jobsLeft' = Counted
          /\ priority' = [priority EXCEPT ![current] = PriorityOf(command[current])]
          /\ added' = [added EXCEPT ![current] = clock]
          /\ pc' = "receive" /\ current' = NoRequest
          /\ UNCHANGED <<aroundVars, maxDiffTime, messageVars, threadVars, storeVars, replies>>

\* Mutant: the result of addJob is not looked at.
RefuseInSilence == pc' = "receive" /\ current' = NoRequest /\ UNCHANGED replies

Refuse == Send("THREAD_POOL_EXHAUSTED")

Exhausted == /\ IsJob
             /\ priorityMap' = Looked(command[current])
             /\ Full
             /\ Refuse
             /\ UNCHANGED <<behindVars, aroundVars, maxDiffTime, messageVars>>

-----------------------------------------------------------------------------
\* processV8 in a thread of the pool.

\* The pool starts the most urgent job, as JobLedger says.
StartJob(t, r) ==
  /\ tpc[t] = "idle" /\ tpc' = [tpc EXCEPT ![t] = "judge"]
  /\ r \in queue
  /\ \A q \in queue : priority[q] <= priority[r]
  /\ queue' = queue \ {r}
  /\ job' = [job EXCEPT ![t] = r]
  /\ UNCHANGED <<mainVars, jobsLeft, priority, added, resp, storeVars, replies>>

\* timeNow - timeWhenTaskHasBeenAdded > _maxDiffTime
Waited(r) == clock - added[r] > maxDiffTime

\* Once the CNode is destroyed, _maxDiffTime is whatever its memory holds.
Verdicts(r) == IF stage = "serving" THEN {Waited(r)} ELSE BOOLEAN

\* Mutant: the command is looked at whether it waited too long or not.
JudgedAnyway(late) == "command"

Judged(late) == IF late THEN "send" ELSE "command"

\* The second deadline, with the limit as it is by now.
Judge(t, late) ==
  /\ tpc[t] = "judge" /\ tpc' = [tpc EXCEPT ![t] = Judged(late)]
  /\ late \in Verdicts(job[t])
  /\ resp' = IF late THEN [resp EXCEPT ![t] = "THREAD_POOL_TIMEOUT"] ELSE resp
  /\ UNCHANGED <<mainVars, poolVars, job, storeVars, replies>>

\* The thread is done with the command and has x to send.
Respond(t, from, x) == /\ tpc[t] = from /\ tpc' = [tpc EXCEPT ![t] = "send"]
                       /\ resp' = [resp EXCEPT ![t] = x]

Command(t) == IF job[t] = NoRequest THEN NoCommand ELSE command[job[t]]

\* Mutant: check_code leaves what it compiled in the pair.
CheckedIn(t) == job[t]

\* checkCode has an isolate of its own and leaves the pair as it is.
Checked(t) == content

CheckCode(t) ==
  /\ Command(t) = "check_code"
  /\ \E x \in {"OK", "COMPILE_ERR"} : Respond(t, "command", x)
  /\ content' = Checked(t)
  /\ UNCHANGED <<mainVars, poolVars, job, compiling, effects, replies>>

Unsupported(t) ==
  /\ Command(t) = "unknown"
  /\ Respond(t, "command", "ERR")
  /\ UNCHANGED <<mainVars, poolVars, job, storeVars, replies>>

Unlocked == compiling = NoThread /\ \A t \in Threads : tpc[t] # "run"

BeginCompile(t) ==
  /\ tpc[t] = "command" /\ tpc' = [tpc EXCEPT ![t] = "compile"]
  /\ Command(t) = "compile"
  /\ Unlocked
  /\ compiling' = t
  /\ UNCHANGED <<mainVars, poolVars, job, resp, content, effects, replies>>

\* The command of r has done what it does to the pair.
TakesEffect(r) == effects' = Append(effects, r)

\* The old function is gone whether the new one compiles or not.
Dropped == IF content = Absent THEN Absent ELSE Empty

EndCompile(t) ==
  /\ \/ Respond(t, "compile", "OK") /\ content' = job[t]
     \/ Respond(t, "compile", "COMPILE_ERR") /\ content' = Dropped
  /\ TakesEffect(job[t])
  /\ compiling' = NoThread
  /\ UNCHANGED <<mainVars, poolVars, job, replies>>

Remove(t) ==
  /\ Command(t) = "remove"
  /\ Unlocked
  /\ Respond(t, "command", "OK")
  /\ content' = Dropped
  /\ TakesEffect(job[t])
  /\ UNCHANGED <<mainVars, poolVars, job, compiling, replies>>

\* Mutant: run does not lock.
NotLocked == TRUE

\* The shared side of _compileMutex is to be had.
Shareable == compiling = NoThread

\* The pair is looked up, under the shared side; what the function makes of its
\* input is left out.
BeginRun(t) ==
  /\ tpc[t] = "command" /\ tpc' = [tpc EXCEPT ![t] = "run"]
  /\ Command(t) = "run"
  /\ Shareable
  /\ resp' = [resp EXCEPT ![t] = content]
  /\ UNCHANGED <<mainVars, poolVars, job, storeVars, replies>>

EndRun(t) ==
  /\ tpc[t] = "run" /\ tpc' = [tpc EXCEPT ![t] = "send"]
  /\ UNCHANGED <<mainVars, poolVars, job, resp, storeVars, replies>>

\* erl_send, at the end of every branch.
SendResp(t) ==
  /\ tpc[t] = "send" /\ tpc' = [tpc EXCEPT ![t] = "finish"]
  /\ replies' = Replied(job[t], resp[t])
  /\ resp' = [resp EXCEPT ![t] = NoResult]
  /\ UNCHANGED <<mainVars, poolVars, job, storeVars>>

\* Back in the pool's thread: jobsLeft -= 1.
FinishJob(t) ==
  /\ tpc[t] = "finish" /\ tpc' = [tpc EXCEPT ![t] = "idle"]
  /\ job' = [job EXCEPT ![t] = NoRequest]
  /\ jobsLeft' = jobsLeft - 1
  /\ UNCHANGED <<mainVars, queue, priority, added, resp, storeVars, replies>>

-----------------------------------------------------------------------------
\* The end of main.

\* erl_receive_msg fails, the loop ends, and cnode, the only owner, goes.
Disconnect == /\ stage = "serving" /\ stage' = "ended"
              /\ pc = "receive"
              /\ UNCHANGED <<clock, behindVars, nodeVars, messageVars, processVars, replies>>

\* A job that is not done reads _maxDiffTime or _v8 of the CNode that is gone, and
\* what it reads may be no pointer any more.
Crash(t) == /\ stage = "ended" /\ stage' = "crashed"
            /\ \/ tpc[t] = "judge"
               \/ tpc[t] = "command" /\ Command(t) # "unknown"
            /\ UNCHANGED <<clock, behindVars, nodeVars, messageVars, processVars, replies>>

AllIdle == \A t \in Threads : tpc[t] = "idle"

\* Mutant: the pool's destructor calls joinAll(false).
Drained == AllIdle

\* The pool's destructor calls joinAll, which waits until no job is left.
Joinable == queue = {} /\ AllIdle

JoinPool == /\ stage = "ended" /\ stage' = "joined"
            /\ Joinable
            /\ UNCHANGED <<clock, behindVars, nodeVars, messageVars, processVars, replies>>

\* ~V8Runner calls cleanData.
DestroyRunner == /\ stage = "joined" /\ stage' = "over"
                 /\ content' = Absent
                 /\ UNCHANGED <<clock, poolVars, threadVars, compiling, effects, nodeVars,
                                messageVars, processVars, replies>>

\* Nothing is left to do, or nobody to do it.
Over == stage \in {"over", "crashed"} /\ UNCHANGED vars

-----------------------------------------------------------------------------
Process == \/ SocketTimeout \/ InTime \/ Plain \/ GetStatistics
           \/ \E d \in Limits : SetMaxDiffTime(d)
           \/ \E w \in Words : RemovePriority(w) \/ \E p \in Levels : SetPriority(w, p)
           \/ AddJob \/ Exhausted

\* What a thread of the pool does next.
JobStep(t) == /\ stage # "crashed"
              /\ \/ \E r \in Requests : StartJob(t, r)
                 \/ \E late \in BOOLEAN : Judge(t, late)
                 \/ CheckCode(t) \/ Unsupported(t) \/ Remove(t)
                 \/ BeginCompile(t) \/ EndCompile(t) \/ BeginRun(t) \/ EndRun(t)
                 \/ SendResp(t) \/ FinishJob(t)

Next == \/ stage # "crashed" /\ Tick
        \/ \E r \in Requests, c \in Commands, s \in 0..MaxClock : Receive(r, c, s)
        \/ Process
        \/ \E t \in Threads : JobStep(t) \/ Crash(t)
        \/ Disconnect \/ JoinPool \/ DestroyRunner \/ Over

\* The main thread and the pool's threads are scheduled, scripts end, and a side
\* of _compileMutex that keeps becoming free is had in the end.  Nobody is
\* obliged to send a message or to end the connection.
Fairness == SF_vars(Process) /\ \A t \in Threads : SF_vars(JobStep(t))

Spec == Init /\ [][Next]_vars
FairSpec == Spec /\ Fairness

-----------------------------------------------------------------------------
\* Properties.

\* Every variable has its type; jobsLeft never goes below zero, and the map of
\* priorities only ever has words that some message was about.
TypeOK ==
  /\ clock \in 0..MaxClock /\ maxDiffTime \in Limits
  /\ DOMAIN priorityMap \subseteq Words
  /\ priorityMap \in [DOMAIN priorityMap -> Levels \cup {0, 1}]
  /\ pc \in {"receive", "check", "command"}
  /\ current \in Requests \cup {NoRequest}
  /\ command \in [Requests -> Commands \cup {NoCommand}]
  /\ timestamp \in [Requests -> 0..MaxClock]
  /\ queue \subseteq Requests /\ jobsLeft \in Nat
  /\ priority \in [Requests -> Levels \cup {0, 1}]
  /\ added \in [Requests -> 0..MaxClock]
  /\ tpc \in [Threads -> {"idle", "judge", "command", "compile", "run", "send", "finish"}]
  /\ job \in [Threads -> Requests \cup {NoRequest}]
  /\ resp \in [Threads -> Results \cup {NoResult}]
  /\ content \in Requests \cup {Absent, Empty} /\ compiling \in Threads \cup {NoThread}
  /\ effects \in Seq(Requests)
  /\ stage \in {"serving", "ended", "joined", "over", "crashed"}
  /\ \A r \in Requests : \A i \in 1..Len(replies[r]) : replies[r][i] \in Results

Hands(r) == {t \in Threads : job[t] = r /\ tpc[t] # "finish"}
One(b) == IF b THEN 1 ELSE 0

\* A message that was received is answered at most once, and until it is, it is
\* in exactly one place: in process, in the queue, or with one thread.
AnsweredOnce ==
  \A r \in Requests :
    command[r] # NoCommand =>
      Len(replies[r]) + One(current = r) + One(r \in queue) + Cardinality(Hands(r)) = 1

\* process is the only caller of addJob, so here the limit is kept, the jobs in
\* the threads' hands included.
LimitKept == /\ jobsLeft = Cardinality(queue) + Cardinality({t \in Threads : tpc[t] # "idle"})
             /\ jobsLeft <= MaxQueueSize

\* A compile that was answered OK has taken effect, and is in force until another compile
\* or a remove takes effect after it: nothing else, be it a check, a run, a refused command,
\* administration or one that was done earlier and is answered later, undoes it.
AcknowledgedCompileHolds ==
  \A r \in Requests :
    command[r] = "compile" /\ replies[r] = <<"OK">> =>
      \E i \in DOMAIN effects :
        effects[i] = r /\ (i < Len(effects) \/ content = r \/ stage = "over")

\* main ends cleanly, with jobs queued and running when the connection ends: when
\* the runner is destroyed every message received has had its erl_send and no
\* thread is in a job, so none is in the runner.
ExitIsClean == stage \in {"joined", "over"} =>
                 /\ AllIdle
                 /\ \A r \in Requests : command[r] # NoCommand => replies[r] # <<>>

\* Only set_priority and remove_priority change what priority a command has, though
\* every job writes to _priorityMap when it looks its own up.
PrioritiesStay ==
  [][\A w \in Words : PriorityOf(w)' # PriorityOf(w) => On("set_priority") \/ On("remove_priority")]_vars

\* Process and pool together implement CommandService: every answer is the
\* outcome of a command that took effect once, between its request and its
\* answer, or of one that did nothing.
Deciders(r) == {t \in Threads : job[t] = r /\ resp[t] # NoResult}
Result == [r \in Requests |->
             IF replies[r] # <<>> THEN replies[r][1]
             ELSE IF Deciders(r) # {} THEN resp[CHOOSE t \in Deciders(r) : TRUE]
             ELSE NoResult]
Service == INSTANCE CommandService WITH CommandNames <- AllCommands, result <- Result,
             answered <- {r \in Requests : replies[r] # <<>>}
ServiceSpec == Service!ServiceSpec

\* What JobLedger promises of the pool is all that is used of it here, and with one
\* caller of addJob: no job is refused while there is room, none is done without its
\* reply, and the pool is closed when every one is.
Sent(r) == IF command[r] \in AdminCommands \/ replies[r] \in {<<>>, <<"SOCKET_TIMEOUT">>} THEN "new"
           ELSE IF replies[r] = <<"THREAD_POOL_EXHAUSTED">> THEN "refused"
           ELSE "done"
Fate == [r \in Requests |-> IF r \in queue THEN "queued"
                            ELSE IF Hands(r) # {} THEN "running"
                            ELSE Sent(r)]
Phase == CASE stage = "serving"            -> "open"
           [] stage \in {"ended", "crashed"} -> "draining"
           [] OTHER                        -> "closed"

Ledger == INSTANCE JobLedger WITH Jobs <- Requests, Callers <- 1, fate <- Fate,
            left <- jobsLeft, phase <- Phase
LedgerSpec == Ledger!LedgerSpec

\* What ScriptStore promises of the runner is all that is used of it: compile drops
\* the old function some time before it has the new one, and no run gets to see the
\* pair in between or what it held before.
Holds == IF compiling # NoThread /\ content # Absent THEN Empty ELSE content
Asked == [t \in Threads |->
            IF Command(t) = "run" /\ tpc[t] \in {"command", "run"} THEN "pair" ELSE "none"]
Found == [t \in Threads |-> IF tpc[t] = "run" THEN resp[t] ELSE NoResult]
Store == INSTANCE ScriptStore WITH Pairs <- {"pair"}, NoPair <- "none", Scripts <- Requests,
           Unknown <- Absent, Broken <- Empty, NoAnswer <- NoResult,
           content <- [p \in {"pair"} |-> Holds], asked <- Asked, answer <- Found
StoreSpec == Store!StoreSpec

\* Every message that is received is answered, the one that has to wait for a
\* compile, the one of the lowest priority and the one still queued when the
\* connection ends included; only a crash can prevent it.
EveryRequestAnswered ==
  \A r \in Requests : command[r] # NoCommand ~> replies[r] # <<>> \/ stage = "crashed"
=============================================================================
